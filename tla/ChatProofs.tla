------------------------------ MODULE ChatProofs ------------------------------
(***************************************************************************)
(* Proofs about Chat for every number of people, of chats and of threads,  *)
(* every batch and number of pages, and every number of messages and       *)
(* restarts.                                                               *)
(*                                                                         *)
(* Invitations.  An invitation is consumed as the last but one step of     *)
(* parse_invite, so what a call has yet to do is followed (Plan): the list *)
(* is there before a chat is inserted into it, and a call that has         *)
(* inserted the chat and not yet consumed the invitation finds it listed   *)
(* (JobOK).  Lists only grow and vectors stay (Grows), so that a step of   *)
(* one call keeps what the calls of other threads rely on.                 *)
(*                                                                         *)
(* The last message.  A place in the order of the messages is the number   *)
(* of messages that are not earlier; what is beyond the pages read is not  *)
(* later than what is on them (WindowFirst), and the pages end at a        *)
(* message that was never edited or with the last message (LastPage).      *)
(***************************************************************************)
EXTENDS Chat, FiniteSetTheorems, SequenceTheorems, WellFoundedInduction, TLAPS

------------------------------------------------------------------------------
(* Invitations.                                                              *)

StepNames == {"store", "mychats", "insert", "invite", "consume", "message", "assign"}

(* A step that a call has yet to do. *)
Has(s, x) == \E i \in 1 .. Len(s) : s[i] = x

ParseTails == {ParseSteps, <<"insert", "consume", "message">>, <<"consume", "message">>}

(* What a call has yet to do: the list is there before a chat is inserted, and
   an invitation is removed by parse_invite alone. *)
Plan(s) ==
    /\ s \in Seq(StepNames)
    /\ \A i \in 1 .. Len(s) - 1 : s[i] = "mychats" => s[i + 1] = "insert"
    /\ \A i \in 2 .. Len(s) : s[i] = "insert" => s[i - 1] = "mychats"
    /\ Has(s, "consume") => s \in ParseTails

Job == [steps : Seq(StepNames), chat : Nat, seen : Seq(ChatIds)]
Vector == [owner : Persons, channel : BOOLEAN, peer : Persons \union {None}]

Listed(L, p, c) == L[p] # None /\ c \in ToSet(L[p])

(* The chat c was made for p to join. *)
Asked(V, p, c) == c \in ChatIds /\ V[c] # None /\ V[c].peer = p

(* What a call relies on before its next steps. *)
JobOK(L, V, p, j) ==
    /\ j \in Job /\ Plan(j.steps)
    /\ j.steps # <<>> /\ Head(j.steps) = "insert" => L[p] # None
    /\ Has(j.steps, "insert") => j.chat \in ChatIds
    /\ Has(j.steps, "invite") => \E q \in Persons : Asked(V, q, j.chat)
    /\ Has(j.steps, "consume") => Asked(V, p, j.chat)
    /\ j.steps # <<>> /\ Head(j.steps) = "consume" => Listed(L, p, j.chat)

JobsOK ==
    /\ job \in [Persons -> [Threads -> Job]]
    /\ \A p \in Persons, th \in Threads : JobOK(list, vector, p, job[p][th])

(* The inductive invariant: what is asked for was made for somebody, and what
   is gone is listed. *)
ListInv ==
    /\ list \in [Persons -> Seq(ChatIds) \union {None}]
    /\ vector \in [ChatIds -> Vector \union {None}]
    /\ JobsOK
    /\ todo \in [Persons -> SUBSET ChatIds]
    /\ \A p \in Persons : \A c \in todo[p] : Asked(vector, p, c)
    /\ \A c \in invites : \E p \in Persons : Asked(vector, p, c)
    /\ here \subseteq invites
    /\ \A c \in gone : \E p \in Persons : Asked(vector, p, c) /\ Listed(list, p, c)

(* No vector changes and no list loses a chat. *)
Grows(L, V, L2, V2) ==
    /\ \A c \in ChatIds : V[c] # None => V2[c] = V[c]
    /\ \A p \in Persons : L[p] # None => L2[p] # None /\ ToSet(L[p]) \subseteq ToSet(L2[p])

------------------------------------------------------------------------------

(* The steps that remain. *)
LEMMA TailFacts ==
  ASSUME NEW s \in Seq(StepNames), s # <<>>
  PROVE  /\ Tail(s) \in Seq(StepNames) /\ Len(Tail(s)) = Len(s) - 1 /\ Len(s) \in Nat \ {0}
         /\ \A i \in 1 .. Len(s) - 1 : Tail(s)[i] = s[i + 1]
         /\ \A x : Has(Tail(s), x) => Has(s, x)
         /\ Head(s) = s[1] /\ Has(s, Head(s))
         /\ Tail(s) # <<>> => Head(Tail(s)) = s[2] /\ Len(s) >= 2
<1>1. /\ Tail(s) \in Seq(StepNames) /\ Len(Tail(s)) = Len(s) - 1 /\ Len(s) \in Nat \ {0}
      /\ \A i \in 1 .. Len(s) - 1 : Tail(s)[i] = s[i + 1]
  OBVIOUS
<1>2. \A x : Has(Tail(s), x) => Has(s, x)
  <2> SUFFICES ASSUME NEW x, Has(Tail(s), x) PROVE Has(s, x)
    OBVIOUS
  <2>1. PICK i \in 1 .. Len(s) - 1 : Tail(s)[i] = x
    BY <1>1 DEF Has
  <2>2. i + 1 \in 1 .. Len(s) /\ s[i + 1] = x
    BY <1>1, <2>1
  <2> QED BY <2>2 DEF Has
<1>3. Head(s) = s[1]
  OBVIOUS
<1>4. Has(s, Head(s))
  BY <1>1, <1>3 DEF Has
<1>5. Tail(s) # <<>> => Head(Tail(s)) = s[2] /\ Len(s) >= 2
  <2> SUFFICES ASSUME Tail(s) # <<>> PROVE Head(Tail(s)) = s[2] /\ Len(s) >= 2
    OBVIOUS
  <2>1. Head(Tail(s)) = Tail(s)[1] /\ Len(Tail(s)) >= 1
    BY <1>1
  <2> QED BY <1>1, <2>1
<1> QED BY <1>1, <1>2, <1>3, <1>4, <1>5

(* What parse_invite does. *)
LEMMA ParseFacts ==
  /\ ParseSteps \in Seq(StepNames) /\ ParseSteps # <<>> /\ Head(ParseSteps) = "mychats"
  /\ Plan(ParseSteps) /\ ~Has(ParseSteps, "invite")
  /\ \A s \in ParseTails : s \in Seq(StepNames) /\ s # <<>>
  /\ \A s \in ParseTails : /\ Head(s) = "mychats" => s = ParseSteps
                           /\ Tail(s) \in ParseTails \union {<<"message">>}
  /\ ~Has(<<"message">>, "consume")
<1>1. ParseSteps \in Seq(StepNames) /\ ParseSteps # <<>> /\ Head(ParseSteps) = "mychats"
  <2>1. ParseSteps \in Seq(StepNames)
    BY DEF ParseSteps, StepNames
  <2>2. ParseSteps # <<>>
    BY DEF ParseSteps
  <2> QED BY <2>1, <2>2 DEF ParseSteps
<1>2. Plan(ParseSteps) /\ ~Has(ParseSteps, "invite")
  <2>1. \A i \in 1 .. Len(ParseSteps) - 1 :
          ParseSteps[i] = "mychats" => ParseSteps[i + 1] = "insert"
    BY DEF ParseSteps
  <2>2. \A i \in 2 .. Len(ParseSteps) : ParseSteps[i] = "insert" => ParseSteps[i - 1] = "mychats"
    BY DEF ParseSteps
  <2>3. ~Has(ParseSteps, "invite")
    BY DEF ParseSteps, Has
  <2> QED BY <1>1, <2>1, <2>2, <2>3 DEF Plan, ParseTails
<1>3. \A s \in ParseTails : s \in Seq(StepNames) /\ s # <<>>
  <2>1. <<"insert", "consume", "message">> \in Seq(StepNames)
    BY DEF StepNames
  <2>2. <<"consume", "message">> \in Seq(StepNames)
    BY DEF StepNames
  <2>3. \A s \in ParseTails : s # <<>>
    BY DEF ParseTails, ParseSteps
  <2> QED BY <1>1, <2>1, <2>2, <2>3 DEF ParseTails
<1>4. \A s \in ParseTails : Head(s) = "mychats" => s = ParseSteps
  BY DEF ParseTails, ParseSteps
<1>5. \A s \in ParseTails : Tail(s) \in ParseTails \union {<<"message">>}
  <2>1. Tail(ParseSteps) = <<"insert", "consume", "message">>
    BY DEF ParseSteps
  <2>2. Tail(<<"insert", "consume", "message">>) = <<"consume", "message">>
    OBVIOUS
  <2>3. Tail(<<"consume", "message">>) = <<"message">>
    OBVIOUS
  <2> QED BY <2>1, <2>2, <2>3 DEF ParseTails
<1>6. ~Has(<<"message">>, "consume")
  BY DEF Has
<1> QED BY <1>1, <1>2, <1>3, <1>4, <1>5, <1>6

LEMMA TailPlan ==
  ASSUME NEW s, Plan(s), s # <<>>
  PROVE  Plan(Tail(s))
<1>1. s \in Seq(StepNames)
  BY DEF Plan
<1>2. Has(Tail(s), "consume") => Tail(s) \in ParseTails
  <2> SUFFICES ASSUME Has(Tail(s), "consume") PROVE Tail(s) \in ParseTails
    OBVIOUS
  <2>1. s \in ParseTails
    BY <1>1, TailFacts DEF Plan
  <2> QED BY <2>1, ParseFacts
<1>3. \A i \in 1 .. Len(Tail(s)) - 1 : Tail(s)[i] = "mychats" => Tail(s)[i + 1] = "insert"
  <2> SUFFICES ASSUME NEW i \in 1 .. Len(Tail(s)) - 1, Tail(s)[i] = "mychats"
               PROVE  Tail(s)[i + 1] = "insert"
    OBVIOUS
  <2>1. i + 1 \in 1 .. Len(s) - 1 /\ Tail(s)[i] = s[i + 1] /\ Tail(s)[i + 1] = s[(i + 1) + 1]
    BY <1>1, TailFacts
  <2> QED BY <2>1 DEF Plan
<1>4. \A i \in 2 .. Len(Tail(s)) : Tail(s)[i] = "insert" => Tail(s)[i - 1] = "mychats"
  <2> SUFFICES ASSUME NEW i \in 2 .. Len(Tail(s)), Tail(s)[i] = "insert"
               PROVE  Tail(s)[i - 1] = "mychats"
    OBVIOUS
  <2>1. i + 1 \in 2 .. Len(s) /\ Tail(s)[i] = s[i + 1] /\ Tail(s)[i - 1] = s[(i + 1) - 1]
    BY <1>1, TailFacts
  <2> QED BY <2>1 DEF Plan
<1> QED BY <1>1, <1>2, <1>3, <1>4, TailFacts DEF Plan

(* Without the template the call goes on after the insertion. *)
LEMMA SkipPlan ==
  ASSUME NEW s, Plan(s), s # <<>>, Head(s) = "mychats", s # ParseSteps,
         NEW u, u = SubSeq(s, 2 + 1, Len(s))
  PROVE  /\ Plan(u) /\ ~Has(u, "consume") /\ (u # <<>> => Head(u) # "insert")
         /\ \A x : Has(u, x) => Has(s, x)
<1>1. s \in Seq(StepNames) /\ Len(s) \in Nat /\ s[1] = "mychats"
  BY DEF Plan
<1>2. /\ u \in Seq(StepNames) /\ (Len(s) >= 2 => Len(u) = Len(s) - 2) /\ (Len(s) < 2 => u = <<>>)
      /\ \A i \in 1 .. Len(s) - 2 : u[i] = s[i + 2]
  <2>1. CASE Len(s) >= 2
    <3>1. \A i \in 3 .. Len(s) : s[i] \in StepNames
      BY <1>1
    <3>2. /\ u \in Seq(StepNames) /\ Len(u) = IF 3 <= Len(s) THEN Len(s) - 3 + 1 ELSE 0
          /\ \A i \in 1 .. Len(s) - 3 + 1 : u[i] = s[3 + i - 1]
      BY <1>1, <3>1, SubSeqProperties
    <3>3. \A i \in 1 .. Len(s) - 2 : i \in 1 .. Len(s) - 3 + 1 /\ 3 + i - 1 = i + 2
      BY <1>1, <2>1
    <3>4. \A i \in 1 .. Len(s) - 2 : u[i] = s[i + 2]
      BY <3>2, <3>3
    <3>5. Len(u) = Len(s) - 2
      <4>1. \A k, n \in Nat : k >= 2 /\ n = (IF 3 <= k THEN k - 3 + 1 ELSE 0) => n = k - 2
        OBVIOUS
      <4>2. Len(u) \in Nat
        BY <3>2
      <4> QED BY <1>1, <2>1, <3>2, <4>1, <4>2
    <3> QED BY <2>1, <1>1, <3>2, <3>4, <3>5
  <2>2. CASE Len(s) < 2
    BY <1>1, <2>2, SubSeqEmpty
  <2> QED BY <1>1, <2>1, <2>2
<1>3. \A i \in 1 .. Len(u) : i + 2 \in 1 .. Len(s) /\ u[i] = s[i + 2]
  BY <1>1, <1>2
<1>4. \A x : Has(u, x) => Has(s, x)
  BY <1>3 DEF Has
<1>5. ~Has(u, "consume")
  <2>1. ~Has(s, "consume")
    BY ParseFacts DEF Plan
  <2> QED BY <1>4, <2>1
<1>6. u # <<>> => Head(u) # "insert"
  <2> SUFFICES ASSUME u # <<>> PROVE Head(u) # "insert"
    OBVIOUS
  <2>1. 1 \in 1 .. Len(u) /\ Head(u) = u[1] /\ u[1] = s[3] /\ 3 \in 1 .. Len(s)
    BY <1>2, <1>3
  <2>2. s[2] = "insert"
    BY <1>1, <2>1 DEF Plan
  <2>3. s[3] = "insert" => s[2] = "mychats"
    BY <1>1, <2>1 DEF Plan
  <2> QED BY <2>1, <2>2, <2>3
<1>7. \A i \in 1 .. Len(u) - 1 : u[i] = "mychats" => u[i + 1] = "insert"
  <2> SUFFICES ASSUME NEW i \in 1 .. Len(u) - 1, u[i] = "mychats" PROVE u[i + 1] = "insert"
    OBVIOUS
  <2>1. i + 2 \in 1 .. Len(s) - 1 /\ u[i] = s[i + 2] /\ u[i + 1] = s[(i + 2) + 1]
    BY <1>1, <1>2
  <2> QED BY <2>1 DEF Plan
<1>8. \A i \in 2 .. Len(u) : u[i] = "insert" => u[i - 1] = "mychats"
  <2> SUFFICES ASSUME NEW i \in 2 .. Len(u), u[i] = "insert" PROVE u[i - 1] = "mychats"
    OBVIOUS
  <2>1. i + 2 \in 2 .. Len(s) /\ u[i] = s[i + 2] /\ u[i - 1] = s[(i + 2) - 1]
    BY <1>1, <1>2
  <2> QED BY <2>1 DEF Plan
<1> QED BY <1>2, <1>4, <1>5, <1>6, <1>7, <1>8 DEF Plan

(* The call that does nothing. *)
LEMMA IdleOK ==
  ASSUME NEW L, NEW V, NEW p
  PROVE  JobOK(L, V, p, Idle)
<1>1. Idle.steps = <<>> /\ Idle \in Job /\ Len(Idle.steps) = 0
  BY DEF Idle, Job
<1>2. \A x : ~Has(Idle.steps, x)
  BY <1>1 DEF Has
<1>3. Plan(Idle.steps)
  BY <1>1, <1>2 DEF Plan
<1> QED BY <1>1, <1>2, <1>3 DEF JobOK

(* A call whose steps are s. *)
LEMMA CalledOK ==
  ASSUME NEW L, NEW V, NEW p, NEW c \in ChatIds, NEW s, Plan(s),
         s # <<>> => Head(s) \notin {"insert", "consume"},
         Has(s, "invite") => \E q \in Persons : Asked(V, q, c),
         Has(s, "consume") => Asked(V, p, c)
  PROVE  JobOK(L, V, p, [steps |-> s, chat |-> c, seen |-> <<>>])
<1> DEFINE j == [steps |-> s, chat |-> c, seen |-> <<>>]
<1>1. j.steps = s /\ j.chat = c
  OBVIOUS
<1>2. j \in Job
  BY DEF Job, ChatIds, Plan
<1> HIDE DEF j
<1>3. JobOK(L, V, p, j)
  BY <1>1, <1>2 DEF JobOK
<1> QED BY <1>3 DEF j

(* What a call relies on stays true. *)
LEMMA CarriedOK ==
  ASSUME NEW L, NEW V, NEW L2, NEW V2, Grows(L, V, L2, V2), NEW p \in Persons, NEW j,
         JobOK(L, V, p, j)
  PROVE  JobOK(L2, V2, p, j)
<1>1. \A q, c : Asked(V, q, c) => Asked(V2, q, c)
  BY DEF Asked, Grows
<1>2. \A c : Listed(L, p, c) => Listed(L2, p, c)
  BY DEF Listed, Grows
<1>3. L[p] # None => L2[p] # None
  BY DEF Grows
<1> QED BY <1>1, <1>2, <1>3 DEF JobOK

(* The call after its first step. *)
LEMMA TailOK ==
  ASSUME NEW L, NEW V, NEW p \in Persons, NEW j, JobOK(L, V, p, j), j.steps # <<>>,
         Head(j.steps) = "mychats" => L[p] # None,
         Head(j.steps) = "insert" => Listed(L, p, j.chat)
  PROVE  JobOK(L, V, p, [j EXCEPT !.steps = Tail(@)])
<1> DEFINE s == j.steps
           k == [j EXCEPT !.steps = Tail(@)]
<1>1. j \in Job /\ Plan(s) /\ s \in Seq(StepNames)
  BY DEF JobOK, Plan
<1>2. k.steps = Tail(s) /\ k.chat = j.chat
  BY <1>1 DEF Job
<1>3. Plan(Tail(s)) /\ \A x : Has(Tail(s), x) => Has(s, x)
  BY <1>1, TailPlan, TailFacts
<1>4. k \in Job
  BY <1>1, <1>3 DEF Job, Plan
<1>5. Tail(s) # <<>> => /\ Len(s) >= 2 /\ Head(Tail(s)) = s[2] /\ Head(s) = s[1]
                        /\ Len(s) \in Nat
  BY <1>1, TailFacts
<1>6. Tail(s) # <<>> /\ Head(Tail(s)) = "insert" => L[p] # None
  BY <1>1, <1>5 DEF Plan
<1>7. Tail(s) # <<>> /\ Head(Tail(s)) = "consume" => Listed(L, p, j.chat)
  <2> SUFFICES ASSUME Tail(s) # <<>>, Head(Tail(s)) = "consume" PROVE Listed(L, p, j.chat)
    OBVIOUS
  <2>1. s[2] = "consume" /\ Has(s, "consume")
    BY <1>5 DEF Has
  <2>2. s \in ParseTails
    BY <1>1, <2>1 DEF Plan
  <2>3. Head(s) = "insert"
    BY <2>1, <2>2 DEF ParseTails, ParseSteps
  <2> QED BY <2>3
<1>8. /\ Has(s, "insert") => j.chat \in ChatIds
      /\ Has(s, "invite") => \E q \in Persons : Asked(V, q, j.chat)
      /\ Has(s, "consume") => Asked(V, p, j.chat)
  BY DEF JobOK
<1> HIDE DEF k, s
<1>9. JobOK(L, V, p, k)
  BY <1>2, <1>3, <1>4, <1>6, <1>7, <1>8 DEF JobOK
<1> QED BY <1>9 DEF k

(* The call without its next two steps. *)
LEMMA SkipOK ==
  ASSUME NEW L, NEW V, NEW p \in Persons, NEW j, JobOK(L, V, p, j), j.steps # <<>>,
         Head(j.steps) = "mychats", j.steps # ParseSteps
  PROVE  JobOK(L, V, p, [j EXCEPT !.steps = SubSeq(j.steps, 2 + 1, Len(j.steps))])
<1> DEFINE s == j.steps
           u == SubSeq(s, 2 + 1, Len(s))
           k == [j EXCEPT !.steps = u]
<1>1. j \in Job /\ Plan(s) /\ s \in Seq(StepNames)
  BY DEF JobOK, Plan
<1>2. k.steps = u /\ k.chat = j.chat
  BY <1>1 DEF Job
<1>3. /\ Plan(u) /\ ~Has(u, "consume") /\ (u # <<>> => Head(u) # "insert")
      /\ \A x : Has(u, x) => Has(s, x)
  BY <1>1, SkipPlan
<1>4. k \in Job
  BY <1>1, <1>3 DEF Job, Plan
<1>5. u # <<>> => Head(u) # "consume"
  BY <1>3, TailFacts DEF Plan
<1>6. /\ Has(s, "insert") => j.chat \in ChatIds
      /\ Has(s, "invite") => \E q \in Persons : Asked(V, q, j.chat)
  BY DEF JobOK
<1> HIDE DEF k, s, u
<1>7. JobOK(L, V, p, k)
  BY <1>2, <1>3, <1>4, <1>5, <1>6 DEF JobOK
<1> QED BY <1>7 DEF k, u, s

LEMMA GrowsSame == \A L, V : Grows(L, V, L, V)
BY DEF Grows

(* One call goes on, the others wait. *)
LEMMA JobChange ==
  ASSUME JobsOK, Grows(list, vector, list', vector'), NEW p \in Persons, NEW th \in Threads,
         NEW k, JobOK(list', vector', p, k), job' = [job EXCEPT ![p][th] = k]
  PROVE  JobsOK'
<1>1. k \in Job
  BY DEF JobOK
<1>2. /\ job' \in [Persons -> [Threads -> Job]]
      /\ \A q \in Persons, u \in Threads :
           job'[q][u] = IF q = p /\ u = th THEN k ELSE job[q][u]
  BY <1>1 DEF JobsOK
<1>3. \A q \in Persons, u \in Threads : JobOK(list', vector', q, job[q][u])
  BY CarriedOK DEF JobsOK
<1> QED BY <1>2, <1>3 DEF JobsOK

LEMMA JobSame ==
  ASSUME JobsOK, Grows(list, vector, list', vector'), job' = job
  PROVE  JobsOK'
<1>1. \A q \in Persons, u \in Threads : JobOK(list', vector', q, job[q][u])
  BY CarriedOK DEF JobsOK
<1> QED BY <1>1 DEF JobsOK

LEMMA JobDone ==
  ASSUME JobsOK, Grows(list, vector, list', vector'), NEW p \in Persons, NEW th \in Threads,
         job[p][th].steps # <<>>, job' = Done(p, th),
         Head(job[p][th].steps) = "mychats" => list'[p] # None,
         Head(job[p][th].steps) = "insert" => Listed(list', p, job[p][th].chat)
  PROVE  JobsOK'
<1> DEFINE j == job[p][th]
           k == [j EXCEPT !.steps = Tail(@)]
<1>1. JobOK(list', vector', p, j)
  BY CarriedOK DEF JobsOK
<1>2. JobOK(list', vector', p, k)
  BY <1>1, TailOK
<1>3. job' = [job EXCEPT ![p][th] = Idle] \/ job' = [job EXCEPT ![p][th].steps = Tail(@)]
  BY DEF Done
<1>4. [job EXCEPT ![p][th].steps = Tail(@)] = [job EXCEPT ![p][th] = k]
  BY DEF JobsOK
<1>5. job' = [job EXCEPT ![p][th] = Idle] \/ job' = [job EXCEPT ![p][th] = k]
  BY <1>3, <1>4
<1> HIDE DEF k
<1> QED BY <1>2, <1>5, IdleOK, JobChange

LEMMA JobStarted ==
  ASSUME JobsOK, Grows(list, vector, list', vector'), NEW p \in Persons, NEW th \in Threads,
         NEW c \in ChatIds, NEW s, Started(p, th, s, c), Plan(s),
         s # <<>> => Head(s) \notin {"insert", "consume"},
         Has(s, "invite") => \E q \in Persons : Asked(vector', q, c),
         Has(s, "consume") => Asked(vector', p, c)
  PROVE  JobsOK'
<1> DEFINE k == [steps |-> s, chat |-> c, seen |-> <<>>]
<1>1. JobOK(list', vector', p, k)
  BY CalledOK
<1>2. job' = [job EXCEPT ![p][th] = k]
  BY DEF Started
<1> HIDE DEF k
<1> QED BY <1>1, <1>2, JobChange

(* Nothing but lists, vectors and calls changes. *)
LEMMA Framed ==
  ASSUME ListInv, Grows(list, vector, list', vector'), JobsOK',
         list' \in [Persons -> Seq(ChatIds) \union {None}],
         vector' \in [ChatIds -> Vector \union {None}],
         UNCHANGED <<todo, invites, here, gone>>
  PROVE  ListInv'
<1>1. \A p, c : Asked(vector, p, c) => Asked(vector', p, c)
  BY DEF Asked, Grows
<1>2. \A p \in Persons : \A c : Listed(list, p, c) => Listed(list', p, c)
  BY DEF Listed, Grows
<1> QED BY <1>1, <1>2 DEF ListInv

(* The steps of a call. *)
LEMMA EnsureListed ==
  ASSUME ListInv, NEW p \in Persons, NEW th \in Threads, EnsureMyChats(p, th)
  PROVE  ListInv'
<1> DEFINE j == job[p][th]
<1>1. /\ j.steps # <<>> /\ Head(j.steps) = "mychats" /\ vector' = vector
      /\ UNCHANGED <<todo, invites, here, gone>>
  BY DEF EnsureMyChats, At, dfs
<1>2. JobsOK /\ JobOK(list, vector, p, j) /\ j \in Job
  BY DEF ListInv, JobsOK, JobOK
<1>3. CASE /\ list' = [list EXCEPT ![p] = IF @ = None THEN <<>> ELSE @]
           /\ job' = Done(p, th)
  <2>1. \A q \in Persons : list'[q] = IF q = p /\ list[p] = None THEN <<>> ELSE list[q]
    BY <1>3 DEF ListInv
  <2>2. <<>> \in Seq(ChatIds) /\ <<>> # None
    <3>1. <<>> \in Seq(ChatIds)
      OBVIOUS
    <3>2. None \notin Seq(ChatIds)
      BY ChatAssumption
    <3> QED BY <3>1, <3>2
  <2>3. list' \in [Persons -> Seq(ChatIds) \union {None}]
    BY <1>3, <2>2 DEF ListInv
  <2>4. Grows(list, vector, list', vector') /\ list'[p] # None
    BY <1>1, <2>1, <2>2 DEF Grows
  <2>5. JobsOK'
    BY <1>1, <1>2, <1>3, <2>4, JobDone
  <2> QED BY <1>1, <2>3, <2>4, <2>5, Framed DEF ListInv
<1>4. CASE /\ list' = list
           /\ job' = IF j.steps = ParseSteps THEN [job EXCEPT ![p][th] = Idle]
                     ELSE Skip(p, th, 2)
  <2>1. Grows(list, vector, list', vector')
    BY <1>1, <1>4, GrowsSame
  <2> DEFINE k == [j EXCEPT !.steps = SubSeq(j.steps, 2 + 1, Len(j.steps))]
  <2>2. CASE job' = [job EXCEPT ![p][th] = Idle]
    <3>1. JobsOK'
      BY <1>2, <2>1, <2>2, IdleOK, JobChange
    <3> QED BY <1>1, <1>4, <2>1, <3>1, Framed DEF ListInv
  <2>3. CASE j.steps # ParseSteps /\ job' = [job EXCEPT ![p][th] = k]
    <3>1. JobOK(list', vector', p, k)
      BY <1>1, <1>2, <1>4, <2>3, SkipOK
    <3> HIDE DEF k
    <3>2. JobsOK'
      BY <1>2, <2>1, <2>3, <3>1, JobChange
    <3> QED BY <1>1, <1>4, <2>1, <3>2, Framed DEF ListInv
  <2>4. [job EXCEPT ![p][th].steps = SubSeq(j.steps, 2 + 1, Len(j.steps))]
          = [job EXCEPT ![p][th] = k]
    BY <1>2 DEF JobsOK
  <2> QED BY <1>4, <2>2, <2>3, <2>4 DEF Skip
<1> QED BY <1>3, <1>4 DEF EnsureMyChats

LEMMA InsertListed ==
  ASSUME ListInv, NEW p \in Persons, NEW th \in Threads, Insert(p, th)
  PROVE  ListInv'
<1> DEFINE j == job[p][th]
<1>1. /\ j.steps # <<>> /\ Head(j.steps) = "insert" /\ vector' = vector
      /\ UNCHANGED <<todo, invites, here, gone>>
      /\ list' = [list EXCEPT ![p] = Append(@, j.chat)] /\ job' = Done(p, th)
  BY DEF Insert, At, dfs
<1>2. JobsOK /\ JobOK(list, vector, p, j) /\ j \in Job
  BY DEF ListInv, JobsOK, JobOK
<1>3. j.chat \in ChatIds /\ list[p] # None
  BY <1>1, <1>2, TailFacts DEF JobOK, Plan
<1>4. list[p] \in Seq(ChatIds)
  BY <1>3 DEF ListInv
<1>5. /\ Append(list[p], j.chat) \in Seq(ChatIds)
      /\ ToSet(list[p]) \subseteq ToSet(Append(list[p], j.chat))
      /\ j.chat \in ToSet(Append(list[p], j.chat))
  <2>1. /\ Append(list[p], j.chat) \in Seq(ChatIds) /\ Len(list[p]) \in Nat
        /\ Len(Append(list[p], j.chat)) = Len(list[p]) + 1
        /\ Append(list[p], j.chat)[Len(list[p]) + 1] = j.chat
        /\ \A i \in 1 .. Len(list[p]) : Append(list[p], j.chat)[i] = list[p][i]
    BY <1>3, <1>4
  <2>2. DOMAIN Append(list[p], j.chat) = 1 .. Len(list[p]) + 1 /\ DOMAIN list[p] = 1 .. Len(list[p])
    BY <1>4, <2>1
  <2> QED BY <2>1, <2>2 DEF ToSet
<1>6. Append(list[p], j.chat) # None
  BY <1>5, ChatAssumption
<1>7. \A q \in Persons : list'[q] = IF q = p THEN Append(list[p], j.chat) ELSE list[q]
  BY <1>1 DEF ListInv
<1>8. list' \in [Persons -> Seq(ChatIds) \union {None}]
  BY <1>1, <1>5 DEF ListInv
<1>9. Grows(list, vector, list', vector') /\ Listed(list', p, j.chat)
  BY <1>1, <1>5, <1>6, <1>7 DEF Grows, Listed
<1>10. JobsOK'
  BY <1>1, <1>2, <1>9, JobDone
<1> QED BY <1>1, <1>8, <1>9, <1>10, Framed DEF ListInv

LEMMA MessageListed ==
  ASSUME ListInv, NEW p \in Persons, NEW th \in Threads, Message(p, th)
  PROVE  ListInv'
<1>1. /\ job[p][th].steps # <<>> /\ Head(job[p][th].steps) = "message" /\ job' = Done(p, th)
      /\ UNCHANGED <<vector, list, todo, invites, here, gone>>
  BY DEF Message, At, device
<1>2. JobsOK'
  BY <1>1, GrowsSame, JobDone DEF ListInv
<1> QED BY <1>1, <1>2, GrowsSame, Framed DEF ListInv

LEMMA ConsumeListed ==
  ASSUME ListInv, NEW p \in Persons, NEW th \in Threads, Consume(p, th)
  PROVE  ListInv'
<1> DEFINE j == job[p][th]
<1>1. /\ j.steps # <<>> /\ Head(j.steps) = "consume" /\ job' = Done(p, th)
      /\ UNCHANGED <<vector, list, todo, invites, here>> /\ gone' = gone \union {j.chat}
  BY DEF Consume, At, device, Removed
<1>2. JobsOK'
  BY <1>1, GrowsSame, JobDone DEF ListInv
<1>3. Listed(list, p, j.chat) /\ Asked(vector, p, j.chat)
  <2>1. JobOK(list, vector, p, j)
    BY DEF ListInv, JobsOK
  <2>2. Has(j.steps, "consume")
    BY <1>1, <2>1, TailFacts DEF JobOK, Plan
  <2> QED BY <1>1, <2>1, <2>2 DEF JobOK
<1>4. \A c \in gone' : \E q \in Persons : Asked(vector, q, c) /\ Listed(list, q, c)
  BY <1>1, <1>3 DEF ListInv
<1> QED BY <1>1, <1>2, <1>4 DEF ListInv

LEMMA StoreInviteListed ==
  ASSUME ListInv, NEW p \in Persons, StoreChat(p, "Node") \/ Invite(p, "Node")
  PROVE  ListInv'
<1> DEFINE j == job[p]["Node"]
<1>1. /\ j.steps # <<>> /\ Head(j.steps) \in {"store", "invite"} /\ job' = Done(p, "Node")
      /\ UNCHANGED <<vector, list, todo, here, gone>>
      /\ \/ invites' = invites
         \/ Head(j.steps) = "invite" /\ invites' = invites \union {j.chat}
  BY DEF StoreChat, Invite, At, device
<1>2. "Node" \in Threads
  BY DEF Threads
<1>3. JobsOK'
  BY <1>1, <1>2, GrowsSame, JobDone DEF ListInv
<1>4. Head(j.steps) = "invite" => \E q \in Persons : Asked(vector, q, j.chat)
  <2>1. JobOK(list, vector, p, j)
    BY <1>2 DEF ListInv, JobsOK
  <2>2. Has(j.steps, Head(j.steps))
    BY <1>1, <2>1, TailFacts DEF JobOK, Plan
  <2> QED BY <2>1, <2>2 DEF JobOK
<1>5. /\ \A c \in invites' : \E q \in Persons : Asked(vector, q, c)
      /\ here \subseteq invites'
  BY <1>1, <1>4 DEF ListInv
<1> QED BY <1>1, <1>3, <1>5 DEF ListInv

LEMMA ReadListed ==
  ASSUME ListInv, NEW p \in Persons, ReadChats(p) \/ Assign(p)
  PROVE  ListInv'
<1>1. UNCHANGED <<vector, list, todo, invites, here, gone>> /\ "Node" \in Threads
  BY DEF ReadChats, Assign, dfs, Threads
<1>2. CASE ReadChats(p)
  <2> DEFINE k == [steps |-> <<"assign">>, chat |-> 0, seen |-> list[p]]
  <2>1. CASE job' = job
    BY <1>1, <2>1, GrowsSame, JobSame, Framed DEF ListInv
  <2>2. CASE list[p] # None /\ job' = [job EXCEPT ![p]["Node"] = k]
    <3>1. k.steps = <<"assign">> /\ Head(k.steps) = "assign" /\ Len(k.steps) = 1
      OBVIOUS
    <3>2. <<"assign">> \in Seq(StepNames)
      BY DEF StepNames
    <3>3. list[p] \in Seq(ChatIds)
      BY <2>2 DEF ListInv
    <3>4. k \in Job
      BY <3>2, <3>3 DEF Job
    <3>5. \A x : Has(k.steps, x) => x = "assign"
      BY <3>1 DEF Has
    <3>6. Plan(k.steps)
      BY <3>1, <3>2, <3>5 DEF Plan
    <3> HIDE DEF k
    <3>7. JobOK(list', vector', p, k)
      BY <3>1, <3>4, <3>5, <3>6 DEF JobOK
    <3>8. JobsOK'
      BY <1>1, <2>2, <3>7, GrowsSame, JobChange DEF ListInv
    <3> QED BY <1>1, <3>8, GrowsSame, Framed DEF ListInv
  <2> QED BY <1>2, <2>1, <2>2 DEF ReadChats
<1>3. CASE Assign(p)
  <2>1. /\ job[p]["Node"].steps # <<>> /\ Head(job[p]["Node"].steps) = "assign"
        /\ job' = Done(p, "Node")
    BY <1>3 DEF Assign, At
  <2>2. JobsOK'
    BY <1>1, <2>1, GrowsSame, JobDone DEF ListInv
  <2> QED BY <1>1, <2>2, GrowsSame, Framed DEF ListInv
<1> QED BY <1>2, <1>3

(* Every nonempty set of numbers has a least element. *)
LEMMA LeastNumber ==
  ASSUME NEW S, S \subseteq Nat, S # {}
  PROVE  \E m \in S : \A k \in S : m <= k
<1> DEFINE R == OpToRel(<, Nat)
<1>1. IsWellFoundedOn(R, Nat)
  BY NatLessThanWellFounded
<1>2. \A x, y \in Nat : x < y => <<x, y>> \in R
  BY DEF OpToRel
<1> HIDE DEF R
<1>3. PICK m \in S : \A k \in S : ~(<<k, m>> \in R)
  BY <1>1, WFMin
<1>4. ASSUME NEW k \in S PROVE m <= k
  <2>1. k \in Nat /\ m \in Nat /\ ~(k < m)
    BY <1>2, <1>3
  <2> QED BY <2>1
<1> QED BY <1>4

LEMMA MinFact ==
  ASSUME NEW S, S \subseteq Nat, S # {}
  PROVE  Min(S) \in S /\ \A k \in S : Min(S) <= k
BY LeastNumber DEF Min

(* The steps of a new chat. *)
LEMMA JoinedSteps ==
  ASSUME NEW S, NEW a \in Seq(S), NEW b \in Seq(S), NEW s \in Seq(S),
         Len(a) = 4, Len(b) = 2, Len(s) = 6,
         a[1] = s[1], a[2] = s[2], a[3] = s[3], a[4] = s[4], b[1] = s[5], b[2] = s[6]
  PROVE  a \o b = s
<1> DEFINE z == a \o b
<1>1. /\ z \in Seq(S) /\ Len(z) = Len(a) + Len(b)
      /\ \A i \in 1 .. Len(a) + Len(b) : z[i] = IF i <= Len(a) THEN a[i] ELSE b[i - Len(a)]
  BY ConcatProperties
<1> HIDE DEF z
<1>2. Len(z) = 6 /\ \A i \in 1 .. 6 : z[i] = IF i <= 4 THEN a[i] ELSE b[i - 4]
  BY <1>1
<1>3. \A i \in 1 .. 6 : i = 1 \/ i = 2 \/ i = 3 \/ i = 4 \/ i = 5 \/ i = 6
  OBVIOUS
<1>4. \A i \in 1 .. Len(z) : z[i] = s[i]
  BY <1>2, <1>3
<1> QED BY <1>1, <1>2, <1>4, SeqEqual DEF z

LEMMA DialogueSteps ==
  CreateSteps \o InviteSteps = <<"store", "mychats", "insert", "message", "invite", "message">>
<1> DEFINE a == CreateSteps
           b == InviteSteps
           s == <<"store", "mychats", "insert", "message", "invite", "message">>
<1>1. a \in Seq(StepNames) /\ Len(a) = 4
  BY DEF CreateSteps, StepNames
<1>2. b \in Seq(StepNames) /\ Len(b) = 2
  BY DEF InviteSteps, StepNames
<1>3. s \in Seq(StepNames) /\ Len(s) = 6
  BY DEF StepNames
<1>4. a[1] = s[1] /\ a[2] = s[2] /\ a[3] = s[3] /\ a[4] = s[4] /\ b[1] = s[5] /\ b[2] = s[6]
  BY DEF CreateSteps, InviteSteps
<1> HIDE DEF a, b, s
<1>5. a \o b = s
  BY <1>1, <1>2, <1>3, <1>4, JoinedSteps
<1> QED BY <1>5 DEF a, b, s

LEMMA CreateListed ==
  ASSUME ListInv, NEW p \in Persons, NEW peer \in Persons \union {None}, NEW ch \in BOOLEAN,
         Create(p, peer, ch)
  PROVE  ListInv'
<1> DEFINE c == Min(Unstored)
           v == [owner |-> p, channel |-> ch, peer |-> peer]
           s == CreateSteps \o IF peer = None THEN <<>> ELSE InviteSteps
<1>1. /\ vector' = [vector EXCEPT ![c] = v] /\ Started(p, "Node", s, c) /\ Unstored # {}
      /\ UNCHANGED <<list, todo, invites, here, gone>>
  BY DEF Create
<1>2. c \in ChatIds /\ vector[c] = None
  <2>1. Unstored \subseteq Nat
    BY DEF Unstored, ChatIds
  <2>2. c \in Unstored
    BY <1>1, <2>1, MinFact
  <2> QED BY <2>2 DEF Unstored
<1> HIDE DEF c
<1>3. v \in Vector /\ v # None /\ v.peer = peer
  <2>1. v \in Vector
    BY DEF Vector
  <2>2. None \notin Vector
    BY ChatAssumption DEF Vector
  <2> QED BY <2>1, <2>2
<1> HIDE DEF v
<1>4. /\ vector' \in [ChatIds -> Vector \union {None}] /\ vector'[c] = v
      /\ \A d \in ChatIds : d # c => vector'[d] = vector[d]
  BY <1>1, <1>2, <1>3 DEF ListInv
<1>5. Grows(list, vector, list', vector')
  BY <1>1, <1>2, <1>4 DEF Grows
<1>7. Plan(s) /\ ~Has(s, "consume") /\ s # <<>> /\ Head(s) = "store"
      /\ (Has(s, "invite") => peer # None)
  <2>1. CASE peer = None
    <3>1. s = <<"store", "mychats", "insert", "message">>
      BY <2>1 DEF CreateSteps
    <3> HIDE DEF s
    <3>2. s \in Seq(StepNames)
      BY <3>1 DEF StepNames
    <3>3. ~Has(s, "consume") /\ ~Has(s, "invite")
      BY <3>1 DEF Has
    <3>4. \A i \in 1 .. Len(s) - 1 : s[i] = "mychats" => s[i + 1] = "insert"
      BY <3>1
    <3>5. \A i \in 2 .. Len(s) : s[i] = "insert" => s[i - 1] = "mychats"
      BY <3>1
    <3>6. s # <<>> /\ Head(s) = "store"
      BY <3>1
    <3> QED BY <3>2, <3>3, <3>4, <3>5, <3>6 DEF Plan
  <2>2. CASE peer # None
    <3>1. s = <<"store", "mychats", "insert", "message", "invite", "message">>
      BY <2>2, DialogueSteps
    <3> HIDE DEF s
    <3>2. s \in Seq(StepNames)
      BY <3>1 DEF StepNames
    <3>3. ~Has(s, "consume")
      BY <3>1 DEF Has
    <3>4. \A i \in 1 .. Len(s) - 1 : s[i] = "mychats" => s[i + 1] = "insert"
      BY <3>1
    <3>5. \A i \in 2 .. Len(s) : s[i] = "insert" => s[i - 1] = "mychats"
      BY <3>1
    <3>6. s # <<>> /\ Head(s) = "store"
      BY <3>1
    <3> QED BY <2>2, <3>2, <3>3, <3>4, <3>5, <3>6 DEF Plan
  <2> QED BY <2>1, <2>2
<1> HIDE DEF s
<1>8. peer # None => peer \in Persons /\ Asked(vector', peer, c)
  BY <1>2, <1>3, <1>4 DEF Asked
<1>9. JobsOK'
  <2>1. "Node" \in Threads
    BY DEF Threads
  <2>2. Has(s, "invite") => \E q \in Persons : Asked(vector', q, c)
    BY <1>7, <1>8
  <2> QED BY <1>1, <1>2, <1>5, <1>7, <2>1, <2>2, JobStarted DEF ListInv
<1> QED BY <1>1, <1>4, <1>5, <1>9, Framed DEF ListInv

LEMMA SubscribeListed ==
  ASSUME ListInv, NEW p \in Persons, NEW c \in ChatIds, SubscribeChannel(p, c)
  PROVE  ListInv'
<1>1. /\ Started(p, "Node", SubscribeSteps, c) /\ "Node" \in Threads
      /\ UNCHANGED <<vector, list, todo, invites, here, gone>>
  BY DEF SubscribeChannel, dfs, device, Threads
<1> DEFINE s == SubscribeSteps
<1>2. s = <<"mychats", "insert">>
  BY DEF SubscribeSteps
<1> HIDE DEF s
<1>3. s \in Seq(StepNames)
  BY <1>2 DEF StepNames
<1>4. ~Has(s, "consume") /\ ~Has(s, "invite") /\ s # <<>> /\ Head(s) = "mychats"
  BY <1>2 DEF Has
<1>5. Plan(s)
  BY <1>2, <1>3, <1>4 DEF Plan
<1>6. JobsOK'
  BY <1>1, <1>4, <1>5, GrowsSame, JobStarted DEF ListInv, s
<1> QED BY <1>1, <1>6, GrowsSame, Framed DEF ListInv

(* An invitation is parsed for its peer. *)
LEMMA ParseOK ==
  ASSUME ListInv, NEW p \in Persons, NEW th \in Threads, NEW c, Asked(vector, p, c),
         Parse(p, th, c), UNCHANGED <<list, vector>>
  PROVE  JobsOK'
<1>1. CASE Started(p, th, ParseSteps, c)
  <2>1. Asked(vector', p, c) /\ c \in ChatIds
    BY DEF Asked
  <2> QED BY <1>1, <2>1, GrowsSame, ParseFacts, JobStarted DEF ListInv
<1>2. CASE job' = job
  BY <1>2, GrowsSame, JobSame DEF ListInv
<1> QED BY <1>1, <1>2 DEF Parse

LEMMA ReadyListed ==
  ASSUME ListInv, NEW p \in Persons, Ready(p)
  PROVE  ListInv'
<1>1. /\ todo' = [todo EXCEPT ![p] = {c \in invites \ gone : vector[c].peer = p}]
      /\ UNCHANGED <<vector, list, job, invites, here, gone>>
  BY DEF Ready, dfs
<1>2. JobsOK'
  BY <1>1, GrowsSame, JobSame DEF ListInv
<1>3. \A c \in {d \in invites \ gone : vector[d].peer = p} : Asked(vector, p, c)
  BY DEF ListInv, Asked
<1>4. {c \in invites \ gone : vector[c].peer = p} \subseteq ChatIds
  BY <1>3 DEF Asked
<1>5. /\ todo' \in [Persons -> SUBSET ChatIds]
      /\ \A q \in Persons : \A c \in todo'[q] : Asked(vector, q, c)
  BY <1>1, <1>3, <1>4 DEF ListInv
<1> QED BY <1>1, <1>2, <1>5 DEF ListInv

LEMMA ParseNextListed ==
  ASSUME ListInv, NEW p \in Persons, ParseNext(p)
  PROVE  ListInv'
<1>1. PICK c \in todo[p] : todo' = [todo EXCEPT ![p] = @ \ {c}] /\ Parse(p, "Node", c)
  BY DEF ParseNext
<1>2. UNCHANGED <<vector, list, invites, here, gone>> /\ "Node" \in Threads
  BY DEF ParseNext, dfs, Threads
<1>3. JobsOK'
  BY <1>1, <1>2, ParseOK DEF ListInv
<1>4. todo' \in [Persons -> SUBSET ChatIds] /\ \A q \in Persons : todo'[q] \subseteq todo[q]
  BY <1>1 DEF ListInv
<1> QED BY <1>2, <1>3, <1>4 DEF ListInv

LEMMA DownloadedListed ==
  ASSUME ListInv, NEW c \in ChatIds, InviteDownloaded(c)
  PROVE  ListInv'
<1>1. /\ c \in invites /\ here' = here \union {c}
      /\ UNCHANGED <<vector, list, todo, invites, gone>>
      /\ Parse(vector[c].peer, "Dfs", c) \/ job' = job
      /\ "Dfs" \in Threads
  BY DEF InviteDownloaded, device, Threads
<1>2. vector[c].peer \in Persons /\ Asked(vector, vector[c].peer, c)
  BY <1>1 DEF ListInv, Asked
<1>3. JobsOK'
  BY <1>1, <1>2, ParseOK, GrowsSame, JobSame DEF ListInv
<1> QED BY <1>1, <1>3 DEF ListInv

LEMMA RestartListed ==
  ASSUME ListInv, NEW p \in Persons, Restart(p)
  PROVE  ListInv'
<1>1. /\ todo' = [todo EXCEPT ![p] = {}]
      /\ job' = [job EXCEPT ![p] = [th \in Threads |-> Idle]]
      /\ UNCHANGED <<vector, list, invites, here, gone>>
  BY DEF Restart, dfs
<1>2. Idle \in Job
  BY IdleOK DEF JobOK
<1>3. /\ job' \in [Persons -> [Threads -> Job]]
      /\ \A q \in Persons, th \in Threads : job'[q][th] \in {job[q][th], Idle}
  BY <1>1, <1>2 DEF ListInv, JobsOK
<1>4. JobsOK'
  BY <1>1, <1>3, IdleOK DEF ListInv, JobsOK
<1>5. todo' \in [Persons -> SUBSET ChatIds] /\ \A q \in Persons : todo'[q] \subseteq todo[q]
  BY <1>1 DEF ListInv
<1> QED BY <1>1, <1>4, <1>5 DEF ListInv

(* Every step keeps the invariant. *)
LEMMA ListStep == ListInv /\ [Next]_vars => ListInv'
<1> SUFFICES ASSUME ListInv, [Next]_vars PROVE ListInv'
  OBVIOUS
<1>1. CASE \E p \in Persons, th \in Threads :
             EnsureMyChats(p, th) \/ Insert(p, th) \/ Message(p, th) \/ Consume(p, th)
  BY <1>1, EnsureListed, InsertListed, MessageListed, ConsumeListed
<1>2. CASE \E p \in Persons : \/ StoreChat(p, "Node") \/ Invite(p, "Node")
                              \/ ReadChats(p) \/ Assign(p) \/ Ready(p) \/ ParseNext(p)
                              \/ Restart(p)
  BY <1>2, StoreInviteListed, ReadListed, ReadyListed, ParseNextListed, RestartListed
<1>3. CASE \E p \in Persons : \E peer \in Persons \union {None}, ch \in BOOLEAN :
             Create(p, peer, ch)
  BY <1>3, CreateListed
<1>4. CASE \E p \in Persons, c \in ChatIds : SubscribeChannel(p, c)
  BY <1>4, SubscribeListed
<1>5. CASE \E c \in ChatIds : InviteDownloaded(c)
  BY <1>5, DownloadedListed
<1>6. CASE UNCHANGED <<vector, list, job, todo, invites, here, gone>>
  <2>1. JobsOK'
    BY <1>6, GrowsSame, JobSame DEF ListInv
  <2> QED BY <1>6, <2>1 DEF ListInv
<1>7. CASE \E p \in Persons, c \in ChatIds :
             \/ AddMessage(p, c) \/ EditMessage(p, c) \/ RemoveMessage(p, c) \/ RowArrives(p, c)
             \/ \E q \in Persons : VectorDownloaded(p, q, c)
  <2>1. UNCHANGED <<vector, list, job, todo, invites, here, gone>>
    BY <1>7 DEF AddMessage, EditMessage, RemoveMessage, RowArrives, VectorDownloaded, device
  <2> QED BY <1>6, <2>1
<1>8. CASE \E p \in Persons : TemplateDownloaded(p)
  <2>1. UNCHANGED <<vector, list, job, todo, invites, here, gone>>
    BY <1>8 DEF TemplateDownloaded, device
  <2> QED BY <1>6, <2>1
<1>9. CASE UNCHANGED vars
  BY <1>6, <1>9 DEF vars
<1> QED BY <1>1, <1>2, <1>3, <1>4, <1>5, <1>7, <1>8, <1>9 DEF Next

LEMMA ListStart == Init => ListInv
<1> SUFFICES ASSUME Init PROVE ListInv
  OBVIOUS
<1>1. /\ list = [p \in Persons |-> None] /\ vector = [c \in ChatIds |-> None]
      /\ job = [p \in Persons |-> [th \in Threads |-> Idle]]
      /\ todo = [p \in Persons |-> {}] /\ invites = {} /\ here = {} /\ gone = {}
  BY DEF Init
<1>2. Idle \in Job
  BY IdleOK DEF JobOK
<1>3. JobsOK
  BY <1>1, <1>2, IdleOK DEF JobsOK
<1> QED BY <1>1, <1>3 DEF ListInv

(* An invitation that its receiver has removed from the directory is in the
   receiver's list of chats, whichever threads parse invitations at the same
   time and wherever the process ends (parse_invite, add_to_my_chats). *)
THEOREM InvitationSafe == Spec => []InvitationKept
<1>1. ListInv => InvitationKept
  BY DEF ListInv, InvitationKept, Asked, Listed
<1> QED BY <1>1, ListStart, ListStep, PTL DEF Spec

------------------------------------------------------------------------------
(* The last message.                                                         *)

Timed(r) == r.t \in Nat /\ r.orig \in Nat /\ r.orig <= r.t /\ r.t <= clock

(* The inductive invariant: the copies have finitely many of the rows that were
   written, which are not from the future. *)
RowsInv ==
    /\ clock \in Nat
    /\ written = [c \in ChatIds |-> written[c]]
    /\ rows = [p \in Persons |-> [c \in ChatIds |-> rows[p][c]]]
    /\ \A c \in ChatIds : \A r \in written[c] : Timed(r)
    /\ \A p \in Persons, c \in ChatIds :
          IsFiniteSet(rows[p][c]) /\ rows[p][c] \subseteq written[c]

LEMMA GreatestNumber ==
  ASSUME NEW S, S \subseteq Nat, S # {}, NEW b \in Nat, \A k \in S : k <= b
  PROVE  Max(S) \in S /\ \A k \in S : Max(S) >= k
<1> DEFINE U == {n \in Nat : \A k \in S : k <= n}
<1>1. PICK m \in U : \A k \in U : m <= k
  <2>1. b \in U
    OBVIOUS
  <2> QED BY <2>1, LeastNumber
<1>2. m \in S
  <2> SUFFICES ASSUME m \notin S PROVE FALSE
    OBVIOUS
  <2>1. \A k \in S : k < m
    BY <1>1
  <2>2. PICK k \in S : TRUE
    OBVIOUS
  <2>3. m - 1 \in Nat
    BY <2>1, <2>2
  <2>4. m - 1 \in U
    BY <2>1, <2>3
  <2> QED BY <1>1, <2>4
<1>3. \A k \in S : m >= k
  BY <1>1
<1> QED BY <1>2, <1>3 DEF Max

(* A later message has an earlier place, and no place is beyond the number of
   messages. *)
LEMMA PlaceFacts ==
  ASSUME NEW S, IsFiniteSet(S), \A r \in S : r.t \in Nat
  PROVE  /\ Cardinality(S) \in Nat
         /\ \A r \in S : Place(S, r) \in Nat /\ Place(S, r) <= Cardinality(S)
         /\ \A q, r \in S : q.t > r.t => Place(S, q) <= Place(S, r)
<1> DEFINE B(r) == {q \in S : q.t > r.t \/ (q.t = r.t /\ q.id >= r.id)}
<1>1. \A r : B(r) \subseteq S
  OBVIOUS
<1>2. \A q, r \in S : q.t > r.t => B(q) \subseteq B(r)
  OBVIOUS
<1>3. \A r : Place(S, r) = Cardinality(B(r))
  BY DEF Place
<1> HIDE DEF B
<1>4. Cardinality(S) \in Nat
  BY FS_CardinalityType
<1>5. \A r : /\ IsFiniteSet(B(r)) /\ Cardinality(B(r)) \in Nat
             /\ Cardinality(B(r)) <= Cardinality(S)
  BY <1>1, FS_Subset, FS_CardinalityType
<1>6. \A q, r \in S : q.t > r.t => Cardinality(B(q)) <= Cardinality(B(r))
  BY <1>2, <1>5, FS_Subset
<1> QED BY <1>3, <1>4, <1>5, <1>6

LEMMA PagesFacts ==
  ASSUME NEW S
  PROVE  /\ PagesRead(S) * Batch \in Nat
         /\ \/ \E r \in S : Place(S, r) <= PagesRead(S) * Batch /\ r.orig = 0
            \/ PagesRead(S) * Batch >= Cardinality(S)
            \/ PagesRead(S) * Batch = Batch * Pages
<1> DEFINE page(k) == {r \in S : (k - 1) * Batch < Place(S, r) /\ Place(S, r) <= k * Batch}
           A == {k \in 1 .. Pages : \/ \E r \in page(k) : r.orig = 0
                                    \/ k * Batch >= Cardinality(S)
                                    \/ k = Pages}
           K == PagesRead(S)
<1>1. Pages \in Nat \ {0} /\ Batch \in Nat \ {0}
  BY ChatAssumption
<1>2. K \in A
  <2>1. Pages \in A /\ A \subseteq Nat
    BY <1>1
  <2>2. K = Min(A)
    BY DEF PagesRead
  <2> HIDE DEF A, K
  <2> QED BY <2>1, <2>2, MinFact
<1>3. K \in Nat /\ \/ \E r \in S : Place(S, r) <= K * Batch /\ r.orig = 0
                   \/ K * Batch >= Cardinality(S)
                   \/ K = Pages
  BY <1>1, <1>2
<1> HIDE DEF K
<1>4. K * Batch \in Nat /\ (K = Pages => K * Batch = Batch * Pages)
  BY <1>1, <1>3
<1> QED BY <1>3, <1>4 DEF K

(* All messages are looked at, or one of them was never edited. *)
LEMMA LastPage ==
  ASSUME NEW S, IsFiniteSet(S), \A r \in S : r.t \in Nat,
         \/ Cardinality(S) <= Batch * Pages
         \/ \E r \in Window(S) : r.orig = 0
  PROVE  S = Window(S) \/ \E r \in Window(S) : r.orig = 0
<1> DEFINE K == PagesRead(S) * Batch
<1>1. K \in Nat /\ \/ \E r \in S : Place(S, r) <= K /\ r.orig = 0
                   \/ K >= Cardinality(S)
                   \/ K = Batch * Pages
  BY PagesFacts
<1>2. \A r \in S : Place(S, r) <= K => r \in Window(S)
  BY DEF Window
<1>3. Window(S) \subseteq S
  BY DEF Window
<1> HIDE DEF K
<1>4. CASE K >= Cardinality(S)
  <2>1. \A r \in S : Place(S, r) <= K
    BY <1>1, <1>4, PlaceFacts
  <2> QED BY <1>2, <1>3, <2>1
<1>5. CASE K = Batch * Pages /\ Cardinality(S) <= Batch * Pages
  BY <1>4, <1>5
<1>6. CASE \E r \in S : Place(S, r) <= K /\ r.orig = 0
  BY <1>2, <1>6
<1> QED BY <1>1, <1>4, <1>5, <1>6

(* No message beyond the pages is later than one on them. *)
LEMMA WindowFirst ==
  ASSUME NEW S, IsFiniteSet(S), \A r \in S : r.t \in Nat,
         NEW r \in Window(S), NEW s \in S, s \notin Window(S)
  PROVE  s.t <= r.t
<1> DEFINE K == PagesRead(S) * Batch
<1>1. r \in S /\ Place(S, r) <= K /\ ~(Place(S, s) <= K)
  BY DEF Window
<1>2. K \in Nat /\ Place(S, s) \in Nat /\ Place(S, r) \in Nat
  BY <1>1, PagesFacts, PlaceFacts
<1>3. s.t > r.t => Place(S, s) <= Place(S, r)
  BY <1>1, PlaceFacts
<1> HIDE DEF K
<1>4. ~(s.t > r.t) /\ s.t \in Nat /\ r.t \in Nat
  BY <1>1, <1>2, <1>3
<1> QED BY <1>4

(* The message that is found is the last one. *)
LEMMA LastIsRight ==
  ASSUME RowsInv, NEW p \in Persons, NEW c \in ChatIds, NEW S, S = Live(p, c), S # {},
         \/ Cardinality(S) <= Batch * Pages
         \/ \E r \in Window(S) : r.orig = 0
  PROVE  LastMessage(p, c) = Max({Effective(r) : r \in S})
<1> DEFINE E(T) == {Effective(r) : r \in T}
           W == Window(S)
<1>1. /\ IsFiniteSet(S) /\ clock \in Nat
      /\ \A r \in S : r.t \in Nat /\ r.orig \in Nat /\ r.orig <= r.t /\ r.t <= clock
  <2>1. S \subseteq rows[p][c]
    BY DEF Live
  <2>2. IsFiniteSet(rows[p][c]) /\ clock \in Nat /\ \A r \in rows[p][c] : Timed(r)
    BY DEF RowsInv
  <2> QED BY <2>1, <2>2, FS_Subset DEF Timed
<1>2. S = W \/ \E r \in W : r.orig = 0
  BY <1>1, LastPage
<1>3. LastMessage(p, c) = Max(E(W))
  BY DEF LastMessage
<1>4. W \subseteq S
  BY DEF Window
<1>5. \A r \in S : Effective(r) \in Nat /\ Effective(r) <= r.t /\ Effective(r) <= clock
  BY <1>1 DEF Effective
<1>6. CASE S = W
  BY <1>3, <1>6
<1>7. CASE \E r \in W : r.orig = 0
  <2>1. PICK r \in W : r.orig = 0
    BY <1>7
  <2>2. Effective(r) = r.t /\ r \in S
    BY <1>4, <2>1 DEF Effective
  <2>3. E(S) \subseteq Nat /\ E(S) # {} /\ \A k \in E(S) : k <= clock
    BY <1>5, <2>2
  <2>4. E(W) \subseteq Nat /\ E(W) # {} /\ (\A k \in E(W) : k <= clock) /\ E(W) \subseteq E(S)
    BY <1>4, <1>5, <2>1
  <2>5. Max(E(S)) \in E(S) /\ \A k \in E(S) : Max(E(S)) >= k
    BY <1>1, <2>3, GreatestNumber
  <2>6. Max(E(W)) \in E(W) /\ \A k \in E(W) : Max(E(W)) >= k
    BY <1>1, <2>4, GreatestNumber
  <2>7. PICK s \in S : Max(E(S)) = Effective(s)
    BY <2>5
  <2>8. \E k \in E(W) : k >= Effective(s)
    <3>1. CASE s \in W
      BY <3>1, <1>5
    <3>2. CASE s \notin W
      <4>1. s.t <= r.t
        BY <1>1, <2>1, <3>2, WindowFirst
      <4>2. Effective(r) >= Effective(s)
        BY <1>1, <1>5, <2>2, <4>1
      <4> QED BY <2>1, <4>2
    <3> QED BY <3>1, <3>2
  <2> HIDE DEF E, W
  <2>9. Max(E(W)) >= Max(E(S)) /\ Max(E(S)) >= Max(E(W))
    BY <2>3, <2>4, <2>5, <2>6, <2>7, <2>8
  <2>10. Max(E(W)) \in Nat /\ Max(E(S)) \in Nat
    BY <2>3, <2>4, <2>5, <2>6
  <2>11. Max(E(W)) = Max(E(S))
    BY <2>9, <2>10
  <2> QED BY <1>3, <2>11 DEF E
<1> QED BY <1>2, <1>6, <1>7

(* A row is written into a copy. *)
LEMMA WriteRows ==
  ASSUME RowsInv, NEW p \in Persons, NEW c, NEW row, Write(p, c, row),
         row.t \in Nat, row.orig \in Nat, row.orig <= row.t, clock <= row.t
  PROVE  RowsInv'
<1>1. /\ rows' = [rows EXCEPT ![p][c] = Replaced(@, row)]
      /\ written' = [written EXCEPT ![c] = @ \union {row}]
      /\ clock' = row.t
  BY DEF Write
<1>2. /\ written' = [d \in ChatIds |-> written'[d]]
      /\ rows' = [q \in Persons |-> [d \in ChatIds |-> rows'[q][d]]]
  BY <1>1 DEF RowsInv
<1>3. \A d \in ChatIds : written'[d] = IF d = c THEN written[d] \union {row} ELSE written[d]
  BY <1>1 DEF RowsInv
<1>4. \A q \in Persons, d \in ChatIds :
        rows'[q][d] = IF q = p /\ d = c THEN Replaced(rows[q][d], row) ELSE rows[q][d]
  BY <1>1 DEF RowsInv
<1>5. ASSUME NEW d \in ChatIds, NEW r \in written'[d] PROVE Timed(r)'
  BY <1>1, <1>3 DEF RowsInv, Timed
<1>6. ASSUME NEW q \in Persons, NEW d \in ChatIds
      PROVE  IsFiniteSet(rows'[q][d]) /\ rows'[q][d] \subseteq written'[d]
  <2>1. IsFiniteSet(rows[q][d]) /\ rows[q][d] \subseteq written[d]
    BY DEF RowsInv
  <2>2. /\ Replaced(rows[q][d], row) = {r \in rows[q][d] : r.id # row.id} \union {row}
        /\ IsFiniteSet({r \in rows[q][d] : r.id # row.id})
    BY <2>1, FS_Subset DEF Replaced
  <2>3. IsFiniteSet(Replaced(rows[q][d], row))
    BY <2>2, FS_AddElement
  <2> QED BY <1>3, <1>4, <2>1, <2>2, <2>3
<1>7. clock' \in Nat
  BY <1>1
<1> QED BY <1>2, <1>5, <1>6, <1>7 DEF RowsInv

LEMMA TimesFact ==
  ASSUME RowsInv, NEW t \in Times
  PROVE  t \in Nat /\ clock <= t
BY DEF Times, RowsInv

(* The steps that change copies. *)
LEMMA NewMessageRows ==
  ASSUME RowsInv, NEW p \in Persons, NEW c, NewMessage(p, c)
  PROVE  RowsInv'
<1>1. PICK t \in Times :
        Write(p, c, [id |-> IdOf(c), by |-> p, t |-> t, orig |-> 0, live |-> TRUE])
  BY DEF NewMessage
<1>2. t \in Nat /\ clock <= t
  BY TimesFact
<1> DEFINE row == [id |-> IdOf(c), by |-> p, t |-> t, orig |-> 0, live |-> TRUE]
<1>3. row.t = t /\ row.orig = 0
  OBVIOUS
<1> HIDE DEF row
<1>4. Write(p, c, row)
  BY <1>1 DEF row
<1> QED BY <1>2, <1>3, <1>4, WriteRows

LEMMA ChangeRows ==
  ASSUME RowsInv, NEW p \in Persons, NEW c \in ChatIds, EditMessage(p, c) \/ RemoveMessage(p, c)
  PROVE  RowsInv'
<1>1. PICK r \in Live(p, c), t \in Times :
        \/ Write(p, c, [id |-> r.id, by |-> p, t |-> t, orig |-> Original(r), live |-> TRUE])
        \/ Write(p, c, [id |-> r.id, by |-> p, t |-> t, orig |-> 0, live |-> FALSE])
  BY DEF EditMessage, RemoveMessage
<1>2. t \in Nat /\ clock <= t
  BY TimesFact
<1>3. Original(r) \in Nat /\ Original(r) <= t
  <2>1. Timed(r)
    BY DEF RowsInv, Live
  <2> QED BY <1>2, <2>1 DEF Timed, Original, RowsInv
<1> DEFINE a == [id |-> r.id, by |-> p, t |-> t, orig |-> Original(r), live |-> TRUE]
           b == [id |-> r.id, by |-> p, t |-> t, orig |-> 0, live |-> FALSE]
<1>4. a.t = t /\ a.orig = Original(r) /\ b.t = t /\ b.orig = 0
  OBVIOUS
<1> HIDE DEF a, b
<1>5. Write(p, c, a) \/ Write(p, c, b)
  BY <1>1 DEF a, b
<1> QED BY <1>2, <1>3, <1>4, <1>5, WriteRows

(* Rows come from other copies. *)
LEMMA ArriveRows ==
  ASSUME RowsInv, NEW p \in Persons, NEW c \in ChatIds,
         RowArrives(p, c) \/ \E q \in Persons : VectorDownloaded(p, q, c)
  PROVE  RowsInv'
<1>1. UNCHANGED <<clock, written>>
  BY DEF RowArrives, VectorDownloaded
<1>2. PICK S : /\ rows' = [rows EXCEPT ![p][c] = S]
               /\ IsFiniteSet(S) /\ S \subseteq written[c]
  <2>1. CASE RowArrives(p, c)
    <3>1. PICK r \in written[c] : rows' = [rows EXCEPT ![p][c] = Replaced(rows[p][c], r)]
      BY <2>1 DEF RowArrives
    <3>2. IsFiniteSet(rows[p][c]) /\ rows[p][c] \subseteq written[c]
      BY DEF RowsInv
    <3>3. /\ Replaced(rows[p][c], r) = {s \in rows[p][c] : s.id # r.id} \union {r}
          /\ IsFiniteSet({s \in rows[p][c] : s.id # r.id})
      BY <3>2, FS_Subset DEF Replaced
    <3>4. IsFiniteSet(Replaced(rows[p][c], r)) /\ Replaced(rows[p][c], r) \subseteq written[c]
      BY <3>2, <3>3, FS_AddElement
    <3> QED BY <3>1, <3>4
  <2>2. CASE \E q \in Persons : VectorDownloaded(p, q, c)
    <3>1. PICK q \in Persons : rows' = [rows EXCEPT ![p][c] = rows[q][c]]
      BY <2>2 DEF VectorDownloaded
    <3> QED BY <3>1 DEF RowsInv
  <2> QED BY <2>1, <2>2
<1>3. /\ rows' = [q \in Persons |-> [d \in ChatIds |-> rows'[q][d]]]
      /\ \A q \in Persons, d \in ChatIds :
           rows'[q][d] = IF q = p /\ d = c THEN S ELSE rows[q][d]
  BY <1>2 DEF RowsInv
<1> QED BY <1>1, <1>2, <1>3 DEF RowsInv, Timed

LEMMA RowsStep == RowsInv /\ [Next]_vars => RowsInv'
<1> SUFFICES ASSUME RowsInv, [Next]_vars PROVE RowsInv'
  OBVIOUS
<1>1. CASE UNCHANGED <<clock, written, rows>>
  BY <1>1 DEF RowsInv, Timed
<1>2. CASE \E p \in Persons, th \in Threads : Message(p, th)
  <2>1. PICK p \in Persons, th \in Threads :
          \/ NewMessage(p, job[p][th].chat)
          \/ UNCHANGED <<rows, written, clock>>
    BY <1>2 DEF Message
  <2> QED BY <1>1, <2>1, NewMessageRows
<1>3. CASE \E p \in Persons, th \in Threads :
             EnsureMyChats(p, th) \/ Insert(p, th) \/ Consume(p, th)
  <2>1. UNCHANGED <<clock, written, rows>>
    BY <1>3 DEF EnsureMyChats, Insert, Consume, dfs
  <2> QED BY <1>1, <2>1
<1>4. CASE \E p \in Persons :
             \/ StoreChat(p, "Node") \/ Invite(p, "Node")
             \/ ReadChats(p) \/ Assign(p) \/ Ready(p) \/ ParseNext(p)
             \/ TemplateDownloaded(p) \/ Restart(p)
             \/ \E peer \in Persons \union {None}, ch \in BOOLEAN : Create(p, peer, ch)
  <2>1. UNCHANGED <<clock, written, rows>>
    BY <1>4 DEF StoreChat, Invite, ReadChats, Assign, Ready, ParseNext, TemplateDownloaded,
                Restart, Create, dfs
  <2> QED BY <1>1, <2>1
<1>5. CASE \E p \in Persons, c \in ChatIds : AddMessage(p, c)
  BY <1>5, NewMessageRows DEF AddMessage
<1>6. CASE \E p \in Persons, c \in ChatIds : EditMessage(p, c) \/ RemoveMessage(p, c)
  BY <1>6, ChangeRows
<1>7. CASE \E p \in Persons, c \in ChatIds :
             RowArrives(p, c) \/ \E q \in Persons : VectorDownloaded(p, q, c)
  BY <1>7, ArriveRows
<1>8. CASE \/ \E p \in Persons, c \in ChatIds : SubscribeChannel(p, c)
           \/ \E c \in ChatIds : InviteDownloaded(c)
           \/ UNCHANGED vars
  <2>1. UNCHANGED <<clock, written, rows>>
    BY <1>8 DEF SubscribeChannel, InviteDownloaded, vars, dfs
  <2> QED BY <1>1, <2>1
<1> QED BY <1>2, <1>3, <1>4, <1>5, <1>6, <1>7, <1>8 DEF Next

(* read_last_message finds the message that was first written last in every
   copy, when the pages hold all messages or one that was never edited. *)
THEOREM LastMessageFound == Spec => []LastMessageRight
<1>1. Init => RowsInv
  <2> SUFFICES ASSUME Init PROVE RowsInv
    OBVIOUS
  <2>1. /\ clock = 0 /\ written = [c \in ChatIds |-> {}]
        /\ rows = [p \in Persons |-> [c \in ChatIds |-> {}]]
    BY DEF Init
  <2> QED BY <2>1, FS_EmptySet DEF RowsInv
<1>2. RowsInv => LastMessageRight
  BY LastIsRight DEF LastMessageRight
<1> QED BY <1>1, <1>2, RowsStep, PTL DEF Spec
=============================================================================
