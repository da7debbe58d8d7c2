--------------------------- MODULE SerialReceiver ---------------------------
(***************************************************************************)
(* What a caller of NetworkReceiveQueue relies on, without threads, locks, *)
(* wakeups or completions: accepted items are served strictly one at a     *)
(* time in the order of acceptance; every SQL stage runs once and while    *)
(* its item is served; closing refuses new items and discards the backlog, *)
(* but lets a stage of the item being served finish.                       *)
(***************************************************************************)
EXTENDS Naturals, Sequences

CONSTANTS
  Ids,       \* identities of accepted items, naturals
  Stages,    \* positions of the SQL stages of an item
  None

VARIABLES
  waiting,   \* ids of accepted items, oldest first
  current,   \* id of the item being served, or None
  sql,       \* the stages [id, stage] that have run
  closed     \* intake is closed

vars == <<waiting, current, sql, closed>>

Init == waiting = <<>> /\ current = None /\ sql = {} /\ closed = FALSE

\* A new item is accepted; ids are never reused.
Accept ==
  /\ ~closed
  /\ \E i \in Ids :
       /\ \A k \in DOMAIN waiting : waiting[k] < i
       /\ current = None \/ current < i
       /\ waiting' = Append(waiting, i)
  /\ UNCHANGED <<current, sql, closed>>

\* The oldest item is served once its predecessor was retired.
Start ==
  /\ ~closed
  /\ current = None /\ waiting # <<>>
  /\ current' = Head(waiting)
  /\ waiting' = Tail(waiting)
  /\ UNCHANGED <<sql, closed>>

\* One stage of the item being served runs, for the first time.
Execute ==
  /\ current # None
  /\ \E n \in Stages :
       /\ [id |-> current, stage |-> n] \notin sql
       /\ sql' = sql \cup {[id |-> current, stage |-> n]}
  /\ UNCHANGED <<waiting, current, closed>>

Retire ==
  /\ current # None
  /\ current' = None
  /\ UNCHANGED <<waiting, sql, closed>>

Close ==
  /\ ~closed
  /\ closed' = TRUE
  /\ UNCHANGED <<waiting, current, sql>>

\* The backlog is dropped; the item being served may be dropped with it.
Discard ==
  /\ closed
  /\ waiting' = <<>>
  /\ current' \in {current, None}
  /\ UNCHANGED <<sql, closed>>

Next == Accept \/ Start \/ Execute \/ Retire \/ Close \/ Discard

Spec == Init /\ [][Next]_vars
=============================================================================
