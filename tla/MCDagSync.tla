----------------------------- MODULE MCDagSync -----------------------------
(* Instance of DagSync for TLC. *)
EXTENDS DagSync

CONSTANTS p1, p2

Both == {"Full", "Light"}

(* Two peers; answers for a light client are late or lost, pool threads of a
   full client run between any two statements; one window covers the chain. *)
Adverse == [peers |-> {p1, p2}, start |-> 4, top |-> 5, count |-> 6, checks |-> 1, switches |-> 0,
            lossy |-> {"Light"}, late |-> {"Light"}, racy |-> {"Full"}]

(* One prompt peer, several windows, a mode switch and two checks. *)
Calm == [peers |-> {p1}, start |-> 2, top |-> 3, count |-> 2, checks |-> 2, switches |-> 1,
         lossy |-> {}, late |-> {}, racy |-> {}]

MCSettings == {Adverse, Calm}
=============================================================================
