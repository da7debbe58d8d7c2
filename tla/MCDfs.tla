-------------------------------- MODULE MCDfs --------------------------------
(* Instances for TLC of two parts of the DFS that share no state: the       *)
(* directory of an actor and the rows inside a file.  A run lets one of     *)
(* them move; the other stays as it starts.                                 *)
EXTENDS DfsDirectory

CONSTANTS
  Owner, RowWriters, Types, Keys, MaxTime, MaxWrites, MaxAsks,
  n1, n2, n3

VARIABLES
  type, has, ready, vec, hist, tables, erased, wires, packages, now, count, asks,
  writes, crossed, overlap, answers

contentVars == <<type, has, ready, vec, hist, tables, erased, wires, packages, now, count, asks,
                 writes, crossed, overlap, answers>>

C == INSTANCE DfsContent WITH Writers <- RowWriters, MaxOps <- MaxWrites, table <- tables,
              removed <- erased, chan <- wires, pool <- packages, clock <- now, ops <- count

ASSUME ContentAssumed == C!ContentAssumption

DfsInit == Init /\ C!Init

DirectoryNext == Next /\ UNCHANGED contentVars
ContentNext   == C!Next /\ UNCHANGED vars

DirectorySpec == DfsInit /\ [][DirectoryNext]_<<vars, contentVars>> /\ Fairness
ContentSpec   == DfsInit /\ [][ContentNext]_<<vars, contentVars>>

------------------------------------------------------------------------------
(* The directory: three nodes in a line. *)
Line == {{n1, n2}, {n2, n3}}

------------------------------------------------------------------------------

(* The copies of a file agree when nothing is on its way, with the exceptions
   that DfsContent names. *)
CopiesAgree == C!CopiesAgree
=============================================================================
