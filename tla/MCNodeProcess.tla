---------------------------- MODULE MCNodeProcess ----------------------------
(* Instance of NodeProcess: a pool of one thread, two application threads. *)
EXTENDS NodeProcess
CONSTANTS worker, main, app1, app2, n1, n2, b1, b2
==============================================================================
