------------------------------- MODULE MCChat -------------------------------
(* Instance of Chat. *)
EXTENDS Chat
CONSTANTS ann, bob
=============================================================================
