--------------------------- MODULE MCFileDownload ---------------------------
(* Two peers.  One has the whole file; the other has it too, or nothing, or a
   part of it that ends early.  With two sources the answers alone race, with
   one source one thing goes wrong. *)
EXTENDS FileDownload

CONSTANTS p1, p2

Two == <<p2, p1>>

Copies == {h \in [{p1, p2} -> {{}, 1 .. N - 1, Fragments}] : h[p1] = Fragments}

OneTrouble == [h \in Copies |-> IF h[p2] = Fragments THEN 0 ELSE 1]
=============================================================================
