---------------------------- MODULE MCDagLedger ----------------------------
(* Instances of DagLedger for TLC: the constants 20 / 15 / 15 / 37 of the  *)
(* code are scaled to 4 / 3 / 3 / 5.                                       *)
EXTENDS DagLedger

CONSTANTS a, b, net, nobody

MCActors == {a, b, net}

Tx(i, type, s, from, to, n) ==
    [id |-> i, type |-> type, section |-> s, sender |-> from, receiver |-> to, amount |-> n]

Grant == Tx(1, "Balance", 1, net, a, 2)
MCOpening == {Grant}
(* Double spends in open sections, every type of transaction, a checkpoint  *)
(* section, rewards that move the chain on, and a transaction of this node. *)
MCLedger ==
    {Grant,
     Tx(2, "Regular", 2, a, b, 2), Tx(3, "Regular", 3, a, b, 1),
     Tx(4, "InitContract", 3, b, a, 1), Tx(5, "Reward", 4, b, b, 1),
     Tx(6, "Regular", 5, b, a, 2), Tx(7, "Minting", 6, b, a, 1),
     Tx(8, "Burn", 6, a, nobody, 1), Tx(9, "Reward", 7, a, a, 1),
     Tx(10, "Reward", 10, b, b, 1), Tx(11, "ConversionIn", 11, a, a, 1),
     Tx(12, "ConversionOut", 11, b, b, 1)}
MCOwn == {t \in MCLedger : t.id = 8}

=============================================================================
