----------------------------- MODULE MCReplicas -----------------------------
(***************************************************************************)
(* An instance of Replicas for TLC: legs 1 and 2 are partners in the first *)
(* replica's window, leg 3 is alone in the second one's.                   *)
(***************************************************************************)
EXTENDS Replicas, TLC

Rec(source, ref, counterparty) ==
    [source |-> source, ref |-> ref, amount |-> 10, currency |-> 1,
     counterparty |-> counterparty, date |-> 10, batch |-> NoBatch,
     fx |-> FALSE, fee |-> FALSE]

PartitionScene ==
    (1 :> Rec(1, 1, 1)) @@
    (2 :> Rec(2, 1, 1)) @@
    (3 :> Rec(1, 2, 2))

SecondKeys == {Key(3)}
=============================================================================
