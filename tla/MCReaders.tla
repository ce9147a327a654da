------------------------------ MODULE MCReaders ------------------------------
(***************************************************************************)
(* Instances of Readers for TLC.                                           *)
(***************************************************************************)
EXTENDS Readers, TLC

Rec(source, ref, amount) ==
    [source |-> source, ref |-> ref, amount |-> amount, currency |-> 1,
     counterparty |-> 1, date |-> 10, batch |-> NoBatch,
     fx |-> FALSE, fee |-> FALSE]

\* Legs 1 and 2 can be matched; leg 3, of a third source, conflicts with each.
ListScene ==
    (1 :> Rec(1, 1, 10)) @@
    (2 :> Rec(2, 1, 10)) @@
    (3 :> Rec(3, 1, 20))

\* Some order of the groups of legs.
BinaryRank(S) == MapThenSumSet(LAMBDA l : 2 ^ l, S)
=============================================================================
