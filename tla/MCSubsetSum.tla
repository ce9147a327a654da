---------------------------- MODULE MCSubsetSum ----------------------------
(***************************************************************************)
(* Instance of SubsetSumSearch for TLC: every pool drawn from six legs,    *)
(* two of them with the same amount.                                       *)
(***************************************************************************)
EXTENDS SubsetSumSearch, TLC

Amounts == <<7, 5, 5, 3, 2, 1>>

PoolScene ==
    [l \in 1..6 |-> [source |-> 1, ref |-> l, amount |-> Amounts[l],
                     currency |-> 1, counterparty |-> 1, date |-> 10,
                     batch |-> NoBatch,
     fx |-> FALSE, fee |-> FALSE]]

\* The sizes of the two orientations of tier 3 with T3MaxSubset = 3.
SizePairs == {<<2, 3>>, <<1, 2>>}
=============================================================================
