---------------------------- MODULE MCReconEngine ----------------------------
(***************************************************************************)
(* Instances of ReconEngine for TLC.  Each leg table below is a scene:     *)
(* records of a ledger (source 1), a payment rail (source 2) and a card    *)
(* network (source 3) chosen so that every tier and every break happens.   *)
(***************************************************************************)
EXTENDS ReconEngine, TLC

Rec(source, ref, amount, batch) ==
    [source |-> source, ref |-> ref, amount |-> amount, currency |-> 1,
     counterparty |-> 1, date |-> 10, batch |-> batch,
     fx |-> FALSE, fee |-> FALSE]

\* Two records and their disagreements: 2 is the exact partner of 1, 3 re-uses
\* the txn_ref of 2 with an amount still within tolerance of 1, 4 is a record
\* of the ledger under another txn_ref with the amount of 2.
PairScene ==
    (1 :> Rec(1, 1, 10, NoBatch)) @@
    (2 :> Rec(2, 1, 10, NoBatch)) @@
    (3 :> Rec(2, 1, 11, NoBatch)) @@
    (4 :> Rec(1, 2, 10, NoBatch))

\* A settlement (leg 1) of a batch of rail legs 2, 3, 4; 3 and 4 are
\* alternatives within tolerance.
BatchScene ==
    (1 :> Rec(1, 9, 30, NoBatch)) @@
    (2 :> Rec(2, 1, 10, 9)) @@
    (3 :> Rec(2, 2, 20, 9)) @@
    (4 :> Rec(2, 3, 21, 9))

\* One txn_ref reported by three sources: with a fee and another counterparty
\* (leg 2), in another currency (leg 3), and ten days later (leg 4).
ConflictScene ==
    (1 :> Rec(1, 1, 10, NoBatch)) @@
    (2 :> [Rec(2, 1, 10, NoBatch) EXCEPT !.counterparty = 2, !.fee = TRUE]) @@
    (3 :> [Rec(3, 1, 10, NoBatch) EXCEPT !.currency = 2]) @@
    (4 :> [Rec(3, 1, 10, NoBatch) EXCEPT !.date = 20])
=============================================================================
