------------------------------ MODULE MCReplay ------------------------------
(***************************************************************************)
(* Instances of ReplayAudit for TLC.  Source 1 is the ledger, source 2 the *)
(* payment rail.                                                           *)
(***************************************************************************)
EXTENDS ReplayAudit, TLC

Rec(source, ref, amount) ==
    [source |-> source, ref |-> ref, amount |-> amount, currency |-> 1,
     counterparty |-> 1, date |-> 10, batch |-> NoBatch,
     fx |-> FALSE, fee |-> FALSE]

\* Leg 2 is within tolerance of leg 1; leg 3 re-uses the txn_ref of leg 2 and
\* is not within tolerance of leg 1.
ReuseScene ==
    (1 :> Rec(1, 1, 10)) @@
    (2 :> Rec(2, 1, 11)) @@
    (3 :> Rec(2, 1, 14))
=============================================================================
