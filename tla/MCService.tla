------------------------------ MODULE MCService ------------------------------
(***************************************************************************)
(* An instance of Service for TLC: a client, beside the sweeper, and two   *)
(* records that match.                                                     *)
(***************************************************************************)
EXTENDS Service, TLC

Rec(source) ==
    [source |-> source, ref |-> 1, amount |-> 10, currency |-> 1,
     counterparty |-> 1, date |-> 10, batch |-> NoBatch,
     fx |-> FALSE, fee |-> FALSE]

TwoRecords == (1 :> Rec(1)) @@ (2 :> Rec(2))
=============================================================================
