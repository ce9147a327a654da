------------------------------ MODULE MCKafka ------------------------------
(***************************************************************************)
(* Instances of KafkaIngest for TLC: a topic with an undecodable record, a *)
(* settlement (leg 1) and rail legs 2, 3, 4 of its batch, of which 3 and 4 *)
(* come before it and 2 completes the match after it.                      *)
(***************************************************************************)
EXTENDS KafkaIngest, TLC

Rec(source, ref, amount, batch) ==
    [source |-> source, ref |-> ref, amount |-> amount, currency |-> 1,
     counterparty |-> 1, date |-> 10, batch |-> batch,
     fx |-> FALSE, fee |-> FALSE]

TopicScene ==
    (1 :> Rec(1, 9, 30, NoBatch)) @@
    (2 :> Rec(2, 1, 10, 9)) @@
    (3 :> Rec(2, 2, 20, 9)) @@
    (4 :> Rec(2, 3, 21, 9))

TopicRecords ==
    <<[leg |-> 3, at |-> 0], BadRecord, [leg |-> 4, at |-> 0],
      [leg |-> 1, at |-> 0], [leg |-> 2, at |-> 1]>>
=============================================================================
