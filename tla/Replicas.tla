------------------------------ MODULE Replicas ------------------------------
(***************************************************************************)
(* Two processes over one Postgres store, each the consumer of its own     *)
(* partitions: the topics are keyed by counterparty and currency, so the   *)
(* legs of a window all go to one replica.  The state of ReconEngine is    *)
(* that of the first replica; the second has an index and an operation of  *)
(* its own and shares the store.  It is started while the first one runs.  *)
(*                                                                         *)
(* A leg's lookups and its Apply are one step here, also with respect to   *)
(* the other replica: in the code they are separate queries, and more can  *)
(* happen than this module shows.  Replay is for paused consumers.         *)
(***************************************************************************)
EXTENDS ReconEngine

CONSTANT Elsewhere  \* the window keys whose legs go to the second replica

VARIABLES index2, op2, todo2, due2, cursor2, through2

memory == <<index, op, todo, due, cursor, through>>
memory2 == <<index2, op2, todo2, due2, cursor2, through2>>

Second == INSTANCE ReconEngine WITH
    index <- index2, op <- op2, todo <- todo2, due <- due2,
    cursor <- cursor2, through <- through2

\* The legs of a batch come from the partitions of the replica.
Assigned(batch, there) ==
    \A i \in DOMAIN batch : (Key(batch[i].leg) \in Elsewhere) = there

FirstReplica == Next /\ Assigned(todo', FALSE) /\ UNCHANGED memory2
SecondReplica == Second!Next /\ Assigned(todo2', TRUE) /\ UNCHANGED memory

ReplicasInit ==
    /\ Init
    /\ index2 = {} /\ op2 = "down" /\ todo2 = <<>> /\ due2 = {}
    /\ cursor2 = 0 /\ through2 = 0

ReplicasSpec ==
    ReplicasInit /\ [][FirstReplica \/ SecondReplica]_<<vars, memory2>>

-----------------------------------------------------------------------------
\* Windows never span partitions, so replicas never contend: what one replica
\* has matched no other replica breaks or matches again.
ReplicasNeverContend ==
    \A m \in matches : \A l \in m.legs :
        legs[l].status = "matched" /\ legs[l].match = m.legs
=============================================================================
