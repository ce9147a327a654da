------------------------------ MODULE LegLedger ------------------------------
(***************************************************************************)
(* What the engine promises about legs, without index, log, operations or  *)
(* failures: a leg is received once and is from then on in one place.  It  *)
(* waits, or it is paired for good with legs that waited or with one that  *)
(* was broken alone, or it is broken; a broken group whose case an         *)
(* operator settled is not touched again.  Only a replay starts over.      *)
(***************************************************************************)
CONSTANT Leg

VARIABLES
    received,  \* the legs received
    paired,    \* the groups of legs matched with each other
    broken,    \* the groups of legs in break
    settled    \* the broken groups whose case an operator settled

ledger == <<received, paired, broken, settled>>

Waiting == received \ UNION (paired \cup broken)

LedgerInit == received = {} /\ paired = {} /\ broken = {} /\ settled = {}

Receive(l) == l \notin received /\ received' = received \cup {l}

Wait(l) == Receive(l) /\ UNCHANGED <<paired, broken, settled>>

Pair(l, S) ==
    /\ Receive(l) /\ S \subseteq Waiting /\ S # {}
    /\ paired' = paired \cup {S \cup {l}}
    /\ UNCHANGED <<broken, settled>>

Heal(l, r) ==
    /\ Receive(l) /\ {r} \in broken \ settled
    /\ paired' = paired \cup {{l, r}}
    /\ broken' = broken \ {{r}}
    /\ UNCHANGED settled

Refuse(l, S) ==
    /\ Receive(l) /\ S \subseteq Waiting
    /\ broken' = broken \cup {S \cup {l}}
    /\ UNCHANGED <<paired, settled>>

GiveUp(l) ==
    /\ l \in Waiting
    /\ broken' = broken \cup {{l}}
    /\ UNCHANGED <<received, paired, settled>>

Settle(S) ==
    /\ S \in broken \ settled
    /\ settled' = settled \cup {S}
    /\ UNCHANGED <<received, paired, broken>>

StartOver == received' = {} /\ paired' = {} /\ broken' = {} /\ settled' = {}

LedgerNext ==
    \/ \E l \in Leg :
          \/ Wait(l) \/ GiveUp(l)
          \/ \E S \in SUBSET Waiting : Pair(l, S) \/ Refuse(l, S)
          \/ \E r \in Leg : Heal(l, r)
    \/ \E S \in broken : Settle(S)
    \/ StartOver

LedgerSpec == LedgerInit /\ [][LedgerNext]_ledger

-----------------------------------------------------------------------------
\* The books balance: a leg is in one group at most, every leg of a group was
\* received, and only broken groups are settled.  With Waiting, every leg that
\* was received is in exactly one place.
Balanced ==
    /\ UNION (paired \cup broken) \subseteq received
    /\ \A S, T \in paired \cup broken : S \cap T # {} => S = T
    /\ paired \cap broken = {}
    /\ settled \subseteq broken
=============================================================================
