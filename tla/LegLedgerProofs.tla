--------------------------- MODULE LegLedgerProofs ---------------------------
(***************************************************************************)
(* The books of LegLedger always balance.                                  *)
(***************************************************************************)
EXTENDS LegLedger, TLAPS

\* A group of legs that were in no other group joins the books.
LEMMA GroupJoins ==
    ASSUME Balanced, NEW l, NEW S, S \subseteq received,
           \A T \in paired \cup broken : T \cap (S \cup {l}) = {},
           received' = received \cup {l}, settled' = settled,
           \/ paired' = paired \cup {S \cup {l}} /\ broken' = broken
           \/ broken' = broken \cup {S \cup {l}} /\ paired' = paired
    PROVE  Balanced'
<1>1. paired' \cup broken' = (paired \cup broken) \cup {S \cup {l}}
  OBVIOUS
<1>2. UNION (paired' \cup broken') \subseteq received'
  BY <1>1 DEF Balanced
<1>3. \A T, U \in paired' \cup broken' : T \cap U # {} => T = U
  BY <1>1 DEF Balanced
<1>4. S \cup {l} \notin paired \cup broken
  OBVIOUS
<1>5. paired' \cap broken' = {}
  BY <1>4 DEF Balanced
<1>6. settled' \subseteq broken'
  BY DEF Balanced
<1> QED
  BY <1>2, <1>3, <1>5, <1>6 DEF Balanced

\* Every step of the ledger keeps the books balanced.
LEMMA BalancedStep ==
    ASSUME Balanced, [LedgerNext]_ledger
    PROVE  Balanced'
<1>1. ASSUME NEW l \in Leg, Wait(l) PROVE Balanced'
  BY <1>1 DEF Wait, Receive, Balanced
<1>2. ASSUME NEW l \in Leg, GiveUp(l) PROVE Balanced'
  BY <1>2 DEF GiveUp, Waiting, Balanced
<1>3. ASSUME NEW l \in Leg, NEW S \in SUBSET Waiting, Pair(l, S) PROVE Balanced'
  <2>1. \A T \in paired \cup broken : T \cap (S \cup {l}) = {}
    BY <1>3 DEF Pair, Receive, Waiting, Balanced
  <2>2. /\ paired' = paired \cup {S \cup {l}}
        /\ UNCHANGED <<broken, settled>>
        /\ received' = received \cup {l} /\ S \subseteq received
    BY <1>3 DEF Pair, Receive, Waiting
  <2> QED
    BY <2>1, <2>2, GroupJoins
<1>4. ASSUME NEW l \in Leg, NEW S \in SUBSET Waiting, Refuse(l, S) PROVE Balanced'
  <2>1. \A T \in paired \cup broken : T \cap (S \cup {l}) = {}
    BY <1>4 DEF Refuse, Receive, Waiting, Balanced
  <2>2. /\ broken' = broken \cup {S \cup {l}}
        /\ UNCHANGED <<paired, settled>>
        /\ received' = received \cup {l} /\ S \subseteq received
    BY <1>4 DEF Refuse, Receive, Waiting
  <2> QED
    BY <2>1, <2>2, GroupJoins
<1>5. ASSUME NEW l \in Leg, NEW r \in Leg, Heal(l, r) PROVE Balanced'
  <2>1. \A T \in paired \cup broken : l \notin T /\ (r \in T => T = {r})
    BY <1>5 DEF Heal, Receive, Balanced
  <2>2. {r} \notin paired /\ r \in received
    BY <1>5 DEF Heal, Balanced
  <2>3. /\ paired' = paired \cup {{l, r}} /\ broken' = broken \ {{r}}
        /\ received' = received \cup {l} /\ l \notin received
        /\ settled' = settled /\ {r} \notin settled
    BY <1>5 DEF Heal, Receive
  <2>4. ASSUME NEW T \in paired \cup (broken \ {{r}}) PROVE T \cap {l, r} = {}
    <3>1. T # {r}
      BY <2>2
    <3>2. l \notin T /\ r \notin T
      BY <2>1, <3>1
    <3> QED
      BY <3>2
  <2>5. UNION (paired' \cup broken') \subseteq received'
    BY <2>2, <2>3 DEF Balanced
  <2>6. \A T, U \in paired' \cup broken' : T \cap U # {} => T = U
    <3>1. paired' \cup broken' = (paired \cup (broken \ {{r}})) \cup {{l, r}}
      BY <2>3
    <3> QED
      BY <2>4, <3>1 DEF Balanced
  <2>7. paired' \cap broken' = {}
    BY <2>3, <2>4 DEF Balanced
  <2>8. settled' \subseteq broken'
    BY <2>3 DEF Balanced
  <2> QED
    BY <2>5, <2>6, <2>7, <2>8 DEF Balanced
<1>6. ASSUME NEW S \in broken, Settle(S) PROVE Balanced'
  BY <1>6 DEF Settle, Balanced
<1>7. CASE StartOver
  BY <1>7 DEF StartOver, Balanced
<1>8. CASE UNCHANGED ledger
  BY <1>8 DEF ledger, Balanced
<1> QED
  BY <1>1, <1>2, <1>3, <1>4, <1>5, <1>6, <1>7, <1>8 DEF LedgerNext

\* Whatever is received, paired, healed, broken, given up, settled or started
\* over, every leg received is in exactly one place.
THEOREM LedgerBalanced == LedgerSpec => []Balanced
<1>1. LedgerInit => Balanced
  BY DEF LedgerInit, Balanced
<1>2. Balanced /\ [LedgerNext]_ledger => Balanced'
  BY BalancedStep
<1> QED
  BY <1>1, <1>2, PTL DEF LedgerSpec
=============================================================================
