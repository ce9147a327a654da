----------------------------- MODULE ReconRules -----------------------------
(***************************************************************************)
(* The legs the service can be fed and the tunable rules of the matcher:   *)
(* internal/domain/recon/leg.go and rules.go.                              *)
(*                                                                         *)
(* A leg is a number.  Its ID in the code is source:txn_ref:hash(content), *)
(* so a leg stands for its content: the same number delivered twice is the *)
(* same record delivered twice, and a record that re-uses a txn_ref with   *)
(* other content is another number.  The order of the numbers is the       *)
(* string order of the IDs; sources, refs, currencies and counterparties   *)
(* are numbers too, ordered as the strings they stand for.                 *)
(***************************************************************************)
EXTENDS Integers, FiniteSets, FiniteSetsExt

CONSTANTS
    Leg,              \* the legs of the instance
    Attr,             \* the content of each leg
    ToleranceBps,     \* relative tolerance in basis points
    ToleranceAbs,     \* absolute tolerance in minor units
    DateWindow,       \* value dates may be this many days apart
    T3MaxCandidates,  \* cap on the pool of the subset sum
    T3MaxSubset,      \* cap on the many side of a T3 match
    T3RequireBatchHint

NoBatch == 0

LegContent ==
    [source : Nat, ref : Nat \ {0}, amount : Nat \ {0}, currency : Nat,
     counterparty : Nat, date : Nat, batch : Nat,
     fx : BOOLEAN, fee : BOOLEAN]  \* carries FX, fee attributes

\* Leg.Validate: every leg that reaches the engine has a positive amount and
\* all its keys.
ASSUME LegAssumption ==
    /\ Leg \subseteq Nat /\ IsFiniteSet(Leg)
    /\ Attr \in [Leg -> LegContent]

\* Rules.Validate.
ASSUME RulesAssumption ==
    /\ ToleranceBps \in 0..10000
    /\ ToleranceAbs \in Nat
    /\ DateWindow \in 0..365
    /\ T3MaxCandidates \in 2..64
    /\ T3MaxSubset \in 2..12
    /\ T3RequireBatchHint \in BOOLEAN

Source(l) == Attr[l].source
Ref(l) == Attr[l].ref
Amount(l) == Attr[l].amount
Currency(l) == Attr[l].currency
Date(l) == Attr[l].date
Batch(l) == Attr[l].batch

\* The partition key of the open-leg index.
Key(l) == <<Attr[l].currency, Attr[l].counterparty>>

Distance(x, y) == IF x < y THEN y - x ELSE x - y

\* max(round(amount * bps / 10000), abs); math.Round rounds halves up.
Tolerance(amount) ==
    LET rel == (amount * ToleranceBps + 5000) \div 10000
    IN  IF rel > ToleranceAbs THEN rel ELSE ToleranceAbs

\* Not symmetric: the tolerance is that of the first amount.
WithinTolerance(a, b) == Distance(a, b) <= Tolerance(a)

WithinDateWindow(k, l) == Distance(Date(k), Date(l)) <= DateWindow

TotalAmount(S) == MapThenSumSet(Amount, S)
=============================================================================
