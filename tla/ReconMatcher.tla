---------------------------- MODULE ReconMatcher ----------------------------
(***************************************************************************)
(* The ordered tiers of internal/domain/recon/matcher.go over the queries  *)
(* of index.go.  An index is the set of its open legs: the maps by window  *)
(* key, by txn_ref and by batch_ref are ways to reach the same legs, so a  *)
(* lookup is a subset of the index and sortLegs is the order LegBefore.    *)
(***************************************************************************)
EXTENDS ReconRules

RuleT1Exact      == "T1.exact"
RuleT2Tolerant   == "T2.ref-tolerant"
RuleT2AmountDate == "T2.amount-date"
RuleT2Late       == "T2.late-arrival"
RuleT3Subset     == "T3.subset-sum"

RuleIds == {RuleT1Exact, RuleT2Tolerant, RuleT2AmountDate, RuleT2Late,
            RuleT3Subset}

-----------------------------------------------------------------------------
(* Orders.                                                                 *)

\* sortLegs: value date, then txn_ref, then ID.
LegBefore(k, l) ==
    \/ Date(k) < Date(l)
    \/ Date(k) = Date(l) /\ Ref(k) < Ref(l)
    \/ Date(k) = Date(l) /\ Ref(k) = Ref(l) /\ k < l

\* The first leg of S in sortLegs order, as a set: empty if S is.
First(S) == {l \in S : \A k \in S \ {l} : LegBefore(l, k)}

\* capCandidates: the first n legs of S in sortLegs order.
Capped(S, n) == {l \in S : Cardinality({k \in S : LegBefore(k, l)}) < n}

-----------------------------------------------------------------------------
(* Index queries.                                                          *)

InWindow(l, S) == {c \in S : WithinDateWindow(c, l)}

Candidates(l, ix) == {c \in ix : Source(c) # Source(l) /\ Key(c) = Key(l)}

CandidatesByRef(l, ix) == {c \in Candidates(l, ix) : Ref(c) = Ref(l)}

SameSourceInWindow(l, ix) ==
    {c \in ix \ {l} : Source(c) = Source(l) /\ Key(c) = Key(l)}

ByRef(l, ix) == {c \in ix \ {l} : Ref(c) = Ref(l)}

ByBatch(l, batch, ix) ==
    {c \in ix \ {l} : Batch(c) # NoBatch /\ Batch(c) = batch /\ Key(c) = Key(l)}

-----------------------------------------------------------------------------
(* The tiers.  Each returns the legs matched with l, {} if there are none. *)

Tier1(l, ix) ==
    First({c \in InWindow(l, CandidatesByRef(l, ix)) : Amount(c) = Amount(l)})

\* The smallest residual, the first in sortLegs order among equals.
Tier2Ref(l, ix) ==
    LET hits == {c \in InWindow(l, CandidatesByRef(l, ix)) :
                    WithinTolerance(Amount(l), Amount(c))}
        residual(c) == Distance(Amount(c), Amount(l))
    IN  First({c \in hits : \A d \in hits : residual(c) <= residual(d)})

\* known is the set of <<txn_ref, source>> pairs the store reports as
\* existing; a failing lookup reports every pair (it fails closed).
Tier2AmountDate(l, ix, known) ==
    LET hits == {c \in InWindow(l, Candidates(l, ix)) :
                    Amount(c) = Amount(l)}
        rivals(hit) == {s \in SameSourceInWindow(l, ix) :
                           Amount(s) = Amount(l) /\ WithinDateWindow(s, hit)}
    IN  {hit \in hits :
            /\ hits = {hit}
            /\ rivals(hit) = {}
            /\ <<Ref(hit), Source(l)>> \notin known
            /\ <<Ref(l), Source(hit)>> \notin known}

-----------------------------------------------------------------------------
(* Tier 3.                                                                 *)

\* The order in which subsetSum tries the legs of its pool: amount
\* descending, ties in pool order.
TriedBefore(k, l) ==
    \/ Amount(k) > Amount(l)
    \/ Amount(k) = Amount(l) /\ LegBefore(k, l)

\* The depth-first search reaches A before B: A is an initial part of B, or
\* at the first leg where they differ A takes it and B goes on to later legs.
ReachedBefore(A, B) ==
    LET diff == (A \ B) \cup (B \ A)
        fork == CHOOSE l \in diff : \A k \in diff \ {l} : TriedBefore(l, k)
        later(S) == \E k \in S : TriedBefore(fork, k)
    IN  IF fork \in A THEN later(B) ELSE ~later(A)

\* Mutant of SubsetSum: a sum may exceed the target by any amount.
SubsetSumAtLeast(pool, target, tol, minSize, maxSize) ==
    LET sums == {S \in SUBSET pool : /\ Cardinality(S) \in minSize..maxSize
                                     /\ TotalAmount(S) >= target - tol}
    IN  UNION {S \in sums : \A T \in sums \ {S} : ReachedBefore(S, T)}

\* What subsetSum returns, {} when it finds nothing.  Module SubsetSumSearch models
\* the search itself, with its node budget, and is checked against this.
SubsetSum(pool, target, tol, minSize, maxSize) ==
    LET sums == {S \in SUBSET pool :
                    /\ Cardinality(S) \in minSize..maxSize
                    /\ Distance(TotalAmount(S), target) <= tol}
    IN  UNION {S \in sums : \A T \in sums \ {S} : ReachedBefore(S, T)}

SettlementKey(l) == IF Batch(l) # NoBatch THEN Batch(l) ELSE Ref(l)

\* (a) l is the one side: legs of one other source sum to it.  Sources are
\* tried in ascending order.
Tier3One(l, ix) ==
    LET pool == IF T3RequireBatchHint
                THEN {c \in InWindow(l, ByBatch(l, SettlementKey(l), ix)) :
                         Source(c) # Source(l)}
                ELSE InWindow(l, Candidates(l, ix))
        many(src) ==
            SubsetSum(Capped({c \in pool : Source(c) = src}, T3MaxCandidates),
                      Amount(l), Tolerance(Amount(l)), 2, T3MaxSubset)
        sources == {src \in {Source(c) : c \in pool} : many(src) # {}}
    IN  UNION {many(src) : src \in {s \in sources : \A o \in sources : s <= o}}

\* (b) l completes the many side of an open settlement leg.
Tier3Many(l, ix) ==
    LET settlements ==
            IF T3RequireBatchHint
            THEN {s \in ix : /\ Source(s) # Source(l)
                             /\ Key(s) = Key(l)
                             /\ Batch(l) \in {Ref(s), Batch(s)}}
            ELSE InWindow(l, Candidates(l, ix))
        same == IF T3RequireBatchHint
                THEN {o \in ByBatch(l, Batch(l), ix) : Source(o) = Source(l)}
                ELSE SameSourceInWindow(l, ix)
        rest(s) ==
            SubsetSum(Capped({o \in InWindow(s, same) : Amount(o) < Amount(s)},
                             T3MaxCandidates),
                      Amount(s) - Amount(l), Tolerance(Amount(s)),
                      1, T3MaxSubset - 1)
        anchors == {s \in InWindow(l, settlements) :
                       Amount(s) > Amount(l) /\ rest(s) # {}}
    IN  IF T3RequireBatchHint /\ Batch(l) = NoBatch THEN {}
        ELSE UNION {{s} \cup rest(s) : s \in First(anchors)}

-----------------------------------------------------------------------------
\* matcher.find: the first tier that yields a match wins.  The result is the
\* set of matches found: empty, or one match.
Find(l, ix, known) ==
    LET tier(rank, S, rule) == [rank |-> rank, legs |-> S, rule |-> rule]
        hits == {t \in {tier(1, Tier1(l, ix), RuleT1Exact),
                        tier(2, Tier2Ref(l, ix), RuleT2Tolerant),
                        tier(3, Tier2AmountDate(l, ix, known), RuleT2AmountDate),
                        tier(4, Tier3One(l, ix), RuleT3Subset),
                        tier(5, Tier3Many(l, ix), RuleT3Subset)} :
                    t.legs # {}}
        best == {t \in hits : \A u \in hits : t.rank <= u.rank}
    IN  {[legs |-> {l} \cup t.legs, rule |-> t.rule] : t \in best}
=============================================================================
