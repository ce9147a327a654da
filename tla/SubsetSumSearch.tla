-------------------------- MODULE SubsetSumSearch --------------------------
(***************************************************************************)
(* subsetSum of internal/domain/recon/matcher.go: the depth-first search   *)
(* itself, with its pruning and its node budget, one step per node or loop *)
(* iteration.  It is compared with the operator SubsetSum of ReconMatcher, *)
(* which the engine's model uses.                                          *)
(***************************************************************************)
EXTENDS ReconMatcher, SequencesExt

CONSTANTS
    Targets,   \* target amounts
    Tolerances,
    Sizes,     \* pairs <<minSize, maxSize>>
    Budgets    \* node budgets; 200000 in the code

ASSUME SearchAssumption ==
    /\ Targets \subseteq Nat /\ Tolerances \subseteq Nat
    /\ Sizes \subseteq Nat \X Nat /\ Budgets \subseteq Nat

VARIABLES
    sorted,     \* the pool in the order it is tried
    query,      \* the arguments of the call
    out,        \* positions in sorted of the legs taken so far
    i,          \* the loop variable of the current call of dfs
    remaining,  \* target minus the legs taken
    budget,     \* nodes that may still be explored
    phase       \* "enter" or "loop" in dfs, then "found" or "none"

searchVars == <<sorted, query, out, i, remaining, budget, phase>>

Queries == [target : Targets, tol : Tolerances, sizes : Sizes]
MinSize == query.sizes[1]
MaxSize == query.sizes[2]

\* The pool in the order it is tried.
Sorted(pool) ==
    {s \in SetToSeqs(pool) :
        \A a, b \in DOMAIN s : a < b => TriedBefore(s[a], s[b])}

SearchInit ==
    /\ \E pool \in SUBSET Leg : sorted \in Sorted(pool)
    /\ query \in Queries
    /\ out = <<>> /\ i = 1
    /\ remaining = query.target
    /\ budget \in Budgets
    /\ phase = IF sorted = <<>> \/ MaxSize <= 0 THEN "none" ELSE "enter"

\* Mutant of Backtrack: the leg taken out is tried again.
BacktrackInPlace ==
    IF out = <<>>
    THEN phase' = "none" /\ UNCHANGED <<out, i, remaining>>
    ELSE /\ phase' = "loop"
         /\ out' = Front(out)
         /\ i' = Last(out)
         /\ remaining' = remaining + Amount(sorted[Last(out)])

\* dfs returns false: the caller takes its last leg out and goes on.
Backtrack ==
    IF out = <<>>
    THEN phase' = "none" /\ UNCHANGED <<out, i, remaining>>
    ELSE /\ phase' = "loop"
         /\ out' = Front(out)
         /\ i' = Last(out) + 1
         /\ remaining' = remaining + Amount(sorted[Last(out)])

IsHit == Len(out) >= MinSize /\ Distance(remaining, 0) <= query.tol

\* A call of dfs, up to its loop.
Enter ==
    /\ phase = "enter"
    /\ IF budget <= 0
       THEN Backtrack /\ UNCHANGED budget
       ELSE /\ budget' = budget - 1
            /\ IF IsHit
               THEN phase' = "found" /\ UNCHANGED <<out, i, remaining>>
               ELSE IF Len(out) = MaxSize
                    THEN Backtrack
                    ELSE phase' = "loop" /\ UNCHANGED <<out, i, remaining>>
    /\ UNCHANGED <<sorted, query>>

\* Mutant of TooBig: legs that would overshoot within tolerance are pruned.
TooBigStrict(l) == Amount(l) > remaining

TooBig(l) == Amount(l) > remaining + query.tol

\* Mutant of Skip: the loop is left at the first leg that is too big.
SkipLeavesLoop ==
    /\ phase = "loop" /\ i <= Len(sorted) /\ TooBig(sorted[i])
    /\ Backtrack
    /\ UNCHANGED <<sorted, query, budget>>

Skip ==
    /\ phase = "loop" /\ i <= Len(sorted) /\ TooBig(sorted[i])
    /\ i' = i + 1
    /\ UNCHANGED <<sorted, query, out, remaining, budget, phase>>

Take ==
    /\ phase = "loop" /\ i <= Len(sorted) /\ ~TooBig(sorted[i])
    /\ out' = Append(out, i)
    /\ remaining' = remaining - Amount(sorted[i])
    /\ i' = i + 1
    /\ phase' = "enter"
    /\ UNCHANGED <<sorted, query, budget>>

EndLoop ==
    /\ phase = "loop" /\ i > Len(sorted)
    /\ Backtrack
    /\ UNCHANGED <<sorted, query, budget>>

Done == phase \in {"found", "none"} /\ UNCHANGED searchVars

SearchNext == Enter \/ Skip \/ Take \/ EndLoop \/ Done

SearchSpec ==
    SearchInit /\ [][SearchNext]_searchVars /\ WF_searchVars(SearchNext)

-----------------------------------------------------------------------------
Taken == {sorted[p] : p \in ToSet(out)}

Reference ==
    SubsetSum(ToSet(sorted), query.target, query.tol, MinSize, MaxSize)

\* A subset the search returns is the one the rules define: of all subsets
\* with an admissible size and sum, the first in search order.  The pruning,
\* and a budget that runs out later, never change the answer.
FindsFirst == phase = "found" => Taken = Reference

\* A search that ends empty-handed has proved that there is no such subset,
\* or has spent its whole budget.
MissesOnlyOnBudget == phase = "none" => Reference = {} \/ budget = 0

\* Every search ends, also when the budget runs out in the middle.
SearchEnds == <>(phase \in {"found", "none"})
=============================================================================
