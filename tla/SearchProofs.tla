---------------------------- MODULE SearchProofs ----------------------------
(***************************************************************************)
(* The depth-first search of subsetSum finds what the operator SubsetSum   *)
(* of ReconMatcher defines, for every pool, target, tolerance, size and    *)
(* budget.  The lemmas on totals and orders are those of OutcomeProofs.    *)
(***************************************************************************)
EXTENDS SubsetSumSearch, OutcomeProofs

\* The legs at the positions O, and those at the first j positions.
LegsAt(O) == {sorted[p] : p \in O}

Tried(j) == {sorted[p] : p \in {q \in DOMAIN sorted : q <= j}}

\* The pool is sorted, and every leg is in it once.
SortedOK ==
    /\ Len(sorted) \in Nat
    /\ sorted \in [1..Len(sorted) -> Leg]
    /\ \A a, b \in 1..Len(sorted) : a < b => TriedBefore(sorted[a], sorted[b])

\* No leg is at two positions, and the order of the positions is the one in
\* which legs are tried.
LEMMA SortedOnce ==
    ASSUME SortedOK, NEW a \in 1..Len(sorted), NEW b \in 1..Len(sorted)
    PROVE  /\ sorted[a] \in Leg
           /\ sorted[a] = sorted[b] => a = b
           /\ TriedBefore(sorted[a], sorted[b]) => a < b
<1>1. sorted[a] \in Leg /\ sorted[b] \in Leg
  BY DEF SortedOK
<1>2. a < b => TriedBefore(sorted[a], sorted[b])
  BY DEF SortedOK
<1>3. b < a => TriedBefore(sorted[b], sorted[a])
  BY DEF SortedOK
<1>4. ~(TriedBefore(sorted[a], sorted[b]) /\ TriedBefore(sorted[b], sorted[a]))
  BY <1>1, TriedOrder
<1>5. a < b \/ b < a \/ a = b
  OBVIOUS
<1> QED
  BY <1>1, <1>2, <1>3, <1>4, <1>5

\* A leg is among the first j if and only if its position is.
LEMMA TriedAt ==
    ASSUME SortedOK, NEW j \in 0..Len(sorted), NEW a \in 1..Len(sorted)
    PROVE  sorted[a] \in Tried(j) <=> a <= j
<1>1. DOMAIN sorted = 1..Len(sorted)
  BY DEF SortedOK
<1>2. ASSUME sorted[a] \in Tried(j) PROVE a <= j
  <2>1. PICK q \in 1..Len(sorted) : q <= j /\ sorted[q] = sorted[a]
    BY <1>1, <1>2 DEF Tried
  <2> QED
    BY <2>1, SortedOnce
<1> QED
  BY <1>1, <1>2 DEF Tried

\* The pool, and the part of it that a set of positions stands for.
LEMMA PoolPositions ==
    ASSUME SortedOK
    PROVE  /\ ToSet(sorted) = {sorted[p] : p \in 1..Len(sorted)}
           /\ ToSet(sorted) \in SUBSET Leg
           /\ \A O \in SUBSET (1..Len(sorted)) : LegsAt(O) \subseteq ToSet(sorted)
<1>1. DOMAIN sorted = 1..Len(sorted)
  BY DEF SortedOK
<1>2. ToSet(sorted) = {sorted[p] : p \in 1..Len(sorted)}
  BY <1>1 DEF ToSet
<1>3. \A p \in 1..Len(sorted) : sorted[p] \in Leg
  BY SortedOnce
<1> QED
  BY <1>2, <1>3 DEF LegsAt

\* A position of O, and only that, puts its leg among those of O.
LEMMA LegsAtPosition ==
    ASSUME SortedOK, NEW O \in SUBSET (1..Len(sorted)), NEW a \in 1..Len(sorted)
    PROVE  sorted[a] \in LegsAt(O) <=> a \in O
<1>1. ASSUME sorted[a] \in LegsAt(O) PROVE a \in O
  <2>1. PICK q \in O : sorted[q] = sorted[a]
    BY <1>1 DEF LegsAt
  <2> QED
    BY <2>1, SortedOnce
<1> QED
  BY <1>1 DEF LegsAt

-----------------------------------------------------------------------------
(* What the search has still before it.                                    *)

\* With the positions O taken and the first j tried, the set S of legs is
\* ahead: it extends the legs taken by legs not yet tried (when the loop runs,
\* by at least one), or it leaves a leg out that was taken, agrees with the
\* legs taken before that one, and goes on with a later one.
Extends(S, O, j, loop) ==
    S \cap Tried(j) = LegsAt(O) /\ (loop => S # LegsAt(O))

LeavesOut(S, O, p) ==
    /\ S \cap Tried(p) = LegsAt(O) \cap Tried(p - 1)
    /\ \E k \in S : k \notin Tried(p)

Ahead(S, O, j, loop) ==
    Extends(S, O, j, loop) \/ \E p \in O : LeavesOut(S, O, p)

\* Two sets of legs of the pool are compared position by position.
LEMMA SameLegs ==
    ASSUME SortedOK, NEW S \in SUBSET ToSet(sorted), NEW R \in SUBSET ToSet(sorted),
           \A a \in 1..Len(sorted) : sorted[a] \in S <=> sorted[a] \in R
    PROVE  S = R
BY PoolPositions

\* The two ways to be ahead, position by position.
LEMMA ExtendsAt ==
    ASSUME SortedOK, NEW j \in 0..Len(sorted), NEW O \in SUBSET (1..j),
           NEW S \in SUBSET ToSet(sorted), NEW loop \in BOOLEAN
    PROVE  Extends(S, O, j, loop) <=>
             /\ \A a \in 1..j : sorted[a] \in S <=> a \in O
             /\ loop => \E a \in 1..Len(sorted) : a > j /\ sorted[a] \in S
<1>1. O \in SUBSET (1..Len(sorted))
  BY DEF SortedOK
<1>2. \A a \in 1..Len(sorted) : sorted[a] \in LegsAt(O) <=> a \in O
  BY <1>1, LegsAtPosition
<1>3. \A a \in 1..Len(sorted) : sorted[a] \in Tried(j) <=> a <= j
  BY TriedAt
<1>4. LegsAt(O) \in SUBSET ToSet(sorted) /\ S \cap Tried(j) \in SUBSET ToSet(sorted)
  BY <1>1, PoolPositions
<1>5. ASSUME \A a \in 1..j : sorted[a] \in S <=> a \in O
      PROVE  S \cap Tried(j) = LegsAt(O)
  <2>1. ASSUME NEW a \in 1..Len(sorted)
        PROVE  sorted[a] \in S \cap Tried(j) <=> sorted[a] \in LegsAt(O)
    <3>1. CASE a <= j
      BY <1>2, <1>3, <1>5, <3>1
    <3>2. CASE ~(a <= j)
      BY <1>2, <1>3, <3>2
    <3> QED
      BY <3>1, <3>2
  <2>2. PICK R, L : R = S \cap Tried(j) /\ L = LegsAt(O)
    OBVIOUS
  <2>3. /\ R \in SUBSET ToSet(sorted) /\ L \in SUBSET ToSet(sorted)
        /\ \A a \in 1..Len(sorted) : sorted[a] \in R <=> sorted[a] \in L
    BY <1>4, <2>1, <2>2
  <2>4. R = L
    BY <2>3, SameLegs, Zenon
  <2> QED
    BY <2>2, <2>4
<1>6. ASSUME S \cap Tried(j) = LegsAt(O)
      PROVE  \A a \in 1..j : sorted[a] \in S <=> a \in O
  <2> SUFFICES ASSUME NEW a \in 1..j PROVE sorted[a] \in S <=> a \in O
    OBVIOUS
  <2>1. a \in 1..Len(sorted) /\ a <= j
    BY DEF SortedOK
  <2> QED
    BY <1>2, <1>3, <1>6, <2>1
<1>7. ASSUME S \cap Tried(j) = LegsAt(O)
      PROVE  S # LegsAt(O) <=> \E a \in 1..Len(sorted) : a > j /\ sorted[a] \in S
  <2>1. ASSUME NEW a \in 1..Len(sorted), a > j, sorted[a] \in S PROVE S # LegsAt(O)
    BY <1>3, <1>7, <2>1 DEF SortedOK
  <2>2. ASSUME S # LegsAt(O)
        PROVE  \E a \in 1..Len(sorted) : a > j /\ sorted[a] \in S
    <3>1. PICK l \in S : l \notin Tried(j)
      BY <1>7, <2>2
    <3>2. PICK a \in 1..Len(sorted) : l = sorted[a]
      BY PoolPositions
    <3> QED
      BY <1>3, <3>1, <3>2
  <2> QED
    BY <2>1, <2>2
<1> QED
  BY <1>5, <1>6, <1>7 DEF Extends

LEMMA LeavesOutAt ==
    ASSUME SortedOK, NEW O \in SUBSET (1..Len(sorted)), NEW p \in O,
           NEW S \in SUBSET ToSet(sorted)
    PROVE  LeavesOut(S, O, p) <=>
             /\ \A a \in 1..p : sorted[a] \in S <=> a \in O /\ a # p
             /\ \E a \in 1..Len(sorted) : a > p /\ sorted[a] \in S
<1>1. p \in 1..Len(sorted) /\ p - 1 \in 0..Len(sorted) /\ p \in 0..Len(sorted)
  BY DEF SortedOK
<1>2. \A a \in 1..Len(sorted) : sorted[a] \in LegsAt(O) <=> a \in O
  BY LegsAtPosition
<1>3. \A a \in 1..Len(sorted) : /\ sorted[a] \in Tried(p) <=> a <= p
                                /\ sorted[a] \in Tried(p - 1) <=> a <= p - 1
  BY <1>1, TriedAt
<1>4. LegsAt(O) \cap Tried(p - 1) \in SUBSET ToSet(sorted) /\ S \cap Tried(p) \in SUBSET ToSet(sorted)
  BY PoolPositions
<1>5. ASSUME \A a \in 1..p : sorted[a] \in S <=> a \in O /\ a # p
      PROVE  S \cap Tried(p) = LegsAt(O) \cap Tried(p - 1)
  <2>1. ASSUME NEW a \in 1..Len(sorted)
        PROVE  sorted[a] \in S \cap Tried(p) <=> sorted[a] \in LegsAt(O) \cap Tried(p - 1)
    <3>1. CASE a <= p
      <4>1. a <= p - 1 <=> a # p
        BY <1>1, <3>1
      <4>2. sorted[a] \in S <=> a \in O /\ a # p
        BY <1>5, <3>1
      <4> QED
        BY <1>2, <1>3, <3>1, <4>1, <4>2
    <3>2. CASE ~(a <= p)
      <4>1. ~(a <= p - 1)
        BY <1>1, <3>2
      <4> QED
        BY <1>3, <3>2, <4>1
    <3> QED
      BY <3>1, <3>2
  <2>2. PICK R, L : R = S \cap Tried(p) /\ L = LegsAt(O) \cap Tried(p - 1)
    OBVIOUS
  <2>3. /\ R \in SUBSET ToSet(sorted) /\ L \in SUBSET ToSet(sorted)
        /\ \A a \in 1..Len(sorted) : sorted[a] \in R <=> sorted[a] \in L
    BY <1>4, <2>1, <2>2
  <2>4. R = L
    BY <2>3, SameLegs, Zenon
  <2> QED
    BY <2>2, <2>4
<1>6. ASSUME S \cap Tried(p) = LegsAt(O) \cap Tried(p - 1)
      PROVE  \A a \in 1..p : sorted[a] \in S <=> a \in O /\ a # p
  <2> SUFFICES ASSUME NEW a \in 1..p PROVE sorted[a] \in S <=> a \in O /\ a # p
    OBVIOUS
  <2>1. a \in 1..Len(sorted) /\ a <= p /\ (a <= p - 1 <=> a # p)
    BY <1>1
  <2> QED
    BY <1>2, <1>3, <1>6, <2>1
<1>7. (\E k \in S : k \notin Tried(p)) <=> \E a \in 1..Len(sorted) : a > p /\ sorted[a] \in S
  <2>1. ASSUME NEW k \in S, k \notin Tried(p)
        PROVE  \E a \in 1..Len(sorted) : a > p /\ sorted[a] \in S
    <3>1. PICK a \in 1..Len(sorted) : k = sorted[a]
      BY PoolPositions
    <3> QED
      BY <1>1, <1>3, <2>1, <3>1
  <2>2. ASSUME NEW a \in 1..Len(sorted), a > p, sorted[a] \in S
        PROVE  \E k \in S : k \notin Tried(p)
    BY <1>1, <1>3, <2>2
  <2> QED
    BY <2>1, <2>2
<1> QED
  BY <1>5, <1>6, <1>7 DEF LeavesOut

\* Taking the next leg keeps ahead what was ahead.
LEMMA TakeKeepsAhead ==
    ASSUME SortedOK, NEW n \in 1..Len(sorted), NEW O \in SUBSET (1..(n - 1)),
           NEW S \in SUBSET ToSet(sorted), Ahead(S, O, n - 1, TRUE)
    PROVE  Ahead(S, O \cup {n}, n, FALSE)
<1>1. /\ n - 1 \in 0..Len(sorted) /\ n \in 0..Len(sorted)
      /\ O \in SUBSET (1..Len(sorted)) /\ n \notin O
  BY DEF SortedOK
<1>l. ASSUME NEW p \in O, LeavesOut(S, O, p)
      PROVE  /\ \A a \in 1..p : sorted[a] \in S <=> a \in O /\ a # p
             /\ \E a \in 1..Len(sorted) : a > p /\ sorted[a] \in S
  BY <1>1, <1>l, LeavesOutAt
<1>2. PICK Q : Q = O \cup {n}
  OBVIOUS
<1>3. Q \in SUBSET (1..n) /\ Q \in SUBSET (1..Len(sorted)) /\ n \in Q
  BY <1>1, <1>2
<1>4. CASE Extends(S, O, n - 1, TRUE)
  <2>1. /\ \A a \in 1..(n - 1) : sorted[a] \in S <=> a \in O
        /\ \E a \in 1..Len(sorted) : a > n - 1 /\ sorted[a] \in S
    BY <1>1, <1>4, ExtendsAt
  <2>2. CASE sorted[n] \in S
    <3>1. \A a \in 1..n : sorted[a] \in S <=> a \in Q
      BY <1>1, <1>2, <2>1, <2>2
    <3>2. Extends(S, Q, n, FALSE)
      BY <1>1, <1>3, <3>1, ExtendsAt
    <3> QED
      BY <1>2, <3>2 DEF Ahead
  <2>3. CASE sorted[n] \notin S
    <3>1. \A a \in 1..n : sorted[a] \in S <=> a \in Q /\ a # n
      BY <1>1, <1>2, <2>1, <2>3
    <3>2. \E a \in 1..Len(sorted) : a > n /\ sorted[a] \in S
      <4>1. PICK a \in 1..Len(sorted) : a > n - 1 /\ sorted[a] \in S
        BY <2>1
      <4>2. a > n
        BY <2>3, <4>1
      <4> QED
        BY <4>1, <4>2
    <3>3. LeavesOut(S, Q, n)
      BY <1>3, <3>1, <3>2, LeavesOutAt
    <3> QED
      BY <1>2, <1>3, <3>3 DEF Ahead
  <2> QED
    BY <2>2, <2>3
<1>5. ASSUME NEW p \in O, LeavesOut(S, O, p) PROVE Ahead(S, O \cup {n}, n, FALSE)
  <2>1. /\ \A a \in 1..p : sorted[a] \in S <=> a \in O /\ a # p
        /\ \E a \in 1..Len(sorted) : a > p /\ sorted[a] \in S
    BY <1>l, <1>5
  <2>2. \A a \in 1..p : a # n
    BY <1>1
  <2>3. \A a \in 1..p : sorted[a] \in S <=> a \in Q /\ a # p
    BY <1>2, <2>1, <2>2
  <2>4. LeavesOut(S, Q, p)
    BY <1>2, <1>3, <2>1, <2>3, LeavesOutAt
  <2> QED
    BY <1>2, <2>4 DEF Ahead
<1> QED
  BY <1>4, <1>5 DEF Ahead

\* Passing over a leg that no set ahead can hold keeps them ahead.
LEMMA SkipKeepsAhead ==
    ASSUME SortedOK, NEW n \in 1..Len(sorted), NEW O \in SUBSET (1..(n - 1)),
           NEW S \in SUBSET ToSet(sorted), Ahead(S, O, n - 1, TRUE),
           S \cap Tried(n - 1) = LegsAt(O) => sorted[n] \notin S
    PROVE  Ahead(S, O, n, TRUE)
<1>1. /\ n - 1 \in 0..Len(sorted) /\ n \in 0..Len(sorted)
      /\ O \in SUBSET (1..n) /\ n \notin O
  BY DEF SortedOK
<1>2. CASE Extends(S, O, n - 1, TRUE)
  <2>1. /\ \A a \in 1..(n - 1) : sorted[a] \in S <=> a \in O
        /\ \E a \in 1..Len(sorted) : a > n - 1 /\ sorted[a] \in S
    <3>1. PICK j : j = n - 1
      OBVIOUS
    <3>2. j \in 0..Len(sorted) /\ O \in SUBSET (1..j) /\ Extends(S, O, j, TRUE)
      BY <1>1, <1>2, <3>1
    <3>3. /\ \A a \in 1..j : sorted[a] \in S <=> a \in O
          /\ \E a \in 1..Len(sorted) : a > j /\ sorted[a] \in S
      BY <3>2, ExtendsAt
    <3> QED
      BY <3>1, <3>3
  <2>2. sorted[n] \notin S
    BY <1>2 DEF Extends
  <2>3. \A a \in 1..n : sorted[a] \in S <=> a \in O
    BY <1>1, <2>1, <2>2
  <2>4. PICK a \in 1..Len(sorted) : a > n - 1 /\ sorted[a] \in S
    BY <2>1
  <2>5. a > n
    BY <2>2, <2>4
  <2>6. Extends(S, O, n, TRUE)
    BY <1>1, <2>3, <2>4, <2>5, ExtendsAt
  <2> QED
    BY <2>6 DEF Ahead
<1> QED
  BY <1>2 DEF Ahead

\* Going back over the last leg keeps ahead what leaves out a leg.
LEMMA BackKeepsAhead ==
    ASSUME SortedOK, NEW O \in SUBSET (1..Len(sorted)), NEW last \in O,
           \A q \in O : q <= last, NEW S \in SUBSET ToSet(sorted),
           \E p \in O : LeavesOut(S, O, p)
    PROVE  Ahead(S, O \ {last}, last, TRUE)
<1>1. PICK p \in O : LeavesOut(S, O, p)
  OBVIOUS
<1>2. PICK Q : Q = O \ {last}
  OBVIOUS
<1>3. /\ Q \in SUBSET (1..Len(sorted)) /\ Q \in SUBSET (1..last)
      /\ last \in 0..Len(sorted)
  BY <1>2 DEF SortedOK
<1>4. /\ \A a \in 1..p : sorted[a] \in S <=> a \in O /\ a # p
      /\ \E a \in 1..Len(sorted) : a > p /\ sorted[a] \in S
  BY <1>1, LeavesOutAt
<1>5. CASE p = last
  <2>1. \A a \in 1..last : sorted[a] \in S <=> a \in Q
    BY <1>2, <1>4, <1>5
  <2>2. Extends(S, Q, last, TRUE)
    BY <1>3, <1>4, <1>5, <2>1, ExtendsAt
  <2> QED
    BY <1>2, <2>2 DEF Ahead
<1>6. CASE p # last
  <2>1. p \in Q /\ \A a \in 1..p : a # last
    BY <1>2, <1>6 DEF SortedOK
  <2>2. \A a \in 1..p : sorted[a] \in S <=> a \in Q /\ a # p
    BY <1>2, <1>4, <2>1
  <2>3. LeavesOut(S, Q, p)
    BY <1>3, <1>4, <2>1, <2>2, LeavesOutAt
  <2> QED
    BY <1>2, <2>1, <2>3 DEF Ahead
<1> QED
  BY <1>5, <1>6

\* What is ahead is reached later than what is taken.
LEMMA AheadIsLater ==
    ASSUME SortedOK, NEW j \in 0..Len(sorted), NEW O \in SUBSET (1..j),
           NEW S \in SUBSET ToSet(sorted), Ahead(S, O, j, FALSE), S # LegsAt(O)
    PROVE  ReachedBefore(LegsAt(O), S)
<1>1. O \in SUBSET (1..Len(sorted))
  BY DEF SortedOK
<1>l. ASSUME NEW p \in O, LeavesOut(S, O, p)
      PROVE  /\ \A a \in 1..p : sorted[a] \in S <=> a \in O /\ a # p
             /\ \E a \in 1..Len(sorted) : a > p /\ sorted[a] \in S
  BY <1>1, <1>l, LeavesOutAt
<1>2. PICK A : A = LegsAt(O)
  OBVIOUS
<1>3. /\ A \in SUBSET ToSet(sorted) /\ A \in SUBSET Leg /\ S \in SUBSET Leg
      /\ \A a \in 1..Len(sorted) : sorted[a] \in A <=> a \in O
  BY <1>1, <1>2, PoolPositions, LegsAtPosition
<1>4. PICK diff : diff = (A \ S) \cup (S \ A)
  OBVIOUS
<1>5. PICK fork : fork = CHOOSE l \in diff : \A k \in diff \ {l} : TriedBefore(l, k)
  OBVIOUS
<1>6. diff \in SUBSET Leg /\ diff # {}
  BY <1>2, <1>3, <1>4
<1>7. fork \in diff /\ \A k \in diff \ {fork} : TriedBefore(fork, k)
  BY <1>5, <1>6, FirstTried
<1>8. ReachedBefore(A, S) <=>
        IF fork \in A THEN \E k \in S : TriedBefore(fork, k)
                      ELSE ~\E k \in A : TriedBefore(fork, k)
  BY <1>4, <1>5 DEF ReachedBefore
<1>9. PICK f \in 1..Len(sorted) : fork = sorted[f]
  BY <1>3, <1>4, <1>7, PoolPositions
<1>10. CASE Extends(S, O, j, FALSE)
  <2>1. \A a \in 1..j : sorted[a] \in S <=> a \in O
    BY <1>10, ExtendsAt
  <2>2. f \notin O /\ f > j
    BY <1>3, <1>4, <1>7, <1>9, <2>1 DEF SortedOK
  <2>3. fork \notin A
    BY <1>3, <1>9, <2>2
  <2>4. ASSUME NEW k \in A, TriedBefore(fork, k) PROVE FALSE
    <3>1. PICK a \in 1..Len(sorted) : k = sorted[a]
      BY <1>3, PoolPositions
    <3>2. a \in O /\ f < a
      BY <1>3, <1>9, <2>4, <3>1, SortedOnce
    <3> QED
      BY <2>2, <3>2
  <2> QED
    BY <1>2, <1>8, <2>3, <2>4
<1>11. ASSUME NEW p \in O, LeavesOut(S, O, p) PROVE ReachedBefore(A, S)
  <2>1. /\ \A a \in 1..p : sorted[a] \in S <=> a \in O /\ a # p
        /\ \E a \in 1..Len(sorted) : a > p /\ sorted[a] \in S
    BY <1>l, <1>11
  <2>2. p \in 1..Len(sorted) /\ sorted[p] \in diff
    BY <1>1, <1>3, <1>4, <2>1
  <2>3. ~(f < p)
    BY <1>3, <1>4, <1>7, <1>9, <2>1, <2>2
  <2>4. f = p
    <3>1. CASE sorted[p] # fork
      BY <1>7, <1>9, <2>2, <2>3, <3>1, SortedOnce
    <3>2. CASE sorted[p] = fork
      BY <1>9, <2>2, <3>2, SortedOnce
    <3> QED
      BY <3>1, <3>2
  <2>5. fork \in A
    BY <1>3, <1>9, <2>4
  <2>6. PICK a \in 1..Len(sorted) : a > p /\ sorted[a] \in S
    BY <2>1
  <2>7. TriedBefore(fork, sorted[a])
    BY <1>9, <2>4, <2>6 DEF SortedOK
  <2> QED
    BY <1>8, <2>5, <2>6, <2>7
<1> QED
  BY <1>2, <1>10, <1>11 DEF Ahead

-----------------------------------------------------------------------------
(* The variables of the search.                                            *)

\* More legs do not sum to less.
LEMMA TotalGrows ==
    ASSUME NEW R \in SUBSET Leg, NEW S \in SUBSET R
    PROVE  TotalAmount(S) <= TotalAmount(R)
<1> SUFFICES ASSUME ~(TotalAmount(S) <= TotalAmount(R)) PROVE FALSE
  OBVIOUS
<1> DEFINE T == {U \in SUBSET Leg : S \subseteq U /\ ~(TotalAmount(S) <= TotalAmount(U))}
<1>1. T # {} /\ T \subseteq SUBSET Leg
  OBVIOUS
<1> HIDE DEF T
<1>2. PICK M \in T : \A U \in T : U \subseteq M => U = M
  BY <1>1, MinimalSet
<1>3. M \in SUBSET Leg /\ S \subseteq M /\ ~(TotalAmount(S) <= TotalAmount(M))
  BY DEF T
<1>4. TotalAmount(S) \in Nat /\ TotalAmount(M) \in Nat
  BY <1>3, TotalTyped
<1>5. S # M
  BY <1>3, <1>4
<1>6. PICK x \in M : x \notin S
  BY <1>3, <1>5
<1>7. PICK D : D = M \ {x}
  OBVIOUS
<1>8. D \in SUBSET Leg /\ S \subseteq D /\ D \notin T
  BY <1>2, <1>3, <1>6, <1>7
<1>9. TotalAmount(S) <= TotalAmount(D)
  BY <1>8 DEF T
<1>10. TotalAmount(M) = Amount(x) + TotalAmount(D)
  BY <1>3, <1>7, TotalWithout
<1>11. Amount(x) \in Nat /\ TotalAmount(D) \in Nat
  BY <1>3, <1>8, AmountTyped, TotalTyped
<1> QED
  BY <1>3, <1>4, <1>9, <1>10, <1>11

\* The positions taken ascend, and the loop is past them.
OutOK ==
    /\ out \in Seq(1..Len(sorted))
    /\ \A a, b \in 1..Len(out) : a < b => out[a] < out[b]
    /\ \A a \in 1..Len(out) : out[a] < i

\* The accounts of the search are right.
SearchShape ==
    /\ SortedOK /\ OutOK
    /\ query \in Queries
    /\ i \in 1 .. Len(sorted) + 1
    /\ budget \in Nat
    /\ phase \in {"enter", "loop", "found", "none"}
    /\ Len(out) <= MaxSize
    /\ phase = "loop" => Len(out) < MaxSize
    /\ remaining = query.target - TotalAmount(Taken)
    /\ Cardinality(Taken) = Len(out)

\* The arguments of the call are numbers.
LEMMA QueryTyped ==
    ASSUME query \in Queries
    PROVE  /\ query.target \in Nat /\ query.tol \in Nat
           /\ MinSize \in Nat /\ MaxSize \in Nat
BY SearchAssumption DEF Queries, MinSize, MaxSize

\* The positions taken as a set.
LEMMA OutPositions ==
    ASSUME SortedOK, OutOK, i \in 1 .. Len(sorted) + 1
    PROVE  /\ ToSet(out) \in SUBSET (1..Len(sorted)) /\ ToSet(out) \in SUBSET (1..(i - 1))
           /\ Taken = LegsAt(ToSet(out)) /\ Taken \in SUBSET ToSet(sorted)
           /\ Taken \in SUBSET Leg /\ IsFiniteSet(Taken)
<1>1. DOMAIN out = 1..Len(out) /\ \A a \in 1..Len(out) : out[a] \in 1..Len(sorted)
  BY DEF OutOK
<1>2. ToSet(out) = {out[a] : a \in 1..Len(out)}
  BY <1>1 DEF ToSet
<1>3. ToSet(out) \in SUBSET (1..Len(sorted)) /\ ToSet(out) \in SUBSET (1..(i - 1))
  BY <1>1, <1>2 DEF OutOK, SortedOK
<1>4. Taken = LegsAt(ToSet(out))
  BY DEF Taken, LegsAt
<1>5. Taken \in SUBSET ToSet(sorted) /\ Taken \in SUBSET Leg
  BY <1>3, <1>4, PoolPositions
<1>6. IsFiniteSet(Leg)
  BY LegAssumption
<1> QED
  BY <1>3, <1>4, <1>5, <1>6, FS_Subset

\* Going back over a leg: the last position leaves the sequence.
LEMMA BackPositions ==
    ASSUME SortedOK, OutOK, out # <<>>, out' = Front(out), i' = Last(out) + 1,
           sorted' = sorted
    PROVE  /\ OutOK' /\ Len(out') = Len(out) - 1
           /\ Last(out) \in ToSet(out) /\ ToSet(out') = ToSet(out) \ {Last(out)}
           /\ \A q \in ToSet(out) : q <= Last(out)
<1>1. PICK n : n = Len(out)
  OBVIOUS
<1>2. /\ n \in Nat \ {0} /\ DOMAIN out = 1..n
      /\ \A a \in 1..n : out[a] \in 1..Len(sorted)
  BY <1>1 DEF OutOK
<1>3. out' \in Seq(1..Len(sorted)) /\ Len(out') = n - 1 /\ \A a \in 1..(n - 1) : out'[a] = out[a]
  BY <1>1, <1>2 DEF Front, OutOK
<1>4. Last(out) = out[n]
  BY <1>1 DEF Last
<1>5. \A a, b \in 1..n : a < b => out[a] < out[b]
  BY <1>1 DEF OutOK
<1>6. \A a \in 1..(n - 1) : out[a] < out[n]
  BY <1>2, <1>5
<1>7. ToSet(out) = {out[a] : a \in 1..n}
  BY <1>2 DEF ToSet
<1>8. ToSet(out') = {out[a] : a \in 1..(n - 1)}
  <2>1. DOMAIN out' = 1..(n - 1)
    BY <1>3
  <2> QED
    BY <1>3, <2>1 DEF ToSet
<1>9. ToSet(out') = ToSet(out) \ {Last(out)}
  <2>1. \A a \in 1..(n - 1) : out[a] # out[n] /\ a \in 1..n
    BY <1>2, <1>6
  <2>2. \A a \in 1..n : out[a] # out[n] => a \in 1..(n - 1)
    BY <1>2
  <2> QED
    BY <1>4, <1>7, <1>8, <2>1, <2>2
<1>10. Last(out) \in ToSet(out) /\ \A q \in ToSet(out) : q <= Last(out)
  <2>1. \A a \in 1..n : out[a] <= out[n]
    BY <1>2, <1>6 DEF SortedOK
  <2> QED
    BY <1>2, <1>4, <1>7, <2>1
<1>11. OutOK'
  <2>1. \A a, b \in 1..(n - 1) : a < b => out'[a] < out'[b]
    BY <1>2, <1>3, <1>5
  <2>2. \A a \in 1..(n - 1) : out'[a] < i'
    BY <1>2, <1>3, <1>4, <1>6 DEF SortedOK
  <2> QED
    BY <1>3, <2>1, <2>2 DEF OutOK
<1> QED
  BY <1>1, <1>3, <1>9, <1>10, <1>11

\* Taking a leg: its position joins the sequence.
LEMMA TakePositions ==
    ASSUME SortedOK, OutOK, i \in 1..Len(sorted), out' = Append(out, i),
           i' = i + 1, sorted' = sorted
    PROVE  OutOK' /\ Len(out') = Len(out) + 1 /\ ToSet(out') = ToSet(out) \cup {i}
<1>1. PICK n : n = Len(out)
  OBVIOUS
<1>2. /\ n \in Nat /\ DOMAIN out = 1..n
      /\ \A a \in 1..n : out[a] \in 1..Len(sorted) /\ out[a] < i
  BY <1>1 DEF OutOK
<1>3. /\ out' \in Seq(1..Len(sorted)) /\ Len(out') = n + 1 /\ out'[n + 1] = i
      /\ \A a \in 1..n : out'[a] = out[a]
  BY <1>1, <1>2 DEF OutOK
<1>4. ToSet(out') = ToSet(out) \cup {i}
  <2>1. DOMAIN out' = 1..(n + 1)
    BY <1>3
  <2>2. \A a \in 1..(n + 1) : a \in 1..n \/ a = n + 1
    BY <1>2
  <2>3. \A a \in 1..n : a \in 1..(n + 1)
    BY <1>2
  <2>4. n + 1 \in 1..(n + 1)
    BY <1>2
  <2> QED
    BY <1>2, <1>3, <2>1, <2>2, <2>3, <2>4 DEF ToSet
<1>5. OutOK'
  <2>1. ASSUME NEW a \in 1..(n + 1), NEW b \in 1..(n + 1), a < b PROVE out'[a] < out'[b]
    <3>1. CASE b = n + 1
      BY <1>2, <1>3, <2>1, <3>1
    <3>2. CASE b # n + 1
      <4>1. a \in 1..n /\ b \in 1..n
        BY <1>2, <2>1, <3>2
      <4>2. out[a] < out[b]
        BY <1>1, <2>1, <4>1 DEF OutOK
      <4> QED
        BY <1>3, <4>1, <4>2
    <3> QED
      BY <3>1, <3>2
  <2>2. ASSUME NEW a \in 1..(n + 1) PROVE out'[a] < i'
    <3>1. CASE a = n + 1
      BY <1>3, <3>1
    <3>2. CASE a # n + 1
      <4>1. a \in 1..n
        BY <1>2, <3>2
      <4>2. out[a] \in Int /\ out[a] < i
        BY <1>2, <4>1 DEF SortedOK
      <4> QED
        BY <1>3, <4>1, <4>2
    <3> QED
      BY <3>1, <3>2
  <2> QED
    BY <1>3, <2>1, <2>2 DEF OutOK
<1> QED
  BY <1>1, <1>3, <1>4, <1>5

\* When dfs returns false, the search ends, or goes on behind the last leg.
LEMMA BackStep ==
    ASSUME SearchShape, Backtrack, sorted' = sorted, query' = query, budget' \in Nat
    PROVE  /\ SearchShape'
           /\ \/ out = <<>> /\ phase' = "none"
              \/ /\ phase' = "loop" /\ out # <<>>
                 /\ \E last \in ToSet(out) :
                       /\ \A q \in ToSet(out) : q <= last
                       /\ ToSet(out') = ToSet(out) \ {last} /\ i' = last + 1
<1>1. /\ SortedOK /\ OutOK /\ i \in 1 .. Len(sorted) + 1 /\ query \in Queries
      /\ Len(out) <= MaxSize /\ remaining = query.target - TotalAmount(Taken)
      /\ Cardinality(Taken) = Len(out)
  BY DEF SearchShape
<1>2. SortedOK' /\ MaxSize' = MaxSize /\ MaxSize \in Nat /\ query.target \in Nat
  BY <1>1, QueryTyped DEF SortedOK, MaxSize
<1>3. CASE out = <<>>
  <2>1. phase' = "none" /\ UNCHANGED <<out, i, remaining>>
    BY <1>3 DEF Backtrack
  <2>2. OutOK' /\ Taken' = Taken
    BY <1>1, <2>1 DEF OutOK, Taken, ToSet
  <2> QED
    BY <1>1, <1>2, <1>3, <2>1, <2>2 DEF SearchShape
<1>4. CASE out # <<>>
  <2>1. /\ phase' = "loop" /\ out' = Front(out) /\ i' = Last(out) + 1
        /\ remaining' = remaining + Amount(sorted[Last(out)])
    BY <1>4 DEF Backtrack
  <2>2. PICK last : last = Last(out)
    OBVIOUS
  <2>3. /\ OutOK' /\ Len(out') = Len(out) - 1
        /\ last \in ToSet(out) /\ ToSet(out') = ToSet(out) \ {last}
        /\ \A q \in ToSet(out) : q <= last
    BY <1>1, <1>4, <2>1, <2>2, BackPositions
  <2>4. /\ ToSet(out) \in SUBSET (1..Len(sorted)) /\ Taken = LegsAt(ToSet(out))
        /\ Taken \in SUBSET Leg /\ IsFiniteSet(Taken)
    BY <1>1, OutPositions
  <2>5. i' \in 1 .. Len(sorted) + 1 /\ last \in 1..Len(sorted)
    BY <2>1, <2>2, <2>3, <2>4 DEF SortedOK, SearchShape
  <2>6. PICK x : x = sorted[last]
    OBVIOUS
  <2>7. x \in Taken /\ x \in Leg
    BY <2>3, <2>4, <2>6 DEF LegsAt
  <2>8. Taken' = Taken \ {x}
    <3>1. Taken' = {sorted[p] : p \in ToSet(out')}
      BY DEF Taken, ToSet
    <3>2. \A p \in ToSet(out) : sorted[p] = x => p = last
      BY <1>1, <2>4, <2>5, <2>6, SortedOnce
    <3> QED
      BY <2>3, <2>4, <2>6, <3>1, <3>2 DEF LegsAt
  <2>9. TotalAmount(Taken) = Amount(x) + TotalAmount(Taken \ {x})
    BY <2>4, <2>7, TotalWithout
  <2>10. TotalAmount(Taken \ {x}) \in Nat /\ TotalAmount(Taken) \in Nat /\ Amount(x) \in Nat
    BY <2>4, <2>7, TotalTyped, AmountTyped
  <2>11. remaining' = query'.target - TotalAmount(Taken')
    BY <1>1, <1>2, <2>1, <2>2, <2>6, <2>8, <2>9, <2>10
  <2>12. Cardinality(Taken \ {x}) = Cardinality(Taken) - 1
    BY <2>4, <2>7, FS_RemoveElement
  <2>13. Len(out) \in Nat
    BY <1>1 DEF OutOK
  <2>14. Len(out') < MaxSize /\ Cardinality(Taken') = Len(out')
    BY <1>1, <1>2, <2>3, <2>8, <2>12, <2>13
  <2>15. SearchShape'
    BY <1>1, <1>2, <2>1, <2>3, <2>5, <2>11, <2>13, <2>14 DEF SearchShape
  <2> QED
    BY <1>4, <2>1, <2>2, <2>3, <2>15
<1> QED
  BY <1>3, <1>4

\* A step of the loop that takes a leg.
LEMMA TakeStep ==
    ASSUME SearchShape, Take
    PROVE  SearchShape' /\ ToSet(out') = ToSet(out) \cup {i} /\ i \in 1..Len(sorted)
<1>1. /\ SortedOK /\ OutOK /\ i \in 1 .. Len(sorted) + 1 /\ query \in Queries
      /\ Len(out) < MaxSize /\ remaining = query.target - TotalAmount(Taken)
      /\ Cardinality(Taken) = Len(out) /\ budget \in Nat
  BY DEF SearchShape, Take
<1>2. /\ i <= Len(sorted) /\ out' = Append(out, i) /\ i' = i + 1 /\ phase' = "enter"
      /\ remaining' = remaining - Amount(sorted[i])
      /\ UNCHANGED <<sorted, query, budget>>
  BY DEF Take
<1>3. SortedOK' /\ MaxSize' = MaxSize /\ MaxSize \in Nat /\ query.target \in Nat
  BY <1>1, <1>2, QueryTyped DEF SortedOK, MaxSize
<1>4. i \in 1..Len(sorted) /\ i' \in 1 .. Len(sorted) + 1
  BY <1>1, <1>2 DEF SortedOK
<1>5. OutOK' /\ Len(out') = Len(out) + 1 /\ ToSet(out') = ToSet(out) \cup {i}
  BY <1>1, <1>2, <1>4, TakePositions
<1>6. /\ ToSet(out) \in SUBSET (1..Len(sorted)) /\ ToSet(out) \in SUBSET (1..(i - 1))
      /\ Taken = LegsAt(ToSet(out)) /\ Taken \in SUBSET Leg /\ IsFiniteSet(Taken)
  BY <1>1, OutPositions
<1>7. PICK x : x = sorted[i]
  OBVIOUS
<1>8. x \in Leg /\ x \notin Taken
  <2>1. i \notin ToSet(out)
    BY <1>4, <1>6
  <2> QED
    BY <1>1, <1>4, <1>6, <1>7, <2>1, LegsAtPosition, SortedOnce
<1>9. Taken' = Taken \cup {x}
  <2>1. Taken' = {sorted[p] : p \in ToSet(out')}
    BY <1>2 DEF Taken, ToSet
  <2> QED
    BY <1>5, <1>6, <1>7, <2>1 DEF LegsAt
<1>10. PICK B : B = Taken \cup {x}
  OBVIOUS
<1>11. B \in SUBSET Leg /\ x \in B /\ B \ {x} = Taken
  BY <1>6, <1>8, <1>10
<1>12. TotalAmount(B) = Amount(x) + TotalAmount(Taken)
  BY <1>11, TotalWithout
<1>13. TotalAmount(B) \in Nat /\ TotalAmount(Taken) \in Nat /\ Amount(x) \in Nat
  BY <1>6, <1>8, <1>11, TotalTyped, AmountTyped
<1>14. remaining' = query'.target - TotalAmount(Taken')
  BY <1>1, <1>2, <1>3, <1>7, <1>9, <1>10, <1>12, <1>13
<1>15. Cardinality(B) = Cardinality(Taken) + 1
  BY <1>6, <1>8, <1>10, FS_AddElement
<1>16. Len(out) \in Nat
  BY <1>1 DEF OutOK
<1>17. Len(out') <= MaxSize /\ Cardinality(Taken') = Len(out')
  BY <1>1, <1>3, <1>5, <1>9, <1>10, <1>15, <1>16
<1> QED
  BY <1>1, <1>2, <1>3, <1>4, <1>5, <1>14, <1>17 DEF SearchShape

-----------------------------------------------------------------------------
(* Solutions.                                                              *)

\* What the search looks for, in the words of SubsetSum.
Solution(S) ==
    /\ Cardinality(S) \in MinSize..MaxSize
    /\ Distance(TotalAmount(S), query.target) <= query.tol

\* The hit of the search is a solution.
LEMMA HitIsSolution ==
    ASSUME SearchShape
    PROVE  IsHit <=> Solution(Taken)
<1>1. /\ query.target \in Nat /\ query.tol \in Nat /\ MinSize \in Nat /\ MaxSize \in Nat
  BY QueryTyped DEF SearchShape
<1>2. TotalAmount(Taken) \in Nat
  BY OutPositions, TotalTyped DEF SearchShape
<1>3. Len(out) \in Nat /\ Len(out) <= MaxSize /\ Cardinality(Taken) = Len(out)
  BY DEF SearchShape, OutOK
<1>4. remaining = query.target - TotalAmount(Taken)
  BY DEF SearchShape
<1>5. Distance(remaining, 0) = Distance(TotalAmount(Taken), query.target)
  BY <1>1, <1>2, <1>4 DEF Distance
<1>6. Cardinality(Taken) \in MinSize..MaxSize <=> Len(out) >= MinSize
  BY <1>1, <1>3
<1> QED
  BY <1>5, <1>6 DEF IsHit, Solution

\* The reference has the first of the solutions.
LEMMA ReferenceIsFirst ==
    ASSUME SortedOK, NEW A \in SUBSET ToSet(sorted), Solution(A),
           \A S \in SUBSET ToSet(sorted) : Solution(S) /\ S # A => ReachedBefore(A, S)
    PROVE  Reference = A
<1>1. PICK sums : sums = {S \in SUBSET ToSet(sorted) : Solution(S)}
  OBVIOUS
<1>2. Reference = UNION {S \in sums : \A T \in sums \ {S} : ReachedBefore(S, T)}
  BY <1>1 DEF Reference, SubsetSum, Solution
<1>3. A \in sums /\ \A T \in sums \ {A} : ReachedBefore(A, T)
  BY <1>1
<1>4. ASSUME NEW S \in sums, \A T \in sums \ {S} : ReachedBefore(S, T), S # A PROVE FALSE
  <2>1. ReachedBefore(S, A) /\ ReachedBefore(A, S)
    BY <1>3, <1>4
  <2>2. S \in SUBSET Leg /\ A \in SUBSET Leg
    BY <1>1, PoolPositions
  <2> QED
    BY <1>4, <2>1, <2>2, ReachedOnce
<1>5. {S \in sums : \A T \in sums \ {S} : ReachedBefore(S, T)} = {A}
  BY <1>3, <1>4
<1> QED
  BY <1>2, <1>5

\* Without a solution it is empty.
LEMMA ReferenceIsEmpty ==
    ASSUME \A S \in SUBSET ToSet(sorted) : ~Solution(S)
    PROVE  Reference = {}
BY DEF Reference, SubsetSum, Solution

\* A leg that is too big extends the legs taken to no solution: amounts are
\* positive.
LEMMA TooBigIsFutile ==
    ASSUME SearchShape, i \in 1..Len(sorted), TooBig(sorted[i]),
           NEW S \in SUBSET ToSet(sorted), Solution(S), Taken \subseteq S
    PROVE  sorted[i] \notin S
<1> SUFFICES ASSUME sorted[i] \in S PROVE FALSE
  OBVIOUS
<1>1. /\ query.target \in Nat /\ query.tol \in Nat
      /\ remaining = query.target - TotalAmount(Taken)
  BY QueryTyped DEF SearchShape
<1>2. /\ ToSet(out) \in SUBSET (1..Len(sorted)) /\ ToSet(out) \in SUBSET (1..(i - 1))
      /\ Taken = LegsAt(ToSet(out)) /\ Taken \in SUBSET Leg
  BY OutPositions DEF SearchShape
<1>3. PICK x : x = sorted[i]
  OBVIOUS
<1>4. x \in Leg /\ x \notin Taken
  <2>1. i \notin ToSet(out)
    BY <1>2
  <2> QED
    BY <1>2, <1>3, <2>1, LegsAtPosition, SortedOnce DEF SearchShape
<1>5. PICK B : B = Taken \cup {x}
  OBVIOUS
<1>6. B \in SUBSET S /\ S \in SUBSET Leg /\ x \in B /\ B \ {x} = Taken /\ B \in SUBSET Leg
  BY <1>3, <1>4, <1>5, PoolPositions DEF SearchShape
<1>7. TotalAmount(B) = Amount(x) + TotalAmount(Taken)
  BY <1>6, TotalWithout
<1>8. TotalAmount(B) <= TotalAmount(S)
  BY <1>6, TotalGrows
<1>9. /\ TotalAmount(B) \in Nat /\ TotalAmount(Taken) \in Nat
      /\ TotalAmount(S) \in Nat /\ Amount(x) \in Nat
  BY <1>2, <1>4, <1>6, TotalTyped, AmountTyped
<1>10. Amount(x) > remaining + query.tol
  BY <1>3 DEF TooBig
<1>11. TotalAmount(S) > query.target + query.tol
  BY <1>1, <1>7, <1>8, <1>9, <1>10
<1>12. Distance(TotalAmount(S), query.target) <= query.tol
  BY DEF Solution
<1> QED
  BY <1>1, <1>9, <1>11, <1>12 DEF Distance

\* A full set of legs that is no solution extends to none.
LEMMA FullIsFutile ==
    ASSUME SearchShape, Len(out) = MaxSize, ~Solution(Taken),
           NEW S \in SUBSET ToSet(sorted), Taken \subseteq S
    PROVE  ~Solution(S)
<1> SUFFICES ASSUME Solution(S) PROVE FALSE
  OBVIOUS
<1>1. S # Taken
  OBVIOUS
<1>2. S \in SUBSET Leg /\ IsFiniteSet(Leg)
  BY PoolPositions, LegAssumption DEF SearchShape
<1>3. IsFiniteSet(S)
  BY <1>2, FS_Subset
<1>4. Cardinality(Taken) <= Cardinality(S) /\ Cardinality(Taken) # Cardinality(S)
  BY <1>1, <1>3, FS_Subset
<1>5. Cardinality(S) <= MaxSize /\ Cardinality(S) \in Nat
  BY <1>3, FS_CardinalityType DEF Solution
<1>6. Cardinality(Taken) = MaxSize /\ MaxSize \in Nat
  BY QueryTyped DEF SearchShape
<1> QED
  BY <1>4, <1>5, <1>6

-----------------------------------------------------------------------------
(* The invariant.                                                          *)

\* As long as there is budget, no solution lies behind the search.
AllAhead ==
    phase \in {"enter", "loop"} /\ budget > 0 =>
        \A S \in SUBSET ToSet(sorted) :
            Solution(S) => Ahead(S, ToSet(out), i - 1, phase = "loop")

SearchInv == SearchShape /\ AllAhead /\ FindsFirst /\ MissesOnlyOnBudget

\* What is unchanged with the arguments and the pool.
LEMMA SameQuery ==
    ASSUME sorted' = sorted, query' = query
    PROVE  /\ \A S : Solution(S)' <=> Solution(S)
           /\ Reference' = Reference
<1>1. MinSize' = MinSize /\ MaxSize' = MaxSize
  BY DEF MinSize, MaxSize
<1> QED
  BY <1>1 DEF Solution, Reference

\* Whether no solution lies behind the next state can be seen in this one.
LEMMA AheadNext ==
    ASSUME sorted' = sorted, query' = query, NEW O, NEW j, NEW loop,
           O = ToSet(out'), j = i' - 1, loop = (phase' = "loop"),
           \A S \in SUBSET ToSet(sorted) : Solution(S) => Ahead(S, O, j, loop)
    PROVE  AllAhead'
<1>1. ASSUME NEW S
      PROVE  Ahead(S, ToSet(out), i - 1, phase = "loop")' <=> Ahead(S, O, j, loop)
  <2>1. Extends(S, ToSet(out), i - 1, phase = "loop")' <=> Extends(S, O, j, loop)
    <3>1. Tried(i - 1)' = Tried(j) /\ LegsAt(ToSet(out))' = LegsAt(O)
      BY DEF Tried, LegsAt
    <3>2. (phase' = "loop") <=> loop
      OBVIOUS
    <3> QED
      BY <3>1, <3>2, Zenon DEF Extends
  <2>2. (\E p \in ToSet(out) : LeavesOut(S, ToSet(out), p))' <=>
           \E p \in O : LeavesOut(S, O, p)
    BY DEF LeavesOut, LegsAt, Tried
  <2> QED
    BY <2>1, <2>2, Zenon DEF Ahead
<1> QED
  BY <1>1, SameQuery DEF AllAhead

\* dfs returns false where no solution extends the legs taken.
LEMMA BackInv ==
    ASSUME SearchShape, Backtrack, sorted' = sorted, query' = query, budget' \in Nat,
           budget' > 0 => \A S \in SUBSET ToSet(sorted) :
                             Solution(S) => \E p \in ToSet(out) : LeavesOut(S, ToSet(out), p)
    PROVE  SearchInv'
<1>1. SearchShape'
  BY BackStep
<1>2. CASE out = <<>> /\ phase' = "none"
  <2>1. ToSet(out) = {}
    BY <1>2 DEF ToSet
  <2>2. budget' > 0 => Reference = {}
    BY <2>1, ReferenceIsEmpty
  <2>3. MissesOnlyOnBudget'
    BY <2>2, SameQuery DEF MissesOnlyOnBudget
  <2> QED
    BY <1>1, <1>2, <2>3 DEF SearchInv, AllAhead, FindsFirst
<1>3. CASE phase' = "loop" /\ out # <<>>
  <2>1. PICK last \in ToSet(out) :
          /\ \A q \in ToSet(out) : q <= last
          /\ ToSet(out') = ToSet(out) \ {last} /\ i' = last + 1
    BY <1>3, BackStep
  <2>2. SortedOK /\ ToSet(out) \in SUBSET (1..Len(sorted))
    BY OutPositions DEF SearchShape
  <2>3. PICK O : O = ToSet(out)
    OBVIOUS
  <2>4. ASSUME budget' > 0, NEW S \in SUBSET ToSet(sorted), Solution(S)
        PROVE  Ahead(S, ToSet(out'), i' - 1, TRUE)
    <3>1. \E p \in O : LeavesOut(S, O, p)
      BY <2>3, <2>4
    <3>2. Ahead(S, O \ {last}, last, TRUE)
      BY <2>1, <2>2, <2>3, <3>1, BackKeepsAhead
    <3>3. i' - 1 = last
      BY <2>1, <2>2
    <3> QED
      BY <2>1, <2>3, <3>2, <3>3
  <2>5. AllAhead'
    <3>1. CASE budget' > 0
      <4>1. PICK Q, j : Q = ToSet(out') /\ j = i' - 1
        OBVIOUS
      <4>2. \A S \in SUBSET ToSet(sorted) : Solution(S) => Ahead(S, Q, j, TRUE)
        BY <2>4, <3>1, <4>1
      <4> QED
        BY <1>3, <4>1, <4>2, AheadNext
    <3>2. CASE ~(budget' > 0)
      BY <3>2 DEF AllAhead
    <3> QED
      BY <3>1, <3>2
  <2> QED
    BY <1>1, <1>3, <2>5 DEF SearchInv, FindsFirst, MissesOnlyOnBudget
<1> QED
  BY <1>2, <1>3, BackStep

\* What AllAhead says while the search runs.
LEMMA AheadHere ==
    ASSUME SearchInv, phase \in {"enter", "loop"}, budget > 0,
           NEW S \in SUBSET ToSet(sorted), Solution(S)
    PROVE  /\ Ahead(S, ToSet(out), i - 1, phase = "loop")
           /\ \/ \E p \in ToSet(out) : LeavesOut(S, ToSet(out), p)
              \/ /\ Extends(S, ToSet(out), i - 1, phase = "loop")
                 /\ S \cap Tried(i - 1) = Taken /\ Taken \subseteq S
<1>1. Ahead(S, ToSet(out), i - 1, phase = "loop")
  BY DEF SearchInv, AllAhead
<1>2. Taken = LegsAt(ToSet(out))
  BY OutPositions DEF SearchInv, SearchShape
<1>3. Extends(S, ToSet(out), i - 1, phase = "loop") =>
        S \cap Tried(i - 1) = Taken /\ Taken \subseteq S
  BY <1>2 DEF Extends
<1> QED
  BY <1>1, <1>3 DEF Ahead

\* A call of dfs.
LEMMA EnterInv ==
    ASSUME SearchInv, Enter
    PROVE  SearchInv'
<1>1. /\ SearchShape /\ phase = "enter" /\ sorted' = sorted /\ query' = query
      /\ budget \in Nat
  BY DEF SearchInv, SearchShape, Enter
<1>2. CASE budget <= 0
  <2>1. Backtrack /\ budget' = budget
    BY <1>2 DEF Enter
  <2> QED
    BY <1>1, <1>2, <2>1, BackInv
<1>3. CASE ~(budget <= 0)
  <2>1. budget' = budget - 1 /\ budget' \in Nat /\ budget > 0
    BY <1>1, <1>3 DEF Enter
  <2>2. CASE IsHit
    <3>1. phase' = "found" /\ UNCHANGED <<out, i, remaining>>
      BY <1>3, <2>2 DEF Enter
    <3>2. SearchShape'
      BY <1>1, <2>1, <3>1 DEF SearchShape, SortedOK, OutOK, MaxSize, Taken, ToSet
    <3>3. Solution(Taken)
      BY <1>1, <2>2, HitIsSolution
    <3>4. /\ SortedOK /\ Taken = LegsAt(ToSet(out)) /\ Taken \in SUBSET ToSet(sorted)
          /\ ToSet(out) \in SUBSET (1..(i - 1)) /\ i - 1 \in 0..Len(sorted)
      BY <1>1, OutPositions DEF SearchShape, SortedOK
    <3>5. ASSUME NEW S \in SUBSET ToSet(sorted), Solution(S), S # Taken
          PROVE  ReachedBefore(Taken, S)
      <4>1. Ahead(S, ToSet(out), i - 1, phase = "loop")
        BY <1>1, <2>1, <3>5, AheadHere
      <4>2. (phase = "loop") = FALSE
        BY <1>1
      <4>3. Ahead(S, ToSet(out), i - 1, FALSE)
        BY <4>1, <4>2
      <4> QED
        BY <3>4, <3>5, <4>3, AheadIsLater
    <3>6. Reference = Taken
      BY <3>3, <3>4, <3>5, ReferenceIsFirst
    <3>7. FindsFirst'
      <4>1. Taken' = Taken
        BY <1>1, <3>1 DEF Taken, ToSet
      <4> QED
        BY <1>1, <3>6, <4>1, SameQuery DEF FindsFirst
    <3> QED
      BY <3>1, <3>2, <3>7 DEF SearchInv, AllAhead, MissesOnlyOnBudget
  <2>3. CASE ~IsHit /\ Len(out) = MaxSize
    <3>1. Backtrack
      BY <1>3, <2>3 DEF Enter
    <3>2. ASSUME NEW S \in SUBSET ToSet(sorted), Solution(S)
          PROVE  \E p \in ToSet(out) : LeavesOut(S, ToSet(out), p)
      BY <1>1, <2>1, <2>3, <3>2, AheadHere, FullIsFutile, HitIsSolution
    <3> QED
      BY <1>1, <2>1, <3>1, <3>2, BackInv
  <2>4. CASE ~IsHit /\ Len(out) # MaxSize
    <3>1. phase' = "loop" /\ UNCHANGED <<out, i, remaining>>
      BY <1>3, <2>4 DEF Enter
    <3>2. SearchShape'
      <4>1. Len(out) < MaxSize
        BY <1>1, <2>4, QueryTyped DEF SearchShape, OutOK
      <4> QED
        BY <1>1, <2>1, <3>1, <4>1 DEF SearchShape, SortedOK, OutOK, MaxSize, Taken, ToSet
    <3>3. PICK O, j : O = ToSet(out) /\ j = i - 1
      OBVIOUS
    <3>4. ASSUME NEW S \in SUBSET ToSet(sorted), Solution(S) PROVE Ahead(S, O, j, TRUE)
      <4>1. Taken = LegsAt(O) /\ S # Taken
        BY <1>1, <2>4, <3>3, <3>4, HitIsSolution, OutPositions DEF SearchShape
      <4>2. Ahead(S, O, j, phase = "loop")
        BY <1>1, <2>1, <3>3, <3>4, AheadHere
      <4> QED
        BY <4>1, <4>2 DEF Ahead, Extends
    <3>5. AllAhead'
      <4>1. O = ToSet(out') /\ j = i' - 1
        BY <3>1, <3>3
      <4> QED
        BY <1>1, <3>1, <3>4, <4>1, AheadNext
    <3> QED
      BY <3>1, <3>2, <3>5 DEF SearchInv, FindsFirst, MissesOnlyOnBudget
  <2> QED
    BY <2>2, <2>3, <2>4
<1> QED
  BY <1>2, <1>3

\* A leg that is too big is passed over.
LEMMA SkipInv ==
    ASSUME SearchInv, Skip
    PROVE  SearchInv'
<1>1. /\ SearchShape /\ phase = "loop" /\ i <= Len(sorted) /\ TooBig(sorted[i])
      /\ i' = i + 1 /\ UNCHANGED <<sorted, query, out, remaining, budget, phase>>
  BY DEF SearchInv, Skip
<1>2. i \in 1..Len(sorted) /\ SortedOK /\ Len(sorted) \in Nat
  BY <1>1 DEF SearchShape, SortedOK
<1>3. SearchShape'
  <2>1. OutOK'
    BY <1>1, <1>2 DEF SearchShape, OutOK
  <2> QED
    BY <1>1, <1>2, <2>1 DEF SearchShape, SortedOK, MaxSize, Taken, ToSet
<1>4. PICK O : O = ToSet(out)
  OBVIOUS
<1>5. O \in SUBSET (1..(i - 1)) /\ Taken = LegsAt(O)
  BY <1>1, <1>4, OutPositions DEF SearchShape
<1>6. ASSUME budget > 0, NEW S \in SUBSET ToSet(sorted), Solution(S)
      PROVE  Ahead(S, O, i, TRUE)
  <2>1. Ahead(S, O, i - 1, phase = "loop")
    BY <1>1, <1>4, <1>6, AheadHere
  <2>2. (phase = "loop") = TRUE
    BY <1>1
  <2>3. Ahead(S, O, i - 1, TRUE)
    BY <2>1, <2>2
  <2>4. S \cap Tried(i - 1) = LegsAt(O) => sorted[i] \notin S
    BY <1>1, <1>2, <1>5, <1>6, TooBigIsFutile
  <2> QED
    BY <1>2, <1>5, <2>3, <2>4, SkipKeepsAhead
<1>7. AllAhead'
  <2>1. CASE budget > 0
    <3>1. PICK j : j = i
      OBVIOUS
    <3>2. O = ToSet(out') /\ j = i' - 1
      BY <1>1, <1>2, <1>4, <3>1
    <3>3. \A S \in SUBSET ToSet(sorted) : Solution(S) => Ahead(S, O, j, TRUE)
      BY <1>6, <2>1, <3>1
    <3> QED
      BY <1>1, <3>2, <3>3, AheadNext
  <2>2. CASE ~(budget > 0)
    BY <1>1, <2>2 DEF AllAhead
  <2> QED
    BY <2>1, <2>2
<1> QED
  BY <1>1, <1>3, <1>7 DEF SearchInv, FindsFirst, MissesOnlyOnBudget

\* A leg is taken.
LEMMA TakeInv ==
    ASSUME SearchInv, Take
    PROVE  SearchInv'
<1>1. /\ SearchShape /\ phase = "loop" /\ i' = i + 1 /\ phase' = "enter"
      /\ UNCHANGED <<sorted, query, budget>>
  BY DEF SearchInv, Take
<1>2. SearchShape' /\ ToSet(out') = ToSet(out) \cup {i} /\ i \in 1..Len(sorted) /\ SortedOK
  BY <1>1, TakeStep DEF SearchShape
<1>3. PICK O, n : O = ToSet(out) /\ n = i
  OBVIOUS
<1>4. O \in SUBSET (1..(n - 1)) /\ n \in 1..Len(sorted)
  BY <1>1, <1>2, <1>3, OutPositions DEF SearchShape
<1>5. ASSUME budget > 0, NEW S \in SUBSET ToSet(sorted), Solution(S)
      PROVE  Ahead(S, O \cup {n}, n, FALSE)
  <2>1. Ahead(S, O, n - 1, phase = "loop")
    BY <1>1, <1>3, <1>5, AheadHere
  <2>2. (phase = "loop") = TRUE
    BY <1>1
  <2>3. Ahead(S, O, n - 1, TRUE)
    BY <2>1, <2>2
  <2> QED
    BY <1>2, <1>4, <2>3, TakeKeepsAhead
<1>6. AllAhead'
  <2>1. CASE budget > 0
    <3>1. PICK Q : Q = O \cup {n}
      OBVIOUS
    <3>2. Q = ToSet(out') /\ n = i' - 1
      BY <1>1, <1>2, <1>3, <3>1
    <3>3. \A S \in SUBSET ToSet(sorted) : Solution(S) => Ahead(S, Q, n, FALSE)
      BY <1>5, <2>1, <3>1
    <3> QED
      BY <1>1, <3>2, <3>3, AheadNext
  <2>2. CASE ~(budget > 0)
    BY <1>1, <2>2 DEF AllAhead
  <2> QED
    BY <2>1, <2>2
<1> QED
  BY <1>1, <1>2, <1>6 DEF SearchInv, FindsFirst, MissesOnlyOnBudget

\* The loop has tried every leg.
LEMMA EndLoopInv ==
    ASSUME SearchInv, EndLoop
    PROVE  SearchInv'
<1>1. /\ SearchShape /\ phase = "loop" /\ i > Len(sorted) /\ Backtrack
      /\ UNCHANGED <<sorted, query, budget>> /\ budget \in Nat
  BY DEF SearchInv, SearchShape, EndLoop
<1>2. /\ SortedOK /\ i - 1 = Len(sorted) /\ Len(sorted) \in 0..Len(sorted)
      /\ ToSet(out) \in SUBSET (1..(i - 1))
  BY <1>1, OutPositions DEF SearchShape, SortedOK
<1>3. ASSUME budget > 0, NEW S \in SUBSET ToSet(sorted), Solution(S)
      PROVE  \E p \in ToSet(out) : LeavesOut(S, ToSet(out), p)
  <2> SUFFICES ASSUME Extends(S, ToSet(out), i - 1, phase = "loop") PROVE FALSE
    BY <1>1, <1>3, AheadHere
  <2>1. (phase = "loop") = TRUE
    BY <1>1
  <2>2. PICK n, O : n = Len(sorted) /\ O = ToSet(out)
    OBVIOUS
  <2>3. n \in 0..Len(sorted) /\ O \in SUBSET (1..n) /\ Extends(S, O, n, TRUE)
    BY <1>2, <2>1, <2>2
  <2>4. \E a \in 1..Len(sorted) : a > n /\ sorted[a] \in S
    BY <1>2, <2>3, ExtendsAt
  <2> QED
    BY <1>2, <2>2, <2>4
<1> QED
  BY <1>1, <1>3, BackInv

\* In the beginning every set of legs is ahead.
LEMMA InitInv ==
    ASSUME SearchInit
    PROVE  SearchInv
<1>1. PICK pool \in SUBSET Leg : sorted \in Sorted(pool)
  BY DEF SearchInit
<1>2. /\ query \in Queries /\ out = <<>> /\ i = 1 /\ remaining = query.target
      /\ budget \in Budgets
      /\ phase = IF sorted = <<>> \/ MaxSize <= 0 THEN "none" ELSE "enter"
  BY DEF SearchInit
<1>3. PICK n : n = Cardinality(pool)
  OBVIOUS
<1>4. IsFiniteSet(pool) /\ n \in Nat
  BY <1>3, LegAssumption, FS_Subset, FS_CardinalityType
<1>5. /\ sorted \in [1..n -> pool]
      /\ \A a, b \in 1..n : a < b => TriedBefore(sorted[a], sorted[b])
  BY <1>1, <1>3 DEF Sorted, SetToSeqs
<1>6. SortedOK
  <2>1. Len(sorted) = n
    BY <1>4, <1>5
  <2> QED
    BY <1>4, <1>5, <2>1 DEF SortedOK
<1>7. /\ query.target \in Nat /\ query.tol \in Nat /\ MinSize \in Nat /\ MaxSize \in Nat
  BY <1>2, QueryTyped
<1>8. ToSet(out) = {} /\ Taken = {} /\ LegsAt({}) = {}
  BY <1>2 DEF ToSet, Taken, LegsAt
<1>9. TotalAmount({}) = 0
  BY TotalUnfolds
<1>10. Cardinality({}) = 0
  BY FS_EmptySet
<1>11. OutOK /\ Len(out) = 0
  BY <1>2 DEF OutOK
<1>12. SearchShape
  BY <1>2, <1>6, <1>7, <1>8, <1>9, <1>10, <1>11, SearchAssumption DEF SearchShape, SortedOK
<1>13. AllAhead
  <2> SUFFICES ASSUME phase = "enter", NEW S \in SUBSET ToSet(sorted)
               PROVE  Ahead(S, ToSet(out), i - 1, phase = "loop")
    BY <1>2 DEF AllAhead
  <2>1. Tried(i - 1) = {}
    BY <1>2, <1>6 DEF Tried, SortedOK
  <2> QED
    BY <1>8, <2>1 DEF Ahead, Extends
<1>14. ASSUME phase = "none", NEW S \in SUBSET ToSet(sorted), Solution(S), S # {} PROVE FALSE
  <2>1. sorted # <<>>
    BY <1>14 DEF ToSet
  <2>2. MaxSize = 0
    BY <1>2, <1>7, <1>14, <2>1
  <2>3. IsFiniteSet(S)
    BY <1>6, LegAssumption, PoolPositions, FS_Subset
  <2>4. Cardinality(S) = 0
    BY <1>7, <1>14, <2>2, <2>3, FS_CardinalityType DEF Solution
  <2> QED
    BY <1>14, <2>3, <2>4, FS_EmptySet
<1>15. MissesOnlyOnBudget
  <2> SUFFICES ASSUME phase = "none" PROVE Reference = {}
    BY DEF MissesOnlyOnBudget
  <2>1. CASE Solution({})
    BY <1>6, <1>14, <2>1, ReferenceIsFirst
  <2>2. CASE ~Solution({})
    BY <1>14, <2>2, ReferenceIsEmpty
  <2> QED
    BY <2>1, <2>2
<1> QED
  BY <1>2, <1>12, <1>13, <1>15 DEF SearchInv, FindsFirst

\* The invariant holds throughout the search.
LEMMA SearchInvariant == SearchSpec => []SearchInv
<1>1. SearchInit => SearchInv
  BY InitInv
<1>2. SearchInv /\ [SearchNext]_searchVars => SearchInv'
  <2> SUFFICES ASSUME SearchInv, [SearchNext]_searchVars PROVE SearchInv'
    OBVIOUS
  <2>1. CASE UNCHANGED searchVars
    <3>1. UNCHANGED <<sorted, query, out, i, remaining, budget, phase>>
      BY <2>1 DEF searchVars
    <3>2. SearchShape'
      BY <3>1 DEF SearchInv, SearchShape, SortedOK, OutOK, MaxSize, Taken, ToSet
    <3>3. Taken' = Taken /\ Reference' = Reference
      BY <3>1, SameQuery DEF Taken, ToSet
    <3>4. AllAhead'
      <4>1. CASE phase \in {"enter", "loop"} /\ budget > 0
        <5>1. PICK O, j, loop : O = ToSet(out) /\ j = i - 1 /\ loop = (phase = "loop")
          OBVIOUS
        <5>2. \A S \in SUBSET ToSet(sorted) : Solution(S) => Ahead(S, O, j, loop)
          BY <4>1, <5>1 DEF SearchInv, AllAhead
        <5>3. O = ToSet(out') /\ j = i' - 1 /\ loop = (phase' = "loop")
          BY <3>1, <5>1
        <5> QED
          BY <3>1, <5>2, <5>3, AheadNext
      <4>2. CASE ~(phase \in {"enter", "loop"} /\ budget > 0)
        BY <3>1, <4>2 DEF AllAhead
      <4> QED
        BY <4>1, <4>2
    <3> QED
      BY <3>1, <3>2, <3>3, <3>4 DEF SearchInv, FindsFirst, MissesOnlyOnBudget
  <2> QED
    BY <2>1, EnterInv, SkipInv, TakeInv, EndLoopInv DEF SearchNext, Done
<1> QED
  BY <1>1, <1>2, PTL DEF SearchSpec

-----------------------------------------------------------------------------
\* A subset that subsetSum returns is the first, in the order of the search, of
\* all subsets of an admissible size and sum: neither the pruning of legs that
\* are too big nor a budget that runs out later changes the answer.
THEOREM SearchFindsFirst == SearchSpec => []FindsFirst
<1>1. SearchInv => FindsFirst
  BY DEF SearchInv
<1> QED
  BY <1>1, SearchInvariant, PTL

\* A search that returns nothing has shown that there is no such subset, or has
\* spent its node budget to the last.
THEOREM SearchMissesOnlyOnBudget == SearchSpec => []MissesOnlyOnBudget
<1>1. SearchInv => MissesOnlyOnBudget
  BY DEF SearchInv
<1> QED
  BY <1>1, SearchInvariant, PTL
=============================================================================
