--------------------------- MODULE BreakClassifier ---------------------------
(***************************************************************************)
(* The heuristic break classifier, internal/domain/classify/heuristic.go.  *)
(* Confidence and evidence are left out: they are numbers and sentences    *)
(* for a person, no code reads them back.                                  *)
(***************************************************************************)
EXTENDS ReconRules

Triggers == {"duplicate", "ref_conflict", "window_expired"}
Categories == {"fee", "fx_drift", "timing", "duplicate",
               "missing_counterparty", "unclassified"}

FeeMinBps == 20
FeeMaxBps == 400

\* anyAttr: one of the legs carries a non-blank attribute of that family.
HasFxAttr(p, q) == Attr[p].fx \/ Attr[q].fx
HasFeeAttr(p, q) == Attr[p].fee \/ Attr[q].fee

\* The difference in basis points of the larger amount, both ends included.
InFeeBand(a, b) ==
    LET base == IF a > b THEN a ELSE b
        diff == Distance(a, b)
    IN  diff * 10000 >= FeeMinBps * base /\ diff * 10000 <= FeeMaxBps * base

\* Rules X1, T1, F1, F2 for a primary leg p with a counterparty leg q.
PairLabel(p, q) ==
    IF Currency(p) # Currency(q) \/ HasFxAttr(p, q)
    THEN "fx_drift"
    ELSE IF WithinTolerance(Amount(p), Amount(q)) /\ ~WithinDateWindow(p, q)
    THEN "timing"
    ELSE IF HasFeeAttr(p, q) \/ InFeeBand(Amount(p), Amount(q))
    THEN "fee"
    ELSE "unclassified"

\* Mutant of Classify: the counterparty is looked at before the re-use.
ClassifyPartnerFirst(p, partner, reused, trigger) ==
    IF partner # {} THEN PairLabel(p, CHOOSE q \in partner : TRUE)
    ELSE IF reused THEN "duplicate"
    ELSE IF trigger = "window_expired" THEN "missing_counterparty"
    ELSE "unclassified"

\* partner holds the counterparty leg if there is one; reused says that the
\* source of p has used the txn_ref before.  Earlier rules win.
Classify(p, partner, reused, trigger) ==
    IF reused THEN "duplicate"
    ELSE IF partner # {} THEN PairLabel(p, CHOOSE q \in partner : TRUE)
    ELSE IF trigger = "window_expired" THEN "missing_counterparty"
    ELSE "unclassified"
=============================================================================
