--------------------------- MODULE OutcomeProofs ---------------------------
(***************************************************************************)
(* What the engine decides is right: the labels of breaks are borne out by *)
(* the store, no match is missed, and every match is sound.                *)
(***************************************************************************)
EXTENDS ReconEngineProofs

\* Every step of the engine writes by one of these or leaves the tables alone.
Writes ==
    \/ \E l \in Leg, t \in Nat, live \in BOOLEAN, blind \in BOOLEAN,
          ack \in BOOLEAN, lost \in SUBSET Leg :
          /\ op \in {"ingest", "replay"} /\ Suffer(blind, lost, ack)
          /\ IngestOne(l, t, live, blind, lost, ack)
    \/ \E ack \in BOOLEAN : ExpireStep(ack)
    \/ \E e \in Event, blind \in BOOLEAN : ReapplyResolution(e, blind)
    \/ \E b \in breaks : ResolveBreak(b)
    \/ ReplayReset
    \/ UNCHANGED <<legs, matches, breaks>>

LEMMA NextWrites ==
    ASSUME TypeOK, ControlOK, [Next]_vars
    PROVE  Writes
<1>r. \A l : Related(l) \subseteq Leg
  BY DEF Related, Stored
<1>1. ASSUME NEW ack \in BOOLEAN, IngestStep(ack) PROVE Writes
  <2>1. todo \in Seq(Arrival) /\ todo # <<>>
    BY <1>1 DEF IngestStep, TypeOK, ControlOK
  <2>2. Head(todo) \in Arrival
    BY <2>1
  <2>3. Head(todo).leg \in Leg /\ Head(todo).at \in Nat
    BY <2>2 DEF Arrival
  <2>4. PICK blind \in BOOLEAN, lost \in SUBSET Related(Head(todo).leg) :
          /\ Suffer(blind, lost, ack)
          /\ IngestOne(Head(todo).leg, Head(todo).at, TRUE, blind, lost, ack)
    BY <1>1 DEF IngestStep
  <2>5. lost \in SUBSET Leg /\ op = "ingest"
    BY <1>r, <1>1 DEF IngestStep
  <2> QED
    BY <2>3, <2>4, <2>5 DEF Writes
<1>2. ASSUME NEW ack \in BOOLEAN, ReplayStep(ack) PROVE Writes
  <2>1. log[cursor] \in Event
    BY <1>2 DEF ReplayStep, TypeOK, ControlOK
  <2>2. PICK e : e = log[cursor]
    OBVIOUS
  <2>3. e \in Event /\ e.legs \subseteq Leg /\ e.at \in Nat
    BY <2>1, <2>2 DEF Event
  <2>4. PICK blind \in BOOLEAN, lost \in SUBSET UNION {Related(l) : l \in e.legs} :
          /\ Suffer(blind, lost, ack)
          /\ \/ \E l \in e.legs : IngestOne(l, e.at, FALSE, blind, lost, ack)
             \/ ReapplyResolution(e, blind)
             \/ UNCHANGED <<store, index>>
    BY <1>2, <2>2, Zenon DEF ReplayStep
  <2>5. lost \in SUBSET Leg /\ op = "replay"
    BY <1>r, <1>2 DEF ReplayStep
  <2>6. CASE \E l \in e.legs : IngestOne(l, e.at, FALSE, blind, lost, ack)
    BY <2>3, <2>4, <2>5, <2>6 DEF Writes
  <2>7. CASE ReapplyResolution(e, blind)
    BY <2>3, <2>7 DEF Writes
  <2>8. CASE UNCHANGED <<store, index>>
    BY <2>8 DEF Writes, store
  <2> QED
    BY <2>4, <2>6, <2>7, <2>8
<1>3. ASSUME NEW kind, NEW age, Expire(kind, age)
      PROVE  UNCHANGED <<legs, matches, breaks>>
  BY <1>3 DEF Expire, store
<1>4. \/ \E ack \in BOOLEAN : IngestStep(ack) \/ ExpireStep(ack) \/ ReplayStep(ack)
      \/ \E b \in breaks : ResolveBreak(b)
      \/ ReplayReset
      \/ UNCHANGED <<legs, matches, breaks>>
  BY <1>3 DEF Next, Ingest, Sweep, CloseWindow, WindowClosed, Replay, Abort,
              Crash, Rebuild, Tick, vars, store
<1>5. CASE \/ \E ack \in BOOLEAN : ExpireStep(ack)
           \/ \E b \in breaks : ResolveBreak(b)
           \/ ReplayReset
           \/ UNCHANGED <<legs, matches, breaks>>
  BY <1>5 DEF Writes
<1> QED
  BY <1>1, <1>2, <1>4, <1>5

-----------------------------------------------------------------------------
(* Labels.                                                                 *)

\* The label of b is borne out by the legs in S.
Justified(b, S) ==
    \E p \in b.legs :
        LET related == {r \in S \ {p} : Ref(r) = Ref(p)}
        IN  /\ b.category = "duplicate" =>
                  \E q \in related : Source(q) = Source(p)
            /\ b.trigger = "duplicate" => b.category = "duplicate"
            /\ b.category \in {"fee", "fx_drift", "timing"} =>
                  \E q \in related : Source(q) # Source(p) /\ PairLabel(p, q) = b.category
            /\ b.category = "missing_counterparty" => b.trigger = "window_expired"

\* The property, said of the stored legs.
LEMMA LabelsAreJustified ==
    LabelsJustified <=> \A b \in breaks : Justified(b, Stored)
BY DEF LabelsJustified, Justified, Related

\* More legs do not refute a label.
LEMMA JustifiedGrows ==
    ASSUME NEW b, NEW S, NEW T, S \subseteq T, Justified(b, S)
    PROVE  Justified(b, T)
BY DEF Justified

\* Neither does a resolution.
LEMMA JustifiedResolved ==
    ASSUME NEW b \in Break, NEW S, NEW actor, Justified(b, S)
    PROVE  Justified([b EXCEPT !.status = "resolved", !.actor = actor], S)
<1> DEFINE r == [b EXCEPT !.status = "resolved", !.actor = actor]
<1>1. r.legs = b.legs /\ r.trigger = b.trigger /\ r.category = b.category
  BY DEF Break
<1> HIDE DEF r
<1>2. Justified(r, S)
  BY <1>1 DEF Justified
<1> QED
  BY <1>2 DEF r

\* A break that is opened with the stored legs of its txn_ref at hand is
\* labelled by them.
LEMMA OpenedJustified ==
    ASSUME NEW l \in Leg, NEW partners \in SUBSET Related(l), NEW S,
           l \in S, NEW trigger \in Triggers,
           trigger = "duplicate" => ReusedRef(l)
    PROVE  Justified(NewBreak(S, trigger, Label(l, partners, trigger)), Stored)
<1> DEFINE b == NewBreak(S, trigger, Label(l, partners, trigger))
           opposite == Opposite(l, partners)
<1>1. b.legs = S /\ b.trigger = trigger
      /\ b.category = Classify(l, opposite, ReusedRef(l), trigger)
  BY DEF NewBreak, Label
<1>2. \A q \in opposite : q \in Related(l) /\ Source(q) # Source(l)
  BY DEF Opposite, First
<1> HIDE DEF b, opposite
<1>3. \A p, q : PairLabel(p, q) \in {"fx_drift", "timing", "fee", "unclassified"}
  BY DEF PairLabel
<1>4. CASE ReusedRef(l)
  <2>1. b.category = "duplicate"
    BY <1>1, <1>4 DEF Classify
  <2>2. \E q \in Related(l) : Source(q) = Source(l)
    BY <1>4 DEF ReusedRef
  <2> QED
    BY <1>1, <2>1, <2>2 DEF Justified, Related, b
<1>5. CASE ~ReusedRef(l) /\ opposite # {}
  <2>1. PICK q \in opposite : b.category = PairLabel(l, q)
    BY <1>1, <1>5 DEF Classify
  <2>2. b.category \in {"fx_drift", "timing", "fee", "unclassified"}
    BY <1>3, <2>1
  <2>3. /\ q \in Stored \ {l} /\ Ref(q) = Ref(l) /\ Source(q) # Source(l)
        /\ PairLabel(l, q) = b.category
    BY <1>2, <2>1 DEF Related
  <2> QED
    BY <1>1, <1>5, <2>2, <2>3 DEF Justified, b
<1>6. CASE ~ReusedRef(l) /\ opposite = {}
  <2>1. \/ b.category = "missing_counterparty" /\ trigger = "window_expired"
        \/ b.category = "unclassified"
    BY <1>1, <1>6 DEF Classify
  <2> QED
    BY <1>1, <1>6, <2>1 DEF Justified, b
<1> QED
  BY <1>4, <1>5, <1>6

\* Every outcome of ingestOne labels by what is stored.
LEMMA IngestOneJustified ==
    ASSUME StoreTyped, LabelsJustified, index \subseteq Stored,
           NEW l \in Leg, NEW t, NEW live, NEW blind, NEW lost, NEW ack,
           IngestOne(l, t, live, blind, lost, ack)
    PROVE  LabelsJustified'
<1>0. PICK found, healable :
        \/ DropRedelivery(l, live)
        \/ BreakReusedRef(l, t, live)
        \/ /\ Fresh(l) /\ found = Found(l, blind) /\ healable = Healable(l, lost)
           /\ \/ MatchOpen(l, t, live, found, ack)
              \/ BreakOpenPartner(l, t, live, found, ack)
              \/ HealLateArrival(l, t, live, found, healable)
              \/ BreakKnownRef(l, t, live, found, healable)
              \/ WaitInWindow(l, t, live, found, ack)
  BY Zenon DEF IngestOne
<1>s. Stored \subseteq Stored'
  BY IngestOneStores
<1>j. \A b \in breaks : Justified(b, Stored) /\ Justified(b, Stored')
  BY <1>s, LabelsAreJustified, JustifiedGrows
<1>q. ASSUME \A b \in breaks' : b \in breaks \/ Justified(b, Stored)
      PROVE  LabelsJustified'
  <2>1. \A b \in breaks' : Justified(b, Stored')
    BY <1>q, <1>j, <1>s, JustifiedGrows
  <2> QED
    BY <2>1 DEF LabelsJustified, Justified, Related
<1>b. ASSUME NEW trigger \in Triggers, NEW partners \in SUBSET Related(l),
             OpenBreak({l} \cup partners, trigger, l, t, Announce(l, t, live)),
             trigger = "duplicate" => ReusedRef(l)
      PROVE  LabelsJustified'
  <2>1. ({l} \cup partners) \ {l} = partners
    BY DEF Related
  <2>2. PutBreak(NewBreak({l} \cup partners, trigger, Label(l, partners, trigger)))
    BY <1>b, <2>1 DEF OpenBreak
  <2>3. Justified(NewBreak({l} \cup partners, trigger, Label(l, partners, trigger)), Stored)
    BY <1>b, OpenedJustified
  <2> QED
    BY <1>q, <2>2, <2>3 DEF PutBreak
<1>1. CASE breaks' = breaks
  BY <1>1, <1>q
<1>2. CASE BreakReusedRef(l, t, live)
  <2>1. {l} \cup {} = {l} /\ "duplicate" \in Triggers
    BY DEF Triggers
  <2>2. OpenBreak({l} \cup {}, "duplicate", l, t, Announce(l, t, live)) /\ ReusedRef(l)
    BY <1>2, <2>1 DEF BreakReusedRef
  <2>3. {} \in SUBSET Related(l)
    OBVIOUS
  <2> QED
    BY <1>b, <2>1, <2>2, <2>3, Zenon
<1>3. CASE BreakOpenPartner(l, t, live, found, ack)
  <2>1. ByRef(l, index) \in SUBSET Related(l)
    BY DEF ByRef, Related
  <2>2. OpenBreak({l} \cup ByRef(l, index), "ref_conflict", l, t, Announce(l, t, live))
    BY <1>3 DEF BreakOpenPartner
  <2> QED
    BY <1>b, <2>1, <2>2 DEF Triggers
<1>4. CASE healable = Healable(l, lost) /\ HealLateArrival(l, t, live, found, healable)
  <2>1. PICK r \in Healable(l, lost) :
          LET b == CHOOSE c \in breaks : c.legs = legs[r].brk
          IN  PutBreak([b EXCEPT !.status = "resolved", !.actor = "system"])
    BY <1>4 DEF HealLateArrival
  <2>2. PICK b : b = CHOOSE c \in breaks : c.legs = legs[r].brk
    OBVIOUS
  <2>3. b \in breaks /\ b \in Break
    BY <2>2 DEF Healable, StoreTyped
  <2>4. PutBreak([b EXCEPT !.status = "resolved", !.actor = "system"])
    BY <2>1, <2>2
  <2>5. Justified([b EXCEPT !.status = "resolved", !.actor = "system"], Stored)
    BY <1>j, <2>3, JustifiedResolved
  <2> QED
    BY <1>q, <2>4, <2>5 DEF PutBreak
<1>5. CASE BreakKnownRef(l, t, live, found, healable)
  <2>1. {l} \cup {} = {l} /\ "ref_conflict" \in Triggers
    BY DEF Triggers
  <2> QED
    BY <1>5, <1>b, <2>1 DEF BreakKnownRef
<1> QED
  BY <1>0, <1>1, <1>2, <1>3, <1>4, <1>5 DEF DropRedelivery, MatchOpen, WaitInWindow

\* Every step keeps the labels justified.
LEMMA NextJustified ==
    ASSUME TypeOK, ControlOK, MemoryIsStored, LabelsJustified, [Next]_vars
    PROVE  LabelsJustified'
<1>s. StoreTyped /\ index \subseteq Stored
  BY DEF TypeOK, StoreTyped, MemoryIsStored
<1>j. \A b \in breaks : Justified(b, Stored)
  BY LabelsAreJustified
<1>q. ASSUME \A b \in breaks' : b \in breaks \/ Justified(b, Stored),
             Stored \subseteq Stored'
      PROVE  LabelsJustified'
  <2>1. \A b \in breaks' : Justified(b, Stored')
    BY <1>q, <1>j, JustifiedGrows
  <2> QED
    BY <2>1 DEF LabelsJustified, Justified, Related
<1>u. UNCHANGED legs => Stored' = Stored
  BY DEF Stored
<1>1. ASSUME NEW ack \in BOOLEAN, ExpireStep(ack) PROVE LabelsJustified'
  <2>1. PICK l \in First(due) :
          OpenBreak({l}, "window_expired", l, legs[l].at, <<Ev("leg.expired", {l})>>)
    BY <1>1 DEF ExpireStep
  <2>2. l \in Leg
    BY DEF First, TypeOK
  <2>3. {l} \ {l} = {} /\ {} \in SUBSET Related(l) /\ "window_expired" \in Triggers
    BY DEF Triggers
  <2>4. PutBreak(NewBreak({l}, "window_expired", Label(l, {}, "window_expired")))
    BY <2>1, <2>3 DEF OpenBreak
  <2>5. Justified(NewBreak({l}, "window_expired", Label(l, {}, "window_expired")), Stored)
    BY <2>2, <2>3, OpenedJustified
  <2>6. Stored \subseteq Stored'
    BY <2>1, SetLegsEffect DEF OpenBreak, Stored
  <2> QED
    BY <1>q, <2>4, <2>5, <2>6 DEF PutBreak
<1>2. ASSUME NEW b \in breaks, ResolveBreak(b) PROVE LabelsJustified'
  <2>1. b \in Break
    BY <1>s DEF StoreTyped
  <2>2. Justified([b EXCEPT !.status = "resolved", !.actor = "operator"], Stored)
    BY <1>j, <2>1, JustifiedResolved
  <2> QED
    BY <1>q, <1>u, <1>2, <2>2 DEF ResolveBreak, PutBreak
<1>3. ASSUME NEW e, NEW blind, ReapplyResolution(e, blind) PROVE LabelsJustified'
  <2> DEFINE resolved(b) == [b EXCEPT !.status = "resolved", !.actor = "operator"]
  <2>1. \A b \in breaks : Justified(resolved(b), Stored)
    BY <1>j, <1>s, JustifiedResolved DEF StoreTyped
  <2>2. \A c \in breaks' : c \in breaks \/ \E b \in breaks : c = resolved(b)
    BY <1>3 DEF ReapplyResolution
  <2>3. UNCHANGED legs
    BY <1>3, Zenon DEF ReapplyResolution
  <2> HIDE DEF resolved
  <2> QED
    BY <1>q, <1>u, <2>1, <2>2, <2>3
<1>4. CASE ReplayReset
  BY <1>4 DEF ReplayReset, LabelsJustified
<1>5. CASE UNCHANGED <<legs, matches, breaks>>
  BY <1>5, <1>q, <1>u
<1> QED
  BY <1>s, <1>1, <1>2, <1>3, <1>4, <1>5, NextWrites, IngestOneJustified DEF Writes

\* What holds of the memory and the log whatever fails.
LEMMA MemoryInvariant ==
    Spec => [](TypeOK /\ ControlOK /\ MemoryIsStored)
<1> DEFINE Inv == /\ TypeOK /\ ControlOK
                  /\ IngestedSingly /\ LogCoversStore /\ MemoryIsStored
<1>1. Init => Inv
  <2> SUFFICES ASSUME Init PROVE Inv
    OBVIOUS
  <2>1. TypeOK /\ ControlOK
    BY DEF Init, TypeOK, ControlOK, Absent, LegState, Statuses, Operations
  <2>2. IngestedSingly /\ LogCoversStore /\ MemoryIsStored
    BY DEF Init, Absent, IngestedSingly, LogCoversStore, Stored, MemoryIsStored
  <2> QED
    BY <2>1, <2>2
<1>2. Inv /\ [Next]_vars => Inv'
  BY NextTyped, NextIngestedSingly, NextLogged
<1> QED
  BY <1>1, <1>2, PTL DEF Spec

\* The label of every break is borne out by the stored legs of its txn_ref, as
\* long as the break is there and whatever fails: lost acknowledgements, failing
\* lookups, crashes and interrupted replays included.
THEOREM LabelsAlwaysJustified == Spec => []LabelsJustified
<1>1. Init => LabelsJustified
  BY DEF Init, LabelsJustified
<1>2. TypeOK /\ ControlOK /\ MemoryIsStored /\ LabelsJustified /\ [Next]_vars
         => LabelsJustified'
  BY NextJustified
<1> QED
  BY <1>1, <1>2, MemoryInvariant, PTL DEF Spec

-----------------------------------------------------------------------------
(* No match is missed.                                                     *)

\* The two parts of NoMatchMissed.
Partnerless == \A k, l \in Unpaired : ~Reconcilable(k, l)

BreaksApart ==
    \A b \in breaks : \A k, l \in b.legs :
        Key(k) = Key(l) /\ WithinDateWindow(k, l) => ~Reconcilable(k, l)

\* Partners are partners of each other, and nobody is his own.
LEMMA ReconcilableSymmetric ==
    ASSUME NEW k, NEW l, Reconcilable(k, l)
    PROVE  Reconcilable(l, k) /\ k # l
BY DEF Reconcilable

\* Who waits, leg by leg.
LEMMA UnpairedLegs ==
    ASSUME NEW x
    PROVE  x \in Unpaired <=>
              \/ x \in OpenLegs
              \/ \E c \in breaks : /\ c.status = "open" /\ c.trigger # "duplicate"
                                   /\ Cardinality(c.legs) = 1 /\ x \in c.legs
BY DEF Unpaired

\* Legs that stop waiting leave no partner behind.
LEMMA WaitLess ==
    ASSUME Partnerless, BreaksApart, OpenLegs' \subseteq OpenLegs,
           \A c \in breaks' : \E b \in breaks :
              c.legs = b.legs /\ (c.status = "open" => c = b)
    PROVE  Partnerless' /\ BreaksApart'
<1>1. Unpaired' \subseteq Unpaired
  BY UnpairedLegs DEF Unpaired
<1>2. Partnerless'
  BY <1>1 DEF Partnerless, Reconcilable
<1>3. BreaksApart'
  BY DEF BreaksApart, Reconcilable
<1> QED
  BY <1>2, <1>3

\* A break may be opened if what joins the waiting legs has no partner among
\* them, and its own legs are not a pair.
LEMMA OpenBreakMisses ==
    ASSUME Partnerless, BreaksApart, NEW S, NEW trigger, NEW l, NEW t, NEW before,
           OpenBreak(S, trigger, l, t, before),
           trigger # "duplicate" /\ Cardinality(S) = 1 =>
              S = {l} /\ \A k \in Unpaired : ~Reconcilable(k, l),
           \A k, m \in S :
              Key(k) = Key(m) /\ WithinDateWindow(k, m) => ~Reconcilable(k, m)
    PROVE  Partnerless' /\ BreaksApart'
<1> DEFINE b == NewBreak(S, trigger, Label(l, S \ {l}, trigger))
<1>1. b.legs = S /\ b.trigger = trigger
  BY DEF NewBreak
<1>2. breaks' = {c \in breaks : c.legs # b.legs} \cup {b}
  BY DEF OpenBreak, PutBreak
<1> HIDE DEF b
<1>3. OpenLegs' \subseteq OpenLegs
  BY SetLegsCloses DEF OpenBreak
<1>4. ASSUME NEW x \in Unpaired', x \notin Unpaired
      PROVE  x = l /\ \A k \in Unpaired : ~Reconcilable(k, l)
  <2>1. x \notin OpenLegs'
    BY <1>3, <1>4, UnpairedLegs
  <2>2. PICK c \in breaks' : /\ c.status = "open" /\ c.trigger # "duplicate"
                             /\ Cardinality(c.legs) = 1 /\ x \in c.legs
    BY <1>4, <2>1 DEF Unpaired
  <2>3. c \notin breaks
    BY <1>4, <2>2, UnpairedLegs
  <2>4. c = b
    BY <1>2, <2>3
  <2> QED
    BY <1>1, <2>2, <2>4
<1>5. \A x, y \in Unpaired' : ~Reconcilable(x, y)
  <2> SUFFICES ASSUME NEW x \in Unpaired', NEW y \in Unpaired', Reconcilable(x, y)
               PROVE  FALSE
    OBVIOUS
  <2>1. Reconcilable(y, x) /\ x # y
    BY ReconcilableSymmetric
  <2> QED
    BY <1>4, <2>1 DEF Partnerless
<1>6. BreaksApart'
  BY <1>1, <1>2 DEF BreaksApart, Reconcilable
<1> QED
  BY <1>5, <1>6 DEF Partnerless, Reconcilable

\* If the tier of the txn_ref has a match then a match is found.
LEMMA Tier2Finds ==
    ASSUME NEW l, NEW ix, NEW known, Tier2Ref(l, ix) # {}
    PROVE  Find(l, ix, known) # {}
<1> DEFINE tier(rank, S, rule) == [rank |-> rank, legs |-> S, rule |-> rule]
           tiers == {tier(1, Tier1(l, ix), RuleT1Exact),
                     tier(2, Tier2Ref(l, ix), RuleT2Tolerant),
                     tier(3, Tier2AmountDate(l, ix, known), RuleT2AmountDate),
                     tier(4, Tier3One(l, ix), RuleT3Subset),
                     tier(5, Tier3Many(l, ix), RuleT3Subset)}
           hits == {t \in tiers : t.legs # {}}
           best == {t \in hits : \A u \in hits : t.rank <= u.rank}
<1>1. Find(l, ix, known) = {[legs |-> {l} \cup t.legs, rule |-> t.rule] : t \in best}
  BY DEF Find
<1>2. \A u \in hits : u.rank \in 1..5 /\ (u.rank = 1 => u = tier(1, Tier1(l, ix), RuleT1Exact))
  OBVIOUS
<1>3. CASE Tier1(l, ix) # {}
  <2>1. tier(1, Tier1(l, ix), RuleT1Exact) \in hits
    BY <1>3
  <2>2. tier(1, Tier1(l, ix), RuleT1Exact) \in best
    BY <1>2, <2>1
  <2> HIDE DEF best
  <2> QED
    BY <1>1, <2>2
<1>4. CASE Tier1(l, ix) = {}
  <2>1. tier(2, Tier2Ref(l, ix), RuleT2Tolerant) \in hits
    OBVIOUS
  <2>2. \A u \in hits : u.rank \in 2..5
    BY <1>2, <1>4
  <2>3. tier(2, Tier2Ref(l, ix), RuleT2Tolerant) \in best
    BY <2>1, <2>2
  <2> HIDE DEF best
  <2> QED
    BY <1>1, <2>3
<1> QED
  BY <1>3, <1>4

\* If l has a partner among the open legs of its window, it is matched.
LEMMA OpenPartnerFound ==
    ASSUME OneOpenPerRef, NEW l \in Leg, NEW p \in OpenLegs, NEW known,
           Reconcilable(l, p), Key(l) = Key(p), WithinDateWindow(p, l)
    PROVE  Find(l, OpenLegs, known) # {}
<1> DEFINE hits == {c \in InWindow(l, CandidatesByRef(l, OpenLegs)) :
                       WithinTolerance(Amount(l), Amount(c))}
           residual(c) == Distance(Amount(c), Amount(l))
           closest == {c \in hits : \A d \in hits : residual(c) <= residual(d)}
<1>1. p \in hits
  BY DEF Reconcilable, InWindow, CandidatesByRef, Candidates
<1>2. \A c \in hits : c = p
  BY DEF InWindow, CandidatesByRef, Candidates, OneOpenPerRef, Reconcilable
<1>3. residual(p) \in Int
  <2>1. p \in Leg
    BY DEF OpenLegs
  <2>2. Amount(p) \in Nat /\ Amount(l) \in Nat
    BY <2>1, LegAssumption DEF Amount, LegContent
  <2> QED
    BY <2>2 DEF Distance
<1> HIDE DEF hits, residual
<1>4. closest = {p}
  BY <1>1, <1>2, <1>3
<1>5. First({p}) = {p}
  BY DEF First
<1>6. Tier2Ref(l, OpenLegs) = First(closest)
  BY DEF Tier2Ref, hits, residual
<1>7. Tier2Ref(l, OpenLegs) # {}
  BY <1>4, <1>5, <1>6
<1> QED
  BY <1>7, Tier2Finds

\* No outcome of ingestOne misses a match, if no lookup fails.
LEMMA IngestOneMisses ==
    ASSUME StoreTyped, StoreAgrees, index = OpenLegs, OneOpenPerRef,
           Partnerless, BreaksApart,
           NEW l \in Leg, NEW t, NEW live, NEW blind,
           IngestOne(l, t, live, blind, {}, TRUE)
    PROVE  Partnerless' /\ BreaksApart'
<1>0. PICK found, healable :
        \/ DropRedelivery(l, live)
        \/ BreakReusedRef(l, t, live)
        \/ /\ Fresh(l) /\ found = Found(l, blind) /\ healable = Healable(l, {})
           /\ \/ MatchOpen(l, t, live, found, TRUE)
              \/ BreakOpenPartner(l, t, live, found, TRUE)
              \/ HealLateArrival(l, t, live, found, healable)
              \/ BreakKnownRef(l, t, live, found, healable)
              \/ WaitInWindow(l, t, live, found, TRUE)
  BY Zenon DEF IngestOne
<1>u. ASSUME UNCHANGED breaks, OpenLegs' \subseteq OpenLegs
      PROVE  Partnerless' /\ BreaksApart'
  BY <1>u, WaitLess
<1>i. \A k : ~Reconcilable(k, k)
  BY ReconcilableSymmetric
\* The legs that wait are stored.
<1>w. \A k \in Unpaired : /\ k \in Leg /\ k \in Stored
                          /\ \/ k \in OpenLegs
                             \/ /\ legs[k].status = "break" /\ legs[k].brk # {}
                                /\ \E c \in breaks : /\ c.legs = legs[k].brk
                                                     /\ c.status = "open"
                                                     /\ Cardinality(c.legs) = 1
  <2> SUFFICES ASSUME NEW k \in Unpaired, k \notin OpenLegs
               PROVE  /\ k \in Leg /\ k \in Stored
                      /\ legs[k].status = "break" /\ legs[k].brk # {}
                      /\ \E c \in breaks : /\ c.legs = legs[k].brk
                                           /\ c.status = "open"
                                           /\ Cardinality(c.legs) = 1
    BY DEF OpenLegs, Stored
  <2>1. PICK c \in breaks : /\ c.status = "open" /\ c.trigger # "duplicate"
                            /\ Cardinality(c.legs) = 1 /\ k \in c.legs
    BY UnpairedLegs
  <2>2. k \in Leg /\ c.actor = "none"
    BY <2>1 DEF StoreTyped, Break, StoreAgrees, OpenBreaksUnattributed
  <2>3. legs[k].status = "break" /\ legs[k].brk = c.legs
    BY <2>1, <2>2 DEF StoreAgrees, BreaksAgree
  <2> QED
    BY <2>1, <2>2, <2>3 DEF Stored
<1>1. CASE DropRedelivery(l, live)
  BY <1>1, <1>u DEF DropRedelivery, OpenLegs
<1>2. CASE BreakReusedRef(l, t, live)
  BY <1>2, <1>i, OpenBreakMisses DEF BreakReusedRef
<1>3. CASE MatchOpen(l, t, live, found, TRUE)
  BY <1>3, <1>u, SetLegsCloses DEF MatchOpen
<1>4. CASE Fresh(l) /\ found = Found(l, blind) /\ BreakOpenPartner(l, t, live, found, TRUE)
  <2> DEFINE partners == ByRef(l, index)
             S == {l} \cup partners
  <2>1. /\ found = {} /\ partners # {}
        /\ OpenBreak(S, "ref_conflict", l, t, Announce(l, t, live))
    BY <1>4 DEF BreakOpenPartner
  <2>2. partners \subseteq OpenLegs /\ l \notin partners /\ \A k \in partners : Ref(k) = Ref(l)
    BY DEF ByRef
  <2>3. \A k, m \in partners : k = m
    BY <2>2 DEF OneOpenPerRef
  <2>4. Find(l, OpenLegs, KnownRefs(blind)) = {}
    BY <1>4, <2>1 DEF Found
  <2> HIDE DEF partners
  <2>5. \A k \in partners : Key(l) = Key(k) /\ WithinDateWindow(k, l) => ~Reconcilable(l, k)
    BY <2>2, <2>4, OpenPartnerFound
  <2>6. \A k \in partners : WithinDateWindow(l, k) <=> WithinDateWindow(k, l)
    <3> SUFFICES ASSUME NEW k \in partners
                 PROVE  WithinDateWindow(l, k) <=> WithinDateWindow(k, l)
      OBVIOUS
    <3>1. Date(l) \in Nat /\ Date(k) \in Nat
      BY <2>2, LegAssumption DEF OpenLegs, Date, LegContent
    <3> QED
      BY <3>1 DEF WithinDateWindow, Distance
  <2>7. \A k, m \in S :
           Key(k) = Key(m) /\ WithinDateWindow(k, m) => ~Reconcilable(k, m)
    <3> SUFFICES ASSUME NEW k \in S, NEW m \in S,
                        Key(k) = Key(m), WithinDateWindow(k, m), Reconcilable(k, m)
                 PROVE  FALSE
      OBVIOUS
    <3>1. k # m /\ Reconcilable(m, k)
      BY ReconcilableSymmetric
    <3>2. (k = l /\ m \in partners) \/ (m = l /\ k \in partners)
      BY <2>3, <3>1
    <3> QED
      BY <2>5, <2>6, <3>1, <3>2
  <2>8. Cardinality(S) # 1
    <3>1. IsFiniteSet(S)
      <4>1. S \subseteq Leg
        BY <2>2 DEF OpenLegs
      <4> QED
        BY <4>1, LegAssumption, FS_Subset
    <3>2. Cardinality(S) = 1 => \E x : S = {x}
      BY <3>1, FS_Singleton
    <3> QED
      BY <2>1, <2>2, <3>2
  <2> HIDE DEF S
  <2> QED
    BY <2>1, <2>7, <2>8, OpenBreakMisses
<1>5. CASE healable = Healable(l, {}) /\ HealLateArrival(l, t, live, found, healable)
  <2>1. PICK r \in Healable(l, {}) :
          LET b == CHOOSE c \in breaks : c.legs = legs[r].brk
          IN  /\ SetLegs({l, r}, "matched", {l, r}, {}, l, t)
              /\ PutBreak([b EXCEPT !.status = "resolved", !.actor = "system"])
    BY <1>5 DEF HealLateArrival
  <2>2. PICK b : b = CHOOSE c \in breaks : c.legs = legs[r].brk
    OBVIOUS
  <2>3. b \in breaks /\ b \in Break
    BY <2>2 DEF Healable, StoreTyped
  <2> DEFINE h == [b EXCEPT !.status = "resolved", !.actor = "system"]
  <2>4. h.legs = b.legs /\ h.status = "resolved"
    BY <2>3 DEF Break
  <2>5. breaks' = {c \in breaks : c.legs # h.legs} \cup {h}
    BY <2>1, <2>2 DEF PutBreak
  <2> HIDE DEF h
  <2>6. OpenLegs' \subseteq OpenLegs
    BY <2>1, SetLegsCloses
  <2> QED
    BY <2>3, <2>4, <2>5, <2>6, WaitLess
<1>6. CASE Fresh(l) /\ healable = Healable(l, {}) /\ BreakKnownRef(l, t, live, found, healable)
  <2>1. /\ ByRef(l, OpenLegs) = {} /\ Healable(l, {}) = {} /\ l \notin Stored
        /\ OpenBreak({l}, "ref_conflict", l, t, Announce(l, t, live))
    BY <1>6 DEF BreakKnownRef, Unpartnered, Fresh, HasLeg
  <2>2. ASSUME NEW k \in Unpaired, Reconcilable(k, l) PROVE FALSE
    <3>1. /\ Reconcilable(l, k) /\ k # l /\ Ref(k) = Ref(l) /\ Source(k) # Source(l)
          /\ Currency(k) = Currency(l) /\ WithinTolerance(Amount(l), Amount(k))
      BY <2>2, ReconcilableSymmetric DEF Reconcilable
    <3>2. k \in Related(l)
      BY <1>w, <3>1 DEF Related
    <3>3. k \notin OpenLegs
      BY <2>1, <3>1 DEF ByRef
    <3>4. k \in Healable(l, {})
      BY <1>w, <3>1, <3>2, <3>3 DEF Healable
    <3> QED
      BY <2>1, <3>4
  <2> QED
    BY <1>i, <2>1, <2>2, OpenBreakMisses
<1>7. CASE Fresh(l) /\ WaitInWindow(l, t, live, found, TRUE)
  <2>1. /\ Related(l) = {} /\ l \notin Stored /\ breaks' = breaks
        /\ SetLegs({l}, "open", {}, {}, l, t)
    BY <1>7 DEF WaitInWindow, Fresh, HasLeg
  <2>2. OpenLegs' \subseteq OpenLegs \cup {l}
    BY <2>1, SetLegsEffect DEF OpenLegs
  <2>3. Unpaired' \subseteq Unpaired \cup {l}
    BY <2>1, <2>2 DEF Unpaired
  <2>4. \A k \in Unpaired : ~Reconcilable(k, l) /\ ~Reconcilable(l, k)
    BY <1>w, <2>1 DEF Related, Reconcilable
  <2>5. \A x, y \in Unpaired' : ~Reconcilable(x, y)
    BY <1>i, <2>3, <2>4 DEF Partnerless
  <2> QED
    BY <2>1, <2>5 DEF Partnerless, BreaksApart, Reconcilable
<1> QED
  BY <1>0, <1>1, <1>2, <1>3, <1>4, <1>5, <1>6, <1>7

\* No step misses a match as long as nothing has failed.
LEMMA NextMisses ==
    ASSUME Agreement, OneOpenPerRef, Partnerless, BreaksApart, [Next]_vars,
           faults = 0, faults' = 0
    PROVE  Partnerless' /\ BreaksApart'
<1>s. /\ TypeOK /\ ControlOK /\ StoreTyped /\ StoreAgrees
      /\ op # "down" => index = OpenLegs
  BY DEF Agreement, TypeOK, StoreTyped, IndexMirrorsStore
<1>u. ASSUME UNCHANGED legs,
             \A c \in breaks' : \E b \in breaks :
                c.legs = b.legs /\ (c.status = "open" => c = b)
      PROVE  Partnerless' /\ BreaksApart'
  <2>1. OpenLegs' = OpenLegs
    BY <1>u DEF OpenLegs
  <2> QED
    BY <1>u, <2>1, WaitLess
<1>1. ASSUME NEW l \in Leg, NEW t, NEW live, NEW blind, NEW ack \in BOOLEAN, NEW lost,
             op \in {"ingest", "replay"}, Suffer(blind, lost, ack),
             IngestOne(l, t, live, blind, lost, ack)
      PROVE  Partnerless' /\ BreaksApart'
  <2>1. lost = {} /\ ack = TRUE
    BY <1>1, SufferCounts
  <2>2. IngestOne(l, t, live, blind, {}, TRUE)
    BY <1>1, <2>1
  <2> QED
    BY <1>s, <1>1, <2>2, IngestOneMisses
<1>2. ASSUME NEW ack \in BOOLEAN, ExpireStep(ack) PROVE Partnerless' /\ BreaksApart'
  <2>1. PICK l \in First(due) :
          OpenBreak({l}, "window_expired", l, legs[l].at, <<Ev("leg.expired", {l})>>)
    BY <1>2 DEF ExpireStep
  <2>2. l \in OpenLegs
    BY <1>s, <1>2 DEF ExpireStep, Agreement, DueIsOpen, First
  <2>3. l \in Unpaired
    BY <2>2, UnpairedLegs
  <2>4. \A k \in Unpaired : ~Reconcilable(k, l)
    BY <2>3 DEF Partnerless
  <2>5. ~Reconcilable(l, l)
    BY ReconcilableSymmetric
  <2> QED
    BY <2>1, <2>4, <2>5, OpenBreakMisses
<1>3. ASSUME NEW b \in breaks, ResolveBreak(b) PROVE Partnerless' /\ BreaksApart'
  <2> DEFINE r == [b EXCEPT !.status = "resolved", !.actor = "operator"]
  <2>1. r.legs = b.legs /\ r.status = "resolved"
    BY <1>s DEF StoreTyped, Break
  <2>2. breaks' = {c \in breaks : c.legs # r.legs} \cup {r} /\ UNCHANGED legs
    BY <1>3 DEF ResolveBreak, PutBreak
  <2> HIDE DEF r
  <2> QED
    BY <1>u, <2>1, <2>2
<1>4. ASSUME NEW e, NEW blind, ReapplyResolution(e, blind)
      PROVE  Partnerless' /\ BreaksApart'
  <2> DEFINE resolved(b) == [b EXCEPT !.status = "resolved", !.actor = "operator"]
  <2>1. \A b \in breaks : resolved(b).legs = b.legs /\ resolved(b).status = "resolved"
    BY <1>s DEF StoreTyped, Break
  <2>2. \A c \in breaks' : c \in breaks \/ \E b \in breaks : c = resolved(b)
    BY <1>4 DEF ReapplyResolution
  <2>3. UNCHANGED legs
    BY <1>4, Zenon DEF ReapplyResolution
  <2> HIDE DEF resolved
  <2>4. \A c \in breaks' : \E b \in breaks :
           c.legs = b.legs /\ (c.status = "open" => c = b)
    BY <2>1, <2>2
  <2> QED
    BY <1>u, <2>3, <2>4
<1>5. CASE ReplayReset
  <2>1. OpenLegs' = {} /\ breaks' = {}
    BY <1>5 DEF ReplayReset, OpenLegs, Absent
  <2> QED
    BY <2>1 DEF Partnerless, BreaksApart, Unpaired
<1>6. CASE UNCHANGED <<legs, matches, breaks>>
  BY <1>6, <1>u
<1> QED
  BY <1>s, <1>1, <1>2, <1>3, <1>4, <1>5, <1>6, NextWrites DEF Writes

\* The count of faults never falls.
LEMMA FaultsGrow ==
    ASSUME TypeOK, [Next]_vars
    PROVE  faults \in Nat /\ faults' >= faults
<1>1. faults \in Nat
  BY DEF TypeOK
<1>2. ASSUME NEW ack \in BOOLEAN, IngestStep(ack) \/ ExpireStep(ack) \/ ReplayStep(ack)
      PROVE  \E blind, lost : Suffer(blind, lost, ack)
  BY <1>2, Zenon DEF IngestStep, ExpireStep, ReplayStep
<1>3. ASSUME NEW ack \in BOOLEAN, IngestStep(ack) \/ ExpireStep(ack) \/ ReplayStep(ack)
      PROVE  faults' >= faults
  BY <1>1, <1>2, <1>3, SufferCounts
<1>4. ASSUME NEW kind, NEW age, Expire(kind, age) PROVE faults' = faults
  BY <1>4 DEF Expire
<1>5. CASE Abort \/ Crash
  BY <1>1, <1>5 DEF Abort, Crash, Strike
<1>6. \/ \E ack \in BOOLEAN : IngestStep(ack) \/ ExpireStep(ack) \/ ReplayStep(ack)
      \/ Abort \/ Crash
      \/ faults' = faults
  BY <1>4 DEF Next, Ingest, Sweep, CloseWindow, WindowClosed, ResolveBreak, Replay,
              ReplayReset, Rebuild, Tick, vars
<1> QED
  BY <1>1, <1>3, <1>5, <1>6

\* As long as nothing has failed, legs that wait, expired or were refused on
\* arrival never are partners of each other, and no break holds a pair that the
\* first tiers accept, whatever the order of arrivals, expiries, resolutions,
\* healings and replays.
THEOREM NoMatchEverMissed == Spec => []NoMatchMissed
<1> DEFINE Inv == faults = 0 => Agreement /\ Partnerless /\ BreaksApart
<1>1. Init => Inv
  <2> SUFFICES ASSUME Init PROVE Inv
    OBVIOUS
  <2>1. TypeOK /\ ControlOK
    BY DEF Init, TypeOK, ControlOK, Absent, LegState, Statuses, Operations
  <2>2. StoreAgrees
    BY DEF Init, Absent, StoreAgrees, MatchesAgree, NeverDoubleCounted,
           BreaksAgree, OpenBreaksUnattributed
  <2>3. OpenLegs = {} /\ breaks = {}
    BY DEF Init, Absent, OpenLegs
  <2>4. IndexMirrorsStore /\ DueIsOpen
    BY <2>3 DEF Init, IndexMirrorsStore, DueIsOpen
  <2>5. Partnerless /\ BreaksApart
    BY <2>3 DEF Partnerless, BreaksApart, Unpaired
  <2> QED
    BY <2>1, <2>2, <2>4, <2>5 DEF Agreement
<1>2. TypeOK /\ OneOpenPerRef /\ Inv /\ [Next]_vars => Inv'
  <2> SUFFICES ASSUME TypeOK, OneOpenPerRef, Inv, [Next]_vars, faults' = 0
               PROVE  Agreement' /\ Partnerless' /\ BreaksApart'
    OBVIOUS
  <2>1. faults = 0
    BY FaultsGrow
  <2> QED
    BY <2>1, NextAgrees, NextMisses
<1>3. Inv => NoMatchMissed
  BY DEF NoMatchMissed, Partnerless, BreaksApart
<1>4. Spec => [](TypeOK /\ OneOpenPerRef)
  BY TypeCorrect, OneOpenPerRefAlways, PTL
<1> QED
  BY <1>1, <1>2, <1>3, <1>4, PTL DEF Spec

-----------------------------------------------------------------------------
(* Sums of amounts.  TotalAmount folds over a set in an order that is not  *)
(* known.  The facts below are proved from a least counterexample: a set   *)
(* of finite sets has a minimal member.                                    *)

\* A set of subsets of a finite set has a minimal member.
LEMMA MinimalSubset ==
    ASSUME NEW U, IsFiniteSet(U), NEW T, T \subseteq SUBSET U, T # {}
    PROVE  \E M \in T : \A R \in T : R \subseteq M => R = M
<1>1. FiniteSubsetsOf(U) = SUBSET U
  BY FS_FiniteSubsetsOfFinite
<1>2. IsWellFoundedOn(StrictSubsetOrdering(U), SUBSET U)
  BY <1>1, FS_StrictSubsetOrderingWellFounded
<1>3. PICK M \in T : \A R \in T : <<R, M>> \notin StrictSubsetOrdering(U)
  BY <1>2, WFMin
<1>4. \A R \in T : R \subseteq M => R = M
  BY <1>3 DEF StrictSubsetOrdering
<1> QED
  BY <1>4

\* And so has a set of sets of legs.
LEMMA MinimalSet ==
    ASSUME NEW T, T \subseteq SUBSET Leg, T # {}
    PROVE  \E M \in T : \A R \in T : R \subseteq M => R = M
<1>1. IsFiniteSet(Leg)
  BY LegAssumption
<1> QED
  BY <1>1, MinimalSubset

\* The leg that the fold takes first, and the function it computes with.
Pick(s) == CHOOSE x \in s : TRUE

Sums(f, S) ==
    f = [s \in SUBSET S |-> IF s = {} THEN 0
                            ELSE Amount(Pick(s)) + f[s \ {Pick(s)}]]

SumOf(S) == CHOOSE f : Sums(f, S)

\* What Sums says of one set.
LEMMA SumsAt ==
    ASSUME NEW f, NEW S, Sums(f, S), NEW s, s \subseteq S
    PROVE  f[s] = IF s = {} THEN 0 ELSE Amount(Pick(s)) + f[s \ {Pick(s)}]
BY DEF Sums

\* There is one way to sum.
LEMMA SumsUnique ==
    ASSUME NEW S \in SUBSET Leg, NEW U \in SUBSET Leg, NEW f, NEW g,
           Sums(f, S), Sums(g, U), NEW s, s \subseteq S, s \subseteq U
    PROVE  f[s] = g[s]
<1> SUFFICES ASSUME f[s] # g[s] PROVE FALSE
  OBVIOUS
<1> DEFINE T == {r \in SUBSET Leg : r \subseteq S /\ r \subseteq U /\ f[r] # g[r]}
<1>1. T # {} /\ T \subseteq SUBSET Leg
  OBVIOUS
<1> HIDE DEF T
<1>2. PICK m \in T : \A r \in T : r \subseteq m => r = m
  BY <1>1, MinimalSet
<1>3. m \subseteq S /\ m \subseteq U /\ f[m] # g[m] /\ m \in SUBSET Leg
  BY DEF T
<1>4. m # {}
  BY <1>3, SumsAt
<1>5. Pick(m) \in m
  BY <1>4 DEF Pick
<1>6. f[m \ {Pick(m)}] = g[m \ {Pick(m)}]
  BY <1>2, <1>3, <1>5 DEF T
<1>7. f[m] = Amount(Pick(m)) + f[m \ {Pick(m)}]
  BY <1>3, <1>4, SumsAt
<1>8. g[m] = Amount(Pick(m)) + g[m \ {Pick(m)}]
  BY <1>3, <1>4, SumsAt
<1> QED
  BY <1>3, <1>6, <1>7, <1>8

\* And every set of legs can be summed.
LEMMA SumsExist ==
    ASSUME NEW S \in SUBSET Leg
    PROVE  Sums(SumOf(S), S)
<1> SUFFICES ASSUME ~\E f : Sums(f, S) PROVE FALSE
  BY DEF SumOf
<1> DEFINE T == {R \in SUBSET Leg : ~\E f : Sums(f, R)}
<1>1. T # {} /\ T \subseteq SUBSET Leg
  OBVIOUS
<1> HIDE DEF T
<1>2. PICK M \in T : \A R \in T : R \subseteq M => R = M
  BY <1>1, MinimalSet
<1>3. M \in SUBSET Leg /\ ~\E f : Sums(f, M)
  BY DEF T
<1>4. ASSUME NEW R, R \subseteq M, R # M PROVE Sums(SumOf(R), R) /\ R \in SUBSET Leg
  <2>1. R \notin T /\ R \in SUBSET Leg
    BY <1>2, <1>3, <1>4
  <2> QED
    BY <2>1 DEF SumOf, T
<1> DEFINE rest(s) == s \ {Pick(s)}
           g == [s \in SUBSET M |-> IF s = {} THEN 0
                                    ELSE Amount(Pick(s)) + SumOf(rest(s))[rest(s)]]
<1>5. ASSUME NEW s \in SUBSET M, s # {} PROVE g[rest(s)] = SumOf(rest(s))[rest(s)]
  <2>1. PICK r : r = rest(s)
    OBVIOUS
  <2>2. r \subseteq M /\ r # M
    BY <1>5, <2>1 DEF Pick
  <2>3. Sums(SumOf(r), r) /\ r \in SUBSET Leg
    BY <1>4, <2>2
  <2>4. SumOf(r)[r] = IF r = {} THEN 0 ELSE Amount(Pick(r)) + SumOf(r)[rest(r)]
    BY <2>3, SumsAt
  <2>5. g[r] = IF r = {} THEN 0 ELSE Amount(Pick(r)) + SumOf(rest(r))[rest(r)]
    BY <2>2
  <2>6. r # {} => SumOf(r)[rest(r)] = SumOf(rest(r))[rest(r)]
    <3> SUFFICES ASSUME r # {} PROVE SumOf(r)[rest(r)] = SumOf(rest(r))[rest(r)]
      OBVIOUS
    <3>1. PICK q : q = rest(r)
      OBVIOUS
    <3>2. q \subseteq r /\ q \subseteq M /\ q # M
      BY <2>2, <3>1
    <3>3. Sums(SumOf(q), q) /\ q \in SUBSET Leg
      BY <1>4, <3>2
    <3>4. SumOf(r)[q] = SumOf(q)[q]
      BY <2>3, <3>2, <3>3, SumsUnique
    <3> QED
      BY <3>1, <3>4
  <2> HIDE DEF g
  <2> QED
    BY <2>1, <2>4, <2>5, <2>6
<1>6. g = [s \in SUBSET M |-> IF s = {} THEN 0 ELSE Amount(Pick(s)) + g[rest(s)]]
  BY <1>5
<1>7. Sums(g, M)
  BY <1>6 DEF Sums
<1> QED
  BY <1>3, <1>7

\* TotalAmount is that sum.
LEMMA TotalIsSum ==
    ASSUME NEW S
    PROVE  TotalAmount(S) = SumOf(S)[S]
BY DEF TotalAmount, MapThenSumSet, MapThenFoldSet, SumOf, Sums, Pick

\* The total of nothing, and of a set without its first leg.
LEMMA TotalUnfolds ==
    ASSUME NEW S \in SUBSET Leg
    PROVE  TotalAmount(S) = IF S = {} THEN 0
                            ELSE Amount(Pick(S)) + TotalAmount(S \ {Pick(S)})
<1>1. PICK r : r = S \ {Pick(S)}
  OBVIOUS
<1>2. Sums(SumOf(S), S) /\ Sums(SumOf(r), r)
  BY <1>1, SumsExist
<1>3. SumOf(S)[S] = IF S = {} THEN 0 ELSE Amount(Pick(S)) + SumOf(S)[r]
  BY <1>1, <1>2, SumsAt
<1>4. SumOf(S)[r] = SumOf(r)[r]
  BY <1>1, <1>2, SumsUnique
<1>5. TotalAmount(S) = SumOf(S)[S] /\ TotalAmount(r) = SumOf(r)[r]
  BY TotalIsSum
<1> QED
  BY <1>1, <1>3, <1>4, <1>5

\* Amounts are numbers.
LEMMA AmountTyped ==
    ASSUME NEW l \in Leg
    PROVE  Amount(l) \in Nat
BY LegAssumption DEF Amount, LegContent

\* And so are totals.
LEMMA TotalTyped ==
    ASSUME NEW S \in SUBSET Leg
    PROVE  TotalAmount(S) \in Nat
<1> SUFFICES ASSUME TotalAmount(S) \notin Nat PROVE FALSE
  OBVIOUS
<1> DEFINE T == {R \in SUBSET Leg : TotalAmount(R) \notin Nat}
<1>1. T # {} /\ T \subseteq SUBSET Leg
  OBVIOUS
<1> HIDE DEF T
<1>2. PICK M \in T : \A R \in T : R \subseteq M => R = M
  BY <1>1, MinimalSet
<1>3. M \in SUBSET Leg /\ TotalAmount(M) \notin Nat
  BY DEF T
<1>e. TotalAmount({}) = 0
  BY TotalUnfolds
<1>n. M # {}
  BY <1>3, <1>e
<1>4. TotalAmount(M) = Amount(Pick(M)) + TotalAmount(M \ {Pick(M)})
  BY <1>3, <1>n, TotalUnfolds
<1>5. Pick(M) \in M
  BY <1>n DEF Pick
<1>6. TotalAmount(M \ {Pick(M)}) \in Nat
  BY <1>2, <1>3, <1>5 DEF T
<1> QED
  BY <1>3, <1>4, <1>5, <1>6, AmountTyped

\* The order does not matter: any leg may be taken out first.
LEMMA TotalWithout ==
    ASSUME NEW S \in SUBSET Leg, NEW x \in S
    PROVE  TotalAmount(S) = Amount(x) + TotalAmount(S \ {x})
<1> DEFINE Fits(R) == \A y \in R : TotalAmount(R) = Amount(y) + TotalAmount(R \ {y})
<1> SUFFICES ASSUME ~Fits(S) PROVE FALSE
  OBVIOUS
<1> DEFINE T == {R \in SUBSET Leg : ~Fits(R)}
<1>1. T # {} /\ T \subseteq SUBSET Leg
  OBVIOUS
<1> HIDE DEF Fits, T
<1>2. PICK M \in T : \A R \in T : R \subseteq M => R = M
  BY <1>1, MinimalSet
<1>3. M \in SUBSET Leg /\ ~Fits(M) /\ \A R : R \subseteq M /\ R # M => Fits(R)
  BY <1>2 DEF T
<1>4. PICK y \in M : TotalAmount(M) # Amount(y) + TotalAmount(M \ {y})
  BY <1>3 DEF Fits
<1>5. PICK c : c = Pick(M)
  OBVIOUS
<1>6. c \in M /\ TotalAmount(M) = Amount(c) + TotalAmount(M \ {c})
  BY <1>3, <1>5, TotalUnfolds DEF Pick
<1>7. y # c
  BY <1>4, <1>6
<1>8. PICK r : r = M \ {c, y}
  OBVIOUS
<1>9. r = (M \ {c}) \ {y} /\ r = (M \ {y}) \ {c}
  BY <1>8
<1>10. TotalAmount(M \ {c}) = Amount(y) + TotalAmount(r)
  BY <1>3, <1>6, <1>7, <1>9 DEF Fits
<1>11. TotalAmount(M \ {y}) = Amount(c) + TotalAmount(r)
  BY <1>3, <1>6, <1>7, <1>9 DEF Fits
<1>12. Amount(c) \in Nat /\ Amount(y) \in Nat /\ TotalAmount(r) \in Nat
  BY <1>3, <1>6, <1>8, AmountTyped, TotalTyped
<1> QED
  BY <1>4, <1>6, <1>10, <1>11, <1>12

\* The total of one leg.
LEMMA TotalOfOne ==
    ASSUME NEW x \in Leg
    PROVE  TotalAmount({x}) = Amount(x)
<1>1. TotalAmount({}) = 0
  BY TotalUnfolds
<1>2. {x} \ {x} = {}
  OBVIOUS
<1>3. TotalAmount({x}) = Amount(x) + TotalAmount({})
  BY <1>2, TotalWithout
<1> QED
  BY <1>1, <1>3, AmountTyped

-----------------------------------------------------------------------------
(* The orders of the matcher.                                              *)

\* What the content of a leg is ordered by.
LEMMA ContentTyped ==
    ASSUME NEW l \in Leg
    PROVE  /\ l \in Nat /\ Amount(l) \in Nat /\ Date(l) \in Nat
           /\ Ref(l) \in Nat /\ Source(l) \in Nat
BY LegAssumption DEF Amount, Date, Ref, Source, LegContent

\* sortLegs is a strict total order.
LEMMA LegOrder ==
    ASSUME NEW k \in Leg, NEW l \in Leg
    PROVE  /\ ~(LegBefore(k, l) /\ LegBefore(l, k))
           /\ k # l => LegBefore(k, l) \/ LegBefore(l, k)
           /\ \A m \in Leg : LegBefore(k, l) /\ LegBefore(l, m) => LegBefore(k, m)
BY ContentTyped DEF LegBefore

\* And so is the order in which subsetSum tries the legs.
LEMMA TriedOrder ==
    ASSUME NEW k \in Leg, NEW l \in Leg
    PROVE  /\ ~(TriedBefore(k, l) /\ TriedBefore(l, k))
           /\ k # l => TriedBefore(k, l) \/ TriedBefore(l, k)
           /\ \A m \in Leg : TriedBefore(k, l) /\ TriedBefore(l, m) => TriedBefore(k, m)
BY ContentTyped, LegOrder DEF TriedBefore

\* At most one leg is first.
LEMMA FirstIsOne ==
    ASSUME NEW S \in SUBSET Leg, NEW k \in First(S), NEW l \in First(S)
    PROVE  k = l
BY LegOrder DEF First

\* Some leg of a set is tried before the others.
LEMMA FirstTried ==
    ASSUME NEW S \in SUBSET Leg, S # {}
    PROVE  \E l \in S : \A k \in S \ {l} : TriedBefore(l, k)
<1> DEFINE HasFirst(D) == \E l \in D : \A k \in D \ {l} : TriedBefore(l, k)
           T == {D \in SUBSET Leg : D # {} /\ ~HasFirst(D)}
<1> SUFFICES ASSUME T # {} PROVE FALSE
  OBVIOUS
<1> HIDE DEF HasFirst
<1>1. T \subseteq SUBSET Leg
  OBVIOUS
<1> HIDE DEF T
<1>2. PICK M \in T : \A R \in T : R \subseteq M => R = M
  BY <1>1, MinimalSet
<1>3. M \in SUBSET Leg /\ M # {} /\ ~HasFirst(M)
  BY DEF T
<1>4. PICK x : x \in M
  BY <1>3
<1>5. PICK D : D = M \ {x}
  OBVIOUS
<1>6. D # {}
  BY <1>3, <1>4, <1>5 DEF HasFirst
<1>7. HasFirst(D)
  BY <1>2, <1>3, <1>4, <1>5, <1>6 DEF T
<1>8. PICK y \in D : \A k \in D \ {y} : TriedBefore(y, k)
  BY <1>7 DEF HasFirst
<1>9. x \in Leg /\ y \in Leg /\ x # y /\ y \in M
  BY <1>3, <1>4, <1>5, <1>8
<1>10. CASE TriedBefore(y, x)
  <2>1. \A k \in M \ {y} : TriedBefore(y, k)
    BY <1>5, <1>8, <1>10
  <2> QED
    BY <1>3, <1>9, <2>1 DEF HasFirst
<1>11. CASE TriedBefore(x, y)
  <2>1. ASSUME NEW k \in M \ {x} PROVE TriedBefore(x, k)
    <3>1. k \in Leg /\ (k = y \/ TriedBefore(y, k))
      BY <1>3, <1>5, <1>8, <2>1
    <3> QED
      BY <1>9, <1>11, <3>1, TriedOrder
  <2> QED
    BY <1>3, <1>4, <2>1 DEF HasFirst
<1> QED
  BY <1>9, <1>10, <1>11, TriedOrder

\* The search does not reach each of two sets before the other.
LEMMA ReachedOnce ==
    ASSUME NEW A \in SUBSET Leg, NEW B \in SUBSET Leg,
           ReachedBefore(A, B), ReachedBefore(B, A)
    PROVE  A = B
<1> SUFFICES ASSUME A # B PROVE FALSE
  OBVIOUS
<1>1. PICK diff : diff = (A \ B) \cup (B \ A)
  OBVIOUS
<1>2. diff = (B \ A) \cup (A \ B) /\ diff \in SUBSET Leg /\ diff # {}
  BY <1>1
<1>3. PICK fork : fork = CHOOSE l \in diff : \A k \in diff \ {l} : TriedBefore(l, k)
  OBVIOUS
<1>4. fork \in diff
  BY <1>2, <1>3, FirstTried
<1> DEFINE later(S) == \E k \in S : TriedBefore(fork, k)
<1>5. IF fork \in A THEN later(B) ELSE ~later(A)
  BY <1>1, <1>3 DEF ReachedBefore
<1>6. IF fork \in B THEN later(A) ELSE ~later(B)
  BY <1>2, <1>3 DEF ReachedBefore
<1>7. (fork \in A /\ fork \notin B) \/ (fork \in B /\ fork \notin A)
  BY <1>1, <1>4
<1> HIDE DEF later
<1> QED
  BY <1>5, <1>6, <1>7

\* What subsetSum returns is a set from its pool, of a size that was asked for,
\* that sums to the target.
LEMMA SubsetSumSums ==
    ASSUME NEW pool \in SUBSET Leg, NEW target, NEW tol, NEW lo, NEW hi,
           SubsetSum(pool, target, tol, lo, hi) # {}
    PROVE  /\ SubsetSum(pool, target, tol, lo, hi) \subseteq pool
           /\ Cardinality(SubsetSum(pool, target, tol, lo, hi)) \in lo..hi
           /\ Distance(TotalAmount(SubsetSum(pool, target, tol, lo, hi)), target) <= tol
<1>1. PICK sums : sums = {S \in SUBSET pool :
                             /\ Cardinality(S) \in lo..hi
                             /\ Distance(TotalAmount(S), target) <= tol}
  OBVIOUS
<1>2. PICK best : best = {S \in sums : \A T \in sums \ {S} : ReachedBefore(S, T)}
  OBVIOUS
<1>3. SubsetSum(pool, target, tol, lo, hi) = UNION best
  BY <1>1, <1>2 DEF SubsetSum
<1>4. PICK S \in best : S # {}
  BY <1>3
<1>5. \A R \in best : R \in sums /\ R \in SUBSET pool
  BY <1>1, <1>2
<1>6. ASSUME NEW R \in best PROVE R = S
  <2> SUFFICES ASSUME R # S PROVE FALSE
    OBVIOUS
  <2>1. R \in SUBSET Leg /\ S \in SUBSET Leg
    BY <1>5
  <2>2. ReachedBefore(R, S) /\ ReachedBefore(S, R)
    BY <1>2, <1>5
  <2> QED
    BY <2>1, <2>2, ReachedOnce
<1>7. UNION best = S
  BY <1>6
<1>8. /\ S \in SUBSET pool /\ Cardinality(S) \in lo..hi
      /\ Distance(TotalAmount(S), target) <= tol
  BY <1>1, <1>5
<1> QED
  BY <1>3, <1>7, <1>8

-----------------------------------------------------------------------------
(* The tiers.                                                              *)

\* The property, said of one match.
MatchSound(m) ==
    \E a \in m.legs :
        LET others == m.legs \ {a}
        IN  /\ others # {}
            /\ \A k, l \in others : Source(k) = Source(l) /\ Source(k) # Source(a)
            /\ \A k \in others : Currency(k) = Currency(a)
            /\ \E l \in m.legs :
                  Distance(TotalAmount(others), Amount(a)) <= Tolerance(Amount(l))
            /\ m.rule # RuleT2Late =>
                  \A k \in others : Key(k) = Key(a) /\ WithinDateWindow(k, a)

\* A leg of one source against the legs of another.
Balances(a, others) ==
    /\ a \in Leg /\ others # {} /\ others \subseteq Leg
    /\ \A k, l \in others : Source(k) = Source(l)
    /\ \A k \in others : /\ Source(k) # Source(a) /\ Key(k) = Key(a)
                         /\ WithinDateWindow(k, a)
    /\ Distance(TotalAmount(others), Amount(a)) <= Tolerance(Amount(a))

LEMMA BalancedIsSound ==
    ASSUME NEW a, NEW others, Balances(a, others), NEW m, m.legs = {a} \cup others
    PROVE  MatchSound(m)
<1>1. m.legs \ {a} = others /\ a \in m.legs
  BY DEF Balances
<1>2. \A k \in others : Currency(k) = Currency(a)
  BY DEF Balances, Key, Currency
<1>3. \A k, l \in others : Source(k) = Source(l) /\ Source(k) # Source(a)
  BY DEF Balances
<1> QED
  BY <1>1, <1>2, <1>3 DEF Balances, MatchSound

\* A tolerance is a number.
LEMMA ToleranceTyped ==
    ASSUME NEW l \in Leg
    PROVE  Tolerance(Amount(l)) \in Nat
<1>1. Amount(l) \in Nat /\ ToleranceBps \in Nat /\ ToleranceAbs \in Nat
  BY ContentTyped, RulesAssumption
<1>2. PICK n \in Nat : n = Amount(l) * ToleranceBps + 5000
  BY <1>1
<1>3. n \div 10000 \in Nat
  OBVIOUS
<1> QED
  BY <1>1, <1>2, <1>3 DEF Tolerance

\* One candidate within tolerance balances the leg.
LEMMA PairBalances ==
    ASSUME NEW l \in Leg, NEW ix \in SUBSET Leg, NEW c \in InWindow(l, Candidates(l, ix)),
           WithinTolerance(Amount(l), Amount(c))
    PROVE  Balances(l, {c})
<1>1. /\ c \in Leg /\ Source(c) # Source(l) /\ Key(c) = Key(l)
      /\ WithinDateWindow(c, l)
  BY DEF InWindow, Candidates
<1>2. Distance(Amount(c), Amount(l)) = Distance(Amount(l), Amount(c))
  BY <1>1, ContentTyped DEF Distance
<1>3. Distance(TotalAmount({c}), Amount(l)) <= Tolerance(Amount(l))
  BY <1>1, <1>2, TotalOfOne DEF WithinTolerance
<1> QED
  BY <1>1, <1>3 DEF Balances

\* Equal amounts are within tolerance.
LEMMA EqualIsWithin ==
    ASSUME NEW l \in Leg, NEW c \in Leg, Amount(c) = Amount(l)
    PROVE  WithinTolerance(Amount(l), Amount(c))
BY ContentTyped, ToleranceTyped DEF WithinTolerance, Distance

LEMMA Tier1Balances ==
    ASSUME NEW l \in Leg, NEW ix \in SUBSET Leg, Tier1(l, ix) # {}
    PROVE  Balances(l, Tier1(l, ix)) /\ \E c : Tier1(l, ix) = {c}
<1>1. PICK S : S = {c \in InWindow(l, CandidatesByRef(l, ix)) : Amount(c) = Amount(l)}
  OBVIOUS
<1>2. S \in SUBSET Leg /\ Tier1(l, ix) = First(S)
  BY <1>1 DEF Tier1, InWindow, CandidatesByRef, Candidates
<1>3. PICK c : c \in First(S)
  BY <1>2
<1>4. First(S) = {c} /\ c \in S
  BY <1>2, <1>3, FirstIsOne DEF First
<1>5. c \in InWindow(l, Candidates(l, ix)) /\ c \in Leg /\ Amount(c) = Amount(l)
  BY <1>1, <1>2, <1>4 DEF InWindow, CandidatesByRef
<1> QED
  BY <1>2, <1>4, <1>5, EqualIsWithin, PairBalances

LEMMA Tier2RefBalances ==
    ASSUME NEW l \in Leg, NEW ix \in SUBSET Leg, Tier2Ref(l, ix) # {}
    PROVE  Balances(l, Tier2Ref(l, ix)) /\ \E c : Tier2Ref(l, ix) = {c}
<1>1. PICK hits : hits = {c \in InWindow(l, CandidatesByRef(l, ix)) :
                             WithinTolerance(Amount(l), Amount(c))}
  OBVIOUS
<1>2. PICK S : S = {c \in hits : \A d \in hits :
                       Distance(Amount(c), Amount(l)) <= Distance(Amount(d), Amount(l))}
  OBVIOUS
<1>3. Tier2Ref(l, ix) = First(S)
  BY <1>1, <1>2 DEF Tier2Ref
<1>4. S \subseteq hits /\ hits \in SUBSET Leg
  BY <1>1, <1>2 DEF InWindow, CandidatesByRef, Candidates
<1>5. PICK c : c \in First(S)
  BY <1>3
<1>6. First(S) = {c} /\ c \in hits
  BY <1>4, <1>5, FirstIsOne DEF First
<1>7. c \in InWindow(l, Candidates(l, ix)) /\ WithinTolerance(Amount(l), Amount(c))
  BY <1>1, <1>6 DEF InWindow, CandidatesByRef
<1> QED
  BY <1>3, <1>6, <1>7, PairBalances

LEMMA Tier2AmountDateBalances ==
    ASSUME NEW l \in Leg, NEW ix \in SUBSET Leg, NEW known,
           Tier2AmountDate(l, ix, known) # {}
    PROVE  /\ Balances(l, Tier2AmountDate(l, ix, known))
           /\ \E c : Tier2AmountDate(l, ix, known) = {c}
<1>1. PICK hits : hits = {c \in InWindow(l, Candidates(l, ix)) : Amount(c) = Amount(l)}
  OBVIOUS
<1>2. \A c \in Tier2AmountDate(l, ix, known) : hits = {c}
  BY <1>1 DEF Tier2AmountDate
<1>3. PICK c : c \in Tier2AmountDate(l, ix, known)
  OBVIOUS
<1>4. Tier2AmountDate(l, ix, known) = {c} /\ c \in hits
  BY <1>2, <1>3
<1>5. c \in InWindow(l, Candidates(l, ix)) /\ c \in Leg /\ Amount(c) = Amount(l)
  BY <1>1, <1>4 DEF InWindow, Candidates
<1> QED
  BY <1>4, <1>5, EqualIsWithin, PairBalances

LEMMA Tier3OneBalances ==
    ASSUME NEW l \in Leg, NEW ix \in SUBSET Leg, Tier3One(l, ix) # {}
    PROVE  /\ Balances(l, Tier3One(l, ix))
           /\ Cardinality(Tier3One(l, ix)) \in 2..T3MaxSubset
<1>1. PICK pool : pool = IF T3RequireBatchHint
                         THEN {c \in InWindow(l, ByBatch(l, SettlementKey(l), ix)) :
                                  Source(c) # Source(l)}
                         ELSE InWindow(l, Candidates(l, ix))
  OBVIOUS
<1>2. \A c \in pool : /\ c \in Leg /\ Source(c) # Source(l) /\ Key(c) = Key(l)
                      /\ WithinDateWindow(c, l)
  BY <1>1 DEF InWindow, ByBatch, Candidates
<1> DEFINE few(src) == Capped({c \in pool : Source(c) = src}, T3MaxCandidates)
           many(src) == SubsetSum(few(src), Amount(l), Tolerance(Amount(l)), 2, T3MaxSubset)
<1>3. PICK sources : sources = {src \in {Source(c) : c \in pool} : many(src) # {}}
  OBVIOUS
<1>4. PICK best : best = {s \in sources : \A o \in sources : s <= o}
  OBVIOUS
<1>5. Tier3One(l, ix) = UNION {many(src) : src \in best}
  BY <1>1, <1>3, <1>4 DEF Tier3One
<1>6. \A src : few(src) \subseteq {c \in pool : Source(c) = src}
  BY DEF Capped
<1>7. \A src \in sources : src \in Nat /\ many(src) # {}
  BY <1>2, <1>3, ContentTyped
<1> HIDE DEF many
<1>8. PICK src : src \in best
  BY <1>5
<1>9. \A s \in best : s = src
  BY <1>4, <1>7, <1>8
<1>10. Tier3One(l, ix) = many(src) /\ many(src) # {}
  BY <1>4, <1>5, <1>7, <1>8, <1>9
<1>11. few(src) \in SUBSET Leg /\ few(src) \subseteq {c \in pool : Source(c) = src}
  BY <1>2, <1>6
<1> HIDE DEF few
<1>12. /\ many(src) \subseteq few(src)
       /\ Cardinality(many(src)) \in 2..T3MaxSubset
       /\ Distance(TotalAmount(many(src)), Amount(l)) <= Tolerance(Amount(l))
  BY <1>10, <1>11, SubsetSumSums DEF many
<1> QED
  BY <1>2, <1>10, <1>11, <1>12 DEF Balances

\* The other way round, the leg that arrives is one of the many.
LEMMA Tier3ManyBalances ==
    ASSUME NEW l \in Leg, NEW ix \in SUBSET Leg, Tier3Many(l, ix) # {}
    PROVE  \E s, others : /\ Balances(s, others)
                           /\ {l} \cup Tier3Many(l, ix) = {s} \cup others
                           /\ Cardinality(others) \in 2..T3MaxSubset
<1>1. PICK settlements :
        settlements = IF T3RequireBatchHint
                      THEN {s \in ix : /\ Source(s) # Source(l)
                                       /\ Key(s) = Key(l)
                                       /\ Batch(l) \in {Ref(s), Batch(s)}}
                      ELSE InWindow(l, Candidates(l, ix))
  OBVIOUS
<1>2. PICK same : same = IF T3RequireBatchHint
                         THEN {o \in ByBatch(l, Batch(l), ix) : Source(o) = Source(l)}
                         ELSE SameSourceInWindow(l, ix)
  OBVIOUS
<1>3. \A s \in settlements : s \in Leg /\ Source(s) # Source(l) /\ Key(s) = Key(l)
  BY <1>1 DEF InWindow, Candidates
<1>4. \A o \in same : o \in Leg /\ o # l /\ Source(o) = Source(l) /\ Key(o) = Key(l)
  BY <1>2 DEF ByBatch, SameSourceInWindow
<1> DEFINE few(s) == Capped({o \in InWindow(s, same) : Amount(o) < Amount(s)},
                            T3MaxCandidates)
           rest(s) == SubsetSum(few(s), Amount(s) - Amount(l), Tolerance(Amount(s)),
                                1, T3MaxSubset - 1)
<1>5. PICK anchors : anchors = {s \in InWindow(l, settlements) :
                                   Amount(s) > Amount(l) /\ rest(s) # {}}
  OBVIOUS
<1>6. Tier3Many(l, ix) = UNION {{s} \cup rest(s) : s \in First(anchors)}
  BY <1>1, <1>2, <1>5 DEF Tier3Many
<1>7. \A s : few(s) \subseteq {o \in same : WithinDateWindow(o, s)}
  BY DEF Capped, InWindow
<1> HIDE DEF rest
<1>8. PICK s : s \in First(anchors)
  BY <1>6
<1>9. anchors \in SUBSET Leg
  BY <1>3, <1>5 DEF InWindow
<1>10. First(anchors) = {s} /\ s \in anchors
  BY <1>8, <1>9, FirstIsOne DEF First
<1>11. Tier3Many(l, ix) = {s} \cup rest(s)
  BY <1>6, <1>10
<1>12. /\ s \in Leg /\ Source(s) # Source(l) /\ Key(s) = Key(l)
       /\ WithinDateWindow(s, l) /\ rest(s) # {}
  BY <1>3, <1>5, <1>10 DEF InWindow
<1>13. few(s) \in SUBSET Leg /\ few(s) \subseteq {o \in same : WithinDateWindow(o, s)}
  BY <1>4, <1>7
<1> HIDE DEF few
<1>14. /\ rest(s) \subseteq few(s)
       /\ Cardinality(rest(s)) \in 1 .. T3MaxSubset - 1
       /\ Distance(TotalAmount(rest(s)), Amount(s) - Amount(l)) <= Tolerance(Amount(s))
  BY <1>12, <1>13, SubsetSumSums DEF rest
<1>15. PICK others : others = {l} \cup rest(s)
  OBVIOUS
<1>16. /\ l \in others /\ others \ {l} = rest(s) /\ others \in SUBSET Leg
       /\ rest(s) \in SUBSET Leg
  BY <1>4, <1>13, <1>14, <1>15
<1>17. TotalAmount(others) = Amount(l) + TotalAmount(rest(s))
  BY <1>16, TotalWithout
<1>18. Distance(TotalAmount(others), Amount(s))
         = Distance(TotalAmount(rest(s)), Amount(s) - Amount(l))
  <2>1. /\ Amount(l) \in Nat /\ Amount(s) \in Nat /\ TotalAmount(rest(s)) \in Nat
    BY <1>12, <1>16, ContentTyped, TotalTyped
  <2> QED
    BY <1>17, <2>1 DEF Distance
<1>19. WithinDateWindow(l, s)
  BY <1>12, ContentTyped DEF WithinDateWindow, Distance
<1>20. \A k \in others : /\ Source(k) = Source(l) /\ Key(k) = Key(s)
                         /\ WithinDateWindow(k, s)
  BY <1>4, <1>12, <1>13, <1>14, <1>15, <1>19
<1>21. Balances(s, others)
  BY <1>12, <1>14, <1>16, <1>18, <1>20 DEF Balances
<1>22. Cardinality(others) \in 2..T3MaxSubset
  <2>1. IsFiniteSet(rest(s)) /\ l \notin rest(s)
    BY <1>4, <1>13, <1>14, <1>16, LegAssumption, FS_Subset
  <2>2. Cardinality(others) = Cardinality(rest(s)) + 1
    <3>1. others = rest(s) \cup {l}
      BY <1>15
    <3> QED
      BY <2>1, <3>1, FS_AddElement
  <2> QED
    BY <1>14, <2>2, RulesAssumption
<1> QED
  BY <1>11, <1>15, <1>21, <1>22

\* Whatever find returns is sound.
LEMMA FoundSound ==
    ASSUME NEW l \in Leg, NEW ix \in SUBSET Leg, NEW known, NEW m \in Find(l, ix, known)
    PROVE  MatchSound(m)
<1>1. PICK S, rule :
        /\ m = [legs |-> {l} \cup S, rule |-> rule] /\ S # {}
        /\ S \in {Tier1(l, ix), Tier2Ref(l, ix), Tier2AmountDate(l, ix, known),
                  Tier3One(l, ix), Tier3Many(l, ix)}
  BY DEF Find
<1>2. m.legs = {l} \cup S
  BY <1>1
<1>3. CASE Balances(l, S)
  BY <1>2, <1>3, BalancedIsSound
<1>4. CASE S = Tier3Many(l, ix)
  BY <1>1, <1>2, <1>4, Tier3ManyBalances, BalancedIsSound
<1> QED
  BY <1>1, <1>3, <1>4, Tier1Balances, Tier2RefBalances,
     Tier2AmountDateBalances, Tier3OneBalances

\* And it is as large as its tier allows.
LEMMA FoundSized ==
    ASSUME NEW l \in Leg, NEW ix \in SUBSET Leg, NEW known, NEW m \in Find(l, ix, known)
    PROVE  /\ IsFiniteSet(m.legs)
           /\ m.rule # RuleT3Subset => Cardinality(m.legs) <= 2
           /\ m.rule = RuleT3Subset => Cardinality(m.legs) <= T3MaxSubset + 1
<1>1. PICK S, rule :
        /\ m = [legs |-> {l} \cup S, rule |-> rule] /\ S # {}
        /\ \/ S = Tier1(l, ix) \/ S = Tier2Ref(l, ix) \/ S = Tier2AmountDate(l, ix, known)
           \/ rule = RuleT3Subset /\ (S = Tier3One(l, ix) \/ S = Tier3Many(l, ix))
  BY DEF Find
<1>2. m.legs = {l} \cup S /\ m.rule = rule
  BY <1>1
<1>a. ASSUME NEW a, NEW others, IsFiniteSet(others), m.legs = {a} \cup others
      PROVE  /\ IsFiniteSet(m.legs) /\ Cardinality(m.legs) \in Nat
             /\ Cardinality(m.legs) <= Cardinality(others) + 1
  <2>1. m.legs = others \cup {a}
    BY <1>a
  <2>2. IsFiniteSet(others \cup {a})
        /\ Cardinality(others \cup {a}) = IF a \in others THEN Cardinality(others)
                                         ELSE Cardinality(others) + 1
    BY <1>a, FS_AddElement
  <2>3. Cardinality(others) \in Nat
    BY <1>a, FS_CardinalityType
  <2> QED
    BY <2>1, <2>2, <2>3
<1>3. CASE \E c : S = {c}
  <2>1. IsFiniteSet(S) /\ Cardinality(S) = 1
    BY <1>3, FS_Singleton
  <2>2. /\ IsFiniteSet(m.legs) /\ Cardinality(m.legs) \in Nat
        /\ Cardinality(m.legs) <= Cardinality(S) + 1
    BY <1>2, <1>a, <2>1
  <2> QED
    BY <2>1, <2>2, RulesAssumption
<1>4. ASSUME rule = RuleT3Subset, NEW a, NEW others, Balances(a, others),
             m.legs = {a} \cup others, Cardinality(others) \in 2..T3MaxSubset
      PROVE  IsFiniteSet(m.legs) /\ Cardinality(m.legs) <= T3MaxSubset + 1
  <2>1. IsFiniteSet(others)
    BY <1>4, LegAssumption, FS_Subset DEF Balances
  <2>2. /\ IsFiniteSet(m.legs) /\ Cardinality(m.legs) \in Nat
        /\ Cardinality(m.legs) <= Cardinality(others) + 1
    BY <1>4, <1>a, <2>1
  <2> QED
    BY <1>4, <2>2, RulesAssumption
<1>5. CASE rule = RuleT3Subset /\ S = Tier3One(l, ix)
  BY <1>1, <1>2, <1>4, <1>5, Tier3OneBalances
<1>6. CASE rule = RuleT3Subset /\ S = Tier3Many(l, ix)
  <2>1. PICK s, others : /\ Balances(s, others) /\ m.legs = {s} \cup others
                         /\ Cardinality(others) \in 2..T3MaxSubset
    BY <1>1, <1>2, <1>6, Tier3ManyBalances
  <2> QED
    BY <1>2, <1>4, <1>6, <2>1
<1> QED
  BY <1>1, <1>3, <1>5, <1>6, Tier1Balances, Tier2RefBalances, Tier2AmountDateBalances

\* A late arrival and the leg it heals are sound: dates and counterparties are
\* not compared.
LEMMA HealedSound ==
    ASSUME NEW l \in Leg, NEW lost, NEW r \in Healable(l, lost)
    PROVE  MatchSound([legs |-> {l, r}, rule |-> RuleT2Late])
<1> DEFINE m == [legs |-> {l, r}, rule |-> RuleT2Late]
<1>1. /\ r \in Leg /\ Source(r) # Source(l) /\ Currency(r) = Currency(l)
      /\ WithinTolerance(Amount(l), Amount(r))
  BY DEF Healable, Related, Stored
<1>2. m.legs = {l, r} /\ m.rule = RuleT2Late /\ m.legs \ {l} = {r}
  BY <1>1
<1>3. Distance(TotalAmount({r}), Amount(l)) <= Tolerance(Amount(l))
  BY <1>1, TotalOfOne, ContentTyped DEF WithinTolerance, Distance
<1> HIDE DEF m
<1>4. MatchSound(m)
  BY <1>1, <1>2, <1>3 DEF MatchSound
<1> QED
  BY <1>4 DEF m

\* Every step leaves sound matches.
LEMMA NextSound ==
    ASSUME TypeOK, ControlOK, MatchesSound, [Next]_vars
    PROVE  MatchesSound'
<1>m. \A m \in matches : MatchSound(m)
  BY DEF MatchesSound, MatchSound
<1>q. ASSUME \A m \in matches' : m \in matches \/ MatchSound(m)
      PROVE  MatchesSound'
  <2>1. \A m \in matches' : MatchSound(m)
    BY <1>m, <1>q
  <2> QED
    BY <2>1 DEF MatchesSound, MatchSound
<1>i. index \in SUBSET Leg
  BY DEF TypeOK
<1>1. ASSUME NEW l \in Leg, NEW t, NEW live, NEW blind, NEW lost, NEW ack,
             IngestOne(l, t, live, blind, lost, ack)
      PROVE  MatchesSound'
  <2>1. PICK found, healable :
          /\ found = Found(l, blind) /\ healable = Healable(l, lost)
          /\ \/ UNCHANGED matches
             \/ MatchOpen(l, t, live, found, ack)
             \/ HealLateArrival(l, t, live, found, healable)
    BY <1>1 DEF IngestOne, DropRedelivery, BreakReusedRef, BreakOpenPartner,
                BreakKnownRef, WaitInWindow, OpenBreak
  <2>2. CASE UNCHANGED matches
    BY <1>q, <2>2
  <2>3. CASE MatchOpen(l, t, live, found, ack)
    <3>1. PICK m \in found : matches' = matches \cup {m}
      BY <2>3 DEF MatchOpen
    <3>2. MatchSound(m)
      BY <1>i, <2>1, FoundSound DEF Found
    <3> QED
      BY <1>q, <3>1, <3>2
  <2>4. CASE HealLateArrival(l, t, live, found, healable)
    <3>1. PICK r \in healable :
            matches' = matches \cup {[legs |-> {l, r}, rule |-> RuleT2Late]}
      BY <2>4 DEF HealLateArrival
    <3>2. MatchSound([legs |-> {l, r}, rule |-> RuleT2Late])
      BY <2>1, HealedSound
    <3> QED
      BY <1>q, <3>1, <3>2
  <2> QED
    BY <2>1, <2>2, <2>3, <2>4
<1>2. ASSUME \A m \in matches' : m \in matches PROVE MatchesSound'
  BY <1>q, <1>2
<1>3. ASSUME \/ \E ack \in BOOLEAN : ExpireStep(ack)
             \/ \E e \in Event, blind \in BOOLEAN : ReapplyResolution(e, blind)
             \/ \E b \in breaks : ResolveBreak(b)
             \/ ReplayReset
             \/ UNCHANGED <<legs, matches, breaks>>
      PROVE  \A m \in matches' : m \in matches
  <2>1. ASSUME NEW e, NEW blind, ReapplyResolution(e, blind) PROVE UNCHANGED matches
    BY <2>1, Zenon DEF ReapplyResolution
  <2> QED
    BY <1>3, <2>1 DEF ExpireStep, OpenBreak, ResolveBreak, ReplayReset
<1> QED
  BY <1>1, <1>2, <1>3, NextWrites DEF Writes

\* Every match there ever is sets one leg against legs of one other source, in
\* its currency, that sum to it within the tolerance; unless it heals a late
\* arrival they also have its counterparty and lie in its date window.  This
\* holds of every tier, the subset sum included, and whatever fails.
THEOREM MatchesAlwaysSound == Spec => []MatchesSound
<1>1. Init => MatchesSound
  BY DEF Init, MatchesSound
<1>2. TypeOK /\ ControlOK /\ MatchesSound /\ [Next]_vars => MatchesSound'
  BY NextSound
<1> QED
  BY <1>1, <1>2, MemoryInvariant, PTL DEF Spec
=============================================================================
