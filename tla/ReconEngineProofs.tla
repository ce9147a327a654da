------------------------- MODULE ReconEngineProofs -------------------------
(***************************************************************************)
(* Proofs about the engine for every set of legs, every rule setting and   *)
(* every bound: its types; that index, legs, matches and breaks tell one   *)
(* story; what a step may never do to a leg or a break; that the event log *)
(* knows every stored leg; that the engine implements LegLedger.           *)
(*                                                                         *)
(* Some hold provided no commit is acknowledged with an error ("ambiguous" *)
(* is not among the faults): the run ambiguous shows that the proviso is   *)
(* needed.                                                                 *)
(***************************************************************************)
EXTENDS ReconEngine, FiniteSetTheorems, TLAPS

-----------------------------------------------------------------------------
(* What the matcher returns.                                               *)

\* Every tier picks from the index it is given.
LEMMA TiersPickFromIndex ==
    ASSUME NEW l, NEW ix, NEW known
    PROVE  /\ Tier1(l, ix) \subseteq ix
           /\ Tier2Ref(l, ix) \subseteq ix
           /\ Tier2AmountDate(l, ix, known) \subseteq ix
           /\ Tier3One(l, ix) \subseteq ix
           /\ Tier3Many(l, ix) \subseteq ix
<1>1. \A S : First(S) \subseteq S
  BY DEF First
<1>2. \A S, n : Capped(S, n) \subseteq S
  BY DEF Capped
<1>3. \A S : InWindow(l, S) \subseteq S
  BY DEF InWindow
<1>4. \A pool, target, tol, lo, hi : SubsetSum(pool, target, tol, lo, hi) \subseteq pool
  BY DEF SubsetSum
<1>5. Candidates(l, ix) \subseteq ix /\ CandidatesByRef(l, ix) \subseteq ix
  BY DEF Candidates, CandidatesByRef
<1>6. SameSourceInWindow(l, ix) \subseteq ix
  BY DEF SameSourceInWindow
<1>7. \A b : ByBatch(l, b, ix) \subseteq ix
  BY DEF ByBatch
<1>8. Tier1(l, ix) \subseteq ix
  BY <1>1, <1>3, <1>5 DEF Tier1
<1>9. Tier2Ref(l, ix) \subseteq ix
  BY <1>1, <1>3, <1>5 DEF Tier2Ref
<1>10. Tier2AmountDate(l, ix, known) \subseteq ix
  BY <1>3, <1>5 DEF Tier2AmountDate
<1>11. Tier3One(l, ix) \subseteq ix
  <2> DEFINE pool == IF T3RequireBatchHint
                     THEN {c \in InWindow(l, ByBatch(l, SettlementKey(l), ix)) :
                              Source(c) # Source(l)}
                     ELSE InWindow(l, Candidates(l, ix))
             many(src) ==
               SubsetSum(Capped({c \in pool : Source(c) = src}, T3MaxCandidates),
                         Amount(l), Tolerance(Amount(l)), 2, T3MaxSubset)
             sources == {src \in {Source(c) : c \in pool} : many(src) # {}}
             least == {s \in sources : \A o \in sources : s <= o}
  <2>1. pool \subseteq ix
    BY <1>3, <1>5, <1>7
  <2>2. \A src : many(src) \subseteq Capped({c \in pool : Source(c) = src}, T3MaxCandidates)
    BY <1>4
  <2>3. \A src : Capped({c \in pool : Source(c) = src}, T3MaxCandidates) \subseteq pool
    BY <1>2
  <2>4. \A src : many(src) \subseteq ix
    BY <2>1, <2>2, <2>3
  <2>5. Tier3One(l, ix) = UNION {many(src) : src \in least}
    BY DEF Tier3One
  <2> HIDE DEF many, least
  <2> QED
    BY <2>4, <2>5
<1>12. Tier3Many(l, ix) \subseteq ix
  <2> DEFINE settlements ==
               IF T3RequireBatchHint
               THEN {s \in ix : /\ Source(s) # Source(l)
                                /\ Key(s) = Key(l)
                                /\ Batch(l) \in {Ref(s), Batch(s)}}
               ELSE InWindow(l, Candidates(l, ix))
             same == IF T3RequireBatchHint
                     THEN {o \in ByBatch(l, Batch(l), ix) : Source(o) = Source(l)}
                     ELSE SameSourceInWindow(l, ix)
             pool(s) == {o \in InWindow(s, same) : Amount(o) < Amount(s)}
             rest(s) ==
               SubsetSum(Capped(pool(s), T3MaxCandidates),
                         Amount(s) - Amount(l), Tolerance(Amount(s)),
                         1, T3MaxSubset - 1)
             anchors == {s \in InWindow(l, settlements) :
                            Amount(s) > Amount(l) /\ rest(s) # {}}
  <2>1. settlements \subseteq ix
    BY <1>3, <1>5
  <2>2. same \subseteq ix
    BY <1>6, <1>7
  <2>3. \A s : pool(s) \subseteq same
    BY DEF InWindow
  <2>4. \A s : rest(s) \subseteq Capped(pool(s), T3MaxCandidates)
    BY <1>4
  <2>5. \A s : Capped(pool(s), T3MaxCandidates) \subseteq pool(s)
    BY <1>2
  <2>6. \A s : rest(s) \subseteq ix
    <3> HIDE DEF rest, pool, same
    <3> QED BY <2>2, <2>3, <2>4, <2>5
  <2>7. First(anchors) \subseteq ix
    <3>1. anchors \subseteq settlements
      BY <1>3
    <3> HIDE DEF anchors, settlements
    <3> QED BY <3>1, <2>1, <1>1
  <2>8. Tier3Many(l, ix) \subseteq UNION {{s} \cup rest(s) : s \in First(anchors)}
    BY DEF Tier3Many
  <2> HIDE DEF rest, anchors
  <2> QED
    BY <2>6, <2>7, <2>8
<1> QED
  BY <1>8, <1>9, <1>10, <1>11, <1>12

\* A match that find returns holds the incoming leg, and otherwise open legs,
\* at least one.
LEMMA FoundMatch ==
    ASSUME NEW l \in Leg, NEW ix \in SUBSET Leg, NEW known,
           NEW m \in Find(l, ix, known)
    PROVE  /\ m \in Match /\ l \in m.legs /\ m.legs \subseteq {l} \cup ix
           /\ m.legs \cap ix # {}
<1> DEFINE tier(rank, S, rule) == [rank |-> rank, legs |-> S, rule |-> rule]
           tiers == {tier(1, Tier1(l, ix), RuleT1Exact),
                     tier(2, Tier2Ref(l, ix), RuleT2Tolerant),
                     tier(3, Tier2AmountDate(l, ix, known), RuleT2AmountDate),
                     tier(4, Tier3One(l, ix), RuleT3Subset),
                     tier(5, Tier3Many(l, ix), RuleT3Subset)}
<1>1. PICK t \in tiers :
         m = [legs |-> {l} \cup t.legs, rule |-> t.rule] /\ t.legs # {}
  BY Zenon DEF Find
<1>2. \A u \in tiers : u.legs \subseteq ix /\ u.rule \in RuleIds
  <2>1. /\ Tier1(l, ix) \subseteq ix
        /\ Tier2Ref(l, ix) \subseteq ix
        /\ Tier2AmountDate(l, ix, known) \subseteq ix
        /\ Tier3One(l, ix) \subseteq ix
        /\ Tier3Many(l, ix) \subseteq ix
    BY TiersPickFromIndex
  <2> QED
    BY <2>1, SMT DEF RuleIds
<1> HIDE DEF tiers
<1> QED
  BY <1>1, <1>2 DEF Match

-----------------------------------------------------------------------------
(* Type correctness.                                                       *)

\* The part of TypeOK about the store and the index.
StoreTyped ==
    /\ legs \in [Leg -> LegState]
    /\ matches \subseteq Match
    /\ breaks \subseteq Break
    /\ log \in Seq(Event)
    /\ index \subseteq Leg

\* An operation has something to work on: a batch is not exhausted, and a
\* replay reads events that are in the log.
ControlOK ==
    /\ op = "ingest" => todo # <<>>
    /\ op \in {"reset", "replay"} => cursor # 0 /\ through <= Len(log)
    /\ op = "replay" => cursor <= through

\* Events have their type.
LEMMA EventTypesOK ==
    ASSUME NEW S \in SUBSET Leg, NEW m \in SUBSET Leg, NEW l \in Leg,
           NEW t \in Nat, NEW live \in BOOLEAN
    PROVE  /\ \A type \in EventTypes : Ev(type, S) \in Event
           /\ IngestedEv(l, t) \in Event
           /\ ResolvedEv(S, m) \in Event
           /\ Announce(l, t, live) \in Seq(Event)
<1>1. \A type \in EventTypes : Ev(type, S) \in Event
  BY DEF Ev, Event
<1>2. IngestedEv(l, t) \in Event
  BY DEF IngestedEv, Ev, Event, EventTypes
<1>3. ResolvedEv(S, m) \in Event
  BY DEF ResolvedEv, Ev, Event, EventTypes
<1>4. Announce(l, t, live) \in Seq(Event)
  BY <1>2 DEF Announce
<1> QED
  BY <1>1, <1>2, <1>3, <1>4

\* Setting legs keeps their type.
LEMMA SetLegsTyped ==
    ASSUME legs \in [Leg -> LegState],
           NEW S \in SUBSET Leg, NEW status \in Statuses,
           NEW m \in SUBSET Leg, NEW b \in SUBSET Leg,
           NEW l \in Leg, NEW t \in Nat, SetLegs(S, status, m, b, l, t)
    PROVE  legs' \in [Leg -> LegState]
BY DEF SetLegs, IngestedAt, LegState

\* The classifier answers with one of its categories.
LEMMA LabelTyped ==
    ASSUME NEW l, NEW partners, NEW trigger
    PROVE  Label(l, partners, trigger) \in Categories
<1>1. \A p, q : PairLabel(p, q) \in Categories
  BY DEF PairLabel, Categories
<1> QED
  BY <1>1 DEF Label, Classify, Categories

\* A break transaction keeps the types and appends to the log.
LEMMA OpenBreakTyped ==
    ASSUME StoreTyped, now \in Nat, NEW S \in SUBSET Leg, NEW trigger \in Triggers,
           NEW l \in Leg, NEW t \in Nat, NEW before \in Seq(Event),
           OpenBreak(S, trigger, l, t, before), index' \subseteq Leg
    PROVE  StoreTyped' /\ Len(log) <= Len(log')
<1>1. legs' \in [Leg -> LegState]
  BY SetLegsTyped DEF StoreTyped, OpenBreak, Statuses
<1>2. matches' \subseteq Match
  BY DEF StoreTyped, OpenBreak
<1>3. breaks' \subseteq Break
  <2> DEFINE category == Label(l, S \ {l}, trigger)
  <2>1. category \in Categories
    BY LabelTyped
  <2>2. PutBreak(NewBreak(S, trigger, category))
    BY DEF OpenBreak
  <2> HIDE DEF category
  <2>3. NewBreak(S, trigger, category) \in Break
    BY <2>1 DEF NewBreak, Break, Actors
  <2> QED
    BY <2>2, <2>3 DEF StoreTyped, PutBreak
<1>4. Ev("break.opened", S) \in Event
  BY DEF Ev, Event, EventTypes
<1>5. log' \in Seq(Event) /\ Len(log) <= Len(log')
  BY <1>4 DEF StoreTyped, OpenBreak
<1> QED
  BY <1>1, <1>2, <1>3, <1>5 DEF StoreTyped

\* Every outcome of ingestOne keeps the types and only appends to the log.
LEMMA IngestOneTyped ==
    ASSUME StoreTyped, now \in Nat, NEW l \in Leg, NEW t \in Nat, NEW live \in BOOLEAN,
           NEW blind \in BOOLEAN, NEW lost, NEW ack \in BOOLEAN,
           IngestOne(l, t, live, blind, lost, ack)
    PROVE  StoreTyped' /\ Len(log) <= Len(log')
<1>0. PICK found, healable :
        \/ DropRedelivery(l, live)
        \/ BreakReusedRef(l, t, live)
        \/ /\ Fresh(l) /\ found = Found(l, blind) /\ healable = Healable(l, lost)
           /\ \/ MatchOpen(l, t, live, found, ack)
              \/ BreakOpenPartner(l, t, live, found, ack)
              \/ HealLateArrival(l, t, live, found, healable)
              \/ BreakKnownRef(l, t, live, found, healable)
              \/ WaitInWindow(l, t, live, found, ack)
  BY Zenon DEF IngestOne
<1>a. Announce(l, t, live) \in Seq(Event)
  BY EventTypesOK
<1>i. \A ix : ix \subseteq Leg /\ Reindex(ix, ack) => index' \subseteq Leg
  BY DEF Reindex, StoreTyped
<1>1. CASE DropRedelivery(l, live)
  <2>1. Ev("leg.duplicate", {l}) \in Event
    BY DEF Ev, Event, EventTypes
  <2> QED
    BY <1>1, <2>1 DEF DropRedelivery, StoreTyped
<1>2. CASE BreakReusedRef(l, t, live)
  BY <1>2, <1>a, OpenBreakTyped DEF BreakReusedRef, StoreTyped, Triggers
<1>3. CASE found = Found(l, blind) /\ MatchOpen(l, t, live, found, ack)
  <2>1. PICK m \in found :
           /\ SetLegs(m.legs, "matched", m.legs, {}, l, t)
           /\ matches' = matches \cup {m}
           /\ log' = log \o Announce(l, t, live) \o <<Ev("match.created", m.legs)>>
           /\ Reindex(index \ m.legs, ack)
    BY <1>3 DEF MatchOpen
  <2>2. m \in Match /\ m.legs \subseteq Leg
    BY <1>3, FoundMatch DEF Found, StoreTyped
  <2>3. legs' \in [Leg -> LegState]
    BY <2>1, <2>2, SetLegsTyped DEF StoreTyped, Statuses
  <2>4. Ev("match.created", m.legs) \in Event
    BY <2>2 DEF Ev, Event, EventTypes
  <2>5. log' \in Seq(Event) /\ Len(log) <= Len(log')
    BY <1>a, <2>1, <2>4 DEF StoreTyped
  <2>6. breaks' = breaks
    BY <1>3 DEF MatchOpen
  <2>7. index' \subseteq Leg
    BY <1>i, <2>1 DEF StoreTyped
  <2> QED
    BY <2>1, <2>2, <2>3, <2>5, <2>6, <2>7 DEF StoreTyped
<1>4. CASE BreakOpenPartner(l, t, live, found, ack)
  <2> DEFINE partners == ByRef(l, index)
  <2>1. partners \subseteq index
    BY DEF ByRef
  <2>2. /\ OpenBreak({l} \cup partners, "ref_conflict", l, t, Announce(l, t, live))
        /\ Reindex(index \ partners, ack)
    BY <1>4 DEF BreakOpenPartner
  <2>3. index' \subseteq Leg /\ {l} \cup partners \subseteq Leg
    BY <1>i, <2>1, <2>2 DEF StoreTyped
  <2> QED
    BY <1>a, <2>2, <2>3, OpenBreakTyped DEF Triggers
<1>5. CASE healable = Healable(l, lost) /\ HealLateArrival(l, t, live, found, healable)
  <2>1. PICK r \in Healable(l, lost) :
          LET pair == {l, r}
              b == CHOOSE b \in breaks : b.legs = legs[r].brk
          IN  /\ SetLegs(pair, "matched", pair, {}, l, t)
              /\ matches' = matches \cup {[legs |-> pair, rule |-> RuleT2Late]}
              /\ PutBreak([b EXCEPT !.status = "resolved", !.actor = "system"])
              /\ log' = log \o Announce(l, t, live)
                            \o <<Ev("match.created", pair),
                                 ResolvedEv(b.legs, pair)>>
    BY <1>5 DEF HealLateArrival
  <2> DEFINE b == CHOOSE b \in breaks : b.legs = legs[r].brk
  <2>2. r \in Leg /\ \E c \in breaks : c.legs = legs[r].brk
    BY DEF Healable, Related, Stored
  <2>3. b \in breaks
    BY <2>2
  <2> HIDE DEF b
  <2>4. b \in Break /\ b.legs \subseteq Leg
    BY <2>3 DEF StoreTyped, Break
  <2>5. {l, r} \subseteq Leg
    BY <2>2
  <2>6. legs' \in [Leg -> LegState]
    BY <2>1, <2>5, SetLegsTyped DEF StoreTyped, Statuses
  <2>7. matches' \subseteq Match
    BY <2>1, <2>5 DEF StoreTyped, Match, RuleIds
  <2>8. breaks' \subseteq Break
    <3>1. PutBreak([b EXCEPT !.status = "resolved", !.actor = "system"])
      BY <2>1 DEF b
    <3>2. [b EXCEPT !.status = "resolved", !.actor = "system"] \in Break
      BY <2>4 DEF Break, Actors
    <3> QED
      BY <3>1, <3>2 DEF StoreTyped, PutBreak
  <2>9. log' \in Seq(Event) /\ Len(log) <= Len(log')
    <3>1. log' = log \o Announce(l, t, live)
                     \o <<Ev("match.created", {l, r}), ResolvedEv(b.legs, {l, r})>>
      BY <2>1 DEF b
    <3>2. Ev("match.created", {l, r}) \in Event
      BY <2>5 DEF Ev, Event, EventTypes
    <3>3. ResolvedEv(b.legs, {l, r}) \in Event
      BY <2>4, <2>5 DEF ResolvedEv, Ev, Event, EventTypes
    <3> QED
      BY <1>a, <3>1, <3>2, <3>3 DEF StoreTyped
  <2>10. index' \subseteq Leg
    BY <1>5 DEF HealLateArrival, StoreTyped
  <2> QED
    BY <2>6, <2>7, <2>8, <2>9, <2>10 DEF StoreTyped
<1>6. CASE BreakKnownRef(l, t, live, found, healable)
  BY <1>6, <1>a, OpenBreakTyped DEF BreakKnownRef, StoreTyped, Triggers
<1>7. CASE WaitInWindow(l, t, live, found, ack)
  <2>1. legs' \in [Leg -> LegState]
    BY <1>7, SetLegsTyped DEF WaitInWindow, StoreTyped, Statuses
  <2>2. log' \in Seq(Event) /\ Len(log) <= Len(log')
    BY <1>7, <1>a DEF WaitInWindow, StoreTyped
  <2>3. index' \subseteq Leg
    BY <1>7, <1>i DEF WaitInWindow, StoreTyped
  <2> QED
    BY <1>7, <2>1, <2>2, <2>3 DEF WaitInWindow, StoreTyped
<1> QED
  BY <1>0, <1>1, <1>2, <1>3, <1>4, <1>5, <1>6, <1>7

\* Every step of the engine keeps the types and the control invariant.
LEMMA NextTyped ==
    ASSUME TypeOK, ControlOK, [Next]_vars
    PROVE  TypeOK' /\ ControlOK'
<1> USE EngineAssumption
<1>s. StoreTyped
  BY DEF TypeOK, StoreTyped
<1>f. /\ \A blind, lost, ack : Suffer(blind, lost, ack) => faults' \in Nat
      /\ \A kind : Strike(kind) => faults' \in Nat
  <2>1. \A kinds \in SUBSET {"lookup", "ambiguous"} : Cardinality(kinds) \in Nat
    <3>1. IsFiniteSet({"lookup", "ambiguous"})
      <4>1. IsFiniteSet({"lookup"}) /\ IsFiniteSet({"ambiguous"})
        BY FS_Singleton
      <4>2. {"lookup"} \cup {"ambiguous"} = {"lookup", "ambiguous"}
        OBVIOUS
      <4>3. IsFiniteSet({"lookup"} \cup {"ambiguous"})
        BY <4>1, FS_Union, Zenon
      <4> QED
        BY <4>2, <4>3, Zenon
    <3> QED
      BY <3>1, FS_Subset, FS_CardinalityType
  <2>2. \A blind, lost, ack : Suffer(blind, lost, ack) => faults' \in Nat
    BY <2>1 DEF Suffer, TypeOK
  <2> QED
    BY <2>2 DEF Strike, TypeOK
<1>r. ASSUME NEW next \in {"idle", "down"}, Release(next), StoreTyped',
             now' \in Nat, faults' \in Nat
      PROVE  TypeOK' /\ ControlOK'
  BY <1>r DEF Release, TypeOK, StoreTyped, ControlOK, Operations
<1>1. ASSUME NEW batch \in Batches, Ingest(batch)
      PROVE  TypeOK' /\ ControlOK'
  <2>1. batch \in Seq(Arrival)
    <3>1. PICK n \in 1..MaxBatch : batch \in [1..n -> Arrivals]
      BY DEF Batches
    <3>2. Arrivals \subseteq Arrival
      BY DEF Arrivals, Arrival, TypeOK
    <3> QED
      BY <3>1, <3>2
  <2> QED
    BY <1>1, <2>1 DEF Ingest, TypeOK, ControlOK, Operations, store
<1>2. ASSUME NEW ack \in BOOLEAN, IngestStep(ack)
      PROVE  TypeOK' /\ ControlOK'
  <2>1. todo # <<>> /\ Head(todo) \in Arrival /\ Tail(todo) \in Seq(Arrival)
    BY <1>2 DEF IngestStep, TypeOK, ControlOK
  <2> DEFINE a == Head(todo)
  <2>2. PICK blind \in BOOLEAN, lost \in SUBSET Related(a.leg) :
          /\ Suffer(blind, lost, ack)
          /\ IngestOne(a.leg, a.at, TRUE, blind, lost, ack)
          /\ IF ack /\ Len(todo) > 1
             THEN /\ todo' = Tail(todo)
                  /\ UNCHANGED <<op, due, cursor, through>>
             ELSE Release("idle")
    BY <1>2 DEF IngestStep
  <2>3. a.leg \in Leg /\ a.at \in Nat
    BY <2>1 DEF Arrival
  <2> HIDE DEF a
  <2>4. StoreTyped' /\ faults' \in Nat /\ now' \in Nat
    <3>1. now \in Nat /\ now' = now
      BY <1>2 DEF IngestStep, TypeOK
    <3>2. StoreTyped'
      BY <1>s, <2>2, <2>3, <3>1, IngestOneTyped
    <3>3. faults' \in Nat
      BY <1>f, <2>2
    <3> QED
      BY <3>1, <3>2, <3>3
  <2>5. CASE ack /\ Len(todo) > 1
    <3>1. Tail(todo) # <<>>
      <4>1. todo \in Seq(Arrival) /\ Len(Tail(todo)) = Len(todo) - 1
        BY <2>1 DEF TypeOK
      <4>2. Len(todo) > 1 /\ Len(todo) \in Nat
        BY <2>5, <4>1
      <4>3. \A n \in Nat : n > 1 => n - 1 # 0
        OBVIOUS
      <4>4. Len(<<>>) = 0
        OBVIOUS
      <4> QED
        BY <4>1, <4>2, <4>3, <4>4, Zenon
    <3> QED
      BY <1>2, <2>1, <2>2, <2>4, <2>5, <3>1
      DEF IngestStep, TypeOK, ControlOK, StoreTyped, Operations
  <2>6. CASE ~(ack /\ Len(todo) > 1)
    BY <1>r, <2>2, <2>4, <2>6
  <2> QED
    BY <2>5, <2>6
<1>3. ASSUME NEW kind \in {"sweep", "close"}, NEW age \in Nat, Expire(kind, age)
      PROVE  TypeOK' /\ ControlOK'
  BY <1>3 DEF Expire, Expired, TypeOK, ControlOK, Operations, store
<1>4. CASE Sweep
  BY <1>3, <1>4 DEF Sweep
<1>5. CASE CloseWindow
  BY <1>3, <1>5 DEF CloseWindow
<1>6. ASSUME NEW ack \in BOOLEAN, ExpireStep(ack)
      PROVE  TypeOK' /\ ControlOK'
  <2>1. PICK l \in First(due) :
          /\ OpenBreak({l}, "window_expired", l, legs[l].at,
                       <<Ev("leg.expired", {l})>>)
          /\ Reindex(index \ {l}, ack)
          /\ IF ack /\ (op = "close" \/ due # {l})
             THEN due' = due \ {l} /\ UNCHANGED <<op, todo, cursor, through>>
             ELSE Release("idle")
    BY <1>6 DEF ExpireStep
  <2>2. l \in Leg /\ legs[l].at \in Nat
    BY DEF First, TypeOK, LegState
  <2>3. <<Ev("leg.expired", {l})>> \in Seq(Event)
    BY <2>2 DEF Ev, Event, EventTypes
  <2>4. index' \subseteq Leg
    BY <2>1 DEF Reindex, TypeOK
  <2>5. StoreTyped'
    BY <1>s, <2>1, <2>2, <2>3, <2>4, OpenBreakTyped DEF Triggers, TypeOK
  <2>6. faults' \in Nat /\ now' \in Nat
    BY <1>6, <1>f DEF ExpireStep, TypeOK
  <2>7. CASE ack /\ (op = "close" \/ due # {l})
    BY <1>6, <2>1, <2>5, <2>6, <2>7
    DEF ExpireStep, TypeOK, ControlOK, StoreTyped, Operations
  <2>8. CASE ~(ack /\ (op = "close" \/ due # {l}))
    BY <1>r, <2>1, <2>5, <2>6, <2>8
  <2> QED
    BY <2>7, <2>8
<1>7. CASE WindowClosed
  <2>1. Ev("window.closed", {}) \in Event
    BY DEF Ev, Event, EventTypes
  <2> QED
    BY <1>7, <1>r, <2>1 DEF WindowClosed, TypeOK, StoreTyped
<1>8. ASSUME NEW b \in breaks, ResolveBreak(b)
      PROVE  TypeOK' /\ ControlOK'
  <2>1. b \in Break /\ b.legs \subseteq Leg
    BY DEF TypeOK, Break
  <2>2. ResolvedEv(b.legs, {}) \in Event
    BY <2>1 DEF ResolvedEv, Ev, Event, EventTypes
  <2>3. [b EXCEPT !.status = "resolved", !.actor = "operator"] \in Break
    BY <2>1 DEF Break, Actors
  <2>4. breaks' \subseteq Break
    BY <1>8, <2>3 DEF ResolveBreak, PutBreak, TypeOK
  <2> QED
    BY <1>8, <2>2, <2>4 DEF ResolveBreak, TypeOK, ControlOK, control
<1>9. ASSUME NEW from \in ReplayFrom, Replay(from)
      PROVE  TypeOK' /\ ControlOK'
  <2>1. Ev("replay.started", {}) \in Event
    BY DEF Ev, Event, EventTypes
  <2>2. from \in Nat \ {0}
    OBVIOUS
  <2> QED
    BY <1>9, <2>1, <2>2 DEF Replay, TypeOK, ControlOK, Operations
<1>10. CASE ReplayReset
  <2>1. StoreTyped' /\ now' \in Nat /\ faults' \in Nat
    BY <1>10 DEF ReplayReset, TypeOK, StoreTyped, Absent, LegState, Statuses
  <2>2. CASE cursor <= through
    BY <1>10, <2>1, <2>2
    DEF ReplayReset, TypeOK, StoreTyped, ControlOK, Operations
  <2>3. CASE ~(cursor <= through)
    BY <1>10, <1>r, <2>1, <2>3 DEF ReplayReset
  <2> QED
    BY <2>2, <2>3
<1>11. ASSUME NEW ack \in BOOLEAN, ReplayStep(ack)
       PROVE  TypeOK' /\ ControlOK'
  <2> DEFINE e == log[cursor]
  <2>1. cursor \in 1..Len(log) /\ e \in Event
    BY <1>11 DEF ReplayStep, TypeOK, ControlOK
  <2>2. PICK blind \in BOOLEAN,
             lost \in SUBSET UNION {Related(l) : l \in e.legs} :
          /\ Suffer(blind, lost, ack)
          /\ \/ /\ e.type = "leg.ingested"
                /\ \E l \in e.legs : IngestOne(l, e.at, FALSE, blind, lost, ack)
             \/ /\ e.type = "break.resolved"
                /\ ReapplyResolution(e, blind)
             \/ /\ e.type \notin {"leg.ingested", "break.resolved"}
                /\ UNCHANGED <<store, index>>
          /\ IF ack /\ cursor < through
             THEN cursor' = cursor + 1 /\ UNCHANGED <<op, todo, due, through>>
             ELSE Release("idle")
    BY <1>11 DEF ReplayStep
  <2>3. e.legs \subseteq Leg /\ e.at \in Nat
    BY <2>1 DEF Event
  <2> HIDE DEF e
  <2>4. StoreTyped' /\ Len(log) <= Len(log')
    <3>1. CASE \E l \in e.legs : IngestOne(l, e.at, FALSE, blind, lost, ack)
      BY <1>s, <2>3, <3>1, IngestOneTyped DEF TypeOK
    <3>2. CASE ReapplyResolution(e, blind)
      <4>1. \A b \in breaks :
              [b EXCEPT !.status = "resolved", !.actor = "operator"] \in Break
        BY DEF TypeOK, Break, Actors
      <4>2. breaks' \subseteq Break
        BY <3>2, <4>1, Zenon DEF ReapplyResolution, TypeOK
      <4>3. UNCHANGED <<legs, matches, log, index>>
        BY <3>2, Zenon DEF ReapplyResolution
      <4> QED
        BY <4>2, <4>3 DEF TypeOK, StoreTyped
    <3>3. CASE UNCHANGED <<store, index>>
      BY <3>3 DEF TypeOK, StoreTyped, store
    <3> QED
      BY <2>2, <3>1, <3>2, <3>3
  <2>5. faults' \in Nat /\ now' \in Nat
    BY <1>11, <1>f, <2>2 DEF ReplayStep, TypeOK
  <2>6. CASE ack /\ cursor < through
    <3>1. cursor' = cursor + 1 /\ UNCHANGED <<op, todo, due, through>>
      BY <2>2, <2>6
    <3> QED
      BY <1>11, <2>1, <2>4, <2>5, <2>6, <3>1
      DEF ReplayStep, TypeOK, StoreTyped, ControlOK
  <2>7. CASE ~(ack /\ cursor < through)
    BY <1>r, <2>2, <2>4, <2>5, <2>7
  <2> QED
    BY <2>6, <2>7
<1>12. CASE Abort
  BY <1>12, <1>f, <1>r DEF Abort, TypeOK, StoreTyped, store
<1>13. CASE Crash
  BY <1>13, <1>f, <1>r DEF Crash, TypeOK, StoreTyped, store
<1>14. CASE Rebuild
  BY <1>14 DEF Rebuild, OpenLegs, TypeOK, ControlOK, store
<1>15. CASE Tick
  BY <1>15 DEF Tick, TypeOK, ControlOK, store, control
<1>16. CASE UNCHANGED vars
  BY <1>16 DEF vars, TypeOK, ControlOK
<1> QED
  BY <1>1, <1>2, <1>4, <1>5, <1>6, <1>7, <1>8, <1>9, <1>10, <1>11, <1>12,
     <1>13, <1>14, <1>15, <1>16 DEF Next

\* Every variable always has its type, whatever fails: in particular a replay
\* only reads events the log holds and a failed break lookup never makes the
\* engine resolve a break that is not there.
THEOREM TypeCorrect == Spec => []TypeOK
<1>1. Init => TypeOK /\ ControlOK
  BY DEF Init, TypeOK, ControlOK, Absent, LegState, Statuses, Operations
<1>2. TypeOK /\ ControlOK /\ [Next]_vars => (TypeOK /\ ControlOK)'
  BY NextTyped
<1> QED
  BY <1>1, <1>2, PTL DEF Spec

-----------------------------------------------------------------------------
(* Agreement.                                                              *)


\* Only a resolved break names who resolved it.
OpenBreaksUnattributed == \A b \in breaks : b.status = "open" => b.actor = "none"

\* What is left to expire is still in the index.
DueIsOpen == op \in {"sweep", "close"} => due \subseteq index

\* The part of the inductive invariant about the store.
StoreAgrees ==
    /\ MatchesAgree
    /\ NeverDoubleCounted
    /\ BreaksAgree
    /\ OpenBreaksUnattributed

\* The inductive invariant.
Agreement ==
    /\ TypeOK
    /\ ControlOK
    /\ StoreAgrees
    /\ IndexMirrorsStore
    /\ DueIsOpen

-----------------------------------------------------------------------------
(* Change sets.                                                            *)

\* What the upsert of a set of legs does to each leg.
LEMMA SetLegsEffect ==
    ASSUME NEW S, NEW status, NEW m, NEW b, NEW l, NEW t,
           SetLegs(S, status, m, b, l, t)
    PROVE  \A x \in Leg :
              /\ x \in S => /\ legs'[x].status = status
                            /\ legs'[x].match = m
                            /\ legs'[x].brk = b
              /\ x \notin S => legs'[x] = legs[x]
BY DEF SetLegs

\* Upserting legs as anything but open takes them out of the open legs.
LEMMA SetLegsCloses ==
    ASSUME NEW S, NEW status, NEW m, NEW b, NEW l, NEW t,
           SetLegs(S, status, m, b, l, t), status # "open"
    PROVE  OpenLegs' = OpenLegs \ S
BY SetLegsEffect DEF OpenLegs

\* Matching legs that are in no match.
LEMMA MatchAgrees ==
    ASSUME StoreTyped, MatchesAgree, NeverDoubleCounted,
           NEW m \in Match, NEW l, NEW t,
           \A x \in m.legs : legs[x].status # "matched",
           SetLegs(m.legs, "matched", m.legs, {}, l, t),
           matches' = matches \cup {m}
    PROVE  MatchesAgree' /\ NeverDoubleCounted'
<1>1. m.legs \subseteq Leg /\ \A n \in matches : n.legs \subseteq Leg
  BY DEF Match, StoreTyped
<1>2. \A x \in Leg :
         /\ x \in m.legs => legs'[x].status = "matched" /\ legs'[x].match = m.legs
         /\ x \notin m.legs => legs'[x] = legs[x]
  BY SetLegsEffect
<1>3. \A n \in matches : n.legs \cap m.legs = {}
  BY DEF MatchesAgree
<1>4. \A n \in matches' : \A x \in n.legs :
         legs'[x].status = "matched" /\ legs'[x].match = n.legs
  BY <1>1, <1>2, <1>3 DEF MatchesAgree
<1>5. \A x \in Leg : legs'[x].status = "matched" =>
         \E n \in matches' : x \in n.legs /\ n.legs = legs'[x].match
  <2> SUFFICES ASSUME NEW x \in Leg, legs'[x].status = "matched"
               PROVE  \E n \in matches' : x \in n.legs /\ n.legs = legs'[x].match
    OBVIOUS
  <2>1. CASE x \in m.legs
    BY <1>2, <2>1
  <2>2. CASE x \notin m.legs
    BY <1>2, <2>2 DEF MatchesAgree
  <2> QED
    BY <2>1, <2>2
<1>6. NeverDoubleCounted'
  BY <1>3 DEF NeverDoubleCounted
<1> QED
  BY <1>4, <1>5, <1>6 DEF MatchesAgree

\* Breaking legs that are in no match and no break.
LEMMA OpenBreakAgrees ==
    ASSUME StoreTyped, StoreAgrees,
           NEW S \in SUBSET Leg, S # {}, NEW trigger, NEW l, NEW t, NEW before,
           \A x \in S : legs[x].status \notin {"matched", "break"},
           OpenBreak(S, trigger, l, t, before)
    PROVE  StoreAgrees' /\ OpenLegs' = OpenLegs \ S
<1> DEFINE b == NewBreak(S, trigger, Label(l, S \ {l}, trigger))
<1>b. b.legs = S /\ b.status = "open" /\ b.actor = "none"
  BY DEF NewBreak
<1>1. \A x \in Leg :
         /\ x \in S => legs'[x].status = "break" /\ legs'[x].brk = S
         /\ x \notin S => legs'[x] = legs[x]
  BY SetLegsEffect DEF OpenBreak
<1>2. matches' = matches /\ breaks' = {c \in breaks : c.legs # b.legs} \cup {b}
  BY DEF OpenBreak, PutBreak
<1> HIDE DEF b
<1>3. OpenLegs' = OpenLegs \ S
  BY SetLegsCloses DEF OpenBreak
<1>4. /\ \A n \in matches : n.legs \subseteq Leg
      /\ \A c \in breaks : c.legs \subseteq Leg
  BY DEF StoreTyped, Match, Break
<1>5. MatchesAgree'
  <2>1. \A n \in matches' : \A x \in n.legs :
           legs'[x].status = "matched" /\ legs'[x].match = n.legs
    BY <1>1, <1>2, <1>4 DEF StoreAgrees, MatchesAgree
  <2>2. \A x \in Leg : legs'[x].status = "matched" =>
           \E n \in matches' : x \in n.legs /\ n.legs = legs'[x].match
    BY <1>1, <1>2 DEF StoreAgrees, MatchesAgree
  <2> QED
    BY <2>1, <2>2 DEF MatchesAgree
<1>6. NeverDoubleCounted'
  BY <1>2 DEF StoreAgrees, NeverDoubleCounted
<1>7. \A c \in breaks : c.legs \cap S = {}
  BY DEF StoreAgrees, BreaksAgree
<1>8. BreaksAgree'
  <2>1. \A x \in Leg : legs'[x].status = "break" =>
           \E c \in breaks' : x \in c.legs /\ c.legs = legs'[x].brk
    <3> SUFFICES ASSUME NEW x \in Leg, legs'[x].status = "break"
                 PROVE  \E c \in breaks' : x \in c.legs /\ c.legs = legs'[x].brk
      OBVIOUS
    <3>1. CASE x \in S
      BY <1>b, <1>1, <1>2, <3>1
    <3>2. CASE x \notin S
      <4>1. PICK c \in breaks : x \in c.legs /\ c.legs = legs[x].brk
        BY <1>1, <3>2 DEF StoreAgrees, BreaksAgree
      <4>2. c \in breaks'
        BY <1>b, <1>2, <3>2, <4>1
      <4> QED
        BY <1>1, <3>2, <4>1, <4>2
    <3> QED
      BY <3>1, <3>2
  <2>2. \A c \in breaks' : \A x \in c.legs :
           IF c.actor = "system"
           THEN legs'[x].status = "matched"
           ELSE legs'[x].status = "break" /\ legs'[x].brk = c.legs
    <3> SUFFICES ASSUME NEW c \in breaks', NEW x \in c.legs
                 PROVE  IF c.actor = "system"
                        THEN legs'[x].status = "matched"
                        ELSE legs'[x].status = "break" /\ legs'[x].brk = c.legs
      OBVIOUS
    <3>1. CASE c = b
      BY <1>b, <1>1, <3>1
    <3>2. CASE c \in breaks
      <4>1. x \in Leg /\ x \notin S
        BY <1>4, <1>7, <3>2
      <4> QED
        BY <1>1, <3>2, <4>1 DEF StoreAgrees, BreaksAgree
    <3> QED
      BY <1>2, <3>1, <3>2
  <2> QED
    BY <2>1, <2>2 DEF BreaksAgree
<1>9. OpenBreaksUnattributed'
  BY <1>b, <1>2 DEF StoreAgrees, OpenBreaksUnattributed
<1> QED
  BY <1>3, <1>5, <1>6, <1>8, <1>9 DEF StoreAgrees

\* Resolving an open break in the name of an operator; its legs stay in it.
LEMMA ResolveAgrees ==
    ASSUME StoreTyped, StoreAgrees, NEW b \in breaks, b.status = "open",
           NEW actor, actor # "system",
           PutBreak([b EXCEPT !.status = "resolved", !.actor = actor]),
           UNCHANGED <<legs, matches>>
    PROVE  StoreAgrees'
<1> DEFINE r == [b EXCEPT !.status = "resolved", !.actor = actor]
<1>1. r.legs = b.legs /\ r.status = "resolved" /\ r.actor = actor
  BY DEF StoreTyped, Break
<1>2. breaks' = {c \in breaks : c.legs # r.legs} \cup {r}
  BY DEF PutBreak
<1> HIDE DEF r
<1>3. b.actor # "system"
  BY DEF StoreAgrees, OpenBreaksUnattributed
<1>4. MatchesAgree' /\ NeverDoubleCounted'
  BY DEF StoreAgrees, MatchesAgree, NeverDoubleCounted
<1>5. \A x \in Leg : legs[x].status = "break" =>
         \E c \in breaks' : x \in c.legs /\ c.legs = legs[x].brk
  <2> SUFFICES ASSUME NEW x \in Leg, legs[x].status = "break"
               PROVE  \E c \in breaks' : x \in c.legs /\ c.legs = legs[x].brk
    OBVIOUS
  <2>1. PICK c \in breaks : x \in c.legs /\ c.legs = legs[x].brk
    BY DEF StoreAgrees, BreaksAgree
  <2>2. CASE c.legs = r.legs
    BY <1>2, <2>1, <2>2
  <2>3. CASE c.legs # r.legs
    BY <1>2, <2>1, <2>3
  <2> QED
    BY <2>2, <2>3
<1>6. \A c \in breaks' : \A x \in c.legs :
         IF c.actor = "system"
         THEN legs[x].status = "matched"
         ELSE legs[x].status = "break" /\ legs[x].brk = c.legs
  BY <1>1, <1>2, <1>3 DEF StoreAgrees, BreaksAgree
<1>7. BreaksAgree'
  BY <1>5, <1>6 DEF BreaksAgree
<1>8. OpenBreaksUnattributed'
  BY <1>1, <1>2 DEF StoreAgrees, OpenBreaksUnattributed
<1> QED
  BY <1>4, <1>7, <1>8 DEF StoreAgrees

\* Restoring a resolution on replay: a resolution of the break, or nothing.
LEMMA ReapplyAgrees ==
    ASSUME StoreTyped, StoreAgrees, index = OpenLegs, NEW e, NEW blind,
           ReapplyResolution(e, blind)
    PROVE  StoreAgrees' /\ index' = OpenLegs'
<1> DEFINE open == {b \in breaks : b.legs = e.legs /\ b.status = "open"}
           resolved(b) == [b EXCEPT !.status = "resolved", !.actor = "operator"]
<1>1. UNCHANGED <<legs, matches, index>>
  BY Zenon DEF ReapplyResolution
<1>2. \/ breaks' = breaks
      \/ breaks' = (breaks \ open) \cup {resolved(b) : b \in open}
  BY Zenon DEF ReapplyResolution
<1>3. \A b \in open : /\ resolved(b).legs = b.legs
                      /\ resolved(b).status = "resolved"
                      /\ resolved(b).actor = "operator"
                      /\ b \in breaks /\ b.actor = "none"
  BY DEF StoreTyped, Break, StoreAgrees, OpenBreaksUnattributed
<1> HIDE DEF resolved, open
<1>4. MatchesAgree' /\ NeverDoubleCounted' /\ index' = OpenLegs'
  BY <1>1 DEF StoreAgrees, MatchesAgree, NeverDoubleCounted, OpenLegs
<1>5. \A c \in breaks' : \/ c \in breaks
                         \/ \E b \in open : c = resolved(b)
  BY <1>2
<1>6. \A c \in breaks : \E d \in breaks' : d.legs = c.legs
  BY <1>2, <1>3
<1>7. BreaksAgree'
  <2>1. \A x \in Leg : legs[x].status = "break" =>
           \E c \in breaks' : x \in c.legs /\ c.legs = legs[x].brk
    BY <1>6 DEF StoreAgrees, BreaksAgree
  <2>2. \A c \in breaks' : \A x \in c.legs :
           IF c.actor = "system"
           THEN legs[x].status = "matched"
           ELSE legs[x].status = "break" /\ legs[x].brk = c.legs
    BY <1>3, <1>5 DEF StoreAgrees, BreaksAgree
  <2> QED
    BY <1>1, <2>1, <2>2 DEF BreaksAgree
<1>8. OpenBreaksUnattributed'
  BY <1>3, <1>5 DEF StoreAgrees, OpenBreaksUnattributed
<1> QED
  BY <1>4, <1>7, <1>8 DEF StoreAgrees

-----------------------------------------------------------------------------
(* ingestOne.                                                              *)

\* A leg that is not stored is in no match and no break, and not open.
LEMMA FreshLeg ==
    ASSUME NEW l \in Leg, ~HasLeg(l)
    PROVE  legs[l].status = "absent" /\ l \notin OpenLegs
BY DEF HasLeg, Stored, OpenLegs

\* Matching with open legs.
LEMMA MatchOpenAgrees ==
    ASSUME StoreTyped, StoreAgrees, index = OpenLegs,
           NEW l \in Leg, ~HasLeg(l), NEW t, NEW live, NEW blind, NEW found,
           found = Found(l, blind),
           NEW ack \in BOOLEAN, MatchOpen(l, t, live, found, ack)
    PROVE  StoreAgrees' /\ (ack => index' = OpenLegs')
<1>1. PICK m \in found :
         /\ SetLegs(m.legs, "matched", m.legs, {}, l, t)
         /\ matches' = matches \cup {m}
         /\ Reindex(index \ m.legs, ack)
  BY DEF MatchOpen
<1>2. m \in Match /\ l \in m.legs /\ m.legs \subseteq {l} \cup index
  BY FoundMatch DEF Found, StoreTyped
<1>3. \A x \in m.legs : legs[x].status \in {"absent", "open"}
  BY <1>2, FreshLeg DEF OpenLegs
<1>4. MatchesAgree' /\ NeverDoubleCounted'
  BY <1>1, <1>2, <1>3, MatchAgrees DEF StoreAgrees
<1>5. breaks' = breaks
  BY DEF MatchOpen
<1>6. \A x \in Leg :
         /\ x \in m.legs => legs'[x].status = "matched"
         /\ x \notin m.legs => legs'[x] = legs[x]
  BY <1>1, SetLegsEffect
<1>7. BreaksAgree'
  <2>1. \A c \in breaks : c.legs \subseteq Leg /\ c.legs \cap m.legs = {}
    BY <1>3 DEF StoreAgrees, BreaksAgree, StoreTyped, Break
  <2>2. \A x \in Leg : legs'[x].status = "break" =>
           \E c \in breaks : x \in c.legs /\ c.legs = legs'[x].brk
    BY <1>6 DEF StoreAgrees, BreaksAgree
  <2>3. \A c \in breaks : \A x \in c.legs :
           IF c.actor = "system"
           THEN legs'[x].status = "matched"
           ELSE legs'[x].status = "break" /\ legs'[x].brk = c.legs
    BY <1>6, <2>1 DEF StoreAgrees, BreaksAgree
  <2> QED
    BY <1>5, <2>2, <2>3 DEF BreaksAgree
<1>8. OpenBreaksUnattributed'
  BY <1>5 DEF StoreAgrees, OpenBreaksUnattributed
<1>9. ack => index' = OpenLegs'
  BY <1>1, SetLegsCloses DEF Reindex
<1> QED
  BY <1>4, <1>7, <1>8, <1>9 DEF StoreAgrees

\* A late arrival takes the only leg of an open break into a match.
LEMMA HealAgrees ==
    ASSUME StoreTyped, StoreAgrees, index = OpenLegs,
           NEW l \in Leg, ~HasLeg(l), NEW t, NEW live, NEW found, NEW lost,
           NEW healable, healable = Healable(l, lost),
           HealLateArrival(l, t, live, found, healable)
    PROVE  StoreAgrees' /\ index' = OpenLegs'
<1>1. PICK r \in Healable(l, lost) :
        LET pair == {l, r}
            b == CHOOSE b \in breaks : b.legs = legs[r].brk
        IN  /\ SetLegs(pair, "matched", pair, {}, l, t)
            /\ matches' = matches \cup {[legs |-> pair, rule |-> RuleT2Late]}
            /\ PutBreak([b EXCEPT !.status = "resolved", !.actor = "system"])
  BY DEF HealLateArrival
<1> DEFINE pair == {l, r}
           m == [legs |-> pair, rule |-> RuleT2Late]
           b == CHOOSE b \in breaks : b.legs = legs[r].brk
           h == [b EXCEPT !.status = "resolved", !.actor = "system"]
<1>2. /\ r \in Leg /\ legs[r].status = "break"
      /\ \E c \in breaks : c.legs = legs[r].brk /\ Cardinality(c.legs) = 1
  BY DEF Healable, Related, Stored
<1>3. b \in breaks /\ b.legs = legs[r].brk
  BY <1>2
<1>4. /\ SetLegs(pair, "matched", pair, {}, l, t)
      /\ matches' = matches \cup {m}
      /\ breaks' = {c \in breaks : c.legs # h.legs} \cup {h}
  BY <1>1 DEF PutBreak
<1> HIDE DEF b
<1>5. h.legs = b.legs /\ h.status = "resolved" /\ h.actor = "system"
  BY <1>3 DEF StoreTyped, Break
<1> HIDE DEF h
<1>6. b.legs = {r}
  <2>1. r \in b.legs /\ b.legs \subseteq Leg
    BY <1>2, <1>3 DEF StoreAgrees, BreaksAgree, StoreTyped, Break
  <2>2. Cardinality(b.legs) = 1
    BY <1>2, <1>3
  <2>3. IsFiniteSet(b.legs)
    BY <2>1, FS_Subset, LegAssumption
  <2>4. PICK x : b.legs = {x}
    BY <2>2, <2>3, FS_Singleton
  <2> QED
    BY <2>1, <2>4
<1>7. legs[l].status = "absent" /\ l \notin OpenLegs
  BY FreshLeg
<1>8. MatchesAgree' /\ NeverDoubleCounted'
  <2>1. m \in Match /\ m.legs = pair
    BY <1>2 DEF Match, RuleIds
  <2>2. \A x \in m.legs : legs[x].status # "matched"
    BY <1>2, <1>7, <2>1
  <2> HIDE DEF m, pair
  <2>3. SetLegs(m.legs, "matched", m.legs, {}, l, t) /\ matches' = matches \cup {m}
    BY <1>4, <2>1
  <2> QED
    BY <2>1, <2>2, <2>3, MatchAgrees DEF StoreAgrees
<1>9. \A x \in Leg :
         /\ x \in pair => legs'[x].status = "matched"
         /\ x \notin pair => legs'[x] = legs[x]
  BY <1>4, SetLegsEffect
<1>10. \A c \in breaks : c.legs \subseteq Leg /\ l \notin c.legs
                         /\ (r \in c.legs => c.legs = h.legs)
  BY <1>2, <1>3, <1>5, <1>7 DEF StoreAgrees, BreaksAgree, StoreTyped, Break
<1>11. BreaksAgree'
  <2>1. \A x \in Leg : legs'[x].status = "break" =>
           \E c \in breaks' : x \in c.legs /\ c.legs = legs'[x].brk
    <3> SUFFICES ASSUME NEW x \in Leg, legs'[x].status = "break"
                 PROVE  \E c \in breaks' : x \in c.legs /\ c.legs = legs'[x].brk
      OBVIOUS
    <3>1. x \notin pair /\ legs'[x] = legs[x]
      BY <1>9
    <3>2. PICK c \in breaks : x \in c.legs /\ c.legs = legs[x].brk
      BY <3>1 DEF StoreAgrees, BreaksAgree
    <3>3. c \in breaks'
      BY <1>4, <1>5, <1>6, <3>1, <3>2
    <3> QED
      BY <3>1, <3>2, <3>3
  <2>2. \A c \in breaks' : \A x \in c.legs :
           IF c.actor = "system"
           THEN legs'[x].status = "matched"
           ELSE legs'[x].status = "break" /\ legs'[x].brk = c.legs
    <3> SUFFICES ASSUME NEW c \in breaks', NEW x \in c.legs
                 PROVE  IF c.actor = "system"
                        THEN legs'[x].status = "matched"
                        ELSE legs'[x].status = "break" /\ legs'[x].brk = c.legs
      OBVIOUS
    <3>1. CASE c = h
      BY <1>2, <1>5, <1>6, <1>9, <3>1
    <3>2. CASE c \in breaks /\ c.legs # h.legs
      <4>1. x \in Leg /\ x \notin pair
        BY <1>10, <3>2
      <4> QED
        BY <1>9, <3>2, <4>1 DEF StoreAgrees, BreaksAgree
    <3> QED
      BY <1>4, <3>1, <3>2
  <2> QED
    BY <2>1, <2>2 DEF BreaksAgree
<1>12. OpenBreaksUnattributed'
  BY <1>4, <1>5 DEF StoreAgrees, OpenBreaksUnattributed
<1>13. index' = OpenLegs'
  <2>1. OpenLegs' = OpenLegs \ pair
    BY <1>4, SetLegsCloses
  <2>2. r \notin OpenLegs
    BY <1>2 DEF OpenLegs
  <2> QED
    BY <1>7, <2>1, <2>2 DEF HealLateArrival
<1> QED
  BY <1>8, <1>11, <1>12, <1>13 DEF StoreAgrees

\* Every outcome of ingestOne keeps the store in agreement, and the index too
\* unless the acknowledgement of the commit is lost.
LEMMA IngestOneAgrees ==
    ASSUME StoreTyped, StoreAgrees, index = OpenLegs,
           NEW l \in Leg, NEW t, NEW live, NEW blind, NEW lost,
           NEW ack \in BOOLEAN, IngestOne(l, t, live, blind, lost, ack)
    PROVE  StoreAgrees' /\ (ack => index' = OpenLegs')
<1>0. PICK found, healable :
        \/ DropRedelivery(l, live)
        \/ BreakReusedRef(l, t, live)
        \/ /\ Fresh(l) /\ found = Found(l, blind) /\ healable = Healable(l, lost)
           /\ \/ MatchOpen(l, t, live, found, ack)
              \/ BreakOpenPartner(l, t, live, found, ack)
              \/ HealLateArrival(l, t, live, found, healable)
              \/ BreakKnownRef(l, t, live, found, healable)
              \/ WaitInWindow(l, t, live, found, ack)
  BY Zenon DEF IngestOne
<1>1. CASE DropRedelivery(l, live)
  BY <1>1 DEF DropRedelivery, StoreAgrees, MatchesAgree, NeverDoubleCounted,
              BreaksAgree, OpenBreaksUnattributed, OpenLegs
<1>2. ASSUME NEW trigger, ~HasLeg(l), UNCHANGED index,
             OpenBreak({l}, trigger, l, t, Announce(l, t, live))
      PROVE  StoreAgrees' /\ index' = OpenLegs'
  <2>1. legs[l].status = "absent" /\ l \notin OpenLegs
    BY <1>2, FreshLeg
  <2>2. StoreAgrees' /\ OpenLegs' = OpenLegs \ {l}
    BY <1>2, <2>1, OpenBreakAgrees
  <2> QED
    BY <1>2, <2>1, <2>2
<1>3. CASE BreakReusedRef(l, t, live)
  BY <1>2, <1>3 DEF BreakReusedRef
<1>4. CASE Fresh(l) /\ found = Found(l, blind) /\ MatchOpen(l, t, live, found, ack)
  BY <1>4, MatchOpenAgrees DEF Fresh
<1>5. CASE Fresh(l) /\ BreakOpenPartner(l, t, live, found, ack)
  <2> DEFINE partners == ByRef(l, index)
  <2>1. /\ ~HasLeg(l)
        /\ OpenBreak({l} \cup partners, "ref_conflict", l, t, Announce(l, t, live))
        /\ ack => index' = index \ partners
    BY <1>5 DEF BreakOpenPartner, Fresh, Reindex
  <2>2. partners \subseteq OpenLegs
    BY DEF ByRef
  <2>3. legs[l].status = "absent" /\ l \notin OpenLegs
    BY <2>1, FreshLeg
  <2>4. \A x \in {l} \cup partners : x \in Leg /\ legs[x].status \notin {"matched", "break"}
    BY <2>2, <2>3 DEF OpenLegs
  <2> HIDE DEF partners
  <2>5. StoreAgrees' /\ OpenLegs' = OpenLegs \ ({l} \cup partners)
    BY <2>1, <2>4, OpenBreakAgrees
  <2> QED
    BY <2>1, <2>3, <2>5
<1>6. CASE /\ Fresh(l) /\ healable = Healable(l, lost)
           /\ HealLateArrival(l, t, live, found, healable)
  BY <1>6, HealAgrees DEF Fresh
<1>7. CASE Fresh(l) /\ BreakKnownRef(l, t, live, found, healable)
  BY <1>2, <1>7 DEF BreakKnownRef, Fresh
<1>8. CASE Fresh(l) /\ WaitInWindow(l, t, live, found, ack)
  <2>1. legs[l].status = "absent"
    BY <1>8, FreshLeg DEF Fresh
  <2>2. UNCHANGED <<matches, breaks>> /\ (ack => index' = index \cup {l})
    BY <1>8 DEF WaitInWindow, Reindex
  <2>3. \A x \in Leg : /\ x = l => legs'[x].status = "open"
                       /\ x # l => legs'[x] = legs[x]
    BY <1>8, SetLegsEffect DEF WaitInWindow
  <2>4. ack => index' = OpenLegs'
    BY <2>2, <2>3 DEF OpenLegs
  <2>5. MatchesAgree' /\ NeverDoubleCounted'
    BY <2>1, <2>2, <2>3
    DEF StoreAgrees, MatchesAgree, NeverDoubleCounted, StoreTyped, Match
  <2>6. BreaksAgree' /\ OpenBreaksUnattributed'
    BY <2>1, <2>2, <2>3
    DEF StoreAgrees, BreaksAgree, OpenBreaksUnattributed, StoreTyped, Break
  <2> QED
    BY <2>4, <2>5, <2>6 DEF StoreAgrees
<1> QED
  BY <1>0, <1>1, <1>3, <1>4, <1>5, <1>6, <1>7, <1>8

-----------------------------------------------------------------------------
(* Every step.                                                             *)

\* Faults are counted: where the count stays, no lookup failed and the commit
\* was acknowledged.
LEMMA SufferCounts ==
    ASSUME faults \in Nat, NEW blind, NEW lost, NEW ack \in BOOLEAN,
           Suffer(blind, lost, ack)
    PROVE  faults <= faults' /\ (faults' = faults => ~blind /\ lost = {} /\ ack)
<1> DEFINE kinds == (IF blind \/ lost # {} THEN {"lookup"} ELSE {})
                       \cup (IF ack THEN {} ELSE {"ambiguous"})
<1>1. faults' = faults + Cardinality(kinds)
  BY DEF Suffer
<1>2. kinds \subseteq {"lookup", "ambiguous"} /\ (blind \/ lost # {} \/ ~ack => kinds # {})
  OBVIOUS
<1> HIDE DEF kinds
<1>3. IsFiniteSet({"lookup", "ambiguous"})
  <2>1. IsFiniteSet({"lookup"} \cup {"ambiguous"})
    BY FS_Singleton, FS_AddElement
  <2>2. {"lookup", "ambiguous"} = {"lookup"} \cup {"ambiguous"}
    OBVIOUS
  <2> QED
    BY <2>1, <2>2
<1>4. IsFiniteSet(kinds)
  BY <1>2, <1>3, FS_Subset
<1>5. Cardinality(kinds) \in Nat /\ (Cardinality(kinds) = 0 <=> kinds = {})
  BY <1>4, FS_CardinalityType, FS_EmptySet
<1>6. blind \/ lost # {} \/ ~ack => Cardinality(kinds) # 0
  BY <1>2, <1>5, Zenon
<1>7. faults <= faults' /\ (faults' = faults => Cardinality(kinds) = 0)
  BY <1>1, <1>5
<1> QED
  BY <1>6, <1>7, Zenon

\* A transaction is acknowledged if there is no fault "ambiguous", or none at all.
LEMMA Acknowledged ==
    ASSUME faults \in Nat, "ambiguous" \notin Faults \/ faults' = 0,
           NEW ack \in BOOLEAN, NEW blind, NEW lost, Suffer(blind, lost, ack)
    PROVE  ack = TRUE
<1>1. CASE "ambiguous" \notin Faults
  BY <1>1 DEF Suffer
<1>2. CASE faults' = 0
  BY <1>2, SufferCounts
<1> QED
  BY <1>1, <1>2

\* Every step of the engine keeps the inductive invariant.
LEMMA NextAgrees ==
    ASSUME "ambiguous" \notin Faults \/ faults' = 0, Agreement, [Next]_vars
    PROVE  Agreement'
<1>t. TypeOK' /\ ControlOK'
  BY NextTyped DEF Agreement
<1>s. StoreTyped /\ StoreAgrees /\ faults \in Nat
  BY DEF Agreement, TypeOK, StoreTyped
<1>m. op # "down" => index = OpenLegs
  BY DEF Agreement, IndexMirrorsStore
<1>u. ASSUME UNCHANGED <<legs, matches, breaks>>
      PROVE  StoreAgrees' /\ OpenLegs' = OpenLegs
  BY <1>s, <1>u DEF StoreAgrees, MatchesAgree, NeverDoubleCounted, BreaksAgree,
                    OpenBreaksUnattributed, OpenLegs
<1>q. ASSUME StoreAgrees', IndexMirrorsStore', DueIsOpen'
      PROVE  Agreement'
  BY <1>q, <1>t DEF Agreement
<1>1. ASSUME NEW batch \in Batches, Ingest(batch)
      PROVE  Agreement'
  BY <1>1, <1>m, <1>u, <1>q DEF Ingest, IndexMirrorsStore, DueIsOpen, store
<1>2. ASSUME NEW ack \in BOOLEAN, IngestStep(ack)
      PROVE  Agreement'
  <2> DEFINE a == Head(todo)
  <2>1. a.leg \in Leg
    <3>1. todo \in Seq(Arrival) /\ todo # <<>>
      BY <1>2 DEF IngestStep, Agreement, TypeOK, ControlOK
    <3>2. Head(todo) \in Arrival
      BY <3>1
    <3> QED
      BY <3>2 DEF Arrival
  <2>2. PICK blind \in BOOLEAN, lost \in SUBSET Related(a.leg) :
          /\ Suffer(blind, lost, ack)
          /\ IngestOne(a.leg, a.at, TRUE, blind, lost, ack)
          /\ \/ UNCHANGED op
             \/ Release("idle")
    BY <1>2 DEF IngestStep
  <2>3. ack = TRUE
    BY <1>s, <2>2, Acknowledged
  <2>4. op = "ingest" /\ op' \in {"ingest", "idle"}
    BY <1>2, <2>2 DEF IngestStep, Release
  <2> HIDE DEF a
  <2>5. StoreAgrees' /\ index' = OpenLegs'
    BY <1>s, <1>m, <2>1, <2>2, <2>3, <2>4, IngestOneAgrees
  <2> QED
    BY <1>q, <2>4, <2>5 DEF IndexMirrorsStore, DueIsOpen
<1>3. ASSUME NEW kind, NEW age, Expire(kind, age)
      PROVE  Agreement'
  <2>1. UNCHANGED <<legs, matches, breaks, index>> /\ op = "idle"
    BY <1>3 DEF Expire, store
  <2>2. due' \subseteq index'
    BY <1>3, <2>1 DEF Expire, Expired
  <2> QED
    BY <1>m, <1>u, <1>q, <2>1, <2>2 DEF IndexMirrorsStore, DueIsOpen
<1>4. CASE Sweep
  BY <1>3, <1>4 DEF Sweep
<1>5. CASE CloseWindow
  BY <1>3, <1>5 DEF CloseWindow
<1>6. ASSUME NEW ack \in BOOLEAN, ExpireStep(ack)
      PROVE  Agreement'
  <2>1. PICK l \in First(due) :
          /\ OpenBreak({l}, "window_expired", l, legs[l].at,
                       <<Ev("leg.expired", {l})>>)
          /\ Reindex(index \ {l}, ack)
          /\ \/ due' = due \ {l} /\ UNCHANGED op
             \/ Release("idle")
    BY <1>6 DEF ExpireStep
  <2>2. ack = TRUE /\ index' = index \ {l}
    BY <1>s, <1>6, <2>1, Acknowledged DEF ExpireStep, Reindex
  <2>3. op \in {"sweep", "close"} /\ due \subseteq index /\ index = OpenLegs
    BY <1>6, <1>m DEF ExpireStep, Agreement, DueIsOpen
  <2>4. l \in Leg /\ legs[l].status = "open"
    BY <2>3 DEF First, OpenLegs
  <2>5. StoreAgrees' /\ OpenLegs' = OpenLegs \ {l}
    BY <1>s, <2>1, <2>4, OpenBreakAgrees
  <2> QED
    BY <1>q, <2>1, <2>2, <2>3, <2>5 DEF IndexMirrorsStore, DueIsOpen, Release
<1>7. CASE WindowClosed
  BY <1>7, <1>m, <1>u, <1>q DEF WindowClosed, Release, IndexMirrorsStore, DueIsOpen
<1>8. ASSUME NEW b \in breaks, ResolveBreak(b)
      PROVE  Agreement'
  <2>1. /\ op = "idle" /\ b.status = "open"
        /\ PutBreak([b EXCEPT !.status = "resolved", !.actor = "operator"])
        /\ UNCHANGED <<legs, matches, index, op>>
    BY <1>8 DEF ResolveBreak, control
  <2>2. StoreAgrees'
    BY <1>s, <2>1, ResolveAgrees
  <2> QED
    BY <1>m, <1>q, <2>1, <2>2 DEF IndexMirrorsStore, DueIsOpen, OpenLegs
<1>9. ASSUME NEW from \in ReplayFrom, Replay(from)
      PROVE  Agreement'
  BY <1>9, <1>m, <1>u, <1>q DEF Replay, IndexMirrorsStore, DueIsOpen
<1>10. CASE ReplayReset
  <2>1. /\ \A l \in Leg : legs'[l].status = "absent"
        /\ matches' = {} /\ breaks' = {} /\ index' = {}
        /\ op' \in {"replay", "idle"}
    BY <1>10 DEF ReplayReset, Absent, Release
  <2>2. StoreAgrees' /\ OpenLegs' = {}
    BY <2>1 DEF StoreAgrees, MatchesAgree, NeverDoubleCounted, BreaksAgree,
                OpenBreaksUnattributed, OpenLegs
  <2> QED
    BY <1>q, <2>1, <2>2 DEF IndexMirrorsStore, DueIsOpen
<1>11. ASSUME NEW ack \in BOOLEAN, ReplayStep(ack)
       PROVE  Agreement'
  <2> DEFINE e == log[cursor]
  <2>1. e \in Event
    BY <1>11 DEF ReplayStep, Agreement, TypeOK, ControlOK
  <2>2. PICK blind \in BOOLEAN,
             lost \in SUBSET UNION {Related(l) : l \in e.legs} :
          /\ Suffer(blind, lost, ack)
          /\ \/ \E l \in e.legs : IngestOne(l, e.at, FALSE, blind, lost, ack)
             \/ ReapplyResolution(e, blind)
             \/ UNCHANGED <<store, index>>
          /\ \/ UNCHANGED op
             \/ Release("idle")
    BY <1>11 DEF ReplayStep
  <2>3. ack = TRUE
    BY <1>s, <2>2, Acknowledged
  <2>4. op = "replay" /\ op' \in {"replay", "idle"}
    BY <1>11, <2>2 DEF ReplayStep, Release
  <2>5. e.legs \subseteq Leg
    BY <2>1 DEF Event
  <2> HIDE DEF e
  <2>6. StoreAgrees' /\ index' = OpenLegs'
    <3>1. CASE \E l \in e.legs : IngestOne(l, e.at, FALSE, blind, lost, ack)
      BY <1>s, <1>m, <2>3, <2>4, <2>5, <3>1, IngestOneAgrees
    <3>2. CASE ReapplyResolution(e, blind)
      BY <1>s, <1>m, <2>4, <3>2, ReapplyAgrees
    <3>3. CASE UNCHANGED <<store, index>>
      BY <1>m, <1>u, <2>4, <3>3 DEF store
    <3> QED
      BY <2>2, <3>1, <3>2, <3>3
  <2> QED
    BY <1>q, <2>4, <2>6 DEF IndexMirrorsStore, DueIsOpen
<1>12. CASE Abort
  BY <1>12, <1>m, <1>u, <1>q
  DEF Abort, Release, IndexMirrorsStore, DueIsOpen, store, Operations
<1>13. CASE Crash
  BY <1>13, <1>u, <1>q DEF Crash, Release, IndexMirrorsStore, DueIsOpen, store
<1>14. CASE Rebuild
  BY <1>14, <1>u, <1>q DEF Rebuild, IndexMirrorsStore, DueIsOpen, store
<1>15. CASE Tick
  BY <1>15, <1>m, <1>u, <1>q
  DEF Tick, IndexMirrorsStore, DueIsOpen, store, control
<1>16. CASE UNCHANGED vars
  <2>1. DueIsOpen'
    BY <1>16 DEF vars, Agreement, DueIsOpen
  <2> QED
    BY <1>16, <1>m, <1>u, <1>q, <2>1 DEF vars, IndexMirrorsStore
<1> QED
  BY <1>1, <1>2, <1>4, <1>5, <1>6, <1>7, <1>8, <1>9, <1>10, <1>11, <1>12,
     <1>13, <1>14, <1>15, <1>16 DEF Next

\* The inductive invariant holds in every reachable state.
THEOREM AgreementInvariant ==
    ASSUME "ambiguous" \notin Faults PROVE Spec => []Agreement
<1>1. Init => Agreement
  <2> SUFFICES ASSUME Init PROVE Agreement
    OBVIOUS
  <2>1. TypeOK /\ ControlOK
    BY DEF Init, TypeOK, ControlOK, Absent, LegState, Statuses, Operations
  <2>2. StoreAgrees
    BY DEF Init, Absent, StoreAgrees, MatchesAgree, NeverDoubleCounted,
           BreaksAgree, OpenBreaksUnattributed
  <2>3. IndexMirrorsStore /\ DueIsOpen
    BY DEF Init, Absent, IndexMirrorsStore, OpenLegs, DueIsOpen
  <2> QED
    BY <2>1, <2>2, <2>3 DEF Agreement
<1>2. Agreement /\ [Next]_vars => Agreement'
  BY NextAgrees
<1> QED
  BY <1>1, <1>2, PTL DEF Spec

\* While the process is up the in-memory index is exactly the set of legs the
\* repository calls open, through aborted operations, crashes and replays.
THEOREM IndexAlwaysMirrorsStore ==
    ASSUME "ambiguous" \notin Faults PROVE Spec => []IndexMirrorsStore
<1>1. Agreement => IndexMirrorsStore
  BY DEF Agreement
<1> QED
  BY <1>1, AgreementInvariant, PTL

\* Matches and the match_id of legs always agree, and no leg is in two matches.
THEOREM MatchesAlwaysAgree ==
    ASSUME "ambiguous" \notin Faults
    PROVE  Spec => [](MatchesAgree /\ NeverDoubleCounted)
<1>1. Agreement => MatchesAgree /\ NeverDoubleCounted
  BY DEF Agreement, StoreAgrees
<1> QED
  BY <1>1, AgreementInvariant, PTL

\* Breaks and the break_id of legs always agree: the legs of a break that was
\* not closed by the system are in it and in no match.
THEOREM BreaksAlwaysAgree ==
    ASSUME "ambiguous" \notin Faults PROVE Spec => []BreaksAgree
<1>1. Agreement => BreaksAgree
  BY DEF Agreement, StoreAgrees
<1> QED
  BY <1>1, AgreementInvariant, PTL


-----------------------------------------------------------------------------
(* One open leg per txn_ref.  No proviso about faults is needed: a leg     *)
(* waits only if the repository, not the index, knows no related leg.      *)

\* Closing legs cannot make two open legs share a txn_ref.
LEMMA ClosingKeepsOneOpen ==
    ASSUME OneOpenPerRef, OpenLegs' \subseteq OpenLegs
    PROVE  OneOpenPerRef'
BY DEF OneOpenPerRef

\* Every outcome of ingestOne leaves one open leg per txn_ref.
LEMMA IngestOneOneOpen ==
    ASSUME OneOpenPerRef, NEW l \in Leg, NEW t, NEW live, NEW blind, NEW lost,
           NEW ack, IngestOne(l, t, live, blind, lost, ack)
    PROVE  OneOpenPerRef'
<1>0. PICK found, healable :
        \/ DropRedelivery(l, live)
        \/ BreakReusedRef(l, t, live)
        \/ /\ Fresh(l) /\ found = Found(l, blind) /\ healable = Healable(l, lost)
           /\ \/ MatchOpen(l, t, live, found, ack)
              \/ BreakOpenPartner(l, t, live, found, ack)
              \/ HealLateArrival(l, t, live, found, healable)
              \/ BreakKnownRef(l, t, live, found, healable)
              \/ WaitInWindow(l, t, live, found, ack)
  BY Zenon DEF IngestOne
<1>b. ASSUME NEW S, NEW trigger, NEW before, OpenBreak(S, trigger, l, t, before)
      PROVE  OneOpenPerRef'
  <2>1. OpenLegs' \subseteq OpenLegs
    BY <1>b, SetLegsCloses DEF OpenBreak
  <2> QED
    BY <2>1, ClosingKeepsOneOpen
<1>m. ASSUME NEW S, SetLegs(S, "matched", S, {}, l, t)
      PROVE  OneOpenPerRef'
  <2>1. OpenLegs' \subseteq OpenLegs
    BY <1>m, SetLegsCloses
  <2> QED
    BY <2>1, ClosingKeepsOneOpen
<1>1. CASE DropRedelivery(l, live)
  BY <1>1 DEF DropRedelivery, OneOpenPerRef, OpenLegs
<1>2. CASE BreakReusedRef(l, t, live)
  BY <1>2, <1>b DEF BreakReusedRef
<1>3. CASE MatchOpen(l, t, live, found, ack)
  BY <1>3, <1>m DEF MatchOpen
<1>4. CASE BreakOpenPartner(l, t, live, found, ack)
  BY <1>4, <1>b DEF BreakOpenPartner
<1>5. CASE HealLateArrival(l, t, live, found, healable)
  <2>1. \E r : SetLegs({l, r}, "matched", {l, r}, {}, l, t)
    BY <1>5, Zenon DEF HealLateArrival
  <2> QED
    BY <1>m, <2>1
<1>6. CASE BreakKnownRef(l, t, live, found, healable)
  BY <1>6, <1>b DEF BreakKnownRef
<1>7. CASE WaitInWindow(l, t, live, found, ack)
  <2>1. \A x \in Leg : x # l => legs'[x] = legs[x]
    BY <1>7, SetLegsEffect DEF WaitInWindow
  <2>2. OpenLegs' \subseteq OpenLegs \cup {l}
    BY <2>1 DEF OpenLegs
  <2>3. \A k \in OpenLegs : k # l => Ref(k) # Ref(l)
    BY <1>7 DEF WaitInWindow, Related, Stored, OpenLegs
  <2> QED
    BY <2>2, <2>3 DEF OneOpenPerRef
<1> QED
  BY <1>0, <1>1, <1>2, <1>3, <1>4, <1>5, <1>6, <1>7

\* At most one leg of a txn_ref is open at any time, whatever fails: lost
\* acknowledgements, failing lookups, crashes and interrupted replays included.
THEOREM OneOpenPerRefAlways == Spec => []OneOpenPerRef
<1> DEFINE Inv == TypeOK /\ ControlOK /\ OneOpenPerRef
<1>1. Init => Inv
  BY DEF Init, TypeOK, ControlOK, Absent, LegState, Statuses, Operations,
         OneOpenPerRef, OpenLegs
<1>2. Inv /\ [Next]_vars => Inv'
  <2> SUFFICES ASSUME Inv, [Next]_vars PROVE OneOpenPerRef'
    BY NextTyped
  <2>u. ASSUME UNCHANGED legs PROVE OneOpenPerRef'
    BY <2>u DEF OneOpenPerRef, OpenLegs
  <2>1. ASSUME NEW ack \in BOOLEAN, IngestStep(ack) PROVE OneOpenPerRef'
    <3>1. todo \in Seq(Arrival) /\ todo # <<>>
      BY <2>1 DEF IngestStep, TypeOK, ControlOK
    <3>2. Head(todo) \in Arrival
      BY <3>1
    <3>3. Head(todo).leg \in Leg
      BY <3>2 DEF Arrival
    <3> QED
      BY <2>1, <3>3, IngestOneOneOpen DEF IngestStep
  <2>2. ASSUME NEW ack \in BOOLEAN, ExpireStep(ack) PROVE OneOpenPerRef'
    <3>1. PICK l : OpenBreak({l}, "window_expired", l, legs[l].at,
                             <<Ev("leg.expired", {l})>>)
      BY <2>2 DEF ExpireStep
    <3>2. OpenLegs' \subseteq OpenLegs
      BY <3>1, SetLegsCloses DEF OpenBreak
    <3> QED
      BY <3>2, ClosingKeepsOneOpen
  <2>3. ASSUME NEW ack \in BOOLEAN, ReplayStep(ack) PROVE OneOpenPerRef'
    <3> DEFINE e == log[cursor]
    <3>1. e \in Event
      BY <2>3 DEF ReplayStep, TypeOK, ControlOK
    <3>2. e.legs \subseteq Leg
      BY <3>1 DEF Event
    <3>3. \/ UNCHANGED legs
          \/ \E l \in e.legs : \E blind, lost : IngestOne(l, e.at, FALSE, blind, lost, ack)
      BY <2>3, Zenon DEF ReplayStep, ReapplyResolution, store
    <3> QED
      BY <2>u, <3>2, <3>3, IngestOneOneOpen
  <2>4. CASE ReplayReset
    BY <2>4 DEF ReplayReset, Absent, OneOpenPerRef, OpenLegs
  <2>5. ASSUME NEW kind, NEW age, Expire(kind, age) PROVE UNCHANGED legs
    BY <2>5 DEF Expire, store
  <2> QED
    BY <2>u, <2>1, <2>2, <2>3, <2>4, <2>5
    DEF Next, Ingest, Sweep, CloseWindow, WindowClosed, ResolveBreak, Replay,
        Abort, Crash, Rebuild, Tick, vars, store
<1> QED
  BY <1>1, <1>2, PTL DEF Spec

-----------------------------------------------------------------------------
(* Legs and breaks only move forward.                                      *)

\* A break is identified by its legs, as the upsert by ID promises.
BreaksKeyed == \A b, c \in breaks : b.legs = c.legs => b = c

\* An upsert keeps the key.
LEMMA PutBreakKeyed ==
    ASSUME BreaksKeyed, NEW b, PutBreak(b)
    PROVE  BreaksKeyed'
BY DEF BreaksKeyed, PutBreak

\* Restoring a resolution keeps the key and every break.
LEMMA ReapplyKept ==
    ASSUME StoreTyped, BreaksKeyed, NEW e, NEW blind, ReapplyResolution(e, blind)
    PROVE  BreaksKeyed' /\ \A b \in breaks : BreakIsKept(b)
<1> DEFINE open == {b \in breaks : b.legs = e.legs /\ b.status = "open"}
           resolved(b) == [b EXCEPT !.status = "resolved", !.actor = "operator"]
<1>1. \/ breaks' = breaks
      \/ breaks' = (breaks \ open) \cup {resolved(b) : b \in open}
  BY Zenon DEF ReapplyResolution
<1>2. \A b \in open : /\ resolved(b).legs = b.legs
                      /\ resolved(b).trigger = b.trigger
                      /\ resolved(b).category = b.category
                      /\ resolved(b).opened = b.opened
                      /\ b \in breaks /\ b.status = "open"
  BY DEF StoreTyped, Break
<1> HIDE DEF resolved, open
<1>3. BreaksKeyed'
  BY <1>1, <1>2 DEF BreaksKeyed
<1>4. ASSUME NEW b \in breaks PROVE BreakIsKept(b)
  <2>1. CASE b \in breaks'
    BY <2>1 DEF BreakIsKept
  <2>2. CASE b \in open /\ resolved(b) \in breaks'
    BY <1>2, <2>2 DEF BreakIsKept
  <2> QED
    BY <1>1, <2>1, <2>2
<1> QED
  BY <1>3, <1>4

\* Opening a break for legs that are in none keeps the others.
LEMMA OpenBreakKept ==
    ASSUME BreaksAgree, BreaksKeyed, NEW S, S # {}, NEW trigger, NEW l, NEW t,
           NEW before, \A x \in S : legs[x].status \notin {"matched", "break"},
           OpenBreak(S, trigger, l, t, before)
    PROVE  BreaksKeyed' /\ \A b \in breaks : BreakIsKept(b)
<1>1. PutBreak(NewBreak(S, trigger, Label(l, S \ {l}, trigger)))
  BY DEF OpenBreak
<1>2. \A b \in breaks : b.legs # S
  BY DEF BreaksAgree
<1>3. \A b \in breaks : b \in breaks'
  BY <1>1, <1>2 DEF PutBreak, NewBreak
<1> QED
  BY <1>1, <1>3, PutBreakKeyed DEF BreakIsKept

\* Resolving an open break keeps it and the others.
LEMMA ResolveKept ==
    ASSUME StoreTyped, BreaksKeyed, NEW b \in breaks, b.status = "open", NEW actor,
           PutBreak([b EXCEPT !.status = "resolved", !.actor = actor])
    PROVE  BreaksKeyed' /\ \A c \in breaks : BreakIsKept(c)
<1> DEFINE r == [b EXCEPT !.status = "resolved", !.actor = actor]
<1>1. /\ r.legs = b.legs /\ r.trigger = b.trigger
      /\ r.category = b.category /\ r.opened = b.opened
  BY DEF StoreTyped, Break
<1>2. breaks' = {c \in breaks : c.legs # r.legs} \cup {r}
  BY DEF PutBreak
<1> HIDE DEF r
<1>3. ASSUME NEW c \in breaks PROVE BreakIsKept(c)
  <2>1. CASE c.legs = b.legs
    BY <1>1, <1>2, <2>1 DEF BreaksKeyed, BreakIsKept
  <2>2. CASE c.legs # b.legs
    BY <1>1, <1>2, <2>2 DEF BreakIsKept
  <2> QED
    BY <2>1, <2>2
<1> QED
  BY <1>3, PutBreakKeyed

\* Every outcome of ingestOne moves legs forward and keeps every break.
LEMMA IngestOneForward ==
    ASSUME StoreTyped, StoreAgrees, BreaksKeyed, index = OpenLegs,
           NEW l \in Leg, NEW t, NEW live, NEW blind, NEW lost,
           IngestOne(l, t, live, blind, lost, TRUE)
    PROVE  /\ \A x \in Leg : LegMovesForward(x)
           /\ \A b \in breaks : BreakIsKept(b)
           /\ BreaksKeyed'
<1>0. PICK found, healable :
        \/ DropRedelivery(l, live)
        \/ BreakReusedRef(l, t, live)
        \/ /\ Fresh(l) /\ found = Found(l, blind) /\ healable = Healable(l, lost)
           /\ \/ MatchOpen(l, t, live, found, TRUE)
              \/ BreakOpenPartner(l, t, live, found, TRUE)
              \/ HealLateArrival(l, t, live, found, healable)
              \/ BreakKnownRef(l, t, live, found, healable)
              \/ WaitInWindow(l, t, live, found, TRUE)
  BY Zenon DEF IngestOne
<1>a. BreaksAgree
  BY DEF StoreAgrees
<1>u. ASSUME UNCHANGED breaks
      PROVE  BreaksKeyed' /\ \A b \in breaks : BreakIsKept(b)
  BY <1>u DEF BreaksKeyed, BreakIsKept
<1>s. ASSUME NEW S, NEW status \in {"matched", "break"}, NEW m, NEW b,
             SetLegs(S, status, m, b, l, t),
             \A x \in S : \/ legs[x].status \in {"absent", "open"}
                          \/ legs[x].status = "break" /\ status = "matched"
      PROVE  \A x \in Leg : LegMovesForward(x)
  <2>1. \A x \in Leg : /\ x \in S => legs'[x].status = status
                       /\ x \notin S => legs'[x] = legs[x]
    BY <1>s, SetLegsEffect
  <2> QED
    BY <1>s, <2>1 DEF LegMovesForward
<1>1. CASE DropRedelivery(l, live)
  BY <1>1, <1>u DEF DropRedelivery, LegMovesForward
<1>2. ASSUME NEW S, S # {}, NEW trigger, NEW before,
             OpenBreak(S, trigger, l, t, before),
             \A x \in S : legs[x].status \in {"absent", "open"}
      PROVE  /\ \A x \in Leg : LegMovesForward(x)
             /\ \A b \in breaks : BreakIsKept(b)
             /\ BreaksKeyed'
  <2>1. \A x \in Leg : LegMovesForward(x)
    BY <1>2, <1>s DEF OpenBreak
  <2>2. BreaksKeyed' /\ \A b \in breaks : BreakIsKept(b)
    BY <1>2, <1>a, OpenBreakKept
  <2> QED
    BY <2>1, <2>2
<1>3. CASE BreakReusedRef(l, t, live)
  <2>1. legs[l].status = "absent"
    BY <1>3, FreshLeg DEF BreakReusedRef
  <2> QED
    BY <1>2, <1>3, <2>1 DEF BreakReusedRef
<1>4. CASE Fresh(l) /\ found = Found(l, blind) /\ MatchOpen(l, t, live, found, TRUE)
  <2>1. PICK m \in found : SetLegs(m.legs, "matched", m.legs, {}, l, t)
    BY <1>4 DEF MatchOpen
  <2>2. m.legs \subseteq {l} \cup index
    BY <1>4, FoundMatch DEF Found, StoreTyped
  <2>3. \A x \in m.legs : legs[x].status \in {"absent", "open"}
    BY <1>4, <2>2, FreshLeg DEF Fresh, OpenLegs
  <2>4. \A x \in Leg : LegMovesForward(x)
    BY <1>s, <2>1, <2>3
  <2> QED
    BY <1>4, <1>u, <2>4 DEF MatchOpen
<1>5. CASE Fresh(l) /\ BreakOpenPartner(l, t, live, found, TRUE)
  <2> DEFINE S == {l} \cup ByRef(l, index)
  <2>1. \A x \in S : legs[x].status \in {"absent", "open"}
    BY <1>5, FreshLeg DEF Fresh, ByRef, OpenLegs
  <2>2. OpenBreak(S, "ref_conflict", l, t, Announce(l, t, live)) /\ S # {}
    BY <1>5 DEF BreakOpenPartner
  <2> HIDE DEF S
  <2> QED
    BY <1>2, <2>1, <2>2
<1>6. CASE /\ Fresh(l) /\ healable = Healable(l, lost)
           /\ HealLateArrival(l, t, live, found, healable)
  <2>1. PICK r \in Healable(l, lost) :
          LET pair == {l, r}
              b == CHOOSE b \in breaks : b.legs = legs[r].brk
          IN  /\ SetLegs(pair, "matched", pair, {}, l, t)
              /\ PutBreak([b EXCEPT !.status = "resolved", !.actor = "system"])
    BY <1>6 DEF HealLateArrival
  <2> DEFINE b == CHOOSE b \in breaks : b.legs = legs[r].brk
  <2>2. /\ legs[r].status = "break"
        /\ \E c \in breaks : c.legs = legs[r].brk /\ c.status = "open"
    BY DEF Healable
  <2>3. b \in breaks /\ b.legs = legs[r].brk
    BY <2>2
  <2>4. /\ SetLegs({l, r}, "matched", {l, r}, {}, l, t)
        /\ PutBreak([b EXCEPT !.status = "resolved", !.actor = "system"])
    BY <2>1
  <2> HIDE DEF b
  <2>5. b.status = "open"
    BY <2>2, <2>3 DEF BreaksKeyed
  <2>6. BreaksKeyed' /\ \A c \in breaks : BreakIsKept(c)
    BY <2>3, <2>4, <2>5, ResolveKept
  <2>7. legs[l].status = "absent"
    BY <1>6, FreshLeg DEF Fresh
  <2>8. \A x \in Leg : LegMovesForward(x)
    BY <1>s, <2>2, <2>4, <2>7
  <2> QED
    BY <2>6, <2>8
<1>7. CASE Fresh(l) /\ BreakKnownRef(l, t, live, found, healable)
  <2>1. legs[l].status = "absent"
    BY <1>7, FreshLeg DEF Fresh
  <2> QED
    BY <1>2, <1>7, <2>1 DEF BreakKnownRef
<1>8. CASE Fresh(l) /\ WaitInWindow(l, t, live, found, TRUE)
  <2>1. legs[l].status = "absent"
    BY <1>8, FreshLeg DEF Fresh
  <2>2. \A x \in Leg : x # l => legs'[x] = legs[x]
    BY <1>8, SetLegsEffect DEF WaitInWindow
  <2>3. \A x \in Leg : LegMovesForward(x)
    BY <2>1, <2>2 DEF LegMovesForward
  <2> QED
    BY <1>8, <1>u, <2>3 DEF WaitInWindow
<1> QED
  BY <1>0, <1>1, <1>3, <1>4, <1>5, <1>6, <1>7, <1>8

\* Every step of the engine.
LEMMA NextForward ==
    ASSUME "ambiguous" \notin Faults \/ faults' = 0, Agreement, BreaksKeyed,
           [Next]_vars
    PROVE  /\ Resetting \/ \A l \in Leg : LegMovesForward(l)
           /\ Resetting \/ \A b \in breaks : BreakIsKept(b)
           /\ BreaksKeyed'
<1> DEFINE Goal == /\ Resetting \/ \A l \in Leg : LegMovesForward(l)
                   /\ Resetting \/ \A b \in breaks : BreakIsKept(b)
                   /\ BreaksKeyed'
<1>s. StoreTyped /\ StoreAgrees /\ faults \in Nat
  BY DEF Agreement, TypeOK, StoreTyped
<1>m. op # "down" => index = OpenLegs
  BY DEF Agreement, IndexMirrorsStore
<1>u. ASSUME UNCHANGED <<legs, breaks>> PROVE Goal
  BY <1>u DEF LegMovesForward, BreakIsKept, BreaksKeyed
<1>1. ASSUME NEW ack \in BOOLEAN, IngestStep(ack) PROVE Goal
  <2>1. todo \in Seq(Arrival) /\ todo # <<>>
    BY <1>1 DEF IngestStep, Agreement, TypeOK, ControlOK
  <2>2. Head(todo) \in Arrival
    BY <2>1
  <2>3. Head(todo).leg \in Leg
    BY <2>2 DEF Arrival
  <2>4. PICK blind, lost :
          /\ Suffer(blind, lost, ack)
          /\ IngestOne(Head(todo).leg, Head(todo).at, TRUE, blind, lost, ack)
    BY <1>1 DEF IngestStep
  <2>5. ack = TRUE /\ index = OpenLegs
    BY <1>s, <1>1, <1>m, <2>4, Acknowledged DEF IngestStep
  <2> QED
    BY <1>s, <2>3, <2>4, <2>5, IngestOneForward
<1>2. ASSUME NEW ack \in BOOLEAN, ExpireStep(ack) PROVE Goal
  <2>1. PICK l \in First(due) :
          OpenBreak({l}, "window_expired", l, legs[l].at, <<Ev("leg.expired", {l})>>)
    BY <1>2 DEF ExpireStep
  <2>2. legs[l].status = "open"
    BY <1>2, <1>m DEF ExpireStep, Agreement, DueIsOpen, First, OpenLegs
  <2>3. \A x \in Leg : /\ x = l => legs'[x].status = "break"
                       /\ x # l => legs'[x] = legs[x]
    BY <2>1, SetLegsEffect DEF OpenBreak
  <2>4. \A x \in Leg : LegMovesForward(x)
    BY <2>2, <2>3 DEF LegMovesForward
  <2>5. BreaksKeyed' /\ \A b \in breaks : BreakIsKept(b)
    BY <1>s, <2>1, <2>2, OpenBreakKept DEF StoreAgrees
  <2> QED
    BY <2>4, <2>5
<1>3. ASSUME NEW b \in breaks, ResolveBreak(b) PROVE Goal
  <2>1. BreaksKeyed' /\ \A c \in breaks : BreakIsKept(c)
    BY <1>s, <1>3, ResolveKept DEF ResolveBreak
  <2> QED
    BY <1>3, <2>1 DEF ResolveBreak, LegMovesForward
<1>4. ASSUME ReplayReset PROVE Goal
  BY <1>4 DEF ReplayReset, Resetting, Release, BreaksKeyed
<1>5. ASSUME NEW ack \in BOOLEAN, ReplayStep(ack) PROVE Goal
  <2> DEFINE e == log[cursor]
  <2>1. e \in Event
    BY <1>5 DEF ReplayStep, Agreement, TypeOK, ControlOK
  <2>2. e.legs \subseteq Leg
    BY <2>1 DEF Event
  <2>3. PICK blind, lost :
          /\ Suffer(blind, lost, ack)
          /\ \/ \E l \in e.legs : IngestOne(l, e.at, FALSE, blind, lost, ack)
             \/ ReapplyResolution(e, blind)
             \/ UNCHANGED <<store, index>>
    BY <1>5, Zenon DEF ReplayStep
  <2>4. ack = TRUE /\ index = OpenLegs
    BY <1>s, <1>5, <1>m, <2>3, Acknowledged DEF ReplayStep
  <2> HIDE DEF e
  <2>5. CASE \E l \in e.legs : IngestOne(l, e.at, FALSE, blind, lost, ack)
    BY <1>s, <2>2, <2>4, <2>5, IngestOneForward
  <2>6. CASE ReapplyResolution(e, blind)
    <3>1. UNCHANGED legs
      BY <2>6, Zenon DEF ReapplyResolution
    <3>2. BreaksKeyed' /\ \A b \in breaks : BreakIsKept(b)
      BY <1>s, <2>6, ReapplyKept
    <3> QED
      BY <3>1, <3>2 DEF LegMovesForward
  <2>7. CASE UNCHANGED <<store, index>>
    BY <1>u, <2>7 DEF store
  <2> QED
    BY <2>3, <2>5, <2>6, <2>7
<1>6. ASSUME NEW kind, NEW age, Expire(kind, age) PROVE UNCHANGED <<legs, breaks>>
  BY <1>6 DEF Expire, store
<1>7. \/ \E ack \in BOOLEAN : IngestStep(ack) \/ ExpireStep(ack) \/ ReplayStep(ack)
      \/ \E b \in breaks : ResolveBreak(b)
      \/ ReplayReset
      \/ UNCHANGED <<legs, breaks>>
  BY <1>6 DEF Next, Ingest, Sweep, CloseWindow, WindowClosed, Replay, Abort,
              Crash, Rebuild, Tick, vars, store
<1> HIDE DEF Goal
<1>8. Goal
  BY <1>u, <1>1, <1>2, <1>3, <1>4, <1>5, <1>7
<1> QED
  BY <1>8 DEF Goal

\* Breaks stay identified by their legs.
LEMMA AlwaysKeyed ==
    ASSUME "ambiguous" \notin Faults PROVE Spec => []BreaksKeyed
<1>1. Init => BreaksKeyed
  BY DEF Init, BreaksKeyed
<1>2. Agreement /\ BreaksKeyed /\ [Next]_vars => BreaksKeyed'
  BY NextForward
<1> QED
  BY <1>1, <1>2, AgreementInvariant, PTL DEF Spec

\* If no commit is answered with an error, a leg only moves forward outside the
\* reset of a replay: it is never lost, and matched for ever once it is.
THEOREM LifecycleForward ==
    ASSUME "ambiguous" \notin Faults PROVE Spec => LegsMoveForward
<1>1. Agreement /\ BreaksKeyed /\ [Next]_vars =>
         [Resetting \/ \A l \in Leg : LegMovesForward(l)]_vars
  BY NextForward
<1> QED
  BY <1>1, AgreementInvariant, AlwaysKeyed, PTL DEF Spec, LegsMoveForward

\* Under the same hypothesis a break keeps its label and its time outside the
\* reset of a replay, and a resolution, by an operator or by a late match, is
\* never undone or taken over.
THEOREM ResolutionsAlwaysFinal ==
    ASSUME "ambiguous" \notin Faults PROVE Spec => ResolutionsFinal
<1>1. Agreement /\ BreaksKeyed /\ [Next]_vars =>
         [Resetting \/ \A b \in breaks : BreakIsKept(b)]_vars
  BY NextForward
<1> QED
  BY <1>1, AgreementInvariant, AlwaysKeyed, PTL DEF Spec, ResolutionsFinal

-----------------------------------------------------------------------------
(* The event log.                                                          *)

\* Where the events of an append end up.
LEMMA Appended ==
    ASSUME log \in Seq(Event), NEW p \in Seq(Event), NEW q \in Seq(Event),
           log' = log \o p \o q
    PROVE  /\ \A i \in DOMAIN log : i \in DOMAIN log' /\ log'[i] = log[i]
           /\ \A j \in DOMAIN p :
                 Len(log) + j \in DOMAIN log' /\ log'[Len(log) + j] = p[j]
           /\ \A j \in DOMAIN q :
                 /\ Len(log) + Len(p) + j \in DOMAIN log'
                 /\ log'[Len(log) + Len(p) + j] = q[j]
           /\ \A i \in DOMAIN log' \ DOMAIN log :
                 \/ \E j \in DOMAIN p : i = Len(log) + j
                 \/ \E j \in DOMAIN q : i = Len(log) + Len(p) + j
<1>1. /\ DOMAIN log = 1..Len(log) /\ DOMAIN p = 1..Len(p) /\ DOMAIN q = 1..Len(q)
      /\ DOMAIN log' = 1..(Len(log) + Len(p) + Len(q))
      /\ Len(log) \in Nat /\ Len(p) \in Nat /\ Len(q) \in Nat
  OBVIOUS
<1>2. \A i \in DOMAIN log : i \in DOMAIN log' /\ log'[i] = log[i]
  BY <1>1
<1>3. \A j \in DOMAIN p :
         Len(log) + j \in DOMAIN log' /\ log'[Len(log) + j] = p[j]
  BY <1>1
<1>4. \A j \in DOMAIN q :
         /\ Len(log) + Len(p) + j \in DOMAIN log'
         /\ log'[Len(log) + Len(p) + j] = q[j]
  BY <1>1
<1>5. ASSUME NEW i \in DOMAIN log' \ DOMAIN log
      PROVE  \/ \E j \in DOMAIN p : i = Len(log) + j
             \/ \E j \in DOMAIN q : i = Len(log) + Len(p) + j
  <2>1. CASE i <= Len(log) + Len(p)
    <3>1. i - Len(log) \in DOMAIN p /\ i = Len(log) + (i - Len(log))
      BY <1>1, <2>1
    <3> QED
      BY <3>1
  <2>2. CASE ~(i <= Len(log) + Len(p))
    <3>1. /\ i - (Len(log) + Len(p)) \in DOMAIN q
          /\ i = Len(log) + Len(p) + (i - (Len(log) + Len(p)))
      BY <1>1, <2>2
    <3> QED
      BY <3>1
  <2> QED
    BY <2>1, <2>2
<1> QED
  BY <1>2, <1>3, <1>4, <1>5

\* An append keeps what was logged and logs what it appends.
LEMMA LogGrowth ==
    ASSUME log \in Seq(Event), NEW p \in Seq(Event), NEW q \in Seq(Event),
           log' = log \o p \o q
    PROVE  /\ \A type, S : Logged(type, S) => Logged(type, S)'
           /\ \A i \in DOMAIN p : Logged(p[i].type, p[i].legs)'
           /\ \A i \in DOMAIN q : Logged(q[i].type, q[i].legs)'
<1>1. /\ \A i \in DOMAIN log : i \in DOMAIN log' /\ log'[i] = log[i]
      /\ \A j \in DOMAIN p :
            Len(log) + j \in DOMAIN log' /\ log'[Len(log) + j] = p[j]
      /\ \A j \in DOMAIN q :
            /\ Len(log) + Len(p) + j \in DOMAIN log'
            /\ log'[Len(log) + Len(p) + j] = q[j]
  BY Appended, Zenon
<1>2. \A type, S : Logged(type, S) => Logged(type, S)'
  BY <1>1, Zenon DEF Logged
<1>3. \A i \in DOMAIN p : Logged(p[i].type, p[i].legs)'
  BY <1>1, Zenon DEF Logged
<1>4. \A i \in DOMAIN q : Logged(q[i].type, q[i].legs)'
  BY <1>1, Zenon DEF Logged
<1> QED
  BY <1>2, <1>3, <1>4

\* The leg.ingested events of the log, each of one leg.
IngestedSingly ==
    \A i \in DOMAIN log : log[i].type = "leg.ingested" => \E l \in Leg : log[i].legs = {l}

\* Every step but those of ingestOne leaves the log, or appends events of other
\* types.
AppendsNoIngested ==
    /\ \A i \in DOMAIN log : i \in DOMAIN log' /\ log'[i] = log[i]
    /\ \A i \in DOMAIN log' \ DOMAIN log : log'[i].type # "leg.ingested"

\* The same of an append of one event, or of none.
LEMMA AppendedOne ==
    ASSUME log \in Seq(Event), NEW e \in Event,
           log' = Append(log, e) \/ log' = log
    PROVE  /\ \A i \in DOMAIN log : i \in DOMAIN log' /\ log'[i] = log[i]
           /\ \A type, S : Logged(type, S) => Logged(type, S)'
           /\ \A i \in DOMAIN log' \ DOMAIN log : i = Len(log) + 1 /\ log'[i] = e
           /\ log' = Append(log, e) => Logged(e.type, e.legs)'
           /\ e.type # "leg.ingested" => AppendsNoIngested
<1>1. CASE log' = log
  <2>1. Append(log, e) # log
    <3>1. Len(Append(log, e)) = Len(log) + 1 /\ Len(log) \in Nat
      OBVIOUS
    <3> QED
      BY <3>1
  <2> QED
    BY <1>1, <2>1 DEF Logged, AppendsNoIngested
<1>2. CASE log' = Append(log, e)
  <2>1. \A i \in DOMAIN log : i \in DOMAIN log' /\ log'[i] = log[i]
    BY <1>2
  <2>2. Len(log) + 1 \in DOMAIN log' /\ log'[Len(log) + 1] = e
    BY <1>2
  <2>3. \A i \in DOMAIN log' \ DOMAIN log : i = Len(log) + 1
    BY <1>2
  <2> QED
    BY <2>1, <2>2, <2>3 DEF Logged, AppendsNoIngested
<1> QED
  BY <1>1, <1>2

\* Opening a break logs no arrival but the one announced before it.
LEMMA OpenBreakAppends ==
    ASSUME log \in Seq(Event), NEW S \in SUBSET Leg, NEW trigger, NEW l, NEW t,
           NEW before \in Seq(Event), OpenBreak(S, trigger, l, t, before)
    PROVE  /\ \A i \in DOMAIN log : i \in DOMAIN log' /\ log'[i] = log[i]
           /\ \A i \in DOMAIN log' \ DOMAIN log :
                 \/ log'[i].type = "break.opened"
                 \/ \E j \in DOMAIN before : i = Len(log) + j /\ log'[i] = before[j]
<1> DEFINE opened == <<Ev("break.opened", S)>>
<1>1. opened \in Seq(Event) /\ \A j \in DOMAIN opened : opened[j].type = "break.opened"
  BY DEF Ev, Event, EventTypes
<1>2. log' = log \o before \o opened
  BY DEF OpenBreak
<1> HIDE DEF opened
<1>3. /\ \A i \in DOMAIN log : i \in DOMAIN log' /\ log'[i] = log[i]
      /\ \A j \in DOMAIN before : log'[Len(log) + j] = before[j]
      /\ \A j \in DOMAIN opened : log'[Len(log) + Len(before) + j] = opened[j]
      /\ \A i \in DOMAIN log' \ DOMAIN log :
            \/ \E j \in DOMAIN before : i = Len(log) + j
            \/ \E j \in DOMAIN opened : i = Len(log) + Len(before) + j
  BY <1>1, <1>2, Appended
<1> QED
  BY <1>1, <1>3

\* ingestOne announces a leg at most once, and only one that is not stored; it
\* does not do so on a replay.  A resolution it logs names the match.
LEMMA IngestOneAppends ==
    ASSUME StoreTyped, NEW l \in Leg, NEW t \in Nat, NEW live \in BOOLEAN,
           NEW blind, NEW lost, NEW ack, IngestOne(l, t, live, blind, lost, ack)
    PROVE  /\ \A i \in DOMAIN log : i \in DOMAIN log' /\ log'[i] = log[i]
           /\ \A i \in DOMAIN log' \ DOMAIN log :
                 /\ log'[i].type = "leg.ingested" =>
                       live /\ ~HasLeg(l) /\ i = Len(log) + 1 /\ log'[i].legs = {l}
                 /\ log'[i].type = "break.resolved" => log'[i].match # {}
<1>0. PICK found, healable :
        \/ DropRedelivery(l, live)
        \/ BreakReusedRef(l, t, live)
        \/ /\ Fresh(l) /\ found = Found(l, blind) /\ healable = Healable(l, lost)
           /\ \/ MatchOpen(l, t, live, found, ack)
              \/ BreakOpenPartner(l, t, live, found, ack)
              \/ HealLateArrival(l, t, live, found, healable)
              \/ BreakKnownRef(l, t, live, found, healable)
              \/ WaitInWindow(l, t, live, found, ack)
  BY Zenon DEF IngestOne
<1> DEFINE Goal ==
             /\ \A i \in DOMAIN log : i \in DOMAIN log' /\ log'[i] = log[i]
             /\ \A i \in DOMAIN log' \ DOMAIN log :
                   /\ log'[i].type = "leg.ingested" =>
                         live /\ ~HasLeg(l) /\ i = Len(log) + 1 /\ log'[i].legs = {l}
                   /\ log'[i].type = "break.resolved" => log'[i].match # {}
           said == Announce(l, t, live)
<1>t. log \in Seq(Event) /\ index \subseteq Leg
  BY DEF StoreTyped
<1>a. said \in Seq(Event)
  BY EventTypesOK
<1>b. \A j \in DOMAIN said : /\ live /\ j = 1 /\ said[j].legs = {l}
                            /\ said[j].type = "leg.ingested"
  BY DEF Announce, IngestedEv, Ev
<1> HIDE DEF said
<1>p. ASSUME ~HasLeg(l), NEW q \in Seq(Event), log' = log \o said \o q,
             \A j \in DOMAIN q : /\ q[j].type # "leg.ingested"
                                 /\ q[j].type = "break.resolved" => q[j].match # {}
      PROVE  Goal
  <2>1. /\ \A i \in DOMAIN log : i \in DOMAIN log' /\ log'[i] = log[i]
        /\ \A j \in DOMAIN said :
              Len(log) + j \in DOMAIN log' /\ log'[Len(log) + j] = said[j]
        /\ \A j \in DOMAIN q :
              /\ Len(log) + Len(said) + j \in DOMAIN log'
              /\ log'[Len(log) + Len(said) + j] = q[j]
        /\ \A i \in DOMAIN log' \ DOMAIN log :
              \/ \E j \in DOMAIN said : i = Len(log) + j
              \/ \E j \in DOMAIN q : i = Len(log) + Len(said) + j
    BY <1>p, <1>t, <1>a, Appended
  <2>2. ASSUME NEW i \in DOMAIN log' \ DOMAIN log
        PROVE  /\ log'[i].type = "leg.ingested" =>
                     live /\ ~HasLeg(l) /\ i = Len(log) + 1 /\ log'[i].legs = {l}
               /\ log'[i].type = "break.resolved" => log'[i].match # {}
    <3>1. CASE \E j \in DOMAIN said : i = Len(log) + j /\ log'[i] = said[j]
      BY <1>p, <1>b, <3>1
    <3>2. CASE \E j \in DOMAIN q : log'[i] = q[j]
      BY <1>p, <3>2
    <3> QED
      BY <2>1, <3>1, <3>2
  <2> QED
    BY <2>1, <2>2
<1>o. ASSUME ~HasLeg(l), NEW S \in SUBSET Leg, NEW trigger,
             OpenBreak(S, trigger, l, t, said)
      PROVE  Goal
  <2>1. <<Ev("break.opened", S)>> \in Seq(Event)
    BY DEF Ev, Event, EventTypes
  <2>2. \A j \in DOMAIN <<Ev("break.opened", S)>> :
           <<Ev("break.opened", S)>>[j].type = "break.opened"
    BY DEF Ev
  <2>3. log' = log \o said \o <<Ev("break.opened", S)>>
    BY <1>o DEF OpenBreak
  <2> QED
    BY <1>o, <1>p, <2>1, <2>2, <2>3
<1> HIDE DEF Goal
<1>1. ASSUME DropRedelivery(l, live) PROVE Goal
  <2>1. /\ <<Ev("leg.duplicate", {l})>> \in Seq(Event)
        /\ \A j \in DOMAIN <<Ev("leg.duplicate", {l})>> :
              <<Ev("leg.duplicate", {l})>>[j].type = "leg.duplicate"
    BY DEF Ev, Event, EventTypes
  <2>2. <<>> \in Seq(Event) /\ DOMAIN <<>> = {}
    OBVIOUS
  <2>3. PICK q \in Seq(Event) :
          /\ log' = log \o <<>> \o q
          /\ \A j \in DOMAIN q : q[j].type = "leg.duplicate"
    <3>1. Ev("leg.duplicate", {l}) \in Event
      BY DEF Ev, Event, EventTypes
    <3>2. CASE log' = Append(log, Ev("leg.duplicate", {l}))
      <4>1. log \o <<>> = log
        BY <1>t
      <4>2. \A x \in Event : Append(log, x) = log \o <<x>>
        BY <1>t
      <4>3. log' = log \o <<>> \o <<Ev("leg.duplicate", {l})>>
        BY <3>1, <3>2, <4>1, <4>2
      <4> QED
        BY <2>1, <4>3
    <3>3. CASE log' = log
      <4>1. log' = log \o <<>> \o <<>>
        BY <1>t, <3>3
      <4> QED
        BY <2>2, <4>1
    <3> QED
      BY <1>1, <3>2, <3>3 DEF DropRedelivery
  <2> QED
    BY <1>t, <2>2, <2>3, Appended DEF Goal
<1>2. ASSUME BreakReusedRef(l, t, live) PROVE Goal
  BY <1>2, <1>o DEF BreakReusedRef, said
<1>3. ASSUME Fresh(l), found = Found(l, blind), MatchOpen(l, t, live, found, ack)
      PROVE  Goal
  <2>1. PICK m \in found : log' = log \o said \o <<Ev("match.created", m.legs)>>
    BY <1>3 DEF MatchOpen, said
  <2>2. m.legs \subseteq Leg
    BY <1>3, <1>t, FoundMatch DEF Found
  <2>3. /\ <<Ev("match.created", m.legs)>> \in Seq(Event)
        /\ \A j \in DOMAIN <<Ev("match.created", m.legs)>> :
              <<Ev("match.created", m.legs)>>[j].type = "match.created"
    BY <2>2 DEF Ev, Event, EventTypes
  <2> QED
    BY <1>3, <1>p, <2>1, <2>3 DEF Fresh
<1>4. ASSUME Fresh(l), BreakOpenPartner(l, t, live, found, ack) PROVE Goal
  <2>1. OpenBreak({l} \cup ByRef(l, index), "ref_conflict", l, t, said)
    BY <1>4 DEF BreakOpenPartner, said
  <2>2. {l} \cup ByRef(l, index) \subseteq Leg
    BY <1>t DEF ByRef
  <2> QED
    BY <1>4, <1>o, <2>1, <2>2 DEF Fresh
<1>5. ASSUME Fresh(l), healable = Healable(l, lost),
             HealLateArrival(l, t, live, found, healable)
      PROVE  Goal
  <2>1. PICK r \in Healable(l, lost) :
          LET b == CHOOSE b \in breaks : b.legs = legs[r].brk
          IN  log' = log \o said \o <<Ev("match.created", {l, r}),
                                     ResolvedEv(b.legs, {l, r})>>
    BY <1>5 DEF HealLateArrival, said
  <2>2. r \in Leg /\ \E c \in breaks : c.legs = legs[r].brk
    BY DEF Healable, Related, Stored
  <2>3. PICK b \in breaks :
          log' = log \o said \o <<Ev("match.created", {l, r}), ResolvedEv(b.legs, {l, r})>>
    BY <2>1, <2>2
  <2> DEFINE made == <<Ev("match.created", {l, r}), ResolvedEv(b.legs, {l, r})>>
  <2>4. b.legs \subseteq Leg
    BY DEF StoreTyped, Break
  <2>5. Ev("match.created", {l, r}) \in Event /\ ResolvedEv(b.legs, {l, r}) \in Event
    BY <2>2, <2>4 DEF ResolvedEv, Ev, Event, EventTypes
  <2>6. /\ made \in Seq(Event)
        /\ \A j \in DOMAIN made : /\ made[j].type # "leg.ingested"
                                  /\ made[j].type = "break.resolved" => made[j].match # {}
    BY <2>5 DEF ResolvedEv, Ev
  <2>7. log' = log \o said \o made /\ ~HasLeg(l)
    BY <1>5, <2>3 DEF Fresh
  <2> HIDE DEF made
  <2> QED
    BY <1>p, <2>6, <2>7
<1>6. ASSUME Fresh(l), BreakKnownRef(l, t, live, found, healable) PROVE Goal
  BY <1>6, <1>o DEF BreakKnownRef, Fresh, said
<1>7. ASSUME Fresh(l), WaitInWindow(l, t, live, found, ack) PROVE Goal
  <2>1. log' = log \o said \o <<>>
    BY <1>7, <1>a, <1>t DEF WaitInWindow, said
  <2>2. <<>> \in Seq(Event) /\ DOMAIN <<>> = {}
    OBVIOUS
  <2> QED
    BY <1>7, <1>p, <2>1, <2>2 DEF Fresh
<1>8. Goal
  BY <1>0, <1>1, <1>2, <1>3, <1>4, <1>5, <1>6, <1>7
<1> QED
  BY <1>8 DEF Goal

\* The legs in memory, and those left to expire, are stored.
MemoryIsStored ==
    /\ index \subseteq Stored
    /\ op \in {"sweep", "close"} => due \subseteq index

\* Every outcome of ingestOne leaves the leg stored and forgets none.
LEMMA IngestOneStores ==
    ASSUME StoreTyped, NEW l \in Leg, NEW t, NEW live, NEW blind, NEW lost, NEW ack,
           IngestOne(l, t, live, blind, lost, ack)
    PROVE  l \in Stored' /\ Stored \subseteq Stored'
<1>0. PICK found, healable :
        \/ DropRedelivery(l, live)
        \/ BreakReusedRef(l, t, live)
        \/ /\ Fresh(l) /\ found = Found(l, blind) /\ healable = Healable(l, lost)
           /\ \/ MatchOpen(l, t, live, found, ack)
              \/ BreakOpenPartner(l, t, live, found, ack)
              \/ HealLateArrival(l, t, live, found, healable)
              \/ BreakKnownRef(l, t, live, found, healable)
              \/ WaitInWindow(l, t, live, found, ack)
  BY Zenon DEF IngestOne
<1>s. ASSUME NEW S, l \in S, NEW status, status # "absent", NEW m, NEW b,
             SetLegs(S, status, m, b, l, t)
      PROVE  l \in Stored' /\ Stored \subseteq Stored'
  BY <1>s, SetLegsEffect DEF Stored
<1>1. CASE DropRedelivery(l, live)
  BY <1>1 DEF DropRedelivery, HasLeg, Stored
<1>2. CASE BreakReusedRef(l, t, live)
  BY <1>2, <1>s DEF BreakReusedRef, OpenBreak
<1>3. CASE found = Found(l, blind) /\ MatchOpen(l, t, live, found, ack)
  <2>1. PICK m \in found : SetLegs(m.legs, "matched", m.legs, {}, l, t)
    BY <1>3 DEF MatchOpen
  <2>2. l \in m.legs
    BY <1>3, FoundMatch DEF Found, StoreTyped
  <2> QED
    BY <1>s, <2>1, <2>2
<1>4. CASE BreakOpenPartner(l, t, live, found, ack)
  BY <1>4, <1>s DEF BreakOpenPartner, OpenBreak
<1>5. CASE HealLateArrival(l, t, live, found, healable)
  <2>1. \E r : SetLegs({l, r}, "matched", {l, r}, {}, l, t)
    BY <1>5, Zenon DEF HealLateArrival
  <2> QED
    BY <1>s, <2>1
<1>6. CASE BreakKnownRef(l, t, live, found, healable)
  BY <1>6, <1>s DEF BreakKnownRef, OpenBreak
<1>7. CASE WaitInWindow(l, t, live, found, ack)
  BY <1>7, <1>s DEF WaitInWindow
<1> QED
  BY <1>0, <1>1, <1>2, <1>3, <1>4, <1>5, <1>6, <1>7

\* A step of Ingest that logs the arrival of l, which was not stored.
Announces(l) ==
    /\ ~HasLeg(l) /\ l \in Stored'
    /\ \A i \in DOMAIN log : i \in DOMAIN log' /\ log'[i] = log[i]
    /\ \A i \in DOMAIN log' \ DOMAIN log :
          log'[i].type = "leg.ingested" => i = Len(log) + 1 /\ log'[i].legs = {l}

\* No step takes an event out of the log or changes one, and only Ingest logs
\* arrivals, at most one at a time.
LEMMA NextAppends ==
    ASSUME TypeOK, ControlOK, [Next]_vars
    PROVE  AppendsNoIngested \/ (op = "ingest" /\ \E l \in Leg : Announces(l))
<1>s. StoreTyped /\ log \in Seq(Event)
  BY DEF TypeOK, StoreTyped
<1>u. ASSUME UNCHANGED log PROVE AppendsNoIngested
  BY <1>u DEF AppendsNoIngested
<1>1. ASSUME NEW ack \in BOOLEAN, IngestStep(ack)
      PROVE  AppendsNoIngested \/ (op = "ingest" /\ \E l \in Leg : Announces(l))
  <2>1. todo \in Seq(Arrival) /\ todo # <<>>
    BY <1>1 DEF IngestStep, TypeOK, ControlOK
  <2>2. Head(todo) \in Arrival
    BY <2>1
  <2>3. Head(todo).leg \in Leg /\ Head(todo).at \in Nat
    BY <2>2 DEF Arrival
  <2>p. PICK l \in Leg, t \in Nat :
           \E blind, lost : IngestOne(l, t, TRUE, blind, lost, ack)
    BY <1>1, <2>3 DEF IngestStep
  <2>4. PICK blind, lost : IngestOne(l, t, TRUE, blind, lost, ack)
    BY <2>p
  <2>5. /\ \A i \in DOMAIN log : i \in DOMAIN log' /\ log'[i] = log[i]
        /\ \A i \in DOMAIN log' \ DOMAIN log :
              log'[i].type = "leg.ingested" =>
                 ~HasLeg(l) /\ i = Len(log) + 1 /\ log'[i].legs = {l}
    BY <1>s, <2>4, IngestOneAppends
  <2>6. l \in Stored'
    BY <1>s, <2>4, IngestOneStores
  <2>7. CASE HasLeg(l)
    BY <2>5, <2>7 DEF AppendsNoIngested
  <2>8. CASE ~HasLeg(l)
    BY <1>1, <2>5, <2>6, <2>8 DEF Announces, IngestStep
  <2> QED
    BY <2>7, <2>8
<1>2. ASSUME NEW ack \in BOOLEAN, ExpireStep(ack) PROVE AppendsNoIngested
  <2>1. PICK l \in First(due) :
          OpenBreak({l}, "window_expired", l, legs[l].at, <<Ev("leg.expired", {l})>>)
    BY <1>2 DEF ExpireStep
  <2>2. l \in Leg /\ {l} \in SUBSET Leg
    BY DEF First, TypeOK
  <2> DEFINE expired == <<Ev("leg.expired", {l})>>
  <2>3. /\ expired \in Seq(Event)
        /\ \A j \in DOMAIN expired : expired[j].type = "leg.expired"
    BY <2>2 DEF Ev, Event, EventTypes
  <2>4. PICK S, trigger, t :
          S \in SUBSET Leg /\ OpenBreak(S, trigger, l, t, expired)
    BY <2>1, <2>2
  <2> HIDE DEF expired
  <2>5. /\ \A i \in DOMAIN log : i \in DOMAIN log' /\ log'[i] = log[i]
        /\ \A i \in DOMAIN log' \ DOMAIN log :
              \/ log'[i].type = "break.opened"
              \/ \E j \in DOMAIN expired : i = Len(log) + j /\ log'[i] = expired[j]
    BY <1>s, <2>3, <2>4, OpenBreakAppends
  <2> QED
    BY <2>3, <2>5 DEF AppendsNoIngested
<1>3. ASSUME NEW ack \in BOOLEAN, ReplayStep(ack) PROVE AppendsNoIngested
  <2>1. log[cursor] \in Event
    BY <1>3 DEF ReplayStep, TypeOK, ControlOK
  <2>2. PICK e : e = log[cursor]
    OBVIOUS
  <2>3. e.legs \subseteq Leg /\ e.at \in Nat
    BY <2>1, <2>2 DEF Event
  <2>4. \/ \E l \in e.legs : \E blind, lost : IngestOne(l, e.at, FALSE, blind, lost, ack)
        \/ UNCHANGED log
    BY <1>3, <2>2, Zenon DEF ReplayStep, ReapplyResolution, store
  <2>5. ASSUME NEW l \in e.legs, NEW blind, NEW lost,
               IngestOne(l, e.at, FALSE, blind, lost, ack)
        PROVE  AppendsNoIngested
    BY <1>s, <2>3, <2>5, IngestOneAppends DEF AppendsNoIngested
  <2> QED
    BY <1>u, <2>4, <2>5
<1>4. ASSUME NEW b \in breaks, ResolveBreak(b) PROVE AppendsNoIngested
  <2>1. b.legs \subseteq Leg
    BY DEF TypeOK, Break
  <2>2. ResolvedEv(b.legs, {}) \in Event /\ ResolvedEv(b.legs, {}).type # "leg.ingested"
    BY <2>1 DEF ResolvedEv, Ev, Event, EventTypes
  <2> QED
    BY <1>4, <1>s, <2>2, AppendedOne DEF ResolveBreak
<1>5. CASE WindowClosed
  <2>1. /\ Ev("window.closed", {}) \in Event
        /\ Ev("window.closed", {}).type # "leg.ingested"
    BY DEF Ev, Event, EventTypes
  <2> QED
    BY <1>5, <1>s, <2>1, AppendedOne DEF WindowClosed
<1>6. ASSUME NEW from \in ReplayFrom, Replay(from) PROVE AppendsNoIngested
  <2>1. /\ Ev("replay.started", {}) \in Event
        /\ Ev("replay.started", {}).type # "leg.ingested"
    BY DEF Ev, Event, EventTypes
  <2> QED
    BY <1>6, <1>s, <2>1, AppendedOne DEF Replay
<1>7. ASSUME NEW kind, NEW age, Expire(kind, age) PROVE UNCHANGED log
  BY <1>7 DEF Expire, store
<1> QED
  BY <1>u, <1>1, <1>2, <1>3, <1>4, <1>5, <1>6, <1>7
  DEF Next, Ingest, Sweep, CloseWindow, ReplayReset, Abort, Crash, Rebuild, Tick,
      vars, store

\* The leg.ingested events stay events of one leg each.
LEMMA NextIngestedSingly ==
    ASSUME TypeOK, ControlOK, IngestedSingly, [Next]_vars
    PROVE  IngestedSingly'
<1>1. CASE AppendsNoIngested
  BY <1>1 DEF AppendsNoIngested, IngestedSingly
<1>2. CASE \E l \in Leg : Announces(l)
  BY <1>2 DEF Announces, IngestedSingly
<1> QED
  BY <1>1, <1>2, NextAppends

\* What the log must hold after a transaction: the incoming leg, the match or
\* break it made and the resolution it took.
LEMMA StaysCovered ==
    ASSUME LogCoversStore, NEW l,
           \A type, S : Logged(type, S) => Logged(type, S)',
           Stored' \subseteq Stored \cup {l}, Logged("leg.ingested", {l})',
           \A m \in matches' \ matches : Logged("match.created", m.legs)',
           \A b \in breaks' \ breaks :
              /\ Logged("break.opened", b.legs)'
              /\ b.status = "resolved" => Logged("break.resolved", b.legs)'
    PROVE  LogCoversStore'
<1>1. \A x \in Stored' : Logged("leg.ingested", {x})'
  BY DEF LogCoversStore
<1>2. \A m \in matches' : Logged("match.created", m.legs)'
  BY DEF LogCoversStore
<1>3. \A b \in breaks' :
         /\ Logged("break.opened", b.legs)'
         /\ b.status = "resolved" => Logged("break.resolved", b.legs)'
  BY DEF LogCoversStore
<1> QED
  BY <1>1, <1>2, <1>3 DEF LogCoversStore

\* A break transaction logs the break it opens.
LEMMA OpenBreakLogged ==
    ASSUME StoreTyped, LogCoversStore, NEW l \in Leg, NEW S \in SUBSET Leg,
           S \subseteq Stored \cup {l}, NEW trigger, NEW t, NEW before \in Seq(Event),
           \/ Logged("leg.ingested", {l})
           \/ \E i \in DOMAIN before :
                 before[i].type = "leg.ingested" /\ before[i].legs = {l},
           OpenBreak(S, trigger, l, t, before)
    PROVE  LogCoversStore'
<1> DEFINE opened == <<Ev("break.opened", S)>>
<1>1. opened \in Seq(Event) /\ 1 \in DOMAIN opened
  BY DEF Ev, Event, EventTypes
<1>2. opened[1].type = "break.opened" /\ opened[1].legs = S
  BY DEF Ev
<1>3. log' = log \o before \o opened
  BY DEF OpenBreak
<1> HIDE DEF opened
<1>4. /\ \A type, T : Logged(type, T) => Logged(type, T)'
      /\ \A i \in DOMAIN before : Logged(before[i].type, before[i].legs)'
      /\ \A i \in DOMAIN opened : Logged(opened[i].type, opened[i].legs)'
  BY <1>1, <1>3, LogGrowth DEF StoreTyped
<1>5. Logged("leg.ingested", {l})' /\ Logged("break.opened", S)'
  BY <1>1, <1>2, <1>4
<1>6. Stored' \subseteq Stored \cup {l}
  BY SetLegsEffect DEF OpenBreak, Stored
<1>7. matches' = matches
  BY DEF OpenBreak
<1>8. \A b \in breaks' \ breaks : b.legs = S /\ b.status = "open"
  BY DEF OpenBreak, PutBreak, NewBreak
<1> QED
  BY <1>4, <1>5, <1>6, <1>7, <1>8, StaysCovered

\* Every outcome of ingestOne logs what it stores; a replay finds the leg's
\* own event in the log.
LEMMA IngestOneLogged ==
    ASSUME StoreTyped, LogCoversStore, index \subseteq Stored,
           NEW l \in Leg, NEW t \in Nat, NEW live \in BOOLEAN, NEW blind, NEW lost,
           NEW ack, live \/ Logged("leg.ingested", {l}),
           IngestOne(l, t, live, blind, lost, ack)
    PROVE  LogCoversStore' /\ index' \subseteq Stored'
<1>0. PICK found, healable :
        \/ DropRedelivery(l, live)
        \/ BreakReusedRef(l, t, live)
        \/ /\ Fresh(l) /\ found = Found(l, blind) /\ healable = Healable(l, lost)
           /\ \/ MatchOpen(l, t, live, found, ack)
              \/ BreakOpenPartner(l, t, live, found, ack)
              \/ HealLateArrival(l, t, live, found, healable)
              \/ BreakKnownRef(l, t, live, found, healable)
              \/ WaitInWindow(l, t, live, found, ack)
  BY Zenon DEF IngestOne
<1>t. log \in Seq(Event) /\ index \subseteq Leg
  BY DEF StoreTyped
<1>i. index' \subseteq Stored'
  <2>1. index' \subseteq index \cup {l}
    <3>1. \/ UNCHANGED index
          \/ \E S : Reindex(index \ S, ack)
          \/ Reindex(index \cup {l}, ack)
      BY <1>0, Zenon
      DEF DropRedelivery, BreakReusedRef, MatchOpen, BreakOpenPartner,
          HealLateArrival, BreakKnownRef, WaitInWindow
    <3> QED
      BY <3>1 DEF Reindex
  <2> QED
    BY <2>1, IngestOneStores
<1> DEFINE said == Announce(l, t, live)
<1>a. said \in Seq(Event)
  BY EventTypesOK
<1>b. \/ Logged("leg.ingested", {l})
      \/ \E i \in DOMAIN said : said[i].type = "leg.ingested" /\ said[i].legs = {l}
  <2>1. CASE live
    <3>1. said = <<IngestedEv(l, t)>>
      BY <2>1 DEF Announce
    <3>2. IngestedEv(l, t).type = "leg.ingested" /\ IngestedEv(l, t).legs = {l}
      BY DEF IngestedEv, Ev
    <3> HIDE DEF said
    <3>3. 1 \in DOMAIN said /\ said[1] = IngestedEv(l, t)
      BY <3>1
    <3> QED
      BY <3>2, <3>3
  <2> QED
    BY <2>1
<1>1. CASE DropRedelivery(l, live)
  <2>1. Ev("leg.duplicate", {l}) \in Event
    BY DEF Ev, Event, EventTypes
  <2>2. log' = Append(log, Ev("leg.duplicate", {l})) \/ log' = log
    BY <1>1 DEF DropRedelivery
  <2>3. \A type, S : Logged(type, S) => Logged(type, S)'
    BY <1>t, <2>1, <2>2, AppendedOne
  <2>4. l \in Stored /\ UNCHANGED <<legs, matches, breaks>>
    BY <1>1 DEF DropRedelivery, HasLeg
  <2>5. Logged("leg.ingested", {l})'
    BY <2>3, <2>4 DEF LogCoversStore
  <2>6. Stored' = Stored
    BY <2>4 DEF Stored
  <2>7. LogCoversStore'
    BY <2>3, <2>4, <2>5, <2>6, StaysCovered
  <2> QED
    BY <1>i, <2>7
<1>2. CASE BreakReusedRef(l, t, live)
  <2>1. OpenBreak({l}, "duplicate", l, t, said)
    BY <1>2 DEF BreakReusedRef
  <2> HIDE DEF said
  <2> QED
    BY <1>i, <1>a, <1>b, <2>1, OpenBreakLogged
<1>3. CASE found = Found(l, blind) /\ MatchOpen(l, t, live, found, ack)
  <2>1. PICK m \in found :
           /\ SetLegs(m.legs, "matched", m.legs, {}, l, t)
           /\ matches' = matches \cup {m}
           /\ log' = log \o said \o <<Ev("match.created", m.legs)>>
    BY <1>3 DEF MatchOpen
  <2>2. m.legs \subseteq Leg /\ m.legs \subseteq {l} \cup index
    BY <1>3, <1>t, FoundMatch DEF Found
  <2> DEFINE made == <<Ev("match.created", m.legs)>>
  <2>3. made \in Seq(Event) /\ 1 \in DOMAIN made
    BY <2>2 DEF Ev, Event, EventTypes
  <2>4. made[1].type = "match.created" /\ made[1].legs = m.legs
    BY DEF Ev
  <2>5. log' = log \o said \o made
    BY <2>1
  <2> HIDE DEF said, made
  <2>6. /\ \A type, T : Logged(type, T) => Logged(type, T)'
        /\ \A i \in DOMAIN said : Logged(said[i].type, said[i].legs)'
        /\ \A i \in DOMAIN made : Logged(made[i].type, made[i].legs)'
    BY <1>t, <1>a, <2>3, <2>5, LogGrowth
  <2>7. Logged("leg.ingested", {l})' /\ Logged("match.created", m.legs)'
    BY <1>b, <2>3, <2>4, <2>6
  <2>8. Stored' \subseteq Stored \cup {l}
    BY <2>1, <2>2, SetLegsEffect DEF Stored
  <2>9. breaks' = breaks
    BY <1>3 DEF MatchOpen
  <2>10. LogCoversStore'
    BY <2>1, <2>6, <2>7, <2>8, <2>9, StaysCovered
  <2> QED
    BY <1>i, <2>10
<1>4. CASE BreakOpenPartner(l, t, live, found, ack)
  <2>1. OpenBreak({l} \cup ByRef(l, index), "ref_conflict", l, t, said)
    BY <1>4 DEF BreakOpenPartner
  <2>2. {l} \cup ByRef(l, index) \subseteq {l} \cup index
    BY DEF ByRef
  <2> HIDE DEF said
  <2> QED
    BY <1>i, <1>a, <1>b, <1>t, <2>1, <2>2, OpenBreakLogged
<1>5. CASE healable = Healable(l, lost) /\ HealLateArrival(l, t, live, found, healable)
  <2>1. PICK r \in Healable(l, lost) :
          LET pair == {l, r}
              b == CHOOSE b \in breaks : b.legs = legs[r].brk
          IN  /\ SetLegs(pair, "matched", pair, {}, l, t)
              /\ matches' = matches \cup {[legs |-> pair, rule |-> RuleT2Late]}
              /\ PutBreak([b EXCEPT !.status = "resolved", !.actor = "system"])
              /\ log' = log \o Announce(l, t, live)
                            \o <<Ev("match.created", pair),
                                 ResolvedEv(b.legs, pair)>>
    BY <1>5 DEF HealLateArrival
  <2> DEFINE pair == {l, r}
  <2>2. r \in Leg /\ r \in Stored /\ \E c \in breaks : c.legs = legs[r].brk
    BY DEF Healable, Related, Stored
  <2>3. PICK b \in breaks :
          /\ PutBreak([b EXCEPT !.status = "resolved", !.actor = "system"])
          /\ log' = log \o said \o <<Ev("match.created", pair), ResolvedEv(b.legs, pair)>>
    BY <2>1, <2>2
  <2> DEFINE h == [b EXCEPT !.status = "resolved", !.actor = "system"]
             made == <<Ev("match.created", pair), ResolvedEv(b.legs, pair)>>
  <2>4. /\ SetLegs(pair, "matched", pair, {}, l, t)
        /\ matches' = matches \cup {[legs |-> pair, rule |-> RuleT2Late]}
        /\ breaks' = {c \in breaks : c.legs # h.legs} \cup {h}
        /\ log' = log \o said \o made
    BY <2>1, <2>3 DEF PutBreak
  <2>5. b \in Break /\ b.legs \subseteq Leg /\ h.legs = b.legs
    BY <2>3 DEF StoreTyped, Break
  <2>6. Ev("match.created", pair) \in Event /\ ResolvedEv(b.legs, pair) \in Event
    BY <2>2, <2>5 DEF ResolvedEv, Ev, Event, EventTypes
  <2>7. made \in Seq(Event) /\ 1 \in DOMAIN made /\ 2 \in DOMAIN made
    BY <2>6
  <2>8. /\ made[1].type = "match.created" /\ made[1].legs = pair
        /\ made[2].type = "break.resolved" /\ made[2].legs = h.legs
    BY <2>5 DEF ResolvedEv, Ev
  <2>l. log' = log \o said \o made
    BY <2>4
  <2> HIDE DEF said, made, h, pair
  <2>9. /\ \A type, T : Logged(type, T) => Logged(type, T)'
        /\ \A i \in DOMAIN said : Logged(said[i].type, said[i].legs)'
        /\ \A i \in DOMAIN made : Logged(made[i].type, made[i].legs)'
    BY <1>t, <1>a, <2>l, <2>7, LogGrowth
  <2>10. /\ Logged("leg.ingested", {l})' /\ Logged("match.created", pair)'
         /\ Logged("break.resolved", h.legs)' /\ Logged("break.opened", h.legs)'
    BY <1>b, <2>3, <2>5, <2>7, <2>8, <2>9 DEF LogCoversStore
  <2>11. Stored' \subseteq Stored \cup {l}
    BY <2>2, <2>4, SetLegsEffect DEF Stored, pair
  <2>12. \A m \in matches' \ matches : m.legs = pair
    BY <2>4
  <2>13. \A c \in breaks' \ breaks : c = h
    BY <2>4
  <2>14. LogCoversStore'
    BY <2>9, <2>10, <2>11, <2>12, <2>13, StaysCovered
  <2> QED
    BY <1>i, <2>14
<1>6. CASE BreakKnownRef(l, t, live, found, healable)
  <2>1. OpenBreak({l}, "ref_conflict", l, t, said)
    BY <1>6 DEF BreakKnownRef
  <2> HIDE DEF said
  <2> QED
    BY <1>i, <1>a, <1>b, <2>1, OpenBreakLogged
<1>7. CASE WaitInWindow(l, t, live, found, ack)
  <2>1. /\ SetLegs({l}, "open", {}, {}, l, t)
        /\ log' = log \o said /\ UNCHANGED <<matches, breaks>>
    BY <1>7 DEF WaitInWindow
  <2>2. <<>> \in Seq(Event)
    OBVIOUS
  <2> HIDE DEF said
  <2>3. log' = log \o said \o <<>>
    BY <1>a, <1>t, <2>1
  <2>4. /\ \A type, T : Logged(type, T) => Logged(type, T)'
        /\ \A i \in DOMAIN said : Logged(said[i].type, said[i].legs)'
    BY <1>t, <1>a, <2>2, <2>3, LogGrowth
  <2>5. Stored' \subseteq Stored \cup {l}
    BY <2>1, SetLegsEffect DEF Stored
  <2>6. LogCoversStore'
    BY <1>b, <2>1, <2>4, <2>5, StaysCovered
  <2> QED
    BY <1>i, <2>6
<1> QED
  BY <1>0, <1>1, <1>2, <1>3, <1>4, <1>5, <1>6, <1>7

\* Every step of the engine keeps the log complete and the memory stored.
LEMMA NextLogged ==
    ASSUME TypeOK, ControlOK, IngestedSingly, LogCoversStore, MemoryIsStored,
           [Next]_vars
    PROVE  LogCoversStore' /\ MemoryIsStored'
<1>s. StoreTyped /\ index \subseteq Stored
  BY DEF TypeOK, StoreTyped, MemoryIsStored
<1>u. ASSUME UNCHANGED <<legs, matches, breaks>>,
             log' = log \/ \E e \in Event : log' = Append(log, e)
      PROVE  LogCoversStore' /\ Stored' = Stored
  <2>1. \A type, S : Logged(type, S) => Logged(type, S)'
    BY <1>s, <1>u, AppendedOne DEF StoreTyped, Logged
  <2>2. Stored' = Stored
    BY <1>u DEF Stored
  <2> QED
    BY <1>u, <2>1, <2>2 DEF LogCoversStore
<1>1. ASSUME NEW ack \in BOOLEAN, IngestStep(ack)
      PROVE  LogCoversStore' /\ MemoryIsStored'
  <2>1. todo \in Seq(Arrival) /\ todo # <<>>
    BY <1>1 DEF IngestStep, TypeOK, ControlOK
  <2>2. Head(todo) \in Arrival
    BY <2>1
  <2>3. Head(todo).leg \in Leg /\ Head(todo).at \in Nat
    BY <2>2 DEF Arrival
  <2>4. PICK blind, lost :
           IngestOne(Head(todo).leg, Head(todo).at, TRUE, blind, lost, ack)
    BY <1>1 DEF IngestStep
  <2>5. LogCoversStore' /\ index' \subseteq Stored'
    BY <1>s, <2>3, <2>4, IngestOneLogged
  <2>6. op' \in {"ingest", "idle"}
    BY <1>1 DEF IngestStep, Release
  <2> QED
    BY <2>5, <2>6 DEF MemoryIsStored
<1>2. ASSUME NEW kind, NEW age, Expire(kind, age)
      PROVE  LogCoversStore' /\ MemoryIsStored'
  <2>1. UNCHANGED <<legs, matches, breaks, log, index>> /\ due' \subseteq index
    BY <1>2 DEF Expire, Expired, store
  <2> QED
    BY <1>s, <1>u, <2>1 DEF MemoryIsStored
<1>3. ASSUME NEW ack \in BOOLEAN, ExpireStep(ack)
      PROVE  LogCoversStore' /\ MemoryIsStored'
  <2>1. PICK l \in First(due) :
          /\ OpenBreak({l}, "window_expired", l, legs[l].at,
                       <<Ev("leg.expired", {l})>>)
          /\ Reindex(index \ {l}, ack)
          /\ IF ack /\ (op = "close" \/ due # {l})
             THEN due' = due \ {l} /\ UNCHANGED <<op, todo, cursor, through>>
             ELSE Release("idle")
    BY <1>3 DEF ExpireStep
  <2>2. l \in Leg /\ l \in Stored /\ due \subseteq index
    BY <1>3 DEF ExpireStep, MemoryIsStored, First, Stored
  <2>3. <<Ev("leg.expired", {l})>> \in Seq(Event)
    BY <2>2 DEF Ev, Event, EventTypes
  <2>4. LogCoversStore'
    BY <1>s, <2>1, <2>2, <2>3, OpenBreakLogged DEF LogCoversStore
  <2>5. Stored \subseteq Stored'
    BY <2>1, SetLegsEffect DEF OpenBreak, Stored
  <2> QED
    BY <1>s, <2>1, <2>2, <2>4, <2>5 DEF MemoryIsStored, Reindex, Release
<1>4. ASSUME NEW b \in breaks, ResolveBreak(b)
      PROVE  LogCoversStore' /\ MemoryIsStored'
  <2> DEFINE r == [b EXCEPT !.status = "resolved", !.actor = "operator"]
             e == ResolvedEv(b.legs, {})
  <2>1. b \in Break /\ b.legs \subseteq Leg
    BY DEF TypeOK, Break
  <2>2. e \in Event /\ e.type = "break.resolved" /\ e.legs = b.legs
    BY <2>1 DEF ResolvedEv, Ev, Event, EventTypes
  <2>3. /\ breaks' = {c \in breaks : c.legs # r.legs} \cup {r}
        /\ r.legs = b.legs /\ log' = Append(log, e)
        /\ UNCHANGED <<legs, matches, index, op, due>>
    BY <1>4, <2>1 DEF ResolveBreak, PutBreak, control, Break
  <2> HIDE DEF r, e
  <2>4. /\ \A type, S : Logged(type, S) => Logged(type, S)'
        /\ Logged("break.resolved", b.legs)'
    BY <1>s, <2>2, <2>3, AppendedOne DEF StoreTyped
  <2>5. /\ \A l \in Stored : Logged("leg.ingested", {l})'
        /\ \A m \in matches : Logged("match.created", m.legs)'
        /\ \A c \in breaks : /\ Logged("break.opened", c.legs)'
                              /\ c.status = "resolved" => Logged("break.resolved", c.legs)'
    BY <2>4 DEF LogCoversStore
  <2>6. Stored' = Stored
    BY <2>3 DEF Stored
  <2> QED
    BY <2>3, <2>4, <2>5, <2>6 DEF LogCoversStore, MemoryIsStored
<1>5. CASE ReplayReset
  <2>1. Stored' = {} /\ matches' = {} /\ breaks' = {} /\ index' = {}
    BY <1>5 DEF ReplayReset, Stored, Absent
  <2>2. op' \in {"replay", "idle"}
    BY <1>5 DEF ReplayReset, Release
  <2> QED
    BY <2>1, <2>2 DEF LogCoversStore, MemoryIsStored
<1>6. ASSUME NEW ack \in BOOLEAN, ReplayStep(ack)
      PROVE  LogCoversStore' /\ MemoryIsStored'
  <2>1. cursor \in 1..Len(log) /\ log[cursor] \in Event
    BY <1>6 DEF ReplayStep, TypeOK, ControlOK
  <2>2. PICK e : e = log[cursor]
    OBVIOUS
  <2>3. e.legs \subseteq Leg /\ e.at \in Nat /\ Logged(e.type, e.legs)
    BY <2>1, <2>2 DEF Event, Logged, TypeOK
  <2>4. PICK blind, lost :
          \/ /\ e.type = "leg.ingested"
             /\ \E l \in e.legs : IngestOne(l, e.at, FALSE, blind, lost, ack)
          \/ e.type = "break.resolved" /\ ReapplyResolution(e, blind)
          \/ UNCHANGED <<store, index>>
    BY <1>6, <2>2 DEF ReplayStep
  <2>5. op' \in {"replay", "idle"}
    BY <1>6 DEF ReplayStep, Release
  <2>6. CASE /\ e.type = "leg.ingested"
             /\ \E l \in e.legs : IngestOne(l, e.at, FALSE, blind, lost, ack)
    <3>1. PICK l \in e.legs : IngestOne(l, e.at, FALSE, blind, lost, ack)
      BY <2>6
    <3>2. Logged("leg.ingested", {l})
      <4>1. cursor \in DOMAIN log
        BY <1>s, <2>1 DEF StoreTyped
      <4>2. log[cursor].type = "leg.ingested"
        BY <2>2, <2>6
      <4>3. PICK k : e.legs = {k}
        BY <2>2, <4>1, <4>2 DEF IngestedSingly
      <4> QED
        BY <2>3, <2>6, <3>1, <4>3
    <3>3. LogCoversStore' /\ index' \subseteq Stored'
      BY <1>s, <2>3, <3>1, <3>2, IngestOneLogged
    <3> QED
      BY <2>5, <3>3 DEF MemoryIsStored
  <2>7. CASE e.type = "break.resolved" /\ ReapplyResolution(e, blind)
    <3>1. /\ UNCHANGED <<legs, matches, log, index>>
          /\ \A c \in breaks' : c \in breaks \/
                \E b \in breaks :
                   /\ b.legs = e.legs
                   /\ c = [b EXCEPT !.status = "resolved", !.actor = "operator"]
      BY <2>7, Zenon DEF ReapplyResolution
    <3>2. \A c \in breaks' : c \in breaks \/
             \E b \in breaks : b.legs = e.legs /\ c.legs = e.legs
      <4>1. \A b \in breaks :
               [b EXCEPT !.status = "resolved", !.actor = "operator"].legs = b.legs
        BY <1>s DEF StoreTyped, Break
      <4> QED
        BY <3>1, <4>1
    <3>3. Stored' = Stored /\ \A type, S : Logged(type, S)' <=> Logged(type, S)
      BY <3>1 DEF Stored, Logged
    <3>4. LogCoversStore'
      BY <2>3, <2>7, <3>1, <3>2, <3>3 DEF LogCoversStore
    <3> QED
      BY <1>s, <2>5, <3>1, <3>3, <3>4 DEF MemoryIsStored
  <2>8. CASE UNCHANGED <<store, index>>
    BY <1>s, <1>u, <2>5, <2>8 DEF MemoryIsStored, store
  <2> QED
    BY <2>4, <2>6, <2>7, <2>8
<1>7. CASE WindowClosed
  <2>1. Ev("window.closed", {}) \in Event
    BY DEF Ev, Event, EventTypes
  <2> QED
    BY <1>7, <1>s, <1>u, <2>1 DEF WindowClosed, Release, MemoryIsStored
<1>8. ASSUME NEW from \in ReplayFrom, Replay(from)
      PROVE  LogCoversStore' /\ MemoryIsStored'
  <2>1. Ev("replay.started", {}) \in Event
    BY DEF Ev, Event, EventTypes
  <2> QED
    BY <1>8, <1>s, <1>u, <2>1 DEF Replay, MemoryIsStored
<1>9. CASE Rebuild
  BY <1>9, <1>u DEF Rebuild, MemoryIsStored, OpenLegs, Stored, store
<1>10. CASE Crash
  BY <1>10, <1>u DEF Crash, Release, MemoryIsStored, store
<1>11. CASE Abort
  BY <1>11, <1>s, <1>u DEF Abort, Release, MemoryIsStored, store
<1>12. ASSUME NEW batch \in Batches, Ingest(batch)
       PROVE  LogCoversStore' /\ MemoryIsStored'
  BY <1>12, <1>s, <1>u DEF Ingest, MemoryIsStored, store
<1>13. CASE Tick \/ UNCHANGED vars
  <2>1. UNCHANGED <<legs, matches, breaks, log, index, op, due>>
    BY <1>13 DEF Tick, store, control, vars
  <2> QED
    BY <1>s, <1>u, <2>1 DEF MemoryIsStored
<1> QED
  BY <1>1, <1>2, <1>3, <1>4, <1>5, <1>6, <1>7, <1>8, <1>9, <1>10, <1>11, <1>12,
     <1>13 DEF Next, Sweep, CloseWindow

\* Every leg, match, break and resolution of the projections has its event in
\* the log, whatever fails: lost acknowledgements, failing lookups, crashes,
\* and replays that start anywhere, are interrupted or derive other results.
THEOREM LogAlwaysCoversStore == Spec => []LogCoversStore
<1> DEFINE Inv == /\ TypeOK /\ ControlOK
                  /\ IngestedSingly /\ LogCoversStore /\ MemoryIsStored
<1>1. Init => Inv
  <2> SUFFICES ASSUME Init PROVE Inv
    OBVIOUS
  <2>1. TypeOK /\ ControlOK
    BY DEF Init, TypeOK, ControlOK, Absent, LegState, Statuses, Operations
  <2>2. IngestedSingly /\ LogCoversStore /\ MemoryIsStored
    BY DEF Init, Absent, IngestedSingly, LogCoversStore, Stored, MemoryIsStored
  <2> QED
    BY <2>1, <2>2
<1>2. Inv /\ [Next]_vars => Inv'
  BY NextTyped, NextIngestedSingly, NextLogged
<1> QED
  BY <1>1, <1>2, PTL DEF Spec

-----------------------------------------------------------------------------
(* What is stored.                                                         *)

\* Only the reset of a replay forgets legs, whatever fails.
LEMMA NextStores ==
    ASSUME TypeOK, ControlOK, [Next]_vars
    PROVE  ReplayReset \/ Stored \subseteq Stored'
<1>s. StoreTyped
  BY DEF TypeOK, StoreTyped
<1>u. ASSUME UNCHANGED legs PROVE Stored \subseteq Stored'
  BY <1>u DEF Stored
<1>1. ASSUME NEW ack \in BOOLEAN, IngestStep(ack) PROVE Stored \subseteq Stored'
  <2>1. todo \in Seq(Arrival) /\ todo # <<>>
    BY <1>1 DEF IngestStep, TypeOK, ControlOK
  <2>2. Head(todo) \in Arrival
    BY <2>1
  <2>3. Head(todo).leg \in Leg
    BY <2>2 DEF Arrival
  <2> QED
    BY <1>1, <1>s, <2>3, IngestOneStores DEF IngestStep
<1>2. ASSUME NEW ack \in BOOLEAN, ExpireStep(ack) PROVE Stored \subseteq Stored'
  <2>1. PICK l : OpenBreak({l}, "window_expired", l, legs[l].at,
                           <<Ev("leg.expired", {l})>>)
    BY <1>2 DEF ExpireStep
  <2> QED
    BY <2>1, SetLegsEffect DEF OpenBreak, Stored
<1>3. ASSUME NEW ack \in BOOLEAN, ReplayStep(ack) PROVE Stored \subseteq Stored'
  <2> DEFINE e == log[cursor]
  <2>1. e \in Event
    BY <1>3 DEF ReplayStep, TypeOK, ControlOK
  <2>2. e.legs \subseteq Leg
    BY <2>1 DEF Event
  <2>3. \/ UNCHANGED legs
        \/ \E l \in e.legs : \E blind, lost : IngestOne(l, e.at, FALSE, blind, lost, ack)
    BY <1>3, Zenon DEF ReplayStep, ReapplyResolution, store
  <2> QED
    BY <1>s, <1>u, <2>2, <2>3, IngestOneStores
<1>4. ASSUME NEW kind, NEW age, Expire(kind, age) PROVE UNCHANGED legs
  BY <1>4 DEF Expire, store
<1> QED
  BY <1>u, <1>1, <1>2, <1>3, <1>4
  DEF Next, Ingest, Sweep, CloseWindow, WindowClosed, ResolveBreak, Replay,
      Abort, Crash, Rebuild, Tick, vars, store

-----------------------------------------------------------------------------
(* The engine implements LegLedger, for every set of legs, every rule      *)
(* setting and every bound, provided no commit is acknowledged with an     *)
(* error.  What the ledger calls waiting is what the engine calls open:    *)
(* that is where the agreement of legs, matches, breaks and index enters.  *)

\* What the ledger sees of a step.
Unseen == Stored' = Stored /\ Paired' = Paired /\ Broken' = Broken
          /\ Settled' = Settled

\* An open leg waits: it is in no match and in no break that still holds it.
LEMMA OpenWaits ==
    ASSUME MatchesAgree, BreaksAgree
    PROVE  OpenLegs \subseteq Ledger!Waiting
BY DEF Ledger!Waiting, OpenLegs, Stored, Paired, Broken, MatchesAgree, BreaksAgree

\* The upsert of legs of a status other than absent.
LEMMA SetLegsStores ==
    ASSUME NEW S \in SUBSET Leg, NEW status, status # "absent",
           NEW m, NEW b, NEW l, NEW t, SetLegs(S, status, m, b, l, t)
    PROVE  Stored' = Stored \cup S
BY SetLegsEffect DEF Stored

\* Opening a break adds one broken group.
LEMMA OpenBreakSeen ==
    ASSUME BreaksAgree, NEW S \in SUBSET Leg, S # {}, NEW trigger, NEW l, NEW t,
           NEW before, \A x \in S : legs[x].status \notin {"matched", "break"},
           OpenBreak(S, trigger, l, t, before)
    PROVE  /\ Stored' = Stored \cup S
           /\ Broken' = Broken \cup {S}
           /\ Paired' = Paired /\ Settled' = Settled
<1> DEFINE b == NewBreak(S, trigger, Label(l, S \ {l}, trigger))
<1>1. b.legs = S /\ b.actor = "none"
  BY DEF NewBreak
<1>2. breaks' = {c \in breaks : c.legs # b.legs} \cup {b} /\ matches' = matches
  BY DEF OpenBreak, PutBreak
<1> HIDE DEF b
<1>3. \A c \in breaks : c.legs # S
  BY DEF BreaksAgree
<1>4. breaks' = breaks \cup {b}
  BY <1>1, <1>2, <1>3
<1>5. Stored' = Stored \cup S
  BY SetLegsStores DEF OpenBreak
<1>6. Broken' = Broken \cup {S} /\ Settled' = Settled
  BY <1>1, <1>4 DEF Broken, Settled
<1> QED
  BY <1>2, <1>5, <1>6 DEF Paired

\* Resolving an open break in the name of an operator settles its group.
LEMMA ResolveSeen ==
    ASSUME StoreTyped, StoreAgrees, BreaksKeyed, NEW b \in breaks,
           b.status = "open", UNCHANGED <<legs, matches>>,
           breaks' = (breaks \ {b}) \cup
                     {[b EXCEPT !.status = "resolved", !.actor = "operator"]}
    PROVE  b.legs \in Broken /\ Ledger!Settle(b.legs)
<1> DEFINE r == [b EXCEPT !.status = "resolved", !.actor = "operator"]
<1>1. r.legs = b.legs /\ r.actor = "operator"
  BY DEF StoreTyped, Break
<1>2. breaks' = (breaks \ {b}) \cup {r}
  OBVIOUS
<1> HIDE DEF r
<1>3. b.actor = "none"
  BY DEF StoreAgrees, OpenBreaksUnattributed
<1>4. b.legs \in Broken /\ b.legs \notin Settled
  BY <1>3 DEF Broken, Settled, BreaksKeyed
<1>5. Broken' = Broken
  BY <1>1, <1>2, <1>3 DEF Broken
<1>6. Settled' = Settled \cup {b.legs}
  BY <1>1, <1>2, <1>3 DEF Settled
<1>7. Stored' = Stored /\ Paired' = Paired
  BY DEF Stored, Paired
<1> QED
  BY <1>4, <1>5, <1>6, <1>7 DEF Ledger!Settle

\* Restoring a resolution settles the group of its break, or nothing is seen.
LEMMA ReapplySeen ==
    ASSUME StoreTyped, StoreAgrees, BreaksKeyed, NEW e, NEW blind,
           ReapplyResolution(e, blind)
    PROVE  Unseen \/ \E S \in Broken : Ledger!Settle(S)
<1> DEFINE open == {b \in breaks : b.legs = e.legs /\ b.status = "open"}
           resolved(b) == [b EXCEPT !.status = "resolved", !.actor = "operator"]
<1>1. UNCHANGED <<legs, matches>>
  BY Zenon DEF ReapplyResolution
<1>2. \/ breaks' = breaks
      \/ breaks' = (breaks \ open) \cup {resolved(b) : b \in open}
  BY Zenon DEF ReapplyResolution
<1>3. CASE breaks' = breaks
  BY <1>1, <1>3 DEF Unseen, Stored, Paired, Broken, Settled
<1>4. CASE open = {} /\ breaks' = (breaks \ open) \cup {resolved(b) : b \in open}
  <2>1. breaks' = breaks
    BY <1>4
  <2> QED
    BY <1>3, <2>1
<1>5. ASSUME NEW b \in open,
             breaks' = (breaks \ open) \cup {resolved(c) : c \in open}
      PROVE  \E S \in Broken : Ledger!Settle(S)
  <2>1. open = {b}
    BY DEF BreaksKeyed
  <2> HIDE DEF open
  <2>2. {resolved(c) : c \in open} = {resolved(b)}
    BY <2>1
  <2>3. breaks' = (breaks \ {b}) \cup {resolved(b)}
    BY <1>5, <2>1, <2>2
  <2>4. b \in breaks /\ b.status = "open"
    BY DEF open
  <2> QED
    BY <1>1, <2>3, <2>4, ResolveSeen
<1> QED
  BY <1>2, <1>3, <1>4, <1>5

-----------------------------------------------------------------------------
(* ingestOne.                                                              *)

\* Matching with open legs is a pairing.
LEMMA MatchOpenSeen ==
    ASSUME StoreTyped, StoreAgrees, index = OpenLegs,
           NEW l \in Leg, ~HasLeg(l), NEW t, NEW live, NEW blind, NEW found,
           found = Found(l, blind), MatchOpen(l, t, live, found, TRUE)
    PROVE  \E S \in SUBSET Ledger!Waiting : Ledger!Pair(l, S)
<1>1. PICK m \in found :
         /\ SetLegs(m.legs, "matched", m.legs, {}, l, t)
         /\ matches' = matches \cup {m}
  BY DEF MatchOpen
<1>2. /\ m \in Match /\ l \in m.legs /\ m.legs \subseteq {l} \cup index
      /\ m.legs \cap index # {}
  BY FoundMatch DEF Found, StoreTyped
<1>3. breaks' = breaks /\ l \notin Stored
  BY DEF MatchOpen, HasLeg
<1> DEFINE S == m.legs \ {l}
<1>4. S \subseteq OpenLegs /\ S # {} /\ m.legs = S \cup {l}
  BY <1>2, FreshLeg
<1>5. S \subseteq Ledger!Waiting
  BY <1>4, OpenWaits DEF StoreAgrees
<1>6. Stored' = Stored \cup m.legs
  BY <1>1, <1>2, SetLegsStores DEF Match
<1>7. Stored' = Stored \cup {l}
  BY <1>2, <1>6 DEF OpenLegs, Stored
<1>8. Paired' = Paired \cup {m.legs}
  BY <1>1 DEF Paired
<1>9. Broken' = Broken /\ Settled' = Settled
  BY <1>3 DEF Broken, Settled
<1> HIDE DEF S
<1>10. Paired' = Paired \cup {S \cup {l}}
  BY <1>4, <1>8
<1> QED
  BY <1>3, <1>4, <1>5, <1>7, <1>9, <1>10 DEF Ledger!Pair, Ledger!Receive

\* A late arrival heals the group of one leg.
LEMMA HealSeen ==
    ASSUME StoreTyped, StoreAgrees, BreaksKeyed,
           NEW l \in Leg, ~HasLeg(l), NEW t, NEW live, NEW found, NEW lost,
           NEW healable, healable = Healable(l, lost),
           HealLateArrival(l, t, live, found, healable)
    PROVE  \E r \in Leg : Ledger!Heal(l, r)
<1>1. PICK r \in Healable(l, lost) :
        LET pair == {l, r}
            b == CHOOSE b \in breaks : b.legs = legs[r].brk
        IN  /\ SetLegs(pair, "matched", pair, {}, l, t)
            /\ matches' = matches \cup {[legs |-> pair, rule |-> RuleT2Late]}
            /\ PutBreak([b EXCEPT !.status = "resolved", !.actor = "system"])
  BY DEF HealLateArrival
<1> DEFINE pair == {l, r}
           m == [legs |-> pair, rule |-> RuleT2Late]
           b == CHOOSE b \in breaks : b.legs = legs[r].brk
           h == [b EXCEPT !.status = "resolved", !.actor = "system"]
<1>2. /\ r \in Leg /\ r \in Stored /\ legs[r].status = "break"
      /\ \E c \in breaks : /\ c.legs = legs[r].brk /\ c.status = "open"
                           /\ Cardinality(c.legs) = 1
  BY DEF Healable, Related, Stored
<1>3. b \in breaks /\ b.legs = legs[r].brk
  BY <1>2
<1>4. /\ SetLegs(pair, "matched", pair, {}, l, t)
      /\ matches' = matches \cup {m}
      /\ breaks' = {c \in breaks : c.legs # h.legs} \cup {h}
  BY <1>1 DEF PutBreak
<1> HIDE DEF b
<1>5. h.legs = b.legs /\ h.actor = "system"
  BY <1>3 DEF StoreTyped, Break
<1> HIDE DEF h
<1>6. b.legs = {r}
  <2>1. r \in b.legs /\ b.legs \subseteq Leg
    BY <1>2, <1>3 DEF StoreAgrees, BreaksAgree, StoreTyped, Break
  <2>2. Cardinality(b.legs) = 1
    BY <1>2, <1>3
  <2>3. IsFiniteSet(b.legs)
    BY <2>1, FS_Subset, LegAssumption
  <2>4. PICK x : b.legs = {x}
    BY <2>2, <2>3, FS_Singleton
  <2> QED
    BY <2>1, <2>4
<1>7. b.status = "open" /\ b.actor = "none"
  BY <1>2, <1>3 DEF BreaksKeyed, StoreAgrees, OpenBreaksUnattributed
<1>8. {r} \in Broken \ Settled
  BY <1>3, <1>6, <1>7 DEF Broken, Settled, BreaksKeyed
<1>9. Broken' = Broken \ {{r}}
  BY <1>4, <1>5, <1>6 DEF Broken
<1>10. Settled' = Settled
  BY <1>4, <1>5, <1>6, <1>8 DEF Settled
<1>11. Paired' = Paired \cup {{l, r}}
  <2>1. m.legs = pair
    OBVIOUS
  <2> HIDE DEF m
  <2> QED
    BY <1>4, <2>1 DEF Paired
<1>12. l \notin Stored /\ Stored' = Stored \cup {l}
  <2>1. Stored' = Stored \cup pair
    BY <1>2, <1>4, SetLegsStores
  <2> QED
    BY <1>2, <2>1 DEF HasLeg
<1> QED
  BY <1>2, <1>8, <1>9, <1>10, <1>11, <1>12 DEF Ledger!Heal, Ledger!Receive

\* Breaking a new leg, with the open legs of its txn_ref or alone.
LEMMA RefuseSeen ==
    ASSUME StoreAgrees, NEW l \in Leg, ~HasLeg(l),
           NEW S \in SUBSET OpenLegs, NEW trigger, NEW t, NEW before,
           OpenBreak({l} \cup S, trigger, l, t, before)
    PROVE  \E T \in SUBSET Ledger!Waiting : Ledger!Refuse(l, T)
<1>1. legs[l].status = "absent" /\ l \notin Stored
  BY FreshLeg DEF HasLeg
<1>2. S \subseteq Ledger!Waiting /\ S \subseteq Leg /\ S \subseteq Stored
  BY OpenWaits DEF StoreAgrees, OpenLegs, Stored
<1> DEFINE G == {l} \cup S
<1>3. G \in SUBSET Leg /\ G # {}
      /\ \A x \in G : legs[x].status \notin {"matched", "break"}
  BY <1>1, <1>2 DEF OpenLegs
<1>4. G = S \cup {l} /\ OpenBreak(G, trigger, l, t, before)
  OBVIOUS
<1> HIDE DEF G
<1>5. /\ Stored' = Stored \cup G /\ Broken' = Broken \cup {G}
      /\ Paired' = Paired /\ Settled' = Settled
  BY <1>3, <1>4, OpenBreakSeen DEF StoreAgrees
<1>6. Stored' = Stored \cup {l}
  BY <1>2, <1>4, <1>5
<1>7. Ledger!Refuse(l, S)
  BY <1>1, <1>2, <1>4, <1>5, <1>6 DEF Ledger!Refuse, Ledger!Receive
<1> QED
  BY <1>2, <1>7

\* Every outcome of ingestOne is a step of the ledger or unseen.
LEMMA IngestOneSeen ==
    ASSUME StoreTyped, StoreAgrees, BreaksKeyed, index = OpenLegs,
           NEW l \in Leg, NEW t, NEW live, NEW blind, NEW lost,
           IngestOne(l, t, live, blind, lost, TRUE)
    PROVE  Unseen \/ Ledger!LedgerNext
<1>0. PICK found, healable :
        \/ DropRedelivery(l, live)
        \/ BreakReusedRef(l, t, live)
        \/ /\ Fresh(l) /\ found = Found(l, blind) /\ healable = Healable(l, lost)
           /\ \/ MatchOpen(l, t, live, found, TRUE)
              \/ BreakOpenPartner(l, t, live, found, TRUE)
              \/ HealLateArrival(l, t, live, found, healable)
              \/ BreakKnownRef(l, t, live, found, healable)
              \/ WaitInWindow(l, t, live, found, TRUE)
  BY Zenon DEF IngestOne
<1>1. CASE DropRedelivery(l, live)
  BY <1>1 DEF DropRedelivery, Unseen, Stored, Paired, Broken, Settled
<1>2. ASSUME NEW trigger, ~HasLeg(l),
             OpenBreak({l}, trigger, l, t, Announce(l, t, live))
      PROVE  Ledger!LedgerNext
  <2>1. {l} = {l} \cup {}
    OBVIOUS
  <2>2. OpenBreak({l} \cup {}, trigger, l, t, Announce(l, t, live))
    BY <1>2, <2>1
  <2>3. \E T \in SUBSET Ledger!Waiting : Ledger!Refuse(l, T)
    BY <1>2, <2>2, RefuseSeen
  <2> QED
    BY <2>3 DEF Ledger!LedgerNext
<1>3. CASE BreakReusedRef(l, t, live)
  BY <1>2, <1>3 DEF BreakReusedRef
<1>4. CASE Fresh(l) /\ found = Found(l, blind) /\ MatchOpen(l, t, live, found, TRUE)
  <2>1. \E S \in SUBSET Ledger!Waiting : Ledger!Pair(l, S)
    BY <1>4, MatchOpenSeen DEF Fresh
  <2> QED
    BY <2>1 DEF Ledger!LedgerNext
<1>5. CASE Fresh(l) /\ BreakOpenPartner(l, t, live, found, TRUE)
  <2> DEFINE partners == ByRef(l, index)
  <2>1. /\ ~HasLeg(l)
        /\ OpenBreak({l} \cup partners, "ref_conflict", l, t, Announce(l, t, live))
    BY <1>5 DEF BreakOpenPartner, Fresh
  <2>2. partners \in SUBSET OpenLegs
    BY DEF ByRef
  <2> HIDE DEF partners
  <2>3. \E T \in SUBSET Ledger!Waiting : Ledger!Refuse(l, T)
    BY <2>1, <2>2, RefuseSeen
  <2> QED
    BY <2>3 DEF Ledger!LedgerNext
<1>6. CASE /\ Fresh(l) /\ healable = Healable(l, lost)
           /\ HealLateArrival(l, t, live, found, healable)
  <2>1. \E r \in Leg : Ledger!Heal(l, r)
    BY <1>6, HealSeen DEF Fresh
  <2> QED
    BY <2>1 DEF Ledger!LedgerNext
<1>7. CASE Fresh(l) /\ BreakKnownRef(l, t, live, found, healable)
  BY <1>2, <1>7 DEF BreakKnownRef, Fresh
<1>8. CASE Fresh(l) /\ WaitInWindow(l, t, live, found, TRUE)
  <2>1. UNCHANGED <<matches, breaks>> /\ SetLegs({l}, "open", {}, {}, l, t)
    BY <1>8 DEF WaitInWindow
  <2>2. Stored' = Stored \cup {l} /\ l \notin Stored
    BY <1>8, <2>1, SetLegsStores DEF Fresh, HasLeg
  <2>3. Ledger!Wait(l)
    BY <2>1, <2>2 DEF Ledger!Wait, Ledger!Receive, Paired, Broken, Settled
  <2> QED
    BY <2>3 DEF Ledger!LedgerNext
<1> QED
  BY <1>0, <1>1, <1>3, <1>4, <1>5, <1>6, <1>7, <1>8

-----------------------------------------------------------------------------
(* Every step.                                                             *)

\* Every step of the engine is a step of the ledger or unseen.
LEMMA NextSeen ==
    ASSUME "ambiguous" \notin Faults, Agreement, BreaksKeyed, [Next]_vars
    PROVE  Unseen \/ Ledger!LedgerNext
<1>s. StoreTyped /\ StoreAgrees /\ faults \in Nat
  BY DEF Agreement, TypeOK, StoreTyped
<1>m. op # "down" => index = OpenLegs
  BY DEF Agreement, IndexMirrorsStore
<1>u. ASSUME UNCHANGED <<legs, matches, breaks>> PROVE Unseen
  BY <1>u DEF Unseen, Stored, Paired, Broken, Settled
<1> DEFINE Goal == Unseen \/ Ledger!LedgerNext
<1>1. ASSUME NEW ack \in BOOLEAN, IngestStep(ack) PROVE Goal
  <2>1. todo \in Seq(Arrival) /\ todo # <<>>
    BY <1>1 DEF IngestStep, Agreement, TypeOK, ControlOK
  <2>2. Head(todo) \in Arrival
    BY <2>1
  <2>3. Head(todo).leg \in Leg
    BY <2>2 DEF Arrival
  <2>4. PICK blind, lost :
          /\ Suffer(blind, lost, ack)
          /\ IngestOne(Head(todo).leg, Head(todo).at, TRUE, blind, lost, ack)
    BY <1>1 DEF IngestStep
  <2>5. ack = TRUE /\ index = OpenLegs
    BY <1>s, <1>1, <1>m, <2>4, Acknowledged DEF IngestStep
  <2> QED
    BY <1>s, <2>3, <2>4, <2>5, IngestOneSeen
<1>2. ASSUME NEW ack \in BOOLEAN, ExpireStep(ack) PROVE Goal
  <2>1. PICK l \in First(due) :
          OpenBreak({l}, "window_expired", l, legs[l].at, <<Ev("leg.expired", {l})>>)
    BY <1>2 DEF ExpireStep
  <2>2. l \in OpenLegs /\ l \in Leg /\ l \in Stored /\ legs[l].status = "open"
    BY <1>2, <1>m DEF ExpireStep, Agreement, DueIsOpen, First, OpenLegs, Stored
  <2>3. /\ Stored' = Stored \cup {l} /\ Broken' = Broken \cup {{l}}
        /\ Paired' = Paired /\ Settled' = Settled
    BY <1>s, <2>1, <2>2, OpenBreakSeen DEF StoreAgrees
  <2>4. l \in Ledger!Waiting
    BY <1>s, <2>2, OpenWaits DEF StoreAgrees
  <2>5. Ledger!GiveUp(l)
    BY <2>2, <2>3, <2>4 DEF Ledger!GiveUp
  <2> QED
    BY <2>2, <2>5 DEF Ledger!LedgerNext
<1>3. ASSUME NEW b \in breaks, ResolveBreak(b) PROVE Goal
  <2> DEFINE r == [b EXCEPT !.status = "resolved", !.actor = "operator"]
  <2>1. /\ b.status = "open" /\ UNCHANGED <<legs, matches>>
        /\ breaks' = {c \in breaks : c.legs # r.legs} \cup {r}
    BY <1>3 DEF ResolveBreak, PutBreak
  <2>2. r.legs = b.legs
    BY <1>s DEF StoreTyped, Break
  <2>3. {c \in breaks : c.legs # b.legs} = breaks \ {b}
    BY DEF BreaksKeyed
  <2>4. breaks' = (breaks \ {b}) \cup {r}
    BY <2>1, <2>2, <2>3
  <2>5. b.legs \in Broken /\ Ledger!Settle(b.legs)
    BY <1>s, <2>1, <2>4, ResolveSeen
  <2> QED
    BY <2>5 DEF Ledger!LedgerNext
<1>4. ASSUME ReplayReset PROVE Goal
  <2>1. Ledger!StartOver
    BY <1>4 DEF ReplayReset, Absent, Ledger!StartOver, Stored, Paired, Broken, Settled
  <2> QED
    BY <2>1 DEF Ledger!LedgerNext
<1>5. ASSUME NEW ack \in BOOLEAN, ReplayStep(ack) PROVE Goal
  <2> DEFINE e == log[cursor]
  <2>1. e \in Event
    BY <1>5 DEF ReplayStep, Agreement, TypeOK, ControlOK
  <2>2. e.legs \subseteq Leg
    BY <2>1 DEF Event
  <2>3. PICK blind, lost :
          /\ Suffer(blind, lost, ack)
          /\ \/ \E l \in e.legs : IngestOne(l, e.at, FALSE, blind, lost, ack)
             \/ ReapplyResolution(e, blind)
             \/ UNCHANGED <<store, index>>
    BY <1>5, Zenon DEF ReplayStep
  <2>4. ack = TRUE /\ index = OpenLegs
    BY <1>s, <1>5, <1>m, <2>3, Acknowledged DEF ReplayStep
  <2> HIDE DEF e
  <2>5. CASE \E l \in e.legs : IngestOne(l, e.at, FALSE, blind, lost, ack)
    BY <1>s, <2>2, <2>4, <2>5, IngestOneSeen
  <2>6. CASE ReapplyResolution(e, blind)
    <3>1. Unseen \/ \E S \in Broken : Ledger!Settle(S)
      BY <1>s, <2>6, ReapplySeen
    <3> QED
      BY <3>1 DEF Ledger!LedgerNext
  <2>7. CASE UNCHANGED <<store, index>>
    BY <1>u, <2>7 DEF store
  <2> QED
    BY <2>3, <2>5, <2>6, <2>7
<1>6. ASSUME NEW kind, NEW age, Expire(kind, age)
      PROVE  UNCHANGED <<legs, matches, breaks>>
  BY <1>6 DEF Expire, store
<1>7. \/ \E ack \in BOOLEAN : IngestStep(ack) \/ ExpireStep(ack) \/ ReplayStep(ack)
      \/ \E b \in breaks : ResolveBreak(b)
      \/ ReplayReset
      \/ UNCHANGED <<legs, matches, breaks>>
  BY <1>6 DEF Next, Ingest, Sweep, CloseWindow, WindowClosed, Replay, Abort,
              Crash, Rebuild, Tick, vars, store
<1> HIDE DEF Goal
<1>8. Goal
  BY <1>1, <1>2, <1>3, <1>4, <1>5, <1>7, <1>u DEF Goal
<1> QED
  BY <1>8 DEF Goal

\* The engine implements the ledger: no operation, complete or cut short,
\* receives a leg twice, takes a leg from two places, undoes a match or touches
\* a case an operator settled.
THEOREM EngineImplementsLedger ==
    ASSUME "ambiguous" \notin Faults PROVE Spec => ImplementsLedger
<1>1. Init => Ledger!LedgerInit
  BY DEF Init, Absent, Ledger!LedgerInit, Stored, Paired, Broken, Settled
<1>2. Agreement /\ BreaksKeyed /\ [Next]_vars => [Ledger!LedgerNext]_(Ledger!ledger)
  BY NextSeen DEF Unseen, Ledger!ledger
<1> QED
  BY <1>1, <1>2, AgreementInvariant, AlwaysKeyed, PTL
  DEF Spec, ImplementsLedger, Ledger!LedgerSpec

-----------------------------------------------------------------------------
\* The theorems of the ledger, read for the engine.
Books == INSTANCE LegLedgerProofs WITH
    received <- Stored, paired <- Paired, broken <- Broken, settled <- Settled

\* Every leg the engine stored is in exactly one place: it waits, or it is in
\* one match, or in one break that was not closed by the system.
THEOREM EngineBalanced ==
    ASSUME "ambiguous" \notin Faults PROVE Spec => []Books!Balanced
<1>1. ImplementsLedger => Books!LedgerSpec
  <2>1. Ledger!LedgerInit => Books!LedgerInit
    BY DEF Ledger!LedgerInit, Books!LedgerInit
  <2>2. [Ledger!LedgerNext]_(Ledger!ledger) => [Books!LedgerNext]_(Books!ledger)
    BY DEF Ledger!LedgerNext, Books!LedgerNext, Ledger!ledger, Books!ledger,
           Ledger!Wait, Books!Wait, Ledger!GiveUp, Books!GiveUp,
           Ledger!Pair, Books!Pair, Ledger!Refuse, Books!Refuse,
           Ledger!Heal, Books!Heal, Ledger!Settle, Books!Settle,
           Ledger!StartOver, Books!StartOver, Ledger!Receive, Books!Receive,
           Ledger!Waiting, Books!Waiting
  <2> QED
    BY <2>1, <2>2, PTL DEF ImplementsLedger, Ledger!LedgerSpec, Books!LedgerSpec
<1> QED
  BY <1>1, EngineImplementsLedger, Books!LedgerBalanced, PTL
=============================================================================
