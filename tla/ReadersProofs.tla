--------------------------- MODULE ReadersProofs ---------------------------
(***************************************************************************)
(* What an answer put together from several queries still guarantees, for  *)
(* every number of legs, every page size and everything the engine commits *)
(* between two queries.                                                    *)
(***************************************************************************)
EXTENDS Readers, OutcomeProofs

-----------------------------------------------------------------------------
(* What the engine does to the tables between two queries.                 *)

\* A break that was closed by the system held one leg.
HealedAlone == \A b \in breaks : b.actor = "system" => Cardinality(b.legs) = 1

\* Only matches of the third tier have more than two legs.
Sized(m) ==
    /\ IsFiniteSet(m.legs)
    /\ m.rule # RuleT3Subset => Cardinality(m.legs) <= 2
    /\ m.rule = RuleT3Subset => Cardinality(m.legs) <= T3MaxSubset + 1

MatchesSized == \A m \in matches : Sized(m)

\* What holds of the tables.
TablesOK == Agreement /\ BreaksKeyed /\ HealedAlone /\ MatchesSized

LEMMA IngestOneHealsAlone ==
    ASSUME StoreTyped, HealedAlone, NEW l \in Leg, NEW t, NEW live, NEW blind,
           NEW lost, NEW ack, IngestOne(l, t, live, blind, lost, ack)
    PROVE  HealedAlone' /\ matches \subseteq matches'
<1>1. PICK found, healable :
        /\ healable = Healable(l, lost)
        /\ \/ UNCHANGED breaks /\ matches \subseteq matches'
           \/ \E S, trigger, before : OpenBreak(S, trigger, l, t, before)
           \/ HealLateArrival(l, t, live, found, healable)
  BY DEF IngestOne, DropRedelivery, BreakReusedRef, BreakOpenPartner,
         BreakKnownRef, WaitInWindow, MatchOpen
<1>2. CASE UNCHANGED breaks /\ matches \subseteq matches'
  BY <1>2 DEF HealedAlone
<1>3. ASSUME NEW S, NEW trigger, NEW before, OpenBreak(S, trigger, l, t, before)
      PROVE  HealedAlone' /\ matches \subseteq matches'
  <2>1. PICK category : PutBreak(NewBreak(S, trigger, category)) /\ matches' = matches
    BY <1>3 DEF OpenBreak
  <2>2. NewBreak(S, trigger, category).actor = "none"
    BY DEF NewBreak
  <2> QED
    BY <2>1, <2>2 DEF PutBreak, HealedAlone
<1>4. CASE HealLateArrival(l, t, live, found, healable)
  <2>1. PICK r \in Healable(l, lost) :
          /\ LET b == CHOOSE c \in breaks : c.legs = legs[r].brk
             IN  PutBreak([b EXCEPT !.status = "resolved", !.actor = "system"])
          /\ matches \subseteq matches'
    BY <1>1, <1>4 DEF HealLateArrival
  <2>2. PICK b : b = CHOOSE c \in breaks : c.legs = legs[r].brk
    OBVIOUS
  <2>3. b \in Break /\ Cardinality(b.legs) = 1
    BY <2>2 DEF Healable, StoreTyped
  <2> DEFINE h == [b EXCEPT !.status = "resolved", !.actor = "system"]
  <2>4. h.legs = b.legs
    BY <2>3 DEF Break
  <2>5. PutBreak(h)
    BY <2>1, <2>2
  <2> HIDE DEF h
  <2> QED
    BY <2>1, <2>3, <2>4, <2>5 DEF PutBreak, HealedAlone
<1> QED
  BY <1>1, <1>2, <1>3, <1>4

\* Every match that is added has the size its tier allows.
LEMMA NextSized ==
    ASSUME TypeOK, ControlOK, MatchesSized, [Next]_vars
    PROVE  MatchesSized'
<1>q. ASSUME \A m \in matches' : m \in matches \/ Sized(m) PROVE MatchesSized'
  BY <1>q DEF MatchesSized, Sized
<1>1. ASSUME NEW l \in Leg, NEW t, NEW live, NEW blind, NEW lost, NEW ack,
             IngestOne(l, t, live, blind, lost, ack)
      PROVE  MatchesSized'
  <2>1. PICK found, healable :
          /\ found = Found(l, blind) /\ healable = Healable(l, lost)
          /\ \/ UNCHANGED matches
             \/ MatchOpen(l, t, live, found, ack)
             \/ HealLateArrival(l, t, live, found, healable)
    BY <1>1 DEF IngestOne, DropRedelivery, BreakReusedRef, BreakOpenPartner,
                BreakKnownRef, WaitInWindow, OpenBreak
  <2>2. CASE UNCHANGED matches
    BY <1>q, <2>2
  <2>3. CASE MatchOpen(l, t, live, found, ack)
    <3>1. PICK m \in found : matches' = matches \cup {m}
      BY <2>3 DEF MatchOpen
    <3>2. index \in SUBSET Leg
      BY DEF TypeOK
    <3>3. Sized(m)
      BY <2>1, <3>2, FoundSized DEF Found, Sized
    <3> QED
      BY <1>q, <3>1, <3>3
  <2>4. CASE HealLateArrival(l, t, live, found, healable)
    <3>1. PICK r, m : m = [legs |-> {l, r}, rule |-> RuleT2Late] /\ matches' = matches \cup {m}
      BY <2>4 DEF HealLateArrival
    <3>2. m.legs = {l} \cup {r} /\ m.rule # RuleT3Subset
      BY <3>1 DEF RuleT2Late, RuleT3Subset
    <3>3. IsFiniteSet({l}) /\ Cardinality({l}) = 1
      BY FS_Singleton
    <3>4. /\ IsFiniteSet({l} \cup {r})
          /\ Cardinality({l} \cup {r}) = IF r \in {l} THEN 1 ELSE 2
      BY <3>3, FS_AddElement
    <3>5. Sized(m)
      BY <3>2, <3>4 DEF Sized
    <3> QED
      BY <1>q, <3>1, <3>5
  <2> QED
    BY <2>1, <2>2, <2>3, <2>4
<1>2. ASSUME \/ \E ack \in BOOLEAN : ExpireStep(ack)
             \/ \E e \in Event, blind \in BOOLEAN : ReapplyResolution(e, blind)
             \/ \E b \in breaks : ResolveBreak(b)
             \/ ReplayReset
             \/ UNCHANGED <<legs, matches, breaks>>
      PROVE  \A m \in matches' : m \in matches
  <2>1. ASSUME NEW e, NEW blind, ReapplyResolution(e, blind) PROVE UNCHANGED matches
    BY <2>1, Zenon DEF ReapplyResolution
  <2> QED
    BY <1>2, <2>1 DEF ExpireStep, OpenBreak, ResolveBreak, ReplayReset
<1> QED
  BY <1>q, <1>1, <1>2, NextWrites DEF Writes

\* Between two resets matches are only added and breaks are kept.
LEMMA TablesGrow ==
    ASSUME "ambiguous" \notin Faults, TablesOK, [Next]_vars
    PROVE  /\ TablesOK'
           /\ Resetting \/ (matches \subseteq matches' /\ \A b \in breaks : BreakIsKept(b))
<1>s. TypeOK /\ ControlOK /\ StoreTyped
  BY DEF TablesOK, Agreement, TypeOK, StoreTyped
<1>1. /\ Agreement' /\ BreaksKeyed'
      /\ Resetting \/ \A b \in breaks : BreakIsKept(b)
  BY NextAgrees, NextForward DEF TablesOK
<1>h. HealedAlone
  BY DEF TablesOK
<1>2. HealedAlone' /\ (Resetting \/ matches \subseteq matches')
  <2>1. ASSUME NEW ack \in BOOLEAN, ExpireStep(ack)
        PROVE  HealedAlone' /\ matches \subseteq matches'
    <3>1. PICK l, category : /\ PutBreak(NewBreak({l}, "window_expired", category))
                             /\ matches' = matches
      BY <2>1 DEF ExpireStep, OpenBreak
    <3>2. NewBreak({l}, "window_expired", category).actor = "none"
      BY DEF NewBreak
    <3> QED
      BY <1>h, <3>1, <3>2 DEF PutBreak, HealedAlone
  <2>2. ASSUME NEW e, NEW blind, ReapplyResolution(e, blind)
        PROVE  HealedAlone' /\ matches \subseteq matches'
    <3>1. matches' = matches
      BY <2>2, Zenon DEF ReapplyResolution
    <3> DEFINE resolved(b) == [b EXCEPT !.status = "resolved", !.actor = "operator"]
    <3>2. \A c \in breaks' : c \in breaks \/ \E b \in breaks : c = resolved(b)
      BY <2>2 DEF ReapplyResolution
    <3>3. \A b \in breaks : resolved(b).actor = "operator"
      BY <1>s DEF StoreTyped, Break
    <3> HIDE DEF resolved
    <3> QED
      BY <1>h, <3>1, <3>2, <3>3 DEF HealedAlone
  <2>3. ASSUME NEW b \in breaks, ResolveBreak(b)
        PROVE  HealedAlone' /\ matches \subseteq matches'
    <3> DEFINE r == [b EXCEPT !.status = "resolved", !.actor = "operator"]
    <3>1. PutBreak(r) /\ matches' = matches
      BY <2>3 DEF ResolveBreak
    <3>2. r.actor = "operator"
      BY <1>s DEF StoreTyped, Break
    <3> HIDE DEF r
    <3> QED
      BY <1>h, <3>1, <3>2 DEF PutBreak, HealedAlone
  <2>4. ASSUME ReplayReset PROVE HealedAlone' /\ Resetting
    BY <2>4 DEF ReplayReset, Resetting, Release, HealedAlone
  <2>5. ASSUME UNCHANGED <<legs, matches, breaks>>
        PROVE  HealedAlone' /\ matches \subseteq matches'
    BY <1>h, <2>5 DEF HealedAlone
  <2> QED
    BY <1>s, <1>h, <2>1, <2>2, <2>3, <2>4, <2>5, NextWrites, IngestOneHealsAlone DEF Writes
<1>3. MatchesSized'
  BY <1>s, NextSized DEF TablesOK
<1> QED
  BY <1>1, <1>2, <1>3 DEF TablesOK

\* No break has more than two legs.
BreaksSmall == \A b \in breaks : IsFiniteSet(b.legs) /\ Cardinality(b.legs) <= 2

\* A set of two legs, or fewer.
LEMMA AtMostTwo ==
    ASSUME NEW S, NEW l, NEW k, S \subseteq {l, k}
    PROVE  IsFiniteSet(S) /\ Cardinality(S) <= 2
<1>1. IsFiniteSet({l}) /\ Cardinality({l}) = 1
  BY FS_Singleton
<1>2. /\ IsFiniteSet({l} \cup {k})
      /\ Cardinality({l} \cup {k}) = IF k \in {l} THEN 1 ELSE 2
  BY <1>1, FS_AddElement
<1>3. S \subseteq {l} \cup {k}
  OBVIOUS
<1>4. /\ IsFiniteSet(S) /\ Cardinality(S) \in Nat
      /\ Cardinality(S) <= Cardinality({l} \cup {k})
  BY <1>2, <1>3, FS_Subset, FS_CardinalityType
<1> QED
  BY <1>2, <1>4

\* A leg that conflicts with its txn_ref meets the one leg of it that is open.
LEMMA NextSmall ==
    ASSUME TablesOK, OneOpenPerRef, BreaksSmall, [Next]_vars
    PROVE  BreaksSmall'
<1>s. TypeOK /\ ControlOK /\ IndexMirrorsStore
  BY DEF TablesOK, Agreement
<1>q. ASSUME \A c \in breaks' : \/ \E b \in breaks : c.legs = b.legs
                                \/ IsFiniteSet(c.legs) /\ Cardinality(c.legs) <= 2
      PROVE  BreaksSmall'
  BY <1>q DEF BreaksSmall
<1>o. ASSUME NEW S, NEW trigger, NEW l, NEW t, NEW before,
             OpenBreak(S, trigger, l, t, before), \E k : S \subseteq {l, k}
      PROVE  BreaksSmall'
  <2>1. PICK category : PutBreak(NewBreak(S, trigger, category))
    BY <1>o DEF OpenBreak
  <2>2. NewBreak(S, trigger, category).legs = S
    BY DEF NewBreak
  <2>3. IsFiniteSet(S) /\ Cardinality(S) <= 2
    BY <1>o, AtMostTwo
  <2> QED
    BY <1>q, <2>1, <2>2, <2>3 DEF PutBreak
<1>1. ASSUME NEW l \in Leg, NEW t, NEW live, NEW blind, NEW lost, NEW ack,
             op \in {"ingest", "replay"}, IngestOne(l, t, live, blind, lost, ack)
      PROVE  BreaksSmall'
  <2>1. PICK found, healable :
          /\ healable = Healable(l, lost)
          /\ \/ UNCHANGED breaks
             \/ \E trigger, before : OpenBreak({l}, trigger, l, t, before)
             \/ BreakOpenPartner(l, t, live, found, ack)
             \/ HealLateArrival(l, t, live, found, healable)
    BY <1>1 DEF IngestOne, DropRedelivery, BreakReusedRef, BreakKnownRef, WaitInWindow,
                MatchOpen
  <2>2. CASE UNCHANGED breaks
    BY <1>q, <2>2
  <2>3. CASE \E trigger, before : OpenBreak({l}, trigger, l, t, before)
    BY <1>o, <2>3
  <2>4. CASE BreakOpenPartner(l, t, live, found, ack)
    <3>1. PICK before, partners :
            /\ OpenBreak({l} \cup partners, "ref_conflict", l, t, before)
            /\ partners = ByRef(l, index)
      BY <2>4 DEF BreakOpenPartner
    <3>2. index = OpenLegs
      BY <1>s, <1>1 DEF IndexMirrorsStore
    <3>3. \A j, k \in partners : j = k
      BY <3>1, <3>2 DEF ByRef, OneOpenPerRef
    <3>4. \E k : {l} \cup partners \subseteq {l, k}
      BY <3>3
    <3> QED
      BY <1>o, <3>1, <3>4
  <2>5. CASE HealLateArrival(l, t, live, found, healable)
    <3>1. PICK r \in Healable(l, lost) :
            LET b == CHOOSE c \in breaks : c.legs = legs[r].brk
            IN  PutBreak([b EXCEPT !.status = "resolved", !.actor = "system"])
      BY <2>1, <2>5 DEF HealLateArrival
    <3>2. PICK b : b = CHOOSE c \in breaks : c.legs = legs[r].brk
      OBVIOUS
    <3>3. b \in breaks /\ b \in Break
      BY <1>s, <3>2 DEF Healable, TypeOK
    <3> DEFINE h == [b EXCEPT !.status = "resolved", !.actor = "system"]
    <3>4. h.legs = b.legs
      BY <3>3 DEF Break
    <3>5. PutBreak(h)
      BY <3>1, <3>2
    <3> HIDE DEF h
    <3> QED
      BY <1>q, <3>3, <3>4, <3>5 DEF PutBreak
  <2> QED
    BY <2>1, <2>2, <2>3, <2>4, <2>5
<1>2. ASSUME NEW ack \in BOOLEAN, ExpireStep(ack) PROVE BreaksSmall'
  <2>1. PICK l, t, before : OpenBreak({l}, "window_expired", l, t, before)
    BY <1>2 DEF ExpireStep
  <2> QED
    BY <1>o, <2>1
<1>3. ASSUME NEW e, NEW blind, ReapplyResolution(e, blind) PROVE BreaksSmall'
  <2> DEFINE resolved(b) == [b EXCEPT !.status = "resolved", !.actor = "operator"]
  <2>1. \A c \in breaks' : c \in breaks \/ \E b \in breaks : c = resolved(b)
    BY <1>3 DEF ReapplyResolution
  <2>2. \A b \in breaks : resolved(b).legs = b.legs
    BY <1>s DEF TypeOK, Break
  <2> HIDE DEF resolved
  <2> QED
    BY <1>q, <2>1, <2>2
<1>4. ASSUME NEW b \in breaks, ResolveBreak(b) PROVE BreaksSmall'
  <2> DEFINE r == [b EXCEPT !.status = "resolved", !.actor = "operator"]
  <2>1. PutBreak(r)
    BY <1>4 DEF ResolveBreak
  <2>2. r.legs = b.legs
    BY <1>s DEF TypeOK, Break
  <2> HIDE DEF r
  <2> QED
    BY <1>q, <2>1, <2>2 DEF PutBreak
<1>5. ASSUME ReplayReset PROVE BreaksSmall'
  BY <1>5 DEF ReplayReset, BreaksSmall
<1>6. ASSUME UNCHANGED <<legs, matches, breaks>> PROVE BreaksSmall'
  BY <1>6 DEF BreaksSmall
<1> QED
  BY <1>s, <1>1, <1>2, <1>3, <1>4, <1>5, <1>6, NextWrites DEF Writes

-----------------------------------------------------------------------------
(* The reader.                                                             *)

ListReader(status, offset, listed, began, done) ==
    [kind |-> "list", status |-> status, offset |-> offset, listed |-> listed,
     began |-> began, done |-> done]

ViewReader(row, left, got) ==
    [kind |-> "view", row |-> row, left |-> left, got |-> got]

StatsReader(asked, figures) ==
    [kind |-> "stats", asked |-> asked, figures |-> figures]

\* The records a reader can be.
ReaderShape ==
    \/ reader = Idle
    \/ \E status, offset, listed, began, done :
          /\ reader = ListReader(status, offset, listed, began, done)
          /\ status \in {"any", "open"} /\ offset \in Nat
    \/ \E row, left, got : reader = ViewReader(row, left, got)
    \/ \E asked, figures : reader = StatsReader(asked, figures)

\* The kind of a reader tells its shape.
LEMMA ShapeByKind ==
    ASSUME ReaderShape
    PROVE  /\ reader.kind = "idle" => reader = Idle
           /\ reader.kind = "list" =>
                \E status, offset, listed, began, done :
                   /\ reader = ListReader(status, offset, listed, began, done)
                   /\ status \in {"any", "open"} /\ offset \in Nat
           /\ reader.kind = "view" =>
                \E row, left, got : reader = ViewReader(row, left, got)
           /\ reader.kind = "stats" =>
                \E asked, figures : reader = StatsReader(asked, figures)
           /\ reader.kind \in {"idle", "list", "view", "stats"}
BY DEF ReaderShape, Idle, ListReader, ViewReader, StatsReader

\* What one request for a page does to the reader.
LEMMA ListNextReads ==
    ASSUME ReaderShape, ListNext
    PROVE  \E status, offset, listed, began, done, page :
             /\ status \in {"any", "open"} /\ offset \in Nat /\ ~done
             /\ page = Page(status, offset)
             /\ reader = ListReader(status, offset, listed, began, done)
             /\ reader' = ListReader(status, offset + Limit,
                                     listed \cup {b.legs : b \in page}, began,
                                     Cardinality(page) < Limit)
<1>1. PICK status, offset, listed, began, done :
        /\ reader = ListReader(status, offset, listed, began, done)
        /\ status \in {"any", "open"} /\ offset \in Nat
  BY ShapeByKind DEF ListNext
<1>2. /\ reader.status = status /\ reader.offset = offset /\ reader.listed = listed
      /\ reader.done = done
  BY <1>1 DEF ListReader
<1>3. PICK page : page = Page(status, offset)
  OBVIOUS
<1>4. reader' = [reader EXCEPT !.offset = offset + Limit,
                               !.listed = listed \cup {b.legs : b \in page},
                               !.done = Cardinality(page) < Limit]
  BY <1>2, <1>3 DEF ListNext
<1>5. reader' = ListReader(status, offset + Limit, listed \cup {b.legs : b \in page},
                           began, Cardinality(page) < Limit)
  BY <1>1, <1>4 DEF ListReader
<1>6. ~done
  BY <1>2 DEF ListNext
<1> QED
  BY <1>1, <1>3, <1>5, <1>6

\* What the query for a leg does to it.
LEMMA ViewLegReads ==
    ASSUME ReaderShape, ViewLeg
    PROVE  \E row, left, got : \E l \in First(left) :
             LET read == {[leg |-> x, state |-> legs[x]] : x \in {l} \cap Stored}
             IN  /\ reader = ViewReader(row, left, got)
                 /\ reader' = ViewReader(row, left \ {l}, got \cup read)
<1>1. PICK row, left, got : reader = ViewReader(row, left, got)
  BY ShapeByKind DEF ViewLeg
<1>2. reader.left = left /\ reader.got = got
  BY <1>1 DEF ViewReader
<1>3. PICK l \in First(left) :
        reader' = [reader EXCEPT
            !.left = left \ {l},
            !.got = got \cup {[leg |-> x, state |-> legs[x]] : x \in {l} \cap Stored}]
  BY <1>2 DEF ViewLeg
<1>4. PICK read : read = {[leg |-> x, state |-> legs[x]] : x \in {l} \cap Stored}
  OBVIOUS
<1>5. reader' = ViewReader(row, left \ {l}, got \cup read)
  BY <1>1, <1>3, <1>4 DEF ViewReader
<1> QED
  BY <1>1, <1>4, <1>5

\* What the query for a figure does to it.
LEMMA StatsQueryReads ==
    ASSUME ReaderShape, StatsQuery
    PROVE  \E asked, figures, q, f :
             /\ reader = StatsReader(asked, figures) /\ asked < 5
             /\ q = QueryOrder[asked + 1]
             /\ f = [x \in DOMAIN figures \cup {q} |->
                        IF x = q THEN Query(q) ELSE figures[x]]
             /\ reader' = StatsReader(asked + 1, f)
<1>1. PICK asked, figures : reader = StatsReader(asked, figures)
  BY ShapeByKind DEF StatsQuery
<1>2. reader.asked = asked /\ reader.figures = figures
  BY <1>1 DEF StatsReader
<1>3. PICK q : q = QueryOrder[asked + 1]
  OBVIOUS
<1>4. PICK f : f = [x \in DOMAIN figures \cup {q} |->
                      IF x = q THEN Query(q) ELSE figures[x]]
  OBVIOUS
<1>5. reader' = [reader EXCEPT !.asked = asked + 1, !.figures = f]
  BY <1>2, <1>3, <1>4 DEF StatsQuery
<1>6. reader' = StatsReader(asked + 1, f)
  BY <1>1, <1>5 DEF StatsReader
<1>7. Len(QueryOrder) = 5
  BY DEF QueryOrder
<1>8. asked < 5
  BY <1>2, <1>7 DEF StatsQuery
<1> QED
  BY <1>1, <1>3, <1>4, <1>6, <1>8

\* Every step leaves a reader of one of the shapes.
LEMMA NextShape ==
    ASSUME ReaderShape, [ReadersNext]_readVars
    PROVE  ReaderShape'
<1>1. ASSUME NEW status \in {"any", "open"}, ListBegin(status) PROVE ReaderShape'
  BY <1>1 DEF ListBegin, ReaderShape, ListReader
<1>2. ASSUME ListNext PROVE ReaderShape'
  <2>1. PICK status, offset, listed, began, done :
          /\ status \in {"any", "open"} /\ offset \in Nat
          /\ reader' = ListReader(status, offset + Limit, listed, began, done)
    BY <1>2, ListNextReads, Zenon
  <2>2. offset + Limit \in Nat
    BY <2>1, ReaderAssumption
  <2> QED
    BY <2>1, <2>2, Zenon DEF ReaderShape
<1>3. ASSUME NEW row, ViewBegin(row) PROVE ReaderShape'
  BY <1>3 DEF ViewBegin, ReaderShape, ViewReader
<1>4. ASSUME ViewLeg PROVE ReaderShape'
  BY <1>4, ViewLegReads DEF ReaderShape
<1>5. ASSUME StatsBegin PROVE ReaderShape'
  BY <1>5 DEF StatsBegin, ReaderShape, StatsReader
<1>6. ASSUME StatsQuery PROVE ReaderShape'
  BY <1>6, StatsQueryReads DEF ReaderShape
<1>7. CASE Deliver
  BY <1>7 DEF Deliver, ReaderShape
<1>8. CASE UNCHANGED reader
  BY <1>8 DEF ReaderShape
<1> QED
  BY <1>1, <1>2, <1>3, <1>4, <1>5, <1>6, <1>7, <1>8
  DEF ReadersNext, GetMatch, GetBreak, Write, readVars

\* To the engine a step of a reader is no step.
LEMMA ReadersStep ==
    ASSUME [ReadersNext]_readVars
    PROVE  [Next]_vars
BY DEF ReadersNext, ListBegin, ListNext, GetMatch, GetBreak, ViewBegin, ViewLeg,
       StatsBegin, StatsQuery, Deliver, Write, readVars

\* The engine takes a step, or the reader does and the tables stay.
LEMMA EngineOrReader ==
    ASSUME "ambiguous" \notin Faults, TablesOK, [ReadersNext]_readVars
    PROVE  /\ TablesOK'
           /\ \/ UNCHANGED vars
              \/ /\ Write /\ reader' = reader
                 /\ Resetting \/ (matches \subseteq matches' /\ \A b \in breaks : BreakIsKept(b))
<1>1. CASE Write
  BY <1>1, TablesGrow DEF Write
<1>2. CASE UNCHANGED vars
  BY <1>2, TablesGrow
<1> QED
  BY <1>1, <1>2
  DEF ReadersNext, ListBegin, ListNext, GetMatch, GetBreak, ViewBegin, ViewLeg,
      StatsBegin, StatsQuery, Deliver, readVars


-----------------------------------------------------------------------------
(* A match or a break with its legs.                                       *)

\* What was read of a leg fits the row.
Fits(g, row) ==
    IF IsMatchRow(row)
    THEN g.state.status = "matched" /\ g.state.match = row.legs
    ELSE \/ g.state.brk = row.legs /\ row.actor # "system"
         \/ /\ g.state.status = "matched"
            /\ row.actor # "operator" /\ Cardinality(row.legs) = 1

\* The row that was read is still in its table; a break may have been resolved.
RowIsThere(row) ==
    \/ IsMatchRow(row) /\ row \in matches
    \/ /\ ~IsMatchRow(row) /\ row \in Break
       /\ row.status = "open" => row.actor = "none"
       /\ \E b \in breaks : b.legs = row.legs /\ (row.status = "resolved" => b = row)

\* The inductive form of ViewsConsistent.
ViewFits ==
    reader.kind = "view" /\ "reset" \notin since =>
        /\ RowIsThere(reader.row)
        /\ reader.left \subseteq reader.row.legs
        /\ {g.leg : g \in reader.got} = reader.row.legs \ reader.left
        /\ \A g \in reader.got : Fits(g, reader.row)

\* The fields of a match and of a break tell them apart.
LEMMA RowKinds ==
    /\ \A m \in Match : IsMatchRow(m)
    /\ \A b \in Break : ~IsMatchRow(b)
BY DEF IsMatchRow, Match, Break

\* A leg of a row fits it whenever it is read.
LEMMA LegFits ==
    ASSUME TablesOK, NEW row, RowIsThere(row), NEW l \in row.legs
    PROVE  l \in Stored /\ Fits([leg |-> l, state |-> legs[l]], row)
<1> DEFINE g == [leg |-> l, state |-> legs[l]]
<1>g. g.state = legs[l]
  OBVIOUS
<1> HIDE DEF g
<1>t. MatchesAgree /\ BreaksAgree /\ TypeOK /\ OpenBreaksUnattributed /\ HealedAlone
  BY DEF TablesOK, Agreement, StoreAgrees
<1>1. CASE IsMatchRow(row) /\ row \in matches
  <2>1. l \in Leg /\ legs[l].status = "matched" /\ legs[l].match = row.legs
    BY <1>1, <1>t DEF MatchesAgree, TypeOK, Match
  <2>2. l \in Stored /\ Fits(g, row)
    BY <1>1, <1>g, <2>1 DEF Stored, Fits
  <2> QED
    BY <2>2 DEF g
<1>2. CASE ~IsMatchRow(row) /\ ~(IsMatchRow(row) /\ row \in matches)
  <2>1. PICK b \in breaks : /\ b.legs = row.legs
                            /\ row.status = "resolved" => b = row
    BY <1>2 DEF RowIsThere
  <2>2. row \in Break /\ (row.status = "open" => row.actor = "none")
    BY <1>2 DEF RowIsThere
  <2>3. row.status = "resolved" \/ row.status = "open"
    BY <2>2 DEF Break
  <2>4. l \in Leg /\ b \in Break
    BY <2>1, <1>t DEF TypeOK, Break
  <2>5. IF b.actor = "system" THEN legs[l].status = "matched" /\ Cardinality(row.legs) = 1
                              ELSE legs[l].status = "break" /\ legs[l].brk = row.legs
    BY <1>t, <2>1 DEF BreaksAgree, HealedAlone
  <2>6. l \in Stored
    BY <2>4, <2>5 DEF Stored
  <2>7. Fits(g, row)
    BY <1>2, <1>g, <2>1, <2>2, <2>3, <2>5 DEF Fits
  <2> QED
    BY <2>6, <2>7 DEF g
<1> QED
  BY <1>1, <1>2 DEF RowIsThere

\* The engine leaves the row where it is, unless a replay resets the tables.
LEMMA RowStays ==
    ASSUME NEW row, RowIsThere(row), matches \subseteq matches',
           \A b \in breaks : BreakIsKept(b)
    PROVE  RowIsThere(row)'
<1>1. CASE IsMatchRow(row) /\ row \in matches
  BY <1>1 DEF RowIsThere
<1>2. CASE ~IsMatchRow(row)
  <2>1. PICK b \in breaks : /\ b.legs = row.legs
                            /\ row.status = "resolved" => b = row
    BY <1>2 DEF RowIsThere
  <2>2. PICK c \in breaks' : c.legs = b.legs /\ (b.status = "resolved" => c = b)
    BY <2>1 DEF BreakIsKept
  <2> QED
    BY <1>2, <2>1, <2>2 DEF RowIsThere
<1> QED
  BY <1>1, <1>2 DEF RowIsThere

LEMMA NextViewFits ==
    ASSUME "ambiguous" \notin Faults, TablesOK, ReaderShape, ViewFits,
           [ReadersNext]_readVars
    PROVE  ViewFits'
<1>e. /\ TablesOK'
      /\ \/ UNCHANGED vars
         \/ /\ Write /\ reader' = reader
            /\ Resetting \/ (matches \subseteq matches' /\ \A b \in breaks : BreakIsKept(b))
  BY EngineOrReader
<1>1. ASSUME NEW status, ListBegin(status) PROVE reader'.kind = "list"
  BY <1>1 DEF ListBegin
<1>2. ASSUME ListNext PROVE reader'.kind = "list"
  <2>1. PICK status, offset, listed, began, done :
          reader' = ListReader(status, offset, listed, began, done)
    BY <1>2, ListNextReads, Zenon
  <2> QED
    BY <2>1 DEF ListReader
<1>3. ASSUME StatsBegin PROVE reader'.kind = "stats"
  BY <1>3 DEF StatsBegin
<1>4. ASSUME StatsQuery PROVE reader'.kind = "stats"
  <2>1. PICK asked, f : reader' = StatsReader(asked, f)
    BY <1>4, StatsQueryReads, Zenon
  <2> QED
    BY <2>1 DEF StatsReader
<1>5. ASSUME Deliver PROVE reader'.kind = "idle"
  BY <1>5 DEF Deliver, Idle
<1>6. CASE reader'.kind # "view"
  BY <1>6 DEF ViewFits
<1>7. ASSUME NEW row \in matches \cup breaks, ViewBegin(row) PROVE ViewFits'
  <2>1. /\ reader'.row = row /\ reader'.left = row.legs /\ reader'.got = {}
        /\ UNCHANGED <<matches, breaks>>
    BY <1>7 DEF ViewBegin, vars, store
  <2>2. RowIsThere(row)
    <3>1. TypeOK /\ OpenBreaksUnattributed
      BY DEF TablesOK, Agreement, StoreAgrees
    <3> QED
      BY <3>1, RowKinds DEF RowIsThere, TypeOK, OpenBreaksUnattributed
  <2>3. RowIsThere(row)'
    BY <2>1, <2>2 DEF RowIsThere
  <2> QED
    BY <2>1, <2>3 DEF ViewFits
<1>8. ASSUME ViewLeg PROVE ViewFits'
  <2> SUFFICES ASSUME "reset" \notin since' PROVE ViewFits'
    BY DEF ViewFits
  <2>1. PICK row, left, got : \E l \in First(left) :
           LET read == {[leg |-> x, state |-> legs[x]] : x \in {l} \cap Stored}
           IN  /\ reader = ViewReader(row, left, got)
               /\ reader' = ViewReader(row, left \ {l}, got \cup read)
    BY <1>8, ViewLegReads
  <2>2. PICK l \in First(left) :
           LET read == {[leg |-> x, state |-> legs[x]] : x \in {l} \cap Stored}
           IN  /\ reader = ViewReader(row, left, got)
               /\ reader' = ViewReader(row, left \ {l}, got \cup read)
    BY <2>1
  <2>3. since' = since /\ UNCHANGED <<matches, breaks, legs>>
    BY <1>8 DEF ViewLeg, vars, store
  <2>4. /\ reader.kind = "view" /\ reader.row = row /\ reader.left = left
        /\ reader.got = got
    BY <2>2 DEF ViewReader
  <2>5. /\ RowIsThere(row) /\ left \subseteq row.legs
        /\ {g.leg : g \in got} = row.legs \ left
        /\ \A g \in got : Fits(g, row)
    BY <2>3, <2>4 DEF ViewFits
  <2>6. l \in left /\ l \in row.legs
    BY <2>2, <2>5 DEF First
  <2>7. PICK h : h = [leg |-> l, state |-> legs[l]]
    OBVIOUS
  <2>8. l \in Stored /\ Fits(h, row) /\ h.leg = l
    BY <2>5, <2>6, <2>7, LegFits
  <2>9. reader' = ViewReader(row, left \ {l}, got \cup {h})
    BY <2>2, <2>7, <2>8
  <2>10. /\ reader'.row = row /\ reader'.left = left \ {l} /\ reader'.got = got \cup {h}
    BY <2>9 DEF ViewReader
  <2>11. {g.leg : g \in got \cup {h}} = row.legs \ (left \ {l})
    BY <2>5, <2>6, <2>8
  <2>12. RowIsThere(row)'
    BY <2>3, <2>5 DEF RowIsThere
  <2> QED
    BY <2>5, <2>8, <2>10, <2>11, <2>12 DEF ViewFits
<1>9. ASSUME Write PROVE ViewFits'
  <2> SUFFICES ASSUME reader'.kind = "view", "reset" \notin since' PROVE ViewFits'
    BY DEF ViewFits
  <2>1. reader' = reader /\ reader # Idle
    BY <1>9 DEF Write, Idle
  <2>2. "reset" \notin since /\ ~Resetting
    BY <1>9, <2>1 DEF Write, Resetting
  <2>3. CASE UNCHANGED vars
    BY <2>1, <2>2, <2>3 DEF ViewFits, RowIsThere, vars, store
  <2>4. CASE matches \subseteq matches' /\ \A b \in breaks : BreakIsKept(b)
    <3>1. RowIsThere(reader.row)
      BY <2>1, <2>2 DEF ViewFits
    <3>2. PICK row : row = reader.row
      OBVIOUS
    <3>3. RowIsThere(row)'
      BY <2>4, <3>1, <3>2, RowStays
    <3> QED
      BY <2>1, <2>2, <3>2, <3>3 DEF ViewFits
  <2> QED
    BY <1>e, <2>2, <2>3, <2>4
<1>10. CASE UNCHANGED readVars
  BY <1>10 DEF ViewFits, RowIsThere, readVars, vars, store
<1> QED
  BY <1>1, <1>2, <1>3, <1>4, <1>5, <1>6, <1>7, <1>8, <1>9, <1>10
  DEF ReadersNext, GetMatch, GetBreak

\* The tables and the shape of the reader.
LEMMA ReadersInvariant ==
    ASSUME "ambiguous" \notin Faults
    PROVE  ReadersSpec => [](TablesOK /\ ReaderShape)
<1>1. ReadersInit => TablesOK /\ ReaderShape
  <2> SUFFICES ASSUME ReadersInit PROVE TablesOK /\ ReaderShape
    OBVIOUS
  <2>1. TypeOK /\ ControlOK
    BY DEF ReadersInit, Init, TypeOK, ControlOK, Absent, LegState, Statuses, Operations
  <2>2. StoreAgrees
    BY DEF ReadersInit, Init, Absent, StoreAgrees, MatchesAgree, NeverDoubleCounted,
           BreaksAgree, OpenBreaksUnattributed
  <2>3. IndexMirrorsStore /\ DueIsOpen /\ BreaksKeyed /\ HealedAlone /\ MatchesSized
    BY DEF ReadersInit, Init, Absent, OpenLegs, IndexMirrorsStore, DueIsOpen,
           BreaksKeyed, HealedAlone, MatchesSized
  <2>4. ReaderShape
    BY DEF ReadersInit, ReaderShape
  <2> QED
    BY <2>1, <2>2, <2>3, <2>4 DEF TablesOK, Agreement
<1>2. TablesOK /\ ReaderShape /\ [ReadersNext]_readVars => (TablesOK /\ ReaderShape)'
  BY EngineOrReader, NextShape
<1> QED
  BY <1>1, <1>2, PTL DEF ReadersSpec

\* A match or a break read with its legs, one query after the other, fits
\* together whatever the engine commits in between: no leg is left out, and each
\* leg is where the row says it is or was healed since.
THEOREM ViewsAlwaysConsistent ==
    ASSUME "ambiguous" \notin Faults
    PROVE  ReadersSpec => []ViewsConsistent
<1>1. ReadersInit => ViewFits
  BY DEF ReadersInit, Idle, ViewFits
<1>2. TablesOK /\ ReaderShape /\ ViewFits /\ [ReadersNext]_readVars => ViewFits'
  BY NextViewFits
<1>3. ReaderShape /\ ViewFits => ViewsConsistent
  <2> SUFFICES ASSUME ReaderShape, ViewFits, reader.kind = "view", Finished,
                      "reset" \notin since
               PROVE  ViewsConsistent
    BY DEF ViewsConsistent
  <2>1. reader.left = {}
    BY DEF Finished
  <2> QED
    BY <2>1 DEF ViewFits, ViewsConsistent, Fits
<1> QED
  BY <1>1, <1>2, <1>3, ReadersInvariant, PTL DEF ReadersSpec


-----------------------------------------------------------------------------
(* The listing.  The rows of a listing are numbered from 0 by their        *)
(* positions, and the engine only moves a row further down.                *)

Position(rows, b) == Cardinality({c \in rows : RowBefore(c, b)})

\* There are finitely many breaks if each holds other legs.
LEMMA BreaksFinite ==
    ASSUME NEW B \in SUBSET Break, \A b, c \in B : b.legs = c.legs => b = c
    PROVE  IsFiniteSet(B)
<1>1. IsFiniteSet(SUBSET Leg)
  BY LegAssumption, FS_SUBSET
<1>2. [b \in B |-> b.legs] \in Injection(B, SUBSET Leg)
  BY DEF Break, Injection, IsInjective
<1> QED
  BY <1>1, <1>2, FS_Injection

LEMMA PositionTyped ==
    ASSUME NEW rows, IsFiniteSet(rows), NEW b
    PROVE  Position(rows, b) \in Nat
BY FS_Subset, FS_CardinalityType DEF Position

\* ORDER BY opened_at, id is a strict total order of the breaks.
LEMMA RowOrder ==
    ASSUME TablesOK, NEW b \in breaks, NEW c \in breaks
    PROVE  /\ ~(RowBefore(b, c) /\ RowBefore(c, b))
           /\ b # c => RowBefore(b, c) \/ RowBefore(c, b)
           /\ \A d \in breaks : RowBefore(b, c) /\ RowBefore(c, d) => RowBefore(b, d)
<1>1. \A x \in breaks : x.opened \in Nat /\ x.legs \in SUBSET Leg
  BY DEF TablesOK, Agreement, TypeOK, Break
<1>2. \A x \in breaks : IdRank(x.legs) \in Nat
  BY <1>1, ReaderAssumption
<1>3. IdRank(b.legs) = IdRank(c.legs) => b = c
  BY <1>1, ReaderAssumption DEF TablesOK, BreaksKeyed
<1> QED
  BY <1>1, <1>2, <1>3 DEF RowBefore

\* The positions of rows number them.
LEMMA PositionsNumber ==
    ASSUME TablesOK, NEW rows \in SUBSET breaks
    PROVE  /\ IsFiniteSet(rows) /\ Cardinality(rows) \in Nat
           /\ \A b \in rows : Position(rows, b) \in 0 .. Cardinality(rows) - 1
           /\ \A k \in 0 .. Cardinality(rows) - 1 : \E b \in rows : Position(rows, b) = k
<1> DEFINE before(b) == {c \in rows : RowBefore(c, b)}
<1>0. rows \in SUBSET Break /\ \A b, c \in rows : b.legs = c.legs => b = c
  BY DEF TablesOK, Agreement, TypeOK, BreaksKeyed
<1>1. IsFiniteSet(rows) /\ Cardinality(rows) \in Nat
  BY <1>0, BreaksFinite, FS_CardinalityType
<1>2. ASSUME NEW b \in rows
      PROVE  /\ IsFiniteSet(before(b)) /\ Cardinality(before(b)) \in Nat
             /\ Cardinality(before(b)) \in 0 .. Cardinality(rows) - 1
  <2>1. before(b) \in SUBSET rows /\ b \notin before(b)
    BY RowOrder
  <2> HIDE DEF before
  <2>2. /\ IsFiniteSet(before(b)) /\ Cardinality(before(b)) <= Cardinality(rows)
        /\ Cardinality(before(b)) # Cardinality(rows)
    BY <1>1, <2>1, FS_Subset
  <2>3. Cardinality(before(b)) \in Nat
    BY <2>2, FS_CardinalityType
  <2> QED
    BY <1>1, <2>2, <2>3
<1>3. ASSUME NEW b \in rows, NEW c \in rows, RowBefore(b, c)
      PROVE  Cardinality(before(b)) # Cardinality(before(c))
  <2>1. before(b) \in SUBSET before(c) /\ b \in before(c) /\ b \notin before(b)
    BY <1>3, RowOrder
  <2> HIDE DEF before
  <2> QED
    BY <1>2, <2>1, FS_Subset
<1>4. \A b, c \in rows : Cardinality(before(b)) = Cardinality(before(c)) => b = c
  BY <1>3, RowOrder
<1> DEFINE f == [b \in rows |-> Cardinality(before(b))]
           N == 0 .. Cardinality(rows) - 1
<1> HIDE DEF before
<1>5. f \in Injection(rows, N)
  BY <1>2, <1>4 DEF Injection, IsInjective
<1>6. IsFiniteSet(N) /\ Cardinality(N) = Cardinality(rows)
  BY <1>1, FS_Interval
<1>7. f \in Surjection(rows, N)
  BY <1>5, <1>6, FS_Injection
<1>8. \A k \in N : \E b \in rows : Cardinality(before(b)) = k
  BY <1>7 DEF Surjection
<1> QED
  BY <1>1, <1>2, <1>8 DEF Position, before

\* If a row is beyond the page, the page is full.
LEMMA FullPage ==
    ASSUME TablesOK, NEW status, NEW offset \in Nat, NEW b \in Rows(status),
           Position(Rows(status), b) >= offset + Limit
    PROVE  ~(Cardinality(Page(status, offset)) < Limit)
<1>1. PICK rows : rows = Rows(status)
  OBVIOUS
<1>2. rows \in SUBSET breaks /\ b \in rows
  BY <1>1 DEF Rows
<1>3. /\ IsFiniteSet(rows) /\ Cardinality(rows) \in Nat
      /\ \A k \in 0 .. Cardinality(rows) - 1 : \E c \in rows : Position(rows, c) = k
      /\ Position(rows, b) \in 0 .. Cardinality(rows) - 1
  BY <1>2, PositionsNumber
<1>4. PICK K : K = offset .. offset + Limit - 1
  OBVIOUS
<1>5. PICK page : page = {c \in rows : Position(rows, c) \in K}
  OBVIOUS
<1>6. Page(status, offset) = page
  BY <1>1, <1>4, <1>5 DEF Page, Position
<1>7. \A k \in K : \E c \in page : Position(rows, c) = k
  <2> SUFFICES ASSUME NEW k \in K PROVE \E c \in page : Position(rows, c) = k
    OBVIOUS
  <2>1. k \in 0 .. Cardinality(rows) - 1
    BY <1>1, <1>3, <1>4, ReaderAssumption
  <2> QED
    BY <1>3, <1>5, <2>1
<1> DEFINE f == [k \in K |-> CHOOSE c \in page : Position(rows, c) = k]
<1>8. f \in Injection(K, page)
  BY <1>7 DEF Injection, IsInjective
<1>9. IsFiniteSet(page) /\ Cardinality(page) \in Nat
  BY <1>3, <1>5, FS_Subset, FS_CardinalityType
<1>10. Cardinality(K) <= Cardinality(page)
  BY <1>8, <1>9, FS_Injection
<1>11. Cardinality(K) = Limit
  BY <1>4, ReaderAssumption, FS_Interval
<1> QED
  BY <1>6, <1>9, <1>10, <1>11, ReaderAssumption

\* A row does not move up when all rows stay and others join them.
LEMMA PositionGrows ==
    ASSUME NEW P, NEW Q, IsFiniteSet(Q),
           \A x, y \in P : x.legs = y.legs => x = y,
           \A x \in P : \E y \in Q : y.legs = x.legs /\ y.opened = x.opened,
           NEW b \in P, NEW c \in Q, c.legs = b.legs, c.opened = b.opened
    PROVE  Position(P, b) <= Position(Q, c)
<1> DEFINE before(x) == {y \in P : RowBefore(y, x)}
           after(x) == {y \in Q : RowBefore(y, x)}
           f == [x \in before(b) |-> CHOOSE y \in Q : y.legs = x.legs /\ y.opened = x.opened]
<1>1. ASSUME NEW x \in before(b)
      PROVE  f[x] \in after(c) /\ f[x].legs = x.legs
  <2>1. f[x] \in Q /\ f[x].legs = x.legs /\ f[x].opened = x.opened
    OBVIOUS
  <2> HIDE DEF f
  <2> QED
    BY <2>1 DEF RowBefore
<1>2. f \in Injection(before(b), after(c))
  <2>1. f \in [before(b) -> after(c)]
    BY <1>1
  <2>2. \A x, y \in before(b) : f[x] = f[y] => x = y
    <3> HIDE DEF f
    <3> QED
      BY <1>1
  <2> QED
    BY <2>1, <2>2 DEF Injection, IsInjective
<1>3. IsFiniteSet(after(c))
  BY FS_Subset
<1>4. Cardinality(before(b)) <= Cardinality(after(c))
  BY <1>2, <1>3, FS_Injection
<1> QED
  BY <1>4 DEF Position


\* The listing is one that ListingComplete speaks of.
Undisturbed ==
    /\ reader.kind = "list" /\ "reset" \notin since
    /\ "resolved" \in since => reader.status = "any"

\* The inductive form of ListingComplete: what there was when the listing began
\* has been listed or is still ahead.
ListedOrAhead ==
    Undisturbed =>
        /\ reader.done => reader.began \subseteq reader.listed
        /\ \A S \in reader.began : \E b \in Rows(reader.status) :
              /\ b.legs = S
              /\ \/ S \in reader.listed
                 \/ Position(Rows(reader.status), b) >= reader.offset

\* Between two requests no row leaves the listing.
LEMMA RowsKept ==
    ASSUME TablesOK, TablesOK', NEW status \in {"any", "open"},
           \A b \in breaks : BreakIsKept(b),
           status = "open" => Rows("resolved")' = Rows("resolved")
    PROVE  \A b \in Rows(status) : \E c \in Rows(status)' :
              c.legs = b.legs /\ c.opened = b.opened
<1> SUFFICES ASSUME NEW b \in Rows(status)
             PROVE  \E c \in Rows(status)' : c.legs = b.legs /\ c.opened = b.opened
  OBVIOUS
<1>1. b \in breaks
  BY DEF Rows
<1>2. PICK c \in breaks' : c.legs = b.legs /\ c.opened = b.opened
  BY <1>1 DEF BreakIsKept
<1>3. CASE status = "any"
  BY <1>2, <1>3 DEF Rows
<1>4. CASE status = "open"
  <2>1. b.status = "open"
    BY <1>4 DEF Rows
  <2>2. c \notin Rows("resolved")
    BY <1>1, <1>2, <2>1 DEF Rows, TablesOK, BreaksKeyed
  <2>3. c.status # "resolved"
    BY <1>2, <1>4, <2>2 DEF Rows
  <2>4. c.status = "open"
    BY <1>2, <2>3 DEF TablesOK, Agreement, TypeOK, Break
  <2> QED
    BY <1>2, <1>4, <2>4 DEF Rows
<1> QED
  BY <1>3, <1>4

LEMMA NextListed ==
    ASSUME "ambiguous" \notin Faults, TablesOK, ReaderShape, ListedOrAhead,
           [ReadersNext]_readVars
    PROVE  ListedOrAhead'
<1>e. /\ TablesOK'
      /\ \/ UNCHANGED vars
         \/ /\ Write /\ reader' = reader
            /\ Resetting \/ (matches \subseteq matches' /\ \A b \in breaks : BreakIsKept(b))
  BY EngineOrReader
<1>1. ASSUME NEW row, ViewBegin(row) PROVE reader'.kind = "view"
  BY <1>1 DEF ViewBegin
<1>2. ASSUME ViewLeg PROVE reader'.kind = "view"
  BY <1>2, ViewLegReads DEF ViewReader
<1>3. ASSUME StatsBegin PROVE reader'.kind = "stats"
  BY <1>3 DEF StatsBegin
<1>4. ASSUME StatsQuery PROVE reader'.kind = "stats"
  <2>1. PICK asked, f : reader' = StatsReader(asked, f)
    BY <1>4, StatsQueryReads, Zenon
  <2> QED
    BY <2>1 DEF StatsReader
<1>5. ASSUME Deliver PROVE reader'.kind = "idle"
  BY <1>5 DEF Deliver, Idle
<1>6. CASE reader'.kind # "list"
  BY <1>6 DEF ListedOrAhead, Undisturbed
<1>7. ASSUME NEW status \in {"any", "open"}, ListBegin(status) PROVE ListedOrAhead'
  <2>1. /\ reader'.status = status /\ reader'.offset = 0 /\ reader'.listed = {}
        /\ reader'.began = {b.legs : b \in Rows(status)} /\ reader'.done = FALSE
        /\ breaks' = breaks
    BY <1>7 DEF ListBegin, vars, store
  <2>2. Rows(status)' = Rows(status) /\ Rows(status) \in SUBSET breaks
    BY <2>1 DEF Rows
  <2>3. ASSUME NEW b \in Rows(status) PROVE Position(Rows(status), b) >= 0
    BY <2>2, PositionsNumber
  <2>4. PICK rows : rows = Rows(status)
    OBVIOUS
  <2>5. \A S \in reader'.began : \E b \in rows : b.legs = S /\ Position(rows, b) >= 0
    BY <2>1, <2>3, <2>4
  <2>6. Rows(reader.status)' = rows
    BY <2>1, <2>2, <2>4 DEF Rows
  <2> QED
    BY <2>1, <2>5, <2>6 DEF ListedOrAhead
<1>8. ASSUME ListNext PROVE ListedOrAhead'
  <2>1. PICK status, offset, listed, began, done, page :
          /\ status \in {"any", "open"} /\ offset \in Nat /\ ~done
          /\ page = Page(status, offset)
          /\ reader = ListReader(status, offset, listed, began, done)
          /\ reader' = ListReader(status, offset + Limit,
                                  listed \cup {b.legs : b \in page}, began,
                                  Cardinality(page) < Limit)
    BY <1>8, ListNextReads
  <2>2. /\ reader.kind = "list" /\ reader.status = status /\ reader.offset = offset
        /\ reader.listed = listed /\ reader.began = began
    BY <2>1 DEF ListReader
  <2>3. PICK seen : seen = listed \cup {b.legs : b \in page}
    OBVIOUS
  <2>4. PICK last : last = (Cardinality(page) < Limit)
    OBVIOUS
  <2>5. reader' = ListReader(status, offset + Limit, seen, began, last)
    BY <2>1, <2>3, <2>4
  <2>6. /\ reader'.kind = "list" /\ reader'.status = status
        /\ reader'.offset = offset + Limit
        /\ reader'.listed = seen /\ reader'.began = began /\ reader'.done = last
    BY <2>5 DEF ListReader
  <2>7. since' = since /\ breaks' = breaks
    BY <1>8 DEF ListNext, vars, store
  <2> SUFFICES ASSUME Undisturbed' PROVE ListedOrAhead'
    BY DEF ListedOrAhead
  <2>8. Undisturbed
    BY <2>2, <2>6, <2>7 DEF Undisturbed
  <2>9. PICK rows : rows = Rows(status)
    OBVIOUS
  <2>10. rows \in SUBSET breaks /\ Rows(reader.status)' = rows
    BY <2>6, <2>7, <2>9 DEF Rows
  <2>11. page = {b \in rows : Position(rows, b) \in offset .. offset + Limit - 1}
    BY <2>1, <2>9 DEF Page, Position
  <2>12. \A b \in rows : Position(rows, b) \in Nat
    BY <2>10, PositionsNumber, PositionTyped
  <2>13. ASSUME NEW S \in began
         PROVE  \E b \in rows : b.legs = S /\ (S \in seen \/ Position(rows, b) >= offset + Limit)
    <3>1. PICK b \in rows : b.legs = S /\ (S \in listed \/ Position(rows, b) >= offset)
      BY <2>2, <2>8, <2>9, <2>13 DEF ListedOrAhead
    <3>2. Position(rows, b) < offset + Limit /\ Position(rows, b) >= offset => b \in page
      BY <2>1, <2>11, <2>12, ReaderAssumption
    <3>3. Position(rows, b) < offset + Limit \/ Position(rows, b) >= offset + Limit
      BY <2>1, <2>12, ReaderAssumption
    <3> QED
      BY <2>3, <3>1, <3>2, <3>3
  <2>14. ASSUME last PROVE began \subseteq seen
    <3>1. ASSUME NEW b \in rows PROVE ~(Position(rows, b) >= offset + Limit)
      BY <2>1, <2>4, <2>9, <2>14, FullPage
    <3> QED
      BY <2>13, <3>1
  <2> QED
    BY <2>6, <2>10, <2>13, <2>14 DEF ListedOrAhead
<1>9. ASSUME Write PROVE ListedOrAhead'
  <2> SUFFICES ASSUME Undisturbed' PROVE ListedOrAhead'
    BY DEF ListedOrAhead
  <2>1. reader' = reader /\ reader # Idle /\ ~reader.done
    BY <1>9 DEF Write, Idle, Undisturbed, Finished
  <2>2. /\ "reset" \notin since /\ ~Resetting
        /\ "resolved" \in since => reader.status = "any"
        /\ reader.status # "any" => Rows("resolved")' = Rows("resolved")
    BY <1>9, <2>1 DEF Write, Resetting, Undisturbed
  <2>3. Undisturbed
    BY <2>1, <2>2 DEF Undisturbed
  <2>4. PICK status \in {"any", "open"} : status = reader.status
    BY <2>3, ShapeByKind DEF Undisturbed, ListReader
  <2>5. \A b \in breaks : BreakIsKept(b)
    BY <1>e, <2>2 DEF BreakIsKept, vars, store
  <2>6. PICK P, Q : P = Rows(status) /\ Q = Rows(status)'
    OBVIOUS
  <2>7. \A x \in P : \E y \in Q : y.legs = x.legs /\ y.opened = x.opened
    BY <1>e, <2>2, <2>4, <2>5, <2>6, RowsKept
  <2>8. IsFiniteSet(Q) /\ \A y \in Q : Position(Q, y) \in Nat
    <3>1. Q \in SUBSET Break /\ \A x, y \in Q : x.legs = y.legs => x = y
      BY <1>e, <2>6 DEF Rows, TablesOK, Agreement, TypeOK, BreaksKeyed
    <3> QED
      BY <3>1, BreaksFinite, PositionTyped
  <2>9. \A x, y \in P : x.legs = y.legs => x = y
    BY <2>6 DEF Rows, TablesOK, BreaksKeyed
  <2>10. ASSUME NEW S \in reader.began
         PROVE  \E c \in Q : c.legs = S /\ (S \in reader.listed \/ Position(Q, c) >= reader.offset)
    <3>1. PICK b \in P : b.legs = S /\ (S \in reader.listed \/ Position(P, b) >= reader.offset)
      BY <2>3, <2>4, <2>6, <2>10 DEF ListedOrAhead
    <3>2. PICK c \in Q : c.legs = b.legs /\ c.opened = b.opened
      BY <2>7
    <3>3. Position(P, b) <= Position(Q, c)
      BY <2>7, <2>8, <2>9, <3>2, PositionGrows
    <3>4. Position(P, b) \in Nat /\ Position(Q, c) \in Nat /\ reader.offset \in Nat
      <4>1. P \in SUBSET breaks
        BY <2>6 DEF Rows
      <4>2. Position(P, b) \in Nat
        BY <4>1, PositionsNumber, PositionTyped
      <4>3. reader.offset \in Nat
        BY <2>3, ShapeByKind DEF Undisturbed, ListReader
      <4> QED
        BY <2>8, <4>2, <4>3
    <3> QED
      BY <3>1, <3>2, <3>3, <3>4
  <2>11. Rows(reader.status)' = Q
    BY <2>1, <2>4, <2>6
  <2> QED
    BY <2>1, <2>10, <2>11 DEF ListedOrAhead
<1>10. CASE UNCHANGED readVars
  BY <1>10 DEF ListedOrAhead, Undisturbed, Rows, readVars, vars, store
<1> QED
  BY <1>1, <1>2, <1>3, <1>4, <1>5, <1>6, <1>7, <1>8, <1>9, <1>10
  DEF ReadersNext, GetMatch, GetBreak

\* Paging by offset misses nothing: everything that a listing of all breaks could
\* have had when it began is in it when it ends, whatever was opened and resolved
\* between two pages and however large the pages; so it is for a listing of open
\* breaks while none is resolved.
THEOREM ListingAlwaysComplete ==
    ASSUME "ambiguous" \notin Faults
    PROVE  ReadersSpec => []ListingComplete
<1>1. ReadersInit => ListedOrAhead
  BY DEF ReadersInit, Idle, ListedOrAhead, Undisturbed
<1>2. TablesOK /\ ReaderShape /\ ListedOrAhead /\ [ReadersNext]_readVars => ListedOrAhead'
  BY NextListed
<1>3. ListedOrAhead => ListingComplete
  BY DEF ListedOrAhead, Undisturbed, ListingComplete, Finished
<1> QED
  BY <1>1, <1>2, <1>3, ReadersInvariant, PTL DEF ReadersSpec


-----------------------------------------------------------------------------
(* The figures.  At any moment there is room in the matches for the legs   *)
(* that are matched, and what comes later is only more.                    *)

Count(M, tier) == Cardinality({m \in M : Tier(m.rule) = tier})

CountByRule(M, rule) == Cardinality({m \in M : m.rule = rule})

\* As many legs as so many matches can hold.
Room(first, second, third) == 2 * (first + second) + (T3MaxSubset + 1) * third

RoomIn(M) == Room(Count(M, 1), Count(M, 2), Count(M, 3))

Covered(M) == UNION {m.legs : m \in M}

\* Every rule is of one tier.
LEMMA TierOfRule ==
    ASSUME NEW rule \in RuleIds
    PROVE  /\ Tier(rule) = 1 <=> rule = RuleT1Exact
           /\ Tier(rule) = 2 <=> rule \in {RuleT2Tolerant, RuleT2AmountDate, RuleT2Late}
           /\ Tier(rule) = 3 <=> rule = RuleT3Subset
           /\ Tier(rule) \in 1..3
BY DEF RuleIds, Tier, RuleT1Exact, RuleT2Tolerant, RuleT2AmountDate, RuleT2Late,
       RuleT3Subset

LEMMA MatchesFinite ==
    ASSUME NEW M \in SUBSET Match
    PROVE  IsFiniteSet(M)
<1>1. IsFiniteSet(RuleIds)
  <2>1. IsFiniteSet({RuleT1Exact}) /\ IsFiniteSet({RuleT2Tolerant})
        /\ IsFiniteSet({RuleT2AmountDate}) /\ IsFiniteSet({RuleT2Late})
        /\ IsFiniteSet({RuleT3Subset})
    BY FS_Singleton
  <2>2. IsFiniteSet({RuleT1Exact} \cup {RuleT2Tolerant})
        /\ IsFiniteSet({RuleT2AmountDate} \cup {RuleT2Late})
    BY <2>1, FS_Union
  <2>3. IsFiniteSet(({RuleT1Exact} \cup {RuleT2Tolerant})
                      \cup ({RuleT2AmountDate} \cup {RuleT2Late}))
    BY <2>2, FS_Union
  <2>4. IsFiniteSet((({RuleT1Exact} \cup {RuleT2Tolerant})
                      \cup ({RuleT2AmountDate} \cup {RuleT2Late})) \cup {RuleT3Subset})
    BY <2>1, <2>3, FS_Union
  <2>5. RuleIds = (({RuleT1Exact} \cup {RuleT2Tolerant})
                      \cup ({RuleT2AmountDate} \cup {RuleT2Late})) \cup {RuleT3Subset}
    BY DEF RuleIds
  <2> QED
    BY <2>4, <2>5
<1>2. IsFiniteSet((SUBSET Leg) \X RuleIds)
  <2>1. IsFiniteSet(SUBSET Leg)
    BY LegAssumption, FS_SUBSET
  <2> QED
    BY <1>1, <2>1, FS_Product
<1>3. [m \in M |-> <<m.legs, m.rule>>] \in Injection(M, (SUBSET Leg) \X RuleIds)
  <2>1. \A m, n \in M : m.legs = n.legs /\ m.rule = n.rule => m = n
    BY DEF Match
  <2>2. \A m \in M : m.legs \in SUBSET Leg /\ m.rule \in RuleIds
    BY DEF Match
  <2> QED
    BY <2>1, <2>2 DEF Injection, IsInjective
<1> QED
  BY <1>2, <1>3, FS_Injection

\* Counts are numbers that grow with the set.
LEMMA CountGrows ==
    ASSUME NEW N, IsFiniteSet(N), NEW M \in SUBSET N, NEW tier
    PROVE  Count(M, tier) \in Nat /\ Count(N, tier) \in Nat /\ Count(M, tier) <= Count(N, tier)
<1> DEFINE small == {m \in M : Tier(m.rule) = tier}
           large == {m \in N : Tier(m.rule) = tier}
<1>1. large \in SUBSET N /\ small \in SUBSET large
  OBVIOUS
<1> HIDE DEF small, large
<1>2. IsFiniteSet(large)
  BY <1>1, FS_Subset
<1>3. IsFiniteSet(small) /\ Cardinality(small) <= Cardinality(large)
  BY <1>1, <1>2, FS_Subset
<1>4. Cardinality(small) \in Nat /\ Cardinality(large) \in Nat
  BY <1>2, <1>3, FS_CardinalityType
<1> QED
  BY <1>3, <1>4 DEF Count, small, large

\* One match counts in its tier.
LEMMA CountWithout ==
    ASSUME NEW M, IsFiniteSet(M), NEW m \in M, NEW tier
    PROVE  Count(M, tier) = Count(M \ {m}, tier) + IF Tier(m.rule) = tier THEN 1 ELSE 0
<1> DEFINE all == {n \in M : Tier(n.rule) = tier}
<1>1. all \in SUBSET M /\ {n \in M \ {m} : Tier(n.rule) = tier} = all \ {m}
  OBVIOUS
<1>2. m \in all <=> Tier(m.rule) = tier
  OBVIOUS
<1>3. Count(M, tier) = Cardinality(all) /\ Count(M \ {m}, tier) = Cardinality(all \ {m})
  BY <1>1 DEF Count
<1> HIDE DEF all
<1>4. IsFiniteSet(all) /\ Cardinality(all) \in Nat
  BY <1>1, FS_Subset, FS_CardinalityType
<1>5. Cardinality(all \ {m}) = IF m \in all THEN Cardinality(all) - 1 ELSE Cardinality(all)
  BY <1>4, FS_RemoveElement
<1> QED
  BY <1>2, <1>3, <1>4, <1>5

\* More matches have more room.
LEMMA RoomGrows ==
    ASSUME NEW a \in Nat, NEW b \in Nat, NEW c \in Nat,
           NEW x \in Nat, NEW y \in Nat, NEW z \in Nat, a <= x, b <= y, c <= z
    PROVE  Room(a, b, c) \in Nat /\ Room(x, y, z) \in Nat /\ Room(a, b, c) <= Room(x, y, z)
<1>1. PICK k \in Nat : k = T3MaxSubset + 1
  BY RulesAssumption
<1>2. PICK d \in Nat : z = c + d
  <2>1. z - c \in Nat /\ z = c + (z - c)
    OBVIOUS
  <2> QED
    BY <2>1
<1>3. k * z = k * c + k * d
  BY <1>2
<1>4. k * z \in Nat /\ k * c \in Nat /\ k * d \in Nat
  OBVIOUS
<1>5. k * c <= k * z
  BY <1>3, <1>4
<1> QED
  BY <1>1, <1>4, <1>5 DEF Room


\* Matches of the right sizes have room for the legs they hold.
LEMMA CoveredFits ==
    ASSUME NEW M \in SUBSET Match, \A m \in M : Sized(m)
    PROVE  /\ IsFiniteSet(Covered(M)) /\ Cardinality(Covered(M)) \in Nat
           /\ RoomIn(M) \in Nat
           /\ Cardinality(Covered(M)) <= RoomIn(M)
<1>f. IsFiniteSet(M)
  BY MatchesFinite
<1>c. ASSUME NEW R \in SUBSET M
      PROVE  /\ IsFiniteSet(Covered(R)) /\ Cardinality(Covered(R)) \in Nat
             /\ IsFiniteSet(R) /\ RoomIn(R) \in Nat
             /\ \A tier : Count(R, tier) \in Nat
  <2>1. Covered(R) \in SUBSET Leg
    BY DEF Covered, Match
  <2>2. IsFiniteSet(Covered(R)) /\ IsFiniteSet(R)
    BY <1>f, <2>1, LegAssumption, FS_Subset
  <2>3. Cardinality(Covered(R)) \in Nat
    BY <2>2, FS_CardinalityType
  <2>4. \A tier : Count(R, tier) \in Nat
    BY <1>f, CountGrows
  <2>5. RoomIn(R) \in Nat
    BY <2>4, RoomGrows DEF RoomIn
  <2> QED
    BY <2>2, <2>3, <2>4, <2>5
<1> SUFFICES ASSUME ~(Cardinality(Covered(M)) <= RoomIn(M)) PROVE FALSE
  BY <1>c
<1> DEFINE T == {R \in SUBSET M : ~(Cardinality(Covered(R)) <= RoomIn(R))}
<1>1. T # {} /\ T \subseteq SUBSET M
  OBVIOUS
<1> HIDE DEF T
<1>2. PICK R \in T : \A Q \in T : Q \subseteq R => Q = R
  BY <1>f, <1>1, MinimalSubset
<1>3. R \in SUBSET M /\ ~(Cardinality(Covered(R)) <= RoomIn(R))
  BY DEF T
<1>4. R # {}
  <2>1. Covered({}) = {}
    BY DEF Covered
  <2>2. Cardinality(Covered({})) = 0
    BY <2>1, FS_EmptySet
  <2>3. RoomIn({}) \in Nat
    BY <1>c
  <2> QED
    BY <1>3, <2>2, <2>3
<1>5. PICK m : m \in R
  BY <1>4
<1>6. PICK Q : Q = R \ {m}
  OBVIOUS
<1>7. Q \in SUBSET M /\ Cardinality(Covered(Q)) <= RoomIn(Q)
  BY <1>2, <1>3, <1>5, <1>6 DEF T
<1>8. Covered(R) = Covered(Q) \cup m.legs
  BY <1>5, <1>6 DEF Covered
<1>9. Sized(m) /\ m.rule \in RuleIds
  BY <1>3, <1>5 DEF Match
<1>10. /\ IsFiniteSet(m.legs) /\ Cardinality(m.legs) \in Nat
  BY <1>9, FS_CardinalityType DEF Sized
<1>11. Cardinality(Covered(R)) <= Cardinality(Covered(Q)) + Cardinality(m.legs)
  <2>1. IsFiniteSet(Covered(Q)) /\ Cardinality(Covered(Q)) \in Nat
    BY <1>c, <1>7
  <2>2. Cardinality(Covered(Q) \cap m.legs) \in Nat
    BY <2>1, FS_Intersection, FS_CardinalityType
  <2>3. Cardinality(Covered(Q) \cup m.legs)
          = Cardinality(Covered(Q)) + Cardinality(m.legs)
              - Cardinality(Covered(Q) \cap m.legs)
    BY <1>10, <2>1, FS_Union
  <2> QED
    BY <1>8, <1>10, <2>1, <2>2, <2>3
<1>12. RoomIn(R) >= RoomIn(Q) + Cardinality(m.legs)
  <2>1. \A tier : Count(R, tier) = Count(Q, tier) + IF Tier(m.rule) = tier THEN 1 ELSE 0
    BY <1>3, <1>5, <1>6, <1>c, CountWithout
  <2>2. PICK x \in Nat, y \in Nat, z \in Nat :
          x = Count(Q, 1) /\ y = Count(Q, 2) /\ z = Count(Q, 3)
    BY <1>c, <1>7
  <2>3. PICK k \in Nat : k = T3MaxSubset + 1
    BY RulesAssumption
  <2>4. RoomIn(Q) = 2 * (x + y) + k * z
    BY <2>2, <2>3 DEF RoomIn, Room
  <2>5. k * (z + 1) = k * z + k /\ k * z \in Nat
    BY <2>2, <2>3
  <2>6. CASE m.rule = RuleT3Subset
    <3>1. Count(R, 1) = x /\ Count(R, 2) = y /\ Count(R, 3) = z + 1
      BY <1>9, <2>1, <2>2, <2>6, TierOfRule
    <3>2. RoomIn(R) = 2 * (x + y) + k * (z + 1)
      BY <2>3, <3>1 DEF RoomIn, Room
    <3>3. Cardinality(m.legs) <= k
      BY <1>9, <2>3, <2>6 DEF Sized
    <3> HIDE DEF Covered
    <3> QED
      BY <1>10, <2>2, <2>3, <2>4, <2>5, <3>2, <3>3
  <2>7. CASE m.rule # RuleT3Subset
    <3>1. /\ Count(R, 1) + Count(R, 2) = x + y + 1 /\ Count(R, 3) = z
      <4>1. \/ Tier(m.rule) = 1 /\ Tier(m.rule) # 2 /\ Tier(m.rule) # 3
            \/ Tier(m.rule) = 2 /\ Tier(m.rule) # 1 /\ Tier(m.rule) # 3
        BY <1>9, <2>7, TierOfRule
      <4> QED
        BY <2>1, <2>2, <4>1
    <3>2. RoomIn(R) = 2 * (x + y + 1) + k * z
      BY <2>3, <3>1 DEF RoomIn, Room
    <3>3. Cardinality(m.legs) <= 2
      BY <1>9, <2>7 DEF Sized
    <3> QED
      BY <1>10, <2>2, <2>3, <2>4, <2>5, <3>2, <3>3
  <2> QED
    BY <2>6, <2>7
<1> QED
  BY <1>3, <1>7, <1>10, <1>11, <1>12, <1>c

\* The legs of breaks, each break a set of at most two.
LEMMA PairsCover ==
    ASSUME NEW K, IsFiniteSet(K), \A S \in K : IsFiniteSet(S) /\ Cardinality(S) <= 2
    PROVE  /\ IsFiniteSet(UNION K) /\ Cardinality(UNION K) \in Nat
           /\ Cardinality(K) \in Nat /\ Cardinality(UNION K) <= 2 * Cardinality(K)
<1> DEFINE Good(R) == /\ IsFiniteSet(UNION R) /\ Cardinality(UNION R) \in Nat
                      /\ Cardinality(UNION R) <= 2 * Cardinality(R)
           T == {R \in SUBSET K : ~Good(R)}
<1>c. Cardinality(K) \in Nat
  BY FS_CardinalityType
<1> SUFFICES ASSUME ~Good(K) PROVE FALSE
  BY <1>c
<1>1. T # {} /\ T \subseteq SUBSET K
  OBVIOUS
<1>t. \A R : R \in T <=> R \in SUBSET K /\ ~Good(R)
  OBVIOUS
<1> HIDE DEF T
<1>2. PICK R \in T : \A Q \in T : Q \subseteq R => Q = R
  BY <1>1, MinimalSubset
<1>3. R \in SUBSET K /\ ~Good(R) /\ IsFiniteSet(R) /\ Cardinality(R) \in Nat
  BY <1>t, FS_Subset, FS_CardinalityType
<1>4. R # {}
  <2>1. UNION {} = {}
    OBVIOUS
  <2>2. IsFiniteSet({}) /\ Cardinality({}) = 0
    BY FS_EmptySet
  <2>3. IsFiniteSet(UNION {}) /\ Cardinality(UNION {}) = 0
    BY <2>1, <2>2
  <2>4. 2 * Cardinality({}) = 0
    BY <2>2
  <2>5. Good({})
    BY <2>3, <2>4
  <2> QED
    BY <1>3, <2>5
<1>5. PICK S : S \in R
  BY <1>4
<1>6. PICK Q : Q = R \ {S}
  OBVIOUS
<1>7. Good(Q)
  <2>1. Q \in SUBSET K /\ Q \subseteq R /\ Q # R
    BY <1>3, <1>5, <1>6
  <2>2. Q \notin T
    BY <1>2, <2>1
  <2> QED
    BY <1>t, <2>1, <2>2
<1>8. Cardinality(Q) = Cardinality(R) - 1
  BY <1>3, <1>5, <1>6, FS_RemoveElement
<1>9. IsFiniteSet(S) /\ Cardinality(S) \in Nat /\ Cardinality(S) <= 2
  BY <1>3, <1>5, FS_CardinalityType
<1>10. PICK U, V : U = UNION Q /\ V = UNION R /\ V = U \cup S
  <2>1. R = Q \cup {S}
    BY <1>5, <1>6
  <2>2. UNION R = (UNION Q) \cup S
    BY <2>1
  <2> QED
    BY <2>2
<1>11. IsFiniteSet(U) /\ Cardinality(U) \in Nat /\ Cardinality(U) <= 2 * Cardinality(Q)
  BY <1>7, <1>10
<1>u. /\ IsFiniteSet(U \cup S)
      /\ Cardinality(U \cup S) = Cardinality(U) + Cardinality(S) - Cardinality(U \cap S)
  BY <1>9, <1>11, FS_Union
<1>12. /\ IsFiniteSet(V)
       /\ Cardinality(V) = Cardinality(U) + Cardinality(S) - Cardinality(U \cap S)
  BY <1>10, <1>u
<1>13. Cardinality(U \cap S) \in Nat /\ Cardinality(V) \in Nat
  BY <1>11, <1>12, FS_Intersection, FS_CardinalityType
<1>14. Cardinality(V) <= 2 * Cardinality(R)
  BY <1>3, <1>8, <1>9, <1>11, <1>12, <1>13
<1> QED
  BY <1>3, <1>10, <1>12, <1>13, <1>14

\* The groups of legs that are in break.
Groups(B) == {b.legs : b \in B}

\* There are as many groups as breaks, at most.
LEMMA GroupsCounted ==
    ASSUME NEW B, IsFiniteSet(B)
    PROVE  /\ IsFiniteSet(Groups(B)) /\ Cardinality(Groups(B)) \in Nat
           /\ Cardinality(B) \in Nat /\ Cardinality(Groups(B)) <= Cardinality(B)
<1>1. [b \in B |-> b.legs] \in Surjection(B, Groups(B))
  BY DEF Surjection, Groups
<1> QED
  BY <1>1, FS_Surjection, FS_CardinalityType

\* What the queries answer at one moment.
LEMMA FiguresNow ==
    ASSUME TablesOK, BreaksSmall
    PROVE  /\ InStatus("matched") \in Nat /\ InStatus("matched") <= RoomIn(matches)
           /\ InStatus("break") \in Nat
           /\ InStatus("break") <= 2 * Cardinality(Groups(breaks))
           /\ Count(matches, 1) <= CountByRule(matches, RuleT1Exact)
           /\ Count(matches, 2) <= CountByRule(matches, RuleT2Tolerant)
                 + CountByRule(matches, RuleT2AmountDate) + CountByRule(matches, RuleT2Late)
           /\ Count(matches, 3) <= CountByRule(matches, RuleT3Subset)
           /\ \A rule : CountByRule(matches, rule) \in Nat
           /\ Cardinality(Rows("open")) \in Nat /\ Cardinality(Rows("resolved")) \in Nat
           /\ Cardinality(Groups(breaks)) \in Nat
           /\ Cardinality(Groups(breaks)) <=
                 Cardinality(Rows("open")) + Cardinality(Rows("resolved"))
<1>t. TypeOK /\ MatchesAgree /\ BreaksAgree /\ MatchesSized /\ BreaksKeyed
  BY DEF TablesOK, Agreement, StoreAgrees
<1>m. matches \in SUBSET Match /\ IsFiniteSet(matches)
  BY <1>t, MatchesFinite DEF TypeOK
<1>s. ASSUME NEW status
      PROVE  /\ IsFiniteSet({l \in Leg : legs[l].status = status})
             /\ InStatus(status) \in Nat
  <2>1. {l \in Leg : legs[l].status = status} \in SUBSET Leg
    OBVIOUS
  <2>2. IsFiniteSet({l \in Leg : legs[l].status = status})
    BY <2>1, LegAssumption, FS_Subset
  <2> QED
    BY <2>2, FS_CardinalityType DEF InStatus
<1>1. InStatus("matched") <= RoomIn(matches)
  <2>1. /\ IsFiniteSet(Covered(matches)) /\ Cardinality(Covered(matches)) \in Nat
        /\ RoomIn(matches) \in Nat /\ Cardinality(Covered(matches)) <= RoomIn(matches)
    BY <1>m, <1>t, CoveredFits DEF MatchesSized
  <2>2. {l \in Leg : legs[l].status = "matched"} \in SUBSET Covered(matches)
    BY <1>t DEF MatchesAgree, Covered
  <2>3. InStatus("matched") <= Cardinality(Covered(matches))
    BY <2>1, <2>2, FS_Subset DEF InStatus
  <2>4. InStatus("matched") \in Nat
    BY <1>s
  <2> QED
    BY <2>1, <2>3, <2>4
<1>b. /\ IsFiniteSet(breaks) /\ IsFiniteSet(Groups(breaks))
      /\ Cardinality(Groups(breaks)) \in Nat /\ Cardinality(breaks) \in Nat
      /\ Cardinality(Groups(breaks)) <= Cardinality(breaks)
  BY PositionsNumber, GroupsCounted
<1>2. InStatus("break") <= 2 * Cardinality(Groups(breaks))
  <2>1. PICK K : K = Groups(breaks)
    OBVIOUS
  <2>2. \A S \in K : IsFiniteSet(S) /\ Cardinality(S) <= 2
    BY <2>1 DEF Groups, BreaksSmall
  <2>3. /\ IsFiniteSet(UNION K) /\ Cardinality(UNION K) \in Nat
        /\ Cardinality(K) \in Nat /\ Cardinality(UNION K) <= 2 * Cardinality(K)
    BY <1>b, <2>1, <2>2, PairsCover
  <2>4. {l \in Leg : legs[l].status = "break"} \in SUBSET (UNION K)
    BY <1>t, <2>1 DEF BreaksAgree, Groups
  <2>5. InStatus("break") <= Cardinality(UNION K)
    BY <2>3, <2>4, FS_Subset DEF InStatus
  <2>6. InStatus("break") \in Nat
    BY <1>s
  <2> QED
    BY <2>1, <2>3, <2>5, <2>6
<1>3. ASSUME NEW rule
      PROVE  /\ IsFiniteSet({m \in matches : m.rule = rule})
             /\ CountByRule(matches, rule) \in Nat
  <2>1. IsFiniteSet({m \in matches : m.rule = rule})
    BY <1>m, FS_Subset
  <2> QED
    BY <2>1, FS_CardinalityType DEF CountByRule
<1>4. \A m \in matches : m.rule \in RuleIds
  BY <1>m DEF Match
<1>5. /\ Count(matches, 1) = CountByRule(matches, RuleT1Exact)
      /\ Count(matches, 3) = CountByRule(matches, RuleT3Subset)
  <2>1. /\ {m \in matches : Tier(m.rule) = 1} = {m \in matches : m.rule = RuleT1Exact}
        /\ {m \in matches : Tier(m.rule) = 3} = {m \in matches : m.rule = RuleT3Subset}
    BY <1>4, TierOfRule
  <2> QED
    BY <2>1 DEF Count, CountByRule
<1>6. Count(matches, 2) <= CountByRule(matches, RuleT2Tolerant)
        + CountByRule(matches, RuleT2AmountDate) + CountByRule(matches, RuleT2Late)
  <2> DEFINE A == {m \in matches : m.rule = RuleT2Tolerant}
             B == {m \in matches : m.rule = RuleT2AmountDate}
             C == {m \in matches : m.rule = RuleT2Late}
  <2>1. {m \in matches : Tier(m.rule) = 2} = A \cup (B \cup C)
    BY <1>4, TierOfRule
  <2>2. IsFiniteSet(A) /\ IsFiniteSet(B) /\ IsFiniteSet(C)
    BY <1>3
  <2>3. Count(matches, 2) = Cardinality(A \cup (B \cup C))
    BY <2>1 DEF Count
  <2>c. /\ CountByRule(matches, RuleT2Tolerant) = Cardinality(A)
        /\ CountByRule(matches, RuleT2AmountDate) = Cardinality(B)
        /\ CountByRule(matches, RuleT2Late) = Cardinality(C)
    BY DEF CountByRule
  <2> HIDE DEF A, B, C
  <2>4. /\ IsFiniteSet(B \cup C)
        /\ Cardinality(B \cup C) = Cardinality(B) + Cardinality(C) - Cardinality(B \cap C)
    BY <2>2, FS_Union
  <2>5. Cardinality(A \cup (B \cup C))
          = Cardinality(A) + Cardinality(B \cup C) - Cardinality(A \cap (B \cup C))
    BY <2>2, <2>4, FS_Union
  <2>6. IsFiniteSet(B \cap C) /\ IsFiniteSet(A \cap (B \cup C))
    BY <2>2, FS_Intersection
  <2>7. /\ Cardinality(A) \in Nat /\ Cardinality(B) \in Nat /\ Cardinality(C) \in Nat
        /\ Cardinality(B \cap C) \in Nat /\ Cardinality(A \cap (B \cup C)) \in Nat
    BY <2>2, <2>6, FS_CardinalityType
  <2> QED
    BY <2>3, <2>4, <2>5, <2>7, <2>c
<1>7. /\ Cardinality(Rows("open")) \in Nat /\ Cardinality(Rows("resolved")) \in Nat
      /\ Cardinality(breaks) <= Cardinality(Rows("open")) + Cardinality(Rows("resolved"))
  <2>1. Rows("open") \in SUBSET breaks /\ Rows("resolved") \in SUBSET breaks
    BY DEF Rows
  <2>2. \A b \in breaks : b.status \in {"open", "resolved"}
    BY <1>t DEF TypeOK, Break
  <2>3. PICK A, B : A = Rows("open") /\ B = Rows("resolved") /\ breaks = A \cup B
    <3>1. \A b \in breaks : b \in Rows("open") \/ b \in Rows("resolved")
      BY <2>2 DEF Rows
    <3>2. breaks = Rows("open") \cup Rows("resolved")
      BY <2>1, <3>1
    <3> QED
      BY <3>2
  <2>4. /\ IsFiniteSet(A) /\ Cardinality(A) \in Nat
        /\ IsFiniteSet(B) /\ Cardinality(B) \in Nat
    BY <2>1, <2>3, PositionsNumber
  <2>5. Cardinality(A \cup B) = Cardinality(A) + Cardinality(B) - Cardinality(A \cap B)
    BY <2>4, FS_Union
  <2>6. Cardinality(A \cap B) \in Nat
    BY <2>4, FS_Intersection, FS_CardinalityType
  <2> QED
    BY <2>3, <2>4, <2>5, <2>6
<1>8. InStatus("matched") \in Nat /\ InStatus("break") \in Nat
  BY <1>s
<1>9. \A rule : CountByRule(matches, rule) \in Nat
  BY <1>3
<1>10. /\ Count(matches, 1) <= CountByRule(matches, RuleT1Exact)
       /\ Count(matches, 3) <= CountByRule(matches, RuleT3Subset)
  BY <1>5, <1>9
<1>11. Cardinality(Groups(breaks)) <= Cardinality(Rows("open")) + Cardinality(Rows("resolved"))
  BY <1>b, <1>7
<1> QED
  BY <1>1, <1>2, <1>6, <1>7, <1>8, <1>9, <1>10, <1>11, <1>b


\* What can be said of the first n figures f, M being the matches and K the groups
\* of legs in break of the moment.
Told(n, f, M, K) ==
    /\ n \in 0..5
    /\ n >= 1 => /\ "legs" \in DOMAIN f
                 /\ f["legs"].matched \in Nat /\ f["legs"].broken \in Nat
                 /\ f["legs"].broken <= 2 * Cardinality(K)
    /\ n = 1 => f["legs"].matched <= RoomIn(M)
    /\ n >= 2 => /\ "tiers" \in DOMAIN f
                 /\ \A tier \in 1..3 : f["tiers"][tier] \in Nat
                 /\ f["legs"].matched <=
                       Room(f["tiers"][1], f["tiers"][2], f["tiers"][3])
    /\ n = 2 => \A tier \in 1..3 : f["tiers"][tier] <= Count(M, tier)
    /\ n >= 3 => /\ "rules" \in DOMAIN f
                 /\ f["tiers"][1] <= f["rules"][RuleT1Exact]
                 /\ f["tiers"][2] <= f["rules"][RuleT2Tolerant]
                       + f["rules"][RuleT2AmountDate] + f["rules"][RuleT2Late]
                 /\ f["tiers"][3] <= f["rules"][RuleT3Subset]
    /\ n >= 4 => /\ "breaks" \in DOMAIN f
                 /\ f["legs"].broken <= 2 * (f["breaks"]["open"] + f["breaks"]["resolved"])

\* The inductive form of StatsOneSided.
FiguresBelow ==
    reader.kind = "stats" /\ "reset" \notin since =>
        Told(reader.asked, reader.figures, matches, Groups(breaks))

\* More matches and breaks refute no figure.
LEMMA ToldStays ==
    ASSUME NEW n, NEW f, NEW N \in SUBSET Match, NEW M \in SUBSET N, NEW L, NEW K \in SUBSET L,
           IsFiniteSet(L), Told(n, f, M, K)
    PROVE  Told(n, f, N, L)
<1>1. \A tier : /\ Count(M, tier) \in Nat /\ Count(N, tier) \in Nat
                /\ Count(M, tier) <= Count(N, tier)
  BY MatchesFinite, CountGrows
<1>2. RoomIn(M) \in Nat /\ RoomIn(N) \in Nat /\ RoomIn(M) <= RoomIn(N)
  BY <1>1, RoomGrows DEF RoomIn
<1>3. n = 1 => f["legs"].matched <= RoomIn(N)
  <2> SUFFICES ASSUME n = 1 PROVE f["legs"].matched <= RoomIn(N)
    OBVIOUS
  <2>1. f["legs"].matched \in Nat /\ f["legs"].matched <= RoomIn(M)
    BY DEF Told
  <2> QED
    BY <1>2, <2>1
<1>4. n = 2 => \A tier \in 1..3 : f["tiers"][tier] <= Count(N, tier)
  <2> SUFFICES ASSUME n = 2, NEW tier \in 1..3 PROVE f["tiers"][tier] <= Count(N, tier)
    OBVIOUS
  <2>1. f["tiers"][tier] \in Nat /\ f["tiers"][tier] <= Count(M, tier)
    BY DEF Told
  <2> QED
    BY <1>1, <2>1
<1>5. n >= 1 => f["legs"].broken <= 2 * Cardinality(L)
  <2> SUFFICES ASSUME n >= 1 PROVE f["legs"].broken <= 2 * Cardinality(L)
    OBVIOUS
  <2>1. f["legs"].broken \in Nat /\ f["legs"].broken <= 2 * Cardinality(K)
    BY DEF Told
  <2>2. /\ Cardinality(K) \in Nat /\ Cardinality(L) \in Nat
        /\ Cardinality(K) <= Cardinality(L)
    BY FS_Subset, FS_CardinalityType
  <2> QED
    BY <2>1, <2>2
<1> QED
  BY <1>3, <1>4, <1>5 DEF Told

\* The next figure is not too small for those before it.
LEMMA ToldNext ==
    ASSUME TablesOK, BreaksSmall, NEW n, NEW figures, NEW K, K = Groups(breaks),
           Told(n, figures, matches, K), n < 5,
           NEW q, q = QueryOrder[n + 1], NEW f,
           f = [x \in DOMAIN figures \cup {q} |-> IF x = q THEN Query(q) ELSE figures[x]]
    PROVE  Told(n + 1, f, matches, K)
<1>n. n \in 0..5
  BY DEF Told
<1>f. /\ q \in DOMAIN f /\ f[q] = Query(q)
      /\ \A x \in DOMAIN figures : x \in DOMAIN f /\ (x # q => f[x] = figures[x])
  OBVIOUS
<1>m. \A tier : Count(matches, tier) \in Nat
  <2>1. matches \in SUBSET Match
    BY DEF TablesOK, Agreement, TypeOK
  <2> QED
    BY <2>1, MatchesFinite, CountGrows
<1>1. CASE n = 0
  <2>1. q = "legs"
    BY <1>1 DEF QueryOrder
  <2>2. f["legs"] = [matched |-> InStatus("matched"), broken |-> InStatus("break")]
    BY <1>f, <2>1 DEF Query
  <2>3. f["legs"].matched = InStatus("matched") /\ f["legs"].broken = InStatus("break")
    BY <2>2
  <2>4. /\ "legs" \in DOMAIN f
        /\ f["legs"].matched \in Nat /\ f["legs"].broken \in Nat
        /\ f["legs"].broken <= 2 * Cardinality(K)
        /\ f["legs"].matched <= RoomIn(matches)
    BY <1>f, <2>1, <2>3, FiguresNow
  <2> QED
    BY <1>1, <2>4 DEF Told
<1>2. CASE n = 1
  <2>1. q = "tiers"
    BY <1>2 DEF QueryOrder
  <2>2. f["tiers"] = [t \in 1..3 |-> Cardinality({m \in matches : Tier(m.rule) = t})]
    BY <1>f, <2>1 DEF Query
  <2>3. \A tier \in 1..3 : f["tiers"][tier] = Count(matches, tier)
    BY <2>2 DEF Count
  <2>4. "legs" \in DOMAIN f /\ f["legs"] = figures["legs"] /\ "tiers" \in DOMAIN f
    BY <1>2, <1>f, <2>1 DEF Told
  <2>5. /\ f["legs"].matched \in Nat /\ f["legs"].broken \in Nat
        /\ f["legs"].broken <= 2 * Cardinality(K)
        /\ f["legs"].matched <= RoomIn(matches)
    BY <1>2, <2>4 DEF Told
  <2>6. f["legs"].matched <= Room(f["tiers"][1], f["tiers"][2], f["tiers"][3])
    BY <2>3, <2>5 DEF RoomIn
  <2>7. \A tier \in 1..3 : /\ f["tiers"][tier] \in Nat
                           /\ f["tiers"][tier] <= Count(matches, tier)
    BY <1>m, <2>3
  <2> QED
    BY <1>2, <2>4, <2>5, <2>6, <2>7 DEF Told
<1>3. CASE n = 2
  <2>1. q = "rules"
    BY <1>3 DEF QueryOrder
  <2>2. f["rules"] = [r \in RuleIds |-> Cardinality({m \in matches : m.rule = r})]
    BY <1>f, <2>1 DEF Query
  <2>3. \A r \in RuleIds : f["rules"][r] = CountByRule(matches, r)
    BY <2>2 DEF CountByRule
  <2>4. /\ "legs" \in DOMAIN f /\ f["legs"] = figures["legs"]
        /\ "tiers" \in DOMAIN f /\ f["tiers"] = figures["tiers"]
        /\ "rules" \in DOMAIN f
    BY <1>3, <1>f, <2>1 DEF Told
  <2>5. \A tier \in 1..3 : /\ f["tiers"][tier] \in Nat
                           /\ f["tiers"][tier] <= Count(matches, tier)
    BY <1>3, <2>4 DEF Told
  <2>6. /\ f["rules"][RuleT1Exact] = CountByRule(matches, RuleT1Exact)
        /\ f["rules"][RuleT2Tolerant] = CountByRule(matches, RuleT2Tolerant)
        /\ f["rules"][RuleT2AmountDate] = CountByRule(matches, RuleT2AmountDate)
        /\ f["rules"][RuleT2Late] = CountByRule(matches, RuleT2Late)
        /\ f["rules"][RuleT3Subset] = CountByRule(matches, RuleT3Subset)
    BY <2>3 DEF RuleIds
  <2>7. /\ f["tiers"][1] \in Nat /\ f["tiers"][1] <= Count(matches, 1)
        /\ f["tiers"][2] \in Nat /\ f["tiers"][2] <= Count(matches, 2)
        /\ f["tiers"][3] \in Nat /\ f["tiers"][3] <= Count(matches, 3)
    BY <2>5
  <2>8. /\ Count(matches, 1) \in Nat /\ Count(matches, 2) \in Nat /\ Count(matches, 3) \in Nat
        /\ CountByRule(matches, RuleT1Exact) \in Nat
        /\ CountByRule(matches, RuleT2Tolerant) \in Nat
        /\ CountByRule(matches, RuleT2AmountDate) \in Nat
        /\ CountByRule(matches, RuleT2Late) \in Nat
        /\ CountByRule(matches, RuleT3Subset) \in Nat
    BY <1>m, FiguresNow
  <2>9. /\ Count(matches, 1) <= CountByRule(matches, RuleT1Exact)
        /\ Count(matches, 2) <= CountByRule(matches, RuleT2Tolerant)
              + CountByRule(matches, RuleT2AmountDate) + CountByRule(matches, RuleT2Late)
        /\ Count(matches, 3) <= CountByRule(matches, RuleT3Subset)
    BY FiguresNow
  <2>10. /\ f["tiers"][1] <= f["rules"][RuleT1Exact]
         /\ f["tiers"][2] <= f["rules"][RuleT2Tolerant]
               + f["rules"][RuleT2AmountDate] + f["rules"][RuleT2Late]
         /\ f["tiers"][3] <= f["rules"][RuleT3Subset]
    BY <2>6, <2>7, <2>8, <2>9
  <2> QED
    BY <1>3, <2>4, <2>10 DEF Told
<1>4. CASE n = 3
  <2>1. q = "breaks"
    BY <1>4 DEF QueryOrder
  <2>2. f["breaks"] = [s \in {"open", "resolved"} |-> Cardinality(Rows(s))]
    BY <1>f, <2>1 DEF Query
  <2>3. /\ f["breaks"]["open"] = Cardinality(Rows("open"))
        /\ f["breaks"]["resolved"] = Cardinality(Rows("resolved"))
    BY <2>2
  <2>4. /\ "legs" \in DOMAIN f /\ f["legs"] = figures["legs"]
        /\ "tiers" \in DOMAIN f /\ f["tiers"] = figures["tiers"]
        /\ "rules" \in DOMAIN f /\ f["rules"] = figures["rules"]
        /\ "breaks" \in DOMAIN f
    BY <1>4, <1>f, <2>1 DEF Told
  <2>5. f["legs"].broken \in Nat /\ f["legs"].broken <= 2 * Cardinality(K)
    BY <1>4, <2>4 DEF Told
  <2>6. /\ Cardinality(K) \in Nat
        /\ f["breaks"]["open"] \in Nat /\ f["breaks"]["resolved"] \in Nat
        /\ Cardinality(K) <= f["breaks"]["open"] + f["breaks"]["resolved"]
    BY <2>3, FiguresNow
  <2>7. f["legs"].broken <= 2 * (f["breaks"]["open"] + f["breaks"]["resolved"])
    BY <2>5, <2>6
  <2> QED
    BY <1>4, <2>4, <2>7 DEF Told
<1>5. CASE n = 4
  <2>1. q = "index"
    BY <1>5 DEF QueryOrder
  <2>2. /\ "legs" \in DOMAIN f /\ f["legs"] = figures["legs"]
        /\ "tiers" \in DOMAIN f /\ f["tiers"] = figures["tiers"]
        /\ "rules" \in DOMAIN f /\ f["rules"] = figures["rules"]
        /\ "breaks" \in DOMAIN f /\ f["breaks"] = figures["breaks"]
    BY <1>5, <1>f, <2>1 DEF Told
  <2> QED
    BY <1>5, <2>2 DEF Told
<1> QED
  BY <1>n, <1>1, <1>2, <1>3, <1>4, <1>5

LEMMA NextFigures ==
    ASSUME "ambiguous" \notin Faults, TablesOK, BreaksSmall, ReaderShape, FiguresBelow,
           [ReadersNext]_readVars
    PROVE  FiguresBelow'
<1>e. /\ TablesOK'
      /\ \/ UNCHANGED vars
         \/ /\ Write /\ reader' = reader
            /\ Resetting \/ (matches \subseteq matches' /\ \A b \in breaks : BreakIsKept(b))
  BY EngineOrReader
<1>1. ASSUME NEW status, ListBegin(status) PROVE reader'.kind = "list"
  BY <1>1 DEF ListBegin
<1>2. ASSUME ListNext PROVE reader'.kind = "list"
  <2>1. PICK status, offset, listed, began, done :
          reader' = ListReader(status, offset, listed, began, done)
    BY <1>2, ListNextReads, Zenon
  <2> QED
    BY <2>1 DEF ListReader
<1>3. ASSUME NEW row, ViewBegin(row) PROVE reader'.kind = "view"
  BY <1>3 DEF ViewBegin
<1>4. ASSUME ViewLeg PROVE reader'.kind = "view"
  BY <1>4, ViewLegReads DEF ViewReader
<1>5. ASSUME Deliver PROVE reader'.kind = "idle"
  BY <1>5 DEF Deliver, Idle
<1>6. CASE reader'.kind # "stats"
  BY <1>6 DEF FiguresBelow
<1>7. ASSUME StatsBegin PROVE FiguresBelow'
  <2>1. reader'.asked = 0
    BY <1>7 DEF StatsBegin
  <2> QED
    BY <2>1 DEF FiguresBelow, Told
<1>8. ASSUME StatsQuery PROVE FiguresBelow'
  <2> SUFFICES ASSUME "reset" \notin since' PROVE FiguresBelow'
    BY DEF FiguresBelow
  <2>1. PICK asked, figures, q, f :
          /\ reader = StatsReader(asked, figures) /\ asked < 5
          /\ q = QueryOrder[asked + 1]
          /\ f = [x \in DOMAIN figures \cup {q} |-> IF x = q THEN Query(q) ELSE figures[x]]
          /\ reader' = StatsReader(asked + 1, f)
    BY <1>8, StatsQueryReads
  <2>2. /\ reader.kind = "stats" /\ reader.asked = asked /\ reader.figures = figures
        /\ reader'.asked = asked + 1 /\ reader'.figures = f
    BY <2>1 DEF StatsReader
  <2>3. UNCHANGED <<matches, breaks, since>>
    BY <1>8 DEF StatsQuery, vars, store
  <2>4. PICK K : K = Groups(breaks)
    OBVIOUS
  <2>5. Told(asked, figures, matches, K)
    BY <2>2, <2>3, <2>4 DEF FiguresBelow
  <2>6. Told(asked + 1, f, matches, K)
    BY <2>1, <2>4, <2>5, ToldNext
  <2>7. Groups(breaks)' = K /\ matches' = matches
    BY <2>3, <2>4
  <2> QED
    BY <2>2, <2>6, <2>7 DEF FiguresBelow
<1>9. ASSUME Write PROVE FiguresBelow'
  <2> SUFFICES ASSUME reader'.kind = "stats", "reset" \notin since' PROVE FiguresBelow'
    BY DEF FiguresBelow
  <2>1. reader' = reader /\ reader # Idle
    BY <1>9 DEF Write, Idle
  <2>2. "reset" \notin since /\ ~Resetting
    BY <1>9, <2>1 DEF Write, Resetting
  <2>3. matches \subseteq matches' /\ Groups(breaks) \subseteq Groups(breaks)'
    BY <1>e, <2>2 DEF BreakIsKept, Groups, vars, store
  <2>4. PICK M, N, K, L : /\ M = matches /\ N = matches'
                          /\ K = Groups(breaks) /\ L = Groups(breaks)'
    OBVIOUS
  <2>5. N \in SUBSET Match /\ M \in SUBSET N /\ K \in SUBSET L
    BY <1>e, <2>3, <2>4 DEF TablesOK, Agreement, TypeOK
  <2>f. IsFiniteSet(L)
    <3>1. breaks' \in SUBSET Break /\ \A b, c \in breaks' : b.legs = c.legs => b = c
      BY <1>e DEF TablesOK, Agreement, TypeOK, BreaksKeyed
    <3> QED
      BY <2>4, <3>1, BreaksFinite, GroupsCounted
  <2>6. PICK n, f : n = reader.asked /\ f = reader.figures
    OBVIOUS
  <2>7. Told(n, f, M, K)
    BY <2>1, <2>2, <2>4, <2>6 DEF FiguresBelow
  <2>8. Told(n, f, N, L)
    BY <2>5, <2>7, <2>f, ToldStays
  <2> QED
    BY <2>1, <2>4, <2>6, <2>8 DEF FiguresBelow
<1>10. CASE UNCHANGED readVars
  BY <1>10 DEF FiguresBelow, Groups, readVars, vars, store
<1> QED
  BY <1>1, <1>2, <1>3, <1>4, <1>5, <1>6, <1>7, <1>8, <1>9, <1>10
  DEF ReadersNext, GetMatch, GetBreak

\* The figures, taken query by query while the engine goes on, err on one side
\* only: there is always room in the matches for the matched legs counted before
\* them, in the breaks, two legs to a break, for the broken ones, and in no tier
\* are the matches by rule too few.
THEOREM StatsAlwaysOneSided ==
    ASSUME "ambiguous" \notin Faults
    PROVE  ReadersSpec => []StatsOneSided
<1> DEFINE Inv == BreaksSmall /\ FiguresBelow
<1>1. ReadersInit => Inv
  BY DEF ReadersInit, Init, Idle, BreaksSmall, FiguresBelow
<1>2. TablesOK /\ ReaderShape /\ OneOpenPerRef /\ Inv /\ [ReadersNext]_readVars => Inv'
  <2>1. [ReadersNext]_readVars => [Next]_vars
    BY ReadersStep
  <2> QED
    BY <2>1, NextSmall, NextFigures
<1>3. FiguresBelow => StatsOneSided
  <2> SUFFICES ASSUME FiguresBelow, reader.kind = "stats", Finished, "reset" \notin since
               PROVE  StatsOneSided
    BY DEF StatsOneSided
  <2>1. reader.asked = 5
    BY DEF Finished, QueryOrder
  <2>2. PICK K : Told(5, reader.figures, matches, K)
    BY <2>1 DEF FiguresBelow
  <2> QED
    BY <2>2 DEF Told, Room, StatsOneSided
<1>4. ReadersSpec => []OneOpenPerRef
  <2>1. ReadersInit => Init
    BY DEF ReadersInit
  <2>2. [ReadersNext]_readVars => [Next]_vars
    BY ReadersStep
  <2> QED
    BY <2>1, <2>2, OneOpenPerRefAlways, PTL DEF ReadersSpec, Spec
<1> QED
  BY <1>1, <1>2, <1>3, <1>4, ReadersInvariant, PTL DEF ReadersSpec
=============================================================================
