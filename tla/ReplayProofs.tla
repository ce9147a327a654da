---------------------------- MODULE ReplayProofs ----------------------------
(***************************************************************************)
(* What a replay restores, for every log, what it means for counting a leg *)
(* once, and when it reproduces what it replaces.                          *)
(***************************************************************************)
EXTENDS ReplayAudit, ReconEngineProofs, WellFoundedInduction

-----------------------------------------------------------------------------
(* One step of a replay.                                                   *)

\* A resolution that names no match was entered by an operator.
ByHand(e) == e.type = "break.resolved" /\ e.match = {}

\* The events a replay acts on.
Acted(e) == e.type = "leg.ingested" \/ ByHand(e)

\* A step of a replay stores the leg whose arrival it reads, forgets none, and
\* appends only events that a later replay passes over.
LEMMA ReplayStepReads ==
    ASSUME TypeOK, ControlOK, IngestedSingly, NEW ack \in BOOLEAN, ReplayStep(ack)
    PROVE  /\ cursor \in DOMAIN log
           /\ Stored \subseteq Stored'
           /\ log[cursor].type = "leg.ingested" => log[cursor].legs \subseteq Stored'
           /\ \A i \in DOMAIN log : i \in DOMAIN log' /\ log'[i] = log[i]
           /\ \A i \in DOMAIN log' \ DOMAIN log : ~Acted(log'[i])
<1>s. StoreTyped /\ log \in Seq(Event)
  BY DEF TypeOK, StoreTyped
<1>1. cursor \in 1..Len(log) /\ log[cursor] \in Event
  BY DEF ReplayStep, TypeOK, ControlOK
<1>2. cursor \in DOMAIN log
  BY <1>s, <1>1
<1>3. PICK e : e = log[cursor]
  OBVIOUS
<1>4. e.legs \subseteq Leg /\ e.at \in Nat
  BY <1>1, <1>3 DEF Event
<1>5. PICK blind, lost :
        \/ /\ e.type = "leg.ingested"
           /\ \E l \in e.legs : IngestOne(l, e.at, FALSE, blind, lost, ack)
        \/ e.type = "break.resolved" /\ UNCHANGED <<legs, log>>
        \/ e.type # "leg.ingested" /\ UNCHANGED <<legs, log>>
  BY <1>3, Zenon DEF ReplayStep, ReapplyResolution, store
<1>6. CASE e.type # "leg.ingested" /\ UNCHANGED <<legs, log>>
  BY <1>2, <1>3, <1>6 DEF Stored
<1>7. CASE /\ e.type = "leg.ingested"
           /\ \E l \in e.legs : IngestOne(l, e.at, FALSE, blind, lost, ack)
  <2>1. PICK l \in e.legs : IngestOne(l, e.at, FALSE, blind, lost, ack)
    BY <1>7
  <2>2. log[cursor].type = "leg.ingested"
    BY <1>3, <1>7
  <2>3. PICK k : e.legs = {k}
    BY <1>2, <1>3, <2>2 DEF IngestedSingly
  <2>4. l \in Stored' /\ Stored \subseteq Stored'
    BY <1>s, <1>4, <2>1, IngestOneStores
  <2>5. /\ \A i \in DOMAIN log : i \in DOMAIN log' /\ log'[i] = log[i]
        /\ \A i \in DOMAIN log' \ DOMAIN log :
              /\ log'[i].type # "leg.ingested"
              /\ log'[i].type = "break.resolved" => log'[i].match # {}
    BY <1>s, <1>4, <2>1, IngestOneAppends
  <2> QED
    BY <1>2, <1>3, <2>1, <2>3, <2>4, <2>5 DEF Acted, ByHand
<1> QED
  BY <1>5, <1>6, <1>7

\* The steps that leave a replay under way.
LEMMA NextReplays ==
    ASSUME Next, op' \in {"reset", "replay"}
    PROVE  \/ \E from \in ReplayFrom : Replay(from)
           \/ ReplayReset
           \/ \E ack \in BOOLEAN : ReplayStep(ack)
<1>1. ASSUME NEW kind \in {"sweep", "close"}, NEW age, Expire(kind, age) PROVE FALSE
  BY <1>1 DEF Expire
<1>2. ASSUME NEW ack \in BOOLEAN, IngestStep(ack) PROVE FALSE
  BY <1>2 DEF IngestStep, Release
<1>3. ASSUME NEW ack \in BOOLEAN, ExpireStep(ack) PROVE FALSE
  BY <1>3 DEF ExpireStep, Release
<1>4. ASSUME NEW batch, Ingest(batch) PROVE FALSE
  BY <1>4 DEF Ingest
<1>5. ASSUME NEW b, ResolveBreak(b) PROVE FALSE
  BY <1>5 DEF ResolveBreak, control
<1>6. ~(WindowClosed \/ Abort \/ Crash \/ Rebuild \/ Tick)
  BY DEF WindowClosed, Abort, Crash, Rebuild, Tick, Release, control
<1> QED
  BY <1>1, <1>2, <1>3, <1>4, <1>5, <1>6 DEF Next, Sweep, CloseWindow

-----------------------------------------------------------------------------
(* A leg is counted once.                                                  *)

\* There are no replays, or all of them read the whole log and end.
ReplaysComplete ==
    ReplayFrom = {} \/ (ReplayFrom \subseteq {1} /\ Faults \subseteq {"lookup"})

\* The legs the log knows are stored, or a replay has yet to reach them.
IngestedKnown ==
    /\ op \in {"reset", "replay"} =>
          /\ ReplayFrom # {}
          /\ \A i \in DOMAIN log : log[i].type = "leg.ingested" => i <= through
    /\ op = "reset" => cursor = 1
    /\ \A i \in DOMAIN log : log[i].type = "leg.ingested" =>
          log[i].legs \subseteq Stored \/ (op = "replay" /\ cursor <= i)

\* Every step keeps the arrivals known and counted once.
LEMMA NextCountsOnce ==
    ASSUME ReplaysComplete, TypeOK, ControlOK, IngestedSingly, IngestedKnown,
           IngestedOnce, [Next]_vars
    PROVE  IngestedKnown' /\ IngestedOnce'
<1>a. AppendsNoIngested \/ (op = "ingest" /\ \E l \in Leg : Announces(l))
  BY NextAppends
<1>n. AppendsNoIngested => IngestedOnce'
  BY DEF AppendsNoIngested, IngestedOnce
<1>l. log \in Seq(Event) /\ DOMAIN log = 1..Len(log) /\ Len(log) \in Nat
      /\ cursor \in Nat /\ through \in Nat
  BY DEF TypeOK
<1>1. ASSUME op \notin {"reset", "replay"}, op' \notin {"reset", "replay"},
             Stored \subseteq Stored'
      PROVE  IngestedKnown' /\ IngestedOnce'
  <2>1. CASE AppendsNoIngested
    <3>1. \A i \in DOMAIN log' : log'[i].type = "leg.ingested" => log'[i].legs \subseteq Stored'
      BY <1>1, <2>1 DEF AppendsNoIngested, IngestedKnown
    <3> QED
      BY <1>1, <1>n, <2>1, <3>1 DEF IngestedKnown
  <2>2. CASE \E l \in Leg : Announces(l)
    <3>1. PICK l \in Leg : Announces(l)
      BY <2>2
    <3>2. \A i \in DOMAIN log : log[i].type = "leg.ingested" => log[i].legs # {l}
      BY <1>1, <3>1 DEF Announces, HasLeg, IngestedKnown
    <3>3. \A i \in DOMAIN log' : log'[i].type = "leg.ingested" => log'[i].legs \subseteq Stored'
      BY <1>1, <3>1 DEF Announces, IngestedKnown
    <3>4. IngestedOnce'
      BY <3>1, <3>2 DEF Announces, IngestedOnce
    <3> QED
      BY <1>1, <3>3, <3>4 DEF IngestedKnown
  <2> QED
    BY <1>a, <2>1, <2>2
<1>2. ASSUME NEW from \in ReplayFrom, Replay(from)
      PROVE  IngestedKnown' /\ IngestedOnce'
  <2>1. /\ op = "idle" /\ op' = "reset" /\ cursor' = from /\ through' = Len(log)
        /\ Stored' = Stored
    BY <1>2 DEF Replay, Stored
  <2>2. AppendsNoIngested
    BY <1>a, <2>1
  <2>3. from = 1
    BY DEF ReplaysComplete
  <2>4. \A i \in DOMAIN log' : log'[i].type = "leg.ingested" =>
           i <= Len(log) /\ log'[i].legs \subseteq Stored'
    BY <1>l, <2>1, <2>2 DEF AppendsNoIngested, IngestedKnown
  <2> QED
    BY <1>n, <2>1, <2>2, <2>3, <2>4 DEF IngestedKnown
<1>3. CASE ReplayReset
  <2>1. op = "reset" /\ log' = log /\ Stored' = {}
    BY <1>3 DEF ReplayReset, Stored, Absent
  <2>2. IngestedOnce'
    BY <2>1 DEF IngestedOnce
  <2>3. CASE cursor <= through
    <3>1. op' = "replay" /\ cursor' = 1 /\ through' = through
      BY <1>3, <2>1, <2>3 DEF ReplayReset, IngestedKnown
    <3>2. \A i \in DOMAIN log : 1 <= i
      BY <1>l
    <3> QED
      BY <2>1, <2>2, <3>1, <3>2 DEF IngestedKnown
  <2>4. CASE ~(cursor <= through)
    <3>1. op' = "idle"
      BY <1>3, <2>4 DEF ReplayReset, Release
    <3>2. \A i \in DOMAIN log : log[i].type # "leg.ingested"
      BY <1>l, <2>1, <2>4 DEF IngestedKnown
    <3> QED
      BY <2>1, <2>2, <3>1, <3>2 DEF IngestedKnown
  <2> QED
    BY <2>3, <2>4
<1>4. ASSUME NEW ack \in BOOLEAN, ReplayStep(ack)
      PROVE  IngestedKnown' /\ IngestedOnce'
  <2>1. /\ Stored \subseteq Stored'
        /\ log[cursor].type = "leg.ingested" => log[cursor].legs \subseteq Stored'
    BY <1>4, ReplayStepReads
  <2>2. op = "replay" /\ ReplayFrom # {}
    BY <1>4 DEF ReplayStep, IngestedKnown
  <2>3. "ambiguous" \notin Faults
    BY <2>2 DEF ReplaysComplete
  <2>4. ack = TRUE
    BY <1>4, <2>3, Acknowledged DEF ReplayStep, TypeOK
  <2>5. AppendsNoIngested
    BY <1>a, <2>2
  <2>6. \A i \in DOMAIN log' : log'[i].type = "leg.ingested" =>
           i \in DOMAIN log /\ log[i] = log'[i] /\ i <= through
    BY <2>2, <2>5 DEF AppendsNoIngested, IngestedKnown
  <2>7. \A i \in DOMAIN log : log[i].type = "leg.ingested" /\ i <= cursor =>
           log[i].legs \subseteq Stored'
    BY <1>l, <2>1 DEF IngestedKnown
  <2>8. CASE cursor < through
    <3>1. cursor' = cursor + 1 /\ op' = op /\ through' = through
      BY <1>4, <2>4, <2>8 DEF ReplayStep
    <3>2. \A i \in DOMAIN log : i <= cursor \/ cursor' <= i
      BY <1>l, <3>1
    <3> QED
      BY <1>n, <2>2, <2>5, <2>6, <2>7, <3>1, <3>2 DEF IngestedKnown
  <2>9. CASE ~(cursor < through)
    <3>1. op' = "idle"
      BY <1>4, <2>9 DEF ReplayStep, Release
    <3>2. \A i \in DOMAIN log : i <= through => i <= cursor
      BY <1>l, <2>9
    <3> QED
      BY <1>n, <2>5, <2>6, <2>7, <3>1, <3>2 DEF IngestedKnown
  <2> QED
    BY <2>8, <2>9
<1>5. CASE UNCHANGED vars
  BY <1>5 DEF vars, IngestedKnown, IngestedOnce, Stored
<1>6. CASE Next /\ op' \notin {"reset", "replay"} /\ op \in {"reset", "replay"}
  <2>1. ~(Abort \/ Crash)
    BY <1>6 DEF Abort, Crash, Strike, ReplaysComplete, IngestedKnown
  <2>2. ASSUME NEW kind, NEW age, Expire(kind, age) PROVE FALSE
    BY <1>6, <2>2 DEF Expire
  <2>3. ReplayReset \/ \E ack \in BOOLEAN : ReplayStep(ack)
    BY <1>6, <2>1, <2>2
    DEF Next, Ingest, IngestStep, Sweep, CloseWindow, ExpireStep, WindowClosed,
        ResolveBreak, Replay, Rebuild, Tick
  <2> QED
    BY <1>3, <1>4, <2>3
<1>7. CASE Next /\ op' \notin {"reset", "replay"} /\ op \notin {"reset", "replay"}
  <2>1. ~ReplayReset
    BY <1>7 DEF ReplayReset
  <2> QED
    BY <1>1, <1>7, <2>1, NextStores
<1> QED
  BY <1>2, <1>3, <1>4, <1>5, <1>6, <1>7, NextReplays

\* The log has one leg.ingested event for a leg, however often it is delivered,
\* whatever fails without a replay, and across replays that read the whole log
\* and end.
THEOREM IngestedOnceAlways ==
    ASSUME ReplaysComplete PROVE Spec => []IngestedOnce
<1> DEFINE Inv == /\ TypeOK /\ ControlOK /\ IngestedSingly
                  /\ IngestedKnown /\ IngestedOnce
<1>1. Init => Inv
  <2> SUFFICES ASSUME Init PROVE Inv
    OBVIOUS
  <2>1. TypeOK /\ ControlOK
    BY DEF Init, TypeOK, ControlOK, Absent, LegState, Statuses, Operations
  <2>2. IngestedSingly /\ IngestedKnown /\ IngestedOnce
    BY DEF Init, IngestedSingly, IngestedKnown, IngestedOnce
  <2> QED
    BY <2>1, <2>2
<1>2. Inv /\ [Next]_vars => Inv'
  BY NextTyped, NextIngestedSingly, NextCountsOnce
<1> QED
  BY <1>1, <1>2, PTL DEF Spec

-----------------------------------------------------------------------------
(* A completed replay from the start repairs the projections.              *)

\* Breaks hold stored legs.
BreaksStored == \A b \in breaks : b.legs # {} /\ b.legs \subseteq Stored

\* An operator resolves breaks of legs whose arrivals are earlier in the log.
Grounded ==
    \A i \in DOMAIN log : ByHand(log[i]) =>
        /\ log[i].legs # {}
        /\ \A l \in log[i].legs : \E j \in DOMAIN log :
              j < i /\ log[j].type = "leg.ingested" /\ log[j].legs = {l}

\* What a replay from the start has restored of the first events of the log.
Restored(n) ==
    \A i \in DOMAIN log : i < n =>
        /\ log[i].type = "leg.ingested" => log[i].legs \subseteq Stored
        /\ ByHand(log[i]) =>
              \A b \in breaks : b.legs = log[i].legs => b.status = "resolved"

\* A replay has restored what it has read, unless something failed.
SoFar ==
    /\ struck \in Nat
    /\ op \in {"reset", "replay"} =>
          struck <= faults /\ \A i \in DOMAIN log : Acted(log[i]) => i <= through
    /\ op = "reset" => cursor = first
    /\ op = "replay" /\ first = 1 /\ faults = struck => Restored(cursor)

\* A break transaction opens a break of stored legs.
LEMMA OpenBreakStores ==
    ASSUME NEW S \in SUBSET Leg, NEW l, l \in S, NEW trigger, NEW t, NEW said,
           OpenBreak(S, trigger, l, t, said)
    PROVE  \A b \in breaks' \ breaks : b.legs \subseteq Stored' /\ l \in b.legs
<1>1. \A b \in breaks' \ breaks : b.legs = S
  BY DEF OpenBreak, PutBreak, NewBreak
<1>2. S \subseteq Stored'
  BY SetLegsEffect DEF OpenBreak, Stored
<1> QED
  BY <1>1, <1>2

\* ingestOne opens breaks of the incoming leg only, and resolves one.
LEMMA IngestOneBreaks ==
    ASSUME StoreTyped, BreaksStored, NEW l \in Leg, NEW t, NEW live, NEW blind,
           NEW lost, NEW ack, IngestOne(l, t, live, blind, lost, ack)
    PROVE  /\ BreaksStored'
           /\ \A b \in breaks' \ breaks :
                 b.status = "resolved" \/ (l \in b.legs /\ ~HasLeg(l))
<1>0. PICK found, healable :
        \/ DropRedelivery(l, live)
        \/ BreakReusedRef(l, t, live)
        \/ /\ Fresh(l) /\ found = Found(l, blind) /\ healable = Healable(l, lost)
           /\ \/ MatchOpen(l, t, live, found, ack)
              \/ BreakOpenPartner(l, t, live, found, ack)
              \/ HealLateArrival(l, t, live, found, healable)
              \/ BreakKnownRef(l, t, live, found, healable)
              \/ WaitInWindow(l, t, live, found, ack)
  BY Zenon DEF IngestOne
<1>k. ASSUME \A b \in breaks' \ breaks : b.legs # {} /\ b.legs \subseteq Stored'
      PROVE  BreaksStored'
  <2>1. Stored \subseteq Stored'
    BY IngestOneStores
  <2> QED
    BY <1>k, <2>1 DEF BreaksStored
<1>n. CASE DropRedelivery(l, live) \/ MatchOpen(l, t, live, found, ack)
           \/ WaitInWindow(l, t, live, found, ack)
  <2>1. breaks' = breaks
    BY <1>n DEF DropRedelivery, MatchOpen, WaitInWindow
  <2> QED
    BY <1>k, <2>1
<1>o. ASSUME NEW S \in SUBSET Leg, l \in S, NEW trigger, ~HasLeg(l),
             OpenBreak(S, trigger, l, t, Announce(l, t, live))
      PROVE  /\ BreaksStored'
             /\ \A b \in breaks' \ breaks : l \in b.legs /\ ~HasLeg(l)
  <2>1. \A b \in breaks' \ breaks : b.legs \subseteq Stored' /\ l \in b.legs
    BY <1>o, OpenBreakStores
  <2> QED
    BY <1>o, <1>k, <2>1
<1>1. CASE BreakReusedRef(l, t, live)
  <2>1. {l} \in SUBSET Leg /\ l \in {l}
    OBVIOUS
  <2> QED
    BY <1>1, <1>o, <2>1 DEF BreakReusedRef
<1>2. CASE Fresh(l) /\ BreakOpenPartner(l, t, live, found, ack)
  <2>1. {l} \cup ByRef(l, index) \in SUBSET Leg /\ l \in {l} \cup ByRef(l, index)
    BY DEF ByRef, StoreTyped
  <2> QED
    BY <1>2, <1>o, <2>1 DEF BreakOpenPartner, Fresh
<1>3. CASE healable = Healable(l, lost) /\ HealLateArrival(l, t, live, found, healable)
  <2>1. PICK r \in Healable(l, lost) :
          LET b == CHOOSE b \in breaks : b.legs = legs[r].brk
          IN  PutBreak([b EXCEPT !.status = "resolved", !.actor = "system"])
    BY <1>3 DEF HealLateArrival
  <2>2. \E c \in breaks : c.legs = legs[r].brk
    BY DEF Healable
  <2>3. PICK b \in breaks :
          PutBreak([b EXCEPT !.status = "resolved", !.actor = "system"])
    BY <2>1, <2>2
  <2>4. \A c \in breaks' \ breaks : c.legs = b.legs /\ c.status = "resolved"
    BY <2>3 DEF PutBreak, StoreTyped, Break
  <2>5. Stored \subseteq Stored'
    BY IngestOneStores
  <2> QED
    BY <1>k, <2>4, <2>5 DEF BreaksStored
<1>4. CASE Fresh(l) /\ BreakKnownRef(l, t, live, found, healable)
  <2>1. {l} \in SUBSET Leg /\ l \in {l}
    OBVIOUS
  <2> QED
    BY <1>4, <1>o, <2>1 DEF BreakKnownRef, Fresh
<1> QED
  BY <1>0, <1>n, <1>1, <1>2, <1>3, <1>4

\* Every step of the engine keeps the breaks on stored legs.
LEMMA NextBreaksStored ==
    ASSUME TypeOK, ControlOK, BreaksStored, [Next]_vars
    PROVE  BreaksStored'
<1>s. StoreTyped /\ breaks \subseteq Break
  BY DEF TypeOK, StoreTyped
<1>u. ASSUME UNCHANGED <<legs, breaks>> PROVE BreaksStored'
  BY <1>u DEF BreaksStored, Stored
<1>1. ASSUME NEW ack \in BOOLEAN, IngestStep(ack) PROVE BreaksStored'
  <2>1. todo \in Seq(Arrival) /\ todo # <<>>
    BY <1>1 DEF IngestStep, TypeOK, ControlOK
  <2>2. Head(todo) \in Arrival
    BY <2>1
  <2>3. Head(todo).leg \in Leg
    BY <2>2 DEF Arrival
  <2> QED
    BY <1>1, <1>s, <2>3, IngestOneBreaks DEF IngestStep
<1>2. ASSUME NEW ack \in BOOLEAN, ExpireStep(ack) PROVE BreaksStored'
  <2>1. PICK l \in First(due) :
          OpenBreak({l}, "window_expired", l, legs[l].at, <<Ev("leg.expired", {l})>>)
    BY <1>2 DEF ExpireStep
  <2>2. {l} \in SUBSET Leg /\ l \in {l}
    BY DEF First, TypeOK
  <2>3. \A b \in breaks' \ breaks : b.legs \subseteq Stored' /\ l \in b.legs
    BY <2>1, <2>2, OpenBreakStores
  <2>4. Stored \subseteq Stored'
    BY <2>1, SetLegsEffect DEF OpenBreak, Stored
  <2> QED
    BY <2>3, <2>4 DEF BreaksStored
<1>3. ASSUME NEW b \in breaks, ResolveBreak(b) PROVE BreaksStored'
  <2>1. \A c \in breaks' \ breaks : c.legs = b.legs
    BY <1>3, <1>s DEF ResolveBreak, PutBreak, Break
  <2>2. Stored' = Stored
    BY <1>3 DEF ResolveBreak, Stored
  <2> QED
    BY <2>1, <2>2 DEF BreaksStored
<1>4. ASSUME NEW ack \in BOOLEAN, ReplayStep(ack) PROVE BreaksStored'
  <2>1. log[cursor] \in Event
    BY <1>4 DEF ReplayStep, TypeOK, ControlOK
  <2>2. PICK e : e = log[cursor]
    OBVIOUS
  <2>3. e.legs \subseteq Leg
    BY <2>1, <2>2 DEF Event
  <2>4. PICK blind, lost :
          \/ \E l \in e.legs : IngestOne(l, e.at, FALSE, blind, lost, ack)
          \/ ReapplyResolution(e, blind)
          \/ UNCHANGED <<legs, breaks>>
    BY <1>4, <2>2, Zenon DEF ReplayStep, store
  <2>5. CASE ReapplyResolution(e, blind)
    <3>1. \A c \in breaks' : c \in breaks \/
             \E b \in breaks : c = [b EXCEPT !.status = "resolved", !.actor = "operator"]
      BY <2>5, Zenon DEF ReapplyResolution
    <3>2. \A b \in breaks :
             [b EXCEPT !.status = "resolved", !.actor = "operator"].legs = b.legs
      BY <1>s DEF Break
    <3>3. Stored' = Stored
      BY <2>5 DEF ReapplyResolution, Stored
    <3>4. ASSUME NEW c \in breaks' PROVE \E b \in breaks : c.legs = b.legs
      <4>1. CASE c \in breaks
        BY <4>1
      <4>2. CASE c \notin breaks
        <5>1. PICK b \in breaks :
                c = [b EXCEPT !.status = "resolved", !.actor = "operator"]
          BY <3>1, <4>2, Zenon
        <5>2. c.legs = b.legs
          BY <3>2, <5>1, Zenon
        <5> QED
          BY <5>2
      <4> QED
        BY <4>1, <4>2
    <3> QED
      BY <3>3, <3>4 DEF BreaksStored
  <2>6. CASE \E l \in e.legs : IngestOne(l, e.at, FALSE, blind, lost, ack)
    <3>1. PICK l \in e.legs : IngestOne(l, e.at, FALSE, blind, lost, ack)
      BY <2>6
    <3> QED
      BY <1>s, <2>3, <3>1, IngestOneBreaks
  <2> QED
    BY <1>u, <2>4, <2>5, <2>6
<1>5. CASE ReplayReset
  BY <1>5 DEF ReplayReset, BreaksStored
<1>6. ASSUME NEW kind, NEW age, Expire(kind, age) PROVE BreaksStored'
  BY <1>6, <1>u DEF Expire, store
<1> QED
  BY <1>u, <1>1, <1>2, <1>3, <1>4, <1>5, <1>6
  DEF Next, Ingest, Sweep, CloseWindow, WindowClosed, Replay, Abort, Crash,
      Rebuild, Tick, vars, store

\* No step changes what is logged, and only an operator's resolution of a
\* break logs a resolution that names no match.
LEMMA NextByHand ==
    ASSUME TypeOK, ControlOK, IngestedSingly, [Next]_vars
    PROVE  /\ \A i \in DOMAIN log : i \in DOMAIN log' /\ log'[i] = log[i]
           /\ \A i \in DOMAIN log' \ DOMAIN log :
                 ByHand(log'[i]) => \E b \in breaks : log'[i].legs = b.legs
<1> DEFINE Goal ==
             /\ \A i \in DOMAIN log : i \in DOMAIN log' /\ log'[i] = log[i]
             /\ \A i \in DOMAIN log' \ DOMAIN log :
                   ByHand(log'[i]) => \E b \in breaks : log'[i].legs = b.legs
<1>s. StoreTyped /\ log \in Seq(Event)
  BY DEF TypeOK, StoreTyped
<1>u. ASSUME UNCHANGED log PROVE Goal
  BY <1>u
<1>1. ASSUME NEW ack \in BOOLEAN, IngestStep(ack) PROVE Goal
  <2>1. todo \in Seq(Arrival) /\ todo # <<>>
    BY <1>1 DEF IngestStep, TypeOK, ControlOK
  <2>2. Head(todo) \in Arrival
    BY <2>1
  <2>3. Head(todo).leg \in Leg /\ Head(todo).at \in Nat
    BY <2>2 DEF Arrival
  <2>p. PICK l \in Leg, t \in Nat :
           \E blind, lost : IngestOne(l, t, TRUE, blind, lost, ack)
    BY <1>1, <2>3 DEF IngestStep
  <2>4. PICK blind, lost : IngestOne(l, t, TRUE, blind, lost, ack)
    BY <2>p
  <2>5. /\ \A i \in DOMAIN log : i \in DOMAIN log' /\ log'[i] = log[i]
        /\ \A i \in DOMAIN log' \ DOMAIN log :
              log'[i].type = "break.resolved" => log'[i].match # {}
    BY <1>s, <2>4, IngestOneAppends
  <2> QED
    BY <2>5 DEF ByHand
<1>2. ASSUME NEW ack \in BOOLEAN, ExpireStep(ack) PROVE Goal
  <2>1. PICK l \in First(due) :
          OpenBreak({l}, "window_expired", l, legs[l].at, <<Ev("leg.expired", {l})>>)
    BY <1>2 DEF ExpireStep
  <2>2. l \in Leg /\ {l} \in SUBSET Leg
    BY DEF First, TypeOK
  <2> DEFINE expired == <<Ev("leg.expired", {l})>>
  <2>3. /\ expired \in Seq(Event)
        /\ \A j \in DOMAIN expired : expired[j].type = "leg.expired"
    BY <2>2 DEF Ev, Event, EventTypes
  <2>4. PICK S, trigger, t :
          S \in SUBSET Leg /\ OpenBreak(S, trigger, l, t, expired)
    BY <2>1, <2>2
  <2> HIDE DEF expired
  <2>5. /\ \A i \in DOMAIN log : i \in DOMAIN log' /\ log'[i] = log[i]
        /\ \A i \in DOMAIN log' \ DOMAIN log :
              \/ log'[i].type = "break.opened"
              \/ \E j \in DOMAIN expired : i = Len(log) + j /\ log'[i] = expired[j]
    BY <1>s, <2>3, <2>4, OpenBreakAppends
  <2> QED
    BY <2>3, <2>5 DEF ByHand
<1>3. ASSUME NEW ack \in BOOLEAN, ReplayStep(ack) PROVE Goal
  BY <1>3, ReplayStepReads DEF Acted
<1>a. ASSUME NEW e \in Event, log' = Append(log, e),
             ByHand(e) => \E b \in breaks : e.legs = b.legs
      PROVE  Goal
  <2>1. /\ \A i \in DOMAIN log : i \in DOMAIN log' /\ log'[i] = log[i]
        /\ \A i \in DOMAIN log' \ DOMAIN log : i = Len(log) + 1 /\ log'[i] = e
    BY <1>a, <1>s, AppendedOne
  <2> QED
    BY <1>a, <2>1
<1> HIDE DEF Goal
<1>4. ASSUME NEW b \in breaks, ResolveBreak(b) PROVE Goal
  <2>1. b.legs \subseteq Leg
    BY DEF TypeOK, Break
  <2>2. ResolvedEv(b.legs, {}) \in Event /\ ResolvedEv(b.legs, {}).legs = b.legs
    BY <2>1 DEF ResolvedEv, Ev, Event, EventTypes
  <2> QED
    BY <1>4, <1>a, <2>2 DEF ResolveBreak
<1>5. ASSUME WindowClosed PROVE Goal
  <2>1. Ev("window.closed", {}) \in Event /\ ~ByHand(Ev("window.closed", {}))
    BY DEF Ev, Event, EventTypes, ByHand
  <2> QED
    BY <1>5, <1>a, <2>1 DEF WindowClosed
<1>6. ASSUME NEW from \in ReplayFrom, Replay(from) PROVE Goal
  <2>1. Ev("replay.started", {}) \in Event /\ ~ByHand(Ev("replay.started", {}))
    BY DEF Ev, Event, EventTypes, ByHand
  <2> QED
    BY <1>6, <1>a, <2>1 DEF Replay
<1>7. ASSUME \/ \E batch \in Batches : Ingest(batch)
             \/ Sweep \/ CloseWindow \/ ReplayReset \/ Abort \/ Crash \/ Rebuild \/ Tick
             \/ UNCHANGED vars
      PROVE  Goal
  <2>1. UNCHANGED log
    BY <1>7 DEF Ingest, Sweep, CloseWindow, Expire, ReplayReset, Abort, Crash,
                Rebuild, Tick, vars, store
  <2> QED
    BY <1>u, <2>1
<1>8. Goal
  BY <1>1, <1>2, <1>3, <1>4, <1>5, <1>6, <1>7 DEF Next
<1> QED
  BY <1>8 DEF Goal

\* Resolutions by hand stay grounded in the arrivals logged before them.
LEMMA NextGrounded ==
    ASSUME TypeOK, ControlOK, IngestedSingly, LogCoversStore, BreaksStored,
           Grounded, [Next]_vars
    PROVE  Grounded'
<1>1. /\ \A i \in DOMAIN log : i \in DOMAIN log' /\ log'[i] = log[i]
      /\ \A i \in DOMAIN log' \ DOMAIN log :
            ByHand(log'[i]) => \E b \in breaks : log'[i].legs = b.legs
  BY NextByHand
<1>2. log' \in Seq(Event) /\ log \in Seq(Event)
  BY NextTyped DEF TypeOK
<1>3. \A i \in DOMAIN log' \ DOMAIN log : \A j \in DOMAIN log : j < i
  BY <1>2
<1> SUFFICES ASSUME NEW i \in DOMAIN log', ByHand(log'[i])
             PROVE  /\ log'[i].legs # {}
                    /\ \A l \in log'[i].legs : \E j \in DOMAIN log' :
                          j < i /\ log'[j].type = "leg.ingested" /\ log'[j].legs = {l}
  BY DEF Grounded
<1>4. CASE i \in DOMAIN log
  BY <1>1, <1>4 DEF Grounded
<1>5. CASE i \notin DOMAIN log
  <2>1. log'[i].legs # {} /\ log'[i].legs \subseteq Stored
    BY <1>1, <1>5 DEF BreaksStored
  <2>2. \A l \in log'[i].legs : \E j \in DOMAIN log :
           log[j].type = "leg.ingested" /\ log[j].legs = {l}
    BY <2>1 DEF LogCoversStore, Logged
  <2> QED
    BY <1>1, <1>3, <1>5, <2>1, <2>2
<1> QED
  BY <1>4, <1>5

\* A step of a replay during which no lookup fails restores the event it reads
\* and keeps what was restored: it derives no open break that a resolution
\* already passed would have to close, as the legs of that break are stored.
LEMMA ReplayStepRestores ==
    ASSUME TypeOK, ControlOK, IngestedSingly, BreaksStored, Grounded,
           Restored(cursor), NEW ack \in BOOLEAN, ReplayStep(ack), faults' = faults
    PROVE  \A i \in DOMAIN log : i <= cursor =>
              /\ log[i].type = "leg.ingested" => log[i].legs \subseteq Stored'
              /\ ByHand(log[i]) =>
                    \A b \in breaks' : b.legs = log[i].legs => b.status = "resolved"
<1>s. StoreTyped /\ log \in Seq(Event) /\ cursor \in Nat /\ faults \in Nat
  BY DEF TypeOK, StoreTyped
<1>1. /\ cursor \in DOMAIN log /\ Stored \subseteq Stored'
      /\ log[cursor].type = "leg.ingested" => log[cursor].legs \subseteq Stored'
  BY ReplayStepReads
<1>2. PICK e : e = log[cursor]
  OBVIOUS
<1>i. e \in Event
  BY <1>s, <1>1, <1>2
<1>3. e.legs \subseteq Leg
  BY <1>i DEF Event
<1>4. PICK blind, lost :
        /\ blind \in BOOLEAN /\ Suffer(blind, lost, ack)
        /\ \/ /\ e.type = "leg.ingested"
              /\ \E l \in e.legs : IngestOne(l, e.at, FALSE, blind, lost, ack)
           \/ e.type = "break.resolved" /\ ReapplyResolution(e, blind)
           \/ e.type \notin {"leg.ingested", "break.resolved"} /\ UNCHANGED <<store, index>>
  BY <1>2, Zenon DEF ReplayStep
<1>5. ~blind
  BY <1>4, <1>s, SufferCounts
<1>l. \A i \in DOMAIN log : i <= cursor => i < cursor \/ i = cursor
  BY <1>s
<1>6. ASSUME NEW i \in DOMAIN log, i <= cursor, log[i].type = "leg.ingested"
      PROVE  log[i].legs \subseteq Stored'
  BY <1>l, <1>1, <1>6 DEF Restored
<1>7. ASSUME NEW i \in DOMAIN log, i <= cursor, ByHand(log[i]),
             NEW b \in breaks', b.legs = log[i].legs
      PROVE  b.status = "resolved"
  <2>1. CASE ReapplyResolution(e, blind) /\ e.type = "break.resolved"
    <3>1. b.status = "resolved" \/ b \in breaks
      <4>1. \A c \in breaks :
               [c EXCEPT !.status = "resolved", !.actor = "operator"].status = "resolved"
        BY <1>s DEF StoreTyped, Break
      <4>2. b \in breaks \/ \E c \in breaks :
               b = [c EXCEPT !.status = "resolved", !.actor = "operator"]
        BY <2>1, <1>7, Zenon DEF ReapplyResolution
      <4> QED
        BY <4>1, <4>2
    <3>2. CASE i < cursor
      BY <1>7, <3>1, <3>2 DEF Restored
    <3>3. CASE i = cursor
      <4>1. b.legs = e.legs /\ e.match = {}
        BY <1>2, <1>7, <3>3 DEF ByHand
      <4>2. \/ b \in breaks /\ b.status # "open"
            \/ \E c \in breaks :
                  b = [c EXCEPT !.status = "resolved", !.actor = "operator"]
        BY <1>5, <1>7, <2>1, <4>1, Zenon DEF ReapplyResolution
      <4>3. \A c \in breaks :
               /\ c.status \in {"open", "resolved"}
               /\ [c EXCEPT !.status = "resolved", !.actor = "operator"].status = "resolved"
        BY <1>s DEF StoreTyped, Break
      <4> QED
        BY <4>2, <4>3
    <3> QED
      BY <1>7, <1>l, <3>2, <3>3
  <2>2. CASE e.type # "break.resolved" /\ UNCHANGED <<store, index>>
    <3>1. i < cursor
      BY <1>2, <1>7, <1>l, <2>2 DEF ByHand
    <3> QED
      BY <1>7, <2>2, <3>1 DEF Restored, store
  <2>3. CASE /\ e.type = "leg.ingested"
             /\ \E l \in e.legs : IngestOne(l, e.at, FALSE, blind, lost, ack)
    <3>1. PICK l \in e.legs : IngestOne(l, e.at, FALSE, blind, lost, ack)
      BY <2>3
    <3>2. i < cursor
      BY <1>2, <1>7, <1>l, <2>3 DEF ByHand
    <3>3. b \in breaks \/ b.status = "resolved" \/ (l \in b.legs /\ ~HasLeg(l))
      BY <1>s, <1>3, <1>7, <3>1, IngestOneBreaks
    <3>4. ASSUME l \in b.legs PROVE HasLeg(l)
      <4>1. PICK j \in DOMAIN log :
              j < i /\ log[j].type = "leg.ingested" /\ log[j].legs = {l}
        BY <1>7, <3>4 DEF Grounded
      <4>2. j < cursor
        BY <1>s, <3>2, <4>1
      <4> QED
        BY <4>1, <4>2 DEF Restored, HasLeg
    <3> QED
      BY <1>7, <3>2, <3>3, <3>4 DEF Restored
  <2> QED
    BY <1>4, <2>1, <2>2, <2>3
<1> QED
  BY <1>6, <1>7

\* A replay takes note of where it starts, and keeps the note.
LEMMA AuditNotes ==
    ASSUME AuditNext
    PROVE  /\ ReplayStarts => first' = cursor' /\ struck' = faults
           /\ ~ReplayStarts => first' = first /\ struck' = struck
BY DEF AuditNext

\* A replay has restored what it has read, step by step.
LEMMA NextSoFar ==
    ASSUME TypeOK, ControlOK, IngestedSingly, BreaksStored, Grounded, SoFar,
           [AuditNext]_auditVars
    PROVE  SoFar'
<1>t. /\ log \in Seq(Event) /\ DOMAIN log = 1..Len(log) /\ Len(log) \in Nat
      /\ cursor \in Nat /\ through \in Nat /\ faults \in Nat /\ struck \in Nat
  BY DEF TypeOK, SoFar
<1>u. CASE UNCHANGED auditVars
  BY <1>u DEF auditVars, vars, SoFar, Restored, Stored
<1>n. ASSUME AuditNext PROVE struck' \in Nat
  BY <1>t, <1>n, AuditNotes
<1>1. ASSUME AuditNext, NEW from \in ReplayFrom, Replay(from) PROVE SoFar'
  <2>1. /\ op' = "reset" /\ faults' = faults /\ through' = Len(log) /\ ReplayStarts
        /\ log' = Append(log, Ev("replay.started", {}))
    BY <1>1 DEF Replay, ReplayStarts
  <2>2. Ev("replay.started", {}) \in Event /\ ~Acted(Ev("replay.started", {}))
    BY DEF Ev, Event, EventTypes, Acted, ByHand
  <2>3. /\ \A i \in DOMAIN log : i \in DOMAIN log' /\ log'[i] = log[i]
        /\ \A i \in DOMAIN log' \ DOMAIN log :
              i = Len(log) + 1 /\ log'[i] = Ev("replay.started", {})
    BY <1>t, <2>1, <2>2, AppendedOne
  <2>4. \A i \in DOMAIN log' : Acted(log'[i]) => i <= through'
    BY <1>t, <2>1, <2>2, <2>3
  <2>5. first' = cursor' /\ struck' = faults
    BY <1>1, <2>1, AuditNotes
  <2>6. struck' <= faults'
    BY <1>t, <2>1, <2>5
  <2> QED
    BY <1>1, <1>n, <2>1, <2>4, <2>5, <2>6 DEF SoFar
<1>2. ASSUME AuditNext, ReplayReset PROVE SoFar'
  <2>1. op = "reset" /\ UNCHANGED <<log, faults>> /\ op' \in {"replay", "idle"}
    BY <1>2 DEF ReplayReset, Release
  <2>2. first' = first /\ struck' = struck
    BY <1>2, <2>1, AuditNotes DEF ReplayStarts
  <2>3. CASE op' = "replay"
    <3>1. cursor' = first /\ through' = through
      BY <1>2, <2>1, <2>3 DEF ReplayReset, Release, SoFar
    <3>2. first = 1 => Restored(cursor)'
      BY <1>t, <2>1, <3>1 DEF Restored
    <3> QED
      BY <2>1, <2>2, <2>3, <3>1, <3>2 DEF SoFar
  <2>4. CASE op' = "idle"
    BY <1>2, <1>n, <2>4 DEF SoFar
  <2> QED
    BY <2>1, <2>3, <2>4
<1>3. ASSUME AuditNext, NEW ack \in BOOLEAN, ReplayStep(ack) PROVE SoFar'
  <2>1. op = "replay" /\ op' \in {"replay", "idle"}
    BY <1>3 DEF ReplayStep, Release
  <2>2. first' = first /\ struck' = struck
    BY <1>3, <2>1, AuditNotes DEF ReplayStarts
  <2>3. CASE op' = "idle"
    BY <1>3, <1>n, <2>3 DEF SoFar
  <2>4. CASE op' = "replay"
    <3>1. cursor' = cursor + 1 /\ through' = through
      BY <1>3, <2>4 DEF ReplayStep, Release
    <3>2. /\ \A i \in DOMAIN log : i \in DOMAIN log' /\ log'[i] = log[i]
          /\ \A i \in DOMAIN log' \ DOMAIN log : ~Acted(log'[i])
      BY <1>3, ReplayStepReads
    <3>3. \A i \in DOMAIN log' : Acted(log'[i]) => i <= through'
      BY <2>1, <3>1, <3>2 DEF SoFar
    <3>4. faults <= faults'
      BY <1>3, <1>t, SufferCounts DEF ReplayStep
    <3>5. struck' <= faults'
      <4>1. struck <= faults
        BY <2>1 DEF SoFar
      <4>2. faults' \in Nat
        <5>1. [Next]_vars
          BY <1>3 DEF AuditNext
        <5> QED
          BY <5>1, NextTyped DEF TypeOK
      <4> QED
        BY <1>t, <2>2, <3>4, <4>1, <4>2
    <3>6. ASSUME first' = 1, faults' = struck' PROVE Restored(cursor)'
      <4>1. faults' = faults /\ faults = struck
        BY <1>t, <2>1, <2>2, <3>4, <3>6 DEF SoFar
      <4>2. Restored(cursor)
        BY <2>1, <2>2, <3>6, <4>1 DEF SoFar
      <4>3. \A i \in DOMAIN log : i <= cursor =>
               /\ log[i].type = "leg.ingested" => log[i].legs \subseteq Stored'
               /\ ByHand(log[i]) =>
                     \A b \in breaks' : b.legs = log[i].legs => b.status = "resolved"
        BY <1>3, <4>1, <4>2, ReplayStepRestores
      <4>4. \A i \in DOMAIN log' : i < cursor' /\ Acted(log'[i]) =>
               i \in DOMAIN log /\ log'[i] = log[i] /\ i <= cursor
        BY <1>t, <3>1, <3>2
      <4> QED
        BY <4>3, <4>4 DEF Restored, Acted
    <3> QED
      BY <1>3, <1>n, <2>4, <3>3, <3>5, <3>6 DEF SoFar
  <2> QED
    BY <2>1, <2>3, <2>4
<1>4. ASSUME AuditNext, op' \notin {"reset", "replay"} PROVE SoFar'
  BY <1>4, <1>n DEF SoFar
<1>5. ASSUME AuditNext, op' \in {"reset", "replay"} PROVE SoFar'
  <2>1. \/ \E from \in ReplayFrom : Replay(from)
        \/ ReplayReset
        \/ \E ack \in BOOLEAN : ReplayStep(ack)
    BY <1>5, NextReplays DEF AuditNext
  <2> QED
    BY <1>1, <1>2, <1>3, <1>5, <2>1
<1> QED
  BY <1>u, <1>4, <1>5

\* Where the replay stands, with all it rests on.
ReplayInv ==
    /\ TypeOK /\ ControlOK /\ IngestedSingly /\ LogCoversStore /\ MemoryIsStored
    /\ BreaksStored /\ Grounded /\ SoFar

\* The audited engine satisfies it, whatever fails.
LEMMA ReplayInvariant == AuditSpec => []ReplayInv
<1>1. AuditInit => ReplayInv
  <2> SUFFICES ASSUME AuditInit PROVE ReplayInv
    OBVIOUS
  <2>1. Init /\ struck = 0
    BY DEF AuditInit
  <2>2. TypeOK /\ ControlOK
    BY <2>1 DEF Init, TypeOK, ControlOK, Absent, LegState, Statuses, Operations
  <2>3. IngestedSingly /\ LogCoversStore /\ MemoryIsStored
    BY <2>1 DEF Init, Absent, IngestedSingly, LogCoversStore, Stored, MemoryIsStored
  <2>4. BreaksStored /\ Grounded /\ SoFar
    BY <2>1 DEF Init, BreaksStored, Grounded, SoFar
  <2> QED
    BY <2>2, <2>3, <2>4 DEF ReplayInv
<1>2. ReplayInv /\ [AuditNext]_auditVars => ReplayInv'
  <2> SUFFICES ASSUME ReplayInv, [AuditNext]_auditVars PROVE ReplayInv'
    OBVIOUS
  <2> USE DEF ReplayInv
  <2>1. [Next]_vars
    BY DEF AuditNext, auditVars
  <2>2. TypeOK' /\ ControlOK' /\ IngestedSingly' /\ LogCoversStore' /\ MemoryIsStored'
    BY <2>1, NextTyped, NextIngestedSingly, NextLogged
  <2>3. BreaksStored' /\ Grounded' /\ SoFar'
    BY <2>1, NextBreaksStored, NextGrounded, NextSoFar
  <2> QED
    BY <2>2, <2>3
<1> QED
  BY <1>1, <1>2, PTL DEF AuditSpec

\* A completed replay has restored every event it acts on, and logged none.
LEMMA CompletedRestores ==
    ASSUME ReplayInv, Next, ReplayCompletes, first = 1
    PROVE  /\ \A i \in DOMAIN log :
                 /\ log[i].type = "leg.ingested" => log[i].legs \subseteq Stored'
                 /\ ByHand(log[i]) =>
                       \A b \in breaks' : b.legs = log[i].legs => b.status = "resolved"
           /\ \A l : Logged("leg.ingested", {l})' => Logged("leg.ingested", {l})
<1> USE DEF ReplayInv
<1>t. /\ log \in Seq(Event) /\ DOMAIN log = 1..Len(log) /\ Len(log) \in Nat
      /\ cursor \in Nat /\ through \in Nat /\ faults \in Nat /\ struck \in Nat
  BY DEF TypeOK, SoFar
<1>c. /\ op \in {"reset", "replay"} /\ op' \notin {"reset", "replay"}
      /\ cursor >= through /\ faults' = struck
  BY DEF ReplayCompletes, ReplayEnds
<1>a. struck <= faults /\ \A i \in DOMAIN log : Acted(log[i]) => i <= cursor
  BY <1>t, <1>c DEF SoFar
<1>1. ~(Abort \/ Crash)
  BY <1>t, <1>a, <1>c DEF Abort, Crash, Strike
<1>2. ASSUME NEW kind, NEW age, Expire(kind, age) PROVE FALSE
  BY <1>2, <1>c DEF Expire
<1>3. ReplayReset \/ \E ack \in BOOLEAN : ReplayStep(ack)
  BY <1>1, <1>2, <1>c
  DEF Next, Ingest, IngestStep, Sweep, CloseWindow, ExpireStep, WindowClosed,
      ResolveBreak, Replay, Rebuild, Tick
<1>4. CASE ReplayReset
  <2>1. op = "reset" /\ UNCHANGED log /\ cursor = 1 /\ ~(cursor <= through)
    BY <1>c, <1>4 DEF ReplayReset, SoFar
  <2>2. \A i \in DOMAIN log : ~Acted(log[i])
    <3>1. \A i \in DOMAIN log : Acted(log[i]) => i <= through
      BY <1>c DEF SoFar
    <3>2. through = 0
      BY <1>t, <2>1
    <3> QED
      BY <1>t, <3>1, <3>2
  <2> QED
    BY <2>1, <2>2 DEF Acted, Logged
<1>5. CASE \E ack \in BOOLEAN : ReplayStep(ack)
  <2>1. PICK ack \in BOOLEAN : ReplayStep(ack)
    BY <1>5
  <2>2. faults <= faults' /\ op = "replay"
    BY <1>t, <2>1, SufferCounts DEF ReplayStep
  <2>3. faults' = faults /\ faults = struck
    BY <1>t, <1>a, <1>c, <2>2
  <2>4. Restored(cursor)
    BY <2>2, <2>3 DEF SoFar
  <2>5. \A i \in DOMAIN log : i <= cursor =>
           /\ log[i].type = "leg.ingested" => log[i].legs \subseteq Stored'
           /\ ByHand(log[i]) =>
                 \A b \in breaks' : b.legs = log[i].legs => b.status = "resolved"
    BY <2>1, <2>3, <2>4, ReplayStepRestores
  <2>6. /\ \A i \in DOMAIN log : i \in DOMAIN log' /\ log'[i] = log[i]
        /\ \A i \in DOMAIN log' \ DOMAIN log : ~Acted(log'[i])
    BY <2>1, ReplayStepReads
  <2>7. \A l : Logged("leg.ingested", {l})' => Logged("leg.ingested", {l})
    BY <2>6 DEF Logged, Acted
  <2> QED
    BY <1>a, <2>5, <2>7 DEF Acted
<1> QED
  BY <1>3, <1>4, <1>5

\* A replay of the whole log that nothing failed on stores exactly the legs
\* the log knows, whatever happened before: crashes, lost acknowledgements,
\* failing lookups, replays that were cut short or skipped events.
THEOREM ReplayAlwaysRestoresLegs == AuditSpec => ReplayRestoresLegs
<1>1. ReplayInv /\ ReplayInv' /\ [AuditNext]_auditVars =>
        [ReplayCompletes /\ first = 1 =>
           Stored' = {l \in Leg : Logged("leg.ingested", {l})}]_auditVars
  <2> SUFFICES ASSUME ReplayInv, ReplayInv', AuditNext, ReplayCompletes, first = 1
               PROVE  Stored' = {l \in Leg : Logged("leg.ingested", {l})}
    OBVIOUS
  <2>1. /\ \A i \in DOMAIN log :
              log[i].type = "leg.ingested" => log[i].legs \subseteq Stored'
        /\ \A l : Logged("leg.ingested", {l})' => Logged("leg.ingested", {l})
    BY CompletedRestores DEF AuditNext
  <2>2. Stored' \subseteq Leg /\ \A l \in Stored' : Logged("leg.ingested", {l})'
    BY DEF ReplayInv, LogCoversStore, Stored
  <2>3. \A l : Logged("leg.ingested", {l}) => l \in Stored'
    BY <2>1 DEF Logged
  <2> QED
    BY <2>1, <2>2, <2>3
<1> QED
  BY <1>1, ReplayInvariant, PTL DEF AuditSpec, ReplayRestoresLegs

\* A replay of the whole log that nothing failed on closes every break it
\* derives that an operator ever resolved, whatever happened before.
THEOREM ResolutionsAlwaysRestored == AuditSpec => ResolutionsRestored
<1>1. ReplayInv /\ [AuditNext]_auditVars =>
        [ReplayCompletes /\ first = 1 =>
           \A b \in breaks' : ResolvedByHand(b.legs) => b.status = "resolved"]_auditVars
  <2> SUFFICES ASSUME ReplayInv, AuditNext, ReplayCompletes, first = 1,
                      NEW b \in breaks', ResolvedByHand(b.legs)
               PROVE  b.status = "resolved"
    OBVIOUS
  <2>1. \A i \in DOMAIN log : ByHand(log[i]) =>
           \A c \in breaks' : c.legs = log[i].legs => c.status = "resolved"
    BY CompletedRestores DEF AuditNext
  <2> QED
    BY <2>1 DEF ResolvedByHand, ByHand
<1> QED
  BY <1>1, ReplayInvariant, PTL DEF AuditSpec, ResolutionsRestored

-----------------------------------------------------------------------------
(* What the log implies.  The operators below are the queries and change   *)
(* sets of the engine over projections P, as they were at any time, in     *)
(* place of the store: Arrived is ingestOne with the index the projections *)
(* give, and Derived what an event of the log makes of them.               *)

\* The projections before the first event.
Blank == [legs |-> [l \in Leg |-> Absent], matches |-> {}, breaks |-> {}]

StoredIn(P) == {l \in Leg : P.legs[l].status # "absent"}
OpenIn(P) == {l \in Leg : P.legs[l].status = "open"}
KnownIn(P) == {<<Ref(x), Source(x)>> : x \in StoredIn(P)}
RelatedIn(P, l) == {r \in StoredIn(P) \ {l} : Ref(r) = Ref(l)}
ReusedIn(P, l) == \E r \in RelatedIn(P, l) : Source(r) = Source(l)
FoundIn(P, l) == Find(l, OpenIn(P), KnownIn(P))

OldestIn(P, r, S) ==
    \A q \in S : \/ P.legs[r].at < P.legs[q].at
                 \/ P.legs[r].at = P.legs[q].at /\ r <= q

LabelIn(P, l, partners, trigger) ==
    LET others(S) == {q \in S : Source(q) # Source(l)}
        related == others(RelatedIn(P, l))
    IN  Classify(l, IF others(partners) # {} THEN First(others(partners))
                    ELSE {q \in related : OldestIn(P, q, related)},
                 ReusedIn(P, l), trigger)

HealableIn(P, l) ==
    {r \in RelatedIn(P, l) :
        /\ Source(r) # Source(l)
        /\ P.legs[r].status = "break" /\ P.legs[r].brk # {}
        /\ WithinTolerance(Amount(l), Amount(r))
        /\ Currency(r) = Currency(l)
        /\ \E b \in P.breaks : /\ b.legs = P.legs[r].brk
                               /\ b.status = "open"
                               /\ Cardinality(b.legs) = 1}

\* The projections P with the legs of S in another state.
LegsIn(P, S, status, m, b, l, t) ==
    [x \in Leg |-> IF x \in S
                   THEN [status |-> status, match |-> m, brk |-> b,
                         at |-> IF x = l THEN t ELSE P.legs[x].at]
                   ELSE P.legs[x]]

PutIn(P, b) == {c \in P.breaks : c.legs # b.legs} \cup {b}

BrokenIn(P, S, trigger, l, t) ==
    [legs |-> LegsIn(P, S, "break", {}, S, l, t),
     matches |-> P.matches,
     breaks |-> PutIn(P, [legs |-> S, trigger |-> trigger,
                          category |-> LabelIn(P, l, S \ {l}, trigger),
                          status |-> "open", actor |-> "none", opened |-> 0])]

MatchedIn(P, m, l, t) ==
    [legs |-> LegsIn(P, m.legs, "matched", m.legs, {}, l, t),
     matches |-> P.matches \cup {m},
     breaks |-> P.breaks]

HealedIn(P, r, l, t) ==
    LET b == CHOOSE b \in P.breaks : b.legs = P.legs[r].brk
    IN  [legs |-> LegsIn(P, {l, r}, "matched", {l, r}, {}, l, t),
         matches |-> P.matches \cup {[legs |-> {l, r}, rule |-> RuleT2Late]},
         breaks |-> PutIn(P, [b EXCEPT !.status = "resolved", !.actor = "system"])]

WaitingIn(P, l, t) ==
    [legs |-> LegsIn(P, {l}, "open", {}, {}, l, t),
     matches |-> P.matches, breaks |-> P.breaks]

\* The projections after the arrival of l, if they were P before.
Arrived(P, l, t) ==
    IF l \in StoredIn(P) THEN P
    ELSE IF ReusedIn(P, l) THEN BrokenIn(P, {l}, "duplicate", l, t)
    ELSE IF FoundIn(P, l) # {}
    THEN MatchedIn(P, CHOOSE m \in FoundIn(P, l) : TRUE, l, t)
    ELSE IF ByRef(l, OpenIn(P)) # {}
    THEN BrokenIn(P, {l} \cup ByRef(l, OpenIn(P)), "ref_conflict", l, t)
    ELSE IF HealableIn(P, l) # {}
    THEN HealedIn(P, CHOOSE r \in HealableIn(P, l) : OldestIn(P, r, HealableIn(P, l)), l, t)
    ELSE IF RelatedIn(P, l) # {} THEN BrokenIn(P, {l}, "ref_conflict", l, t)
    ELSE WaitingIn(P, l, t)

\* The projections after an operator resolved the break of S.
ResolvedIn(P, S) ==
    LET open == {b \in P.breaks : b.legs = S /\ b.status = "open"}
    IN  [legs |-> P.legs, matches |-> P.matches,
         breaks |-> (P.breaks \ open) \cup
                    {[b EXCEPT !.status = "resolved", !.actor = "operator"] : b \in open}]

\* What an event of the log makes of the projections.
Derived(P, e) ==
    IF e.type = "leg.ingested" THEN Arrived(P, CHOOSE l \in e.legs : TRUE, e.at)
    ELSE IF ByHand(e) THEN ResolvedIn(P, e.legs)
    ELSE P

\* tr[k] is what the first k events of the log lg make of the projections.
Trail(tr, lg, n) ==
    tr[0] = Blank /\ \A k \in 1..n : tr[k] = Derived(tr[k - 1], lg[k])

\* P is what the first n events of the log lg imply.
Implies(lg, n, P) == \E tr : Trail(tr, lg, n) /\ tr[n] = P

\* Before its first event a log implies blank projections.
LEMMA ImpliesBlank ==
    ASSUME NEW lg PROVE Implies(lg, 0, Blank)
<1> DEFINE tr == [k \in 0..0 |-> Blank]
<1>1. Trail(tr, lg, 0) /\ tr[0] = Blank
  BY DEF Trail
<1> HIDE DEF tr
<1> QED
  BY <1>1 DEF Implies

\* One event more.
LEMMA ImpliesNext ==
    ASSUME NEW lg, NEW n \in Nat, NEW P, Implies(lg, n, P)
    PROVE  Implies(lg, n + 1, Derived(P, lg[n + 1]))
<1>1. PICK tr : Trail(tr, lg, n) /\ tr[n] = P
  BY DEF Implies
<1>2. PICK Q : Q = Derived(P, lg[n + 1])
  OBVIOUS
<1> DEFINE more == [k \in 0..n + 1 |-> IF k = n + 1 THEN Q ELSE tr[k]]
<1>3. more[0] = Blank /\ more[n + 1] = Q
  BY <1>1 DEF Trail
<1>4. ASSUME NEW k \in 1..n + 1 PROVE more[k] = Derived(more[k - 1], lg[k])
  <2>1. CASE k = n + 1
    <3>1. more[k - 1] = P /\ more[k] = Q
      BY <1>1, <2>1
    <3> QED
      BY <1>2, <2>1, <3>1
  <2>2. CASE k # n + 1
    <3>1. k \in 1..n /\ more[k] = tr[k] /\ more[k - 1] = tr[k - 1]
      BY <2>2
    <3> HIDE DEF more
    <3> QED
      BY <1>1, <3>1 DEF Trail
  <2> QED
    BY <2>1, <2>2
<1> HIDE DEF more
<1>5. Trail(more, lg, n + 1) /\ more[n + 1] = Q
  BY <1>3, <1>4 DEF Trail
<1> QED
  BY <1>2, <1>5 DEF Implies

\* Events that nothing is derived from.
LEMMA ImpliesInert ==
    ASSUME NEW lg, NEW n \in Nat, NEW m \in Nat, n <= m, NEW P, Implies(lg, n, P),
           \A i \in n + 1..m : ~Acted(lg[i])
    PROVE  Implies(lg, m, P)
<1>1. PICK tr : Trail(tr, lg, n) /\ tr[n] = P
  BY DEF Implies
<1> DEFINE more == [k \in 0..m |-> IF k <= n THEN tr[k] ELSE P]
<1>3. more[0] = Blank /\ more[m] = P
  BY <1>1 DEF Trail
<1>4. ASSUME NEW k \in 1..m PROVE more[k] = Derived(more[k - 1], lg[k])
  <2>1. CASE k <= n
    <3>1. k \in 1..n /\ more[k] = tr[k] /\ more[k - 1] = tr[k - 1]
      BY <2>1
    <3> HIDE DEF more
    <3> QED
      BY <1>1, <3>1 DEF Trail
  <2>2. CASE ~(k <= n)
    <3>1. more[k] = P /\ more[k - 1] = P /\ k \in n + 1..m
      BY <1>1, <2>2
    <3>2. \A Q : Derived(Q, lg[k]) = Q
      BY <3>1 DEF Derived, Acted
    <3> QED
      BY <3>1, <3>2
  <2> QED
    BY <2>1, <2>2
<1> HIDE DEF more
<1>5. Trail(more, lg, m) /\ more[m] = P
  BY <1>3, <1>4 DEF Trail
<1> QED
  BY <1>5 DEF Implies

\* What the first events imply does not depend on later ones.
LEMMA ImpliesPrefix ==
    ASSUME NEW lg, NEW more, NEW n \in Nat, NEW P, Implies(lg, n, P),
           \A i \in 1..n : more[i] = lg[i]
    PROVE  Implies(more, n, P)
BY DEF Implies, Trail

\* A set of numbers has a least one.
LEMMA LeastNumber ==
    ASSUME NEW T, T \subseteq Nat, T # {}
    PROVE  \E k \in T : \A j \in T : k <= j
<1>1. PICK k \in T : \A j \in T : <<j, k>> \notin OpToRel(<, Nat)
  BY NatLessThanWellFounded, WFMin
<1>2. \A j \in T : ~(j < k)
  BY <1>1 DEF OpToRel
<1> QED
  BY <1>2

\* A log implies one thing.
LEMMA ImpliesOne ==
    ASSUME NEW lg, NEW n \in Nat, NEW P, NEW Q, Implies(lg, n, P), Implies(lg, n, Q)
    PROVE  P = Q
<1>1. PICK tr : Trail(tr, lg, n) /\ tr[n] = P
  BY DEF Implies
<1>2. PICK ts : Trail(ts, lg, n) /\ ts[n] = Q
  BY DEF Implies
<1> DEFINE Apart == {k \in 0..n : tr[k] # ts[k]}
<1>3. SUFFICES ASSUME Apart # {} PROVE FALSE
  BY <1>1, <1>2
<1>a. Apart \subseteq Nat
  OBVIOUS
<1> HIDE DEF Apart
<1>4. PICK k \in Apart : \A j \in Apart : k <= j
  BY <1>3, <1>a, LeastNumber
<1>5. k \in 0..n /\ tr[k] # ts[k] /\ k # 0
  BY <1>1, <1>2 DEF Trail, Apart
<1>6. k \in 1..n /\ k - 1 \in 0..n /\ ~(k <= k - 1)
  BY <1>5
<1>7. tr[k - 1] = ts[k - 1]
  BY <1>4, <1>6 DEF Apart
<1>8. tr[k] = ts[k]
  BY <1>1, <1>2, <1>6, <1>7 DEF Trail
<1> QED
  BY <1>5, <1>8

-----------------------------------------------------------------------------
(* What the projections say is what the store says.                        *)

\* A break without the time it was opened.
Undated(b) == [b EXCEPT !.opened = 0]

\* It says everything else of the break.
LEMMA UndatedKeeps ==
    ASSUME NEW b \in Break
    PROVE  /\ Undated(b).legs = b.legs /\ Undated(b).status = b.status
           /\ Undated(b).actor = b.actor /\ Undated(b).trigger = b.trigger
           /\ Undated(b).category = b.category /\ Undated(b).opened = 0
           /\ Undated(b) \in Break
BY DEF Undated, Break

\* The tables of the projections.
LEMMA ProjectedTables ==
    /\ Projections.legs = legs /\ Projections.matches = matches
    /\ Projections.breaks = {Undated(b) : b \in breaks}
BY DEF Projections, Undate, Tables, Undated

\* The queries have the same answers.
LEMMA QueriesAgree ==
    ASSUME StoreTyped
    PROVE  /\ StoredIn(Projections) = Stored
           /\ OpenIn(Projections) = OpenLegs
           /\ KnownIn(Projections) = KnownRefs(FALSE)
           /\ \A l : RelatedIn(Projections, l) = Related(l)
           /\ \A l : ReusedIn(Projections, l) <=> ReusedRef(l)
           /\ \A r, S : OldestIn(Projections, r, S) <=> IsOldest(r, S)
<1>1. StoredIn(Projections) = Stored /\ OpenIn(Projections) = OpenLegs
  BY ProjectedTables DEF StoredIn, Stored, OpenIn, OpenLegs
<1>2. KnownIn(Projections) = KnownRefs(FALSE)
  BY <1>1 DEF KnownIn, KnownRefs
<1>3. \A l : RelatedIn(Projections, l) = Related(l)
  BY <1>1, Zenon DEF RelatedIn, Related
<1>4. \A l : ReusedIn(Projections, l) <=> ReusedRef(l)
  BY <1>3, Zenon DEF ReusedIn, ReusedRef
<1>5. \A r, S : OldestIn(Projections, r, S) <=> IsOldest(r, S)
  BY ProjectedTables, Zenon DEF OldestIn, IsOldest
<1> QED
  BY <1>1, <1>2, <1>3, <1>4, <1>5

\* Labels are the same.
LEMMA LabelsSame ==
    ASSUME StoreTyped, NEW l, NEW partners, NEW trigger
    PROVE  LabelIn(Projections, l, partners, trigger) = Label(l, partners, trigger)
<1> DEFINE others(S) == {q \in S : Source(q) # Source(l)}
           seen == IF others(partners) # {} THEN First(others(partners))
                   ELSE {q \in others(Related(l)) : IsOldest(q, others(Related(l)))}
<1>1. RelatedIn(Projections, l) = Related(l) /\ (ReusedIn(Projections, l) <=> ReusedRef(l))
  BY QueriesAgree
<1>2. \A S : {q \in S : OldestIn(Projections, q, S)} = {q \in S : IsOldest(q, S)}
  BY QueriesAgree, Zenon
<1>3. LabelIn(Projections, l, partners, trigger) = Classify(l, seen, ReusedIn(Projections, l), trigger)
  BY <1>1, <1>2 DEF LabelIn
<1>4. Label(l, partners, trigger) = Classify(l, seen, ReusedRef(l), trigger)
  BY DEF Label, Opposite
<1> HIDE DEF seen
<1> QED
  BY <1>1, <1>3, <1>4 DEF Classify

\* The same breaks can be healed.
LEMMA HealableSame ==
    ASSUME StoreTyped, NEW l
    PROVE  HealableIn(Projections, l) = Healable(l, {})
<1>1. RelatedIn(Projections, l) = Related(l) \ {}
  BY QueriesAgree
<1>2. ASSUME NEW S
      PROVE  (\E b \in Projections.breaks :
                 b.legs = S /\ b.status = "open" /\ Cardinality(b.legs) = 1)
             <=> (\E b \in breaks :
                    b.legs = S /\ b.status = "open" /\ Cardinality(b.legs) = 1)
  <2>1. \A b \in breaks : Undated(b).legs = b.legs /\ Undated(b).status = b.status
    BY UndatedKeeps DEF StoreTyped
  <2>2. Projections.breaks = {Undated(b) : b \in breaks}
    BY ProjectedTables
  <2> QED
    BY <2>1, <2>2, Zenon
<1>3. Projections.legs = legs
  BY ProjectedTables
<1>4. ASSUME NEW r PROVE r \in HealableIn(Projections, l) <=> r \in Healable(l, {})
  <2> DEFINE alone(B) == \E b \in B : /\ b.legs = legs[r].brk
                                      /\ b.status = "open"
                                      /\ Cardinality(b.legs) = 1
             fits == /\ r \in Related(l) /\ Source(r) # Source(l)
                     /\ legs[r].status = "break" /\ legs[r].brk # {}
                     /\ WithinTolerance(Amount(l), Amount(r))
                     /\ Currency(r) = Currency(l)
  <2>1. alone(Projections.breaks) <=> alone(breaks)
    BY <1>2
  <2>2. r \in HealableIn(Projections, l) <=> fits /\ alone(Projections.breaks)
    BY <1>1, <1>3 DEF HealableIn
  <2>3. r \in Healable(l, {}) <=> fits /\ alone(breaks)
    BY DEF Healable
  <2> QED
    BY <2>1, <2>2, <2>3
<1> QED
  BY <1>4

\* Legs change in the same way.
LEMMA LegsSame ==
    ASSUME NEW S, NEW status, NEW m, NEW b, NEW l, NEW t,
           SetLegs(S, status, m, b, l, t)
    PROVE  legs' = LegsIn(Projections, S, status, m, b, l, t)
BY ProjectedTables DEF SetLegs, LegsIn, IngestedAt

\* Breaks are upserted in the same way.
LEMMA PutSame ==
    ASSUME StoreTyped, NEW b \in Break, PutBreak(b)
    PROVE  {Undated(c) : c \in breaks'} = PutIn(Projections, Undated(b))
<1>1. \A c \in breaks : Undated(c).legs = c.legs
  BY UndatedKeeps DEF StoreTyped
<1>2. Undated(b).legs = b.legs
  BY UndatedKeeps
<1>3. Projections.breaks = {Undated(c) : c \in breaks}
  BY ProjectedTables
<1>4. PutIn(Projections, Undated(b)) =
        {c \in {Undated(d) : d \in breaks} : c.legs # b.legs} \cup {Undated(b)}
  BY <1>2, <1>3 DEF PutIn
<1>5. {c \in {Undated(d) : d \in breaks} : c.legs # b.legs}
        = {Undated(d) : d \in {c \in breaks : c.legs # b.legs}}
  BY <1>1, Zenon
<1>6. {Undated(d) : d \in {c \in breaks : c.legs # b.legs} \cup {b}}
        = {Undated(d) : d \in {c \in breaks : c.legs # b.legs}} \cup {Undated(b)}
  BY Zenon
<1> QED
  BY <1>4, <1>5, <1>6, Zenon DEF PutBreak

\* There is one oldest leg.
LEMMA OldestIsOne ==
    ASSUME StoreTyped, NEW S \in SUBSET Leg, NEW q \in S, NEW r \in S,
           IsOldest(q, S), IsOldest(r, S)
    PROVE  q = r
<1>1. legs[q].at \in Nat /\ legs[r].at \in Nat /\ q \in Nat /\ r \in Nat
  BY LegAssumption DEF StoreTyped, LegState
<1>2. /\ legs[q].at < legs[r].at \/ (legs[q].at = legs[r].at /\ q <= r)
      /\ legs[r].at < legs[q].at \/ (legs[r].at = legs[q].at /\ r <= q)
  BY DEF IsOldest
<1> QED
  BY <1>1, <1>2

\* The tiers find at most one match.
LEMMA FoundIsOne ==
    ASSUME NEW l, NEW ix, NEW known, NEW m \in Find(l, ix, known),
           NEW n \in Find(l, ix, known)
    PROVE  m = n
<1> DEFINE tier(rank, S, rule) == [rank |-> rank, legs |-> S, rule |-> rule]
           tiers == {tier(1, Tier1(l, ix), RuleT1Exact),
                     tier(2, Tier2Ref(l, ix), RuleT2Tolerant),
                     tier(3, Tier2AmountDate(l, ix, known), RuleT2AmountDate),
                     tier(4, Tier3One(l, ix), RuleT3Subset),
                     tier(5, Tier3Many(l, ix), RuleT3Subset)}
           hits == {u \in tiers : u.legs # {}}
           best == {t \in hits : \A u \in hits : t.rank <= u.rank}
<1>1. Find(l, ix, known) = {[legs |-> {l} \cup t.legs, rule |-> t.rule] : t \in best}
  BY DEF Find
<1>2. PICK t \in best : m = [legs |-> {l} \cup t.legs, rule |-> t.rule]
  BY <1>1, Zenon
<1>3. PICK u \in best : n = [legs |-> {l} \cup u.legs, rule |-> u.rule]
  BY <1>1, Zenon
<1>4. t.rank <= u.rank /\ u.rank <= t.rank /\ t \in tiers /\ u \in tiers
  OBVIOUS
<1>5. \A a, b \in tiers : a.rank <= b.rank /\ b.rank <= a.rank => a = b
  BY SMT
<1>6. t = u
  BY <1>4, <1>5
<1> QED
  BY <1>2, <1>3, <1>6

\* The projections after a step.
LEMMA ProjectedNext ==
    Projections' = [legs |-> legs', matches |-> matches',
                    breaks |-> {Undated(b) : b \in breaks'}]
BY DEF Projections, Undate, Tables, Undated

\* A break transaction does to the projections what it does to the store.
LEMMA OpenBreakDerives ==
    ASSUME TypeOK, NEW S \in SUBSET Leg, NEW l \in Leg, NEW t, NEW said,
           NEW trigger \in Triggers, OpenBreak(S, trigger, l, t, said)
    PROVE  Projections' = BrokenIn(Projections, S, trigger, l, t)
<1>s. StoreTyped /\ now \in Nat
  BY DEF TypeOK, StoreTyped
<1>1. legs' = LegsIn(Projections, S, "break", {}, S, l, t)
  BY LegsSame DEF OpenBreak
<1>2. PICK c : c = Label(l, S \ {l}, trigger)
  OBVIOUS
<1>3. c \in Categories
  BY <1>2, LabelTyped
<1> DEFINE b == NewBreak(S, trigger, c)
<1>4. /\ b \in Break
      /\ Undated(b) = [legs |-> S, trigger |-> trigger, category |-> c,
                       status |-> "open", actor |-> "none", opened |-> 0]
  BY <1>s, <1>3 DEF NewBreak, Break, Actors, Undated
<1>5. PutBreak(b)
  BY <1>2 DEF OpenBreak
<1> HIDE DEF b
<1>6. {Undated(d) : d \in breaks'} = PutIn(Projections, Undated(b))
  BY <1>s, <1>4, <1>5, PutSame
<1>7. LabelIn(Projections, l, S \ {l}, trigger) = c
  BY <1>s, <1>2, LabelsSame
<1>8. matches' = Projections.matches
  BY ProjectedTables DEF OpenBreak
<1> QED
  BY <1>1, <1>4, <1>6, <1>7, <1>8, ProjectedNext DEF BrokenIn

\* And so does a transaction that matches legs of the index,
LEMMA MatchOpenDerives ==
    ASSUME TypeOK, NEW l \in Leg, NEW t, NEW live, NEW found, NEW ack, index = OpenLegs,
           found = Found(l, FALSE), MatchOpen(l, t, live, found, ack)
    PROVE  /\ FoundIn(Projections, l) # {}
           /\ Projections' = MatchedIn(Projections,
                                       CHOOSE m \in FoundIn(Projections, l) : TRUE, l, t)
<1>s. StoreTyped
  BY DEF TypeOK, StoreTyped
<1>1. FoundIn(Projections, l) = found
  BY <1>s, QueriesAgree DEF FoundIn, Found
<1>2. PICK m \in found :
        /\ SetLegs(m.legs, "matched", m.legs, {}, l, t)
        /\ matches' = matches \cup {m} /\ UNCHANGED breaks
  BY DEF MatchOpen
<1>3. (CHOOSE n \in found : TRUE) = m
  <2>1. \A n \in found : n = m
    BY FoundIsOne DEF Found
  <2> QED
    BY <2>1
<1>4. legs' = LegsIn(Projections, m.legs, "matched", m.legs, {}, l, t)
  BY <1>2, LegsSame
<1>5. Projections' = MatchedIn(Projections, m, l, t)
  BY <1>2, <1>4, ProjectedTables, ProjectedNext DEF MatchedIn
<1> QED
  BY <1>1, <1>3, <1>5

\* and one that heals a break.
LEMMA HealDerives ==
    ASSUME TypeOK, BreaksKeyed, NEW l \in Leg, NEW t, NEW live, NEW found,
           NEW healable, healable = Healable(l, {}),
           HealLateArrival(l, t, live, found, healable)
    PROVE  /\ HealableIn(Projections, l) # {}
           /\ Projections' =
                HealedIn(Projections,
                         CHOOSE r \in HealableIn(Projections, l) :
                             OldestIn(Projections, r, HealableIn(Projections, l)), l, t)
<1>s. StoreTyped
  BY DEF TypeOK, StoreTyped
<1>1. HealableIn(Projections, l) = healable
  BY <1>s, HealableSame
<1>2. PICK r \in healable :
        LET pair == {l, r}
            b == CHOOSE b \in breaks : b.legs = legs[r].brk
        IN  /\ IsOldest(r, healable)
            /\ SetLegs(pair, "matched", pair, {}, l, t)
            /\ matches' = matches \cup {[legs |-> pair, rule |-> RuleT2Late]}
            /\ PutBreak([b EXCEPT !.status = "resolved", !.actor = "system"])
  BY DEF HealLateArrival
<1>3. (CHOOSE q \in healable : OldestIn(Projections, q, healable)) = r
  <2>1. healable \subseteq Leg
    BY DEF Healable, Related, Stored
  <2>2. \A q \in healable : IsOldest(q, healable) => q = r
    BY <1>s, <1>2, <2>1, OldestIsOne
  <2>3. \A q : OldestIn(Projections, q, healable) <=> IsOldest(q, healable)
    BY <1>s, QueriesAgree
  <2> QED
    BY <1>2, <2>2, <2>3
<1>4. PICK b \in breaks : b.legs = legs[r].brk
  BY DEF Healable
<1>5. b \in Break /\ \A c \in breaks : c.legs = legs[r].brk => c = b
  BY <1>s, <1>4 DEF BreaksKeyed, StoreTyped
<1>6. (CHOOSE c \in breaks : c.legs = legs[r].brk) = b
  BY <1>4, <1>5
<1> DEFINE healed == [b EXCEPT !.status = "resolved", !.actor = "system"]
<1>7. /\ healed \in Break
      /\ Undated(healed) = [Undated(b) EXCEPT !.status = "resolved", !.actor = "system"]
  BY <1>5 DEF Undated, Break, Actors
<1>8. {Undated(d) : d \in breaks'} = PutIn(Projections, Undated(healed))
  <2>1. PutBreak(healed)
    BY <1>2, <1>6
  <2> HIDE DEF healed
  <2> QED
    BY <1>s, <1>7, <2>1, PutSame
<1>9. (CHOOSE c \in Projections.breaks : c.legs = Projections.legs[r].brk) = Undated(b)
  <2>1. \A c \in breaks : Undated(c).legs = c.legs
    BY <1>s, UndatedKeeps DEF StoreTyped
  <2>2. \A c \in Projections.breaks : c.legs = legs[r].brk => c = Undated(b)
    BY <1>5, <2>1, ProjectedTables, Zenon
  <2>3. Undated(b) \in Projections.breaks /\ Undated(b).legs = legs[r].brk
    BY <1>4, <2>1, ProjectedTables
  <2> QED
    BY <2>2, <2>3, ProjectedTables
<1> HIDE DEF healed
<1>a. /\ legs' = LegsIn(Projections, {l, r}, "matched", {l, r}, {}, l, t)
      /\ matches' = Projections.matches \cup {[legs |-> {l, r}, rule |-> RuleT2Late]}
  BY <1>2, LegsSame, ProjectedTables
<1>b. Projections' = HealedIn(Projections, r, l, t)
  BY <1>7, <1>8, <1>9, <1>a, ProjectedNext DEF HealedIn
<1> QED
  BY <1>1, <1>3, <1>b

\* ingestOne, when no lookup fails, derives from the projections what the
\* arrival implies, live or replayed.
LEMMA IngestOneDerives ==
    ASSUME TypeOK, BreaksKeyed, index = OpenLegs, NEW l \in Leg, NEW t, NEW live,
           NEW ack, IngestOne(l, t, live, FALSE, {}, ack)
    PROVE  Projections' = Arrived(Projections, l, t)
<1>s. StoreTyped
  BY DEF TypeOK, StoreTyped
<1>0. PICK found, healable :
        \/ DropRedelivery(l, live)
        \/ BreakReusedRef(l, t, live)
        \/ /\ Fresh(l) /\ found = Found(l, FALSE) /\ healable = Healable(l, {})
           /\ \/ MatchOpen(l, t, live, found, ack)
              \/ BreakOpenPartner(l, t, live, found, ack)
              \/ HealLateArrival(l, t, live, found, healable)
              \/ BreakKnownRef(l, t, live, found, healable)
              \/ WaitInWindow(l, t, live, found, ack)
  BY Zenon DEF IngestOne
<1>q. /\ l \in StoredIn(Projections) <=> HasLeg(l)
      /\ ReusedIn(Projections, l) <=> ReusedRef(l)
      /\ FoundIn(Projections, l) = Found(l, FALSE)
      /\ OpenIn(Projections) = index
      /\ RelatedIn(Projections, l) = Related(l)
      /\ HealableIn(Projections, l) = Healable(l, {})
  BY <1>s, QueriesAgree, HealableSame DEF HasLeg, FoundIn, Found
<1>w. {"duplicate", "ref_conflict"} \subseteq Triggers /\ {l} \in SUBSET Leg
  BY DEF Triggers
<1>1. CASE DropRedelivery(l, live)
  <2>1. Projections' = Projections
    BY <1>1 DEF DropRedelivery, Projections, Undate, Tables
  <2> QED
    BY <1>1, <1>q, <2>1 DEF DropRedelivery, Arrived
<1>2. CASE BreakReusedRef(l, t, live)
  <2>1. OpenBreak({l}, "duplicate", l, t, Announce(l, t, live)) /\ ~HasLeg(l) /\ ReusedRef(l)
    BY <1>2 DEF BreakReusedRef
  <2>2. Projections' = BrokenIn(Projections, {l}, "duplicate", l, t)
    BY <1>w, <2>1, OpenBreakDerives
  <2> QED
    BY <1>q, <2>1, <2>2 DEF Arrived
<1>3. CASE Fresh(l) /\ found = Found(l, FALSE) /\ MatchOpen(l, t, live, found, ack)
  <2>1. /\ FoundIn(Projections, l) # {}
        /\ Projections' = MatchedIn(Projections,
                                    CHOOSE m \in FoundIn(Projections, l) : TRUE, l, t)
    BY <1>3, MatchOpenDerives
  <2> QED
    BY <1>3, <1>q, <2>1 DEF Arrived, Fresh
<1>4. CASE /\ Fresh(l) /\ found = Found(l, FALSE)
           /\ BreakOpenPartner(l, t, live, found, ack)
  <2>1. PICK S : S = {l} \cup ByRef(l, index)
    OBVIOUS
  <2>2. /\ found = {} /\ ByRef(l, index) # {}
        /\ OpenBreak(S, "ref_conflict", l, t, Announce(l, t, live))
    BY <1>4, <2>1 DEF BreakOpenPartner
  <2>3. S \in SUBSET Leg
    BY <1>s, <2>1 DEF ByRef, StoreTyped
  <2>4. Projections' = BrokenIn(Projections, S, "ref_conflict", l, t)
    BY <1>w, <2>2, <2>3, OpenBreakDerives
  <2> QED
    BY <1>4, <1>q, <2>1, <2>2, <2>4 DEF Arrived, Fresh
<1>5. CASE /\ Fresh(l) /\ found = Found(l, FALSE) /\ healable = Healable(l, {})
           /\ HealLateArrival(l, t, live, found, healable)
  <2>1. PICK r : r = CHOOSE q \in HealableIn(Projections, l) :
                         OldestIn(Projections, q, HealableIn(Projections, l))
    OBVIOUS
  <2>2. /\ HealableIn(Projections, l) # {}
        /\ Projections' = HealedIn(Projections, r, l, t)
    BY <1>5, <2>1, HealDerives
  <2>3. found = {} /\ ByRef(l, index) = {}
    BY <1>5 DEF HealLateArrival, Unpartnered
  <2>4. Arrived(Projections, l, t) = HealedIn(Projections, r, l, t)
    BY <1>5, <1>q, <2>1, <2>2, <2>3, Zenon DEF Arrived, Fresh
  <2> QED
    BY <2>2, <2>4
<1>6. CASE /\ Fresh(l) /\ found = Found(l, FALSE) /\ healable = Healable(l, {})
           /\ BreakKnownRef(l, t, live, found, healable)
  <2>1. /\ OpenBreak({l}, "ref_conflict", l, t, Announce(l, t, live))
        /\ found = {} /\ ByRef(l, index) = {} /\ healable = {} /\ Related(l) # {}
    BY <1>6 DEF BreakKnownRef, Unpartnered
  <2>2. Projections' = BrokenIn(Projections, {l}, "ref_conflict", l, t)
    BY <1>w, <2>1, OpenBreakDerives
  <2> QED
    BY <1>6, <1>q, <2>1, <2>2 DEF Arrived, Fresh
<1>7. CASE /\ Fresh(l) /\ found = Found(l, FALSE)
           /\ WaitInWindow(l, t, live, found, ack)
  <2>1. /\ SetLegs({l}, "open", {}, {}, l, t) /\ UNCHANGED <<matches, breaks>>
        /\ found = {} /\ ByRef(l, index) = {} /\ Related(l) = {}
    BY <1>7 DEF WaitInWindow, Unpartnered
  <2>2. legs' = LegsIn(Projections, {l}, "open", {}, {}, l, t)
    BY <2>1, LegsSame
  <2>3. Projections' = WaitingIn(Projections, l, t)
    BY <2>1, <2>2, ProjectedTables, ProjectedNext DEF WaitingIn
  <2>4. HealableIn(Projections, l) = {}
    BY <1>q, <2>1 DEF Healable
  <2> QED
    BY <1>7, <1>q, <2>1, <2>3, <2>4 DEF Arrived, Fresh
<1> QED
  BY <1>0, <1>1, <1>2, <1>3, <1>4, <1>5, <1>6, <1>7

\* A break an operator resolved.
Closed(b) == [b EXCEPT !.status = "resolved", !.actor = "operator"]

\* Resolving the break of S in the store resolves it in the projections,
LEMMA ClosedDerives ==
    ASSUME TypeOK, NEW S, NEW open,
           open = {b \in breaks : b.legs = S /\ b.status = "open"},
           breaks' = (breaks \ open) \cup {Closed(b) : b \in open},
           UNCHANGED <<legs, matches>>
    PROVE  Projections' = ResolvedIn(Projections, S)
<1>s. StoreTyped
  BY DEF TypeOK, StoreTyped
<1>1. PICK shown : shown = {b \in Projections.breaks : b.legs = S /\ b.status = "open"}
  OBVIOUS
<1>2. \A b \in breaks : /\ Undated(b).legs = b.legs /\ Undated(b).status = b.status
                        /\ Undated(Closed(b)) = Closed(Undated(b))
  BY <1>s DEF StoreTyped, Undated, Break, Closed
<1>3. Projections.breaks = {Undated(b) : b \in breaks}
  BY ProjectedTables
<1>4. ResolvedIn(Projections, S) =
        [legs |-> Projections.legs, matches |-> Projections.matches,
         breaks |-> (Projections.breaks \ shown) \cup {Closed(b) : b \in shown}]
  BY <1>1 DEF ResolvedIn, Closed
<1>5. \A b \in breaks : b \in open <=> Undated(b) \in shown
  BY <1>1, <1>2, <1>3
<1> DEFINE kept(x) == \E b \in breaks : b \notin open /\ x = Undated(b)
           shut(x) == \E b \in open : x = Undated(Closed(b))
<1>a. PICK left, right :
        /\ left = {Undated(b) : b \in breaks'}
        /\ right = (Projections.breaks \ shown) \cup {Closed(b) : b \in shown}
  BY Zenon
<1>6. \A x : x \in left <=> kept(x) \/ shut(x)
  BY <1>a, Zenon
<1>7. \A x : x \in right <=> kept(x) \/ shut(x)
  <2>1. \A b \in shown : \E c \in open : b = Undated(c)
    BY <1>1, <1>3, <1>5
  <2>2. \A c \in open : Undated(c) \in shown /\ Undated(Closed(c)) = Closed(Undated(c))
    BY <1>2, <1>5
  <2>3. \A x : x \in {Closed(b) : b \in shown} <=> shut(x)
    BY <2>1, <2>2
  <2>4. \A x : x \in Projections.breaks \ shown <=> kept(x)
    BY <1>3, <1>5, Zenon
  <2> HIDE DEF kept, shut
  <2> QED
    BY <1>a, <2>3, <2>4
<1> HIDE DEF kept, shut
<1>c. left = right
  BY <1>6, <1>7
<1> QED
  BY <1>4, <1>a, <1>c, ProjectedTables, ProjectedNext

\* when a replay restores the resolution,
LEMMA ReapplyDerives ==
    ASSUME TypeOK, NEW e, e.match = {}, ReapplyResolution(e, FALSE)
    PROVE  Projections' = ResolvedIn(Projections, e.legs)
<1>1. PICK open : open = {b \in breaks : b.legs = e.legs /\ b.status = "open"}
  OBVIOUS
<1>2. breaks' = (breaks \ open) \cup {Closed(b) : b \in open} /\ UNCHANGED <<legs, matches>>
  BY <1>1 DEF ReapplyResolution, Closed
<1> QED
  BY <1>1, <1>2, ClosedDerives

\* and when the operator enters it.
LEMMA ResolveDerives ==
    ASSUME TypeOK, BreaksKeyed, NEW b \in breaks, ResolveBreak(b)
    PROVE  Projections' = ResolvedIn(Projections, b.legs)
<1>1. b.status = "open" /\ b \in Break
  BY DEF ResolveBreak, TypeOK
<1>2. Closed(b).legs = b.legs
  BY <1>1 DEF Break, Closed
<1>3. PICK open : open = {c \in breaks : c.legs = b.legs /\ c.status = "open"}
  OBVIOUS
<1>4. open = {b} /\ {c \in breaks : c.legs # b.legs} = breaks \ {b}
  BY <1>1, <1>3 DEF BreaksKeyed
<1>5. PutBreak(Closed(b)) /\ UNCHANGED <<legs, matches>>
  BY DEF ResolveBreak, Closed
<1>6. {Closed(c) : c \in {b}} = {Closed(b)}
  OBVIOUS
<1>7. breaks' = (breaks \ open) \cup {Closed(c) : c \in open}
  BY <1>2, <1>4, <1>5, <1>6 DEF PutBreak
<1> QED
  BY <1>3, <1>5, <1>7, ClosedDerives

-----------------------------------------------------------------------------
(* The projections are what the log implies.                               *)

\* A log that grows by events nothing is derived from.
LEMMA GrowsInert ==
    ASSUME log \in Seq(Event), log' \in Seq(Event),
           \A i \in DOMAIN log : i \in DOMAIN log' /\ log'[i] = log[i],
           NEW n \in 0..Len(log), NEW P, Implies(log, n, P)
    PROVE  /\ Implies(log', n, P)
           /\ (\A i \in DOMAIN log' : n < i => ~Acted(log'[i]))
                 => Implies(log', Len(log'), P)
<1>1. /\ DOMAIN log = 1..Len(log) /\ Len(log) \in Nat
      /\ DOMAIN log' = 1..Len(log') /\ Len(log') \in Nat /\ n \in Nat
  OBVIOUS
<1>2. Implies(log', n, P)
  <2>1. \A i \in 1..n : log'[i] = log[i]
    BY <1>1
  <2> QED
    BY <1>1, <2>1, ImpliesPrefix
<1>3. Len(log) <= Len(log')
  BY <1>1
<1>4. ASSUME \A i \in DOMAIN log' : n < i => ~Acted(log'[i])
      PROVE  Implies(log', Len(log'), P)
  <2>1. n <= Len(log') /\ \A i \in n + 1..Len(log') : ~Acted(log'[i])
    BY <1>1, <1>3, <1>4
  <2> QED
    BY <1>1, <1>2, <2>1, ImpliesInert
<1> QED
  BY <1>2, <1>4

\* A live arrival of a leg that is not stored is logged with its ingested_at,
\* before everything else that follows from it.
LEMMA IngestOneAnnounces ==
    ASSUME StoreTyped, NEW l \in Leg, NEW t \in Nat, NEW blind, NEW lost, NEW ack,
           IngestOne(l, t, TRUE, blind, lost, ack), ~HasLeg(l)
    PROVE  Len(log) + 1 \in DOMAIN log' /\ log'[Len(log) + 1] = IngestedEv(l, t)
<1>0. PICK found, healable :
        \/ BreakReusedRef(l, t, TRUE)
        \/ /\ found = Found(l, blind) /\ healable = Healable(l, lost)
           /\ \/ MatchOpen(l, t, TRUE, found, ack)
              \/ BreakOpenPartner(l, t, TRUE, found, ack)
              \/ HealLateArrival(l, t, TRUE, found, healable)
              \/ BreakKnownRef(l, t, TRUE, found, healable)
              \/ WaitInWindow(l, t, TRUE, found, ack)
  BY Zenon DEF IngestOne, DropRedelivery
<1>t. log \in Seq(Event) /\ index \subseteq Leg /\ breaks \subseteq Break
  BY DEF StoreTyped
<1> DEFINE said == <<IngestedEv(l, t)>>
<1>a. said \in Seq(Event) /\ 1 \in DOMAIN said /\ said[1] = IngestedEv(l, t)
  BY DEF IngestedEv, Ev, Event, EventTypes
<1>b. Announce(l, t, TRUE) = said
  BY DEF Announce
<1> HIDE DEF said
<1>o. ASSUME NEW S \in SUBSET Leg, NEW trigger,
             OpenBreak(S, trigger, l, t, Announce(l, t, TRUE))
      PROVE  \E q \in Seq(Event) : log' = log \o said \o q
  <2>1. <<Ev("break.opened", S)>> \in Seq(Event)
    BY DEF Ev, Event, EventTypes
  <2> QED
    BY <1>o, <1>b, <2>1 DEF OpenBreak
<1>1. CASE BreakReusedRef(l, t, TRUE) \/ BreakKnownRef(l, t, TRUE, found, healable)
  <2>1. {l} \in SUBSET Leg
    OBVIOUS
  <2>2. \E trigger : OpenBreak({l}, trigger, l, t, Announce(l, t, TRUE))
    BY <1>1 DEF BreakReusedRef, BreakKnownRef
  <2>3. \E q \in Seq(Event) : log' = log \o said \o q
    BY <1>o, <2>1, <2>2
  <2> QED
    BY <1>t, <1>a, <2>3, Appended
<1>2. CASE BreakOpenPartner(l, t, TRUE, found, ack)
  <2>1. PICK S : S = {l} \cup ByRef(l, index)
    OBVIOUS
  <2>2. S \in SUBSET Leg
    BY <1>t, <2>1 DEF ByRef
  <2>3. OpenBreak(S, "ref_conflict", l, t, Announce(l, t, TRUE))
    BY <1>2, <2>1 DEF BreakOpenPartner
  <2>4. \E q \in Seq(Event) : log' = log \o said \o q
    BY <1>o, <2>2, <2>3
  <2> QED
    BY <1>t, <1>a, <2>4, Appended
<1>3. CASE found = Found(l, blind) /\ MatchOpen(l, t, TRUE, found, ack)
  <2>1. PICK m \in found : log' = log \o said \o <<Ev("match.created", m.legs)>>
    BY <1>3, <1>b DEF MatchOpen
  <2>2. m.legs \subseteq Leg
    BY <1>3, <1>t, FoundMatch DEF Found
  <2>3. <<Ev("match.created", m.legs)>> \in Seq(Event)
    BY <2>2 DEF Ev, Event, EventTypes
  <2> QED
    BY <1>t, <1>a, <2>1, <2>3, Appended
<1>4. CASE healable = Healable(l, lost) /\ HealLateArrival(l, t, TRUE, found, healable)
  <2>1. PICK r \in Healable(l, lost) :
          LET b == CHOOSE b \in breaks : b.legs = legs[r].brk
          IN  log' = log \o said \o <<Ev("match.created", {l, r}),
                                     ResolvedEv(b.legs, {l, r})>>
    BY <1>4, <1>b DEF HealLateArrival
  <2>2. r \in Leg /\ \E c \in breaks : c.legs = legs[r].brk
    BY DEF Healable, Related, Stored
  <2>3. PICK b \in breaks :
          log' = log \o said \o <<Ev("match.created", {l, r}), ResolvedEv(b.legs, {l, r})>>
    BY <2>1, <2>2
  <2>4. b.legs \subseteq Leg
    BY <1>t DEF Break
  <2>5. Ev("match.created", {l, r}) \in Event /\ ResolvedEv(b.legs, {l, r}) \in Event
    BY <2>2, <2>4 DEF ResolvedEv, Ev, Event, EventTypes
  <2>6. <<Ev("match.created", {l, r}), ResolvedEv(b.legs, {l, r})>> \in Seq(Event)
    BY <2>5
  <2> QED
    BY <1>t, <1>a, <2>3, <2>6, Appended
<1>5. CASE WaitInWindow(l, t, TRUE, found, ack)
  <2>1. log' = log \o said
    BY <1>5, <1>b DEF WaitInWindow
  <2>2. \A s \in Seq(Event) : s \o <<>> = s
    OBVIOUS
  <2>3. log \o said \in Seq(Event) /\ <<>> \in Seq(Event)
    BY <1>t, <1>a
  <2>4. log' = log \o said \o <<>>
    BY <2>1, <2>2, <2>3
  <2> QED
    BY <1>t, <1>a, <2>3, <2>4, Appended
<1> QED
  BY <1>0, <1>1, <1>2, <1>3, <1>4, <1>5

\* A leg ingested live while nothing fails.
LEMMA IngestStepImplies ==
    ASSUME TypeOK, TypeOK', ControlOK, BreaksKeyed, IndexMirrorsStore,
           NEW ack \in BOOLEAN, IngestStep(ack), faults' = faults,
           Implies(log, Len(log), Projections)
    PROVE  Implies(log', Len(log'), Projections')
<1>s. StoreTyped /\ faults \in Nat /\ log \in Seq(Event) /\ log' \in Seq(Event)
  BY DEF TypeOK, StoreTyped
<1>1. todo \in Seq(Arrival) /\ todo # <<>> /\ op = "ingest"
  BY DEF IngestStep, TypeOK, ControlOK
<1>2. Head(todo) \in Arrival
  BY <1>1
<1>3. PICK l \in Leg, t \in Nat : Head(todo).leg = l /\ Head(todo).at = t
  BY <1>2 DEF Arrival
<1>4. PICK blind, lost :
        /\ blind \in BOOLEAN /\ Suffer(blind, lost, ack)
        /\ IngestOne(l, t, TRUE, blind, lost, ack)
  BY <1>3 DEF IngestStep
<1>5. blind = FALSE /\ lost = {}
  BY <1>s, <1>4, SufferCounts
<1>6. IngestOne(l, t, TRUE, FALSE, {}, ack)
  BY <1>4, <1>5
<1>7. index = OpenLegs
  BY <1>1 DEF IndexMirrorsStore
<1>8. Projections' = Arrived(Projections, l, t)
  BY <1>6, <1>7, IngestOneDerives
<1>9. /\ \A i \in DOMAIN log : i \in DOMAIN log' /\ log'[i] = log[i]
      /\ \A i \in DOMAIN log' \ DOMAIN log :
            Acted(log'[i]) => ~HasLeg(l) /\ i = Len(log) + 1
  <2>1. /\ \A i \in DOMAIN log : i \in DOMAIN log' /\ log'[i] = log[i]
        /\ \A i \in DOMAIN log' \ DOMAIN log :
              /\ log'[i].type = "leg.ingested" => ~HasLeg(l) /\ i = Len(log) + 1
              /\ log'[i].type = "break.resolved" => log'[i].match # {}
    BY <1>s, <1>6, IngestOneAppends
  <2> QED
    BY <2>1 DEF Acted, ByHand
<1>d. /\ DOMAIN log = 1..Len(log) /\ Len(log) \in Nat /\ Len(log) \in 0..Len(log)
      /\ DOMAIN log' = 1..Len(log') /\ Len(log') \in Nat
  BY <1>s
<1>a. CASE HasLeg(l)
  <2>1. Projections' = Projections
    <3>1. l \in StoredIn(Projections)
      BY <1>s, <1>a, QueriesAgree DEF HasLeg
    <3> QED
      BY <1>8, <3>1 DEF Arrived
  <2>2. \A i \in DOMAIN log' : Len(log) < i => ~Acted(log'[i])
    BY <1>9, <1>a, <1>d
  <2> QED
    BY <1>s, <1>9, <1>d, <2>1, <2>2, GrowsInert
<1>b. CASE ~HasLeg(l)
  <2>1. Len(log) + 1 \in DOMAIN log' /\ log'[Len(log) + 1] = IngestedEv(l, t)
    BY <1>s, <1>6, <1>b, IngestOneAnnounces
  <2>2. Derived(Projections, IngestedEv(l, t)) = Arrived(Projections, l, t)
    <3>1. /\ IngestedEv(l, t).type = "leg.ingested" /\ IngestedEv(l, t).at = t
          /\ IngestedEv(l, t).legs = {l}
      BY DEF IngestedEv, Ev
    <3>2. (CHOOSE k \in {l} : TRUE) = l
      OBVIOUS
    <3> QED
      BY <3>1, <3>2 DEF Derived
  <2>3. Implies(log', Len(log), Projections)
    BY <1>s, <1>9, <1>d, GrowsInert
  <2>4. Implies(log', Len(log) + 1, Projections')
    BY <1>8, <1>d, <2>1, <2>2, <2>3, ImpliesNext
  <2>5. /\ Len(log) + 1 \in Nat /\ Len(log) + 1 <= Len(log')
        /\ \A i \in (Len(log) + 1) + 1..Len(log') : ~Acted(log'[i])
    BY <1>9, <1>d, <2>1
  <2> QED
    BY <1>d, <2>4, <2>5, ImpliesInert
<1> QED
  BY <1>a, <1>b

\* A step of a replay derives what the event implies, unless a lookup fails.
LEMMA ReplayStepDerives ==
    ASSUME TypeOK, ControlOK, IngestedSingly, BreaksKeyed, IndexMirrorsStore,
           NEW ack \in BOOLEAN, ReplayStep(ack), faults' = faults
    PROVE  Projections' = Derived(Projections, log[cursor])
<1>s. faults \in Nat
  BY DEF TypeOK
<1>1. cursor \in DOMAIN log
  BY ReplayStepReads
<1>2. PICK e : e = log[cursor]
  OBVIOUS
<1>3. PICK blind, lost :
        /\ blind \in BOOLEAN /\ Suffer(blind, lost, ack)
        /\ \/ /\ e.type = "leg.ingested"
              /\ \E l \in e.legs : IngestOne(l, e.at, FALSE, blind, lost, ack)
           \/ e.type = "break.resolved" /\ ReapplyResolution(e, blind)
           \/ e.type \notin {"leg.ingested", "break.resolved"} /\ UNCHANGED <<store, index>>
  BY <1>2, Zenon DEF ReplayStep
<1>4. blind = FALSE /\ lost = {}
  BY <1>s, <1>3, SufferCounts
<1>5. CASE /\ e.type = "leg.ingested"
           /\ \E l \in e.legs : IngestOne(l, e.at, FALSE, blind, lost, ack)
  <2>1. PICK k \in Leg : e.legs = {k}
    BY <1>1, <1>2, <1>5 DEF IngestedSingly
  <2>2. IngestOne(k, e.at, FALSE, FALSE, {}, ack)
    BY <1>4, <1>5, <2>1
  <2>3. index = OpenLegs
    BY DEF IndexMirrorsStore, ReplayStep
  <2>4. Projections' = Arrived(Projections, k, e.at)
    BY <2>2, <2>3, IngestOneDerives
  <2>5. (CHOOSE l \in e.legs : TRUE) = k
    BY <2>1
  <2>6. Derived(Projections, e) = Arrived(Projections, k, e.at)
    BY <1>5, <2>5, Zenon DEF Derived
  <2> QED
    BY <1>2, <2>4, <2>6
<1>6. CASE e.type = "break.resolved" /\ ReapplyResolution(e, blind)
  <2>1. CASE e.match = {}
    <3>1. Projections' = ResolvedIn(Projections, e.legs)
      BY <1>4, <1>6, <2>1, ReapplyDerives
    <3> QED
      BY <1>2, <1>6, <2>1, <3>1 DEF Derived, ByHand
  <2>2. CASE e.match # {}
    <3>1. Projections' = Projections
      BY <1>6, <2>2 DEF ReapplyResolution, Projections, Undate, Tables
    <3> QED
      BY <1>2, <1>6, <2>2, <3>1 DEF Derived, ByHand
  <2> QED
    BY <2>1, <2>2
<1>7. CASE e.type \notin {"leg.ingested", "break.resolved"} /\ UNCHANGED <<store, index>>
  <2>1. Projections' = Projections
    BY <1>7 DEF store, Projections, Undate, Tables
  <2> QED
    BY <1>2, <1>7, <2>1 DEF Derived, ByHand
<1> QED
  BY <1>3, <1>5, <1>6, <1>7

\* Where the projections stand.  Between replays they are what the log implies,
\* unless a leg was decided on blindly or a replay left them incomplete; a
\* replay from the start has derived what the events behind its cursor imply;
\* and what it started from is what the events it is to read imply.
LogImplied ==
    /\ op \notin {"reset", "replay"} /\ whole => Implies(log, Len(log), Projections)
    /\ op = "replay" /\ first = 1 /\ faults = struck =>
          Implies(log, cursor - 1, Projections)
    /\ op \in {"reset", "replay"} /\ whole => Implies(log, through, Undate(before))
    /\ op = "reset" /\ whole => Projections = Undate(before)

\* What the step rests on.
ReplayGrounds == ReplayInv /\ Agreement /\ BreaksKeyed

\* How the history variables move.
LEMMA AuditMoves ==
    ASSUME AuditNext
    PROVE  /\ ReplayStarts => before' = Tables
           /\ ~ReplayStarts => before' = before
           /\ ReplayEnds /\ whole' => ReplayCompletes /\ first = 1
           /\ ~ReplayEnds /\ whole' => whole /\ ~DecidedBlindly
BY Zenon DEF AuditNext

\* The steps that read the log, and those that may end the reading.
LEMMA ReplayEnding ==
    ASSUME ReplayGrounds, Next, ReplayCompletes
    PROVE  /\ faults' = faults /\ faults = struck
           /\ (op = "reset" /\ ReplayReset /\ ~(cursor <= through))
              \/ \E ack \in BOOLEAN : op = "replay" /\ ReplayStep(ack)
<1>t. faults \in Nat /\ struck \in Nat /\ cursor \in Nat /\ through \in Nat
  BY DEF ReplayGrounds, ReplayInv, TypeOK, SoFar
<1>c. /\ op \in {"reset", "replay"} /\ op' \in {"idle", "down"}
      /\ cursor >= through /\ faults' = struck
  BY DEF ReplayCompletes, ReplayEnds
<1>a. struck <= faults
  BY <1>c DEF ReplayGrounds, ReplayInv, SoFar
<1>1. ~(Abort \/ Crash)
  BY <1>t, <1>a, <1>c DEF Abort, Crash, Strike
<1>2. ASSUME NEW kind, NEW age, Expire(kind, age) PROVE FALSE
  BY <1>2, <1>c DEF Expire
<1>3. ReplayReset \/ \E ack \in BOOLEAN : ReplayStep(ack)
  BY <1>1, <1>2, <1>c
  DEF Next, Ingest, IngestStep, Sweep, CloseWindow, ExpireStep, WindowClosed,
      ResolveBreak, Replay, Rebuild, Tick
<1>4. CASE ReplayReset
  BY <1>t, <1>a, <1>c, <1>4 DEF ReplayReset
<1>5. CASE \E ack \in BOOLEAN : ReplayStep(ack)
  <2>1. PICK ack \in BOOLEAN : ReplayStep(ack)
    BY <1>5
  <2>2. faults <= faults' /\ op = "replay"
    BY <1>t, <2>1, SufferCounts DEF ReplayStep
  <2> QED
    BY <1>t, <1>a, <1>c, <2>1, <2>2
<1> QED
  BY <1>3, <1>4, <1>5

\* After the reset the projections are blank.
LEMMA ResetBlank ==
    ASSUME ReplayReset PROVE Projections' = Blank
BY DEF ReplayReset, Projections, Undate, Tables, Blank

\* A replay from the start derives what the events it has read imply.
LEMMA ReplayStepImplies ==
    ASSUME ReplayGrounds, LogImplied, NEW ack \in BOOLEAN, ReplayStep(ack),
           first = 1, faults' = faults, faults = struck
    PROVE  Implies(log, cursor, Projections')
<1>1. op = "replay" /\ IndexMirrorsStore /\ TypeOK /\ ControlOK /\ IngestedSingly
      /\ BreaksKeyed
  BY DEF ReplayStep, ReplayGrounds, ReplayInv, Agreement
<1>2. Implies(log, cursor - 1, Projections)
  BY <1>1 DEF LogImplied
<1>3. cursor - 1 \in Nat /\ (cursor - 1) + 1 = cursor
  BY <1>1 DEF TypeOK, ControlOK
<1>4. Projections' = Derived(Projections, log[cursor])
  BY <1>1, ReplayStepDerives
<1>5. PICK n \in Nat : n = cursor - 1 /\ n + 1 = cursor
  BY <1>3
<1> QED
  BY <1>2, <1>4, <1>5, ImpliesNext

\* A completed replay from the start leaves what the events it was to read
\* imply.
LEMMA CompletedImplies ==
    ASSUME ReplayGrounds, LogImplied, Next, ReplayCompletes, first = 1
    PROVE  Implies(log, through, Projections')
<1>1. faults' = faults /\ faults = struck
  BY ReplayEnding
<1>t. TypeOK /\ ControlOK /\ SoFar /\ cursor \in Nat /\ through \in Nat
  BY DEF ReplayGrounds, ReplayInv, TypeOK
<1>2. CASE op = "reset" /\ ReplayReset /\ ~(cursor <= through)
  <2>1. through = 0
    BY <1>2, <1>t DEF SoFar
  <2> QED
    BY <1>2, <2>1, ResetBlank, ImpliesBlank
<1>3. CASE \E ack \in BOOLEAN : op = "replay" /\ ReplayStep(ack)
  <2>1. cursor = through
    BY <1>3, <1>t DEF ControlOK, ReplayCompletes
  <2> QED
    BY <1>1, <1>3, <2>1, ReplayStepImplies
<1> QED
  BY <1>2, <1>3, ReplayEnding

\* No sweep or close has found a leg to expire.
NothingExpires == due = {}

\* Every step keeps the projections what the log implies, as long as nothing
\* expires.
LEMMA NextImplied ==
    ASSUME "ambiguous" \notin Faults, NothingExpires, ReplayGrounds, ReplayGrounds',
           LogImplied, [AuditNext]_auditVars
    PROVE  LogImplied'
<1>g. /\ TypeOK /\ TypeOK' /\ ControlOK /\ ControlOK' /\ IngestedSingly /\ SoFar /\ SoFar'
      /\ BreaksKeyed /\ IndexMirrorsStore
  BY DEF ReplayGrounds, ReplayInv, Agreement
<1>t. /\ log \in Seq(Event) /\ DOMAIN log = 1..Len(log) /\ Len(log) \in Nat
      /\ log' \in Seq(Event) /\ DOMAIN log' = 1..Len(log') /\ Len(log') \in Nat
      /\ cursor \in Nat /\ through \in Nat /\ faults \in Nat /\ struck \in Nat
      /\ Len(log) \in 0..Len(log)
  BY <1>g DEF TypeOK, SoFar
<1>u. CASE UNCHANGED auditVars
  BY <1>u DEF auditVars, vars, LogImplied, Projections, Undate, Tables
<1>live. ASSUME AuditNext, op \notin {"reset", "replay"}, op' \notin {"reset", "replay"},
                whole' /\ whole => Implies(log', Len(log'), Projections')
         PROVE  LogImplied'
  <2>1. ~ReplayEnds
    BY <1>live DEF ReplayEnds
  <2>2. whole' => whole
    BY <1>live, <2>1, AuditMoves
  <2> QED
    BY <1>live, <2>2 DEF LogImplied
<1>same. ASSUME AuditNext, op \notin {"reset", "replay"}, op' \notin {"reset", "replay"},
                UNCHANGED <<legs, matches, breaks, log>>
         PROVE  LogImplied'
  <2>1. Projections' = Projections
    BY <1>same DEF Projections, Undate, Tables
  <2>2. whole => Implies(log, Len(log), Projections)
    BY <1>same DEF LogImplied
  <2> QED
    BY <1>same, <1>live, <2>1, <2>2
<1>1. ASSUME AuditNext, NEW batch, Ingest(batch) PROVE LogImplied'
  BY <1>1, <1>same DEF Ingest, store
<1>2. ASSUME AuditNext, NEW ack \in BOOLEAN, IngestStep(ack) PROVE LogImplied'
  <2>1. op = "ingest" /\ op' \in {"ingest", "idle"}
    BY <1>2 DEF IngestStep, Release
  <2>2. ASSUME whole', whole PROVE Implies(log', Len(log'), Projections')
    <3>1. Implies(log, Len(log), Projections)
      BY <2>1, <2>2 DEF LogImplied
    <3>2. ~ReplayEnds
      BY <2>1 DEF ReplayEnds
    <3>3. faults' = faults \/ store' = store
      BY <1>2, <2>1, <2>2, <3>2, AuditMoves DEF DecidedBlindly
    <3>4. CASE faults' = faults
      BY <1>g, <1>2, <3>1, <3>4, IngestStepImplies
    <3>5. CASE store' = store
      <4>1. log' = log /\ Projections' = Projections
        BY <3>5 DEF store, Projections, Undate, Tables
      <4> QED
        BY <3>1, <4>1
    <3> QED
      BY <3>3, <3>4, <3>5
  <2> QED
    BY <1>2, <1>live, <2>1, <2>2
<1>3. ASSUME AuditNext, NEW kind \in {"sweep", "close"}, NEW age, Expire(kind, age)
      PROVE  LogImplied'
  <2>1. op = "idle" /\ op' \in {"idle", "sweep", "close"} /\ UNCHANGED store
    BY <1>3 DEF Expire
  <2> QED
    BY <1>3, <1>same, <2>1 DEF store
<1>4. ASSUME NEW ack \in BOOLEAN, ExpireStep(ack) PROVE FALSE
  BY <1>4 DEF ExpireStep, NothingExpires
<1>5. ASSUME AuditNext, WindowClosed PROVE LogImplied'
  <2>1. /\ op = "close" /\ op' = "idle" /\ UNCHANGED <<legs, matches, breaks>>
        /\ log' = Append(log, Ev("window.closed", {}))
    BY <1>5 DEF WindowClosed, Release
  <2>2. Ev("window.closed", {}) \in Event /\ ~Acted(Ev("window.closed", {}))
    BY DEF Ev, Event, EventTypes, Acted, ByHand
  <2>3. /\ \A i \in DOMAIN log : i \in DOMAIN log' /\ log'[i] = log[i]
        /\ \A i \in DOMAIN log' \ DOMAIN log :
              i = Len(log) + 1 /\ log'[i] = Ev("window.closed", {})
    BY <1>t, <2>1, <2>2, AppendedOne
  <2>4. \A i \in DOMAIN log' : Len(log) < i => ~Acted(log'[i])
    BY <1>t, <2>2, <2>3
  <2>5. Projections' = Projections
    BY <2>1 DEF Projections, Undate, Tables
  <2>6. whole => Implies(log', Len(log'), Projections)
    BY <1>t, <2>1, <2>3, <2>4, GrowsInert DEF LogImplied
  <2> QED
    BY <1>5, <1>live, <2>1, <2>5, <2>6
<1>6. ASSUME AuditNext, NEW b \in breaks, ResolveBreak(b) PROVE LogImplied'
  <2>1. op = "idle" /\ op' = "idle" /\ log' = Append(log, ResolvedEv(b.legs, {}))
    BY <1>6 DEF ResolveBreak, control
  <2>2. PICK e : e = ResolvedEv(b.legs, {})
    OBVIOUS
  <2>3. e \in Event /\ ByHand(e) /\ e.type # "leg.ingested" /\ e.legs = b.legs
    <3>1. b.legs \subseteq Leg
      BY <1>g DEF TypeOK, Break
    <3> QED
      BY <2>2, <3>1 DEF ResolvedEv, Ev, Event, EventTypes, ByHand
  <2>4. \A i \in DOMAIN log : i \in DOMAIN log' /\ log'[i] = log[i]
    BY <1>t, <2>1, <2>2, <2>3, AppendedOne
  <2>5. Projections' = Derived(Projections, e)
    <3>1. Projections' = ResolvedIn(Projections, b.legs)
      BY <1>g, <1>6, ResolveDerives
    <3> QED
      BY <2>3, <3>1 DEF Derived
  <2>6. Len(log') = Len(log) + 1 /\ log'[Len(log) + 1] = e
    BY <1>t, <2>1, <2>2, <2>3
  <2>7. ASSUME whole PROVE Implies(log', Len(log'), Projections')
    <3>1. Implies(log', Len(log), Projections)
      BY <1>t, <2>1, <2>4, <2>7, GrowsInert DEF LogImplied
    <3> QED
      BY <1>t, <2>5, <2>6, <3>1, ImpliesNext
  <2> QED
    BY <1>6, <1>live, <2>1, <2>7
<1>7. ASSUME AuditNext, NEW from \in ReplayFrom, Replay(from) PROVE LogImplied'
  <2>1. /\ op = "idle" /\ op' = "reset" /\ through' = Len(log)
        /\ log' = Append(log, Ev("replay.started", {}))
        /\ UNCHANGED <<legs, matches, breaks>>
    BY <1>7 DEF Replay
  <2>2. /\ Undate(before') = Projections /\ Projections' = Projections
        /\ whole' => whole
    BY <1>7, <2>1, AuditMoves DEF ReplayStarts, ReplayEnds, Projections, Undate, Tables
  <2>3. \A i \in DOMAIN log : i \in DOMAIN log' /\ log'[i] = log[i]
    <3>1. Ev("replay.started", {}) \in Event
      BY DEF Ev, Event, EventTypes
    <3> QED
      BY <1>t, <2>1, <3>1, AppendedOne
  <2>4. whole => Implies(log', Len(log), Projections)
    BY <1>t, <2>1, <2>3, GrowsInert DEF LogImplied
  <2> QED
    BY <2>1, <2>2, <2>4 DEF LogImplied
<1>end. ASSUME AuditNext, ReplayEnds, op' \notin {"reset", "replay"},
               \A i \in DOMAIN log : i \in DOMAIN log' /\ log'[i] = log[i],
               \A i \in DOMAIN log' \ DOMAIN log : ~Acted(log'[i])
        PROVE  LogImplied'
  <2>1. ASSUME whole' PROVE Implies(log', Len(log'), Projections')
    <3>1. ReplayCompletes /\ first = 1
      BY <1>end, <2>1, AuditMoves
    <3>2. Implies(log, through, Projections')
      BY <1>end, <3>1, CompletedImplies DEF AuditNext
    <3>3. /\ op \in {"reset", "replay"} /\ through \in 0..Len(log)
          /\ \A i \in DOMAIN log : Acted(log[i]) => i <= through
      BY <1>g, <1>t, <1>end DEF ReplayEnds, ControlOK, SoFar
    <3>4. \A i \in DOMAIN log' : through < i => ~Acted(log'[i])
      BY <1>t, <1>end, <3>3
    <3> QED
      BY <1>t, <1>end, <3>2, <3>3, <3>4, GrowsInert
  <2> QED
    BY <1>end, <2>1 DEF LogImplied
<1>8. ASSUME AuditNext, ReplayReset PROVE LogImplied'
  <2>1. op = "reset" /\ UNCHANGED <<log, faults>> /\ op' \in {"replay", "idle"}
    BY <1>8 DEF ReplayReset, Release
  <2>2. CASE op' = "idle"
    BY <1>8, <1>end, <2>1, <2>2 DEF ReplayEnds
  <2>3. CASE op' = "replay"
    <3>1. cursor' = cursor /\ through' = through
      BY <1>8, <2>3 DEF ReplayReset, Release
    <3>2. /\ before' = before /\ first' = first /\ (whole' => whole)
      BY <1>8, <2>1, <2>3, AuditMoves, AuditNotes DEF ReplayStarts, ReplayEnds
    <3>3. first = 1 => Implies(log, cursor - 1, Projections')
      BY <1>g, <1>8, <2>1, ResetBlank, ImpliesBlank DEF SoFar
    <3>4. whole => Implies(log, through, Undate(before))
      BY <2>1 DEF LogImplied
    <3> QED
      BY <2>1, <2>3, <3>1, <3>2, <3>3, <3>4 DEF LogImplied
  <2> QED
    BY <2>1, <2>2, <2>3
<1>9. ASSUME AuditNext, NEW ack \in BOOLEAN, ReplayStep(ack) PROVE LogImplied'
  <2>1. op = "replay" /\ op' \in {"replay", "idle"}
    BY <1>9 DEF ReplayStep, Release
  <2>2. /\ \A i \in DOMAIN log : i \in DOMAIN log' /\ log'[i] = log[i]
        /\ \A i \in DOMAIN log' \ DOMAIN log : ~Acted(log'[i])
    BY <1>g, <1>9, ReplayStepReads
  <2>3. CASE op' = "idle"
    BY <1>9, <1>end, <2>1, <2>2, <2>3 DEF ReplayEnds
  <2>4. CASE op' = "replay"
    <3>1. cursor' = cursor + 1 /\ through' = through
      BY <1>9, <2>4 DEF ReplayStep, Release
    <3>2. /\ before' = before /\ first' = first /\ struck' = struck /\ (whole' => whole)
      BY <1>9, <2>1, <2>4, AuditMoves, AuditNotes DEF ReplayStarts, ReplayEnds
    <3>3. through \in 0..Len(log) /\ cursor \in 0..Len(log)
      BY <1>g, <1>t, <2>1 DEF ControlOK
    <3>4. whole => Implies(log', through, Undate(before))
      BY <1>t, <2>1, <2>2, <3>3, GrowsInert DEF LogImplied
    <3>5. ASSUME first = 1, faults' = struck PROVE Implies(log', cursor, Projections')
      <4>1. faults <= faults' /\ struck <= faults
        BY <1>g, <1>t, <1>9, <2>1, SufferCounts DEF ReplayStep, SoFar
      <4>2. faults' = faults /\ faults = struck
        BY <1>t, <3>5, <4>1
      <4>3. Implies(log, cursor, Projections')
        BY <1>9, <3>5, <4>2, ReplayStepImplies
      <4> QED
        BY <1>t, <2>2, <3>3, <4>3, GrowsInert
    <3>6. cursor' - 1 = cursor
      BY <1>t, <3>1
    <3> QED
      BY <2>4, <3>1, <3>2, <3>4, <3>5, <3>6 DEF LogImplied
  <2> QED
    BY <2>1, <2>3, <2>4
<1>a. ASSUME AuditNext, Abort \/ Crash PROVE LogImplied'
  <2>1. /\ op' \in {"idle", "down"} /\ UNCHANGED <<legs, matches, breaks, log>>
        /\ faults' = faults + 1
    BY <1>a DEF Abort, Crash, Strike, Release, store
  <2>2. CASE op \notin {"reset", "replay"}
    BY <1>a, <1>same, <2>1, <2>2
  <2>3. CASE op = "replay"
    BY <1>a, <1>end, <2>1, <2>3 DEF ReplayEnds
  <2>4. CASE op = "reset"
    <3>1. ~ReplayEnds
      BY <1>t, <2>1, <2>4 DEF ReplayEnds
    <3>2. whole' => whole
      BY <1>a, <3>1, AuditMoves
    <3>3. Projections' = Projections
      BY <2>1 DEF Projections, Undate, Tables
    <3>4. /\ through \in 0..Len(log)
          /\ \A i \in DOMAIN log' : through < i => ~Acted(log'[i])
      BY <1>g, <1>t, <2>1, <2>4 DEF ControlOK, SoFar
    <3>5. whole => Implies(log, through, Projections)
      BY <2>4 DEF LogImplied
    <3>6. whole => Implies(log', Len(log'), Projections)
      BY <1>t, <2>1, <3>4, <3>5, GrowsInert
    <3> QED
      BY <2>1, <3>2, <3>3, <3>6 DEF LogImplied
  <2> QED
    BY <2>2, <2>3, <2>4
<1>b. ASSUME AuditNext, Rebuild \/ Tick PROVE LogImplied'
  BY <1>b, <1>same DEF Rebuild, Tick, store, control
<1>n. ASSUME AuditNext PROVE LogImplied'
  <2>1. Next
    BY <1>n DEF AuditNext
  <2> QED
    BY <1>n, <2>1, <1>1, <1>2, <1>3, <1>4, <1>5, <1>6, <1>7, <1>8, <1>9, <1>a, <1>b
    DEF Next, Sweep, CloseWindow
<1> QED
  BY <1>u, <1>n

\* A replay of the whole log that nothing failed on reproduces legs, matches,
\* breaks and resolutions, all but the times it takes from its own clock,
\* whatever restarts, failed operations and spoilt replays the log went through:
\* if no commit is answered with an error and no leg expires.
THEOREM ReplayAlwaysReproduces ==
    ASSUME "ambiguous" \notin Faults
    PROVE  AuditSpec /\ []NothingExpires => ReplayReproduces
<1>1. AuditInit => LogImplied
  <2> SUFFICES ASSUME AuditInit PROVE LogImplied
    OBVIOUS
  <2>1. Projections = Blank /\ op = "idle" /\ Len(log) = 0
    BY DEF AuditInit, Init, Projections, Undate, Tables, Blank
  <2> QED
    BY <2>1, ImpliesBlank DEF LogImplied
<1>2. AuditSpec => []ReplayGrounds
  <2>1. AuditInit => Init
    BY DEF AuditInit
  <2>2. [AuditNext]_auditVars => [Next]_vars
    BY DEF AuditNext, auditVars
  <2> QED
    BY <2>1, <2>2, ReplayInvariant, AgreementInvariant, AlwaysKeyed, PTL
    DEF AuditSpec, Spec, ReplayGrounds
<1>3. /\ NothingExpires /\ ReplayGrounds /\ ReplayGrounds' /\ LogImplied
      /\ [AuditNext]_auditVars
      => LogImplied'
  BY NextImplied
<1>4. ReplayGrounds /\ LogImplied /\ [AuditNext]_auditVars =>
        [ReplayCompletes /\ first = 1 /\ whole => Projections' = Undate(before)]_auditVars
  <2> SUFFICES ASSUME ReplayGrounds, LogImplied, AuditNext, ReplayCompletes, first = 1,
                      whole
               PROVE  Projections' = Undate(before)
    OBVIOUS
  <2>1. Implies(log, through, Projections')
    BY CompletedImplies DEF AuditNext
  <2>2. Implies(log, through, Undate(before))
    BY DEF LogImplied, ReplayCompletes, ReplayEnds
  <2>3. through \in Nat
    BY DEF ReplayGrounds, ReplayInv, TypeOK
  <2> QED
    BY <2>1, <2>2, <2>3, ImpliesOne
<1> QED
  BY <1>1, <1>2, <1>3, <1>4, PTL DEF AuditSpec, ReplayReproduces
=============================================================================
