----------------------------- MODULE ReconEngine -----------------------------
(***************************************************************************)
(* The reconciliation engine of internal/domain/recon/engine.go over a     *)
(* Repository (internal/adapters/memory, internal/adapters/postgres): the  *)
(* durable projections and event log, the in-memory open-leg index, and    *)
(* the operations that change them: Ingest, Sweep, CloseWindow,            *)
(* ResolveBreak, Replay, Rebuild.                                          *)
(*                                                                         *)
(* One mutex is held for a whole operation, so operations do not           *)
(* interleave.  What does happen between two transactions of an operation  *)
(* is an error, a cancelled context or the end of the process; therefore   *)
(* one step of the model is one Repository transaction.                    *)
(*                                                                         *)
(* Match and break IDs are hashes of the sorted leg IDs (DeriveID): here   *)
(* the ID is the set of legs itself, {} standing for the empty string.     *)
(***************************************************************************)
EXTENDS ReconMatcher, BreakClassifier, Sequences

CONSTANTS
    TTL,         \* window TTL, in clock ticks
    OlderThan,   \* the older_than arguments operators pass to CloseWindow
    ReplayFrom,  \* the from arguments operators pass to Replay
    Stamps,      \* ingested_at values carried by incoming records
    Faults,      \* which faults the environment may inject
    MaxTime,     \* bound: last clock value
    LastArrival, \* bound: last clock value at which a batch arrives
    MaxBatch,    \* bound: legs in a batch
    MaxLog,      \* bound: no replay starts when the log has reached it, and no
                 \* batch without room for two events a leg and one more
    MaxReplays,  \* bound: number of replays in a behaviour
    MaxFaults    \* bound: number of faults in a behaviour

FaultKinds == {"abort", "ambiguous", "crash", "lookup"}

ASSUME EngineAssumption ==
    /\ TTL \in Nat \ {0}
    /\ OlderThan \subseteq Nat
    /\ ReplayFrom \subseteq Nat \ {0}
    /\ Stamps \subseteq Nat
    /\ Faults \subseteq FaultKinds
    /\ MaxTime \in Nat /\ LastArrival \in Nat
    /\ MaxBatch \in Nat /\ MaxLog \in Nat
    /\ MaxReplays \in Nat /\ MaxFaults \in Nat

VARIABLES
    legs,     \* store: what is persisted of each leg
    matches,  \* store: the matches
    breaks,   \* store: the breaks
    log,      \* store: the append-only event log
    index,    \* engine memory: the open legs
    op,       \* the operation that holds the mutex, "idle", or "down"
    todo,     \* Ingest: the legs of the batch still to process
    due,      \* Sweep, CloseWindow: the expired legs still to break
    cursor,   \* Replay: the next event to read
    through,  \* Replay: the last event to read
    now,      \* the clock
    faults    \* faults so far

store == <<legs, matches, breaks, log>>
control == <<op, todo, due, cursor, through>>
vars == <<legs, matches, breaks, log, index, op, todo, due, cursor, through,
          now, faults>>

-----------------------------------------------------------------------------
(* Types.                                                                  *)

Statuses == {"absent", "open", "matched", "break"}
Actors == {"none", "operator", "system"}
Operations == {"ingest", "sweep", "close", "reset", "replay"}

LegState == [status : Statuses, match : SUBSET Leg, brk : SUBSET Leg, at : Nat]
Match == [legs : SUBSET Leg, rule : RuleIds]
Break == [legs : SUBSET Leg, trigger : Triggers, category : Categories,
          status : {"open", "resolved"}, actor : Actors, opened : Nat]

EventTypes ==
    {"leg.ingested", "leg.duplicate", "leg.expired", "match.created",
     "break.opened", "break.resolved", "window.closed", "replay.started"}

\* legs is the aggregate; at is the ingested_at of a leg.ingested payload;
\* match is the match_id of a break.resolved payload.
Event == [type : EventTypes, legs : SUBSET Leg, at : Nat, match : SUBSET Leg]

Arrival == [leg : Leg, at : Nat]

Absent == [status |-> "absent", match |-> {}, brk |-> {}, at |-> 0]

\* Every variable has its type.
TypeOK ==
    /\ legs \in [Leg -> LegState]
    /\ matches \subseteq Match
    /\ breaks \subseteq Break
    /\ log \in Seq(Event)
    /\ index \subseteq Leg
    /\ op \in Operations \cup {"idle", "down"}
    /\ todo \in Seq(Arrival)
    /\ due \subseteq Leg
    /\ cursor \in Nat /\ through \in Nat /\ now \in Nat /\ faults \in Nat

-----------------------------------------------------------------------------
(* Repository queries.                                                     *)

Stored == {l \in Leg : legs[l].status # "absent"}
OpenLegs == {l \in Leg : legs[l].status = "open"}
\* Mutant of HasLeg: only open legs are recognised as delivered before.
HasOpenLeg(l) == l \in OpenLegs

HasLeg(l) == l \in Stored
Related(l) == {r \in Stored \ {l} : Ref(r) = Ref(l)}

\* The pairs the exists closure answers yes for: all, when its lookup fails.
KnownRefs(blind) ==
    IF blind THEN {<<Ref(x), Source(y)>> : x, y \in Leg}
    ELSE {<<Ref(x), Source(x)>> : x \in Stored}

Ev(type, S) == [type |-> type, legs |-> S, at |-> 0, match |-> {}]
IngestedEv(l, t) == [Ev("leg.ingested", {l}) EXCEPT !.at = t]
\* Mutant of ResolvedEv: the event is filed under the match.
ResolvedEvOfMatch(S, m) == [Ev("break.resolved", m) EXCEPT !.match = m]

ResolvedEv(S, m) == [Ev("break.resolved", S) EXCEPT !.match = m]

-----------------------------------------------------------------------------
(* Change sets.  l is the leg being ingested, t its ingested_at.           *)

IngestedAt(x, l, t) == IF x = l THEN t ELSE legs[x].at

\* Mutant of SetLegs: only the incoming leg is upserted.
SetIncomingLeg(S, status, m, b, l, t) ==
    legs' = [legs EXCEPT ![l] = [status |-> status, match |-> m, brk |-> b, at |-> t]]

SetLegs(S, status, m, b, l, t) ==
    legs' = [x \in Leg |->
                IF x \in S
                THEN [status |-> status, match |-> m, brk |-> b,
                      at |-> IngestedAt(x, l, t)]
                ELSE legs[x]]

\* Mutant of PutBreak: an existing break is not updated.
InsertBreak(b) ==
    breaks' = IF \E c \in breaks : c.legs = b.legs THEN breaks ELSE breaks \cup {b}

\* Breaks are upserted by ID.
PutBreak(b) == breaks' = {c \in breaks : c.legs # b.legs} \cup {b}

\* Mutant of NewBreak: the status is left empty.
NewBreakUnset(S, trigger, category) ==
    [legs |-> S, trigger |-> trigger, category |-> category,
     status |-> "", actor |-> "none", opened |-> now]

NewBreak(S, trigger, category) ==
    [legs |-> S, trigger |-> trigger, category |-> category,
     status |-> "open", actor |-> "none", opened |-> now]

\* LegsByTxnRef returns legs by ingested_at, then ID.
IsOldest(r, S) ==
    \A q \in S : \/ legs[r].at < legs[q].at
                 \/ legs[r].at = legs[q].at /\ r <= q

ReusedRef(l) == \E r \in Related(l) : Source(r) = Source(l)

\* The counterparty leg the classifier looks at: the first leg of another
\* source among the other legs of the break, else among the related legs.
Opposite(l, partners) ==
    LET others(S) == {q \in S : Source(q) # Source(l)}
    IN  IF others(partners) # {}
        THEN First(others(partners))
        ELSE {q \in others(Related(l)) : IsOldest(q, others(Related(l)))}

Label(l, partners, trigger) ==
    Classify(l, Opposite(l, partners), ReusedRef(l), trigger)

\* openBreak and the Apply that follows it; l is its first leg.
OpenBreak(S, trigger, l, t, before) ==
    /\ SetLegs(S, "break", {}, S, l, t)
    /\ PutBreak(NewBreak(S, trigger, Label(l, S \ {l}, trigger)))
    /\ log' = log \o before \o <<Ev("break.opened", S)>>
    /\ UNCHANGED matches

\* Mutant of Announce: no leg is announced.
AnnounceNever(l, t, live) == <<>>

\* The event of a leg that is not a re-delivery; a replay does not repeat it.
Announce(l, t, live) == IF live THEN <<IngestedEv(l, t)>> ELSE <<>>

\* Mutant of Reindex: the index only ever grows.
ReindexGrowing(ix, ack) == index' = index \cup ix

\* The index is updated after Apply returned without error.
Reindex(ix, ack) == index' = IF ack THEN ix ELSE index

-----------------------------------------------------------------------------
(* ingestOne, one action per outcome.  live is ~replaying; blind and lost  *)
(* say which lookups fail although the operation goes on: the exists       *)
(* closure, and GetBreak for the breaks of the legs in lost.  When a       *)
(* replay restores a resolution, blind is a failing GetBreak.  The answers *)
(* are found, the match the tiers give, and healable, the legs a late      *)
(* arrival may be matched with.                                            *)

Found(l, blind) == Find(l, index, KnownRefs(blind))

Fresh(l) == ~HasLeg(l) /\ ~ReusedRef(l)
Unpartnered(l, found) == found = {} /\ ByRef(l, index) = {}

\* Mutant of Healable: the currencies are not compared.
HealableInAnyCurrency(l, lost) ==
    {r \in Related(l) \ lost :
        /\ Source(r) # Source(l)
        /\ legs[r].status = "break"
        /\ legs[r].brk # {}
        /\ WithinTolerance(Amount(l), Amount(r))
        /\ \E b \in breaks : /\ b.legs = legs[r].brk
                             /\ b.status = "open"
                             /\ Cardinality(b.legs) = 1}

\* Mutant of Healable: the breaks of legs refused on arrival are left alone.
HealableExpired(l, lost) ==
    {r \in Related(l) \ lost :
        /\ Source(r) # Source(l)
        /\ legs[r].status = "break"
        /\ legs[r].brk # {}
        /\ WithinTolerance(Amount(l), Amount(r))
        /\ Currency(r) = Currency(l)
        /\ \E b \in breaks : /\ b.legs = legs[r].brk
                             /\ b.status = "open"
                             /\ b.trigger = "window_expired"
                             /\ Cardinality(b.legs) = 1}

\* Mutant of Healable: a break that was resolved by hand is taken as well.
HealableResolved(l, lost) ==
    {r \in Related(l) \ lost :
        /\ Source(r) # Source(l)
        /\ legs[r].status = "break"
        /\ legs[r].brk # {}
        /\ WithinTolerance(Amount(l), Amount(r))
        /\ Currency(r) = Currency(l)
        /\ \E b \in breaks : b.legs = legs[r].brk /\ Cardinality(b.legs) = 1}

\* The legs a late arrival may be matched with: each sits alone in an open
\* break, within tolerance and in the same currency.
Healable(l, lost) ==
    {r \in Related(l) \ lost :
        /\ Source(r) # Source(l)
        /\ legs[r].status = "break"
        /\ legs[r].brk # {}
        /\ WithinTolerance(Amount(l), Amount(r))
        /\ Currency(r) = Currency(l)
        /\ \E b \in breaks : /\ b.legs = legs[r].brk
                             /\ b.status = "open"
                             /\ Cardinality(b.legs) = 1}

\* The leg is already stored: only an audit event.
DropRedelivery(l, live) ==
    /\ HasLeg(l)
    /\ log' = IF live THEN Append(log, Ev("leg.duplicate", {l})) ELSE log
    /\ UNCHANGED <<legs, matches, breaks, index>>

\* 1. The same source re-used the txn_ref with other content.
BreakReusedRef(l, t, live) ==
    /\ ~HasLeg(l) /\ ReusedRef(l)
    /\ OpenBreak({l}, "duplicate", l, t, Announce(l, t, live))
    /\ UNCHANGED index

\* 2. A tier matches the leg with open legs.
MatchOpen(l, t, live, found, ack) ==
    /\ \E m \in found :
        /\ SetLegs(m.legs, "matched", m.legs, {}, l, t)
        /\ matches' = matches \cup {m}
        /\ log' = log \o Announce(l, t, live)
                      \o <<Ev("match.created", m.legs)>>
        /\ Reindex(index \ m.legs, ack)
    /\ UNCHANGED breaks

\* 3. The txn_ref is open but no tier accepts the pair.
BreakOpenPartner(l, t, live, found, ack) ==
    LET partners == ByRef(l, index)
    IN  /\ found = {} /\ partners # {}
        /\ OpenBreak({l} \cup partners, "ref_conflict", l, t,
                     Announce(l, t, live))
        /\ Reindex(index \ partners, ack)

\* 4. The partner sits in a single-leg break: match and resolve the break.
HealLateArrival(l, t, live, found, healable) ==
    /\ Unpartnered(l, found)
    /\ \E r \in healable :
        LET pair == {l, r}
            b == CHOOSE b \in breaks : b.legs = legs[r].brk
        IN  /\ IsOldest(r, healable)
            /\ SetLegs(pair, "matched", pair, {}, l, t)
            /\ matches' = matches \cup {[legs |-> pair, rule |-> RuleT2Late]}
            /\ PutBreak([b EXCEPT !.status = "resolved", !.actor = "system"])
            /\ log' = log \o Announce(l, t, live)
                          \o <<Ev("match.created", pair),
                               ResolvedEv(b.legs, pair)>>
    /\ UNCHANGED index

\* 5. Another source has reported the txn_ref, yet the leg cannot join it.
BreakKnownRef(l, t, live, found, healable) ==
    /\ Unpartnered(l, found) /\ healable = {} /\ Related(l) # {}
    /\ OpenBreak({l}, "ref_conflict", l, t, Announce(l, t, live))
    /\ UNCHANGED index

\* Mutant of WaitInWindow: legs already known under the txn_ref are ignored.
WaitRegardless(l, t, live, found, ack) ==
    /\ found = {}
    /\ SetLegs({l}, "open", {}, {}, l, t)
    /\ log' = log \o Announce(l, t, live)
    /\ Reindex(index \cup {l}, ack)
    /\ UNCHANGED <<matches, breaks>>

\* 6. Nothing to match yet: the leg waits in the window.
WaitInWindow(l, t, live, found, ack) ==
    /\ Unpartnered(l, found) /\ Related(l) = {}
    /\ SetLegs({l}, "open", {}, {}, l, t)
    /\ log' = log \o Announce(l, t, live)
    /\ Reindex(index \cup {l}, ack)
    /\ UNCHANGED <<matches, breaks>>

IngestOne(l, t, live, blind, lost, ack) ==
    \/ DropRedelivery(l, live)
    \/ BreakReusedRef(l, t, live)
    \/ /\ Fresh(l)
       /\ \E found \in {Found(l, blind)}, healable \in {Healable(l, lost)} :
            \/ MatchOpen(l, t, live, found, ack)
            \/ BreakOpenPartner(l, t, live, found, ack)
            \/ HealLateArrival(l, t, live, found, healable)
            \/ BreakKnownRef(l, t, live, found, healable)
            \/ WaitInWindow(l, t, live, found, ack)

-----------------------------------------------------------------------------
(* Faults of the environment.                                              *)

\* The faults of one transaction: failing lookups, and a commit whose
\* acknowledgement is lost (the store has it, the caller gets an error).
Suffer(blind, lost, ack) ==
    LET kinds == (IF blind \/ lost # {} THEN {"lookup"} ELSE {})
                     \cup (IF ack THEN {} ELSE {"ambiguous"})
    IN  /\ kinds \subseteq Faults
        /\ faults + Cardinality(kinds) <= MaxFaults
        /\ faults' = faults + Cardinality(kinds)

Strike(kind) ==
    /\ kind \in Faults
    /\ faults < MaxFaults
    /\ faults' = faults + 1

Release(next) ==
    /\ op' = next
    /\ todo' = <<>> /\ due' = {} /\ cursor' = 0 /\ through' = 0

-----------------------------------------------------------------------------
(* Ingest: POST /v1/legs and the Kafka handler.  ack is FALSE when the     *)
(* store committed a transaction and the caller got an error.              *)

Ingest(batch) ==
    /\ op = "idle" /\ batch # <<>>
    /\ now <= LastArrival
    /\ Len(log) + 2 * Len(batch) + 1 <= MaxLog
    /\ op' = "ingest" /\ todo' = batch
    /\ UNCHANGED <<store, index, due, cursor, through, now, faults>>

IngestStep(ack) ==
    /\ op = "ingest"
    /\ LET a == Head(todo)
       IN  \E blind \in BOOLEAN, lost \in SUBSET Related(a.leg) :
            /\ Suffer(blind, lost, ack)
            /\ IngestOne(a.leg, a.at, TRUE, blind, lost, ack)
            /\ IF ack /\ Len(todo) > 1
               THEN /\ todo' = Tail(todo)
                    /\ UNCHANGED <<op, due, cursor, through>>
               ELSE Release("idle")
    /\ UNCHANGED now

-----------------------------------------------------------------------------
(* Sweep and CloseWindow.                                                  *)

\* Mutant of Expired: an age just reached does not count.
ExpiredStrict(age) == {l \in index : legs[l].at + age < now}

Expired(age) == {l \in index : legs[l].at + age <= now}

Expire(kind, age) ==
    /\ op = "idle"
    /\ due' = Expired(age)
    /\ op' = IF due' = {} THEN "idle" ELSE kind
    /\ UNCHANGED <<store, index, todo, cursor, through, now, faults>>

Sweep == Expire("sweep", TTL)
CloseWindow == \E age \in OlderThan : Expire("close", age)

ExpireStep(ack) ==
    /\ op \in {"sweep", "close"} /\ due # {}
    /\ Suffer(FALSE, {}, ack)
    /\ \E l \in First(due) :
           /\ OpenBreak({l}, "window_expired", l, legs[l].at,
                        <<Ev("leg.expired", {l})>>)
           /\ Reindex(index \ {l}, ack)
           /\ IF ack /\ (op = "close" \/ due # {l})
              THEN due' = due \ {l} /\ UNCHANGED <<op, todo, cursor, through>>
              ELSE Release("idle")
    /\ UNCHANGED now

\* CloseWindow ends with an event of its own; Sweep does not.
WindowClosed ==
    /\ op = "close" /\ due = {}
    /\ log' = Append(log, Ev("window.closed", {}))
    /\ Release("idle")
    /\ UNCHANGED <<legs, matches, breaks, index, now, faults>>

-----------------------------------------------------------------------------
\* Mutant of ResolveBreak: the status is not checked.
ResolveAnyBreak(b) ==
    /\ op = "idle"
    /\ PutBreak([b EXCEPT !.status = "resolved", !.actor = "operator"])
    /\ log' = Append(log, ResolvedEv(b.legs, {}))
    /\ UNCHANGED <<legs, matches, index, control, now, faults>>

\* ResolveBreak: POST /v1/breaks/{id}/resolve.  The legs are left as they are.
ResolveBreak(b) ==
    /\ op = "idle"
    /\ b.status = "open"
    /\ PutBreak([b EXCEPT !.status = "resolved", !.actor = "operator"])
    /\ log' = Append(log, ResolvedEv(b.legs, {}))
    /\ UNCHANGED <<legs, matches, index, control, now, faults>>

-----------------------------------------------------------------------------
(* Replay.                                                                 *)

Replays == {i \in DOMAIN log : log[i].type = "replay.started"}

\* Mutant of Replay: the last event is not read.
ReplayButLast(from) ==
    /\ op = "idle"
    /\ Len(log) < MaxLog /\ Cardinality(Replays) < MaxReplays
    /\ log' = Append(log, Ev("replay.started", {}))
    /\ op' = "reset" /\ cursor' = from
    /\ through' = IF log = <<>> THEN 0 ELSE Len(log) - 1
    /\ UNCHANGED <<legs, matches, breaks, index, todo, due, now, faults>>

Replay(from) ==
    /\ op = "idle"
    /\ Len(log) < MaxLog /\ Cardinality(Replays) < MaxReplays
    /\ log' = Append(log, Ev("replay.started", {}))
    /\ op' = "reset" /\ cursor' = from /\ through' = Len(log)
    /\ UNCHANGED <<legs, matches, breaks, index, todo, due, now, faults>>

\* Mutant of ReplayReset: the matches are left in place.
ReplayResetKeepsMatches ==
    /\ op = "reset"
    /\ legs' = [l \in Leg |-> Absent]
    /\ breaks' = {} /\ index' = {}
    /\ IF cursor <= through
       THEN op' = "replay" /\ UNCHANGED <<todo, due, cursor, through>>
       ELSE Release("idle")
    /\ UNCHANGED <<matches, log, now, faults>>

\* ResetProjections is a transaction of its own.
ReplayReset ==
    /\ op = "reset"
    /\ legs' = [l \in Leg |-> Absent]
    /\ matches' = {} /\ breaks' = {} /\ index' = {}
    /\ IF cursor <= through
       THEN op' = "replay" /\ UNCHANGED <<todo, due, cursor, through>>
       ELSE Release("idle")
    /\ UNCHANGED <<log, now, faults>>

\* Mutant of ReapplyResolution: resolutions are left to be derived again.
SkipResolution(e, blind) == UNCHANGED <<legs, matches, breaks, log, index>>

\* A manual resolution is restored if its break was derived again and is open;
\* it is passed over if the break cannot be read.
ReapplyResolution(e, blind) ==
    LET open == {b \in breaks : b.legs = e.legs /\ b.status = "open"}
    IN  /\ breaks' = IF e.match # {} \/ blind THEN breaks
                     ELSE (breaks \ open) \cup
                          {[b EXCEPT !.status = "resolved",
                                     !.actor = "operator"] : b \in open}
        /\ UNCHANGED <<legs, matches, log, index>>

\* Mutant of ReplayStep: the cursor does not move past events of other types.
ReplayStepStuck(ack) ==
    /\ op = "replay"
    /\ LET e == log[cursor]
       IN  \E blind \in BOOLEAN,
              lost \in SUBSET UNION {Related(l) : l \in e.legs} :
            /\ Suffer(blind, lost, ack)
            /\ \/ /\ e.type = "leg.ingested"
                  /\ \E l \in e.legs : IngestOne(l, e.at, FALSE, blind, lost, ack)
               \/ /\ e.type = "break.resolved"
                  /\ ReapplyResolution(e, blind)
               \/ /\ e.type \notin {"leg.ingested", "break.resolved"}
                  /\ UNCHANGED <<store, index>>
            /\ IF e.type \notin {"leg.ingested", "break.resolved"}
               THEN UNCHANGED control
               ELSE IF ack /\ cursor < through
               THEN cursor' = cursor + 1 /\ UNCHANGED <<op, todo, due, through>>
               ELSE Release("idle")
    /\ UNCHANGED now

ReplayStep(ack) ==
    /\ op = "replay"
    /\ LET e == log[cursor]
       IN  \E blind \in BOOLEAN,
              lost \in SUBSET UNION {Related(l) : l \in e.legs} :
            /\ Suffer(blind, lost, ack)
            /\ \/ /\ e.type = "leg.ingested"
                  /\ \E l \in e.legs : IngestOne(l, e.at, FALSE, blind, lost, ack)
               \/ /\ e.type = "break.resolved"
                  /\ ReapplyResolution(e, blind)
               \/ /\ e.type \notin {"leg.ingested", "break.resolved"}
                  /\ UNCHANGED <<store, index>>
            /\ IF ack /\ cursor < through
               THEN cursor' = cursor + 1 /\ UNCHANGED <<op, todo, due, through>>
               ELSE Release("idle")
    /\ UNCHANGED now

-----------------------------------------------------------------------------
(* Failure and restart.                                                    *)

\* A transaction or lookup fails, or the context is cancelled: the operation
\* returns an error.  What it persisted before stays.
Abort ==
    /\ op \in Operations
    /\ Strike("abort")
    /\ Release("idle")
    /\ UNCHANGED <<store, index, now>>

Crash ==
    /\ op # "down"
    /\ Strike("crash")
    /\ index' = {}
    /\ Release("down")
    /\ UNCHANGED <<store, now>>

\* Mutant of Rebuild: the process starts with an empty index.
RebuildEmpty ==
    /\ op = "down"
    /\ op' = "idle"
    /\ UNCHANGED <<store, index, todo, due, cursor, through, now, faults>>

\* Rebuild on process start.
Rebuild ==
    /\ op = "down"
    /\ index' = OpenLegs
    /\ op' = "idle"
    /\ UNCHANGED <<store, todo, due, cursor, through, now, faults>>

\* A tick is long compared with an operation.
Tick ==
    /\ op \in {"idle", "down"} /\ now < MaxTime
    /\ now' = now + 1
    /\ UNCHANGED <<store, index, control, faults>>

-----------------------------------------------------------------------------
\* An arrival carries its own ingested_at or is stamped with the clock.
Arrivals == [leg : Leg, at : {now} \cup Stamps]
Batches == UNION {[1..n -> Arrivals] : n \in 1..MaxBatch}

Init ==
    /\ legs = [l \in Leg |-> Absent]
    /\ matches = {} /\ breaks = {} /\ log = <<>>
    /\ index = {}
    /\ op = "idle" /\ todo = <<>> /\ due = {} /\ cursor = 0 /\ through = 0
    /\ now = 0 /\ faults = 0

Next ==
    \/ \E batch \in Batches : Ingest(batch)
    \/ \E ack \in BOOLEAN : IngestStep(ack)
    \/ Sweep
    \/ CloseWindow
    \/ \E ack \in BOOLEAN : ExpireStep(ack)
    \/ WindowClosed
    \/ \E b \in breaks : ResolveBreak(b)
    \/ \E from \in ReplayFrom : Replay(from)
    \/ ReplayReset
    \/ \E ack \in BOOLEAN : ReplayStep(ack)
    \/ Abort
    \/ Crash
    \/ Rebuild
    \/ Tick

Spec == Init /\ [][Next]_vars

-----------------------------------------------------------------------------
(* Safety.                                                                 *)

\* While the process is up, the in-memory index holds exactly the legs the
\* repository calls open, also between the transactions of an operation and
\* after one fails: a leg missing from the index can never be matched or
\* swept, a leg left in it can be matched twice.
IndexMirrorsStore == op # "down" => index = OpenLegs

\* The matches table and the match_id of the legs tell one story: every leg
\* of a match is matched and points back to it, and every matched leg is in
\* the match it points to.  Hence no leg is in two matches.
MatchesAgree ==
    /\ \A m \in matches : \A l \in m.legs :
           legs[l].status = "matched" /\ legs[l].match = m.legs
    /\ \A l \in Leg : legs[l].status = "matched" =>
           \E m \in matches : l \in m.legs /\ m.legs = legs[l].match

\* The breaks table and the break_id of the legs tell one story: a leg in
\* break points to a break that holds it; the legs of a break that is open or
\* was closed by an operator are still in it; a break closed by the system
\* gave its leg to a match.
BreaksAgree ==
    /\ \A l \in Leg : legs[l].status = "break" =>
           \E b \in breaks : l \in b.legs /\ b.legs = legs[l].brk
    /\ \A b \in breaks : \A l \in b.legs :
           IF b.actor = "system"
           THEN legs[l].status = "matched"
           ELSE legs[l].status = "break" /\ legs[l].brk = b.legs

\* A txn_ref has at most one open leg: the second leg of a ref is matched or
\* broken on arrival, whatever its source, currency or counterparty.
OneOpenPerRef ==
    \A k, l \in OpenLegs : Ref(k) = Ref(l) => k = l

\* A match is one anchor against legs of one other source, in one currency,
\* with a residual inside a tolerance computed from one of the legs; all but
\* late arrivals also share the window key, and each leg of the other side is
\* within the date window of the anchor.
MatchesSound ==
    \A m \in matches : \E a \in m.legs :
        LET others == m.legs \ {a}
        IN  /\ others # {}
            /\ \A k, l \in others : Source(k) = Source(l) /\ Source(k) # Source(a)
            /\ \A k \in others : Currency(k) = Currency(a)
            /\ \E l \in m.legs :
                  Distance(TotalAmount(others), Amount(a)) <= Tolerance(Amount(l))
            /\ m.rule # RuleT2Late =>
                  \A k \in others : Key(k) = Key(a) /\ WithinDateWindow(k, a)

\* k and l would be matched as late arrivals, whichever came last.
Reconcilable(k, l) ==
    /\ Ref(k) = Ref(l) /\ Source(k) # Source(l) /\ Currency(k) = Currency(l)
    /\ WithinTolerance(Amount(k), Amount(l))
    /\ WithinTolerance(Amount(l), Amount(k))

\* The legs that wait, and those that wait in vain: alone in an open break
\* that is not the break of a re-used txn_ref.
Unpaired ==
    OpenLegs \cup
    UNION {b.legs : b \in {c \in breaks : /\ c.status = "open"
                                         /\ c.trigger # "duplicate"
                                         /\ Cardinality(c.legs) = 1}}

\* No match is missed: as long as no lookup failed, two legs that wait, or
\* expired, or were refused on arrival, never are partners of each other, and
\* no break holds two legs that the first tiers accept as a pair, whatever
\* the order of arrivals, expiries, resolutions and healings.
NoMatchMissed ==
    faults = 0 =>
        /\ \A k, l \in Unpaired : ~Reconcilable(k, l)
        /\ \A b \in breaks : \A k, l \in b.legs :
              Key(k) = Key(l) /\ WithinDateWindow(k, l) => ~Reconcilable(k, l)

\* The label of a break is borne out by the stored legs of its txn_ref, also
\* after the legs around it were matched, broken, resolved or swept: what is
\* called a duplicate has a sibling of its source and every re-used txn_ref is
\* called one; a fee, FX or timing difference is one between two stored legs
\* of different sources; a counterparty is missing only after the window
\* closed.
LabelsJustified ==
    \A b \in breaks : \E p \in b.legs :
        LET sibling == \E q \in Related(p) : Source(q) = Source(p)
            counterparts == {q \in Related(p) : Source(q) # Source(p)}
        IN  /\ b.category = "duplicate" => sibling
            /\ b.trigger = "duplicate" => b.category = "duplicate"
            /\ b.category \in {"fee", "fx_drift", "timing"} =>
                  \E q \in counterparts : PairLabel(p, q) = b.category
            /\ b.category = "missing_counterparty" => b.trigger = "window_expired"

\* Matching never crosses a window: all legs of a match have the same currency
\* and counterparty, whichever rule made it.
MatchesWithinWindow ==
    \A m \in matches : \A k, l \in m.legs : Key(k) = Key(l)

\* Re-delivery and retries never double-count: no leg is in two matches.
NeverDoubleCounted ==
    \A m, n \in matches : m.legs \cap n.legs # {} => m = n

Logged(type, S) == \E i \in DOMAIN log : log[i].type = type /\ log[i].legs = S

\* The log is the source of truth: every leg, match, break and resolution of
\* the projections has its event, so none of them can be lost to a replay for
\* want of a record.
LogCoversStore ==
    /\ \A l \in Stored : Logged("leg.ingested", {l})
    /\ \A m \in matches : Logged("match.created", m.legs)
    /\ \A b \in breaks :
          /\ Logged("break.opened", b.legs)
          /\ b.status = "resolved" => Logged("break.resolved", b.legs)

\* A leg is counted once: the log has at most one leg.ingested event for it,
\* however often it is delivered and whatever fails between two deliveries.
\* (Not across a replay that was cut short or skipped the leg's event: until
\* the next replay HasLeg does not know the leg, and a delivery logs it again.)
IngestedOnce ==
    \A i, j \in DOMAIN log :
        /\ log[i].type = "leg.ingested" /\ log[j].type = "leg.ingested"
        /\ log[i].legs = log[j].legs
        => i = j

-----------------------------------------------------------------------------
(* Action properties.                                                      *)

Resetting == op = "reset" /\ op' \in {"replay", "idle"}

LegMovesForward(l) ==
    \/ legs'[l] = legs[l]
    \/ legs[l].status = "absent"
    \/ legs[l].status = "open" /\ legs'[l].status \in {"matched", "break"}
    \/ legs[l].status = "break" /\ legs'[l].status = "matched"

\* Outside the reset of a replay a leg only moves forward: a stored leg never
\* disappears, a matched leg keeps its match for ever, and a leg in break
\* leaves it only for a match.
LegsMoveForward == [][Resetting \/ \A l \in Leg : LegMovesForward(l)]_vars

BreakIsKept(b) ==
    \E c \in breaks' : /\ c.legs = b.legs /\ c.trigger = b.trigger
                       /\ c.category = b.category /\ c.opened = b.opened
                       /\ b.status = "resolved" => c = b

\* Outside the reset of a replay a break never disappears nor changes its
\* label or the time it was opened, and once resolved it is never opened again
\* nor resolved by somebody else.
ResolutionsFinal == [][Resetting \/ \A b \in breaks : BreakIsKept(b)]_vars

-----------------------------------------------------------------------------
(* Refinement.                                                             *)

\* What the ledger sees.  A break closed by the system gave its leg away.
Paired == {m.legs : m \in matches}
Broken == {b.legs : b \in {c \in breaks : c.actor # "system"}}
Settled == {b.legs : b \in {c \in breaks : c.actor = "operator"}}

Ledger == INSTANCE LegLedger WITH
    received <- Stored, paired <- Paired, broken <- Broken, settled <- Settled

\* The engine implements the ledger: each of its transactions, also those of an
\* operation that fails or is cut off half-way, receives, pairs, heals, breaks
\* or settles as the ledger allows, or changes nothing there.
ImplementsLedger == Ledger!LedgerSpec
=============================================================================
