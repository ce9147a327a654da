------------------------------- MODULE Readers -------------------------------
(***************************************************************************)
(* The reading side of the HTTP API (internal/api/http/server.go) over the *)
(* Postgres store: GET /v1/breaks page by page, GET /v1/matches/{id} and   *)
(* GET /v1/breaks/{id} with their legs, GET /v1/stats.  Readers do not     *)
(* take the engine's mutex, and each query sees the store as it is at that *)
(* moment: an answer put together from several queries is torn by what the *)
(* engine commits in between.  (The memory store computes Stats under one  *)
(* lock; it is otherwise the same.)                                        *)
(*                                                                         *)
(* One reader is enough: readers change nothing.                           *)
(***************************************************************************)
EXTENDS ReconEngine

CONSTANTS
    Limit,     \* the limit parameter of the listing
    IdRank(_)  \* the order of the IDs of breaks, which hash the IDs of their legs

\* Limits are positive, and no two hashes are the same.
ASSUME ReaderAssumption ==
    /\ Limit \in Nat \ {0}
    /\ \A S \in SUBSET Leg : IdRank(S) \in Nat
    /\ \A S, T \in SUBSET Leg : IdRank(S) = IdRank(T) => S = T

VARIABLES
    reader,  \* what the reader has read so far
    since    \* what happened since it began: "reset", "resolved"

readVars == <<vars, reader, since>>

Idle == [kind |-> "idle"]

-----------------------------------------------------------------------------
(* The listing.  Category, currency and counterparty never change in a     *)
(* break, and min_age lets breaks in, oldest first, but none out: these    *)
(* filters are left out.                                                   *)

Rows(status) == {b \in breaks : status \in {"any", b.status}}

\* Mutant of RowBefore: resolved breaks are put first.
RowBeforeByStatus(b, c) ==
    \/ b.status = "resolved" /\ c.status = "open"
    \/ /\ b.status = c.status
       /\ \/ b.opened < c.opened
          \/ b.opened = c.opened /\ IdRank(b.legs) < IdRank(c.legs)

\* ORDER BY opened_at, id
RowBefore(b, c) ==
    \/ b.opened < c.opened
    \/ b.opened = c.opened /\ IdRank(b.legs) < IdRank(c.legs)

\* LIMIT and OFFSET
Page(status, offset) ==
    LET rows == Rows(status)
        position(b) == Cardinality({c \in rows : RowBefore(c, b)})
    IN  {b \in rows : position(b) \in offset .. offset + Limit - 1}

ListBegin(status) ==
    /\ reader = Idle
    /\ reader' = [kind |-> "list", status |-> status, offset |-> 0, listed |-> {},
                  began |-> {b.legs : b \in Rows(status)}, done |-> FALSE]
    /\ since' = {}
    /\ UNCHANGED vars

\* One request; the last page is the first that is not full.
ListNext ==
    /\ reader.kind = "list" /\ ~reader.done
    /\ LET page == Page(reader.status, reader.offset)
       IN  reader' = [reader EXCEPT !.offset = @ + Limit,
                                    !.listed = @ \cup {b.legs : b \in page},
                                    !.done = Cardinality(page) < Limit]
    /\ UNCHANGED <<vars, since>>

-----------------------------------------------------------------------------
(* A match or a break with its legs: the row first, then leg by leg; legs  *)
(* that cannot be read are left out.                                       *)

ViewBegin(row) ==
    /\ reader = Idle
    /\ reader' = [kind |-> "view", row |-> row, left |-> row.legs, got |-> {}]
    /\ since' = {}
    /\ UNCHANGED vars

GetMatch == \E m \in matches : ViewBegin(m)
GetBreak == \E b \in breaks : ViewBegin(b)

ViewLeg ==
    /\ reader.kind = "view" /\ reader.left # {}
    /\ \E l \in First(reader.left) :
          reader' = [reader EXCEPT
              !.left = @ \ {l},
              !.got = @ \cup {[leg |-> x, state |-> legs[x]] : x \in {l} \cap Stored}]
    /\ UNCHANGED <<vars, since>>

-----------------------------------------------------------------------------
(* The figures, query by query; those by source and by category, the oldest*)
(* break and the number of events are left out.  The last is not a query   *)
(* but the size of the engine's index.                                     *)

Tier(rule) ==
    CASE rule = RuleT1Exact -> 1
      [] rule \in {RuleT2Tolerant, RuleT2AmountDate, RuleT2Late} -> 2
      [] rule = RuleT3Subset -> 3

InStatus(status) == Cardinality({l \in Leg : legs[l].status = status})

Query(q) ==
    CASE q = "legs" -> [matched |-> InStatus("matched"), broken |-> InStatus("break")]
      [] q = "tiers" -> [t \in 1..3 |-> Cardinality({m \in matches : Tier(m.rule) = t})]
      [] q = "rules" -> [r \in RuleIds |-> Cardinality({m \in matches : m.rule = r})]
      [] q = "breaks" -> [s \in {"open", "resolved"} |-> Cardinality(Rows(s))]
      [] q = "index" -> Cardinality(index)

\* Mutant of QueryOrder: the legs are counted after the matches and the breaks.
QueryOrderLegsLast == <<"tiers", "rules", "breaks", "legs", "index">>

QueryOrder == <<"legs", "tiers", "rules", "breaks", "index">>

StatsBegin ==
    /\ reader = Idle
    /\ reader' = [kind |-> "stats", asked |-> 0, figures |-> [q \in {} |-> 0]]
    /\ since' = {}
    /\ UNCHANGED vars

\* The queries run beside the engine.  OpenLegs, which counts the index, takes
\* the mutex: the reader waits for the operation that runs.
StatsQuery ==
    /\ reader.kind = "stats" /\ reader.asked < Len(QueryOrder)
    /\ LET q == QueryOrder[reader.asked + 1]
       IN  /\ q = "index" => op = "idle"
           /\ reader' = [reader EXCEPT
                  !.asked = @ + 1,
                  !.figures = [x \in DOMAIN @ \cup {q} |->
                                  IF x = q THEN Query(q) ELSE @[x]]]
    /\ UNCHANGED <<vars, since>>

-----------------------------------------------------------------------------
Finished ==
    \/ reader.kind = "list" /\ reader.done
    \/ reader.kind = "view" /\ reader.left = {}
    \/ reader.kind = "stats" /\ reader.asked = Len(QueryOrder)

\* The answer goes out as soon as it is complete.
Deliver ==
    /\ Finished
    /\ reader' = Idle /\ since' = {}
    /\ UNCHANGED vars

\* The engine goes on.
Write ==
    /\ ~Finished
    /\ Next
    /\ UNCHANGED reader
    /\ since' = IF reader = Idle THEN {} ELSE
           since \cup {x \in {"reset", "resolved"} :
               \/ x = "reset" /\ op = "reset" /\ op' \in {"replay", "idle"}
               \/ x = "resolved" /\ Rows("resolved")' # Rows("resolved")}

ReadersInit == Init /\ reader = Idle /\ since = {}

ReadersNext ==
    \/ \E status \in {"any", "open"} : ListBegin(status)
    \/ ListNext
    \/ GetMatch \/ GetBreak
    \/ ViewLeg
    \/ StatsBegin \/ StatsQuery
    \/ Deliver
    \/ Write

ReadersSpec == ReadersInit /\ [][ReadersNext]_readVars

-----------------------------------------------------------------------------
\* Paging by offset misses nothing: a listing of all breaks, read page by page
\* while breaks are opened and resolved, has every break there was when it
\* began; a listing of open breaks has every one that is still open, unless a
\* break was resolved meanwhile and the pages moved up.  A replay starts a new
\* table.
ListingComplete ==
    /\ reader.kind = "list" /\ Finished
    /\ "reset" \notin since
    /\ "resolved" \in since => reader.status = "any"
    => reader.began \subseteq reader.listed

IsMatchRow(row) == "rule" \in DOMAIN row

\* A match or a break and its legs, read one after the other, fit together: no
\* leg is left out; the legs of a match are in that match; the legs of a break
\* are in that break, were given to a match by a break the row calls healed, or
\* by one that was healed after the row was read.
ViewsConsistent ==
    reader.kind = "view" /\ Finished /\ "reset" \notin since =>
        LET row == reader.row
        IN  /\ {g.leg : g \in reader.got} = row.legs
            /\ \A g \in reader.got :
                  IF IsMatchRow(row)
                  THEN g.state.status = "matched" /\ g.state.match = row.legs
                  ELSE \/ g.state.brk = row.legs /\ row.actor # "system"
                       \/ /\ g.state.status = "matched"
                          /\ row.actor # "operator" /\ Cardinality(row.legs) = 1

\* The figures err on one side only: there are never too few matches for the
\* matched legs counted before them, nor too few breaks, two legs to a break,
\* for the broken ones, and in no tier are the matches by rule too few for the
\* matches by tier.
StatsOneSided ==
    reader.kind = "stats" /\ Finished /\ "reset" \notin since =>
        LET tiers == reader.figures["tiers"]
            rules == reader.figures["rules"]
            brk == reader.figures["breaks"]
        IN  /\ reader.figures["legs"].matched <=
                  2 * (tiers[1] + tiers[2]) + (T3MaxSubset + 1) * tiers[3]
            /\ tiers[1] <= rules[RuleT1Exact]
            /\ tiers[2] <= rules[RuleT2Tolerant] + rules[RuleT2AmountDate] + rules[RuleT2Late]
            /\ tiers[3] <= rules[RuleT3Subset]
            /\ reader.figures["legs"].broken <= 2 * (brk["open"] + brk["resolved"])
=============================================================================
