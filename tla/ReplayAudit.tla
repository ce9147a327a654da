---------------------------- MODULE ReplayAudit ----------------------------
(***************************************************************************)
(* ReconEngine with history variables that compare the projections a       *)
(* replay of the whole log derives with the projections it replaced.       *)
(***************************************************************************)
EXTENDS ReconEngine

VARIABLES
    before,  \* the tables when the current replay started
    first,   \* the first event of the current replay
    struck,  \* the faults there had been when the current replay started
    whole    \* the projections held what the whole log implies when the
             \* current replay started, or hold it now if there is none

auditVars == <<vars, before, first, struck, whole>>

\* What a replay resets and derives again.
Tables == [legs |-> legs, matches |-> matches, breaks |-> breaks]

\* Tables without the times a replay takes from its own clock.  opened_at is
\* such a time; matched_at and the resolved_at of a healed break are others, which
\* ReconEngine leaves out.
Undate(T) ==
    [legs |-> T.legs, matches |-> T.matches,
     breaks |-> {[b EXCEPT !.opened = 0] : b \in T.breaks}]

Projections == Undate(Tables)

AuditInit ==
    /\ Init
    /\ before = Tables
    /\ first = 0 /\ struck = 0
    /\ whole = TRUE

ReplayStarts == op = "idle" /\ op' = "reset"

\* The projections were reset and the replay is over, for whatever reason.
ReplayEnds ==
    \/ op = "replay" /\ op' \in {"idle", "down"}
    \/ op = "reset" /\ op' = "idle" /\ faults' = faults

\* The replay read every event up to through and nothing failed on the way.
ReplayCompletes == ReplayEnds /\ cursor >= through /\ faults' = struck

\* A leg was decided on although a lookup failed.
DecidedBlindly == op = "ingest" /\ faults' # faults /\ store' # store

AuditNext ==
    /\ Next
    /\ before' = IF ReplayStarts THEN Tables ELSE before
    /\ first' = IF ReplayStarts THEN cursor' ELSE first
    /\ struck' = IF ReplayStarts THEN faults ELSE struck
    /\ whole' = IF ReplayEnds THEN ReplayCompletes /\ first = 1
                ELSE whole /\ ~DecidedBlindly

AuditSpec == AuditInit /\ [][AuditNext]_auditVars

-----------------------------------------------------------------------------
\* Up to those times, replaying the log from its start reproduces the legs,
\* matches and breaks, resolutions included, that live processing had derived,
\* whatever restarts, failed operations and earlier interrupted replays the log
\* went through.
ReplayReproduces ==
    [][ReplayCompletes /\ first = 1 /\ whole => Projections' = Undate(before)]_auditVars

\* A completed replay from the start repairs the projections: exactly the legs
\* the log has a leg.ingested event for are stored, also when an earlier
\* replay was cut short or skipped the beginning of the log.
ReplayRestoresLegs ==
    [][ReplayCompletes /\ first = 1 =>
          Stored' = {l \in Leg : Logged("leg.ingested", {l})}]_auditVars

ResolvedByHand(S) ==
    \E i \in DOMAIN log :
        log[i].type = "break.resolved" /\ log[i].legs = S /\ log[i].match = {}

\* No decision of an operator is lost for good: a completed replay from the
\* start closes every break it derives that was ever resolved by hand, also
\* when an earlier replay passed over the resolution because a lookup failed,
\* was cut short, or derived other breaks from a part of the log.
ResolutionsRestored ==
    [][ReplayCompletes /\ first = 1 =>
          \A b \in breaks' : ResolvedByHand(b.legs) => b.status = "resolved"]_auditVars
=============================================================================
