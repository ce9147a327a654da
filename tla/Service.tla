------------------------------- MODULE Service -------------------------------
(***************************************************************************)
(* The process around the engine: the HTTP handlers that change state      *)
(* (internal/api/http/server.go), the sweeper goroutine, SIGTERM, exit and *)
(* start (cmd/recon-stream/main.go).  Handlers and sweeper compete for the *)
(* engine's mutex; ReconEngine's op is the operation that holds it.        *)
(*                                                                         *)
(* What a request asks for matters only once it has the mutex, so it is    *)
(* chosen then.  Requests refused before the engine is called (malformed,  *)
(* empty, more than 5000 legs, an invalid leg, no reason or actor) change  *)
(* nothing and are no steps here.                                          *)
(*                                                                         *)
(* SIGTERM cancels the context of every request (BaseContext) and of the   *)
(* sweeper; a client that leaves cancels the context of its own request.   *)
(* Ingest and expire look at it before each leg; replay and resolve do     *)
(* not, but over Postgres their next transaction fails.  A transaction     *)
(* cancelled on its way may be committed all the same, and so may one      *)
(* whose connection is lost: the engine gets an error and leaves its index *)
(* as it was, also in a process that goes on serving.                      *)
(***************************************************************************)
EXTENDS ReconEngine

CONSTANT Client  \* HTTP clients, each with one request at a time

VARIABLES
    request,   \* of each client: "none", "waiting" for the mutex, "served"
    posted,    \* the legs of the POST /v1/legs that holds the mutex
    asked,     \* the older_than of the last POST /v1/windows/close
    stopping,  \* SIGTERM was received
    inflight,  \* a transaction was on its way when SIGTERM came
    accepted,  \* history: what clients were told is done
    stale,     \* history: a commit was answered with an error since the index
               \* was last built
    misled     \* history: an operation was run on a stale index since the
               \* projections were last reset

trust == <<stale, misled>>
svcVars == <<vars, request, posted, asked, stopping, inflight, accepted, trust>>

Accepted == [legs : SUBSET Leg, resolved : SUBSET SUBSET Leg]

\* Every variable has its type, and at most one request holds the mutex.
ServiceTypeOK ==
    /\ TypeOK
    /\ request \in [Client -> {"none", "waiting", "served"}]
    /\ posted \subseteq Leg
    /\ asked \in Nat
    /\ stopping \in BOOLEAN /\ inflight \in BOOLEAN
    /\ stale \in BOOLEAN /\ misled \in BOOLEAN
    /\ accepted \in Accepted
    /\ \A c, d \in Client :
          request[c] = "served" /\ request[d] = "served" => c = d
    /\ op \in {"idle", "down"} => \A c \in Client : request[c] # "served"

ServiceInit ==
    /\ Init
    /\ request = [c \in Client |-> "none"]
    /\ posted = {} /\ asked = 0 /\ stopping = FALSE /\ inflight = FALSE
    /\ accepted = [legs |-> {}, resolved |-> {}]
    /\ stale = FALSE /\ misled = FALSE

-----------------------------------------------------------------------------
(* Requests.                                                               *)

\* After SIGTERM the server accepts no request.
Send(c) ==
    /\ op # "down" /\ ~stopping /\ request[c] = "none"
    /\ request' = [request EXCEPT ![c] = "waiting"]
    /\ UNCHANGED <<vars, posted, asked, stopping, inflight, accepted, trust>>

\* Mutant of Acquire: the handler is taken to be busy in any case.
AcquireAndKeep(c) ==
    /\ request[c] = "waiting"
    /\ request' = [request EXCEPT ![c] = "served"]
    /\ UNCHANGED <<stopping, inflight>>

\* The request of c gets the mutex and keeps it, or is done at once.
Acquire(c) ==
    /\ request[c] = "waiting"
    /\ request' = [request EXCEPT ![c] = IF op' \in Operations THEN "served"
                                         ELSE "none"]
    /\ UNCHANGED <<stopping, inflight>>

\* An operation that reads the index begins, or finds nothing to do.
ReadsIndex ==
    /\ misled' = (misled \/ (stale /\ op' \in Operations))
    /\ UNCHANGED stale

PostLegs(c) ==
    /\ ~stopping
    /\ \E batch \in Batches :
          /\ Ingest(batch)
          /\ posted' = {batch[i].leg : i \in DOMAIN batch}
    /\ Acquire(c) /\ ReadsIndex /\ UNCHANGED <<asked, accepted>>

PostReplay(c) ==
    /\ \E from \in ReplayFrom : Replay(from)
    /\ Acquire(c) /\ UNCHANGED <<posted, asked, accepted, trust>>

PostClose(c) ==
    /\ ~stopping
    /\ asked' \in OlderThan /\ Expire("close", asked')
    /\ Acquire(c) /\ ReadsIndex /\ UNCHANGED <<posted, accepted>>

\* The answer is 200, or an error although the resolution was committed.
PostResolve(c) ==
    /\ \E b \in breaks, told \in BOOLEAN :
          /\ ResolveBreak(b)
          /\ accepted' = IF told THEN [accepted EXCEPT !.resolved = @ \cup {b.legs}]
                         ELSE accepted
    /\ Acquire(c) /\ UNCHANGED <<posted, asked, trust>>

\* 404, 409, or the error of a cancelled context or a failed transaction.
PostInVain(c) ==
    /\ op = "idle" /\ UNCHANGED <<vars, posted, asked, accepted, trust>>
    /\ Acquire(c)

Serve(c) ==
    \/ PostLegs(c) \/ PostReplay(c) \/ PostClose(c)
    \/ PostResolve(c) \/ PostInVain(c)

-----------------------------------------------------------------------------
(* The operation that holds the mutex.                                     *)

\* Mutant of Answer: an error of the engine is answered like a success.
AnswerSuccess(ok) ==
    /\ request' = [c \in Client |-> IF request[c] = "served" THEN "none"
                                    ELSE request[c]]
    /\ accepted' = [accepted EXCEPT !.legs = @ \cup posted]
    /\ posted' = {}

\* The caller of the operation, if it is a request, gets its answer.
Answer(ok) ==
    /\ request' = [c \in Client |-> IF request[c] = "served" THEN "none"
                                    ELSE request[c]]
    /\ accepted' = IF ok THEN [accepted EXCEPT !.legs = @ \cup posted]
                   ELSE accepted
    /\ posted' = {}

\* The operations that look at their context before each leg.
ChecksContext == op = "ingest" \/ (op \in {"sweep", "close"} /\ due # {})

\* One transaction of the operation.  ack is FALSE when it was committed and the
\* engine got an error: the client left, SIGTERM came or the connection to the
\* store was lost during the COMMIT.
Transaction(ack) ==
    /\ stopping /\ ChecksContext => inflight
    /\ inflight' = FALSE
    /\ \/ IngestStep(ack) \/ ExpireStep(ack) \/ ReplayStep(ack)
       \/ ack /\ (WindowClosed \/ ReplayReset)
    /\ IF op' = "idle" THEN Answer(ack) ELSE UNCHANGED <<request, posted, accepted>>
    /\ stale' = (~ack \/ (stale /\ op # "reset"))
    /\ misled' = (misled /\ op # "reset")
    /\ UNCHANGED <<asked, stopping>>

\* Mutant of Cancel: only a batch notices that its context was cancelled.
CancelIngest ==
    /\ stopping /\ op = "ingest"
    /\ Release("idle") /\ UNCHANGED <<store, index, now, faults>>
    /\ Answer(FALSE)
    /\ inflight' = FALSE /\ UNCHANGED <<asked, stopping, trust>>

\* The operation returns an error: its context was cancelled by SIGTERM.
Cancel ==
    /\ stopping /\ op \in Operations
    /\ Release("idle") /\ UNCHANGED <<store, index, now, faults>>
    /\ Answer(FALSE)
    /\ inflight' = FALSE /\ UNCHANGED <<asked, stopping, trust>>

\* The operation returns an error and nothing more was committed: a transaction
\* or a lookup failed, or the client left before the COMMIT.
Fail ==
    /\ Abort
    /\ Answer(FALSE)
    /\ UNCHANGED <<asked, stopping, inflight, trust>>

\* The sweeper's ticker fires.
SweeperTurn ==
    /\ ~stopping
    /\ Sweep /\ ReadsIndex
    /\ UNCHANGED <<request, posted, asked, stopping, inflight, accepted>>

-----------------------------------------------------------------------------
(* The process.                                                            *)

Terminate ==
    /\ op # "down" /\ ~stopping
    /\ faults < MaxFaults /\ faults' = faults + 1
    /\ stopping' = TRUE
    /\ inflight' \in BOOLEAN /\ (inflight' => op \in Operations)
    /\ UNCHANGED <<store, index, control, now, request, posted, asked, accepted, trust>>

\* What ends with the process: its memory, and the connections of clients.
ProcessGone ==
    /\ request' = [c \in Client |-> "none"]
    /\ posted' = {} /\ inflight' = FALSE /\ stale' = FALSE
    /\ UNCHANGED <<asked, accepted, misled>>

\* run returns.
Leave ==
    /\ stopping /\ op # "down"
    /\ index' = {} /\ Release("down")
    /\ UNCHANGED <<store, now, faults, stopping>>
    /\ ProcessGone

\* Every handler has returned.
Drained == op = "idle" /\ (\A c \in Client : request[c] = "none") /\ Leave

\* The drain timeout has passed.
DrainTimeout == op \in Operations /\ Leave

Killed == Crash /\ ProcessGone /\ stopping' = FALSE

Start ==
    /\ Rebuild
    /\ stopping' = FALSE
    /\ UNCHANGED <<request, posted, asked, inflight, accepted, trust>>

Clock ==
    Tick /\ UNCHANGED <<request, posted, asked, stopping, inflight, accepted, trust>>

ServiceNext ==
    \/ \E c \in Client : Send(c) \/ Serve(c)
    \/ \E ack \in BOOLEAN : Transaction(ack)
    \/ Cancel \/ Fail \/ SweeperTurn
    \/ Terminate \/ Drained \/ DrainTimeout \/ Killed \/ Start
    \/ Clock

\* Time passes; a transaction ends; a cancelled operation returns; a process
\* that is told to stop exits and one that is gone is started again.  A
\* goroutine that waits for the mutex gets it in the end, however often others
\* get it first (sync.Mutex hands over in order after a millisecond): strong
\* fairness.
ServiceSpec ==
    /\ ServiceInit /\ [][ServiceNext]_svcVars
    /\ WF_svcVars(Clock) /\ WF_svcVars(Transaction(TRUE)) /\ WF_svcVars(Cancel)
    /\ WF_svcVars(Drained) /\ WF_svcVars(Start)
    /\ SF_svcVars(SweeperTurn)
    /\ \A c \in Client : SF_svcVars(Serve(c))

-----------------------------------------------------------------------------
(* Properties.                                                             *)

\* What a client was told is done is in the log, so no restart, no SIGTERM in
\* the middle of a batch and no replay can lose it: every leg of an accepted
\* batch was ingested and every accepted resolution was recorded.
AcceptedIsLogged ==
    /\ \A l \in accepted.legs : Logged("leg.ingested", {l})
    /\ \A S \in accepted.resolved : Logged("break.resolved", S)

\* In a process none of whose commits was answered with an error, memory and
\* store agree: through failed operations, SIGTERM in the middle of one, kills
\* and restarts, and also when the tables were spoilt before.  A restart and the
\* reset of a replay each repair a memory that has gone stale.
MirrorsWhileServing == op # "down" /\ ~stale => index = OpenLegs

\* A stale memory harms nothing by itself: as long as no batch, sweep or close
\* was run on it since the last reset of the projections, matches, breaks and
\* legs tell one story and no leg is in two matches.
TablesAgreeUnlessMisled ==
    ~misled => MatchesAgree /\ NeverDoubleCounted /\ BreaksAgree

\* A POST /v1/windows/close is answered with 200.
Closed == WindowClosed \/ (\E c \in Client : PostClose(c) /\ op' = "idle")

\* A cut-off ends the day: when a close has answered, what is still open is
\* younger than the older_than it was asked for, the age of a leg being counted
\* from the ingested_at it carries.  (So 0 is not quite the "all open legs" of
\* the API's description: a leg from the future stays.)
CloseEmpties ==
    [][Closed /\ ~stale => \A l \in OpenLegs' : legs'[l].at + asked' > now]_svcVars

\* Every request is answered or its connection ends with the process.
RequestsEnd == \A c \in Client : request[c] = "waiting" ~> request[c] = "none"

\* A process that is told to stop drains and exits, in the middle of whatever
\* operation SIGTERM meets it and without help of the drain timeout.
ShutdownEnds == stopping ~> op = "down"

\* No leg waits for ever while the memory of the process can be relied on: the
\* sweeper turns every leg that stays open into a break once its TTL has
\* passed, also after restarts, failed sweeps and replays.  (A leg committed for
\* a client that left is not in the index, and no sweep takes it before the next
\* restart or replay.)
DrainsUnlessStale ==
    \A l \in Leg : (legs[l].status = "open") ~> (legs[l].status # "open" \/ stale)
=============================================================================
