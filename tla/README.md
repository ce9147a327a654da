# recon-stream in TLA+

recon-stream reconciles payment records ("legs") of several sources: it matches
them with deterministic rules, turns what cannot be matched into breaks, and
keeps an event log from which the projections can be rebuilt. This directory
models its core, checks it with TLC and proves its safety properties with TLAPS.

## 1. Inventory

| Component | State | Operations | What makes it correct |
|---|---|---|---|
| Legs and rules (`recon/leg.go`, `rules.go`) | none | Validate, Tolerance, WithinTolerance, WithinDateWindow, Key | tolerances and windows bound every match |
| Index (`recon/index.go`) | open legs by ID, window key, txn_ref, batch_ref | Add, Remove, lookups, Expired | it holds exactly the open legs of the store |
| Matcher (`recon/matcher.go`) | none | find: tiers 1, 2 (ref), 2 (amount and date), 3 (both orientations), subsetSum | a match obeys its tier; the pruned search finds what exists |
| Engine (`recon/engine.go`) | index, replaying flag, one mutex | Rebuild, Ingest, Sweep, CloseWindow, ResolveBreak, Replay | no leg counted twice, nothing lost, projections consistent after every failure, replay reproduces them |
| Repository (`adapters/memory`, `adapters/postgres`) | legs, matches, breaks, events | Apply (one transaction), ResetProjections, lookups | a change set is atomic; rows are upserted by ID |
| Kafka source (`adapters/kafka/source.go`) | client position, committed offset | poll, handle, commit, rebalance | a committed record is stored |
| Process (`cmd/recon-stream/main.go`) | goroutines: HTTP, sweeper, consumer | start (Rebuild), sweeper tick, SIGTERM, drain, exit; several replicas | open legs drain, shutdown ends, replicas keep out of each other's way |
| HTTP API (`api/http/server.go`) | requests under way | POST legs, resolve, replay, close; listing, views, figures | what a client was told is kept; every request ends; answers put together from several reads fit together |
| Classifier (`classify/heuristic.go`) | none | Classify | a label is borne out by the stored legs; no control depends on it |
| Configuration, observability, memory source, load generator | - | - | not modelled |

Interaction: the HTTP handlers, the Kafka consumer and the sweeper call the
engine; the engine holds its mutex for the whole operation, reads the
repository and its index, writes one change set per leg with `Apply`, and
updates the index only after `Apply` returned. The reading handlers go to the
repository without the mutex.

Hard behaviours: an operation is several transactions and may fail, be
cancelled or lose its process between any two; a commit may be acknowledged
with an error; deliveries repeat; the order of delivery decides between match,
break and healed break; replay repeats some decisions and not others; offsets
are committed by position, not by batch; SIGTERM cancels the requests it is
meant to drain, and a client that leaves cancels its own; readers see the store
between two transactions. `PROJECT.json` lists them as hazards with the
properties that watch them.

## 2. Modules

| Module | Models | Uses |
|---|---|---|
| `ReconRules` | legs, keys, tolerances | |
| `ReconMatcher` | index lookups and tiers as set-valued operators | `ReconRules` |
| `BreakClassifier` | the decision list that labels breaks | `ReconRules` |
| `SubsetSumSearch` | the depth-first search step by step, with pruning and budget | `ReconMatcher` |
| `ReconEngine` | store, index, operations, faults, clock | `ReconMatcher`, `BreakClassifier` |
| `LegLedger` | abstract specification: where a leg may be and how it moves | |
| `ReplayAudit` | `ReconEngine` with history variables comparing projections before and after a replay | `ReconEngine` |
| `Service` | requests, sweeper, SIGTERM, exit and start around the engine | `ReconEngine` |
| `Readers` | a reader of listings, views and figures beside the engine | `ReconEngine` |
| `Replicas` | two engines with their own indexes over one store | `ReconEngine`, twice |
| `KafkaIngest` | the consumer loop composed with the engine and the sweeper | `ReconEngine` |
| `LegLedgerProofs` | the ledger balances | `LegLedger` |
| `ReconEngineProofs` | types; agreement of store and index; lifecycle; what the log covers; the engine implements the ledger | `ReconEngine`, `LegLedgerProofs` |
| `OutcomeProofs` | matches are sound, none is missed, labels are justified | `ReconEngineProofs` |
| `SearchProofs` | the subset-sum search finds what its definition says | `SubsetSumSearch`, `OutcomeProofs` |
| `ReplayProofs` | legs are announced once; what a replay restores; when it reproduces what it replaces | `ReplayAudit`, `ReconEngineProofs` |
| `ServiceProofs`, `KafkaProofs`, `ReadersProofs` | the process, the consumer, the readers | `Service`, `KafkaIngest`, `Readers` |
| `MCReconEngine`, `MCReplay`, `MCService`, `MCReaders`, `MCReplicas`, `MCKafka`, `MCSubsetSum` | instances for TLC | |

Correspondence of `ReconEngine` with the code:

- `legs`, `matches`, `breaks`, `log` are the tables; `index` is `Engine.ix`;
  `op` is the operation that holds the mutex ("idle": none, "down": no
  process); `todo`, `due`, `cursor`, `through` are the local variables of the
  loops of `Ingest`, `expire` and `Replay`.
- A leg is a number standing for its content. IDs are content hashes in the
  code, so equal content is equal identity; match and break IDs are hashes of
  sorted leg IDs, here the set of legs itself.
- One step is one repository transaction together with the lookups before it
  and the index update after it. Since the mutex is held, no other operation
  can come between; what can is `Abort` (an error or a cancelled context: the
  operation ends, what it persisted stays) or `Crash`.
- `ingestOne` is `IngestOne`, a disjunction of its seven outcomes in the order
  of the code, each guarded by the failure of the ones before it.
- A transaction has three more parameters for what may go wrong inside it:
  `ack` is FALSE when the store committed and the caller got an error; `blind`
  and `lost` say which lookups fail although the code goes on (the `exists`
  closure answers yes, `GetBreak` in step 4 skips the candidate, `GetBreak` in
  `reapplyResolution` drops the resolution). Every fault must be allowed by
  the constant `Faults` and is counted against `MaxFaults`.

Around the engine:

- `Service` keeps for every client whether it has a request, waits for the
  mutex or holds it; what is asked for is chosen when the mutex is obtained,
  because nothing depends on it before. Handlers pass the context of their
  request to the engine, and a client that leaves cancels it: before a COMMIT
  the operation fails (`Fail`), during it the transaction may be committed and
  the engine still gets an error (`Transaction(FALSE)`, counted as the fault
  "ambiguous"), in a process that goes on serving. A lost connection to the store does
  the same. After `Terminate` (SIGTERM) the operation under way ends with an
  error (`Cancel`) at its next look at the context or its next transaction;
  `inflight` says that a transaction was on its way, which may still commit,
  with or without its acknowledgement. The process leaves when every handler has
  returned (`Drained`) or the drain timeout passes (`DrainTimeout`), and `Start`
  rebuilds. Histories: `accepted`, the answers 200; `asked`, the `older_than` of
  the last close; `stale`, a commit was answered with an error since the index
  was last built (by a start or by the reset of a replay); `misled`, a batch,
  sweep or close was run on a stale index since the projections were last
  reset.
- `Readers` adds one reader. Every query is a step that sees the store of that
  moment, without the mutex; only the last figure of `GET /v1/stats`, the size
  of the index, is read under the mutex and waits for the operation that runs.
  `since` records whether a break was resolved or the projections were
  reset after the reader began. Rows with equal `opened_at` are ordered by ID;
  IDs are hashes, so their order is a constant, `IdRank`, of which only is
  assumed that no two IDs are the same.
- `Replicas` instantiates `ReconEngine` a second time with the index, operation
  and loop variables of another process and the same store and clock. Batches
  go to the replica that owns the window key.
- `LegLedger` knows legs received, paired, broken and settled. In the mapping a
  match is a pair, a break that was not closed by the system a broken group,
  and one closed by an operator a settled group. A leg that is healed leaves
  its broken group; everything else about index, log, clock, operations and
  faults is hidden.

Choices where the code leaves room: `Crash` and `Rebuild` are about the Postgres
store (the memory store loses everything with its process); `LegsByTxnRef`
returns legs in the order of the Postgres query (`ingested_at, id`); event
numbers have no gaps; replay reads one event per step instead of pages of 500;
the node budget of the subset sum is not part of `ReconEngine` (the
`subsetsum` run shows when the two agree). The clock ticks only between
operations. Records are taken not to carry a `match_id` or `break_id` of their
own. When a break is upserted, Postgres keeps `category` and `opened_at` and the
memory store overwrites them; the two differ only if a break is opened twice
without a reset in between, which `ImplementsLedger` excludes as long as no
acknowledgement is lost.

## 3. Runs

| Run | Checks | What happens in it |
|---|---|---|
| `pairs` | `TypeOK`, `IndexMirrorsStore`, `MatchesAgree`, `BreaksAgree`, `LogCoversStore`, `IngestedOnce`, `LegsMoveForward`, `ResolutionsFinal`, `ImplementsLedger` | four legs around one ref (exact partner, re-used ref, same amount under another ref), expiry, forced close, manual resolution, healing, re-delivery; one abort, crash or failing lookup |
| `conflicts` | `BreaksAgree`, `MatchesSound`, `OneOpenPerRef`, `NoMatchMissed`, `LabelsJustified` | one ref, three sources, other counterparty, currency, date, a fee; failing lookups; legs with early timestamps; a replay, possibly with expired legs in the log |
| `service` | `ServiceTypeOK`, `AcceptedIsLogged`, `MirrorsWhileServing`, `TablesAgreeUnlessMisled`, `CloseEmpties`, `RequestsEnd`, `ShutdownEnds`, `DrainsUnlessStale` | a client that posts batches of one and two, resolves, replays and closes with `older_than` 0, beside the sweeper; a leg that carries a future `ingested_at`; two of: SIGTERM at any point, kill, failed operation, commit answered with an error |
| `readers` | `ListingComplete`, `ViewsConsistent`, `StatsOneSided` | pages of one break, a match or break with its legs, the figures, interleaved with ingest, expiry, healing, resolution and replay; two legs that match and a third, of a third source, that conflicts with whichever of them waits |
| `replay` | `IndexMirrorsStore`, `LogCoversStore`, `ReplayReproduces`, `ReplayRestoresLegs`, `ResolutionsRestored`, `ImplementsLedger` | replays from events 1 and 3, each possibly cut short or with a failing lookup, between deliveries and manual resolutions; time passes, nothing expires |
| `kafka` | `OnlyFailedBatchesLost`, `MatchesSound`, `TopicDrains` | a topic of five records, one undecodable, the others a settlement and its batch, tier 3 from both sides; two of: crash, failed commit, failed batch, lost acknowledgement; a rebalance; sweeps |
| `subsetsum` | `FindsFirst`, `MissesOnlyOnBudget`, `SearchEnds` | every pool drawn from six legs, several targets, tolerances, sizes and budgets |

What some of the answers say:

- `NoMatchMissed`: if no lookup failed, two legs that both wait, expired or were
  refused are never partners. This is not a matter of one guard: it holds
  because the tiers, the break of an open partner and the healing of a
  single-leg break between them cover every order of arrival.
- `LabelsJustified`: a label survives what happens around the break later.
- `MirrorsWhileServing`: nothing but a commit answered with an error parts the
  index from the store; a restart and the reset of a replay both repair it.
- `TablesAgreeUnlessMisled`: such a commit harms nothing by itself, since the
  store is right and only the memory is behind. The harm is done by the next
  batch, sweep or close on that memory (run `ambiguous`), and a replay undoes it.
- `DrainsUnlessStale`: a leg committed for a client that left during the COMMIT
  is open in the store and not in the index. No sweep takes it and a retry is a
  duplicate, until a restart or a replay; `docs/architecture.md:95-97` knows no
  such exception. Without the exemption for a stale index TLC finds this.
- `CloseEmpties`: when a close is answered, every leg still open is younger than
  the `older_than` of that request, by the `ingested_at` it carries. That is the
  first half of `api/openapi.yaml:275`, "Only legs ingested at least this long ago".
  The second half, "Default `0` = all open legs", and "(0 = all)" in `engine.go:382` are
  not what the code does: a leg that carries an `ingested_at` in the future stays
  open. In the `service` instance TLC finds a close with 0 that leaves one.
- `ReplayReproduces`: the times a replay takes from its own clock are left out of
  the comparison. `opened_at` (`engine.go:363`) is one; `matched_at`
  (`engine.go:228`) and the `resolved_at` of a healed break (`engine.go:290`) are not
  modelled and are stamped in the same way. So the "byte-identical" of
  `docs/adr/0001` (lines 30-31) and of the repository's `README.md:41` fails for
  them in every replay that comes later than what it replays; with `opened_at` in
  the comparison TLC finds it in the `replay` instance. Legs keep their
  `ingested_at` and manual resolutions their time.
- `ListingComplete`: rows are ordered by `opened_at`, which never changes, so
  paging through all breaks misses none. Paging through the open ones may: a
  break resolved between two requests moves the rest up by one, and the row at
  the page boundary is skipped; the property exempts exactly this.
- `StatsOneSided`: legs are counted first, then matches by tier, by rule, and
  breaks, so every figure may be too large for the one before it, tier by tier,
  never too small. A break accounts for two legs at most, because at most one
  leg of a ref waits for an arrival to conflict with; with one leg to a break
  the property is violated in this instance.

Five runs show where the code does not do what the repository says of it:

| Run | Violated | What happens |
|---|---|---|
| `late_window` | `MatchesWithinWindow` | step 4 of `ingestOne` compares currency but not counterparty, so healing crosses windows |
| `ambiguous` | `NeverDoubleCounted` | a commit that is answered with an error leaves matched legs in the index; a later leg is matched with them again |
| `replay_expiry` | `ReplayReproduces` | `leg.expired` is not replayed: a leg that had expired into a break is open after the replay, and its break is gone |
| `kafka_error` | `CommittedIsDurable` | after a handler error the loop polls on; the next commit covers the failed batch, which is then never delivered again |
| `replicas` | `ReplicasNeverContend` | a replica that starts loads the open legs of all windows; its sweeper breaks a leg that its owner has matched in the meantime |

Bounds. `MaxTime`, `LastArrival`: one or two ticks are enough for a leg to
expire (TTL is 1) and for its partner to come later; in `replay` one tick lets
a replay come later than what it replays. `MaxBatch`: 1, or 2 where
the question is what an abort inside a batch leaves; batches add nothing else,
since legs are processed one by one. `MaxLog`: no replay starts when the log has
reached it, and no batch without room for two events a leg and one more;
operations under way are never cut off. Eight or nine leave room for two
arrivals after an expiry, or for a healing; in `service` it is 5, enough for a
batch of two, a match or break of both legs and a replay after it. `MaxReplays`: two in `replay`, so that one may be spoilt
and the next must repair what it left; one or none elsewhere. `MaxFaults`: one
fault per behaviour at any point, two in `service` (a lost
acknowledgement and a kill, or a failure before SIGTERM) and `kafka`.
`MaxRebalances`: one. Three or four legs suffice for a conflict of any kind to
involve two parties and a bystander; `service` has two legs that match, because its
question is the process and not the matching, and `readers` three, so that a
listing has a row that moves and a row that does not. One client suffices in
`service`: the sweeper is the other contender for the mutex. Ages other than 0 in a
close are left to `CloseAlwaysEmpties`. The theorems of
section 5 have no bounds.

## 4. Fairness

`ServiceSpec` assumes weak fairness of the clock, of the next transaction of the
operation that holds the mutex (there is no blocking call without a context in
the loops), of the return of a cancelled operation, of the exit of a process
whose handlers have returned and of the start of a process that is gone (the
deployment restarts its container). It assumes strong fairness of the sweeper's
turn and of each waiting request: the mutex is free again and again but not for
long, and Go's `sync.Mutex` hands itself over to a goroutine that has waited for
a millisecond, so that nobody who keeps waiting is passed over for ever.
Nothing is assumed about arrivals, operators, the drain timeout or faults;
faults are finitely many. `KafkaSpec` assumes weak fairness of the consumer
loop, of the sweeper and of the restart. `SearchSpec` assumes that the search is
executed.

## 5. Proofs

All for every set of legs, every rule setting, every bound, any number of
clients, any topic and any page size. Unless said otherwise, for every fault. The
hypothesis `"ambiguous" \notin Faults` says that no commit is answered with an
error; the run `ambiguous` shows that it cannot be dropped. What is assumed of
the constants are the assumptions of the modules, which TLC evaluates in the
runs.

The engine:

- `TypeCorrect`: `Spec => []TypeOK`. Inductive with `ControlOK`: an `Ingest`
  under way has a leg left, a replay reads between 1 and the end of the log.
  Rests on `FoundMatch`: whatever tier matches, the result is the incoming leg
  and at least one leg of the index.
- `IndexAlwaysMirrorsStore`, `MatchesAlwaysAgree` (with `NeverDoubleCounted`),
  `BreaksAlwaysAgree`: if `"ambiguous" \notin Faults`. The inductive invariant is
  `Agreement`. The three properties need each other: a match is made of legs of
  the index, which are open in the store only because the index mirrors it, and
  hence in no other match or break; a healed break gives up its leg only because
  breaks and legs agree. Two facts are added: open breaks name no resolver
  (`OpenBreaksUnattributed`, else resolving one could hide that its leg had
  left) and the legs a sweep still has to break are in the index (`DueIsOpen`).
- `OneOpenPerRefAlways`: no hypothesis on faults, because the decision to let a
  leg wait rests on the repository and not on the index.
- `LifecycleForward` (`LegsMoveForward`) and `ResolutionsAlwaysFinal`, if
  `"ambiguous" \notin Faults`, from `Agreement` and the fact that breaks are
  identified by their legs (`BreaksKeyed`).
- `LogAlwaysCoversStore`: the inductive invariant adds `IngestedSingly` (an
  arrival event names one leg) and `MemoryIsStored`: the index and the legs due
  to expire are stored legs. That the index may be wrong does not matter; that
  it may never name a leg the log has not heard of does.
- `EngineImplementsLedger`: `Spec => ImplementsLedger`, if
  `"ambiguous" \notin Faults`. The step lemma `NextSeen` shows that under
  `Agreement` and `BreaksKeyed` every action maps to an action of the ledger or
  a stutter. The link is `OpenWaits`: the legs the store calls open are exactly
  the ledger's `Waiting`, which is what entitles a tier to take legs from the
  index, and a sweep to give one up.
- `LedgerBalanced`: in the ledger every received leg is in one place.
  `EngineBalanced` carries it over to the engine through the refinement: no
  match shares a leg with another match or with a break that is not healed.

What the engine decides:

- `MatchesAlwaysSound`: every match obeys its tier, also when the index is wrong,
  because a tier judges the content of legs, which never changes. There is one
  lemma per tier and one for healing. Tier 3 needs that the subset search adds
  up what `TotalAmount` adds up: that a sum does not depend on the order of its
  terms is proved from a minimal counterexample (`MinimalSubset`), and that the
  orders of the search are strict and total from the assumptions.
- `NoMatchEverMissed`: the inductive invariant is that as long as nothing has
  failed, `Agreement` holds, no two unpaired legs are partners (`Partnerless`)
  and the legs of a break were not partners within their window
  (`BreaksApart`). It needs `Agreement` because a leg is found only if the index
  has it.
- `LabelsAlwaysJustified`: from `MemoryIsStored`; the legs a label refers to stay
  stored while the break exists, and a reset removes both.

Replay:

- `IngestedOnceAlways`: under `ReplaysComplete`, that is, without replays, or if
  all read the log from its start and none is cut short (lookups may fail). A
  replay from the middle, or one that ends early, leaves legs unstored that the
  log has heard of, and their next delivery announces them again. Inductive
  with `IngestedKnown`: a leg of the log is stored, or the replay has yet to reach
  it.
- `ReplayAlwaysRestoresLegs`, `ResolutionsAlwaysRestored`: of the audited engine,
  whatever failed before the replay. In `ReplayInv`, `SoFar` says that a replay
  from the start has restored the events behind its cursor; `Grounded`, that a
  resolution is later in the log than the arrivals of its legs, so that no break
  can be derived anew behind the resolution.

- `ReplayAlwaysReproduces`: if `"ambiguous" \notin Faults`, for every behaviour in
  which no sweep or close finds a leg to expire (`[]NothingExpires`; the run
  `replay_expiry` shows that this cannot be dropped). The argument gives the
  projections as what the log implies: `Derived(P, e)` is what one event makes of
  projections `P`, with `ingestOne` over `P` in place of the store (`Arrived`), and
  `Implies(log, n, P)` says that some sequence of projections leads in this way
  from blank ones over the first `n` events to `P`, the times of breaks left
  out. There is only one such `P`
  (`ImpliesOne`, from a least counterexample, since nothing can be proved by
  induction here). `IngestOneDerives` shows that a live and a replayed arrival
  both do what `Arrived` says when no lookup fails; this needs that the index
  mirrors the store, that breaks are identified by their legs, that the tiers
  give at most one match and that one leg is the oldest. The inductive
  invariant `LogImplied` then says: between replays the projections are what the
  whole log implies, unless a leg was decided on blindly or a replay was cut
  short; in a replay from the start they are what the events behind the cursor
  imply; and what a replay replaces is what the events it is to read imply. TLC
  checked the invariant on the instance of the run `replay` before it was proved.

The search:

- `SearchFindsFirst`, `SearchMissesOnlyOnBudget`: for every pool, target,
  tolerance, size and budget. The inductive invariant has two parts.
  `SearchShape`: the pool is sorted, the positions taken ascend, `remaining` is
  the target less the sum of what was taken. `AllAhead`: as long as there is
  budget, every solution is ahead of the search, that is, it extends the legs
  taken by legs not tried yet, or leaves one of them out and goes on with later
  legs. Pruning keeps it because a leg that is too big now is too big for every
  extension, amounts being positive (`TooBigIsFutile`); the cap on the size,
  because nothing longer is admissible (`FullIsFutile`). A solution the search
  stops at is therefore reached before all others, which is how `SubsetSum`
  defines its result.

Around the engine:

- `ServiceTypeCorrect`, `AcceptedIsAlwaysLogged`, `MirrorsAlwaysWhileServing`,
  `TablesAlwaysAgree`, `CloseAlwaysEmpties`, all from `ServiceInv` and for every
  fault: a posted leg is logged or still in the batch (`PostedPending`); the
  tables agree or an operation was misled, and the index mirrors the store or is
  stale (`Consistent`, with `Mirrored`); an operation that works on a stale index
  is marked as misled, or is about to reset it (`Marked`), which is why a lost
  acknowledgement, itself a step on an index that was right until then, leaves
  the tables in agreement; a close under way has every old leg on its list
  (`Closing`).
- `OnlyFailedBatchesAreLost`: `LoopAccounts` says for every phase of the loop up to
  which offset records are stored, undecodable or failed, and that the batch
  being ingested still holds the others. `Decoded` keeps every decodable record
  of a poll (`DecodedHoldsGood`).
- `ViewsAlwaysConsistent`, `ListingAlwaysComplete`, `StatsAlwaysOneSided`: if
  `"ambiguous" \notin Faults`, over `TablesOK` (`Agreement`, `BreaksKeyed`, healed
  breaks have one leg, matches have the size their rule allows). `ViewFits`: a
  leg read fits the row read before, because a row that is not open does not
  change any more and one that is can only lose its leg to a healing.
  `ListedOrAhead`: what there was when the listing began was listed or is at or
  behind the offset; positions number the rows from 0 without gaps, and a row
  only ever moves away from the start. `FiguresBelow`: the legs counted as
  matched fit into the matches of the tiers counted later, those into the rules,
  and the legs counted as broken into the breaks counted later. For the last,
  `BreaksSmall` says that no break has more than two legs, from
  `OneOpenPerRef`, and a set of legs that groups of two cover has at most twice
  as many legs as there are groups (`PairsCover`).

Only model-checked: the liveness properties (`DrainsUnlessStale`, `RequestsEnd`,
`ShutdownEnds`, `TopicDrains`, `SearchEnds`), since fairness is out of the
prover's reach. Every other property of the passing runs is stated by a theorem.

## 6. Not modelled

- Confidence scores and evidence of matches and breaks, hooks, metrics, logging,
  tracing: nothing reads them back. Nor are `matched_at` and `resolved_at`
  modelled; `opened_at` is, because listings are ordered by it.
- HTTP encoding, middleware, health checks, and the endpoints that are one read
  of one row or of one page of the immutable log (`GET /v1/legs/{id}`,
  `GET /v1/events`): an answer of one read cannot be torn. Readers whose
  queries fail get an error, except for a leg left out of a view.
- SQL text, connections, migrations, configuration, the load generator, and the
  memory source, which only tests and demos use.
- Between replicas, the lookups of a leg and its `Apply` are one step, although
  they are separate queries in the code; `Replicas` shows less contention than
  there can be. Two replicas of one consumer group during a rebalance are
  modelled as `Rebalance` of one.
- An acknowledgement lost during `ResetProjections`: the tables are empty and the
  index still holds the legs of before, with an `ingested_at` of their own, which
  the set of legs `index` does not carry. The process is `stale` then, and what
  it does is outside of what the properties of `Service` promise. One lost for
  `replay.started` ends the replay before anything else is written, and one lost for
  `window.closed` changes only the answer; the engine's memory is right in both
  cases.
- Integer overflow of `amount * bps` (the code computes it in floating point).

## 7. State of the plan

Done: rules, matcher, search, classifier, engine, ledger, replay audit, service,
readers, replicas, consumer loop; every safety, action and refinement property of
the passing runs proved; liveness model-checked. Worth doing next, were the
project to go on: the lookups of a leg as steps of their own in `Replicas`, an
unacknowledged reset, and readers whose queries fail.
