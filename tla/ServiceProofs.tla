--------------------------- MODULE ServiceProofs ---------------------------
(***************************************************************************)
(* The process around the engine keeps its promises to clients, for any    *)
(* number of them, and through every interleaving of requests, sweeper,    *)
(* SIGTERM, kills and restarts.                                            *)
(***************************************************************************)
EXTENDS Service, ReconEngineProofs

-----------------------------------------------------------------------------
(* The engine inside the service.                                          *)

\* What only the service does to the engine: SIGTERM cancels its operation,
\* or ends the process, or has merely been received.
Stopped ==
    /\ UNCHANGED <<store, now>>
    /\ \/ index' = index /\ Release("idle") /\ op # "down" /\ faults' = faults
       \/ index' = {} /\ Release("down") /\ faults' = faults
       \/ UNCHANGED <<index, control>> /\ faults' = faults + 1

\* Every step of the service is one of the engine or stops it.
LEMMA ServiceSteps ==
    ASSUME [ServiceNext]_svcVars
    PROVE  [Next]_vars \/ Stopped
<1>1. CASE \E c \in Client : Send(c) \/ PostInVain(c)
  BY <1>1 DEF Send, PostInVain
<1>2. ASSUME NEW c \in Client, PostLegs(c) PROVE Next
  BY <1>2 DEF PostLegs, Next
<1>3. ASSUME NEW c \in Client, PostReplay(c) PROVE Next
  BY <1>3 DEF PostReplay, Next
<1>4. ASSUME NEW c \in Client, PostClose(c) PROVE Next
  BY <1>4 DEF PostClose, CloseWindow, Next
<1>5. ASSUME NEW c \in Client, PostResolve(c) PROVE Next
  BY <1>5 DEF PostResolve, Next
<1>6. ASSUME NEW ack \in BOOLEAN, Transaction(ack) PROVE Next
  BY <1>6 DEF Transaction, Next
<1>7. CASE Cancel
  BY <1>7 DEF Cancel, Stopped, Operations
<1>8. CASE Fail \/ SweeperTurn \/ Killed \/ Start \/ Clock
  BY <1>8 DEF Fail, SweeperTurn, Killed, Start, Clock, Next
<1>9. CASE Terminate
  BY <1>9 DEF Terminate, Stopped
<1>10. CASE Drained \/ DrainTimeout
  BY <1>10 DEF Drained, DrainTimeout, Leave, Stopped
<1>11. CASE UNCHANGED svcVars
  BY <1>11 DEF svcVars
<1> QED
  BY <1>1, <1>2, <1>3, <1>4, <1>5, <1>6, <1>7, <1>8, <1>9, <1>10, <1>11
  DEF ServiceNext, Serve

\* What holds of the engine under any service.
EngineInv ==
    TypeOK /\ ControlOK /\ IngestedSingly /\ LogCoversStore /\ MemoryIsStored

\* It is kept, and nothing that is logged is taken back.
LEMMA ServiceKeepsEngine ==
    ASSUME EngineInv, [ServiceNext]_svcVars
    PROVE  EngineInv' /\ \A type, S : Logged(type, S) => Logged(type, S)'
<1> USE DEF EngineInv
<1>1. CASE [Next]_vars
  <2>1. EngineInv'
    BY <1>1, NextTyped, NextIngestedSingly, NextLogged
  <2>2. \A i \in DOMAIN log : i \in DOMAIN log' /\ log'[i] = log[i]
    BY <1>1, NextAppends DEF AppendsNoIngested, Announces
  <2> QED
    BY <2>1, <2>2 DEF Logged
<1>2. CASE Stopped
  <2>1. /\ UNCHANGED <<legs, matches, breaks, log>>
        /\ index' \in {index, {}} /\ faults' \in {faults, faults + 1}
        /\ \/ Release("idle") /\ index' = index
           \/ Release("down")
           \/ UNCHANGED <<op, todo, due, cursor, through, index>>
    BY <1>2 DEF Stopped, store, control
  <2>2. Stored' = Stored /\ \A type, S : Logged(type, S)' <=> Logged(type, S)
    BY <2>1 DEF Stored, Logged
  <2>3. IngestedSingly' /\ LogCoversStore'
    BY <2>1, <2>2 DEF IngestedSingly, LogCoversStore
  <2>4. TypeOK'
    <3>1. now' = now /\ faults' \in Nat /\ index' \subseteq Leg
      BY <1>2, <2>1 DEF Stopped, TypeOK
    <3>2. /\ op' \in Operations \cup {"idle", "down"} /\ due' \subseteq Leg
          /\ todo' \in Seq(Arrival) /\ cursor' \in Nat /\ through' \in Nat
      <4>1. <<>> \in Seq(Arrival)
        OBVIOUS
      <4>2. CASE Release("idle") \/ Release("down")
        <5>1. /\ op' \in {"idle", "down"} /\ todo' = <<>> /\ due' = {}
              /\ cursor' = 0 /\ through' = 0
          BY <4>2 DEF Release
        <5>2. todo' \in Seq(Arrival)
          BY <4>1, <5>1, Zenon
        <5> QED
          BY <5>1, <5>2
      <4>3. CASE UNCHANGED <<op, todo, due, cursor, through>>
        BY <4>3 DEF TypeOK
      <4> QED
        BY <2>1, <4>2, <4>3
    <3> QED
      BY <2>1, <3>1, <3>2 DEF TypeOK
  <2>5. ControlOK'
    BY <2>1 DEF Release, ControlOK
  <2>6. MemoryIsStored'
    BY <2>1, <2>2 DEF Release, MemoryIsStored
  <2> QED
    BY <2>2, <2>3, <2>4, <2>5, <2>6
<1> QED
  BY <1>1, <1>2, ServiceSteps

-----------------------------------------------------------------------------
(* Types, and who holds the mutex.                                         *)

\* An acknowledged answer takes the request off the engine.
LEMMA AnswerTyped ==
    ASSUME request \in [Client -> {"none", "waiting", "served"}],
           posted \subseteq Leg, accepted \in Accepted, NEW ok, Answer(ok)
    PROVE  /\ request' \in [Client -> {"none", "waiting", "served"}]
           /\ posted' = {} /\ accepted' \in Accepted
           /\ \A c \in Client : request'[c] # "served"
BY DEF Answer, Accepted

\* A request gets the mutex when nobody has it.
LEMMA AcquireTyped ==
    ASSUME request \in [Client -> {"none", "waiting", "served"}],
           \A c \in Client : request[c] # "served",
           NEW c \in Client, Acquire(c)
    PROVE  /\ request' \in [Client -> {"none", "waiting", "served"}]
           /\ \A d, e \in Client :
                 request'[d] = "served" /\ request'[e] = "served" => d = e
           /\ op' \in {"idle", "down"} => \A d \in Client : request'[d] # "served"
BY DEF Acquire, Operations

\* The age asked for and the history of the index keep their types.
LEMMA ServiceKeepsHistory ==
    ASSUME ServiceTypeOK, [ServiceNext]_svcVars
    PROVE  asked' \in Nat /\ stale' \in BOOLEAN /\ misled' \in BOOLEAN
<1>h. asked \in Nat /\ stale \in BOOLEAN /\ misled \in BOOLEAN
  BY DEF ServiceTypeOK
<1>1. ASSUME NEW c \in Client, PostClose(c)
      PROVE  asked' \in Nat /\ stale' \in BOOLEAN /\ misled' \in BOOLEAN
  BY <1>h, <1>1, EngineAssumption DEF PostClose, ReadsIndex
<1>2. ASSUME NEW c \in Client,
             Send(c) \/ PostLegs(c) \/ PostReplay(c) \/ PostResolve(c) \/ PostInVain(c)
      PROVE  asked' \in Nat /\ stale' \in BOOLEAN /\ misled' \in BOOLEAN
  BY <1>h, <1>2 DEF Send, PostLegs, PostReplay, PostResolve, PostInVain, ReadsIndex, trust
<1>3. ASSUME NEW ack \in BOOLEAN, Transaction(ack)
      PROVE  asked' \in Nat /\ stale' \in BOOLEAN /\ misled' \in BOOLEAN
  BY <1>h, <1>3 DEF Transaction
<1>4. CASE Cancel \/ Fail \/ SweeperTurn \/ Terminate \/ Start \/ Clock
  BY <1>h, <1>4 DEF Cancel, Fail, SweeperTurn, ReadsIndex, Terminate, Start, Clock, trust
<1>5. CASE Drained \/ DrainTimeout \/ Killed
  BY <1>h, <1>5 DEF Drained, DrainTimeout, Leave, Killed, ProcessGone
<1>6. CASE UNCHANGED svcVars
  BY <1>h, <1>6 DEF svcVars, trust
<1> QED
  BY <1>1, <1>2, <1>3, <1>4, <1>5, <1>6 DEF ServiceNext, Serve

\* Every step keeps the types and the mutual exclusion of requests.
LEMMA ServiceKeepsTypes ==
    ASSUME EngineInv, ServiceTypeOK, [ServiceNext]_svcVars
    PROVE  ServiceTypeOK'
<1>t. TypeOK' /\ TypeOK
  BY ServiceKeepsEngine DEF EngineInv
<1>s. /\ request \in [Client -> {"none", "waiting", "served"}]
      /\ posted \subseteq Leg /\ asked \in Nat
      /\ stopping \in BOOLEAN /\ inflight \in BOOLEAN
      /\ accepted \in Accepted
      /\ \A c, d \in Client : request[c] = "served" /\ request[d] = "served" => c = d
      /\ op \in {"idle", "down"} => \A c \in Client : request[c] # "served"
  BY DEF ServiceTypeOK
<1>h. asked' \in Nat /\ stale' \in BOOLEAN /\ misled' \in BOOLEAN
  BY ServiceKeepsHistory
<1>u. ASSUME UNCHANGED <<request, posted, accepted>>, stopping' \in BOOLEAN,
             inflight' \in BOOLEAN,
             op' \in {"idle", "down"} => op \in {"idle", "down"}
      PROVE  ServiceTypeOK'
  BY <1>t, <1>s, <1>h, <1>u DEF ServiceTypeOK
<1>a. ASSUME NEW c \in Client, Acquire(c), op = "idle",
             posted' \subseteq Leg, accepted' \in Accepted
      PROVE  ServiceTypeOK'
  <2>1. UNCHANGED <<stopping, inflight>>
    BY <1>a DEF Acquire
  <2> QED
    BY <1>t, <1>s, <1>h, <1>a, <2>1, AcquireTyped DEF ServiceTypeOK
<1>b. ASSUME NEW ok, Answer(ok), stopping' \in BOOLEAN, inflight' \in BOOLEAN
      PROVE  ServiceTypeOK'
  BY <1>t, <1>s, <1>h, <1>b, AnswerTyped DEF ServiceTypeOK
<1>1. ASSUME NEW c \in Client, Send(c) PROVE ServiceTypeOK'
  BY <1>t, <1>s, <1>h, <1>1 DEF Send, vars, ServiceTypeOK
<1>2. ASSUME NEW c \in Client, PostLegs(c) PROVE ServiceTypeOK'
  <2>1. PICK batch \in Batches :
          Ingest(batch) /\ posted' = {batch[i].leg : i \in DOMAIN batch}
    BY <1>2 DEF PostLegs
  <2>2. \A i \in DOMAIN batch : batch[i].leg \in Leg
    <3>1. PICK n \in 1..MaxBatch : batch \in [1..n -> Arrivals]
      BY DEF Batches
    <3> QED
      BY <3>1 DEF Arrivals
  <2> QED
    BY <1>2, <1>s, <1>a, <2>1, <2>2 DEF PostLegs, Ingest
<1>3. ASSUME NEW c \in Client, PostReplay(c) \/ PostClose(c) \/ PostInVain(c)
      PROVE  ServiceTypeOK'
  <2>1. Acquire(c) /\ op = "idle" /\ UNCHANGED <<posted, accepted>>
    BY <1>3 DEF PostReplay, PostClose, PostInVain, Replay, Expire
  <2> QED
    BY <1>s, <1>a, <2>1
<1>4. ASSUME NEW c \in Client, PostResolve(c) PROVE ServiceTypeOK'
  <2>1. PICK b \in breaks, told \in BOOLEAN :
          /\ ResolveBreak(b)
          /\ accepted' = IF told THEN [accepted EXCEPT !.resolved = @ \cup {b.legs}]
                         ELSE accepted
    BY <1>4 DEF PostResolve
  <2>2. b.legs \in SUBSET Leg
    BY <1>t DEF TypeOK, Break
  <2>3. accepted' \in Accepted
    BY <1>s, <2>1, <2>2 DEF Accepted
  <2>4. Acquire(c) /\ op = "idle" /\ posted' = posted
    BY <1>4, <2>1 DEF PostResolve, ResolveBreak
  <2> QED
    BY <1>s, <1>a, <2>3, <2>4
<1>5. ASSUME NEW ack \in BOOLEAN, Transaction(ack) PROVE ServiceTypeOK'
  <2>1. stopping' \in BOOLEAN /\ inflight' \in BOOLEAN
    BY <1>5, <1>s DEF Transaction
  <2>2. CASE op' = "idle"
    BY <1>5, <1>b, <2>1, <2>2 DEF Transaction
  <2>3. CASE op' # "idle"
    <3>1. op' # "down"
      <4>1. \/ IngestStep(ack) \/ ExpireStep(ack) \/ ReplayStep(ack)
            \/ WindowClosed \/ ReplayReset
        BY <1>5 DEF Transaction
      <4>2. CASE IngestStep(ack)
        BY <4>2 DEF IngestStep, Release
      <4>3. CASE ExpireStep(ack)
        BY <4>3 DEF ExpireStep, Release
      <4>4. CASE ReplayStep(ack)
        BY <4>4 DEF ReplayStep, Release
      <4>5. CASE WindowClosed \/ ReplayReset
        BY <4>5 DEF WindowClosed, ReplayReset, Release
      <4> QED
        BY <4>1, <4>2, <4>3, <4>4, <4>5
    <3>2. UNCHANGED <<request, posted, accepted>>
      BY <1>5, <2>3 DEF Transaction
    <3> QED
      BY <1>u, <2>1, <2>3, <3>1, <3>2
  <2> QED
    BY <2>2, <2>3
<1>6. CASE Cancel
  BY <1>6, <1>s, <1>b DEF Cancel
<1>7. CASE Fail
  BY <1>7, <1>s, <1>b DEF Fail
<1>8. CASE SweeperTurn
  BY <1>8, <1>s, <1>u DEF SweeperTurn, Sweep, Expire
<1>9. CASE Terminate
  BY <1>9, <1>s, <1>u DEF Terminate, control
<1>10. CASE Drained \/ DrainTimeout \/ Killed
  <2>1. ProcessGone /\ stopping' \in {stopping, FALSE}
    BY <1>10 DEF Drained, DrainTimeout, Leave, Killed
  <2> QED
    BY <1>t, <1>s, <1>h, <2>1 DEF ProcessGone, ServiceTypeOK
<1>11. CASE Start
  BY <1>11, <1>s, <1>u DEF Start, Rebuild
<1>12. CASE Clock
  BY <1>12, <1>s, <1>u DEF Clock, Tick, control
<1>13. CASE UNCHANGED svcVars
  BY <1>13, <1>s, <1>u DEF svcVars, vars
<1> QED
  BY <1>1, <1>2, <1>3, <1>4, <1>5, <1>6, <1>7, <1>8, <1>9, <1>10, <1>11, <1>12,
     <1>13 DEF ServiceNext, Serve

-----------------------------------------------------------------------------
(* What clients are told.                                                  *)

\* The legs of the batch in hand are logged or still to be ingested.
PostedPending ==
    \A l \in posted :
        \/ Logged("leg.ingested", {l})
        \/ op = "ingest" /\ \E j \in DOMAIN todo : todo[j].leg = l

\* One leg of a batch is logged; a batch that is done was done to its last leg.
LEMMA IngestStepLogs ==
    ASSUME EngineInv, EngineInv', \A type, S : Logged(type, S) => Logged(type, S)',
           PostedPending, posted \subseteq Leg, NEW ack \in BOOLEAN, IngestStep(ack)
    PROVE  /\ op' \in {"ingest", "idle"}
           /\ op' = "ingest" \/ ack =>
                 \A l \in posted :
                    \/ Logged("leg.ingested", {l})'
                    \/ op' = "ingest" /\ \E j \in DOMAIN todo' : todo'[j].leg = l
<1>1. todo \in Seq(Arrival) /\ todo # <<>> /\ op = "ingest"
  BY DEF IngestStep, EngineInv, TypeOK, ControlOK
<1>2. Head(todo) \in Arrival
  BY <1>1
<1>3. Head(todo).leg \in Leg /\ StoreTyped
  BY <1>2 DEF Arrival, EngineInv, TypeOK, StoreTyped
<1>4. Head(todo).leg \in Stored'
  BY <1>3, IngestOneStores DEF IngestStep
<1>5. \A l : l = Head(todo).leg => Logged("leg.ingested", {l})'
  BY <1>4 DEF EngineInv, LogCoversStore
<1>6. IF ack /\ Len(todo) > 1
      THEN /\ todo' = Tail(todo)
           /\ UNCHANGED <<op, due, cursor, through>>
      ELSE Release("idle")
  BY DEF IngestStep
<1>7. CASE ack /\ Len(todo) > 1
  <2>1. todo' = Tail(todo) /\ op' = "ingest"
    BY <1>1, <1>6, <1>7
  <2>2. \A j \in DOMAIN todo :
           j = 1 \/ (j - 1 \in DOMAIN todo' /\ todo'[j - 1] = todo[j])
    BY <1>1, <2>1
  <2>3. \A j \in DOMAIN todo : todo[j] = Head(todo) \/ \E k \in DOMAIN todo' : todo'[k] = todo[j]
    BY <1>1, <2>2
  <2> QED
    BY <1>5, <2>1, <2>3 DEF PostedPending
<1>8. CASE ack /\ ~(Len(todo) > 1)
  <2>1. op' = "idle"
    BY <1>6, <1>8 DEF Release
  <2>2. \A j \in DOMAIN todo : todo[j] = Head(todo)
    BY <1>1, <1>8
  <2> QED
    BY <1>5, <2>1, <2>2 DEF PostedPending
<1>9. CASE ~ack
  BY <1>6, <1>9 DEF Release
<1> QED
  BY <1>7, <1>8, <1>9

\* Clients are told of nothing that is not logged.
LEMMA ServiceKeepsWord ==
    ASSUME EngineInv, ServiceTypeOK, PostedPending, AcceptedIsLogged,
           [ServiceNext]_svcVars
    PROVE  PostedPending' /\ AcceptedIsLogged'
<1>e. EngineInv' /\ \A type, S : Logged(type, S) => Logged(type, S)'
  BY ServiceKeepsEngine
<1>s. posted \subseteq Leg /\ accepted \in Accepted
  BY DEF ServiceTypeOK
<1>k. accepted' = accepted => AcceptedIsLogged'
  BY <1>e DEF AcceptedIsLogged
<1>n. posted' = {} => PostedPending'
  BY DEF PostedPending
<1>u. ASSUME UNCHANGED <<posted, accepted>>, op = "ingest" => UNCHANGED <<op, todo>>
      PROVE  PostedPending' /\ AcceptedIsLogged'
  BY <1>e, <1>k, <1>u DEF PostedPending
<1>b. ASSUME NEW ack \in BOOLEAN, Answer(ack),
             ack => \A l \in posted : Logged("leg.ingested", {l})'
      PROVE  PostedPending' /\ AcceptedIsLogged'
  <2>1. posted' = {}
    BY <1>b DEF Answer
  <2>2. CASE ack
    <3>1. /\ accepted'.legs = accepted.legs \cup posted
          /\ accepted'.resolved = accepted.resolved
      BY <1>b, <1>s, <2>2 DEF Answer, Accepted
    <3> QED
      BY <1>b, <1>e, <1>n, <2>1, <2>2, <3>1 DEF AcceptedIsLogged
  <2>3. CASE ~ack
    BY <1>b, <1>k, <1>n, <2>1, <2>3 DEF Answer
  <2> QED
    BY <2>2, <2>3
<1>1. ASSUME NEW c \in Client, PostLegs(c) PROVE PostedPending' /\ AcceptedIsLogged'
  <2>1. PICK batch \in Batches :
          Ingest(batch) /\ posted' = {batch[i].leg : i \in DOMAIN batch}
    BY <1>1 DEF PostLegs
  <2>2. op' = "ingest" /\ todo' = batch /\ accepted' = accepted
    BY <1>1, <2>1 DEF Ingest, PostLegs
  <2> QED
    BY <1>k, <2>1, <2>2 DEF PostedPending
<1>2. ASSUME NEW c \in Client, PostResolve(c) PROVE PostedPending' /\ AcceptedIsLogged'
  <2>1. PICK b \in breaks, told \in BOOLEAN :
          /\ ResolveBreak(b)
          /\ accepted' = IF told THEN [accepted EXCEPT !.resolved = @ \cup {b.legs}]
                         ELSE accepted
    BY <1>2 DEF PostResolve
  <2>2. b.legs \subseteq Leg /\ log \in Seq(Event)
    BY DEF EngineInv, TypeOK, Break
  <2>3. /\ ResolvedEv(b.legs, {}) \in Event
        /\ ResolvedEv(b.legs, {}).type = "break.resolved"
        /\ ResolvedEv(b.legs, {}).legs = b.legs
    BY <2>2 DEF ResolvedEv, Ev, Event, EventTypes
  <2>4. Logged("break.resolved", b.legs)'
    BY <2>1, <2>2, <2>3, AppendedOne DEF ResolveBreak
  <2>5. accepted'.legs = accepted.legs /\ accepted'.resolved \subseteq accepted.resolved \cup {b.legs}
    BY <1>s, <2>1 DEF Accepted
  <2>6. op = "idle" /\ posted' = posted
    BY <1>2, <2>1 DEF PostResolve, ResolveBreak
  <2> QED
    BY <1>e, <2>4, <2>5, <2>6 DEF AcceptedIsLogged, PostedPending
<1>3. ASSUME NEW c \in Client, Send(c) \/ PostReplay(c) \/ PostClose(c) \/ PostInVain(c)
      PROVE  PostedPending' /\ AcceptedIsLogged'
  <2>1. UNCHANGED <<posted, accepted>> /\ (op = "ingest" => UNCHANGED <<op, todo>>)
    BY <1>3 DEF Send, PostReplay, PostClose, PostInVain, Replay, Expire, vars
  <2> QED
    BY <1>u, <2>1
<1>4. ASSUME NEW ack \in BOOLEAN, Transaction(ack) PROVE PostedPending' /\ AcceptedIsLogged'
  <2>1. IF op' = "idle" THEN Answer(ack) ELSE UNCHANGED <<request, posted, accepted>>
    BY <1>4 DEF Transaction
  <2>2. CASE IngestStep(ack)
    <3>1. /\ op' \in {"ingest", "idle"}
          /\ op' = "ingest" \/ ack =>
                \A l \in posted :
                   \/ Logged("leg.ingested", {l})'
                   \/ op' = "ingest" /\ \E j \in DOMAIN todo' : todo'[j].leg = l
      BY <1>e, <1>s, <2>2, IngestStepLogs
    <3>2. CASE op' = "idle"
      BY <1>b, <2>1, <3>1, <3>2
    <3>3. CASE op' = "ingest"
      BY <1>k, <2>1, <3>1, <3>3 DEF PostedPending
    <3> QED
      BY <3>1, <3>2, <3>3
  <2>3. CASE op # "ingest"
    <3>1. \A l \in posted : Logged("leg.ingested", {l})'
      BY <1>e, <2>3 DEF PostedPending
    <3>2. CASE op' = "idle"
      BY <1>b, <2>1, <3>1, <3>2
    <3>3. CASE op' # "idle"
      BY <1>k, <2>1, <3>1, <3>3 DEF PostedPending
    <3> QED
      BY <3>2, <3>3
  <2>4. IngestStep(ack) \/ op # "ingest"
    BY <1>4 DEF Transaction, ExpireStep, ReplayStep, WindowClosed, ReplayReset
  <2> QED
    BY <2>2, <2>3, <2>4
<1>5. CASE Cancel \/ Fail
  <2>1. Answer(FALSE)
    BY <1>5 DEF Cancel, Fail
  <2> QED
    BY <1>b, <2>1
<1>6. CASE SweeperTurn \/ Terminate \/ Start \/ Clock
  <2>1. UNCHANGED <<posted, accepted>> /\ (op = "ingest" => UNCHANGED <<op, todo>>)
    BY <1>6 DEF SweeperTurn, Sweep, Expire, Terminate, Start, Rebuild, Clock, Tick, control
  <2> QED
    BY <1>u, <2>1
<1>7. CASE Drained \/ DrainTimeout \/ Killed
  <2>1. posted' = {} /\ accepted' = accepted
    BY <1>7 DEF Drained, DrainTimeout, Leave, Killed, ProcessGone
  <2> QED
    BY <1>k, <1>n, <2>1
<1>8. CASE UNCHANGED svcVars
  BY <1>8, <1>u DEF svcVars, vars
<1> QED
  BY <1>1, <1>2, <1>3, <1>4, <1>5, <1>6, <1>7, <1>8 DEF ServiceNext, Serve

-----------------------------------------------------------------------------
(* Memory and store.                                                       *)

\* The index is the set of open legs unless it is stale.
Mirrored == op = "down" \/ stale \/ index = OpenLegs

\* No operation but the beginning of a replay is under way on a stale index
\* without leaving its mark.
Marked == stale /\ op \in Operations => misled \/ op = "reset"

\* The store, the index and the legs due to expire agree.
Consistent == (misled \/ StoreAgrees) /\ Mirrored /\ Marked /\ DueIsOpen

\* One leg keeps the index in step with the store, whether or not the tables
\* agree, unless the acknowledgement is lost.
LEMMA IngestOneMirrors ==
    ASSUME StoreTyped, index = OpenLegs,
           NEW l \in Leg, NEW t, NEW live, NEW blind, NEW lost,
           IngestOne(l, t, live, blind, lost, TRUE)
    PROVE  index' = OpenLegs'
<1>0. PICK found, healable :
        \/ DropRedelivery(l, live)
        \/ BreakReusedRef(l, t, live)
        \/ /\ Fresh(l) /\ found = Found(l, blind) /\ healable = Healable(l, lost)
           /\ \/ MatchOpen(l, t, live, found, TRUE)
              \/ BreakOpenPartner(l, t, live, found, TRUE)
              \/ HealLateArrival(l, t, live, found, healable)
              \/ BreakKnownRef(l, t, live, found, healable)
              \/ WaitInWindow(l, t, live, found, TRUE)
  BY Zenon DEF IngestOne
<1>1. CASE DropRedelivery(l, live)
  BY <1>1 DEF DropRedelivery, OpenLegs
<1>2. ASSUME NEW trigger, ~HasLeg(l), UNCHANGED index,
             OpenBreak({l}, trigger, l, t, Announce(l, t, live))
      PROVE  index' = OpenLegs'
  <2>1. SetLegs({l}, "break", {}, {l}, l, t)
    BY <1>2 DEF OpenBreak
  <2>2. OpenLegs' = OpenLegs \ {l}
    BY <2>1, SetLegsCloses
  <2> QED
    BY <1>2, <2>2, FreshLeg
<1>3. CASE BreakReusedRef(l, t, live)
  BY <1>2, <1>3 DEF BreakReusedRef
<1>4. CASE MatchOpen(l, t, live, found, TRUE)
  <2>1. PICK m \in found : SetLegs(m.legs, "matched", m.legs, {}, l, t)
                           /\ index' = index \ m.legs
    BY <1>4 DEF MatchOpen, Reindex
  <2> QED
    BY <2>1, SetLegsCloses
<1>5. CASE Fresh(l) /\ BreakOpenPartner(l, t, live, found, TRUE)
  <2>1. PICK partners : partners = ByRef(l, index)
    OBVIOUS
  <2>2. /\ SetLegs({l} \cup partners, "break", {}, {l} \cup partners, l, t)
        /\ index' = index \ partners /\ l \notin OpenLegs
    BY <1>5, <2>1, FreshLeg DEF BreakOpenPartner, OpenBreak, Reindex, Fresh
  <2> QED
    BY <2>2, SetLegsCloses
<1>6. CASE /\ Fresh(l) /\ healable = Healable(l, lost)
           /\ HealLateArrival(l, t, live, found, healable)
  <2>1. PICK r \in healable : SetLegs({l, r}, "matched", {l, r}, {}, l, t)
                              /\ index' = index
    BY <1>6 DEF HealLateArrival
  <2>2. r \notin OpenLegs /\ l \notin OpenLegs
    BY <1>6, <2>1, FreshLeg DEF Healable, OpenLegs, Fresh
  <2> QED
    BY <2>1, <2>2, SetLegsCloses
<1>7. CASE Fresh(l) /\ BreakKnownRef(l, t, live, found, healable)
  BY <1>2, <1>7 DEF BreakKnownRef, Fresh
<1>8. CASE WaitInWindow(l, t, live, found, TRUE)
  <2>1. index' = index \cup {l}
    BY <1>8 DEF WaitInWindow, Reindex
  <2>2. \A x \in Leg : /\ x = l => legs'[x].status = "open"
                       /\ x # l => legs'[x] = legs[x]
    BY <1>8, SetLegsEffect DEF WaitInWindow
  <2> QED
    BY <2>1, <2>2 DEF OpenLegs
<1> QED
  BY <1>0, <1>1, <1>3, <1>4, <1>5, <1>6, <1>7, <1>8

\* The legs due are open, whatever was acknowledged.
LEMMA TransactionDue ==
    ASSUME DueIsOpen, NEW ack \in BOOLEAN,
           \/ IngestStep(ack) \/ ExpireStep(ack) \/ ReplayStep(ack)
           \/ WindowClosed \/ ReplayReset
    PROVE  DueIsOpen'
<1>1. CASE IngestStep(ack)
  BY <1>1 DEF IngestStep, Release, DueIsOpen
<1>2. CASE ExpireStep(ack)
  <2>1. PICK l \in First(due) :
          /\ Reindex(index \ {l}, ack)
          /\ IF ack /\ (op = "close" \/ due # {l})
             THEN due' = due \ {l} /\ UNCHANGED <<op, todo, cursor, through>>
             ELSE Release("idle")
    BY <1>2 DEF ExpireStep
  <2>2. CASE ack /\ (op = "close" \/ due # {l})
    BY <2>1, <2>2 DEF DueIsOpen, Reindex
  <2>3. CASE ~(ack /\ (op = "close" \/ due # {l}))
    BY <2>1, <2>3 DEF DueIsOpen, Release
  <2> QED
    BY <2>2, <2>3
<1>3. CASE ReplayStep(ack)
  BY <1>3 DEF ReplayStep, Release, DueIsOpen
<1>4. CASE WindowClosed \/ ReplayReset
  BY <1>4 DEF WindowClosed, ReplayReset, Release, DueIsOpen
<1> QED
  BY <1>1, <1>2, <1>3, <1>4

\* An acknowledged transaction keeps the index in step with the store; the
\* reset of a replay puts it in step.
LEMMA TransactionMirrors ==
    ASSUME EngineInv, op # "reset" => index = OpenLegs,
           \/ IngestStep(TRUE) \/ ExpireStep(TRUE) \/ ReplayStep(TRUE)
           \/ WindowClosed \/ ReplayReset
    PROVE  index' = OpenLegs'
<1>t. TypeOK /\ ControlOK /\ StoreTyped
  BY DEF EngineInv, TypeOK, StoreTyped
<1>1. CASE IngestStep(TRUE)
  <2>1. todo \in Seq(Arrival) /\ todo # <<>>
    BY <1>t, <1>1 DEF IngestStep, TypeOK, ControlOK
  <2>2. Head(todo) \in Arrival
    BY <2>1
  <2>3. Head(todo).leg \in Leg
    BY <2>2 DEF Arrival
  <2> QED
    BY <1>t, <1>1, <2>3, IngestOneMirrors DEF IngestStep
<1>2. CASE ExpireStep(TRUE)
  <2>1. PICK l \in First(due) :
          /\ OpenBreak({l}, "window_expired", l, legs[l].at, <<Ev("leg.expired", {l})>>)
          /\ Reindex(index \ {l}, TRUE)
    BY <1>2 DEF ExpireStep
  <2>2. op # "reset"
    BY <1>2 DEF ExpireStep
  <2> QED
    BY <2>1, <2>2, SetLegsCloses DEF OpenBreak, Reindex
<1>3. CASE ReplayStep(TRUE)
  <2>1. log[cursor] \in Event
    BY <1>t, <1>3 DEF ReplayStep, TypeOK, ControlOK
  <2>2. PICK e : e = log[cursor]
    OBVIOUS
  <2>3. e.legs \subseteq Leg
    BY <2>1, <2>2 DEF Event
  <2>4. \/ \E l \in e.legs : \E blind, lost : IngestOne(l, e.at, FALSE, blind, lost, TRUE)
        \/ \E blind : ReapplyResolution(e, blind)
        \/ UNCHANGED <<store, index>>
    BY <1>3, <2>2, Zenon DEF ReplayStep
  <2>5. index = OpenLegs
    BY <1>3 DEF ReplayStep
  <2>6. CASE \E l \in e.legs : \E blind, lost : IngestOne(l, e.at, FALSE, blind, lost, TRUE)
    BY <1>t, <2>3, <2>5, <2>6, IngestOneMirrors
  <2>7. CASE (\E blind : ReapplyResolution(e, blind)) \/ UNCHANGED <<store, index>>
    BY <2>5, <2>7 DEF ReapplyResolution, store, OpenLegs
  <2> QED
    BY <2>4, <2>6, <2>7
<1>4. CASE WindowClosed
  BY <1>4 DEF WindowClosed, OpenLegs
<1>5. CASE ReplayReset
  BY <1>5 DEF ReplayReset, Absent, OpenLegs
<1> QED
  BY <1>1, <1>2, <1>3, <1>4, <1>5

\* A transaction on an index in step with the store keeps the tables in
\* agreement, acknowledged or not; the reset of a replay empties them.
LEMMA TransactionAgrees ==
    ASSUME EngineInv, DueIsOpen, NEW ack \in BOOLEAN,
           op # "reset" => StoreAgrees /\ index = OpenLegs,
           \/ IngestStep(ack) \/ ExpireStep(ack) \/ ReplayStep(ack)
           \/ WindowClosed \/ ReplayReset
    PROVE  StoreAgrees'
<1>t. TypeOK /\ ControlOK /\ StoreTyped
  BY DEF EngineInv, TypeOK, StoreTyped
<1>1. CASE IngestStep(ack)
  <2>1. todo \in Seq(Arrival) /\ todo # <<>>
    BY <1>t, <1>1 DEF IngestStep, TypeOK, ControlOK
  <2>2. Head(todo) \in Arrival
    BY <2>1
  <2>3. Head(todo).leg \in Leg
    BY <2>2 DEF Arrival
  <2> QED
    BY <1>t, <1>1, <2>3, IngestOneAgrees DEF IngestStep
<1>2. CASE ExpireStep(ack)
  <2>1. PICK l \in First(due) :
          OpenBreak({l}, "window_expired", l, legs[l].at, <<Ev("leg.expired", {l})>>)
    BY <1>2 DEF ExpireStep
  <2>2. due \subseteq index /\ index = OpenLegs /\ StoreAgrees
    BY <1>2 DEF ExpireStep, DueIsOpen
  <2>3. l \in Leg /\ legs[l].status = "open"
    BY <2>2 DEF First, OpenLegs
  <2> QED
    BY <1>t, <2>1, <2>2, <2>3, OpenBreakAgrees
<1>3. CASE ReplayStep(ack)
  <2>1. log[cursor] \in Event
    BY <1>t, <1>3 DEF ReplayStep, TypeOK, ControlOK
  <2>2. PICK e : e = log[cursor]
    OBVIOUS
  <2>3. e.legs \subseteq Leg
    BY <2>1, <2>2 DEF Event
  <2>4. \/ \E l \in e.legs : \E blind, lost : IngestOne(l, e.at, FALSE, blind, lost, ack)
        \/ \E blind : ReapplyResolution(e, blind)
        \/ UNCHANGED <<store, index>>
    BY <1>3, <2>2, Zenon DEF ReplayStep
  <2>5. StoreAgrees /\ index = OpenLegs
    BY <1>3 DEF ReplayStep
  <2>6. CASE \E l \in e.legs : \E blind, lost : IngestOne(l, e.at, FALSE, blind, lost, ack)
    BY <1>t, <2>3, <2>5, <2>6, IngestOneAgrees
  <2>7. CASE \E blind : ReapplyResolution(e, blind)
    BY <1>t, <2>5, <2>7, ReapplyAgrees
  <2>8. CASE UNCHANGED <<store, index>>
    BY <2>5, <2>8
    DEF store, StoreAgrees, MatchesAgree, NeverDoubleCounted, BreaksAgree,
        OpenBreaksUnattributed
  <2> QED
    BY <2>4, <2>6, <2>7, <2>8
<1>4. CASE WindowClosed
  BY <1>4 DEF WindowClosed, StoreAgrees, MatchesAgree, NeverDoubleCounted,
              BreaksAgree, OpenBreaksUnattributed
<1>5. CASE ReplayReset
  <2>1. /\ \A l \in Leg : legs'[l].status = "absent"
        /\ matches' = {} /\ breaks' = {}
    BY <1>5 DEF ReplayReset, Absent
  <2> QED
    BY <2>1 DEF StoreAgrees, MatchesAgree, NeverDoubleCounted, BreaksAgree,
                OpenBreaksUnattributed
<1> QED
  BY <1>1, <1>2, <1>3, <1>4, <1>5

\* Every step keeps store, index and due legs in agreement, as far as its marks
\* do not say otherwise.
LEMMA ServiceAgrees ==
    ASSUME EngineInv, ServiceTypeOK, Consistent, [ServiceNext]_svcVars
    PROVE  Consistent'
<1>b. stale \in BOOLEAN /\ misled \in BOOLEAN
  BY DEF ServiceTypeOK
<1>s. ASSUME UNCHANGED <<legs, matches, breaks>>
      PROVE  (StoreAgrees => StoreAgrees') /\ OpenLegs' = OpenLegs
  BY <1>s DEF StoreAgrees, MatchesAgree, NeverDoubleCounted, BreaksAgree,
              OpenBreaksUnattributed, OpenLegs
\* Steps that leave store, index and marks alone.
<1>u. ASSUME UNCHANGED <<legs, matches, breaks, index, trust>>, op # "down",
             \/ UNCHANGED <<op, due>>
             \/ op' \in {"idle", "reset"}
      PROVE  Consistent'
  BY <1>s, <1>u DEF Consistent, Mirrored, Marked, DueIsOpen, trust, Operations
<1>d. ASSUME UNCHANGED <<legs, matches, breaks, misled>>, op' = "down"
      PROVE  Consistent'
  BY <1>s, <1>d DEF Consistent, Mirrored, Marked, DueIsOpen, Operations
\* Operations that read the index.
<1>r. ASSUME UNCHANGED <<legs, matches, breaks, index>>, op = "idle", ReadsIndex,
             op' \in {"sweep", "close"} => due' \subseteq index
      PROVE  Consistent'
  <2>1. stale' = stale /\ (misled => misled') /\ (stale /\ op' \in Operations => misled')
    BY <1>b, <1>r DEF ReadsIndex
  <2>2. index = OpenLegs \/ stale
    BY <1>r DEF Consistent, Mirrored
  <2> QED
    BY <1>s, <1>r, <2>1, <2>2 DEF Consistent, Mirrored, Marked, DueIsOpen
<1>x. ASSUME NEW kind \in {"sweep", "close"}, NEW age, Expire(kind, age), ReadsIndex
      PROVE  Consistent'
  BY <1>r, <1>x DEF Expire, Expired, store
<1>1. ASSUME NEW c \in Client, Send(c) \/ PostInVain(c) PROVE Consistent'
  <2>1. UNCHANGED <<vars, trust>> /\ op # "down"
    BY <1>1 DEF Send, PostInVain, Acquire
  <2> QED
    BY <1>u, <2>1 DEF vars
<1>2. ASSUME NEW c \in Client, PostLegs(c) PROVE Consistent'
  BY <1>2, <1>r DEF PostLegs, Ingest, store
<1>3. ASSUME NEW c \in Client, PostReplay(c) PROVE Consistent'
  BY <1>3, <1>u DEF PostReplay, Replay
<1>4. ASSUME NEW c \in Client, PostClose(c) PROVE Consistent'
  BY <1>4, <1>x DEF PostClose
<1>5. ASSUME NEW c \in Client, PostResolve(c) PROVE Consistent'
  <2>1. PICK b \in breaks : ResolveBreak(b)
    BY <1>5 DEF PostResolve
  <2>2. /\ op = "idle" /\ b.status = "open"
        /\ PutBreak([b EXCEPT !.status = "resolved", !.actor = "operator"])
        /\ UNCHANGED <<legs, matches, index, op>>
    BY <2>1 DEF ResolveBreak, control
  <2>3. StoreAgrees => StoreAgrees'
    BY <2>2, ResolveAgrees DEF EngineInv, TypeOK, StoreTyped
  <2>4. UNCHANGED trust
    BY <1>5 DEF PostResolve
  <2> QED
    BY <2>2, <2>3, <2>4
    DEF Consistent, Mirrored, Marked, DueIsOpen, OpenLegs, trust, Operations
<1>6. ASSUME NEW ack \in BOOLEAN, Transaction(ack) PROVE Consistent'
  <2>1. /\ \/ IngestStep(ack) \/ ExpireStep(ack) \/ ReplayStep(ack)
           \/ WindowClosed \/ ReplayReset
        /\ stale' = (~ack \/ (stale /\ op # "reset"))
        /\ misled' = (misled /\ op # "reset")
    BY <1>6 DEF Transaction
  <2>2. op \in Operations
    BY <2>1 DEF IngestStep, ExpireStep, ReplayStep, WindowClosed, ReplayReset, Operations
  <2>3. DueIsOpen'
    BY <2>1, TransactionDue DEF Consistent
  <2>4. misled' \/ StoreAgrees'
    <3>1. CASE misled'
      BY <3>1
    <3>2. CASE ~misled'
      <4>1. op # "reset" => StoreAgrees /\ index = OpenLegs
        BY <1>b, <2>1, <2>2, <3>2 DEF Consistent, Mirrored, Marked, Operations
      <4> QED
        BY <2>1, <4>1, TransactionAgrees DEF Consistent
    <3> QED
      BY <3>1, <3>2
  <2>5. stale' \/ index' = OpenLegs'
    <3>1. CASE stale'
      BY <3>1
    <3>2. CASE ~stale'
      <4>1. ack = TRUE /\ (op # "reset" => index = OpenLegs)
        BY <1>b, <2>1, <2>2, <3>2 DEF Consistent, Mirrored, Operations
      <4> QED
        BY <2>1, <4>1, TransactionMirrors
    <3> QED
      BY <3>1, <3>2
  <2>6. op' = op \/ op' = "idle" \/ (op = "reset" /\ ack)
    <3>1. CASE IngestStep(ack)
      BY <3>1 DEF IngestStep, Release
    <3>2. CASE ExpireStep(ack)
      BY <3>2 DEF ExpireStep, Release
    <3>3. CASE ReplayStep(ack)
      BY <3>3 DEF ReplayStep, Release
    <3>4. CASE WindowClosed
      BY <3>4 DEF WindowClosed, Release
    <3>5. CASE ReplayReset
      BY <1>6, <3>5 DEF Transaction, ReplayReset, IngestStep, ExpireStep, ReplayStep
    <3> QED
      BY <2>1, <3>1, <3>2, <3>3, <3>4, <3>5
  <2>7. ~ack => op' = "idle"
    <3>1. ~ack => IngestStep(ack) \/ ExpireStep(ack) \/ ReplayStep(ack)
      BY <1>6 DEF Transaction
    <3> QED
      BY <3>1 DEF IngestStep, ExpireStep, ReplayStep, Release
  <2>8. Marked'
    <3> SUFFICES ASSUME stale', op' \in Operations PROVE misled' \/ op' = "reset"
      BY DEF Marked
    <3>1. ack /\ stale /\ op # "reset"
      BY <1>b, <2>1, <2>7 DEF Operations
    <3> QED
      BY <1>b, <2>1, <2>2, <3>1 DEF Consistent, Marked
  <2> QED
    BY <2>3, <2>4, <2>5, <2>8 DEF Consistent, Mirrored
<1>7. CASE Cancel \/ Fail
  <2>1. /\ UNCHANGED <<legs, matches, breaks, index, trust>>
        /\ op \in Operations /\ op' = "idle"
    BY <1>7 DEF Cancel, Fail, Abort, Release, store
  <2> QED
    BY <1>u, <2>1 DEF Operations
<1>8. CASE SweeperTurn
  BY <1>8, <1>x DEF SweeperTurn, Sweep
<1>9. CASE Terminate
  BY <1>9, <1>u DEF Terminate, store, control
<1>10. CASE Drained \/ DrainTimeout \/ Killed
  BY <1>10, <1>d
  DEF Drained, DrainTimeout, Leave, Killed, Crash, Release, store, ProcessGone
<1>11. CASE Start
  BY <1>11, <1>s
  DEF Start, Rebuild, store, Consistent, Mirrored, Marked, DueIsOpen, trust, Operations
<1>12. CASE Clock
  <2>1. UNCHANGED <<legs, matches, breaks, index, op, due, trust>>
    BY <1>12 DEF Clock, Tick, store, control
  <2> QED
    BY <1>s, <2>1 DEF Consistent, Mirrored, Marked, DueIsOpen, trust
<1>13. CASE UNCHANGED svcVars
  <2>1. UNCHANGED <<legs, matches, breaks, index, op, due, trust>>
    BY <1>13 DEF svcVars, vars
  <2> QED
    BY <1>s, <2>1 DEF Consistent, Mirrored, Marked, DueIsOpen, trust
<1> QED
  BY <1>1, <1>2, <1>3, <1>4, <1>5, <1>6, <1>7, <1>8, <1>9, <1>10, <1>11, <1>12,
     <1>13 DEF ServiceNext, Serve

-----------------------------------------------------------------------------
(* The cut-off.                                                            *)

\* A close of the window on a sound index leaves nothing as old as it was asked
\* for but what it has still to expire.
Closing ==
    op = "close" /\ ~stale =>
        \A l \in OpenLegs : l \in due \/ legs[l].at + asked > now

\* A close starts from an index that has every open leg.
LEMMA CloseStarts ==
    ASSUME TypeOK, Consistent, ~stale, asked' \in OlderThan, Expire("close", asked')
    PROVE  \A l \in OpenLegs' : l \in due' \/ legs'[l].at + asked' > now'
<1>2. UNCHANGED <<legs, index, now>> /\ due' = Expired(asked') /\ op = "idle"
  BY DEF Expire, store
<1>3. index = OpenLegs /\ OpenLegs' = OpenLegs
  BY <1>2 DEF Consistent, Mirrored, OpenLegs
<1>4. \A l \in OpenLegs : legs[l].at \in Nat
  BY DEF TypeOK, LegState, OpenLegs
<1>5. asked' \in Nat /\ now \in Nat
  BY EngineAssumption DEF TypeOK
<1>6. \A l \in OpenLegs : l \in Expired(asked') \/ legs[l].at + asked' > now
  BY <1>3, <1>4, <1>5 DEF Expired
<1> QED
  BY <1>2, <1>3, <1>6

\* Nothing but its own transactions happens to a close under way.
LEMMA ServiceCloses ==
    ASSUME EngineInv, ServiceTypeOK, Consistent, Closing, [ServiceNext]_svcVars
    PROVE  Closing'
<1>n. op' # "close" => Closing'
  BY DEF Closing
<1>u. ASSUME UNCHANGED <<legs, due, now, op, asked, stale>> PROVE Closing'
  <2>1. OpenLegs' = OpenLegs
    BY <1>u DEF OpenLegs
  <2> QED
    BY <1>u, <2>1 DEF Closing
<1>1. ASSUME NEW c \in Client, PostClose(c) PROVE Closing'
  BY <1>1, CloseStarts DEF PostClose, ReadsIndex, Closing, EngineInv
<1>2. ASSUME NEW ack \in BOOLEAN, ExpireStep(ack), op' = "close", asked' = asked,
             ~stale' => ~stale
      PROVE  Closing'
  <2>1. PICK l \in First(due) :
          /\ OpenBreak({l}, "window_expired", l, legs[l].at, <<Ev("leg.expired", {l})>>)
          /\ due' = due \ {l} /\ UNCHANGED <<op, now>>
    BY <1>2 DEF ExpireStep, Release
  <2>2. OpenLegs' = OpenLegs \ {l}
    BY <2>1, SetLegsCloses DEF OpenBreak
  <2>3. \A x \in Leg : x # l => legs'[x] = legs[x]
    BY <2>1, SetLegsEffect DEF OpenBreak
  <2>4. OpenLegs \subseteq Leg
    BY DEF OpenLegs
  <2> QED
    BY <1>2, <2>1, <2>2, <2>3, <2>4 DEF Closing
<1>3. ASSUME NEW c \in Client, Send(c) \/ PostInVain(c) PROVE Closing'
  BY <1>3, <1>u DEF Send, PostInVain, vars, trust
<1>4. ASSUME NEW c \in Client, PostLegs(c) \/ PostReplay(c) \/ PostResolve(c)
      PROVE  Closing'
  <2>1. op' # "close"
    BY <1>4 DEF PostLegs, PostReplay, PostResolve, Ingest, Replay, ResolveBreak, control
  <2> QED
    BY <1>n, <2>1
<1>5. ASSUME NEW ack \in BOOLEAN, Transaction(ack) PROVE Closing'
  <2>1. \/ IngestStep(ack) \/ ExpireStep(ack) \/ ReplayStep(ack)
        \/ WindowClosed \/ ReplayReset
    BY <1>5 DEF Transaction
  <2>2. ExpireStep(ack) \/ op' # "close"
    BY <2>1 DEF IngestStep, ReplayStep, WindowClosed, ReplayReset, Release
  <2>3. asked' = asked
    BY <1>5 DEF Transaction
  <2>4. ExpireStep(ack) /\ ~stale' => ~stale
    BY <1>5 DEF Transaction, ExpireStep
  <2>5. CASE ExpireStep(ack) /\ op' = "close"
    BY <1>2, <2>3, <2>4, <2>5
  <2> QED
    BY <1>n, <2>2, <2>5
<1>6. CASE Cancel \/ Fail \/ SweeperTurn \/ Drained \/ DrainTimeout \/ Killed \/ Start
  <2>1. op' # "close"
    BY <1>6 DEF Cancel, Fail, Abort, SweeperTurn, Sweep, Expire, Drained,
                DrainTimeout, Leave, Killed, Crash, Start, Rebuild, Release
  <2> QED
    BY <1>n, <2>1
<1>7. CASE Terminate
  BY <1>7, <1>u DEF Terminate, store, control, trust
<1>8. CASE Clock
  BY <1>8, <1>n DEF Clock, Tick, control
<1>9. CASE UNCHANGED svcVars
  BY <1>9, <1>u DEF svcVars, vars, trust
<1> QED
  BY <1>1, <1>3, <1>4, <1>5, <1>6, <1>7, <1>8, <1>9 DEF ServiceNext, Serve

\* While an operation has the mutex nobody else's age is asked for.
LEMMA ClosingKeepsAge ==
    ASSUME op = "close", [ServiceNext]_svcVars
    PROVE  asked' = asked
<1>1. ASSUME NEW c \in Client, Send(c) \/ Serve(c) PROVE asked' = asked
  BY <1>1 DEF Send, Serve, PostLegs, PostReplay, PostClose, Expire, PostResolve, PostInVain
<1>2. ASSUME NEW ack \in BOOLEAN, Transaction(ack) PROVE asked' = asked
  BY <1>2 DEF Transaction
<1>3. CASE Cancel \/ Fail \/ SweeperTurn \/ Terminate \/ Start \/ Clock
  BY <1>3 DEF Cancel, Fail, SweeperTurn, Terminate, Start, Clock
<1>4. CASE Drained \/ DrainTimeout \/ Killed
  BY <1>4 DEF Drained, DrainTimeout, Leave, Killed, ProcessGone
<1>5. CASE UNCHANGED svcVars
  BY <1>5 DEF svcVars
<1> QED
  BY <1>1, <1>2, <1>3, <1>4, <1>5 DEF ServiceNext

-----------------------------------------------------------------------------
(* The service.                                                            *)

\* The inductive invariant.
ServiceInv ==
    /\ EngineInv /\ ServiceTypeOK
    /\ PostedPending /\ AcceptedIsLogged
    /\ Consistent /\ Closing

\* It holds in every reachable state.
LEMMA ServiceInvariant == ServiceSpec => []ServiceInv
<1>1. ServiceInit => ServiceInv
  <2> SUFFICES ASSUME ServiceInit PROVE ServiceInv
    OBVIOUS
  <2>i. Init
    BY DEF ServiceInit
  <2>1. TypeOK /\ ControlOK
    BY <2>i DEF Init, TypeOK, ControlOK, Absent, LegState, Statuses, Operations
  <2>2. IngestedSingly /\ LogCoversStore /\ MemoryIsStored
    BY <2>i DEF Init, Absent, IngestedSingly, LogCoversStore, Stored, MemoryIsStored
  <2>3. ServiceTypeOK /\ PostedPending /\ AcceptedIsLogged
    BY <2>1 DEF ServiceInit, ServiceTypeOK, Accepted, PostedPending, AcceptedIsLogged
  <2>4. StoreAgrees
    BY <2>i DEF Init, Absent, StoreAgrees, MatchesAgree, NeverDoubleCounted,
                BreaksAgree, OpenBreaksUnattributed
  <2>5. Mirrored /\ Marked /\ DueIsOpen /\ Closing
    BY <2>i DEF ServiceInit, Init, Absent, Mirrored, Marked, OpenLegs, DueIsOpen, Closing
  <2> QED
    BY <2>1, <2>2, <2>3, <2>4, <2>5 DEF ServiceInv, EngineInv, Consistent
<1>2. ServiceInv /\ [ServiceNext]_svcVars => ServiceInv'
  BY ServiceKeepsEngine, ServiceKeepsTypes, ServiceKeepsWord, ServiceAgrees,
     ServiceCloses DEF ServiceInv
<1> QED
  BY <1>1, <1>2, PTL DEF ServiceSpec

\* The service's variables keep their types, and at most one request holds the
\* engine's mutex, none while the engine is idle.
THEOREM ServiceTypeCorrect == ServiceSpec => []ServiceTypeOK
<1>1. ServiceInv => ServiceTypeOK
  BY DEF ServiceInv
<1> QED
  BY <1>1, ServiceInvariant, PTL

\* What a client was told is done is in the log: whenever SIGTERM, a kill or a
\* failing transaction meets the batch, and whatever else is going on.
THEOREM AcceptedIsAlwaysLogged == ServiceSpec => []AcceptedIsLogged
<1>1. ServiceInv => AcceptedIsLogged
  BY DEF ServiceInv
<1> QED
  BY <1>1, ServiceInvariant, PTL

\* A process none of whose commits was answered with an error holds in its
\* index exactly the open legs of the store, whatever the tables went through
\* before it was started; the reset of a replay brings a stale index back.
THEOREM MirrorsAlwaysWhileServing == ServiceSpec => []MirrorsWhileServing
<1>1. ServiceInv => MirrorsWhileServing
  BY DEF ServiceInv, Consistent, Mirrored, MirrorsWhileServing
<1> QED
  BY <1>1, ServiceInvariant, PTL

\* Commits answered with an error, because a client left, SIGTERM came or a
\* connection broke, do not make the tables disagree; the operations that are
\* run on the index they left stale do.  Where none was since the last reset,
\* matches, breaks and legs agree and no leg is in two matches.
THEOREM TablesAlwaysAgree == ServiceSpec => []TablesAgreeUnlessMisled
<1>1. ServiceInv => TablesAgreeUnlessMisled
  BY DEF ServiceInv, Consistent, StoreAgrees, TablesAgreeUnlessMisled
<1> QED
  BY <1>1, ServiceInvariant, PTL

\* When a close of the window has answered, on an index that is not stale, what
\* is still open is younger than that very request asked for: no leg hides from
\* it in the store or arrives behind its back.
THEOREM CloseAlwaysEmpties == ServiceSpec => CloseEmpties
<1>1. ASSUME ServiceInv, [ServiceNext]_svcVars
      PROVE  [Closed /\ ~stale => \A l \in OpenLegs' : legs'[l].at + asked' > now]_svcVars
  <2>1. ASSUME WindowClosed, ~stale, [ServiceNext]_svcVars
        PROVE  \A l \in OpenLegs' : legs'[l].at + asked' > now
    <3>1. op = "close" /\ due = {} /\ legs' = legs /\ op' = "idle"
      BY <2>1 DEF WindowClosed, Release
    <3>2. OpenLegs' = OpenLegs
      BY <3>1 DEF OpenLegs
    <3>3. asked' = asked
      BY <2>1, <3>1, ClosingKeepsAge
    <3> QED
      BY <1>1, <2>1, <3>1, <3>2, <3>3 DEF ServiceInv, Closing
  <2>2. ASSUME NEW c \in Client, PostClose(c), op' = "idle", ~stale
        PROVE  \A l \in OpenLegs' : legs'[l].at + asked' > now
    <3>1. \A l \in OpenLegs' : l \in due' \/ legs'[l].at + asked' > now'
      BY <1>1, <2>2, CloseStarts DEF ServiceInv, EngineInv, PostClose
    <3>2. due' = {} /\ now' = now
      BY <2>2 DEF PostClose, Expire
    <3> QED
      BY <3>1, <3>2
  <2> QED
    BY <1>1, <2>1, <2>2 DEF Closed
<1> QED
  BY <1>1, ServiceInvariant, PTL DEF ServiceSpec, CloseEmpties
=============================================================================
