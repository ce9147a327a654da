---------------------------- MODULE KafkaProofs ----------------------------
(***************************************************************************)
(* The consumer loop loses no record but those of failed batches, for      *)
(* every topic, every size of polls and every number of restarts,          *)
(* rebalances and faults.                                                  *)
(***************************************************************************)
EXTENDS KafkaIngest, ReconEngineProofs

-----------------------------------------------------------------------------
(* What a poll decodes.                                                    *)

\* f gives the elements of G their ranks, which number them.
Numbers(f, G) ==
    /\ \A i \in G : f[i] = Cardinality({j \in G : j <= i})
    /\ \A i, j \in G : f[i] = f[j] => i = j
    /\ \A i \in G : f[i] \in 1..Cardinality(G)
    /\ \A k \in 1..Cardinality(G) : \E i \in G : f[i] = k

\* The elements of a finite set of numbers can be numbered by rank.
LEMMA Ranks ==
    ASSUME NEW G \in SUBSET Nat, IsFiniteSet(G)
    PROVE  \E f : Numbers(f, G)
<1> DEFINE upto(i) == {j \in G : j <= i}
<1>f. PICK f : f = [i \in G |-> Cardinality({j \in G : j <= i})]
  OBVIOUS
<1>1. ASSUME NEW i \in G
      PROVE  /\ IsFiniteSet(upto(i)) /\ f[i] = Cardinality(upto(i))
             /\ f[i] \in 1..Cardinality(G)
  <2>1. upto(i) \in SUBSET G /\ upto(i) # {} /\ f[i] = Cardinality(upto(i))
    BY <1>f
  <2> HIDE DEF upto
  <2>2. IsFiniteSet(upto(i)) /\ Cardinality(upto(i)) <= Cardinality(G)
    BY <2>1, FS_Subset
  <2>3. Cardinality(upto(i)) \in Nat /\ Cardinality(upto(i)) # 0
    BY <2>1, <2>2, FS_EmptySet, FS_CardinalityType
  <2>4. Cardinality(G) \in Nat
    BY FS_CardinalityType
  <2> QED
    BY <2>1, <2>2, <2>3, <2>4
<1>2. ASSUME NEW i \in G, NEW j \in G, i < j PROVE f[i] # f[j]
  <2>1. upto(i) \in SUBSET upto(j)
    <3>1. ASSUME NEW x \in G, x <= i PROVE x <= j
      <4>1. x \in Nat /\ i \in Nat /\ j \in Nat
        OBVIOUS
      <4> QED
        BY <1>2, <3>1, <4>1
    <3> QED
      BY <3>1
  <2>2. j \in upto(j) /\ j \notin upto(i)
    BY <1>2
  <2> HIDE DEF upto
  <2> QED
    BY <1>1, <2>1, <2>2, FS_Subset
<1>3. \A i, j \in G : f[i] = f[j] => i = j
  <2> SUFFICES ASSUME NEW i \in G, NEW j \in G, f[i] = f[j] PROVE i = j
    OBVIOUS
  <2>1. i < j \/ j < i \/ i = j
    OBVIOUS
  <2> QED
    BY <1>2, <2>1
<1>4. Cardinality(G) \in Nat
  BY FS_CardinalityType
<1>5. f \in Injection(G, 1..Cardinality(G))
  BY <1>f, <1>1, <1>3 DEF Injection, IsInjective
<1>6. IsFiniteSet(1..Cardinality(G)) /\ Cardinality(1..Cardinality(G)) = Cardinality(G)
  BY <1>4, FS_Interval
<1>7. f \in Surjection(G, 1..Cardinality(G))
  BY <1>5, <1>6, FS_Injection
<1>8. \A k \in 1..Cardinality(G) : \E i \in G : f[i] = k
  BY <1>7 DEF Surjection
<1>9. \A i \in G : f[i] = Cardinality({j \in G : j <= i})
  BY <1>f
<1> QED
  BY <1>1, <1>3, <1>8, <1>9 DEF Numbers

\* A batch holds every decodable record of its poll, and none if there is none.
LEMMA DecodedHoldsGood ==
    ASSUME NEW lo \in Nat, NEW hi \in Nat, hi <= Len(Topic)
    PROVE  /\ Decoded(lo, hi) \in Seq(Arrival)
           /\ \A i \in lo + 1 .. hi : IsGood(Topic[i]) =>
                 \E k \in DOMAIN Decoded(lo, hi) : Decoded(lo, hi)[k] = Topic[i]
<1> DEFINE G == Good(lo, hi)
           n == Cardinality(G)
           rank(i) == Cardinality({j \in G : j <= i})
           s == [k \in 1..n |-> Topic[CHOOSE i \in G : rank(i) = k]]
<1>1. Decoded(lo, hi) = s
  BY DEF Decoded
<1>2. G \in SUBSET (lo + 1 .. hi) /\ \A i \in G : IsGood(Topic[i])
  BY DEF Good
<1>3. \A i \in lo + 1 .. hi : IsGood(Topic[i]) => i \in G
  BY DEF Good
<1> HIDE DEF G
<1>4. G \in SUBSET Nat /\ IsFiniteSet(G) /\ n \in Nat
  <2>1. IsFiniteSet(lo + 1 .. hi)
    BY FS_Interval
  <2>2. IsFiniteSet(G)
    BY <1>2, <2>1, FS_Subset
  <2> QED
    BY <1>2, <2>2, FS_CardinalityType
<1>5. PICK f : Numbers(f, G)
  BY <1>4, Ranks
<1>6. \A i \in G : f[i] = rank(i)
  BY <1>5 DEF Numbers
<1>7. /\ \A i, j \in G : f[i] = f[j] => i = j
      /\ \A i \in G : f[i] \in 1..n
      /\ \A k \in 1..n : \E i \in G : f[i] = k
  BY <1>5 DEF Numbers
<1> HIDE DEF n, rank
<1>8. \A i \in G : Topic[i] \in Arrival
  BY <1>2, TopicAssumption DEF IsGood
<1>9. s \in [1..n -> Arrival]
  BY <1>6, <1>7, <1>8
<1>10. s \in Seq(Arrival)
  <2> HIDE DEF s
  <2> QED
    BY <1>4, <1>9
<1>11. \A i \in G : rank(i) \in DOMAIN s /\ s[rank(i)] = Topic[i]
  <2>1. \A i \in G : (CHOOSE j \in G : rank(j) = rank(i)) = i
    BY <1>6, <1>7
  <2>2. \A i \in G : rank(i) \in 1..n
    BY <1>6, <1>7
  <2> QED
    BY <2>1, <2>2
<1> HIDE DEF s
<1> QED
  BY <1>1, <1>3, <1>10, <1>11

-----------------------------------------------------------------------------
(* The loop.                                                               *)

\* The record is stored, undecodable, or in a batch whose handler failed.
Accounted(i) == Processed(i) \/ i \in failed

\* The offsets have their types, and the loop holds the mutex in one phase.
LoopTypeOK ==
    /\ position \in Nat /\ base \in Nat /\ committed \in Nat
    /\ position <= Len(Topic)
    /\ phase \in {"poll", "handle", "ingest", "commit"}
    /\ committed <= position
    /\ phase # "poll" => base <= position /\ committed <= base
    /\ phase = "ingest" <=> op = "ingest"
    /\ op \notin {"reset", "replay"}

\* Records up to the position are accounted for between two polls; those of
\* the poll in progress are accounted for or still in the handler's batch.
LoopAccounts ==
    /\ phase \in {"poll", "commit"} => \A i \in 1..position : Accounted(i)
    /\ phase \in {"handle", "ingest"} => \A i \in 1..base : Accounted(i)
    /\ phase = "ingest" => \A i \in base + 1 .. position :
          Processed(i) \/ \E j \in DOMAIN todo : todo[j] = Topic[i]

KafkaInv == TypeOK /\ ControlOK /\ LoopTypeOK /\ LoopAccounts

\* The steps of the loop as the engine sees them.
LEMMA EngineSteps ==
    ASSUME KafkaInv, [KafkaNext]_kafkaVars
    PROVE  /\ TypeOK' /\ ControlOK' /\ Stored \subseteq Stored'
           /\ op' \notin {"reset", "replay"}
<1> USE DEF KafkaInv
<1>1. CASE Handle
  <2>1. /\ op' = "ingest" /\ todo' = Decoded(base, position) /\ todo' # <<>>
        /\ UNCHANGED <<legs, matches, breaks, log, index, due, cursor, through, now, faults>>
    BY <1>1 DEF Handle, Ingest, store
  <2>2. Decoded(base, position) \in Seq(Arrival)
    BY DecodedHoldsGood DEF LoopTypeOK
  <2>3. TypeOK'
    BY <2>1, <2>2 DEF TypeOK, Operations
  <2>4. Stored' = Stored
    BY <2>1 DEF Stored
  <2> QED
    BY <2>1, <2>3, <2>4 DEF ControlOK
<1>2. CASE CommitFails
  <2>1. /\ UNCHANGED <<legs, matches, breaks, log, index, op, todo, due, cursor, through, now>>
        /\ faults' = faults + 1
    BY <1>2 DEF CommitFails, Strike, store, control
  <2>2. Stored' = Stored /\ ControlOK'
    BY <2>1 DEF Stored, ControlOK
  <2>3. TypeOK'
    BY <2>1 DEF TypeOK
  <2> QED
    BY <2>1, <2>2, <2>3 DEF LoopTypeOK
<1>3. CASE Poll \/ Commit \/ Rebalance \/ UNCHANGED kafkaVars
  <2>1. UNCHANGED vars
    BY <1>3 DEF Poll, Commit, Rebalance, kafkaVars
  <2>2. TypeOK' /\ ControlOK'
    BY <2>1, NextTyped
  <2>3. Stored' = Stored /\ op' = op
    BY <2>1 DEF vars, Stored
  <2> QED
    BY <2>2, <2>3 DEF LoopTypeOK
<1>4. CASE HandlerStep \/ HandlerFails \/ ProcessEnds \/ Restart \/ Sweeper \/ Clock
  <2>1. \/ \E ack \in BOOLEAN : IngestStep(ack)
        \/ Abort \/ Crash \/ Rebuild \/ Sweep \/ Tick
        \/ \E ack \in BOOLEAN : ExpireStep(ack)
    BY <1>4, Zenon
    DEF HandlerStep, HandlerFails, ProcessEnds, Restart, Sweeper, Clock
  <2>2. Next
    BY <2>1 DEF Next
  <2>3. TypeOK' /\ ControlOK'
    BY <2>2, NextTyped
  <2>4. ~ReplayReset
    BY DEF ReplayReset, LoopTypeOK
  <2>5. Stored \subseteq Stored'
    BY <2>2, <2>4, NextStores
  <2>6. op' \notin {"reset", "replay"}
    <3>1. ASSUME NEW ack, IngestStep(ack) PROVE op' \in {"ingest", "idle"}
      BY <3>1 DEF IngestStep, Release
    <3>2. ASSUME NEW ack, ExpireStep(ack) PROVE op' \in {"sweep", "close", "idle"}
      BY <3>2 DEF ExpireStep, Release
    <3>3. ASSUME Abort \/ Crash \/ Rebuild \/ Sweep \/ Tick
          PROVE  op' \in {"idle", "down", "sweep"}
      BY <3>3 DEF Abort, Crash, Rebuild, Sweep, Expire, Tick, Release, control
    <3> QED
      BY <2>1, <3>1, <3>2, <3>3
  <2> QED
    BY <2>3, <2>5, <2>6
<1> QED
  BY <1>1, <1>2, <1>3, <1>4 DEF KafkaNext

\* A record that is processed stays so.
LEMMA StaysProcessed ==
    ASSUME Stored \subseteq Stored', NEW i, Processed(i)
    PROVE  Processed(i)'
BY DEF Processed, HasLeg

\* A step of the handler stores the head of its batch.
LEMMA HandlerStores ==
    ASSUME TypeOK, ControlOK, NEW ack \in BOOLEAN, IngestStep(ack)
    PROVE  /\ todo \in Seq(Arrival) /\ todo # <<>>
           /\ Head(todo).leg \in Stored'
           /\ ack => \/ op' = "ingest" /\ Len(todo) > 1 /\ todo' = Tail(todo)
                     \/ op' = "idle" /\ Len(todo) = 1
           /\ ~ack => op' = "idle"
<1>1. todo \in Seq(Arrival) /\ todo # <<>>
  BY DEF IngestStep, TypeOK, ControlOK
<1>2. Head(todo) \in Arrival
  BY <1>1
<1>3. Head(todo).leg \in Leg /\ StoreTyped
  BY <1>2 DEF Arrival, TypeOK, StoreTyped
<1>4. Head(todo).leg \in Stored'
  BY <1>3, IngestOneStores DEF IngestStep
<1>5. Len(todo) \in Nat /\ Len(todo) # 0
  BY <1>1
<1>6. Len(todo) > 1 \/ Len(todo) = 1
  <2>1. \A n \in Nat : n # 0 => n > 1 \/ n = 1
    OBVIOUS
  <2> QED
    BY <1>5, <2>1, Zenon
<1>7. IF ack /\ Len(todo) > 1
      THEN /\ todo' = Tail(todo)
           /\ UNCHANGED <<op, due, cursor, through>>
      ELSE Release("idle")
  BY DEF IngestStep
<1>8. op = "ingest"
  BY DEF IngestStep
<1> QED
  BY <1>1, <1>4, <1>6, <1>7, <1>8 DEF Release

\* Every step of the loop and of what runs beside it accounts for the records.
LEMMA NextAccounts ==
    ASSUME KafkaInv, [KafkaNext]_kafkaVars
    PROVE  KafkaInv'
<1>e. /\ TypeOK' /\ ControlOK' /\ Stored \subseteq Stored'
      /\ op' \notin {"reset", "replay"}
  BY EngineSteps
<1>t. TypeOK /\ ControlOK /\ LoopTypeOK /\ LoopAccounts
  BY DEF KafkaInv
<1>p. \A i : Processed(i) => Processed(i)'
  BY <1>e, StaysProcessed
<1>k. failed \subseteq failed' => \A i : Accounted(i) => Accounted(i)'
  BY <1>p DEF Accounted
<1>n. /\ position \in Nat /\ base \in Nat /\ committed \in Nat
      /\ position <= Len(Topic) /\ committed <= position /\ Len(Topic) \in Nat
  BY <1>t, TopicAssumption DEF LoopTypeOK
<1> SUFFICES LoopTypeOK' /\ LoopAccounts'
  BY <1>e DEF KafkaInv
<1>1. ASSUME UNCHANGED consumer, op' # "ingest", op # "ingest"
      PROVE  LoopTypeOK' /\ LoopAccounts'
  <2>1. LoopTypeOK'
    BY <1>1, <1>e, <1>t DEF consumer, LoopTypeOK
  <2>2. phase # "ingest"
    BY <1>1, <1>t DEF LoopTypeOK
  <2> QED
    BY <1>1, <1>k, <1>t, <2>1, <2>2 DEF consumer, LoopAccounts
<1>2. CASE Poll
  <2>1. PICK n \in 1..MaxPoll :
          /\ position + n <= Len(Topic)
          /\ position' = position + n /\ base' = position
          /\ phase' = IF Decoded(position, position + n) = <<>>
                      THEN "commit" ELSE "handle"
          /\ failed' = failed \ (position + 1 .. position + n)
    BY <1>2 DEF Poll
  <2>2. phase = "poll" /\ UNCHANGED <<vars, committed>>
    BY <1>2 DEF Poll
  <2>3. n \in Nat
    BY <2>1, TopicAssumption
  <2>4. op' = op /\ op # "ingest"
    BY <1>t, <2>2 DEF vars, LoopTypeOK
  <2>5. LoopTypeOK'
    <3>1. position' \in Nat /\ position' <= Len(Topic) /\ position <= position'
      BY <1>n, <2>1, <2>3
    <3>2. committed' = committed /\ committed <= position' /\ committed <= base'
      BY <1>n, <2>1, <2>2, <3>1
    <3> QED
      BY <1>n, <1>e, <2>1, <2>4, <3>1, <3>2 DEF LoopTypeOK
  <2>6. \A i \in 1..position : Accounted(i)'
    <3>1. \A i \in 1..position : Accounted(i)
      BY <1>t, <2>2 DEF LoopAccounts
    <3>2. \A i \in 1..position : i \in failed => i \in failed'
      BY <1>n, <2>1, <2>3
    <3> QED
      BY <1>p, <3>1, <3>2 DEF Accounted
  <2>7. ASSUME phase' = "commit", NEW i \in 1..position' PROVE Accounted(i)'
    <3>1. CASE i \in 1..position
      BY <2>6, <3>1
    <3>2. CASE i \notin 1..position
      <4>1. Decoded(position, position + n) = <<>>
        BY <2>1, <2>7
      <4>2. i \in position + 1 .. position + n
        BY <1>n, <2>1, <2>3, <2>7, <3>2
      <4>3. position + n \in Nat
        BY <1>n, <2>3
      <4>4. IsGood(Topic[i]) =>
               \E k \in DOMAIN Decoded(position, position + n) :
                  Decoded(position, position + n)[k] = Topic[i]
        BY <1>n, <2>1, <4>2, <4>3, DecodedHoldsGood
      <4>5. ~IsGood(Topic[i])
        BY <4>1, <4>4
      <4> QED
        BY <4>5 DEF Accounted, Processed
    <3> QED
      BY <3>1, <3>2
  <2> QED
    BY <2>1, <2>5, <2>6, <2>7 DEF LoopAccounts
<1>3. CASE Handle
  <2>1. /\ phase = "handle" /\ phase' = "ingest" /\ op' = "ingest"
        /\ todo' = Decoded(base, position)
        /\ UNCHANGED <<position, base, committed, failed>>
    BY <1>3 DEF Handle, Ingest
  <2>2. LoopTypeOK'
    BY <1>t, <2>1 DEF LoopTypeOK
  <2>3. \A i \in base + 1 .. position : IsGood(Topic[i]) =>
           \E j \in DOMAIN todo' : todo'[j] = Topic[i]
    BY <1>n, <2>1, DecodedHoldsGood
  <2>4. \A i \in base + 1 .. position :
           Processed(i)' \/ \E j \in DOMAIN todo' : todo'[j] = Topic[i]
    BY <2>3 DEF Processed
  <2>5. \A i \in 1..base : Accounted(i)'
    BY <1>t, <1>k, <2>1 DEF LoopAccounts
  <2> QED
    BY <2>1, <2>2, <2>4, <2>5 DEF LoopAccounts
<1>4. CASE HandlerStep
  <2>1. /\ phase = "ingest" /\ phase' = IF op' = "idle" THEN "commit" ELSE phase
        /\ UNCHANGED <<position, base, committed, failed>>
    BY <1>4 DEF HandlerStep
  <2>2. /\ todo \in Seq(Arrival) /\ todo # <<>> /\ Head(todo).leg \in Stored'
        /\ \/ op' = "ingest" /\ Len(todo) > 1 /\ todo' = Tail(todo)
           \/ op' = "idle" /\ Len(todo) = 1
    BY <1>4, <1>t, HandlerStores DEF HandlerStep
  <2>3. LoopTypeOK'
    BY <1>t, <2>1, <2>2 DEF LoopTypeOK
  <2>4. \A i \in 1..base : Accounted(i)'
    BY <1>t, <1>k, <2>1 DEF LoopAccounts
  <2>5. \A i \in base + 1 .. position :
           Processed(i)' \/ \E j \in DOMAIN todo : j # 1 /\ todo[j] = Topic[i]
    <3>1. \A i : todo[1] = Topic[i] => Processed(i)'
      BY <2>2 DEF Processed, HasLeg
    <3> QED
      BY <1>t, <1>p, <2>1, <3>1 DEF LoopAccounts
  <2>6. CASE op' = "idle"
    <3>1. DOMAIN todo = {1} /\ phase' = "commit"
      BY <2>1, <2>2, <2>6
    <3>2. \A i \in base + 1 .. position : Accounted(i)'
      BY <2>5, <3>1 DEF Accounted
    <3>3. \A i \in 1..position : i \in 1..base \/ i \in base + 1 .. position
      BY <1>n
    <3> QED
      BY <2>1, <2>3, <2>4, <3>1, <3>2, <3>3 DEF LoopAccounts
  <2>7. CASE op' = "ingest"
    <3>1. phase' = "ingest" /\ todo' = Tail(todo)
      BY <2>1, <2>2, <2>7
    <3>2. \A j \in DOMAIN todo : j # 1 => j - 1 \in DOMAIN todo' /\ todo'[j - 1] = todo[j]
      BY <2>2, <3>1
    <3>3. \A i \in base + 1 .. position :
             Processed(i)' \/ \E j \in DOMAIN todo' : todo'[j] = Topic[i]
      BY <2>5, <3>2
    <3> QED
      BY <2>1, <2>3, <2>4, <3>1, <3>3 DEF LoopAccounts
  <2> QED
    BY <2>2, <2>6, <2>7
<1>5. CASE HandlerFails
  <2>1. /\ phase = "ingest" /\ phase' = "poll"
        /\ failed' = failed \cup (base + 1 .. position)
        /\ UNCHANGED <<position, base, committed>>
    BY <1>5 DEF HandlerFails
  <2>2. op' = "idle"
    <3>1. CASE Abort
      BY <3>1 DEF Abort, Release
    <3>2. CASE IngestStep(FALSE)
      BY <3>2 DEF IngestStep, Release
    <3> QED
      BY <1>5, <3>1, <3>2 DEF HandlerFails
  <2>3. LoopTypeOK'
    BY <1>t, <2>1, <2>2 DEF LoopTypeOK
  <2>4. \A i \in 1..base : Accounted(i)'
    BY <1>t, <1>k, <2>1 DEF LoopAccounts
  <2>5. \A i \in 1..position : i \in 1..base \/ i \in base + 1 .. position
    BY <1>n
  <2> QED
    BY <2>1, <2>3, <2>4, <2>5 DEF LoopAccounts, Accounted
<1>6. CASE Commit \/ CommitFails
  <2>1. /\ phase = "commit" /\ phase' = "poll" /\ op' = op
        /\ committed' \in {committed, position}
        /\ UNCHANGED <<position, base, failed>>
    BY <1>6 DEF Commit, CommitFails, vars, control
  <2>2. LoopTypeOK'
    BY <1>t, <1>n, <2>1 DEF LoopTypeOK
  <2> QED
    BY <1>t, <1>k, <2>1, <2>2 DEF LoopAccounts
<1>7. CASE Rebalance \/ ProcessEnds
  <2>1. /\ position' = committed /\ phase' = "poll" /\ op' # "ingest"
        /\ UNCHANGED <<base, committed, failed>>
    BY <1>7, <1>t DEF Rebalance, ProcessEnds, Crash, Release, vars, LoopTypeOK
  <2>2. LoopTypeOK'
    <3>1. committed <= Len(Topic)
      BY <1>n
    <3> QED
      BY <1>e, <1>n, <2>1, <3>1 DEF LoopTypeOK
  <2>3. \A i \in 1..committed : Accounted(i)
    <3>1. CASE phase \in {"poll", "commit"}
      BY <1>n, <1>t, <3>1 DEF LoopAccounts
    <3>2. CASE phase \in {"handle", "ingest"}
      BY <1>n, <1>t, <3>2 DEF LoopAccounts, LoopTypeOK
    <3> QED
      BY <1>t, <3>1, <3>2 DEF LoopTypeOK
  <2> QED
    BY <1>k, <2>1, <2>2, <2>3 DEF LoopAccounts
<1>8. CASE Restart \/ Sweeper \/ Clock
  <2>1. UNCHANGED consumer
    BY <1>8 DEF Restart, Sweeper, Clock
  <2>2. op # "ingest" /\ op' # "ingest"
    BY <1>8
    DEF Restart, Sweeper, Clock, Rebuild, Sweep, Expire, ExpireStep, Abort, Tick,
        Release, control
  <2> QED
    BY <1>1, <2>1, <2>2
<1>9. CASE UNCHANGED kafkaVars
  <2>1. UNCHANGED consumer /\ UNCHANGED <<op, todo>>
    BY <1>9 DEF kafkaVars, vars
  <2>2. LoopTypeOK'
    BY <1>t, <2>1 DEF consumer, LoopTypeOK
  <2> QED
    BY <1>t, <1>k, <1>p, <2>1, <2>2 DEF consumer, LoopAccounts
<1> QED
  BY <1>2, <1>3, <1>4, <1>5, <1>6, <1>7, <1>8, <1>9 DEF KafkaNext

\* No record up to the committed offset is lost, but those of a batch whose
\* handler returned an error and that was not delivered again: for every topic
\* and poll size, and any number of restarts, rebalances, failed commits, lost
\* acknowledgements and failing lookups.
THEOREM OnlyFailedBatchesAreLost == KafkaSpec => []OnlyFailedBatchesLost
<1>1. KafkaInit => KafkaInv
  <2> SUFFICES ASSUME KafkaInit PROVE KafkaInv
    OBVIOUS
  <2>1. TypeOK /\ ControlOK
    BY DEF KafkaInit, Init, TypeOK, ControlOK, Absent, LegState, Statuses, Operations
  <2>2. LoopTypeOK /\ LoopAccounts
    BY TopicAssumption DEF KafkaInit, Init, LoopTypeOK, LoopAccounts
  <2> QED
    BY <2>1, <2>2 DEF KafkaInv
<1>2. KafkaInv /\ [KafkaNext]_kafkaVars => KafkaInv'
  BY NextAccounts
<1>3. KafkaInv => OnlyFailedBatchesLost
  <2> SUFFICES ASSUME KafkaInv, NEW i \in 1..committed PROVE Accounted(i)
    BY DEF OnlyFailedBatchesLost, Accounted
  <2>1. /\ position \in Nat /\ base \in Nat /\ committed \in Nat
        /\ committed <= position /\ (phase # "poll" => committed <= base)
        /\ phase \in {"poll", "handle", "ingest", "commit"}
    BY DEF KafkaInv, LoopTypeOK
  <2>2. i \in 1..position /\ (phase # "poll" => i \in 1..base)
    BY <2>1
  <2> QED
    BY <2>1, <2>2 DEF KafkaInv, LoopAccounts
<1> QED
  BY <1>1, <1>2, <1>3, PTL DEF KafkaSpec
=============================================================================
