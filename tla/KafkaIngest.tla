---------------------------- MODULE KafkaIngest ----------------------------
(***************************************************************************)
(* The consumer loop of internal/adapters/kafka/source.go (Source.Run)     *)
(* feeding the engine, with the sweeper of cmd/recon-stream beside it.     *)
(*                                                                         *)
(* One partition.  The client library keeps the position up to which it    *)
(* has returned records; CommitUncommittedOffsets commits that position.   *)
(* A restart or a rebalance resumes from the committed offset.             *)
(***************************************************************************)
EXTENDS ReconEngine

CONSTANTS
    Topic,        \* the records of the partition
    BadRecord,    \* a record decode rejects
    MaxPoll,      \* records returned by one poll
    MaxRebalances \* bound: rebalances in a behaviour

ASSUME TopicAssumption ==
    /\ Topic \in Seq(Arrival \cup {BadRecord})
    /\ MaxPoll \in Nat \ {0}
    /\ MaxRebalances \in Nat

VARIABLES
    position,    \* records returned by polls since the last (re)assignment
    base,        \* the position before the current poll
    committed,   \* the committed offset of the consumer group
    phase,       \* where the loop is: "poll", "handle", "ingest" or "commit"
    rebalances,  \* rebalances so far
    failed       \* history: records whose last delivery ended in an error

consumer == <<position, base, committed, phase, rebalances, failed>>
kafkaVars == <<vars, consumer>>

IsGood(record) == record # BadRecord

\* The offsets of the decodable records of a poll.
Good(lo, hi) == {i \in lo + 1 .. hi : IsGood(Topic[i])}

\* Undecodable records are counted and skipped; the others keep their order,
\* the k-th being the one with k of them up to it.
Decoded(lo, hi) ==
    LET rank(i) == Cardinality({j \in Good(lo, hi) : j <= i})
    IN  [k \in 1..Cardinality(Good(lo, hi)) |->
            Topic[CHOOSE i \in Good(lo, hi) : rank(i) = k]]

\* The offsets of a poll that returned only undecodable records are committed
\* without a call of the handler.
Poll ==
    /\ phase = "poll" /\ op # "down"
    /\ \E n \in 1..MaxPoll :
        /\ position + n <= Len(Topic)
        /\ position' = position + n /\ base' = position
        /\ phase' = IF Decoded(position, position + n) = <<>>
                    THEN "commit" ELSE "handle"
        /\ failed' = failed \ (position + 1 .. position + n)
    /\ UNCHANGED <<vars, committed, rebalances>>

\* The handler waits for the engine's mutex.
Handle ==
    /\ phase = "handle"
    /\ Ingest(Decoded(base, position))
    /\ phase' = "ingest"
    /\ UNCHANGED <<position, base, committed, rebalances, failed>>

\* Mutant of HandlerStep: offsets are committed once the first leg is stored.
HandlerStepCommitsEarly ==
    /\ phase = "ingest"
    /\ IngestStep(TRUE)
    /\ phase' = "commit"
    /\ UNCHANGED <<position, base, committed, rebalances, failed>>

\* The engine works on the batch of the consumer.
HandlerStep ==
    /\ phase = "ingest"
    /\ IngestStep(TRUE)
    /\ phase' = IF op' = "idle" THEN "commit" ELSE phase
    /\ UNCHANGED <<position, base, committed, rebalances, failed>>

\* Ingest returns an error: the loop skips the commit, waits a second and
\* polls on from its position.
HandlerFails ==
    /\ phase = "ingest"
    /\ Abort \/ IngestStep(FALSE)
    /\ phase' = "poll"
    /\ failed' = failed \cup (base + 1 .. position)
    /\ UNCHANGED <<position, base, committed, rebalances>>

Commit ==
    /\ phase = "commit"
    /\ committed' = position
    /\ phase' = "poll"
    /\ UNCHANGED <<vars, position, base, rebalances, failed>>

\* A failed commit is logged and counted; the loop goes on.
CommitFails ==
    /\ phase = "commit"
    /\ Strike("abort")
    /\ phase' = "poll"
    /\ UNCHANGED <<store, index, control, now>>
    /\ UNCHANGED <<position, base, committed, rebalances, failed>>

\* Rebalances are blocked from a poll to the end of its iteration.
Rebalance ==
    /\ phase = "poll" /\ rebalances < MaxRebalances
    /\ rebalances' = rebalances + 1
    /\ position' = committed
    /\ UNCHANGED <<vars, base, committed, phase, failed>>

\* Mutant of ProcessEnds: consumption resumes where polling had stopped.
ProcessEndsKeepsPosition ==
    /\ Crash
    /\ phase' = "poll"
    /\ UNCHANGED <<position, base, committed, rebalances, failed>>

\* The process ends, and with it the client's position.
ProcessEnds ==
    /\ Crash
    /\ position' = committed /\ phase' = "poll"
    /\ UNCHANGED <<base, committed, rebalances, failed>>

Restart == Rebuild /\ UNCHANGED consumer

\* The sweeper goroutine, and the clock.
Sweeper ==
    /\ \/ Sweep
       \/ \E ack \in BOOLEAN : ExpireStep(ack)
       \/ op = "sweep" /\ Abort
    /\ UNCHANGED consumer

Clock == Tick /\ UNCHANGED consumer

KafkaInit ==
    /\ Init
    /\ position = 0 /\ base = 0 /\ committed = 0
    /\ phase = "poll" /\ rebalances = 0 /\ failed = {}

KafkaNext ==
    \/ Poll \/ Handle \/ HandlerStep \/ HandlerFails
    \/ Commit \/ CommitFails \/ Rebalance
    \/ ProcessEnds \/ Restart \/ Sweeper \/ Clock

\* The loop waits for nothing but the mutex, a sweep in progress goes on, and
\* a process that ended is started again.
LoopStep == Poll \/ Handle \/ HandlerStep \/ Commit

KafkaSpec ==
    /\ KafkaInit /\ [][KafkaNext]_kafkaVars
    /\ WF_kafkaVars(LoopStep) /\ WF_kafkaVars(Sweeper) /\ WF_kafkaVars(Restart)

-----------------------------------------------------------------------------
Processed(i) == IsGood(Topic[i]) => HasLeg(Topic[i].leg)

\* Offsets are committed only after the engine has persisted the records: a
\* committed record is stored (or undecodable), so no record is lost by a
\* restart or a rebalance, which resume from the committed offset.
CommittedIsDurable == \A i \in 1..committed : Processed(i)

\* The same for every record but those of a batch whose handler returned an
\* error and that was not delivered again: restarts, rebalances and failed
\* commits alone lose nothing.
OnlyFailedBatchesLost == \A i \in 1..committed : Processed(i) \/ i \in failed

\* Every record is delivered and, failed batches aside, stored in the end, in
\* spite of restarts, rebalances and failed commits.
TopicDrains ==
    <>[](position = Len(Topic) /\ \A i \in 1..Len(Topic) : Processed(i) \/ i \in failed)
=============================================================================
