------------------------- MODULE JobInfrastructure -------------------------
(***************************************************************************)
(* What the API and the workers of the asynchronous pipeline share: the    *)
(* Redis job store, and the Kafka topics with the offsets the consumer     *)
(* group committed.  A job id is the uuid5 of the request id, so the       *)
(* request id stands for it; a fingerprint is the hash of the request, so  *)
(* the content stands for it.  Redis and Kafka are external services:      *)
(* each of their calls is atomic, and what can go wrong around a call is a *)
(* fault, drawn from a budget.                                             *)
(***************************************************************************)
EXTENDS Naturals, Sequences

CONSTANTS RequestId, Content,  \* request ids and the texts submitted under them
          Partition,           \* partitions of each topic
          PartitionOf,         \* the partition a job's key hashes to
          MaxAttempts,         \* SENTINEL_MAX_ATTEMPTS
          Faults, MaxFaults,   \* the faults of a run, and how many may happen
          NoJob, NoResult, NoError, Garbage

ASSUME PartitionAssumption == PartitionOf \in [RequestId -> Partition]
ASSUME AttemptsAssumption == MaxAttempts \in Nat
ASSUME FaultsAssumption ==
    /\ MaxFaults \in Nat
    /\ Faults \subseteq {"publish_failure", "api_failure", "worker_crash", "shutdown",
                         "eviction", "settled_expiry", "expiry", "foreign_message"}

State == {"accepted", "processing", "succeeded", "failed"}

\* StoredModerationJob: the public job and the fingerprint kept beside it.
StoredJob == [state : State, attempt : Nat, result : Content \cup {NoResult},
              error : {NoError, "queue_publish_failed", "processing_retry_scheduled",
                       "processing_attempts_exhausted"},
              fingerprint : Content]

Event == [job : RequestId, content : Content, attempt : Nat]

\* The two topics the worker group subscribes to, partition by partition.
TopicPartition == {"input", "retry"} \X Partition
InputOf(r) == <<"input", PartitionOf[r]>>
RetryOf(r) == <<"retry", PartitionOf[r]>>

DeadLetter == [job : RequestId, attempt : Nat,
               error : {"missing_job_state", "processing_attempts_exhausted"}]
         \cup [source : TopicPartition, offset : Nat, error : {"invalid_event_schema"}]

ASSUME SentinelAssumption == /\ NoJob \notin StoredJob
                             /\ NoResult \notin Content
                             /\ Garbage \notin Event

\* An absent error code is none of the codes.
ASSUME ErrorAssumption == NoError \notin {"queue_publish_failed", "processing_retry_scheduled",
                                          "processing_attempts_exhausted"}

VARIABLES jobs,       \* Redis: the stored job of each request id, or NoJob
          log,        \* Kafka: the messages of each partition of input and retry
          committed,  \* Kafka: the offset the group committed, per partition
          results,    \* the result topic: the contents decided, per job key
          dlq,        \* the dead-letter topic
          faults      \* faults so far

infrastructureVars == <<jobs, log, committed, results, dlq, faults>>

InfrastructureTypeOK ==
    /\ jobs \in [RequestId -> StoredJob \cup {NoJob}]
    /\ log \in [TopicPartition -> Seq(Event \cup {Garbage})]
    /\ committed \in [TopicPartition -> Nat]
    /\ results \in [RequestId -> Seq(Content)]
    /\ dlq \subseteq DeadLetter
    /\ faults \in 0..MaxFaults

InfrastructureInit ==
    /\ jobs = [r \in RequestId |-> NoJob]
    /\ log = [tp \in TopicPartition |-> << >>]
    /\ committed = [tp \in TopicPartition |-> 0]
    /\ results = [r \in RequestId |-> << >>]
    /\ dlq = {}
    /\ faults = 0

Fault(kind) == kind \in Faults /\ faults < MaxFaults /\ faults' = faults + 1

\* SET ... XX: a job that expired meanwhile is not brought back.
Save(r, job) == jobs' = IF jobs[r] = NoJob THEN jobs ELSE [jobs EXCEPT ![r] = job]

Publish(tp, message) == log' = [log EXCEPT ![tp] = Append(@, message)]

\* Mutant: attempts are counted down.
CountDownAttempt(event) == [event EXCEPT !.attempt = @ - 1]

\* The retry event an unsuccessful attempt leaves behind.
NextAttempt(event) == [event EXCEPT !.attempt = @ + 1]
=============================================================================
