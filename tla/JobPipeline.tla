----------------------------- MODULE JobPipeline -----------------------------
(***************************************************************************)
(* The asynchronous pipeline: API threads, the worker group, Redis expiry  *)
(* and messages other producers put on the topics, all interleaved.        *)
(***************************************************************************)
EXTENDS JobService, JobWorker, FiniteSets

vars == <<infrastructureVars, serviceVars, workerVars>>

Init == InfrastructureInit /\ ServiceInit /\ WorkerInit

\* Someone still holds, or will be handed, work on job r.
MessagePending(r) == \E tp \in TopicPartition : \E i \in 1..Len(log[tp]) :
                        /\ i > committed[tp]
                        /\ log[tp][i] # Garbage
                        /\ log[tp][i].job = r
CallPending(r) == \E t \in Thread : phase[t] # "idle" /\ request[t].job = r
ZombieHolds(r) == \E w \in fenced : held[w].offset <= committed[held[w].tp]
                                    /\ EventOf(w) # Garbage /\ EventOf(w).job = r
InProgress(r) == MessagePending(r) \/ CallPending(r) \/ ZombieHolds(r)

(* The time to live, renewed by every save, runs out: a day after the last *)
(* save of a settled job, or while the job still waits in a backlog.       *)
Expire(r) ==
    /\ jobs[r] # NoJob
    /\ (~InProgress(r) /\ Fault("settled_expiry")) \/ Fault("expiry")
    /\ jobs' = [jobs EXCEPT ![r] = NoJob]
    /\ UNCHANGED <<log, committed, results, dlq, serviceVars, workerVars>>

(* A producer that does not know the schema writes to a consumed topic. *)
ForeignMessage(tp) ==
    /\ Fault("foreign_message")
    /\ Publish(tp, Garbage)
    /\ UNCHANGED <<jobs, committed, results, dlq, serviceVars, workerVars>>

Next == \/ ServiceNext /\ UNCHANGED workerVars
        \/ WorkerNext /\ UNCHANGED serviceVars
        \/ \E r \in RequestId : Expire(r)
        \/ \E tp \in TopicPartition : ForeignMessage(tp)

Spec == Init /\ [][Next]_vars

(***************************************************************************)
(* A thread of the pool and a worker that runs go on; a worker that ended  *)
(* is started again (by the operator or supervisor the runbook names).     *)
(* Nothing obliges a client to call, or a fault to happen.                 *)
(***************************************************************************)
Fairness == /\ \A t \in Thread : WF_vars(ServiceStep(t) /\ UNCHANGED workerVars)
            /\ \A w \in Worker : WF_vars(WorkerStep(w) /\ UNCHANGED serviceVars)

FairSpec == Spec /\ Fairness
-----------------------------------------------------------------------------
\* The variables hold values of their types, in any state of the pipeline.
TypeOK == InfrastructureTypeOK /\ ServiceTypeOK /\ WorkerTypeOK

\* What the topics show of the message at position i of tp.
Settled(tp, i) ==
    LET m == log[tp][i]
    IN  IF m = Garbage
        THEN [source |-> tp, offset |-> i, error |-> "invalid_event_schema"] \in dlq
        ELSE \/ results[m.job] # << >>
             \/ \E d \in dlq : d.error # "invalid_event_schema"
                               /\ d.job = m.job /\ d.attempt = m.attempt
             \/ \E j \in 1..Len(log[RetryOf(m.job)]) :
                    log[RetryOf(m.job)][j] = NextAttempt(m)

(***************************************************************************)
(* No message is acknowledged to Kafka before a result, a dead letter or a *)
(* retry event exists for it, whatever crashes, evictions, expiries and    *)
(* failed publications happen (run: publish, save, commit in this order).  *)
(***************************************************************************)
NoEventDropped ==
    \A tp \in TopicPartition : \A i \in 1..Len(log[tp]) :
        i <= committed[tp] => Settled(tp, i)

(* A job a client can see as succeeded has its result in the result topic, *)
(* one that exhausted its attempts its dead letter (process publishes      *)
(* before it saves).                                                       *)
OutcomeWasPublished ==
    \A r \in RequestId : jobs[r] # NoJob =>
        /\ jobs[r].state = "succeeded" => results[r] # << >>
        /\ jobs[r].error = "processing_attempts_exhausted" =>
              \E d \in dlq : d.error = "processing_attempts_exhausted" /\ d.job = r

(* Only succeeded jobs are skipped, so an event that comes for a job that  *)
(* used up its attempts opens it again.  Such an event is never work still *)
(* due: whatever crashes, evictions and forked chains of retries there     *)
(* are, each event of the job has had its outcome by then, and what opens  *)
(* the job again is a redelivery of it.                                    *)
ExhaustedIsSettled ==
    \A r \in RequestId :
        jobs[r] # NoJob /\ jobs[r].error = "processing_attempts_exhausted" =>
            \A tp \in TopicPartition : \A i \in 1..Len(log[tp]) :
                log[tp][i] # Garbage /\ log[tp][i].job = r => Settled(tp, i)

(* The committed offset of a partition moves one message at a time: an     *)
(* evicted worker can neither rewind it nor skip a message.                *)
OffsetsAdvanceByOne ==
    [][\A tp \in TopicPartition : committed'[tp] \in {committed[tp], committed[tp] + 1}]_vars

(* The result a client polls is that of the content its job was accepted   *)
(* with: an event redelivered late never decides a later job of the id.    *)
ResultMatchesFingerprint ==
    \A r \in RequestId : jobs[r] # NoJob /\ jobs[r].state = "succeeded" =>
        jobs[r].result = jobs[r].fingerprint

\* The contents that were acknowledged or queued under a request id.
ContentsUnder(r) ==
    {q.content : q \in {p \in acked : p.job = r}} \cup
    UNION {{log[tp][i].content : i \in {j \in 1..Len(log[tp]) : log[tp][j] # Garbage /\ log[tp][j].job = r}}
             : tp \in TopicPartition}

(* All that was ever accepted or queued under one request id is of one      *)
(* content: clients that submit another get 409, and a publication that is *)
(* repeated repeats the event (create-if-absent plus the fingerprint).     *)
OneContentPerJob == \A r \in RequestId : Cardinality(ContentsUnder(r)) <= 1

\* Where the input topic holds an event submitted for job r.
Submissions(r) == {i \in 1..Len(log[InputOf(r)]) :
                      log[InputOf(r)][i] # Garbage /\ log[InputOf(r)][i].job = r}

(* Duplicates are the price of faults only.  A job is decided once for each *)
(* event that was submitted for it, and once more for each fault at most; *)
(* and only a job whose publication failed, or that expired, is submitted *)
(* again, by as many threads as saw it at the time.                        *)
DuplicatesNeedFaults ==
    \A r \in RequestId :
        LET submitted == Cardinality(Submissions(r))
        IN  /\ Len(results[r]) <= submitted + faults
            /\ submitted <= 1 + faults * Cardinality(Thread)

(* A client that saw a job succeed never sees it in another state again,   *)
(* short of its expiry.                                                    *)
SucceededIsFinal ==
    [][\A r \in RequestId : jobs[r] # NoJob /\ jobs[r].state = "succeeded" =>
           jobs'[r] = NoJob \/ jobs'[r].state = "succeeded"]_vars

(* A job that a client was told is accepted and that is not decided yet is *)
(* still going to be worked on.                                            *)
AcceptedJobIsPending ==
    \A q \in acked : jobs[q.job] # NoJob /\ jobs[q.job].state \in {"accepted", "processing"}
        => InProgress(q.job)

(* Polling an accepted job ends: it succeeds or fails (or expires).        *)
AcceptedJobIsDecided ==
    \A q \in Request : q \in acked ~>
        jobs[q.job] = NoJob \/ jobs[q.job].state \in {"succeeded", "failed"}

(* Kafka and Redis disagree about a decided job only for a while.          *)
DisagreementIsTemporary ==
    \A r \in RequestId : results[r] # << >> ~>
        jobs[r] = NoJob \/ jobs[r].state = "succeeded"

(* A crash before the commit redelivers; nothing is acknowledged early and *)
(* the backlog drains: the pipeline implements at-least-once delivery.     *)
Messages == UNION {{[tp |-> tp, offset |-> i] : i \in 1..Len(log[tp])} : tp \in TopicPartition}

Delivery == INSTANCE AtLeastOnceDelivery WITH
    published <- Messages,
    settled <- {p \in Messages : Settled(p.tp, p.offset)},
    acknowledged <- {p \in Messages : p.offset <= committed[p.tp]}

DeliversAtLeastOnce == Delivery!Spec

(* What a client polls follows the life cycle of a job and ends.           *)
Lifecycle == INSTANCE JobLifecycle WITH
    status <- [r \in RequestId |-> IF jobs[r] = NoJob THEN "absent" ELSE jobs[r].state]

FollowsLifecycle == Lifecycle!Spec
=============================================================================
