-------------------------- MODULE JobPipelineProofs --------------------------
(***************************************************************************)
(* Theorems about JobPipeline for every set of clients, workers, contents  *)
(* and partitions, every attempt budget and every choice and number of     *)
(* faults.                                                                 *)
(***************************************************************************)
EXTENDS JobPipeline, FiniteSetTheorems, TLAPS

\* A thread between two steps holds what the next step needs; what it will
\* save never shows a decided job.
Calling(t) ==
    /\ phase[t] # "idle" => request[t] \in Request
    /\ phase[t] \notin {"idle", "check"} =>
          /\ tjob[t] \in StoredJob
          /\ tjob[t].state # "succeeded"
          /\ tjob[t].error # "processing_attempts_exhausted"

\* Job r has a dead letter that says it used up its attempts.
DeadLettered(r) == \E d \in dlq : d.error = "processing_attempts_exhausted" /\ d.job = r

\* A busy worker handles an existing message, the next one to commit unless
\* the group has given its partition away; once it only has to save and
\* commit, the message is settled.
Handling(w) ==
    /\ held[w] \in Position
    /\ held[w].offset \in 1..Len(log[held[w].tp])
    /\ w \notin fenced => held[w].offset = committed[held[w].tp] + 1
    /\ step[w] = "reject" => EventOf(w) = Garbage
    /\ step[w] \notin {"reject", "commit"} => EventOf(w) \in Event
    /\ step[w] \in {"mark", "moderate", "saveSucceeded", "saveRetrying", "saveExhausted"} =>
          wjob[w] \in StoredJob /\ wjob[w].state = "processing" /\ wjob[w].error = NoError
    /\ step[w] \in {"saveSucceeded", "saveRetrying", "saveExhausted", "commit"} =>
          Settled(held[w].tp, held[w].offset)
    /\ step[w] = "saveSucceeded" => results[EventOf(w).job] # << >>
    /\ step[w] = "saveExhausted" => DeadLettered(EventOf(w).job)

\* Calls, workers and offsets of every thread, worker and partition are in order.
CallsOK == \A t \in Thread : Calling(t)
HandlingOK == \A w \in Worker : Busy(w) => Handling(w)
OffsetsOK == \A tp \in TopicPartition : committed[tp] <= Len(log[tp])
\* Two members of the group never handle messages of one partition.
OwnersExclusive == \A v, w \in Worker \ fenced :
                      v # w /\ Busy(v) /\ Busy(w) => held[v].tp # held[w].tp

\* The inductive invariant.
IInv == /\ TypeOK /\ CallsOK /\ HandlingOK /\ OffsetsOK /\ OwnersExclusive
        /\ NoEventDropped /\ OutcomeWasPublished

\* Topics only grow.
Grows == /\ \A tp \in TopicPartition :
               /\ Len(log[tp]) <= Len(log'[tp])
               /\ \A i \in 1..Len(log[tp]) : log'[tp][i] = log[tp][i]
         /\ dlq \subseteq dlq'
         /\ \A r \in RequestId : results[r] # << >> => results'[r] # << >>

\* A step leaves a job alone, removes it, or saves an outcome already published.
SavesPublished ==
    \A r \in RequestId :
        \/ jobs'[r] \in {jobs[r], NoJob}
        \/ /\ jobs'[r].state = "succeeded" => results'[r] # << >>
           /\ jobs'[r].error = "processing_attempts_exhausted" => DeadLettered(r)'

\* A worker's step is its own; it moves an offset only by committing the
\* message it holds as a member of the group.
OnlyItself(w) ==
    /\ \A v \in Worker \ {w} : /\ step'[v] = step[v] /\ held'[v] = held[v]
                               /\ wjob'[v] = wjob[v] /\ (v \in fenced' <=> v \in fenced)
    /\ \/ UNCHANGED committed
       \/ /\ step[w] = "commit" /\ w \notin fenced /\ ~Busy(w)'
          /\ committed' = [committed EXCEPT ![held[w].tp] = held[w].offset]

\* A step of worker w that keeps the types and what the worker must see to.
StepKeeps(w) == /\ InfrastructureTypeOK' /\ WorkerTypeOK' /\ Grows /\ SavesPublished
                /\ OnlyItself(w) /\ (Busy(w)' => Handling(w)')
-----------------------------------------------------------------------------
(* A saved record replaces the job of one request id, if there is one.     *)
LEMMA SaveKeepsType ==
    ASSUME InfrastructureTypeOK, NEW r \in RequestId, NEW job \in StoredJob, Save(r, job)
    PROVE  /\ jobs' \in [RequestId -> StoredJob \cup {NoJob}]
           /\ \A q \in RequestId : jobs'[q] = jobs[q] \/ (jobs'[q] = job /\ q = r)
BY DEF Save, InfrastructureTypeOK

(* A published message is the last of its partition; nothing else moves.   *)
LEMMA PublishAppends ==
    ASSUME InfrastructureTypeOK, NEW tp \in TopicPartition,
           NEW m \in Event \cup {Garbage}, Publish(tp, m)
    PROVE  /\ log' \in [TopicPartition -> Seq(Event \cup {Garbage})]
           /\ \A q \in TopicPartition :
                 /\ Len(log[q]) <= Len(log'[q])
                 /\ \A i \in 1..Len(log[q]) : log'[q][i] = log[q][i]
           /\ Len(log'[tp]) = Len(log[tp]) + 1
           /\ log'[tp][Len(log[tp]) + 1] = m
BY DEF Publish, InfrastructureTypeOK

(* The partition of a job's key, and the events made of an event or a call. *)
LEMMA JobsHavePartitions ==
    \A r \in RequestId : InputOf(r) \in TopicPartition /\ RetryOf(r) \in TopicPartition
<1> SUFFICES ASSUME NEW r \in RequestId
             PROVE  InputOf(r) \in TopicPartition /\ RetryOf(r) \in TopicPartition
    OBVIOUS
<1>1. PartitionOf[r] \in Partition
    BY PartitionAssumption
<1> QED
    BY <1>1 DEF InputOf, RetryOf, TopicPartition

\* The fields of an event, and the event of its next attempt.
LEMMA EventsHaveFields ==
    ASSUME NEW e \in Event
    PROVE  /\ e.job \in RequestId /\ e.content \in Content /\ e.attempt \in Nat
           /\ NextAttempt(e) \in Event
BY DEF Event, NextAttempt

\* The fields of a request, and the event that is published for it.
LEMMA RequestsHaveFields ==
    ASSUME NEW q \in Request
    PROVE  q.job \in RequestId /\ q.content \in Content /\ InputEvent(q) \in Event
BY DEF Request, InputEvent, Event

(* The records the code copies with updates are stored jobs again.         *)
LEMMA EditedJobs ==
    ASSUME NEW job \in StoredJob, NEW n \in Nat, NEW c \in Content
    PROVE  /\ [job EXCEPT !.state = "accepted", !.error = NoError] \in StoredJob
           /\ [job EXCEPT !.state = "failed", !.error = "queue_publish_failed"] \in StoredJob
           /\ [job EXCEPT !.state = "processing", !.attempt = n, !.error = NoError] \in StoredJob
           /\ [job EXCEPT !.state = "succeeded", !.error = NoError,
                          !.attempt = n, !.result = c] \in StoredJob
           /\ [job EXCEPT !.state = "accepted", !.attempt = n,
                          !.error = "processing_retry_scheduled"] \in StoredJob
           /\ [job EXCEPT !.state = "failed", !.attempt = n,
                          !.error = "processing_attempts_exhausted"] \in StoredJob
BY DEF StoredJob, State

-----------------------------------------------------------------------------
(* A service step keeps the types and what the threads hold, loses nothing *)
(* from a topic, and never saves an outcome that was not published.        *)
LEMMA ServiceStepEffect ==
    ASSUME TypeOK, CallsOK, ServiceNext
    PROVE  InfrastructureTypeOK' /\ ServiceTypeOK' /\ CallsOK' /\ Grows
           /\ SavesPublished /\ UNCHANGED committed
<1> DEFINE Goal == InfrastructureTypeOK' /\ ServiceTypeOK' /\ CallsOK' /\ Grows
                   /\ SavesPublished /\ UNCHANGED committed
<1> USE DEF TypeOK
<1>1. ASSUME NEW t \in Thread, NEW q \in Request, SubmitNew(t, q)
      PROVE  Goal
  <2> DEFINE job == [state |-> "accepted", attempt |-> 0, result |-> NoResult,
                     error |-> NoError, fingerprint |-> q.content]
  <2>1. q.job \in RequestId /\ job \in StoredJob
        BY <1>1, RequestsHaveFields DEF StoredJob, State
  <2>2. /\ jobs' = [jobs EXCEPT ![q.job] = job]
        /\ Enter(t, "publish", q, job)
        /\ UNCHANGED <<log, committed, results, dlq, faults, acked>>
        BY <1>1 DEF SubmitNew
  <2>3. InfrastructureTypeOK' /\ Grows
        BY <2>1, <2>2 DEF InfrastructureTypeOK, Grows
  <2>4. ServiceTypeOK'
        BY <2>1, <2>2 DEF Enter, ServiceTypeOK, Phase
  <2>5. job.state # "succeeded" /\ job.error # "processing_attempts_exhausted"
        BY ErrorAssumption
  <2>6. CallsOK'
        BY <2>1, <2>2, <2>5 DEF CallsOK, Calling, Enter, ServiceTypeOK
  <2>7. SavesPublished
        BY <2>1, <2>2, <2>5 DEF SavesPublished, InfrastructureTypeOK
  <2> QED
      BY <2>2, <2>3, <2>4, <2>6, <2>7
<1>2. ASSUME NEW t \in Thread, NEW q \in Request, SubmitExisting(t, q)
      PROVE  Goal
  <2>1. UNCHANGED <<infrastructureVars, acked>> /\ Enter(t, "check", q, NoJob)
        BY <1>2 DEF SubmitExisting
  <2>2. InfrastructureTypeOK' /\ Grows /\ SavesPublished /\ UNCHANGED committed
        BY <2>1 DEF infrastructureVars, InfrastructureTypeOK, Grows, SavesPublished
  <2>3. ServiceTypeOK' /\ CallsOK'
        BY <2>1 DEF Enter, ServiceTypeOK, Phase, CallsOK, Calling
  <2> QED
      BY <2>2, <2>3
<1>3. ASSUME NEW t \in Thread, CheckExisting(t)
      PROVE  Goal
  <2> DEFINE existing == jobs[request[t].job]
  <2>1. UNCHANGED infrastructureVars
        BY <1>3 DEF CheckExisting
  <2>2. InfrastructureTypeOK' /\ Grows /\ SavesPublished /\ UNCHANGED committed
        BY <2>1 DEF infrastructureVars, InfrastructureTypeOK, Grows, SavesPublished
  <2>3. request[t] \in Request /\ request[t].job \in RequestId
        BY <1>3, RequestsHaveFields DEF CheckExisting, CallsOK, Calling
  <2>4. CASE Refuse(t) \/ Answer202(t)
        BY <2>2, <2>3, <2>4 DEF Refuse, Answer202, Enter, ServiceTypeOK, Phase, CallsOK, Calling
  <2>5. CASE /\ existing # NoJob
             /\ existing.state = "failed" /\ existing.error = "queue_publish_failed"
             /\ Enter(t, "republish", request[t], existing) /\ UNCHANGED acked
    <3>1. existing \in StoredJob
          BY <2>3, <2>5 DEF InfrastructureTypeOK
    <3>2. ServiceTypeOK' /\ CallsOK'
          BY <2>3, <2>5, <3>1 DEF Enter, ServiceTypeOK, Phase, CallsOK, Calling
    <3> QED
        BY <2>2, <3>2
  <2> QED
      BY <1>3, <2>4, <2>5 DEF CheckExisting
<1>4. ASSUME NEW t \in Thread, phase[t] \in {"publish", "republish"},
             Publish(InputOf(request[t].job), InputEvent(request[t])) \/ UNCHANGED log,
             UNCHANGED <<jobs, committed, results, dlq>>, faults' \in 0..MaxFaults
      PROVE  InfrastructureTypeOK' /\ Grows /\ SavesPublished /\ request[t] \in Request
  <2>1. request[t] \in Request
        BY <1>4 DEF CallsOK, Calling
  <2>2. /\ InputOf(request[t].job) \in TopicPartition
        /\ InputEvent(request[t]) \in Event \cup {Garbage}
        BY <2>1, RequestsHaveFields, JobsHavePartitions
  <2>3. CASE Publish(InputOf(request[t].job), InputEvent(request[t]))
        BY <1>4, <2>1, <2>2, <2>3, PublishAppends
        DEF InfrastructureTypeOK, Grows, SavesPublished
  <2>4. CASE UNCHANGED log
        BY <1>4, <2>1, <2>4 DEF InfrastructureTypeOK, Grows, SavesPublished
  <2> QED
      BY <1>4, <2>3, <2>4
<1>5. ASSUME NEW t \in Thread, PublishInput(t)
      PROVE  Goal
  <2>1. InfrastructureTypeOK' /\ Grows /\ SavesPublished /\ request[t] \in Request
        BY <1>4, <1>5 DEF PublishInput, InfrastructureTypeOK
  <2>2. ServiceTypeOK' /\ CallsOK'
        BY <1>5, <2>1 DEF PublishInput, Enter, Answer202, ServiceTypeOK, Phase, CallsOK, Calling
  <2> QED
      BY <1>5, <2>1, <2>2 DEF PublishInput
<1>6. ASSUME NEW t \in Thread, PublishInputFails(t)
      PROVE  Goal
  <2>1. faults' \in 0..MaxFaults
        BY <1>6, FaultsAssumption DEF PublishInputFails, Fault, InfrastructureTypeOK
  <2>2. InfrastructureTypeOK' /\ Grows /\ SavesPublished /\ request[t] \in Request
        BY <1>4, <1>6, <2>1 DEF PublishInputFails
  <2>3. ServiceTypeOK' /\ CallsOK'
        BY <1>6, <2>2 DEF PublishInputFails, Enter, ServiceTypeOK, Phase, CallsOK, Calling
  <2> QED
      BY <1>6, <2>2, <2>3 DEF PublishInputFails
<1>7. ASSUME NEW t \in Thread, phase[t] \in {"accept", "fail"},
             NEW job \in StoredJob, Save(request[t].job, job), job.state # "succeeded",
             job.error # "processing_attempts_exhausted",
             Refuse(t) \/ Answer202(t), UNCHANGED <<log, committed, results, dlq, faults>>
      PROVE  Goal
  <2>1. request[t] \in Request /\ request[t].job \in RequestId
        BY <1>7, RequestsHaveFields DEF CallsOK, Calling
  <2>2. InfrastructureTypeOK' /\ Grows /\ SavesPublished
        BY <1>7, <2>1, SaveKeepsType DEF InfrastructureTypeOK, Grows, SavesPublished
  <2>3. ServiceTypeOK' /\ CallsOK'
        BY <1>7, <2>1 DEF Refuse, Answer202, Enter, ServiceTypeOK, Phase, CallsOK, Calling
  <2> QED
      BY <1>7, <2>2, <2>3
<1>8. ASSUME NEW t \in Thread, SaveAccepted(t)
      PROVE  Goal
  <2> DEFINE job == [tjob[t] EXCEPT !.state = "accepted", !.error = NoError]
  <2>1. tjob[t] \in StoredJob
        BY <1>8 DEF SaveAccepted, CallsOK, Calling
  <2>2. job \in StoredJob /\ job.state = "accepted" /\ job.error = NoError
        BY <2>1 DEF StoredJob, State
  <2> QED
      BY <1>7, <1>8, <2>2, ErrorAssumption DEF SaveAccepted
<1>9. ASSUME NEW t \in Thread, SavePublishFailed(t)
      PROVE  Goal
  <2> DEFINE job == [tjob[t] EXCEPT !.state = "failed", !.error = "queue_publish_failed"]
  <2>1. tjob[t] \in StoredJob
        BY <1>9 DEF SavePublishFailed, CallsOK, Calling
  <2>2. job \in StoredJob /\ job.state = "failed" /\ job.error = "queue_publish_failed"
        BY <2>1 DEF StoredJob, State
  <2> QED
      BY <1>7, <1>9, <2>2 DEF SavePublishFailed
<1>10. ASSUME NEW t \in Thread, AbandonCall(t)
       PROVE  Goal
  <2>1. Refuse(t) /\ UNCHANGED <<jobs, log, committed, results, dlq>> /\ faults' \in 0..MaxFaults
        BY <1>10, FaultsAssumption DEF AbandonCall, Fault, InfrastructureTypeOK
  <2>2. InfrastructureTypeOK' /\ Grows /\ SavesPublished
        BY <2>1 DEF InfrastructureTypeOK, Grows, SavesPublished
  <2>3. ServiceTypeOK' /\ CallsOK'
        BY <2>1 DEF Refuse, Enter, ServiceTypeOK, Phase, CallsOK, Calling
  <2> QED
      BY <2>1, <2>2, <2>3
<1> QED
    BY <1>1, <1>2, <1>3, <1>5, <1>6, <1>8, <1>9, <1>10 DEF ServiceNext, ServiceStep
-----------------------------------------------------------------------------
(* A settled message stays settled while the topics grow.                  *)
LEMMA SettledIsStable ==
    ASSUME InfrastructureTypeOK, InfrastructureTypeOK', Grows,
           NEW tp \in TopicPartition, NEW i \in 1..Len(log[tp]), Settled(tp, i)
    PROVE  Settled(tp, i)'
<1> DEFINE m == log[tp][i]
<1>1. m \in Event \cup {Garbage} /\ log'[tp][i] = m
      BY DEF InfrastructureTypeOK, Grows
<1>2. CASE m = Garbage
      BY <1>1, <1>2 DEF Settled, Grows
<1>3. CASE m # Garbage
  <2>1. m.job \in RequestId /\ RetryOf(m.job) \in TopicPartition
        BY <1>1, <1>3, EventsHaveFields, JobsHavePartitions
  <2>2. CASE results[m.job] # << >>
        BY <1>1, <1>3, <2>1, <2>2 DEF Settled, Grows
  <2>3. CASE \E d \in dlq : d.error # "invalid_event_schema"
                            /\ d.job = m.job /\ d.attempt = m.attempt
        BY <1>1, <1>3, <2>3 DEF Settled, Grows
  <2>4. CASE \E j \in 1..Len(log[RetryOf(m.job)]) : log[RetryOf(m.job)][j] = NextAttempt(m)
    <3>1. PICK j \in 1..Len(log[RetryOf(m.job)]) : log[RetryOf(m.job)][j] = NextAttempt(m)
          BY <2>4
    <3>2. /\ j \in 1..Len(log'[RetryOf(m.job)])
          /\ log'[RetryOf(m.job)][j] = NextAttempt(m)
      <4>1. PICK q \in TopicPartition : q = RetryOf(m.job)
            BY <2>1
      <4>2. /\ Len(log[q]) \in Nat /\ Len(log'[q]) \in Nat /\ Len(log[q]) <= Len(log'[q])
            /\ \A k \in 1..Len(log[q]) : log'[q][k] = log[q][k]
        <5>1. log[q] \in Seq(Event \cup {Garbage}) /\ log'[q] \in Seq(Event \cup {Garbage})
              BY DEF InfrastructureTypeOK
        <5>2. /\ Len(log[q]) <= Len(log'[q])
              /\ \A k \in 1..Len(log[q]) : log'[q][k] = log[q][k]
              BY DEF Grows
        <5> QED
            BY <5>1, <5>2
      <4>3. j \in 1..Len(log[q]) /\ log[q][j] = NextAttempt(m)
            BY <3>1, <4>1
      <4>4. j \in 1..Len(log'[q]) /\ log'[q][j] = NextAttempt(m)
            BY <4>2, <4>3
      <4> QED
          BY <4>1, <4>4
    <3> QED
        BY <1>1, <1>3, <3>2 DEF Settled, RetryOf
  <2> QED
      BY <1>3, <2>2, <2>3, <2>4 DEF Settled
<1> QED
    BY <1>2, <1>3

(* While a worker handles a message, the message stays where it is.        *)
LEMMA PositionIsStable ==
    ASSUME InfrastructureTypeOK, InfrastructureTypeOK', Grows, NEW w \in Worker, Handling(w),
           held'[w] = held[w]
    PROVE  /\ held'[w] \in Position
           /\ held'[w].offset \in 1..Len(log'[held'[w].tp])
           /\ held[w].tp \in TopicPartition
           /\ EventOf(w)' = EventOf(w)
           /\ EventOf(w) \in Event \cup {Garbage}
           /\ Settled(held[w].tp, held[w].offset) => Settled(held[w].tp, held[w].offset)'
<1>1. held[w] \in Position /\ held[w].tp \in TopicPartition
      /\ held[w].offset \in 1..Len(log[held[w].tp])
      BY DEF Handling, Position
<1>2. held[w].offset \in 1..Len(log'[held[w].tp])
      BY <1>1 DEF Grows, InfrastructureTypeOK
<1>3. EventOf(w)' = EventOf(w) /\ EventOf(w) \in Event \cup {Garbage}
      BY <1>1 DEF EventOf, MessageAt, Grows, InfrastructureTypeOK
<1>4. Settled(held[w].tp, held[w].offset) => Settled(held[w].tp, held[w].offset)'
      BY <1>1, SettledIsStable
<1> QED
    BY <1>1, <1>2, <1>3, <1>4

(* What a worker's action has to establish: the shared state first, then   *)
(* that the worker still handles its message, one lemma per kind of step.  *)
LEMMA FinishKeeps ==
    ASSUME TypeOK, NEW w \in Worker, Handling(w), InfrastructureTypeOK', Grows, SavesPublished,
           UNCHANGED committed, Finish(w), Settled(held[w].tp, held[w].offset)'
    PROVE  StepKeeps(w)
<1>1. WorkerTypeOK' /\ OnlyItself(w)
      BY DEF TypeOK, WorkerTypeOK, Finish, Go, Step, OnlyItself
<1>2. step'[w] = "commit" /\ held' = held /\ fenced' = fenced
      BY DEF TypeOK, WorkerTypeOK, Finish, Go
<1>3. Handling(w)'
      BY <1>2, PositionIsStable DEF Handling, TypeOK
<1> QED
    BY <1>1, <1>3 DEF StepKeeps

\* A worker that lets go of its message, by its commit or for good, keeps its part.
LEMMA ReleaseKeeps ==
    ASSUME TypeOK, NEW w \in Worker, NEW s \in {"idle", "down"}, InfrastructureTypeOK',
           Grows, SavesPublished, Release(w, s),
           \/ UNCHANGED committed
           \/ /\ step[w] = "commit" /\ w \notin fenced
              /\ committed' = [committed EXCEPT ![held[w].tp] = held[w].offset]
    PROVE  StepKeeps(w)
<1>1. step'[w] = s /\ WorkerTypeOK'
      BY DEF TypeOK, WorkerTypeOK, Release, Go, Step
<1>2. ~Busy(w)'
      BY <1>1 DEF Busy
<1>3. OnlyItself(w)
      BY <1>2 DEF TypeOK, WorkerTypeOK, Release, Go, OnlyItself
<1> QED
    BY <1>1, <1>2, <1>3 DEF StepKeeps

\* A worker that goes on to a step before its commit keeps its part if that step's needs are met.
LEMMA GoKeeps ==
    ASSUME TypeOK, NEW w \in Worker, Handling(w), InfrastructureTypeOK', Grows, SavesPublished,
           NEW s \in {"missing", "mark", "moderate", "saveSucceeded", "saveRetrying", "saveExhausted"},
           UNCHANGED <<committed, held, fenced>>, Go(w, s), EventOf(w) # Garbage,
           wjob' \in [Worker -> StoredJob \cup {NoJob}],
           \A v \in Worker \ {w} : wjob'[v] = wjob[v],
           s # "missing" => /\ wjob'[w] \in StoredJob
                            /\ wjob'[w].state = "processing" /\ wjob'[w].error = NoError,
           s \notin {"missing", "mark", "moderate"} => Settled(held[w].tp, held[w].offset)',
           s = "saveSucceeded" => results'[EventOf(w).job] # << >>,
           s = "saveExhausted" => DeadLettered(EventOf(w).job)'
    PROVE  StepKeeps(w)
<1>1. WorkerTypeOK' /\ OnlyItself(w)
      BY DEF TypeOK, WorkerTypeOK, Go, Step, OnlyItself
<1>2. step'[w] = s
      BY DEF TypeOK, WorkerTypeOK, Go
<1>3. EventOf(w)' = EventOf(w) /\ EventOf(w) \in Event
      BY PositionIsStable DEF TypeOK
<1>4. /\ held'[w] \in Position
      /\ held'[w].offset \in 1..Len(log'[held'[w].tp])
      /\ w \notin fenced' => held'[w].offset = committed'[held'[w].tp] + 1
      BY PositionIsStable DEF TypeOK, Handling
<1>5. Handling(w)'
      BY <1>2, <1>3, <1>4 DEF Handling, DeadLettered
<1> QED
    BY <1>1, <1>5 DEF StepKeeps

(* Each action of a worker keeps the types, loses nothing from a topic,    *)
(* publishes an outcome before saving it, and settles the message before   *)
(* it comes to the commit.                                                 *)
LEMMA WorkerStepEffect ==
    ASSUME TypeOK, HandlingOK, OutcomeWasPublished, NEW w \in Worker,
           \/ WorkerStep(w) \/ WorkerCrash(w) \/ Shutdown(w) \/ Evict(w)
    PROVE  StepKeeps(w)
<1> USE DEF TypeOK
<1>1. ASSUME NEW tp \in TopicPartition, Poll(w, tp)
      PROVE  StepKeeps(w)
  <2> DEFINE position == [tp |-> tp, offset |-> committed[tp] + 1]
  <2>1. position \in Position /\ position.offset \in 1..Len(log[tp])
        BY <1>1 DEF Poll, Position, InfrastructureTypeOK
  <2>2. MessageAt(position) \in Event \cup {Garbage}
        BY <2>1 DEF MessageAt, InfrastructureTypeOK
  <2>3. /\ held'[w] = position
        /\ step'[w] = IF MessageAt(position) = Garbage THEN "reject" ELSE "load"
        /\ UNCHANGED <<infrastructureVars, wjob, fenced>>
        BY <1>1 DEF Poll, Go, WorkerTypeOK
  <2>4. InfrastructureTypeOK' /\ Grows /\ SavesPublished /\ UNCHANGED committed
        BY <2>3 DEF infrastructureVars, InfrastructureTypeOK, Grows, SavesPublished
  <2>5. WorkerTypeOK' /\ OnlyItself(w)
        BY <1>1, <2>1, <2>4 DEF Poll, Go, WorkerTypeOK, Step, OnlyItself
  <2>6. EventOf(w)' = MessageAt(position)
        BY <2>3 DEF EventOf, MessageAt, infrastructureVars
  <2>7. Handling(w)'
        BY <2>1, <2>2, <2>3, <2>6 DEF Handling, infrastructureVars
  <2> QED
      BY <2>4, <2>5, <2>7 DEF StepKeeps
<1>2. ASSUME Busy(w)
      PROVE  /\ Handling(w) /\ held[w].tp \in TopicPartition /\ held[w].offset \in Nat
             /\ held[w].offset \in 1..Len(log[held[w].tp])
             /\ EventOf(w) = log[held[w].tp][held[w].offset]
      BY <1>2 DEF HandlingOK, Handling, Position, EventOf, MessageAt
<1>3. ASSUME step[w] \in {"load", "missing", "mark", "moderate",
                         "saveSucceeded", "saveRetrying", "saveExhausted"}
      PROVE  /\ Handling(w) /\ EventOf(w) \in Event /\ EventOf(w) # Garbage
             /\ EventOf(w).job \in RequestId /\ EventOf(w).content \in Content
             /\ EventOf(w).attempt \in Nat /\ EventOf(w).attempt + 1 \in Nat
  <2>1. Handling(w) /\ EventOf(w) \in Event
        BY <1>2, <1>3 DEF Busy, Handling
  <2> QED
      BY <2>1, EventsHaveFields, SentinelAssumption
<1>4. ASSUME RejectInvalid(w)
      PROVE  StepKeeps(w)
  <2> DEFINE d == [source |-> held[w].tp, offset |-> held[w].offset,
                   error |-> "invalid_event_schema"]
  <2>1. step[w] = "reject" /\ dlq' = dlq \cup {d} /\ Finish(w)
        /\ UNCHANGED <<jobs, log, committed, results, faults>>
        BY <1>4 DEF RejectInvalid
  <2>2. Handling(w) /\ held[w].tp \in TopicPartition /\ held[w].offset \in Nat
        /\ EventOf(w) = Garbage /\ EventOf(w) = log[held[w].tp][held[w].offset]
        BY <1>2, <2>1 DEF Busy, Handling
  <2>3. d \in DeadLetter
        BY <2>2 DEF DeadLetter
  <2>4. InfrastructureTypeOK' /\ Grows /\ SavesPublished
        BY <2>1, <2>3 DEF InfrastructureTypeOK, Grows, SavesPublished
  <2>5. Settled(held[w].tp, held[w].offset)'
        BY <2>1, <2>2 DEF Settled, Finish
  <2> QED
      BY <2>1, <2>2, <2>4, <2>5, FinishKeeps
<1>5. ASSUME LoadJob(w)
      PROVE  StepKeeps(w)
  <2> DEFINE stored == jobs[EventOf(w).job]
             marked == [stored EXCEPT !.state = "processing",
                                      !.attempt = EventOf(w).attempt, !.error = NoError]
  <2>1. step[w] = "load" /\ UNCHANGED infrastructureVars
        BY <1>5 DEF LoadJob
  <2>2. InfrastructureTypeOK' /\ Grows /\ SavesPublished /\ UNCHANGED committed
        BY <2>1 DEF infrastructureVars, InfrastructureTypeOK, Grows, SavesPublished
  <2>3. CASE Go(w, "missing") /\ UNCHANGED <<held, wjob, fenced>>
        BY <1>3, <2>1, <2>2, <2>3, GoKeeps DEF WorkerTypeOK
  <2>4. CASE stored # NoJob /\ stored.state = "succeeded" /\ Finish(w)
    <3>1. results[EventOf(w).job] # << >>
          BY <1>3, <2>1, <2>4 DEF OutcomeWasPublished
    <3>2. Settled(held[w].tp, held[w].offset)'
          BY <1>2, <1>3, <2>1, <2>4, <3>1 DEF Settled, Busy, infrastructureVars, Finish
    <3> QED
        BY <1>3, <2>1, <2>2, <2>4, <3>2, FinishKeeps
  <2>5. CASE /\ stored # NoJob
             /\ wjob' = [wjob EXCEPT ![w] = marked]
             /\ Go(w, "mark") /\ UNCHANGED <<held, fenced>>
    <3>1. stored \in StoredJob
          BY <1>3, <2>1, <2>5 DEF InfrastructureTypeOK
    <3>2. marked \in StoredJob
          BY <1>3, <2>1, <3>1, EditedJobs
    <3>3. marked.state = "processing" /\ marked.error = NoError
          BY <3>1 DEF StoredJob
    <3>4. /\ wjob' \in [Worker -> StoredJob \cup {NoJob}] /\ wjob'[w] = marked
          /\ \A v \in Worker \ {w} : wjob'[v] = wjob[v]
          BY <2>5, <3>2 DEF WorkerTypeOK
    <3> HIDE DEF marked
    <3> QED
        BY <1>3, <2>1, <2>2, <2>5, <3>2, <3>3, <3>4, GoKeeps
  <2> QED
      BY <1>5, <2>3, <2>4, <2>5 DEF LoadJob
<1>6. ASSUME NEW d \in DeadLetter, dlq' = dlq \cup {d}, d.error # "invalid_event_schema",
             step[w] \in {"missing", "moderate"},
             d.job = EventOf(w).job, d.attempt = EventOf(w).attempt,
             UNCHANGED <<jobs, log, committed, results, faults, held>>
      PROVE  /\ InfrastructureTypeOK' /\ Grows /\ SavesPublished
             /\ Settled(held[w].tp, held[w].offset)'
  <2>1. InfrastructureTypeOK' /\ Grows /\ SavesPublished
        BY <1>6 DEF InfrastructureTypeOK, Grows, SavesPublished
  <2>2. d \in dlq' /\ EventOf(w) = log'[held'[w].tp][held'[w].offset]
        BY <1>2, <1>6 DEF Busy
  <2>3. Settled(held[w].tp, held[w].offset)'
        BY <1>3, <1>6, <2>2 DEF Settled
  <2> QED
      BY <2>1, <2>3
<1>7. ASSUME DeadLetterMissing(w)
      PROVE  StepKeeps(w)
  <2> DEFINE d == [job |-> EventOf(w).job, attempt |-> EventOf(w).attempt,
                   error |-> "missing_job_state"]
  <2>1. /\ step[w] = "missing" /\ dlq' = dlq \cup {d} /\ Finish(w)
        /\ UNCHANGED <<jobs, log, committed, results, faults, held>>
        BY <1>7 DEF DeadLetterMissing, Finish
  <2>2. d \in DeadLetter /\ Handling(w)
        BY <1>3, <2>1 DEF DeadLetter
  <2>3. /\ InfrastructureTypeOK' /\ Grows /\ SavesPublished
        /\ Settled(held[w].tp, held[w].offset)'
        BY <1>6, <2>1, <2>2
  <2> QED
      BY <2>1, <2>2, <2>3, FinishKeeps
<1>8. ASSUME MarkProcessing(w)
      PROVE  StepKeeps(w)
  <2>1. /\ step[w] = "mark" /\ Save(EventOf(w).job, wjob[w]) /\ Go(w, "moderate")
        /\ UNCHANGED <<log, committed, results, dlq, faults, held, wjob, fenced>>
        BY <1>8 DEF MarkProcessing
  <2>2. wjob[w] \in StoredJob /\ wjob[w].state = "processing" /\ wjob[w].error = NoError
        BY <1>3, <2>1 DEF Handling
  <2>3. InfrastructureTypeOK' /\ Grows /\ SavesPublished
        BY <1>3, <2>1, <2>2, SaveKeepsType, ErrorAssumption
        DEF InfrastructureTypeOK, Grows, SavesPublished
  <2> QED
      BY <1>3, <2>1, <2>2, <2>3, GoKeeps DEF WorkerTypeOK
<1>9. ASSUME step[w] = "moderate", NEW s \in {"saveSucceeded", "saveRetrying", "saveExhausted"},
             Go(w, s), InfrastructureTypeOK', Grows, SavesPublished,
             UNCHANGED <<committed, held, wjob, fenced>>, Settled(held[w].tp, held[w].offset)',
             s = "saveSucceeded" => results'[EventOf(w).job] # << >>,
             s = "saveExhausted" => DeadLettered(EventOf(w).job)'
      PROVE  StepKeeps(w)
  <2>1. wjob[w] \in StoredJob /\ wjob[w].state = "processing" /\ wjob[w].error = NoError
        BY <1>3, <1>9 DEF Handling
  <2> QED
      BY <1>3, <1>9, <2>1, GoKeeps DEF WorkerTypeOK
<1>10. ASSUME PublishResult(w)
       PROVE  StepKeeps(w)
  <2>1. /\ step[w] = "moderate" /\ Go(w, "saveSucceeded")
        /\ results' = [results EXCEPT ![EventOf(w).job] = Append(@, EventOf(w).content)]
        /\ UNCHANGED <<jobs, log, committed, dlq, faults, held, wjob, fenced>>
        BY <1>10 DEF PublishResult
  <2>2. /\ results' \in [RequestId -> Seq(Content)]
        /\ results'[EventOf(w).job] # << >>
        /\ \A r \in RequestId : results[r] # << >> => results'[r] # << >>
    <3> DEFINE one == Append(results[EventOf(w).job], EventOf(w).content)
    <3>1. results \in [RequestId -> Seq(Content)]
          BY DEF InfrastructureTypeOK
    <3>2. one \in Seq(Content) /\ Len(one) = Len(results[EventOf(w).job]) + 1
          BY <1>3, <2>1, <3>1
    <3>3. one # << >>
      <4>1. Len(results[EventOf(w).job]) \in Nat
            BY <1>3, <2>1, <3>1
      <4> HIDE DEF one
      <4>2. Len(one) # 0
            BY <3>2, <4>1
      <4> QED
          BY <4>2
    <3> HIDE DEF one
    <3>4. results' = [results EXCEPT ![EventOf(w).job] = one]
          BY <2>1 DEF one
    <3> QED
        BY <1>3, <2>1, <3>1, <3>2, <3>3, <3>4
  <2>3. InfrastructureTypeOK' /\ Grows /\ SavesPublished
        BY <2>1, <2>2 DEF InfrastructureTypeOK, Grows, SavesPublished
  <2>4. Settled(held[w].tp, held[w].offset)'
        BY <1>2, <1>3, <2>1, <2>2 DEF Settled, Busy
  <2> QED
      BY <1>9, <2>1, <2>2, <2>3, <2>4
<1>11. ASSUME PublishRetry(w)
       PROVE  StepKeeps(w)
  <2> DEFINE tp == RetryOf(EventOf(w).job)
  <2>1. /\ step[w] = "moderate" /\ Go(w, "saveRetrying")
        /\ Publish(tp, NextAttempt(EventOf(w)))
        /\ UNCHANGED <<jobs, committed, results, dlq, faults, held, wjob, fenced>>
        BY <1>11 DEF PublishRetry
  <2>2. tp \in TopicPartition /\ NextAttempt(EventOf(w)) \in Event \cup {Garbage}
        BY <1>3, <2>1, EventsHaveFields, JobsHavePartitions
  <2>3. /\ log' \in [TopicPartition -> Seq(Event \cup {Garbage})]
        /\ \A q \in TopicPartition :
              /\ Len(log[q]) <= Len(log'[q])
              /\ \A i \in 1..Len(log[q]) : log'[q][i] = log[q][i]
        /\ Len(log'[tp]) = Len(log[tp]) + 1
        /\ log'[tp][Len(log[tp]) + 1] = NextAttempt(EventOf(w))
        BY <2>1, <2>2, PublishAppends
  <2>4. InfrastructureTypeOK' /\ Grows /\ SavesPublished
        BY <2>1, <2>3 DEF InfrastructureTypeOK, Grows, SavesPublished
  <2>5. EventOf(w) = log'[held'[w].tp][held'[w].offset]
        BY <1>2, <2>1, <2>3 DEF Busy
  <2>6. \E j \in 1..Len(log'[tp]) : log'[tp][j] = NextAttempt(EventOf(w))
    <3>1. Len(log[tp]) + 1 \in 1..Len(log'[tp])
          BY <2>2, <2>3 DEF InfrastructureTypeOK
    <3> QED
        BY <2>3, <3>1
  <2>7. Settled(held[w].tp, held[w].offset)'
        BY <1>3, <2>1, <2>5, <2>6 DEF Settled, RetryOf
  <2> QED
      BY <1>9, <2>1, <2>4, <2>7
<1>12. ASSUME DeadLetterExhausted(w)
       PROVE  StepKeeps(w)
  <2> DEFINE d == [job |-> EventOf(w).job, attempt |-> EventOf(w).attempt,
                   error |-> "processing_attempts_exhausted"]
  <2>1. /\ step[w] = "moderate" /\ dlq' = dlq \cup {d} /\ Go(w, "saveExhausted")
        /\ UNCHANGED <<jobs, log, committed, results, faults, held, wjob, fenced>>
        BY <1>12 DEF DeadLetterExhausted
  <2>2. d \in DeadLetter
        BY <1>3, <2>1 DEF DeadLetter
  <2>3. /\ InfrastructureTypeOK' /\ Grows /\ SavesPublished
        /\ Settled(held[w].tp, held[w].offset)'
        BY <1>6, <2>1, <2>2
  <2>4. EventOf(w)' = EventOf(w)
        BY <2>1 DEF EventOf, MessageAt
  <2>5. DeadLettered(EventOf(w).job)'
    <3>1. d \in dlq' /\ d.error = "processing_attempts_exhausted" /\ d.job = EventOf(w)'.job
          BY <2>1, <2>4
    <3> QED
        BY <3>1 DEF DeadLettered
  <2> QED
      BY <1>9, <2>1, <2>3, <2>5
<1>13. ASSUME step[w] \in {"saveSucceeded", "saveRetrying", "saveExhausted"},
              NEW job \in StoredJob, Save(EventOf(w).job, job), Finish(w),
              UNCHANGED <<log, committed, results, dlq, faults>>,
              job.state = "succeeded" => results[EventOf(w).job] # << >>,
              job.error = "processing_attempts_exhausted" => DeadLettered(EventOf(w).job)
       PROVE  StepKeeps(w)
  <2>1. InfrastructureTypeOK' /\ Grows
        BY <1>3, <1>13, SaveKeepsType DEF InfrastructureTypeOK, Grows
  <2>2. SavesPublished
        BY <1>3, <1>13, SaveKeepsType DEF SavesPublished, DeadLettered
  <2>3. Settled(held[w].tp, held[w].offset)'
        BY <1>3, <1>13, <2>1, PositionIsStable DEF Handling, Finish
  <2> QED
      BY <1>3, <1>13, <2>1, <2>2, <2>3, FinishKeeps
<1>14. ASSUME step[w] \in {"saveSucceeded", "saveRetrying", "saveExhausted"}
       PROVE  wjob[w] \in StoredJob
       BY <1>3, <1>14 DEF Handling
<1>15. ASSUME SaveSucceeded(w)
       PROVE  StepKeeps(w)
  <2> DEFINE job == [wjob[w] EXCEPT !.state = "succeeded", !.error = NoError,
                                    !.attempt = EventOf(w).attempt, !.result = EventOf(w).content]
  <2>1. job \in StoredJob
        BY <1>3, <1>14, <1>15, EditedJobs DEF SaveSucceeded
  <2>2. job.error = NoError
        BY <1>14, <1>15 DEF SaveSucceeded, StoredJob
  <2>3. results[EventOf(w).job] # << >>
        BY <1>3, <1>15 DEF SaveSucceeded, Handling
  <2> QED
      BY <1>13, <1>15, <2>1, <2>2, <2>3, ErrorAssumption DEF SaveSucceeded
<1>16. ASSUME SaveRetrying(w)
       PROVE  StepKeeps(w)
  <2> DEFINE job == [wjob[w] EXCEPT !.state = "accepted", !.attempt = EventOf(w).attempt + 1,
                                    !.error = "processing_retry_scheduled"]
  <2>1. job \in StoredJob
        BY <1>3, <1>14, <1>16, EditedJobs DEF SaveRetrying
  <2>2. job.error = "processing_retry_scheduled" /\ job.state = "accepted"
        BY <1>14, <1>16 DEF SaveRetrying, StoredJob
  <2> QED
      BY <1>13, <1>16, <2>1, <2>2 DEF SaveRetrying
<1>17. ASSUME SaveExhausted(w)
       PROVE  StepKeeps(w)
  <2> DEFINE job == [wjob[w] EXCEPT !.state = "failed", !.attempt = EventOf(w).attempt,
                                    !.error = "processing_attempts_exhausted"]
  <2>1. job \in StoredJob
        BY <1>3, <1>14, <1>17, EditedJobs DEF SaveExhausted
  <2>2. job.state = "failed"
        BY <1>14, <1>17 DEF SaveExhausted, StoredJob
  <2>3. DeadLettered(EventOf(w).job)
        BY <1>3, <1>17 DEF SaveExhausted, Handling
  <2> QED
      BY <1>13, <1>17, <2>1, <2>2, <2>3 DEF SaveExhausted
<1>18. ASSUME Commit(w)
       PROVE  StepKeeps(w)
  <2>1. /\ step[w] = "commit" /\ w \notin fenced /\ Release(w, "idle")
        /\ committed' = [committed EXCEPT ![held[w].tp] = held[w].offset]
        /\ UNCHANGED <<jobs, log, results, dlq, faults>>
        BY <1>18 DEF Commit
  <2>2. held[w].tp \in TopicPartition /\ held[w].offset \in Nat
        BY <1>2, <2>1 DEF Busy
  <2>3. InfrastructureTypeOK' /\ Grows /\ SavesPublished
        BY <2>1, <2>2 DEF InfrastructureTypeOK, Grows, SavesPublished
  <2> QED
      BY <2>1, <2>3, ReleaseKeeps
<1>19. ASSUME UNCHANGED <<jobs, log, committed, results, dlq>>, faults' \in 0..MaxFaults,
              NEW s \in {"idle", "down"}, Release(w, s)
       PROVE  StepKeeps(w)
  <2>1. InfrastructureTypeOK' /\ Grows /\ SavesPublished
        BY <1>19 DEF InfrastructureTypeOK, Grows, SavesPublished
  <2> QED
      BY <1>19, <2>1, ReleaseKeeps
<1>20. CASE CommitRefused(w) \/ Restart(w)
       BY <1>19, <1>20 DEF CommitRefused, Restart, infrastructureVars, InfrastructureTypeOK
<1>21. ASSUME NEW kind, Fault(kind)
       PROVE  faults' \in 0..MaxFaults
       BY <1>21, FaultsAssumption DEF Fault, InfrastructureTypeOK
<1>22. CASE WorkerCrash(w) \/ Shutdown(w)
       BY <1>19, <1>21, <1>22 DEF WorkerCrash, Shutdown
<1>23. CASE Evict(w)
  <2>1. /\ Busy(w) /\ faults' \in 0..MaxFaults /\ fenced' = fenced \cup {w}
        /\ UNCHANGED <<jobs, log, committed, results, dlq, step, held, wjob>>
        BY <1>21, <1>23 DEF Evict
  <2>2. InfrastructureTypeOK' /\ Grows /\ SavesPublished
        BY <2>1 DEF InfrastructureTypeOK, Grows, SavesPublished
  <2>3. WorkerTypeOK' /\ OnlyItself(w)
        BY <2>1 DEF WorkerTypeOK, OnlyItself
  <2>4. Handling(w)'
        BY <1>2, <2>1, <2>2, PositionIsStable DEF Handling, DeadLettered
  <2> QED
      BY <2>2, <2>3, <2>4 DEF StepKeeps
<1> QED
    BY <1>1, <1>4, <1>5, <1>7, <1>8, <1>10, <1>11, <1>12, <1>15, <1>16, <1>17, <1>18,
       <1>20, <1>22, <1>23 DEF WorkerStep, Handle
-----------------------------------------------------------------------------
(* Published outcomes stay published, so what was saved stays justified.   *)
LEMMA OutcomesStayPublished ==
    ASSUME InfrastructureTypeOK, OutcomeWasPublished, Grows, SavesPublished
    PROVE  OutcomeWasPublished'
<1> SUFFICES ASSUME NEW r \in RequestId, jobs'[r] # NoJob
             PROVE  /\ jobs'[r].state = "succeeded" => results'[r] # << >>
                    /\ jobs'[r].error = "processing_attempts_exhausted" => DeadLettered(r)'
    BY DEF OutcomeWasPublished, DeadLettered
<1>1. CASE jobs'[r] = jobs[r]
      BY <1>1 DEF OutcomeWasPublished, Grows, DeadLettered
<1>2. CASE jobs'[r] # jobs[r]
      BY <1>2 DEF SavesPublished
<1> QED
    BY <1>1, <1>2

(* Settled messages stay settled and no offset runs ahead when none moves. *)
LEMMA OffsetsStayBehind ==
    ASSUME InfrastructureTypeOK, InfrastructureTypeOK', OffsetsOK, NoEventDropped, Grows,
           UNCHANGED committed
    PROVE  OffsetsOK' /\ NoEventDropped'
<1>1. OffsetsOK'
      BY DEF OffsetsOK, Grows, InfrastructureTypeOK
<1>2. ASSUME NEW tp \in TopicPartition, NEW i \in 1..Len(log'[tp]), i <= committed'[tp]
      PROVE  Settled(tp, i)'
  <2>1. i \in 1..Len(log[tp]) /\ i <= committed[tp]
        BY <1>2 DEF OffsetsOK, InfrastructureTypeOK
  <2> QED
      BY <2>1, SettledIsStable DEF NoEventDropped
<1> QED
    BY <1>1, <1>2 DEF NoEventDropped

(* A message some worker holds is not disturbed by the steps of others.    *)
LEMMA OthersKeepHandling ==
    ASSUME InfrastructureTypeOK, InfrastructureTypeOK', Grows, NEW v \in Worker, Handling(v),
           step'[v] = step[v], held'[v] = held[v], wjob'[v] = wjob[v], v \in fenced' <=> v \in fenced,
           v \notin fenced => committed'[held[v].tp] = committed[held[v].tp]
    PROVE  Handling(v)'
<1>1. /\ held'[v] \in Position /\ held'[v].offset \in 1..Len(log'[held'[v].tp])
      /\ EventOf(v)' = EventOf(v) /\ EventOf(v) \in Event \cup {Garbage}
      /\ Settled(held[v].tp, held[v].offset) => Settled(held[v].tp, held[v].offset)'
      BY PositionIsStable
<1>2. v \notin fenced' => held'[v].offset = committed'[held'[v].tp] + 1
      BY DEF Handling
<1>3. step[v] = "saveSucceeded" => results'[EventOf(v).job] # << >>
      BY EventsHaveFields DEF Handling, Grows
<1>4. step[v] = "saveExhausted" => DeadLettered(EventOf(v).job)'
      BY <1>1 DEF Handling, Grows, DeadLettered
<1> QED
    BY <1>1, <1>2, <1>3, <1>4 DEF Handling

(* A worker starts to handle messages of a partition only when no other    *)
(* member of the group does.                                               *)
LEMMA PartitionIsFree ==
    ASSUME TypeOK, NEW w \in Worker, Busy(w)', w \notin fenced',
           \/ WorkerStep(w) \/ WorkerCrash(w) \/ Shutdown(w) \/ Evict(w)
    PROVE  \/ Busy(w) /\ w \notin fenced /\ held'[w] = held[w]
           \/ \A v \in Worker \ fenced : Busy(v) => held[v].tp # held'[w].tp
<1>1. CASE \E tp \in TopicPartition : Poll(w, tp)
      BY <1>1 DEF Poll, TypeOK, WorkerTypeOK
<1>2. ASSUME NEW s \in {"idle", "down"}, Release(w, s)
      PROVE  FALSE
      BY <1>2 DEF Release, Go, Busy, TypeOK, WorkerTypeOK
<1>3. CASE Commit(w) \/ CommitRefused(w) \/ Restart(w) \/ WorkerCrash(w) \/ Shutdown(w)
      BY <1>2, <1>3 DEF Commit, CommitRefused, Restart, WorkerCrash, Shutdown
<1>4. CASE Evict(w)
      BY <1>4 DEF Evict, TypeOK, WorkerTypeOK
<1>5. CASE \/ RejectInvalid(w) \/ LoadJob(w) \/ DeadLetterMissing(w) \/ MarkProcessing(w)
           \/ PublishResult(w) \/ SaveSucceeded(w) \/ PublishRetry(w) \/ SaveRetrying(w)
           \/ DeadLetterExhausted(w) \/ SaveExhausted(w)
  <2>1. Busy(w)
        BY <1>5 DEF Busy, RejectInvalid, LoadJob, DeadLetterMissing, MarkProcessing, PublishResult,
                    SaveSucceeded, PublishRetry, SaveRetrying, DeadLetterExhausted, SaveExhausted
  <2>2. UNCHANGED <<held, fenced>>
        BY <1>5 DEF Finish, RejectInvalid, LoadJob, DeadLetterMissing, MarkProcessing,
                    PublishResult, SaveSucceeded, PublishRetry, SaveRetrying,
                    DeadLetterExhausted, SaveExhausted
  <2> QED
      BY <2>1, <2>2
<1> QED
    BY <1>1, <1>3, <1>4, <1>5 DEF WorkerStep, Handle

(* A step of a worker keeps the invariant.                                 *)
LEMMA WorkerKeepsInvariant ==
    ASSUME IInv, NEW w \in Worker, UNCHANGED serviceVars,
           \/ WorkerStep(w) \/ WorkerCrash(w) \/ Shutdown(w) \/ Evict(w)
    PROVE  IInv'
<1> USE DEF IInv, TypeOK
<1>1. StepKeeps(w)
      BY WorkerStepEffect
<1>2. TypeOK' /\ CallsOK' /\ OutcomeWasPublished'
      BY <1>1, OutcomesStayPublished
      DEF StepKeeps, serviceVars, ServiceTypeOK, CallsOK, Calling
<1>3. OwnersExclusive'
  <2>1. ASSUME NEW v \in Worker \ {w}, v \notin fenced', Busy(v)', w \notin fenced', Busy(w)'
        PROVE  held'[v].tp # held'[w].tp
    <3>1. v \in Worker \ fenced /\ Busy(v) /\ held'[v] = held[v]
          BY <1>1, <2>1 DEF StepKeeps, OnlyItself, Busy
    <3> QED
        BY <2>1, <3>1, PartitionIsFree DEF OwnersExclusive
  <2>2. ASSUME NEW u \in Worker \ {w}, NEW v \in Worker \ {w}, u # v,
               u \notin fenced', Busy(u)', v \notin fenced', Busy(v)'
        PROVE  held'[u].tp # held'[v].tp
        BY <1>1, <2>2 DEF StepKeeps, OnlyItself, Busy, OwnersExclusive
  <2> QED
      BY <2>1, <2>2 DEF OwnersExclusive
<1>4. HandlingOK'
  <2>1. ASSUME NEW v \in Worker \ {w}, Busy(v)'
        PROVE  Handling(v)'
    <3>1. /\ step'[v] = step[v] /\ held'[v] = held[v] /\ wjob'[v] = wjob[v]
          /\ v \in fenced' <=> v \in fenced
          BY <1>1, <2>1 DEF StepKeeps, OnlyItself
    <3>2. Busy(v) /\ Handling(v) /\ held[v].tp \in TopicPartition
          BY <2>1, <3>1 DEF Busy, HandlingOK, Handling, Position
    <3>3. v \notin fenced => committed'[held[v].tp] = committed[held[v].tp]
      <4>1. CASE UNCHANGED committed
            BY <4>1
      <4>2. CASE /\ step[w] = "commit" /\ w \notin fenced
                 /\ committed' = [committed EXCEPT ![held[w].tp] = held[w].offset]
        <5>1. Busy(w) /\ w \in Worker \ fenced
              BY <4>2 DEF Busy
        <5>2. v \notin fenced => held[v].tp # held[w].tp
              BY <3>2, <5>1 DEF OwnersExclusive
        <5> QED
            BY <3>2, <4>2, <5>2 DEF InfrastructureTypeOK
      <4> QED
          BY <1>1, <4>1, <4>2 DEF StepKeeps, OnlyItself
    <3> QED
        BY <1>1, <3>1, <3>2, <3>3, OthersKeepHandling DEF StepKeeps
  <2> QED
      BY <1>1, <2>1 DEF StepKeeps, HandlingOK
<1>5. OffsetsOK' /\ NoEventDropped'
  <2>1. CASE UNCHANGED committed
        BY <1>1, <2>1, OffsetsStayBehind DEF StepKeeps
  <2>2. CASE /\ step[w] = "commit" /\ w \notin fenced
             /\ committed' = [committed EXCEPT ![held[w].tp] = held[w].offset]
    <3>1. Handling(w) /\ held[w].tp \in TopicPartition /\ held[w].offset \in Nat
          BY <2>2 DEF HandlingOK, Busy, Handling, Position
    <3>2. /\ held[w].offset \in 1..Len(log[held[w].tp])
          /\ held[w].offset = committed[held[w].tp] + 1
          /\ Settled(held[w].tp, held[w].offset)
          BY <2>2, <3>1 DEF Handling
    <3>3. OffsetsOK'
          BY <1>1, <2>2, <3>1, <3>2 DEF StepKeeps, OffsetsOK, Grows, InfrastructureTypeOK
    <3>4. ASSUME NEW tp \in TopicPartition, NEW i \in 1..Len(log'[tp]), i <= committed'[tp]
          PROVE  Settled(tp, i)'
      <4>1. i \in 1..Len(log[tp]) /\ Settled(tp, i)
        <5>1. CASE tp = held[w].tp /\ i = held[w].offset
              BY <3>2, <5>1
        <5>2. CASE i <= committed[tp]
              BY <3>4, <5>2 DEF OffsetsOK, NoEventDropped, InfrastructureTypeOK
        <5> QED
            BY <2>2, <3>1, <3>2, <3>4, <5>1, <5>2 DEF InfrastructureTypeOK
      <4> QED
          BY <1>1, <4>1, SettledIsStable DEF StepKeeps
    <3> QED
        BY <3>3, <3>4 DEF NoEventDropped
  <2> QED
      BY <1>1, <2>1, <2>2 DEF StepKeeps, OnlyItself
<1> QED
    BY <1>2, <1>3, <1>4, <1>5

(* A step of a thread, an expiry or a foreign message keeps the invariant. *)
LEMMA OthersKeepInvariant ==
    ASSUME IInv, ServiceTypeOK', CallsOK', InfrastructureTypeOK', Grows, SavesPublished,
           UNCHANGED committed, UNCHANGED workerVars
    PROVE  IInv'
<1> USE DEF IInv, TypeOK
<1>1. WorkerTypeOK' /\ OwnersExclusive'
      BY DEF workerVars, WorkerTypeOK, OwnersExclusive, Busy
<1>2. OutcomeWasPublished' /\ OffsetsOK' /\ NoEventDropped'
      BY OutcomesStayPublished, OffsetsStayBehind
<1>3. ASSUME NEW w \in Worker, Busy(w)'
      PROVE  Handling(w)'
  <2>1. Handling(w)
        BY <1>3 DEF workerVars, Busy, HandlingOK
  <2> QED
      BY <2>1, OthersKeepHandling DEF workerVars
<1> QED
    BY <1>1, <1>2, <1>3 DEF HandlingOK

(* The invariant is inductive.                                             *)
LEMMA StepKeepsInvariant ==
    ASSUME IInv, [Next]_vars
    PROVE  IInv'
<1> USE DEF IInv, TypeOK
<1>1. CASE ServiceNext /\ UNCHANGED workerVars
      BY <1>1, ServiceStepEffect, OthersKeepInvariant
<1>2. CASE WorkerNext /\ UNCHANGED serviceVars
      BY <1>2, WorkerKeepsInvariant DEF WorkerNext
<1>3. ASSUME UNCHANGED serviceVars
      PROVE  ServiceTypeOK' /\ CallsOK'
      BY <1>3 DEF serviceVars, ServiceTypeOK, CallsOK, Calling
<1>4. ASSUME NEW kind, Fault(kind)
      PROVE  faults' \in 0..MaxFaults
      BY <1>4, FaultsAssumption DEF Fault, InfrastructureTypeOK
<1>5. ASSUME NEW r \in RequestId, Expire(r)
      PROVE  IInv'
  <2>1. /\ jobs' = [jobs EXCEPT ![r] = NoJob] /\ faults' \in 0..MaxFaults
        /\ UNCHANGED <<log, committed, results, dlq, serviceVars, workerVars>>
        BY <1>4, <1>5 DEF Expire
  <2>2. InfrastructureTypeOK' /\ Grows /\ SavesPublished
        BY <2>1 DEF InfrastructureTypeOK, Grows, SavesPublished
  <2> QED
      BY <1>3, <2>1, <2>2, OthersKeepInvariant
<1>6. ASSUME NEW tp \in TopicPartition, ForeignMessage(tp)
      PROVE  IInv'
  <2>1. /\ Publish(tp, Garbage) /\ faults' \in 0..MaxFaults
        /\ UNCHANGED <<jobs, committed, results, dlq, serviceVars, workerVars>>
        BY <1>4, <1>6 DEF ForeignMessage
  <2>2. InfrastructureTypeOK' /\ Grows /\ SavesPublished
        BY <2>1, PublishAppends DEF InfrastructureTypeOK, Grows, SavesPublished
  <2> QED
      BY <1>3, <2>1, <2>2, OthersKeepInvariant
<1>7. CASE UNCHANGED vars
  <2>1. UNCHANGED <<infrastructureVars, serviceVars, workerVars>>
        BY <1>7 DEF vars
  <2>2. InfrastructureTypeOK' /\ Grows /\ SavesPublished /\ UNCHANGED committed
        BY <2>1 DEF infrastructureVars, InfrastructureTypeOK, Grows, SavesPublished
  <2> QED
      BY <1>3, <2>1, <2>2, OthersKeepInvariant
<1> QED
    BY <1>1, <1>2, <1>5, <1>6, <1>7 DEF Next

\* The inductive invariant holds at the start: nothing is queued or handled.
LEMMA InitEstablishesInvariant ==
    ASSUME Init
    PROVE  IInv
<1> USE DEF Init
<1>1. TypeOK
      BY FaultsAssumption
      DEF TypeOK, InfrastructureTypeOK, ServiceTypeOK, WorkerTypeOK,
          InfrastructureInit, ServiceInit, WorkerInit, Phase, Step
<1>2. CallsOK
      BY DEF CallsOK, Calling, ServiceInit
<1>3. HandlingOK /\ OwnersExclusive
      BY DEF HandlingOK, OwnersExclusive, Busy, WorkerInit
<1>4. OffsetsOK /\ NoEventDropped /\ OutcomeWasPublished
      BY DEF OffsetsOK, NoEventDropped, OutcomeWasPublished, InfrastructureInit
<1> QED
    BY <1>1, <1>2, <1>3, <1>4 DEF IInv

(* The invariant all the theorems rest on.                                 *)
THEOREM Invariance == Spec => []IInv
<1>1. Init => IInv
      BY InitEstablishesInvariant
<1>2. IInv /\ [Next]_vars => IInv'
      BY StepKeepsInvariant
<1> QED
    BY <1>1, <1>2, PTL DEF Spec

(* Every variable keeps its type.                                          *)
THEOREM TypeCorrectness == Spec => []TypeOK
<1>1. IInv => TypeOK
      BY DEF IInv
<1> QED
    BY <1>1, Invariance, PTL

(* No committed message is without a result, a dead letter or a retry.     *)
THEOREM EventsAreNotDropped == Spec => []NoEventDropped
<1>1. IInv => NoEventDropped
      BY DEF IInv
<1> QED
    BY <1>1, Invariance, PTL

(* The outcome a client polls is on the result or dead-letter topic.       *)
THEOREM OutcomesArePublished == Spec => []OutcomeWasPublished
<1>1. IInv => OutcomeWasPublished
      BY DEF IInv
<1> QED
    BY <1>1, Invariance, PTL
-----------------------------------------------------------------------------
\* What a step does to the topics and the committed offsets, in one place.
Advances ==
    \/ InfrastructureTypeOK' /\ Grows /\ UNCHANGED committed
    \/ \E w \in Worker :
          /\ held[w] \in Messages /\ Settled(held[w].tp, held[w].offset)
          /\ held[w].tp \in TopicPartition
          /\ held[w].offset = committed[held[w].tp] + 1
          /\ committed' = [committed EXCEPT ![held[w].tp] = held[w].offset]
          /\ UNCHANGED <<log, dlq, results>>

\* Every step leaves the offsets alone or settles and acknowledges one message.
LEMMA StepAdvances ==
    ASSUME IInv, [Next]_vars
    PROVE  Advances
<1> USE DEF IInv, TypeOK
<1>1. CASE ServiceNext
      BY <1>1, ServiceStepEffect DEF Advances
<1>2. InfrastructureTypeOK'
      BY StepKeepsInvariant
<1>3. ASSUME NEW w \in Worker, WorkerStep(w) \/ WorkerCrash(w) \/ Shutdown(w) \/ Evict(w)
      PROVE  Advances
  <2>1. StepKeeps(w)
        BY <1>3, WorkerStepEffect
  <2>2. CASE UNCHANGED committed
        BY <2>1, <2>2 DEF StepKeeps, Advances
  <2>3. CASE /\ step[w] = "commit" /\ w \notin fenced /\ ~Busy(w)'
             /\ committed' # committed
             /\ committed' = [committed EXCEPT ![held[w].tp] = held[w].offset]
    <3>1. Handling(w) /\ held[w] \in Position /\ held[w].tp \in TopicPartition
          BY <2>3 DEF HandlingOK, Handling, Busy, Position
    <3>2. held[w] = [tp |-> held[w].tp, offset |-> held[w].offset]
          BY <3>1 DEF Position
    <3>3. held[w] \in Messages
          BY <3>1, <3>2 DEF Messages, Handling
    <3>4. Settled(held[w].tp, held[w].offset) /\ held[w].offset = committed[held[w].tp] + 1
          BY <2>3, <3>1 DEF Handling
    <3>5. UNCHANGED <<log, dlq, results>>
          BY <1>3, <2>3 DEF WorkerStep, Handle, Poll, RejectInvalid, LoadJob, DeadLetterMissing,
             MarkProcessing, PublishResult, SaveSucceeded, PublishRetry, SaveRetrying,
             DeadLetterExhausted, SaveExhausted, Commit, CommitRefused, Restart,
             WorkerCrash, Shutdown, Evict, infrastructureVars
    <3> QED
        BY <2>3, <3>1, <3>3, <3>4, <3>5 DEF Advances
  <2> QED
      BY <2>1, <2>2, <2>3 DEF StepKeeps, OnlyItself
<1>4. CASE \E r \in RequestId : Expire(r)
      BY <1>2, <1>4 DEF Expire, Grows, Advances, InfrastructureTypeOK
<1>5. ASSUME NEW tp \in TopicPartition, ForeignMessage(tp)
      PROVE  Advances
      BY <1>2, <1>5, PublishAppends DEF ForeignMessage, Grows, Advances
<1>6. CASE UNCHANGED vars
      BY <1>2, <1>6 DEF vars, infrastructureVars, Grows, Advances, InfrastructureTypeOK
<1> QED
    BY <1>1, <1>3, <1>4, <1>5, <1>6 DEF Next, WorkerNext

(* An evicted, crashed or delayed worker never rewinds or skips an offset. *)
THEOREM OffsetsAreInOrder == Spec => OffsetsAdvanceByOne
<1>1. IInv /\ [Next]_vars =>
        [\A tp \in TopicPartition : committed'[tp] \in {committed[tp], committed[tp] + 1}]_vars
  <2> SUFFICES ASSUME IInv, [Next]_vars, NEW tp \in TopicPartition
               PROVE  committed'[tp] \in {committed[tp], committed[tp] + 1}
      OBVIOUS
  <2> QED
      BY StepAdvances DEF Advances, IInv, TypeOK, InfrastructureTypeOK
<1> QED
    BY <1>1, Invariance, PTL DEF Spec, OffsetsAdvanceByOne

\* Every step is one of at-least-once delivery or changes nothing that it shows.
LEMMA StepDelivers ==
    ASSUME IInv, [Next]_vars
    PROVE  [Delivery!Next]_(Delivery!vars)
<1> DEFINE settled == {p \in Messages : Settled(p.tp, p.offset)}
           acknowledged == {p \in Messages : p.offset <= committed[p.tp]}
<1>1. InfrastructureTypeOK /\ InfrastructureTypeOK' /\ OffsetsOK
      BY StepKeepsInvariant DEF IInv, TypeOK
<1>2. \A p : p \in Messages <=> /\ p = [tp |-> p.tp, offset |-> p.offset]
                                /\ p.tp \in TopicPartition /\ p.offset \in 1..Len(log[p.tp])
      BY DEF Messages
<1>3. CASE Grows /\ UNCHANGED committed
  <2>1. \A p \in Messages : p \in Messages'
        BY <1>1, <1>2, <1>3 DEF Grows, Messages, InfrastructureTypeOK
  <2>2. \A p \in settled : p \in settled'
        BY <1>1, <1>2, <1>3, <2>1, SettledIsStable
  <2>3. \A p \in settled' : p \in Messages'
        OBVIOUS
  <2>4. acknowledged' = acknowledged
    <3>1. \A p \in acknowledged : p \in acknowledged'
          BY <1>3, <2>1
    <3>2. ASSUME NEW p \in acknowledged'
          PROVE  p \in acknowledged
      <4>1. /\ p = [tp |-> p.tp, offset |-> p.offset]
            /\ p.tp \in TopicPartition /\ p.offset \in 1..Len(log'[p.tp])
            /\ p.offset <= committed[p.tp]
            BY <1>3, <3>2 DEF Messages
      <4>2. p.offset \in 1..Len(log[p.tp])
            BY <1>1, <4>1 DEF OffsetsOK, InfrastructureTypeOK
      <4> QED
          BY <1>2, <4>1, <4>2
    <3> QED
        BY <3>1, <3>2
  <2> QED
      BY <2>1, <2>2, <2>3, <2>4 DEF Delivery!Next, Delivery!Deliver
<1>4. ASSUME NEW w \in Worker, held[w] \in Messages, Settled(held[w].tp, held[w].offset),
             held[w].tp \in TopicPartition, held[w].offset = committed[held[w].tp] + 1,
             committed' = [committed EXCEPT ![held[w].tp] = held[w].offset],
             UNCHANGED <<log, dlq, results>>
      PROVE  Delivery!Acknowledge
  <2>1. Messages' = Messages /\ settled' = settled
    <3>1. Messages' = Messages
          BY <1>4 DEF Messages
    <3>2. ASSUME NEW p \in Messages
          PROVE  Settled(p.tp, p.offset)' <=> Settled(p.tp, p.offset)
          BY <1>4 DEF Settled
    <3> QED
        BY <3>1, <3>2
  <2>2. held[w] \in settled \ acknowledged
        BY <1>1, <1>4 DEF InfrastructureTypeOK
  <2>3. acknowledged' = acknowledged \cup {held[w]}
    <3>1. ASSUME NEW p \in Messages
          PROVE  p.offset <= committed'[p.tp] <=> p.offset <= committed[p.tp] \/ p = held[w]
          BY <1>1, <1>2, <1>4 DEF InfrastructureTypeOK
    <3> QED
        BY <1>4, <2>1, <3>1
  <2> QED
      BY <2>1, <2>2, <2>3 DEF Delivery!Acknowledge
<1> QED
    BY <1>3, <1>4, StepAdvances DEF Advances, Delivery!Next

(* The pipeline implements the safety of at-least-once delivery.           *)
THEOREM DeliveryIsSafe == Spec => Delivery!SafeSpec
<1>1. Init => Delivery!Init
      BY DEF Init, InfrastructureInit, Delivery!Init, Messages
<1>2. IInv /\ [Next]_vars => [Delivery!Next]_(Delivery!vars)
      BY StepDelivers
<1> QED
    BY <1>1, <1>2, Invariance, PTL DEF Spec, Delivery!SafeSpec

-----------------------------------------------------------------------------
(***************************************************************************)
(* One content per request id.  While there is work under way for a job    *)
(* its record stays, and all work for the id is on the content it was      *)
(* accepted with; within the time to live of a job so is everything that   *)
(* was ever made for the id.                                               *)
(***************************************************************************)

\* A job does not expire while there is work under way for it.
JobsOutliveWork == "expiry" \notin Faults

\* No job expires at all.
NoExpiry == Faults \cap {"settled_expiry", "expiry"} = {}

\* The job stored under id r was accepted with content c.
Owned(r, c) == jobs[r] # NoJob /\ jobs[r].fingerprint = c

\* What is queued, acknowledged or in the hands of a thread or worker is of
\* the content the stored job was accepted with.
EventsOwned == \A tp \in TopicPartition : \A i \in 1..Len(log[tp]) :
                  log[tp][i] # Garbage => Owned(log[tp][i].job, log[tp][i].content)
AcksOwned == \A q \in acked : Owned(q.job, q.content)
QueuedOwned == \A tp \in TopicPartition : \A i \in 1..Len(log[tp]) :
                  i > committed[tp] /\ log[tp][i] # Garbage =>
                      Owned(log[tp][i].job, log[tp][i].content)
CallOwns(t) == phase[t] \notin {"idle", "check"} =>
                  /\ Owned(request[t].job, request[t].content)
                  /\ tjob[t].fingerprint = request[t].content
WorkerOwns(w) == step[w] \in {"mark", "moderate", "saveSucceeded", "saveRetrying", "saveExhausted"} =>
                    wjob[w].fingerprint = EventOf(w).content

HoldsOwned(w) == Busy(w) /\ EventOf(w) # Garbage =>
                    Owned(EventOf(w).job, EventOf(w).content)

\* The invariant of contents: of all work under way, and of all there ever
\* was as long as no job expires.
ContentInv == /\ JobsOutliveWork /\ QueuedOwned
              /\ \A t \in Thread : CallOwns(t)
              /\ \A w \in Worker : HoldsOwned(w) /\ WorkerOwns(w)
              /\ ResultMatchesFingerprint
              /\ NoExpiry => EventsOwned /\ AcksOwned

\* No job goes, and none changes its content.
FingerprintsStay == \A r \in RequestId : jobs[r] # NoJob =>
                       jobs'[r] # NoJob /\ jobs'[r].fingerprint = jobs[r].fingerprint

\* What a step adds to the topics and the acknowledged requests is owned.
AddsOwned ==
    /\ \A tp \in TopicPartition : \A i \in 1..Len(log'[tp]) :
          \/ i <= Len(log[tp]) \/ log'[tp][i] = Garbage
          \/ Owned(log'[tp][i].job, log'[tp][i].content)
    /\ \A q \in acked' : q \in acked \/ Owned(q.job, q.content)

(* A save writes the fingerprint the job has, and a result only of it.     *)
LEMMA SaveKeepsContent ==
    ASSUME InfrastructureTypeOK, ResultMatchesFingerprint, NEW r \in RequestId,
           NEW job \in StoredJob, Save(r, job),
           jobs[r] # NoJob => /\ job.fingerprint = jobs[r].fingerprint
                              /\ job.state = "succeeded" => job.result = job.fingerprint
    PROVE  FingerprintsStay /\ ResultMatchesFingerprint'
<1>1. \A q \in RequestId : \/ jobs'[q] = jobs[q]
                           \/ q = r /\ jobs'[q] = job /\ jobs[q] # NoJob
      BY DEF Save, InfrastructureTypeOK
<1>2. job # NoJob
      BY SentinelAssumption
<1> QED
    BY <1>1, <1>2 DEF FingerprintsStay, ResultMatchesFingerprint

\* No offset is rewound.
OffsetsGrow == \A tp \in TopicPartition : committed[tp] <= committed'[tp]

(* Where no job goes, everything queued and acknowledged stays owned.      *)
LEMMA OwnedStays ==
    ASSUME IInv, InfrastructureTypeOK', acked' \subseteq Request, ContentInv, Grows, OffsetsGrow,
           FingerprintsStay, AddsOwned
    PROVE  QueuedOwned' /\ (NoExpiry => EventsOwned' /\ AcksOwned')
<1> USE DEF IInv, TypeOK
<1>1. ASSUME NEW r \in RequestId, NEW c \in Content, Owned(r, c)
      PROVE  Owned(r, c)'
      BY <1>1 DEF Owned, FingerprintsStay
<1>2. ASSUME NEW tp \in TopicPartition, NEW i \in 1..Len(log'[tp]), log'[tp][i] # Garbage,
             i > committed[tp] \/ NoExpiry
      PROVE  Owned(log[tp][i].job, log[tp][i].content)'
  <2>1. log'[tp][i] \in Event
        BY <1>2 DEF InfrastructureTypeOK
  <2>2. Owned(log'[tp][i].job, log'[tp][i].content)
    <3>1. CASE i <= Len(log[tp])
      <4>1. i \in 1..Len(log[tp]) /\ log'[tp][i] = log[tp][i]
            BY <3>1 DEF Grows, InfrastructureTypeOK
      <4> QED
          BY <1>2, <4>1 DEF ContentInv, EventsOwned, QueuedOwned
    <3> QED
        BY <1>2, <3>1 DEF AddsOwned
  <2> QED
      BY <1>1, <2>1, <2>2, EventsHaveFields
<1>3. ASSUME NEW q \in acked', NoExpiry
      PROVE  Owned(q.job, q.content)'
  <2>1. q \in Request /\ Owned(q.job, q.content)
        BY <1>3 DEF AddsOwned, ContentInv, AcksOwned
  <2> QED
      BY <1>1, <2>1, RequestsHaveFields
<1>4. ASSUME NEW tp \in TopicPartition, NEW i \in Nat, i > committed'[tp]
      PROVE  i > committed[tp]
      BY <1>4 DEF OffsetsGrow, InfrastructureTypeOK
<1> QED
    BY <1>2, <1>3, <1>4 DEF EventsOwned, AcksOwned, QueuedOwned

(* Who does nothing in a step keeps what it has.                           *)
LEMMA BystandersKeepContent ==
    ASSUME IInv, ContentInv, InfrastructureTypeOK', Grows, FingerprintsStay
    PROVE  /\ \A t \in Thread : /\ phase'[t] = phase[t] /\ request'[t] = request[t]
                                /\ tjob'[t] = tjob[t]
                                => CallOwns(t)'
           /\ \A w \in Worker : /\ step'[w] = step[w] /\ held'[w] = held[w]
                                /\ wjob'[w] = wjob[w]
                                => WorkerOwns(w)'
           /\ \A w \in Worker : Busy(w) /\ held'[w] = held[w] => HoldsOwned(w)'
<1> USE DEF IInv, TypeOK
<1>1. ASSUME NEW t \in Thread, phase'[t] = phase[t], request'[t] = request[t], tjob'[t] = tjob[t],
             phase[t] \notin {"idle", "check"}
      PROVE  Owned(request[t].job, request[t].content)' /\ tjob'[t].fingerprint = request'[t].content
  <2>1. request[t] \in Request
        BY <1>1 DEF CallsOK, Calling
  <2> QED
      BY <1>1, <2>1, RequestsHaveFields DEF ContentInv, CallOwns, Owned, FingerprintsStay
<1>2. ASSUME NEW w \in Worker, step'[w] = step[w], held'[w] = held[w], wjob'[w] = wjob[w],
             step[w] \in {"mark", "moderate", "saveSucceeded", "saveRetrying", "saveExhausted"}
      PROVE  wjob'[w].fingerprint = EventOf(w)'.content
  <2>1. EventOf(w)' = EventOf(w)
        BY <1>2, PositionIsStable DEF HandlingOK, Busy
  <2> QED
      BY <1>2, <2>1 DEF ContentInv, WorkerOwns
<1>3. ASSUME NEW w \in Worker, Busy(w), held'[w] = held[w], EventOf(w)' # Garbage
      PROVE  Owned(EventOf(w).job, EventOf(w).content)'
  <2>1. EventOf(w)' = EventOf(w) /\ EventOf(w) \in Event
        BY <1>3, PositionIsStable DEF HandlingOK
  <2>2. PICK e \in Event : e = EventOf(w) /\ e = EventOf(w)'
        BY <2>1
  <2>3. Owned(e.job, e.content) /\ e.job \in RequestId
        BY <1>3, <2>2, EventsHaveFields DEF ContentInv, HoldsOwned
  <2>4. Owned(e.job, e.content)'
        BY <2>3 DEF Owned, FingerprintsStay
  <2> QED
      BY <2>2, <2>4 DEF Owned
<1> QED
    BY <1>1, <1>2, <1>3 DEF CallOwns, WorkerOwns, HoldsOwned

(* A step of the service neither changes a job's content nor queues or     *)
(* acknowledges another one under its id.                                  *)
LEMMA ServiceKeepsContent ==
    ASSUME IInv, ContentInv, ServiceNext, UNCHANGED workerVars
    PROVE  ContentInv'
<1> USE DEF IInv, TypeOK
<1> DEFINE Others(t) == \A u \in Thread \ {t} : /\ phase'[u] = phase[u] /\ request'[u] = request[u]
                                                /\ tjob'[u] = tjob[u]
<1>1. InfrastructureTypeOK' /\ ServiceTypeOK' /\ Grows /\ OffsetsGrow
      BY ServiceStepEffect DEF OffsetsGrow, InfrastructureTypeOK
<1>2. ASSUME FingerprintsStay, AddsOwned, ResultMatchesFingerprint', NEW t \in Thread,
             Others(t), CallOwns(t)'
      PROVE  ContentInv'
  <2>1. QueuedOwned' /\ (NoExpiry => EventsOwned' /\ AcksOwned')
        BY <1>1, <1>2, OwnedStays DEF ServiceTypeOK
  <2>2. \A u \in Thread : CallOwns(u)'
        BY <1>1, <1>2, BystandersKeepContent
  <2>3. \A w \in Worker : WorkerOwns(w)' /\ HoldsOwned(w)'
    <3>1. \A w \in Worker : Busy(w)' => Busy(w)
          BY DEF Busy, workerVars
    <3> QED
        BY <1>1, <1>2, <3>1, BystandersKeepContent DEF workerVars, HoldsOwned
  <2> QED
      BY <1>2, <2>1, <2>2, <2>3 DEF ContentInv, NoExpiry, JobsOutliveWork
<1>3. ASSUME UNCHANGED jobs
      PROVE  FingerprintsStay /\ ResultMatchesFingerprint'
      BY <1>3 DEF FingerprintsStay, ContentInv, ResultMatchesFingerprint
<1>4. ASSUME NEW t \in Thread, Enter(t, "idle", NoRequest, NoJob)
      PROVE  Others(t) /\ CallOwns(t)'
      BY <1>4 DEF Enter, ServiceTypeOK, CallOwns
<1>5. ASSUME UNCHANGED <<log, acked>>
      PROVE  AddsOwned
      BY <1>5 DEF AddsOwned, InfrastructureTypeOK
<1>6. ASSUME NEW t \in Thread, NEW q \in Request, SubmitNew(t, q)
      PROVE  ContentInv'
  <2> DEFINE job == [state |-> "accepted", attempt |-> 0, result |-> NoResult,
                     error |-> NoError, fingerprint |-> q.content]
  <2>1. q.job \in RequestId /\ job \in StoredJob /\ job # NoJob
        BY <1>6, RequestsHaveFields, SentinelAssumption DEF StoredJob, State
  <2>2. /\ jobs' = [jobs EXCEPT ![q.job] = job] /\ jobs[q.job] = NoJob
        /\ Enter(t, "publish", q, job)
        /\ UNCHANGED <<log, committed, results, dlq, faults, acked>>
        BY <1>6 DEF SubmitNew
  <2>3. FingerprintsStay /\ ResultMatchesFingerprint'
        BY <2>1, <2>2 DEF FingerprintsStay, ContentInv, ResultMatchesFingerprint, InfrastructureTypeOK
  <2>4. Others(t) /\ CallOwns(t)'
        BY <2>1, <2>2 DEF Enter, ServiceTypeOK, CallOwns, Owned, InfrastructureTypeOK
  <2> QED
      BY <1>2, <1>5, <2>2, <2>3, <2>4
<1>7. ASSUME NEW t \in Thread, NEW q \in Request, SubmitExisting(t, q)
      PROVE  ContentInv'
  <2>1. UNCHANGED infrastructureVars /\ UNCHANGED acked /\ Enter(t, "check", q, NoJob)
        BY <1>7 DEF SubmitExisting
  <2>2. Others(t) /\ CallOwns(t)'
        BY <2>1 DEF Enter, ServiceTypeOK, CallOwns
  <2> QED
      BY <1>2, <1>3, <1>5, <2>1, <2>2 DEF infrastructureVars
<1>8. ASSUME NEW t \in Thread, CheckExisting(t)
      PROVE  ContentInv'
  <2> DEFINE q == request[t]
             existing == jobs[q.job]
  <2>1. phase[t] = "check" /\ UNCHANGED <<jobs, log>>
        BY <1>8 DEF CheckExisting, infrastructureVars
  <2>2. q \in Request /\ q.job \in RequestId /\ q.content \in Content
        BY <2>1, RequestsHaveFields DEF CallsOK, Calling
  <2>3. CASE Refuse(t)
        BY <1>2, <1>3, <1>4, <1>5, <2>1, <2>3 DEF Refuse
  <2>4. CASE Owned(q.job, q.content) /\ Answer202(t)
    <3>1. AddsOwned
          BY <2>1, <2>4 DEF AddsOwned, Answer202, InfrastructureTypeOK
    <3> QED
        BY <1>2, <1>3, <1>4, <2>1, <2>4, <3>1 DEF Answer202
  <2>5. CASE Owned(q.job, q.content) /\ Enter(t, "republish", q, existing) /\ UNCHANGED acked
    <3>1. Others(t) /\ CallOwns(t)'
          BY <2>1, <2>5 DEF Enter, ServiceTypeOK, CallOwns, Owned
    <3> QED
        BY <1>2, <1>3, <1>5, <2>1, <2>5, <3>1
  <2> QED
      BY <1>8, <2>3, <2>4, <2>5 DEF CheckExisting, Owned
<1>9. ASSUME NEW t \in Thread, phase[t] \in {"publish", "republish"},
             Publish(InputOf(request[t].job), InputEvent(request[t])),
             acked' \in {acked, acked \cup {request[t]}}
      PROVE  AddsOwned
  <2>1. request[t] \in Request /\ Owned(request[t].job, request[t].content)
        BY <1>9 DEF CallsOK, Calling, ContentInv, CallOwns
  <2>2. /\ InputOf(request[t].job) \in TopicPartition
        /\ InputEvent(request[t]) \in Event \cup {Garbage}
        /\ InputEvent(request[t]).job = request[t].job
        /\ InputEvent(request[t]).content = request[t].content
        BY <2>1, RequestsHaveFields, JobsHavePartitions DEF InputEvent
  <2> DEFINE tp == InputOf(request[t].job)
             m == InputEvent(request[t])
  <2> HIDE DEF tp, m
  <2>3. log' = [log EXCEPT ![tp] = Append(log[tp], m)] /\ tp \in TopicPartition
        BY <1>9, <2>2 DEF Publish, tp, m
  <2>4. \A p \in TopicPartition : \A i \in 1..Len(log'[p]) : i <= Len(log[p]) \/ log'[p][i] = m
        BY <2>2, <2>3 DEF InfrastructureTypeOK, m
  <2> QED
      BY <1>9, <2>1, <2>2, <2>4 DEF AddsOwned, m
<1>10. ASSUME NEW t \in Thread, PublishInput(t)
       PROVE  ContentInv'
  <2>1. /\ phase[t] \in {"publish", "republish"} /\ UNCHANGED jobs
        /\ acked' \in {acked, acked \cup {request[t]}}
        /\ Publish(InputOf(request[t].job), InputEvent(request[t]))
        BY <1>10 DEF PublishInput, Answer202
  <2>2. CASE Enter(t, "accept", request[t], tjob[t])
    <3>1. Others(t) /\ CallOwns(t)'
          BY <2>1, <2>2 DEF Enter, ServiceTypeOK, CallOwns, Owned, ContentInv
    <3> QED
        BY <1>2, <1>3, <1>9, <2>1, <3>1
  <2>3. CASE Answer202(t)
        BY <1>2, <1>3, <1>4, <1>9, <2>1, <2>3 DEF Answer202
  <2> QED
      BY <1>10, <2>2, <2>3 DEF PublishInput
<1>11. ASSUME NEW t \in Thread, PublishInputFails(t)
       PROVE  ContentInv'
  <2>1. /\ phase[t] \in {"publish", "republish"} /\ UNCHANGED <<jobs, acked>>
        /\ UNCHANGED log \/ Publish(InputOf(request[t].job), InputEvent(request[t]))
        /\ Enter(t, "fail", request[t], tjob[t])
        BY <1>11 DEF PublishInputFails
  <2>2. Others(t) /\ CallOwns(t)'
        BY <2>1 DEF Enter, ServiceTypeOK, CallOwns, Owned, ContentInv
  <2> QED
      BY <1>2, <1>3, <1>5, <1>9, <2>1, <2>2
<1>12. ASSUME NEW t \in Thread, phase[t] \in {"accept", "fail"}, NEW job \in StoredJob,
              Save(request[t].job, job), job.fingerprint = tjob[t].fingerprint,
              job.state # "succeeded", UNCHANGED log, Refuse(t) \/ Answer202(t)
       PROVE  ContentInv'
  <2>1. request[t] \in Request /\ request[t].job \in RequestId
        BY <1>12, RequestsHaveFields DEF CallsOK, Calling
  <2>2. Owned(request[t].job, request[t].content) /\ job.fingerprint = request[t].content
        BY <1>12 DEF ContentInv, CallOwns
  <2>3. FingerprintsStay /\ ResultMatchesFingerprint'
        BY <1>12, <2>1, <2>2, SaveKeepsContent DEF ContentInv, Owned
  <2>4. AddsOwned
        BY <1>12, <2>2 DEF AddsOwned, Refuse, Answer202, InfrastructureTypeOK
  <2> QED
      BY <1>2, <1>4, <1>12, <2>3, <2>4 DEF Refuse, Answer202
<1>13. ASSUME NEW t \in Thread, SaveAccepted(t) \/ SavePublishFailed(t)
       PROVE  ContentInv'
  <2>1. tjob[t] \in StoredJob
        BY <1>13 DEF SaveAccepted, SavePublishFailed, CallsOK, Calling
  <2> DEFINE accepted == [tjob[t] EXCEPT !.state = "accepted", !.error = NoError]
             failed == [tjob[t] EXCEPT !.state = "failed", !.error = "queue_publish_failed"]
  <2>2. /\ accepted \in StoredJob /\ accepted.state = "accepted"
        /\ accepted.fingerprint = tjob[t].fingerprint
        /\ failed \in StoredJob /\ failed.state = "failed"
        /\ failed.fingerprint = tjob[t].fingerprint
        BY <2>1 DEF StoredJob, State
  <2> QED
      BY <1>12, <1>13, <2>2 DEF SaveAccepted, SavePublishFailed
<1>14. ASSUME NEW t \in Thread, AbandonCall(t)
       PROVE  ContentInv'
       BY <1>2, <1>3, <1>4, <1>5, <1>14 DEF AbandonCall, Refuse
<1> QED
    BY <1>6, <1>7, <1>8, <1>10, <1>11, <1>13, <1>14 DEF ServiceNext, ServiceStep

(* A worker works on the job its event is of, and decides it by the event's *)
(* own content.                                                            *)
LEMMA WorkerKeepsContent ==
    ASSUME IInv, IInv', ContentInv, NEW w \in Worker, UNCHANGED serviceVars,
           \/ WorkerStep(w) \/ WorkerCrash(w) \/ Shutdown(w) \/ Evict(w)
    PROVE  ContentInv'
<1> USE DEF IInv, TypeOK
<1> DEFINE Held == {"load", "missing", "mark", "moderate",
                    "saveSucceeded", "saveRetrying", "saveExhausted"}
<1>1. Grows /\ OnlyItself(w)
      BY WorkerStepEffect DEF StepKeeps
<1>a. OffsetsGrow
  <2>1. CASE UNCHANGED committed
        BY <2>1 DEF OffsetsGrow, InfrastructureTypeOK
  <2>2. CASE /\ step[w] = "commit" /\ w \notin fenced
             /\ committed' = [committed EXCEPT ![held[w].tp] = held[w].offset]
    <3>1. held[w].offset = committed[held[w].tp] + 1
          BY <2>2 DEF HandlingOK, Handling, Busy
    <3> QED
        BY <2>2, <3>1 DEF OffsetsGrow, InfrastructureTypeOK
  <2> QED
      BY <1>1, <2>1, <2>2 DEF OnlyItself
<1>b. \/ ~Busy(w)'
      \/ Busy(w) /\ held'[w] = held[w]
      \/ \E tp \in TopicPartition : Poll(w, tp)
  <2>1. CASE WorkerStep(w) /\ ~\E tp \in TopicPartition : Poll(w, tp)
    <3>1. CASE \/ RejectInvalid(w) \/ LoadJob(w) \/ DeadLetterMissing(w) \/ MarkProcessing(w)
               \/ PublishResult(w) \/ SaveSucceeded(w) \/ PublishRetry(w) \/ SaveRetrying(w)
               \/ DeadLetterExhausted(w) \/ SaveExhausted(w)
      <4>1. Busy(w)
            BY <3>1 DEF Busy, RejectInvalid, LoadJob, DeadLetterMissing, MarkProcessing,
                        PublishResult, SaveSucceeded, PublishRetry, SaveRetrying,
                        DeadLetterExhausted, SaveExhausted
      <4>2. held' = held
            BY <3>1 DEF RejectInvalid, LoadJob, DeadLetterMissing, MarkProcessing,
                        PublishResult, SaveSucceeded, PublishRetry, SaveRetrying,
                        DeadLetterExhausted, SaveExhausted, Finish
      <4> QED
          BY <4>1, <4>2
    <3>2. CASE Commit(w) \/ CommitRefused(w) \/ Restart(w)
      <4>1. \E s \in {"idle", "down"} : Go(w, s)
            BY <3>2 DEF Commit, CommitRefused, Restart, Release
      <4> QED
          BY <4>1 DEF Go, WorkerTypeOK, Busy
    <3> QED
        BY <2>1, <3>1, <3>2 DEF WorkerStep, Handle
  <2>2. CASE WorkerCrash(w) \/ Shutdown(w)
    <3>1. Go(w, "down")
          BY <2>2 DEF WorkerCrash, Shutdown, Release
    <3> QED
        BY <3>1 DEF Go, WorkerTypeOK, Busy
  <2>3. CASE Evict(w)
        BY <2>3 DEF Evict
  <2> QED
      BY <2>1, <2>2, <2>3
<1>2. ASSUME FingerprintsStay, AddsOwned, ResultMatchesFingerprint', WorkerOwns(w)'
      PROVE  ContentInv'
  <2>1. QueuedOwned' /\ (NoExpiry => EventsOwned' /\ AcksOwned')
        BY <1>1, <1>2, <1>a, OwnedStays DEF ServiceTypeOK
  <2>2. \A u \in Thread : CallOwns(u)'
        BY <1>1, <1>2, BystandersKeepContent DEF serviceVars
  <2>3. \A v \in Worker : WorkerOwns(v)'
        BY <1>1, <1>2, BystandersKeepContent DEF OnlyItself
  <2>4. HoldsOwned(w)'
    <3>1. CASE ~Busy(w)'
          BY <3>1 DEF HoldsOwned
    <3>2. CASE Busy(w) /\ held'[w] = held[w]
          BY <1>1, <1>2, <3>2, BystandersKeepContent
    <3>3. ASSUME NEW tp \in TopicPartition, Poll(w, tp)
          PROVE  HoldsOwned(w)'
      <4>1. PICK i \in 1..Len(log'[tp]) : i = committed[tp] + 1
            BY <3>3 DEF Poll, infrastructureVars, InfrastructureTypeOK
      <4>2. EventOf(w)' = log'[tp][i]
            BY <3>3, <4>1 DEF Poll, EventOf, MessageAt, WorkerTypeOK, infrastructureVars
      <4>3. i > committed'[tp]
            BY <3>3, <4>1 DEF Poll, infrastructureVars, InfrastructureTypeOK
      <4>4. log'[tp][i] # Garbage => Owned(log[tp][i].job, log[tp][i].content)'
            BY <2>1, <4>1, <4>3 DEF QueuedOwned
      <4> QED
          BY <4>2, <4>4 DEF HoldsOwned, Owned
    <3> QED
        BY <1>b, <3>1, <3>2, <3>3
  <2>5. ASSUME NEW v \in Worker \ {w} PROVE HoldsOwned(v)'
    <3>1. held'[v] = held[v] /\ (Busy(v)' => Busy(v))
          BY <1>1 DEF OnlyItself, Busy
    <3> QED
        BY <1>1, <1>2, <3>1, BystandersKeepContent DEF HoldsOwned
  <2> QED
      BY <1>2, <2>1, <2>2, <2>3, <2>4, <2>5 DEF ContentInv, NoExpiry, JobsOutliveWork
<1>3. ASSUME UNCHANGED jobs
      PROVE  FingerprintsStay /\ ResultMatchesFingerprint'
      BY <1>3 DEF FingerprintsStay, ContentInv, ResultMatchesFingerprint
<1>4. ASSUME UNCHANGED log
      PROVE  AddsOwned
      BY <1>4 DEF AddsOwned, serviceVars, InfrastructureTypeOK
<1>5. ASSUME NEW s \in {"idle", "down", "commit", "reject", "load", "missing"}, Go(w, s)
      PROVE  WorkerOwns(w)'
      BY <1>5 DEF Go, WorkerTypeOK, WorkerOwns
<1>6. ASSUME step[w] \in Held
      PROVE  /\ Handling(w) /\ EventOf(w) \in Event /\ EventOf(w).job \in RequestId
             /\ EventOf(w).content \in Content
             /\ Owned(EventOf(w).job, EventOf(w).content)
  <2>1. Busy(w) /\ Handling(w) /\ EventOf(w) \in Event /\ EventOf(w) # Garbage
        BY <1>6, SentinelAssumption DEF HandlingOK, Busy, Handling
  <2> QED
      BY <2>1, EventsHaveFields DEF ContentInv, HoldsOwned
<1>7. ASSUME step[w] \in Held, held' = held
      PROVE  EventOf(w)' = EventOf(w)
      BY <1>1, <1>6, <1>7, PositionIsStable
<1>8. ASSUME step[w] \in {"mark", "moderate", "saveSucceeded", "saveRetrying", "saveExhausted"}
      PROVE  /\ wjob[w] \in StoredJob
             /\ wjob[w].fingerprint = EventOf(w).content
      BY <1>6, <1>8 DEF ContentInv, WorkerOwns, Handling
<1>9. ASSUME NEW tp \in TopicPartition, Poll(w, tp)
      PROVE  ContentInv'
      BY <1>2, <1>3, <1>4, <1>5, <1>9 DEF Poll, infrastructureVars
<1>10. ASSUME LoadJob(w)
       PROVE  ContentInv'
  <2> DEFINE stored == jobs[EventOf(w).job]
             marked == [stored EXCEPT !.state = "processing",
                                      !.attempt = EventOf(w).attempt, !.error = NoError]
  <2>1. step[w] = "load" /\ UNCHANGED <<jobs, log, held>>
        BY <1>10 DEF LoadJob, Finish, infrastructureVars
  <2>2. CASE \E s \in {"missing", "commit"} : Go(w, s)
        BY <1>2, <1>3, <1>4, <1>5, <2>1, <2>2
  <2>3. CASE stored # NoJob /\ Go(w, "mark") /\ wjob' = [wjob EXCEPT ![w] = marked]
    <3>1. stored.fingerprint = EventOf(w).content /\ stored \in StoredJob
          BY <1>6, <2>1, <2>3 DEF Owned, InfrastructureTypeOK
    <3>2. marked.fingerprint = EventOf(w).content
          BY <3>1 DEF StoredJob
    <3>3. wjob'[w] = marked /\ EventOf(w)' = EventOf(w)
          BY <1>7, <2>1, <2>3 DEF WorkerTypeOK
    <3>4. WorkerOwns(w)'
          BY <3>2, <3>3 DEF WorkerOwns
    <3> QED
        BY <1>2, <1>3, <1>4, <2>1, <3>4
  <2> QED
      BY <1>10, <2>2, <2>3 DEF LoadJob, Finish
<1>11. ASSUME step[w] \in {"mark", "moderate"}, UNCHANGED <<held, wjob>>
       PROVE  WorkerOwns(w)'
       BY <1>7, <1>8, <1>11 DEF WorkerOwns
<1>12. ASSUME step[w] \in {"mark", "saveSucceeded", "saveRetrying", "saveExhausted"},
              NEW job \in StoredJob, Save(EventOf(w).job, job),
              job.fingerprint = wjob[w].fingerprint,
              job.state = "succeeded" => job.result = EventOf(w).content
       PROVE  FingerprintsStay /\ ResultMatchesFingerprint'
       BY <1>6, <1>8, <1>12, SaveKeepsContent DEF Owned, ContentInv
<1>13. ASSUME MarkProcessing(w)
       PROVE  ContentInv'
  <2>1. /\ step[w] = "mark" /\ Save(EventOf(w).job, wjob[w])
        /\ UNCHANGED <<log, held, wjob>>
        BY <1>13 DEF MarkProcessing
  <2>2. wjob[w] \in StoredJob /\ wjob[w].state = "processing"
        BY <1>6, <2>1 DEF Handling
  <2>3. FingerprintsStay /\ ResultMatchesFingerprint'
        BY <1>12, <2>1, <2>2
  <2> QED
      BY <1>2, <1>4, <1>11, <2>1, <2>3
<1>14. ASSUME PublishResult(w) \/ DeadLetterExhausted(w)
       PROVE  ContentInv'
       BY <1>2, <1>3, <1>4, <1>11, <1>14 DEF PublishResult, DeadLetterExhausted
<1>15. ASSUME PublishRetry(w)
       PROVE  ContentInv'
  <2> DEFINE tp == RetryOf(EventOf(w).job)
             m == NextAttempt(EventOf(w))
  <2>1. /\ step[w] = "moderate" /\ Publish(tp, m) /\ UNCHANGED <<jobs, held, wjob>>
        BY <1>15 DEF PublishRetry
  <2>2. /\ m \in Event /\ m.job = EventOf(w).job /\ m.content = EventOf(w).content
        /\ tp \in TopicPartition
        BY <1>6, <2>1, EventsHaveFields, JobsHavePartitions DEF NextAttempt, Event
  <2> HIDE DEF tp, m
  <2>3. log' = [log EXCEPT ![tp] = Append(log[tp], m)]
        BY <2>1 DEF Publish
  <2>4. \A p \in TopicPartition : \A i \in 1..Len(log'[p]) : i <= Len(log[p]) \/ log'[p][i] = m
        BY <2>2, <2>3 DEF InfrastructureTypeOK
  <2>5. AddsOwned
        BY <1>6, <2>1, <2>2, <2>4 DEF AddsOwned, serviceVars
  <2> QED
      BY <1>2, <1>3, <1>11, <2>1, <2>5
<1>16. ASSUME SaveSucceeded(w) \/ SaveRetrying(w) \/ SaveExhausted(w)
       PROVE  ContentInv'
  <2>1. step[w] \in {"saveSucceeded", "saveRetrying", "saveExhausted"}
        BY <1>16 DEF SaveSucceeded, SaveRetrying, SaveExhausted
  <2>2. Go(w, "commit") /\ UNCHANGED log
        BY <1>16 DEF SaveSucceeded, SaveRetrying, SaveExhausted, Finish
  <2> DEFINE done == [wjob[w] EXCEPT !.state = "succeeded", !.error = NoError,
                                     !.attempt = EventOf(w).attempt,
                                     !.result = EventOf(w).content]
             again == [wjob[w] EXCEPT !.state = "accepted", !.attempt = EventOf(w).attempt + 1,
                                      !.error = "processing_retry_scheduled"]
             over == [wjob[w] EXCEPT !.state = "failed", !.attempt = EventOf(w).attempt,
                                     !.error = "processing_attempts_exhausted"]
  <2>3. EventOf(w).attempt \in Nat /\ EventOf(w).attempt + 1 \in Nat
        BY <1>6, <2>1, EventsHaveFields
  <2>4. done \in StoredJob /\ again \in StoredJob /\ over \in StoredJob
        BY <1>6, <1>8, <2>1, <2>3, EditedJobs
  <2>5. /\ done.fingerprint = wjob[w].fingerprint /\ done.result = EventOf(w).content
        /\ again.fingerprint = wjob[w].fingerprint /\ again.state = "accepted"
        /\ over.fingerprint = wjob[w].fingerprint /\ over.state = "failed"
        BY <1>8, <2>1 DEF StoredJob
  <2>6. \E job \in {done, again, over} : Save(EventOf(w).job, job)
        BY <1>16 DEF SaveSucceeded, SaveRetrying, SaveExhausted
  <2> HIDE DEF done, again, over
  <2>7. FingerprintsStay /\ ResultMatchesFingerprint'
        BY <1>12, <2>1, <2>4, <2>5, <2>6
  <2> QED
      BY <1>2, <1>4, <1>5, <2>2, <2>7
<1>17. ASSUME \/ RejectInvalid(w) \/ DeadLetterMissing(w) \/ Commit(w) \/ CommitRefused(w)
              \/ WorkerCrash(w) \/ Shutdown(w) \/ Restart(w)
       PROVE  ContentInv'
  <2>1. UNCHANGED <<jobs, log>>
        BY <1>17 DEF RejectInvalid, DeadLetterMissing, Commit, CommitRefused, WorkerCrash, Shutdown,
                     Restart, infrastructureVars
  <2>2. \E s \in {"idle", "down", "commit"} : Go(w, s)
        BY <1>17 DEF RejectInvalid, DeadLetterMissing, Commit, CommitRefused, WorkerCrash, Shutdown,
                     Restart, Finish, Release
  <2> QED
      BY <1>2, <1>3, <1>4, <1>5, <2>1, <2>2
<1>18. ASSUME Evict(w)
       PROVE  ContentInv'
       BY <1>1, <1>2, <1>3, <1>4, <1>18, BystandersKeepContent DEF Evict
<1> QED
    BY <1>9, <1>10, <1>13, <1>14, <1>15, <1>16, <1>17, <1>18 DEF WorkerStep, Handle

(* A job that expires has no work under way, so that nothing is orphaned.  *)
LEMMA ExpiryKeepsContent ==
    ASSUME IInv, ContentInv, NEW r \in RequestId, Expire(r)
    PROVE  ContentInv'
<1> USE DEF IInv, TypeOK
<1>1. /\ jobs' = [jobs EXCEPT ![r] = NoJob] /\ ~InProgress(r) /\ ~NoExpiry
      /\ UNCHANGED <<log, committed, serviceVars, workerVars>>
      BY DEF Expire, Fault, ContentInv, JobsOutliveWork, NoExpiry
<1>2. \A q \in RequestId \ {r} : jobs'[q] = jobs[q]
      BY <1>1 DEF InfrastructureTypeOK
<1>3. ASSUME NEW q \in RequestId, NEW c, Owned(q, c), q # r
      PROVE  Owned(q, c)'
      BY <1>2, <1>3 DEF Owned
<1>4. QueuedOwned'
  <2>1. ASSUME NEW tp \in TopicPartition, NEW i \in 1..Len(log[tp]), i > committed[tp],
               log[tp][i] # Garbage
        PROVE  Owned(log[tp][i].job, log[tp][i].content)'
    <3>1. log[tp][i] \in Event /\ log[tp][i].job # r
          BY <1>1, <2>1 DEF InProgress, MessagePending, InfrastructureTypeOK
    <3>2. PICK e \in Event : e = log[tp][i] /\ e = log'[tp][i]
          BY <1>1, <3>1
    <3>3. Owned(e.job, e.content) /\ e.job \in RequestId /\ e.job # r
          BY <2>1, <3>1, <3>2, EventsHaveFields DEF ContentInv, QueuedOwned
    <3>4. Owned(e.job, e.content)'
          BY <1>3, <3>3
    <3> QED
        BY <3>2, <3>4 DEF Owned
  <2> QED
      BY <1>1, <2>1 DEF QueuedOwned
<1>5. ASSUME NEW t \in Thread
      PROVE  CallOwns(t)'
  <2>1. CASE phase[t] \notin {"idle", "check"}
    <3>1. request[t].job # r /\ request[t].job \in RequestId
          BY <1>1, <2>1, RequestsHaveFields DEF InProgress, CallPending, CallsOK, Calling
    <3>2. Owned(request[t].job, request[t].content)'
          BY <1>2, <2>1, <3>1, <1>1 DEF ContentInv, CallOwns, Owned, serviceVars
    <3> QED
        BY <1>1, <2>1, <3>2 DEF ContentInv, CallOwns, serviceVars
  <2> QED
      BY <1>1, <2>1 DEF CallOwns, serviceVars
<1>6. ASSUME NEW w \in Worker
      PROVE  HoldsOwned(w)' /\ WorkerOwns(w)'
  <2>1. /\ EventOf(w)' = EventOf(w) /\ (Busy(w)' <=> Busy(w))
        /\ step'[w] = step[w] /\ wjob'[w] = wjob[w]
        BY <1>1 DEF EventOf, MessageAt, Busy, workerVars
  <2>2. ASSUME Busy(w), EventOf(w) # Garbage
        PROVE  Owned(EventOf(w).job, EventOf(w).content)'
    <3>1. Handling(w)
          BY <2>2 DEF HandlingOK
    <3>2. PICK tp \in TopicPartition, i \in Nat :
             /\ held[w].tp = tp /\ held[w].offset = i /\ EventOf(w) = log[tp][i]
             /\ i \in 1..Len(log[tp])
          BY <3>1 DEF Handling, Position, EventOf, MessageAt
    <3>3. EventOf(w) \in Event
          BY <2>2, <3>2 DEF InfrastructureTypeOK
    <3>4. i > committed[tp] \/ (i <= committed[tp] /\ w \in fenced)
          BY <3>1, <3>2 DEF Handling, InfrastructureTypeOK
    <3>5. EventOf(w).job # r
          BY <1>1, <2>2, <3>2, <3>4 DEF InProgress, MessagePending, ZombieHolds
    <3>6. PICK e \in Event : e = EventOf(w) /\ e = EventOf(w)'
          BY <2>1, <3>3
    <3>7. Owned(e.job, e.content) /\ e.job \in RequestId /\ e.job # r
          BY <2>2, <3>5, <3>6, EventsHaveFields DEF ContentInv, HoldsOwned
    <3>8. Owned(e.job, e.content)'
          BY <1>3, <3>7
    <3> QED
        BY <3>6, <3>8 DEF Owned
  <2> QED
      BY <2>1, <2>2 DEF HoldsOwned, WorkerOwns, ContentInv
<1>7. ResultMatchesFingerprint'
      BY <1>1 DEF ContentInv, ResultMatchesFingerprint, InfrastructureTypeOK
<1> QED
    BY <1>1, <1>4, <1>5, <1>6, <1>7 DEF ContentInv, JobsOutliveWork, NoExpiry

(* One content per id, inductively.                                        *)
LEMMA StepKeepsContent ==
    ASSUME IInv, ContentInv, [Next]_vars
    PROVE  ContentInv'
<1> USE DEF IInv, TypeOK
<1>1. IInv'
      BY StepKeepsInvariant
<1>2. CASE ServiceNext /\ UNCHANGED workerVars
      BY <1>2, ServiceKeepsContent
<1>3. CASE WorkerNext /\ UNCHANGED serviceVars
      BY <1>1, <1>3, WorkerKeepsContent DEF WorkerNext
<1>4. ASSUME NEW r \in RequestId, Expire(r)
      PROVE  ContentInv'
      BY <1>4, ExpiryKeepsContent
<1>5. ASSUME UNCHANGED <<jobs, committed, serviceVars, workerVars>>, Grows, AddsOwned
      PROVE  ContentInv'
  <2>1. FingerprintsStay /\ ResultMatchesFingerprint' /\ OffsetsGrow
        BY <1>5 DEF FingerprintsStay, ContentInv, ResultMatchesFingerprint, OffsetsGrow,
                    InfrastructureTypeOK
  <2>2. QueuedOwned' /\ (NoExpiry => EventsOwned' /\ AcksOwned')
        BY <1>1, <1>5, <2>1, OwnedStays DEF ServiceTypeOK
  <2>3. \A w \in Worker : Busy(w)' => Busy(w)
        BY <1>5 DEF Busy, workerVars
  <2>4. (\A u \in Thread : CallOwns(u)') /\ \A v \in Worker : WorkerOwns(v)' /\ HoldsOwned(v)'
        BY <1>1, <1>5, <2>1, <2>3, BystandersKeepContent DEF serviceVars, workerVars, HoldsOwned
  <2> QED
      BY <2>1, <2>2, <2>4 DEF ContentInv, NoExpiry, JobsOutliveWork
<1>6. ASSUME NEW tp \in TopicPartition, ForeignMessage(tp)
      PROVE  ContentInv'
  <2>1. Publish(tp, Garbage) /\ UNCHANGED <<jobs, committed, dlq, results, serviceVars, workerVars>>
        BY <1>6 DEF ForeignMessage
  <2>2. Grows
        BY <2>1, PublishAppends DEF Grows
  <2>3. \A p \in TopicPartition : \A i \in 1..Len(log'[p]) : i <= Len(log[p]) \/ log'[p][i] = Garbage
        BY <2>1 DEF Publish, InfrastructureTypeOK
  <2>4. AddsOwned
        BY <2>1, <2>3 DEF AddsOwned, serviceVars
  <2> QED
      BY <1>5, <2>1, <2>2, <2>4
<1>7. CASE UNCHANGED vars
      BY <1>5, <1>7 DEF vars, infrastructureVars, serviceVars, Grows, AddsOwned, InfrastructureTypeOK
<1> QED
    BY <1>2, <1>3, <1>4, <1>6, <1>7 DEF Next

(* While work is under way for a job, all of it is on one content; and     *)
(* within the time to live all that was accepted, queued and decided.      *)
THEOREM ContentInvariance == Spec /\ JobsOutliveWork => []ContentInv
<1>1. Init /\ JobsOutliveWork => ContentInv
      BY DEF Init, InfrastructureInit, ServiceInit, WorkerInit, ContentInv, EventsOwned, AcksOwned,
             QueuedOwned, HoldsOwned, Busy, CallOwns, WorkerOwns, ResultMatchesFingerprint
<1>2. IInv /\ ContentInv /\ [Next]_vars => ContentInv'
      BY StepKeepsContent
<1> QED
    BY <1>1, <1>2, Invariance, PTL DEF Spec

(* A set of equal elements has at most one.                                *)
LEMMA AtMostOne ==
    ASSUME NEW S, NEW c, \A x \in S : x = c
    PROVE  Cardinality(S) <= 1
<1>1. CASE S = {}
      BY <1>1, FS_EmptySet
<1>2. CASE S = {c}
  <2>1. Cardinality(S) = 1
        BY <1>2, FS_Singleton, Zenon
  <2> QED
      BY <2>1
<1> QED
    BY <1>1, <1>2

(* All that was acknowledged or queued under a request id is of one content. *)
THEOREM ContentsAreUnique == Spec /\ NoExpiry => []OneContentPerJob
<1>1. ASSUME ContentInv, NoExpiry, NEW r \in RequestId
      PROVE  Cardinality(ContentsUnder(r)) <= 1
  <2>1. ASSUME NEW c \in ContentsUnder(r)
        PROVE  c = jobs[r].fingerprint
    <3>1. CASE c \in {q.content : q \in {p \in acked : p.job = r}}
          BY <1>1, <3>1 DEF ContentInv, AcksOwned, Owned
    <3>2. CASE \E tp \in TopicPartition : \E i \in 1..Len(log[tp]) :
                  log[tp][i] # Garbage /\ log[tp][i].job = r /\ c = log[tp][i].content
          BY <1>1, <3>2 DEF ContentInv, EventsOwned, Owned
    <3> QED
        BY <3>1, <3>2 DEF ContentsUnder
  <2> QED
      BY <2>1, AtMostOne
<1>2. ContentInv /\ NoExpiry => OneContentPerJob
      BY <1>1 DEF OneContentPerJob
<1>3. NoExpiry => JobsOutliveWork /\ NoExpiry'
      BY DEF NoExpiry, JobsOutliveWork
<1> QED
    BY <1>2, <1>3, ContentInvariance, PTL

(* The result a client polls is that of the content its job was accepted with. *)
THEOREM ResultsMatchFingerprints == Spec /\ JobsOutliveWork => []ResultMatchesFingerprint
<1>1. ContentInv => ResultMatchesFingerprint
      BY DEF ContentInv
<1> QED
    BY <1>1, ContentInvariance, PTL

-----------------------------------------------------------------------------
(***************************************************************************)
(* Attempts are counted through: an event of some attempt has left the     *)
(* events of all earlier ones behind, and a job is given up after the last *)
(* of them only.  So nothing is due any more for a job that was given up.  *)
(***************************************************************************)

\* The attempt after which a job is given up.
LastAttempt == IF MaxAttempts = 0 THEN 0 ELSE MaxAttempts - 1

\* An attempt at content c of job r, and where the retry topic holds it.
Attempt(r, c, k) == [job |-> r, content |-> c, attempt |-> k]
Scheduled(e) == \E j \in 1..Len(log[RetryOf(e.job)]) : log[RetryOf(e.job)][j] = e

\* All retries of content c up to the n-th one were scheduled.
Retried(r, c, n) == \A k \in 1..n : Scheduled(Attempt(r, c, k))

\* An event is one of the attempts there may be, and those before it were made.
Counted(e) == e.attempt \in 0..LastAttempt /\ Retried(e.job, e.content, e.attempt)

\* Content c of job r went through all its attempts.
LastDeadLetter(r) == \E d \in dlq : /\ d.error = "processing_attempts_exhausted"
                                    /\ d.job = r /\ d.attempt = LastAttempt
GaveUp(r, c) == LastDeadLetter(r) /\ Retried(r, c, LastAttempt)

Exhausted(r) == jobs[r] # NoJob /\ jobs[r].error = "processing_attempts_exhausted"

\* All events are counted, and giving up comes after the last attempt.
AttemptsInv ==
    /\ \A tp \in TopicPartition : \A i \in 1..Len(log[tp]) :
          log[tp][i] # Garbage => Counted(log[tp][i])
    /\ \A w \in Worker : step[w] = "saveExhausted" => GaveUp(EventOf(w).job, EventOf(w).content)
    /\ \A r \in RequestId : Exhausted(r) => GaveUp(r, jobs[r].fingerprint)

\* What was scheduled, counted or given up stays so while the topics grow.
LEMMA AttemptsStay ==
    ASSUME InfrastructureTypeOK, InfrastructureTypeOK', Grows, NEW r \in RequestId, NEW c, NEW n \in Nat
    PROVE  /\ Retried(r, c, n) => Retried(r, c, n)'
           /\ GaveUp(r, c) => GaveUp(r, c)'
<1>1. PICK q \in TopicPartition : q = RetryOf(r) /\ q = RetryOf(r)'
      BY JobsHavePartitions DEF RetryOf
<1>2. /\ Len(log[q]) \in Nat /\ Len(log'[q]) \in Nat /\ Len(log[q]) <= Len(log'[q])
      /\ \A j \in 1..Len(log[q]) : log'[q][j] = log[q][j]
  <2>1. log[q] \in Seq(Event \cup {Garbage}) /\ log'[q] \in Seq(Event \cup {Garbage})
        BY DEF InfrastructureTypeOK
  <2> QED
      BY <2>1 DEF Grows
<1>3. ASSUME NEW k, Scheduled(Attempt(r, c, k))
      PROVE  Scheduled(Attempt(r, c, k))'
  <2>1. Attempt(r, c, k).job = r
        BY DEF Attempt
  <2>2. PICK j \in 1..Len(log[q]) : log[q][j] = Attempt(r, c, k)
        BY <1>1, <1>3, <2>1 DEF Scheduled
  <2>3. j \in 1..Len(log'[q]) /\ log'[q][j] = Attempt(r, c, k)
        BY <1>2, <2>2
  <2> QED
      BY <1>1, <2>1, <2>3 DEF Scheduled, Attempt, RetryOf
<1>4. \A m \in Nat : Retried(r, c, m) => Retried(r, c, m)'
      BY <1>3 DEF Retried
<1>5. LastDeadLetter(r) => LastDeadLetter(r)'
      BY DEF LastDeadLetter, Grows, LastAttempt
<1>6. LastAttempt \in Nat
      BY AttemptsAssumption DEF LastAttempt
<1> QED
    BY <1>4, <1>5, <1>6 DEF GaveUp, LastAttempt

(* A step keeps the count if what it appends, gives up and saves is counted. *)
LEMMA CountIsKept ==
    ASSUME IInv, IInv', AttemptsInv, Grows,
           \A tp \in TopicPartition : \A i \in 1..Len(log'[tp]) :
               i <= Len(log[tp]) \/ log'[tp][i] = Garbage \/ Counted(log[tp][i])',
           \A w \in Worker : step'[w] = "saveExhausted" =>
               \/ step[w] = "saveExhausted" /\ held'[w] = held[w]
               \/ GaveUp(EventOf(w).job, EventOf(w).content)',
           \A r \in RequestId : \/ jobs'[r] \in {jobs[r], NoJob}
                                \/ jobs'[r].error # "processing_attempts_exhausted"
                                \/ GaveUp(r, jobs[r].fingerprint)'
    PROVE  AttemptsInv'
<1> USE DEF IInv, TypeOK
<1>1. ASSUME NEW tp \in TopicPartition, NEW i \in 1..Len(log'[tp]), log'[tp][i] # Garbage
      PROVE  Counted(log[tp][i])'
  <2>1. CASE i <= Len(log[tp])
    <3>1. i \in 1..Len(log[tp]) /\ log'[tp][i] = log[tp][i]
          BY <2>1 DEF Grows, InfrastructureTypeOK
    <3>2. PICK e \in Event : e = log[tp][i] /\ e = log'[tp][i]
          BY <1>1, <3>1 DEF InfrastructureTypeOK
    <3>3. Counted(e) /\ e.job \in RequestId /\ e.attempt \in Nat
          BY <1>1, <3>1, <3>2, EventsHaveFields DEF AttemptsInv
    <3>4. Counted(e)'
          BY <3>3, AttemptsStay DEF Counted, LastAttempt
    <3> QED
        BY <3>2, <3>4 DEF Counted
  <2> QED
      BY <1>1, <2>1
<1>2. ASSUME NEW w \in Worker, step'[w] = "saveExhausted"
      PROVE  GaveUp(EventOf(w).job, EventOf(w).content)'
  <2>1. CASE step[w] = "saveExhausted" /\ held'[w] = held[w]
    <3>1. Handling(w) /\ EventOf(w) \in Event
          BY <2>1 DEF HandlingOK, Busy, Handling
    <3>2. EventOf(w)' = EventOf(w)
          BY <2>1, <3>1, PositionIsStable
    <3>3. PICK e \in Event : e = EventOf(w) /\ e = EventOf(w)'
          BY <3>1, <3>2
    <3>4. GaveUp(e.job, e.content) /\ e.job \in RequestId
          BY <2>1, <3>3, EventsHaveFields DEF AttemptsInv
    <3>5. GaveUp(e.job, e.content)'
          BY <3>4, AttemptsStay
    <3> QED
        BY <3>3, <3>5 DEF GaveUp, LastDeadLetter, Retried
  <2> QED
      BY <1>2, <2>1
<1>3. ASSUME NEW r \in RequestId, Exhausted(r)'
      PROVE  GaveUp(r, jobs[r].fingerprint)'
  <2>1. CASE jobs'[r] = jobs[r]
    <3>1. PICK c : c = jobs[r].fingerprint /\ c = jobs'[r].fingerprint
          BY <2>1
    <3>2. GaveUp(r, c)
          BY <1>3, <2>1, <3>1 DEF AttemptsInv, Exhausted
    <3>3. GaveUp(r, c)'
          BY <3>2, AttemptsStay
    <3> QED
        BY <3>1, <3>3 DEF GaveUp
  <2> QED
      BY <1>3, <2>1 DEF Exhausted
<1> QED
    BY <1>1, <1>2, <1>3 DEF AttemptsInv

(* A thread submits first attempts, and saves no job as given up.          *)
LEMMA ServiceKeepsCount ==
    ASSUME IInv, IInv', AttemptsInv, ServiceNext, UNCHANGED workerVars
    PROVE  AttemptsInv'
<1> USE DEF IInv, TypeOK
<1>1. Grows
      BY ServiceStepEffect
<1>2. ASSUME \A tp \in TopicPartition : \A i \in 1..Len(log'[tp]) :
                 i <= Len(log[tp]) \/ \E q \in Request : log'[tp][i] = InputEvent(q),
             \A r \in RequestId : \/ jobs'[r] \in {jobs[r], NoJob}
                                  \/ jobs'[r].error # "processing_attempts_exhausted"
      PROVE  AttemptsInv'
  <2>1. ASSUME NEW q \in Request
        PROVE  Counted(InputEvent(q))'
    <3>1. InputEvent(q).attempt = 0 /\ 0 \in 0..LastAttempt /\ 1..0 = {}
          BY AttemptsAssumption DEF InputEvent, LastAttempt
    <3> QED
        BY <3>1 DEF Counted, Retried, InputEvent, LastAttempt
  <2>2. \A tp \in TopicPartition : \A i \in 1..Len(log'[tp]) :
            i <= Len(log[tp]) \/ Counted(log[tp][i])'
    <3> SUFFICES ASSUME NEW tp \in TopicPartition, NEW i \in 1..Len(log'[tp]), ~(i <= Len(log[tp]))
                 PROVE  Counted(log[tp][i])'
        OBVIOUS
    <3>1. PICK q \in Request : log'[tp][i] = InputEvent(q)
          BY <1>2
    <3> QED
        BY <2>1, <3>1 DEF Counted, InputEvent
  <2>3. \A w \in Worker : step'[w] = "saveExhausted" => step[w] = "saveExhausted" /\ held'[w] = held[w]
        BY DEF workerVars
  <2> QED
      BY <1>1, <1>2, <2>2, <2>3, CountIsKept
\* Which of the two a step does.
<1>3. ASSUME NEW t \in Thread, request[t] \in Request, UNCHANGED jobs,
             UNCHANGED log \/ Publish(InputOf(request[t].job), InputEvent(request[t]))
      PROVE  AttemptsInv'
  <2>1. PICK tp \in TopicPartition, m \in Event : tp = InputOf(request[t].job) /\ m = InputEvent(request[t])
        BY <1>3, RequestsHaveFields, JobsHavePartitions
  <2>2. UNCHANGED log \/ log' = [log EXCEPT ![tp] = Append(log[tp], m)]
        BY <1>3, <2>1 DEF Publish
  <2> DEFINE Adds(p) == \A i \in 1..Len(log'[p]) : i <= Len(log[p]) \/ log'[p][i] = m
  <2>3. CASE UNCHANGED log
    <3>1. \A p \in TopicPartition : Adds(p)
          BY <2>3 DEF InfrastructureTypeOK
    <3> QED
        BY <1>2, <1>3, <2>1, <3>1
  <2>4. CASE log' = [log EXCEPT ![tp] = Append(log[tp], m)]
    <3>1. \A p \in TopicPartition : Adds(p)
          BY <2>4 DEF InfrastructureTypeOK
    <3> QED
        BY <1>2, <1>3, <2>1, <3>1
  <2> QED
      BY <2>2, <2>3, <2>4
<1>4. ASSUME NEW r \in RequestId, NEW job \in StoredJob, UNCHANGED log,
             jobs' = [jobs EXCEPT ![r] = job] \/ Save(r, job),
             job.error # "processing_attempts_exhausted"
      PROVE  AttemptsInv'
  <2>1. \A q \in RequestId : jobs'[q] = jobs[q] \/ jobs'[q] = job
        BY <1>4 DEF Save, InfrastructureTypeOK
  <2>2. \A tp \in TopicPartition : \A i \in 1..Len(log'[tp]) : i <= Len(log[tp])
        BY <1>4 DEF InfrastructureTypeOK
  <2> QED
      BY <1>2, <1>4, <2>1, <2>2
<1>5. ASSUME NEW t \in Thread, NEW q \in Request, SubmitNew(t, q)
      PROVE  AttemptsInv'
  <2> DEFINE job == [state |-> "accepted", attempt |-> 0, result |-> NoResult,
                     error |-> NoError, fingerprint |-> q.content]
  <2>1. q.job \in RequestId /\ job \in StoredJob /\ job.error = NoError
        BY RequestsHaveFields DEF StoredJob, State
  <2>2. jobs' = [jobs EXCEPT ![q.job] = job] /\ UNCHANGED log
        BY <1>5 DEF SubmitNew
  <2> HIDE DEF job
  <2> QED
      BY <1>4, <2>1, <2>2, ErrorAssumption
<1>6. ASSUME UNCHANGED <<jobs, log>>
      PROVE  AttemptsInv'
  <2>1. \A tp \in TopicPartition : \A i \in 1..Len(log'[tp]) : i <= Len(log[tp])
        BY <1>6 DEF InfrastructureTypeOK
  <2> QED
      BY <1>2, <1>6, <2>1
<1>7. ASSUME NEW t \in Thread,
             \/ CheckExisting(t) \/ AbandonCall(t) \/ \E q \in Request : SubmitExisting(t, q)
      PROVE  AttemptsInv'
      BY <1>6, <1>7 DEF CheckExisting, AbandonCall, SubmitExisting, infrastructureVars
<1>8. ASSUME NEW t \in Thread, PublishInput(t) \/ PublishInputFails(t)
      PROVE  AttemptsInv'
  <2>1. request[t] \in Request
        BY <1>8 DEF CallsOK, Calling, PublishInput, PublishInputFails
  <2>2. /\ UNCHANGED jobs
        /\ UNCHANGED log \/ Publish(InputOf(request[t].job), InputEvent(request[t]))
        BY <1>8 DEF PublishInput, PublishInputFails
  <2> QED
      BY <1>3, <2>1, <2>2
<1>9. ASSUME NEW t \in Thread, SaveAccepted(t) \/ SavePublishFailed(t)
      PROVE  AttemptsInv'
  <2> DEFINE again == [tjob[t] EXCEPT !.state = "accepted", !.error = NoError]
             lost == [tjob[t] EXCEPT !.state = "failed", !.error = "queue_publish_failed"]
  <2>1. request[t] \in Request /\ tjob[t] \in StoredJob
        BY <1>9 DEF CallsOK, Calling, SaveAccepted, SavePublishFailed
  <2>2. /\ again \in StoredJob /\ again.error = NoError
        /\ lost \in StoredJob /\ lost.error = "queue_publish_failed"
        BY <2>1, EditedJobs DEF StoredJob
  <2>3. UNCHANGED log /\ \E job \in {again, lost} : Save(request[t].job, job)
        BY <1>9 DEF SaveAccepted, SavePublishFailed
  <2> HIDE DEF again, lost
  <2> QED
      BY <1>4, <2>1, <2>2, <2>3, RequestsHaveFields, ErrorAssumption
<1> QED
    BY <1>5, <1>7, <1>8, <1>9 DEF ServiceNext, ServiceStep

(* A worker retries one attempt after the other, and gives up after the last. *)
LEMMA WorkerKeepsCount ==
    ASSUME IInv, IInv', ContentInv, AttemptsInv, NEW w \in Worker, UNCHANGED serviceVars,
           \/ WorkerStep(w) \/ WorkerCrash(w) \/ Shutdown(w) \/ Evict(w)
    PROVE  AttemptsInv'
<1> USE DEF IInv, TypeOK
<1>1. Grows /\ OnlyItself(w)
      BY WorkerStepEffect DEF StepKeeps
<1>2. ASSUME step[w] \in {"mark", "moderate", "saveSucceeded", "saveRetrying", "saveExhausted"}
      PROVE  Handling(w) /\ wjob[w] \in StoredJob /\ wjob[w].error = NoError
             /\ \E e \in Event : e = EventOf(w) /\ Counted(e)
  <2>1. Handling(w) /\ EventOf(w) \in Event
        BY <1>2 DEF HandlingOK, Busy, Handling
  <2>2. PICK tp \in TopicPartition, i \in Nat : held[w].tp = tp /\ held[w].offset = i /\ i \in 1..Len(log[tp])
        BY <2>1 DEF Handling, Position
  <2>3. EventOf(w) = log[tp][i] /\ log[tp][i] # Garbage
        BY <2>1, <2>2, SentinelAssumption DEF EventOf, MessageAt
  <2>4. Counted(log[tp][i])
        BY <2>2, <2>3 DEF AttemptsInv
  <2>5. PICK e \in Event : e = EventOf(w)
        BY <2>1
  <2>6. Counted(e)
        BY <2>3, <2>4, <2>5
  <2> QED
      BY <1>2, <2>1, <2>5, <2>6 DEF Handling
<1>3. ASSUME \A tp \in TopicPartition : \A i \in 1..Len(log'[tp]) :
                 i <= Len(log[tp]) \/ Counted(log[tp][i])',
             \A r \in RequestId : \/ jobs'[r] \in {jobs[r], NoJob}
                                  \/ jobs'[r].error # "processing_attempts_exhausted"
                                  \/ GaveUp(r, jobs[r].fingerprint)',
             step'[w] = "saveExhausted" =>
                 \/ step[w] = "saveExhausted" /\ held'[w] = held[w]
                 \/ GaveUp(EventOf(w).job, EventOf(w).content)'
      PROVE  AttemptsInv'
  <2>1. \A v \in Worker \ {w} : step'[v] = step[v] /\ held'[v] = held[v]
        BY <1>1 DEF OnlyItself
  <2> QED
      BY <1>1, <1>3, <2>1, CountIsKept
\* A step that publishes nothing to be handled adds nothing to count.
<1>4. ASSUME UNCHANGED log
      PROVE  \A tp \in TopicPartition : \A i \in 1..Len(log'[tp]) :
                 i <= Len(log[tp]) \/ Counted(log[tp][i])'
      BY <1>4 DEF InfrastructureTypeOK
<1>5. ASSUME UNCHANGED <<log, jobs>>, \/ step'[w] # "saveExhausted"
                                      \/ UNCHANGED <<step, held>>
      PROVE  AttemptsInv'
      BY <1>3, <1>4, <1>5
<1>6. CASE \/ RejectInvalid(w) \/ LoadJob(w) \/ DeadLetterMissing(w) \/ PublishResult(w)
           \/ Commit(w) \/ CommitRefused(w) \/ WorkerCrash(w) \/ Shutdown(w) \/ Restart(w)
           \/ Evict(w) \/ \E tp \in TopicPartition : Poll(w, tp)
  <2>1. UNCHANGED <<log, jobs>>
        BY <1>6 DEF RejectInvalid, LoadJob, DeadLetterMissing, PublishResult, Commit, CommitRefused,
                    WorkerCrash, Shutdown, Restart, Evict, Poll, infrastructureVars
  <2>2. \/ UNCHANGED <<step, held>>
        \/ \E s \in {"idle", "down", "commit", "missing", "mark", "saveSucceeded", "reject", "load"} : Go(w, s)
    <3>1. CASE \E tp \in TopicPartition : Poll(w, tp)
          BY <3>1 DEF Poll
    <3>2. CASE \/ RejectInvalid(w) \/ LoadJob(w) \/ DeadLetterMissing(w) \/ PublishResult(w)
               \/ Commit(w) \/ CommitRefused(w)
          BY <3>2 DEF RejectInvalid, LoadJob, DeadLetterMissing, PublishResult, Commit, CommitRefused,
                      Finish, Release
    <3>3. CASE WorkerCrash(w) \/ Shutdown(w) \/ Restart(w) \/ Evict(w)
          BY <3>3 DEF WorkerCrash, Shutdown, Restart, Evict, Release
    <3> QED
        BY <1>6, <3>1, <3>2, <3>3
  <2>3. step'[w] # "saveExhausted" \/ UNCHANGED <<step, held>>
        BY <2>2 DEF Go, WorkerTypeOK
  <2> QED
      BY <1>5, <2>1, <2>3
<1>7. ASSUME step[w] \in {"mark", "saveSucceeded", "saveRetrying", "saveExhausted"}, UNCHANGED log,
             Go(w, "moderate") \/ Go(w, "commit"),
             NEW job \in StoredJob, Save(EventOf(w).job, job),
             \/ job.error # "processing_attempts_exhausted"
             \/ step[w] = "saveExhausted" /\ job.fingerprint = EventOf(w).content
      PROVE  AttemptsInv'
  <2>1. PICK e \in Event : e = EventOf(w)
        BY <1>2, <1>7
  <2>2. \A r \in RequestId : jobs'[r] = jobs[r] \/ (jobs'[r] = job /\ r = e.job)
        BY <1>7, <2>1, EventsHaveFields, SaveKeepsType
  <2>3. ASSUME step[w] = "saveExhausted", job.fingerprint = EventOf(w).content
        PROVE  GaveUp(e.job, job.fingerprint)'
        BY <2>1, <2>3, <1>1, AttemptsStay, EventsHaveFields DEF AttemptsInv
  <2>4. ASSUME NEW r \in RequestId
        PROVE  \/ jobs'[r] \in {jobs[r], NoJob}
               \/ jobs'[r].error # "processing_attempts_exhausted"
               \/ GaveUp(r, jobs[r].fingerprint)'
    <3>1. CASE jobs'[r] = job /\ r = e.job /\ job.error = "processing_attempts_exhausted"
      <4>1. GaveUp(e.job, job.fingerprint)'
            BY <1>7, <2>3, <3>1
      <4> QED
          BY <3>1, <4>1 DEF GaveUp
    <3> QED
        BY <2>2, <3>1
  <2>5. step'[w] # "saveExhausted"
        BY <1>7 DEF Go, WorkerTypeOK
  <2> QED
      BY <1>3, <1>4, <1>7, <2>4, <2>5
<1>8. CASE MarkProcessing(w)
  <2>1. /\ step[w] = "mark" /\ UNCHANGED log /\ Go(w, "moderate")
        /\ Save(EventOf(w).job, wjob[w])
        BY <1>8 DEF MarkProcessing
  <2> QED
      BY <1>2, <1>7, <2>1, ErrorAssumption
<1>9. CASE SaveSucceeded(w) \/ SaveRetrying(w) \/ SaveExhausted(w)
  <2>1. /\ step[w] \in {"saveSucceeded", "saveRetrying", "saveExhausted"}
        /\ UNCHANGED log /\ Go(w, "commit")
        /\ SaveExhausted(w) => step[w] = "saveExhausted"
        BY <1>9 DEF SaveSucceeded, SaveRetrying, SaveExhausted, Finish
  <2> DEFINE done == [wjob[w] EXCEPT !.state = "succeeded", !.error = NoError,
                                     !.attempt = EventOf(w).attempt,
                                     !.result = EventOf(w).content]
             again == [wjob[w] EXCEPT !.state = "accepted", !.attempt = EventOf(w).attempt + 1,
                                      !.error = "processing_retry_scheduled"]
             over == [wjob[w] EXCEPT !.state = "failed", !.attempt = EventOf(w).attempt,
                                     !.error = "processing_attempts_exhausted"]
  <2>2. wjob[w] \in StoredJob /\ wjob[w].fingerprint = EventOf(w).content
        BY <1>2, <2>1 DEF ContentInv, WorkerOwns
  <2>3. EventOf(w).attempt \in Nat /\ EventOf(w).attempt + 1 \in Nat /\ EventOf(w).content \in Content
        BY <1>2, <2>1, EventsHaveFields
  <2>4. done \in StoredJob /\ again \in StoredJob /\ over \in StoredJob
        BY <2>2, <2>3, EditedJobs
  <2>5. /\ done.error = NoError /\ again.error = "processing_retry_scheduled"
        /\ over.fingerprint = EventOf(w).content
        BY <2>2 DEF StoredJob
  <2>6. \/ Save(EventOf(w).job, done) \/ Save(EventOf(w).job, again)
        \/ SaveExhausted(w) /\ Save(EventOf(w).job, over)
        BY <1>9 DEF SaveSucceeded, SaveRetrying, SaveExhausted
  <2> HIDE DEF done, again, over
  <2> QED
      BY <1>7, <2>1, <2>4, <2>5, <2>6, ErrorAssumption
<1>a. CASE PublishRetry(w)
  <2>1. /\ step[w] = "moderate" /\ EventOf(w).attempt + 1 < MaxAttempts
        /\ Publish(RetryOf(EventOf(w).job), NextAttempt(EventOf(w)))
        /\ Go(w, "saveRetrying") /\ UNCHANGED jobs
        BY <1>a DEF PublishRetry
  <2>2. PICK e \in Event : e = EventOf(w) /\ Counted(e)
        BY <1>2, <2>1
  <2>3. PICK tp \in TopicPartition, m \in Event : tp = RetryOf(e.job) /\ m = NextAttempt(e)
        BY EventsHaveFields, JobsHavePartitions
  <2>4. Publish(tp, m)
        BY <2>1, <2>2, <2>3
  <2>5. \A p \in TopicPartition : \A i \in 1..Len(log'[p]) : i <= Len(log[p]) \/ log'[p][i] = m
        BY <2>4 DEF Publish, InfrastructureTypeOK
  <2>6. Scheduled(m)'
    <3>1. m.job = e.job
          BY <2>3 DEF NextAttempt, Event
    <3>2. Len(log[tp]) + 1 \in 1..Len(log'[tp]) /\ log'[tp][Len(log[tp]) + 1] = m
          BY <2>4, PublishAppends DEF InfrastructureTypeOK
    <3> QED
        BY <2>3, <3>1, <3>2 DEF Scheduled, RetryOf
  <2>7. Counted(m)'
    <3>1. PICK n \in Nat : n = e.attempt
          BY EventsHaveFields
    <3>2. /\ m.job = e.job /\ m.content = e.content /\ m.attempt = n + 1
          /\ m = Attempt(e.job, e.content, n + 1)
          BY <2>3, <3>1 DEF NextAttempt, Event, Attempt
    <3>3. n + 1 \in 0..LastAttempt
          BY <2>1, <2>2, <3>1, AttemptsAssumption DEF LastAttempt
    <3>4. Retried(e.job, e.content, n)'
          BY <1>1, <2>2, <3>1, AttemptsStay, EventsHaveFields DEF Counted
    <3>5. Retried(e.job, e.content, n + 1)'
      <4>1. \A k \in 1..(n + 1) : k \in 1..n \/ k = n + 1
            OBVIOUS
      <4> QED
          BY <2>6, <3>2, <3>4, <4>1 DEF Retried
    <3> QED
        BY <3>2, <3>3, <3>5 DEF Counted, LastAttempt
  <2>8. \A p \in TopicPartition : \A i \in 1..Len(log'[p]) : i <= Len(log[p]) \/ Counted(log[p][i])'
        BY <2>5, <2>7 DEF Counted
  <2>9. step'[w] # "saveExhausted"
        BY <2>1 DEF Go, WorkerTypeOK
  <2> QED
      BY <1>3, <2>1, <2>8, <2>9
<1>b. CASE DeadLetterExhausted(w)
  <2>1. /\ step[w] = "moderate" /\ EventOf(w).attempt + 1 >= MaxAttempts
        /\ dlq' = dlq \cup {[job |-> EventOf(w).job, attempt |-> EventOf(w).attempt,
                             error |-> "processing_attempts_exhausted"]}
        /\ UNCHANGED <<jobs, log, held>>
        BY <1>b DEF DeadLetterExhausted
  <2>2. PICK e \in Event : e = EventOf(w) /\ Counted(e)
        BY <1>2, <2>1
  <2>3. e.attempt = LastAttempt
        BY <2>1, <2>2, AttemptsAssumption, EventsHaveFields DEF Counted, LastAttempt
  <2>4. LastDeadLetter(e.job)'
    <3> DEFINE d == [job |-> e.job, attempt |-> e.attempt, error |-> "processing_attempts_exhausted"]
    <3>1. d \in dlq'
          BY <2>1, <2>2
    <3>2. /\ d.error = "processing_attempts_exhausted"
          /\ d.job = e.job /\ d.attempt = LastAttempt
          BY <2>3
    <3> QED
        BY <3>1, <3>2 DEF LastDeadLetter, LastAttempt
  <2>5. Retried(e.job, e.content, LastAttempt)'
        BY <1>1, <2>2, <2>3, AttemptsStay, EventsHaveFields DEF Counted, LastAttempt
  <2>6. EventOf(w)' = e
        BY <2>1, <2>2 DEF EventOf, MessageAt
  <2>7. GaveUp(EventOf(w).job, EventOf(w).content)'
        BY <2>4, <2>5, <2>6 DEF GaveUp
  <2> QED
      BY <1>3, <1>4, <2>1, <2>7
<1> QED
    BY <1>6, <1>8, <1>9, <1>a, <1>b DEF WorkerStep, Handle

(* Every step counts attempts.                                             *)
LEMMA StepKeepsCount ==
    ASSUME IInv, ContentInv, AttemptsInv, [Next]_vars
    PROVE  AttemptsInv'
<1>1. IInv'
      BY StepKeepsInvariant
<1> USE DEF IInv, TypeOK
<1>2. CASE ServiceNext /\ UNCHANGED workerVars
      BY <1>1, <1>2, ServiceKeepsCount
<1>3. CASE WorkerNext /\ UNCHANGED serviceVars
      BY <1>1, <1>3, WorkerKeepsCount DEF WorkerNext
<1>4. ASSUME UNCHANGED workerVars, Grows,
             \A tp \in TopicPartition : \A i \in 1..Len(log'[tp]) : i <= Len(log[tp]) \/ log'[tp][i] = Garbage,
             \A r \in RequestId : jobs'[r] \in {jobs[r], NoJob}
      PROVE  AttemptsInv'
  <2>1. \A w \in Worker : step'[w] = step[w] /\ held'[w] = held[w]
        BY <1>4 DEF workerVars
  <2> QED
      BY <1>1, <1>4, <2>1, CountIsKept
<1>5. ASSUME NEW r \in RequestId, Expire(r)
      PROVE  AttemptsInv'
      BY <1>4, <1>5 DEF Expire, Grows, InfrastructureTypeOK
<1>6. ASSUME NEW tp \in TopicPartition, ForeignMessage(tp)
      PROVE  AttemptsInv'
  <2>1. Publish(tp, Garbage) /\ UNCHANGED <<jobs, results, dlq, workerVars>>
        BY <1>6 DEF ForeignMessage
  <2>2. \A p \in TopicPartition : \A i \in 1..Len(log'[p]) : i <= Len(log[p]) \/ log'[p][i] = Garbage
        BY <2>1 DEF Publish, InfrastructureTypeOK
  <2> QED
      BY <1>4, <2>1, <2>2, PublishAppends DEF Grows
<1>7. CASE UNCHANGED vars
      BY <1>4, <1>7 DEF vars, infrastructureVars, Grows, InfrastructureTypeOK
<1> QED
    BY <1>2, <1>3, <1>5, <1>6, <1>7 DEF Next

(* Where the attempts are counted, nothing is due for a job given up.      *)
LEMMA NothingIsDue ==
    ASSUME IInv, ContentInv, AttemptsInv
    PROVE  ExhaustedIsSettled
<1> SUFFICES ASSUME NEW r \in RequestId, Exhausted(r), NEW tp \in TopicPartition,
                    NEW i \in 1..Len(log[tp]), log[tp][i] # Garbage, log[tp][i].job = r,
                    i > committed[tp]
             PROVE  Settled(tp, i)
  <2>1. \A tp \in TopicPartition : \A i \in 1..Len(log[tp]) : i > committed[tp] \/ i <= committed[tp]
        BY DEF IInv, TypeOK, InfrastructureTypeOK
  <2> QED
      BY <2>1 DEF ExhaustedIsSettled, Exhausted, IInv, NoEventDropped
<1>1. PICK e \in Event : e = log[tp][i] /\ e.job = r /\ Counted(e)
      BY DEF IInv, TypeOK, InfrastructureTypeOK, AttemptsInv
<1>2. GaveUp(r, e.content)
      BY <1>1 DEF ContentInv, QueuedOwned, Owned, AttemptsInv
<1>3. PICK n \in Nat : n = e.attempt /\ n <= LastAttempt /\ LastAttempt \in Nat
      BY <1>1, AttemptsAssumption, EventsHaveFields DEF Counted, LastAttempt
<1>4. CASE n = LastAttempt
  <2>1. \E d \in dlq : d.error # "invalid_event_schema" /\ d.job = e.job /\ d.attempt = e.attempt
        BY <1>1, <1>2, <1>3, <1>4 DEF GaveUp, LastDeadLetter
  <2> QED
      BY <1>1, <2>1 DEF Settled
<1>5. CASE n < LastAttempt
  <2>1. n + 1 \in 1..LastAttempt
        BY <1>3, <1>5
  <2>2. Scheduled(Attempt(r, e.content, n + 1))
        BY <1>2, <2>1 DEF GaveUp, Retried
  <2>3. Attempt(r, e.content, n + 1) = NextAttempt(e) /\ NextAttempt(e).job = r
        BY <1>1, <1>3 DEF Attempt, NextAttempt, Event
  <2>4. \E j \in 1..Len(log[RetryOf(r)]) : log[RetryOf(r)][j] = NextAttempt(e)
        BY <2>2, <2>3 DEF Scheduled
  <2> QED
      BY <1>1, <2>4 DEF Settled
<1> QED
    BY <1>3, <1>4, <1>5

(* An event that comes for a job that used up its attempts is never work   *)
(* still due: only a redelivery opens such a job again.                    *)
THEOREM GivenUpIsSettled == Spec /\ JobsOutliveWork => []ExhaustedIsSettled
<1>1. Init => AttemptsInv
      BY DEF Init, InfrastructureInit, ServiceInit, WorkerInit, AttemptsInv, Exhausted
<1>2. IInv /\ ContentInv /\ AttemptsInv /\ [Next]_vars => AttemptsInv'
      BY StepKeepsCount
<1>3. IInv /\ ContentInv /\ AttemptsInv => ExhaustedIsSettled
      BY NothingIsDue
<1> QED
    BY <1>1, <1>2, <1>3, Invariance, ContentInvariance, PTL DEF Spec

-----------------------------------------------------------------------------
(***************************************************************************)
(* One worker, as the Compose stack runs it, and calls that get through: a *)
(* job in progress is still worked on, whatever else goes wrong, and as    *)
(* long as it does not expire meanwhile a client sees it move along its    *)
(* life cycle.                                                             *)
(***************************************************************************)

\* The worker group has one member.
OneWorker == \A v, w \in Worker : v = w

\* The calls of the API get through: what may happen besides is up to the worker, to
\* its group, to the time to live and to other producers.
CallsGetThrough == Faults \cap {"publish_failure", "api_failure"} = {}

\* A new job whose event is not published yet.
BeingSubmitted(r) == \E t \in Thread : phase[t] = "publish" /\ request[t].job = r

\* A client may still see the job change.
Undecided(r) == jobs[r] # NoJob /\ jobs[r].state \in {"accepted", "processing"}

\* Work on job r is still to come, from a message that is not at position p.
PendingBeside(p, r) ==
    \/ BeingSubmitted(r)
    \/ \E tp \in TopicPartition : \E i \in 1..Len(log[tp]) :
          /\ i > committed[tp] /\ p # [tp |-> tp, offset |-> i]
          /\ log[tp][i] # Garbage /\ log[tp][i].job = r

\* Work on job r is still to come.
Pending(r) == PendingBeside(NoMessage, r)

\* The job of the event a worker handles is where the worker expects it.
JobInPlace(w) ==
    LET r == EventOf(w).job
    IN  /\ step[w] = "mark" => jobs[r] # NoJob /\ jobs[r].state # "succeeded"
        /\ step[w] \in {"moderate", "saveSucceeded", "saveRetrying", "saveExhausted"} =>
              jobs[r] # NoJob /\ jobs[r].state = "processing"

\* The worker leaves no undecided job behind that nothing is queued for.
Following(w) ==
    LET r == EventOf(w).job
    IN  /\ step[w] = "saveRetrying" => PendingBeside(held[w], r)
        /\ step[w] \in {"missing", "commit"} => (Undecided(r) => PendingBeside(held[w], r))
        /\ JobsOutliveWork => JobInPlace(w)

\* No event was published twice or failed to be published.
Calm == /\ \A t \in Thread : phase[t] \in {"idle", "check", "publish"}
        /\ \A r \in RequestId : jobs[r] # NoJob => jobs[r].error # "queue_publish_failed"

\* Nobody commits what the worker handles, be it evicted or not.
AtHead(w) == held[w].offset = committed[held[w].tp] + 1

\* The invariant of a pipeline with one worker whose publications do not fail.
CalmInv == /\ OneWorker /\ CallsGetThrough /\ Calm
           /\ \A r \in RequestId : Undecided(r) => Pending(r)
           /\ \A w \in Worker : Busy(w) => AtHead(w)
           /\ \A w \in Worker : Busy(w) /\ EventOf(w) # Garbage => Following(w)

\* The event of a job being submitted is published before the call ends.
CallsEndQueued == \A r \in RequestId : BeingSubmitted(r) =>
    \/ BeingSubmitted(r)'
    \/ \E tp \in TopicPartition : \E i \in 1..Len(log'[tp]) :
          i > Len(log[tp]) /\ log'[tp][i] # Garbage /\ log'[tp][i].job = r

(* While no offset moves, pending work stays pending.                      *)
LEMMA PendingStays ==
    ASSUME IInv, InfrastructureTypeOK', Grows, UNCHANGED committed, CallsEndQueued,
           NEW r \in RequestId, NEW p,
           p = NoMessage \/ (p \in Position /\ p.offset <= Len(log[p.tp])),
           PendingBeside(p, r)
    PROVE  PendingBeside(p, r)'
<1> USE DEF IInv, TypeOK
<1>1. ASSUME NEW tp \in TopicPartition, NEW i \in 1..Len(log'[tp]), i > Len(log[tp]),
             log'[tp][i] # Garbage, log'[tp][i].job = r
      PROVE  PendingBeside(p, r)'
  <2>1. i > committed[tp]
        BY <1>1 DEF OffsetsOK, InfrastructureTypeOK
  <2>2. p # [tp |-> tp, offset |-> i]
    <3>1. [tp |-> tp, offset |-> i] \in Position
          BY <1>1 DEF Position, InfrastructureTypeOK
    <3> QED
        BY <1>1, <3>1, MessageAssumption DEF InfrastructureTypeOK
  <2> QED
      BY <1>1, <2>1, <2>2 DEF PendingBeside
<1>2. CASE BeingSubmitted(r)
      BY <1>1, <1>2 DEF CallsEndQueued, PendingBeside
<1>3. ASSUME NEW tp \in TopicPartition, NEW i \in 1..Len(log[tp]),
             i > committed[tp], p # [tp |-> tp, offset |-> i],
             log[tp][i] # Garbage, log[tp][i].job = r
      PROVE  PendingBeside(p, r)'
  <2>1. i \in 1..Len(log'[tp]) /\ log'[tp][i] = log[tp][i]
        BY <1>3 DEF Grows, InfrastructureTypeOK
  <2> QED
      BY <1>3, <2>1 DEF PendingBeside
<1> QED
    BY <1>2, <1>3 DEF PendingBeside

(* The message a worker handles is itself pending work for its job.        *)
LEMMA HandledIsPending ==
    ASSUME IInv, CalmInv, NEW w \in Worker, Busy(w), EventOf(w) # Garbage
    PROVE  Pending(EventOf(w).job) /\ EventOf(w).job \in RequestId
<1> USE DEF IInv, TypeOK
<1>1. Handling(w) /\ AtHead(w)
      BY DEF HandlingOK, CalmInv
<1>2. /\ held[w].tp \in TopicPartition /\ held[w].offset \in 1..Len(log[held[w].tp])
      /\ held[w].offset = committed[held[w].tp] + 1
      /\ EventOf(w) = log[held[w].tp][held[w].offset]
      BY <1>1 DEF Handling, Position, EventOf, MessageAt, AtHead
<1>3. EventOf(w) \in Event
      BY <1>2 DEF InfrastructureTypeOK
<1>4. [tp |-> held[w].tp, offset |-> held[w].offset] # NoMessage
      BY <1>2, MessageAssumption DEF Position, InfrastructureTypeOK
<1>5. held[w].offset > committed[held[w].tp]
      BY <1>2 DEF InfrastructureTypeOK
<1> QED
    BY <1>2, <1>3, <1>4, <1>5, EventsHaveFields DEF Pending, PendingBeside

(* Pending work is what the property calls work in progress.               *)
LEMMA PendingIsProgress ==
    ASSUME NEW r \in RequestId, Pending(r)
    PROVE  InProgress(r)
<1>1. CASE BeingSubmitted(r)
      BY <1>1 DEF BeingSubmitted, InProgress, CallPending
<1>2. CASE ~BeingSubmitted(r)
      BY <1>2 DEF Pending, PendingBeside, InProgress, MessagePending
<1> QED
    BY <1>1, <1>2

\* One job moves along the life cycle a client is promised.
Moved(r, job) ==
    /\ jobs' = [jobs EXCEPT ![r] = job]
    /\ \/ jobs[r] = NoJob /\ job # NoJob /\ job.state = "accepted"
       \/ jobs[r] # NoJob /\ jobs[r].state # "succeeded" /\ job # NoJob /\ job.state = "processing"
       \/ jobs[r] # NoJob /\ jobs[r].state = "processing"
             /\ job # NoJob /\ job.state \in {"succeeded", "accepted", "failed"}
       \/ jobs[r] # NoJob /\ jobs[r].state \in {"succeeded", "failed"} /\ job = NoJob

\* A step moves one stored job at most, as the lifecycle allows.
LifeStep == \/ UNCHANGED jobs
            \/ \E r \in RequestId : \E job \in StoredJob \cup {NoJob} : Moved(r, job)

(* Threads, expiries and other producers start jobs, queue them and remove *)
(* what nothing is pending for; the worker goes on as before.              *)
LEMMA OthersStayCalm ==
    ASSUME IInv, IInv', CalmInv, Grows, UNCHANGED <<committed, workerVars>>, Calm', CallsEndQueued,
           \A r \in RequestId :
              \/ jobs'[r] = jobs[r]
              \/ jobs[r] = NoJob /\ jobs'[r] # NoJob /\ BeingSubmitted(r)'
              \/ jobs'[r] = NoJob /\ (JobsOutliveWork => ~InProgress(r))
    PROVE  CalmInv'
<1> USE DEF IInv, TypeOK
<1>1. ASSUME NEW r \in RequestId, Undecided(r)'
      PROVE  Pending(r)'
  <2>1. CASE BeingSubmitted(r)'
        BY <2>1 DEF Pending, PendingBeside
  <2>2. CASE jobs'[r] = jobs[r]
        BY <1>1, <2>2, PendingStays DEF CalmInv, Undecided, Pending
  <2> QED
      BY <1>1, <2>1, <2>2 DEF Undecided
<1>2. ASSUME NEW w \in Worker, Busy(w)', EventOf(w)' # Garbage
      PROVE  Following(w)'
  <2>1. Busy(w) /\ step'[w] = step[w] /\ held'[w] = held[w] /\ Handling(w)
        BY <1>2 DEF workerVars, Busy, HandlingOK
  <2>2. EventOf(w)' = EventOf(w) /\ held[w] \in Position /\ held[w].offset <= Len(log[held[w].tp])
        BY <2>1, PositionIsStable DEF Handling, Position, InfrastructureTypeOK
  <2>3. EventOf(w).job \in RequestId /\ Following(w) /\ InProgress(EventOf(w).job)
        BY <1>2, <2>1, <2>2, HandledIsPending, PendingIsProgress DEF CalmInv
  <2>4. PICK r \in RequestId : r = EventOf(w).job /\ r = EventOf(w).job'
        BY <2>2, <2>3
  <2>5. PICK p \in Position : p = held[w] /\ p = held'[w]
        BY <2>1, <2>2
  <2>6. PendingBeside(p, r) => PendingBeside(p, r)'
        BY <2>2, <2>5, PendingStays
  <2>7. BeingSubmitted(r)' => PendingBeside(p, r)'
        BY DEF PendingBeside
  <2>8. JobsOutliveWork => jobs'[r] = jobs[r] \/ (jobs[r] = NoJob /\ BeingSubmitted(r)')
        BY <2>3, <2>4
  <2>9. Undecided(r)' => Undecided(r) \/ BeingSubmitted(r)'
        BY <2>4 DEF Undecided
  <2>10. JobsOutliveWork => JobInPlace(w)'
        BY <2>1, <2>3, <2>4, <2>8 DEF Following, JobInPlace
  <2> QED
      BY <2>1, <2>3, <2>4, <2>5, <2>6, <2>7, <2>9, <2>10 DEF Following, JobsOutliveWork
<1>3. \A w \in Worker : Busy(w)' => AtHead(w)'
      BY DEF CalmInv, AtHead, Busy, workerVars
<1> QED
    BY <1>1, <1>2, <1>3 DEF CalmInv, OneWorker, CallsGetThrough

(* A step of a call keeps the pipeline calm.                               *)
LEMMA ServiceStaysCalm ==
    ASSUME IInv, IInv', CalmInv, ServiceNext, UNCHANGED workerVars
    PROVE  CalmInv' /\ (JobsOutliveWork => LifeStep)
<1> USE DEF IInv, TypeOK
<1>1. Grows /\ UNCHANGED committed
      BY ServiceStepEffect
<1>2. ~\E t \in Thread : PublishInputFails(t) \/ AbandonCall(t) \/ SaveAccepted(t) \/ SavePublishFailed(t)
      BY DEF PublishInputFails, AbandonCall, SaveAccepted, SavePublishFailed, Fault,
             CalmInv, CallsGetThrough, Calm
<1>3. ASSUME UNCHANGED jobs, NEW t \in Thread, phase'[t] \in {"idle", "check", "publish"},
             \A u \in Thread \ {t} : phase'[u] = phase[u] /\ request'[u] = request[u],
             CallsEndQueued
      PROVE  CalmInv' /\ (JobsOutliveWork => LifeStep)
  <2>1. Calm'
        BY <1>3 DEF CalmInv, Calm, workerVars
  <2> QED
      BY <1>1, <1>3, <2>1, OthersStayCalm DEF LifeStep
<1>4. ASSUME NEW t \in Thread, NEW q \in Request, SubmitNew(t, q)
      PROVE  CalmInv' /\ (JobsOutliveWork => LifeStep)
  <2> DEFINE job == [state |-> "accepted", attempt |-> 0, result |-> NoResult,
                     error |-> NoError, fingerprint |-> q.content]
  <2>1. q.job \in RequestId /\ job \in StoredJob /\ job # NoJob /\ job.state = "accepted"
        BY <1>4, RequestsHaveFields, SentinelAssumption DEF StoredJob, State
  <2>2. /\ jobs' = [jobs EXCEPT ![q.job] = job] /\ jobs[q.job] = NoJob
        /\ Enter(t, "publish", q, job) /\ phase[t] = "idle"
        BY <1>4 DEF SubmitNew
  <2>3. /\ phase'[t] = "publish" /\ request'[t] = q
        /\ \A u \in Thread \ {t} : phase'[u] = phase[u] /\ request'[u] = request[u]
        BY <2>2 DEF Enter, ServiceTypeOK
  <2>4. CallsEndQueued
        BY <2>2, <2>3 DEF CallsEndQueued, BeingSubmitted
  <2>5. Calm'
        BY <2>1, <2>2, <2>3, ErrorAssumption DEF CalmInv, Calm, workerVars, InfrastructureTypeOK
  <2>6. BeingSubmitted(q.job)'
        BY <2>3 DEF BeingSubmitted
  <2>7. \A r \in RequestId : jobs'[r] = jobs[r]
                             \/ (jobs[r] = NoJob /\ jobs'[r] # NoJob /\ r = q.job)
        BY <2>1, <2>2 DEF InfrastructureTypeOK
  <2>8. CalmInv'
        BY <1>1, <2>4, <2>5, <2>6, <2>7, OthersStayCalm
  <2>9. LifeStep
        BY <2>1, <2>2 DEF LifeStep, Moved
  <2> QED
      BY <2>8, <2>9
<1>5. ASSUME NEW t \in Thread, NEW q \in Request, SubmitExisting(t, q)
      PROVE  CalmInv' /\ (JobsOutliveWork => LifeStep)
  <2>1. /\ UNCHANGED infrastructureVars /\ phase[t] = "idle" /\ phase'[t] = "check"
        /\ \A u \in Thread \ {t} : phase'[u] = phase[u] /\ request'[u] = request[u]
        BY <1>5 DEF SubmitExisting, Enter, ServiceTypeOK
  <2>2. CallsEndQueued
        BY <2>1 DEF CallsEndQueued, BeingSubmitted
  <2> QED
      BY <1>3, <2>1, <2>2 DEF infrastructureVars
<1>6. ASSUME NEW t \in Thread, CheckExisting(t)
      PROVE  CalmInv' /\ (JobsOutliveWork => LifeStep)
  <2>1. request[t].job \in RequestId /\ phase[t] = "check"
        BY <1>6, RequestsHaveFields DEF CheckExisting, CallsOK, Calling
  <2>2. ~(jobs[request[t].job] # NoJob /\ jobs[request[t].job].error = "queue_publish_failed")
        BY <2>1 DEF CalmInv, Calm
  <2>3. UNCHANGED infrastructureVars /\ (Refuse(t) \/ Answer202(t))
        BY <1>6, <2>2 DEF CheckExisting
  <2>4. /\ phase'[t] = "idle"
        /\ \A u \in Thread \ {t} : phase'[u] = phase[u] /\ request'[u] = request[u]
        BY <2>3 DEF Refuse, Answer202, Enter, ServiceTypeOK
  <2>5. CallsEndQueued
        BY <2>1, <2>4 DEF CallsEndQueued, BeingSubmitted
  <2> QED
      BY <1>3, <2>3, <2>4, <2>5 DEF infrastructureVars
<1>7. ASSUME NEW t \in Thread, PublishInput(t)
      PROVE  CalmInv' /\ (JobsOutliveWork => LifeStep)
  <2>1. phase[t] = "publish" /\ request[t] \in Request /\ UNCHANGED jobs
        BY <1>7 DEF PublishInput, CalmInv, Calm, CallsOK, Calling
  <2>2. Answer202(t) /\ Publish(InputOf(request[t].job), InputEvent(request[t]))
        BY <1>7, <2>1 DEF PublishInput
  <2>3. /\ phase'[t] = "idle"
        /\ \A u \in Thread \ {t} : phase'[u] = phase[u] /\ request'[u] = request[u]
        BY <2>2 DEF Answer202, Enter, ServiceTypeOK
  <2> DEFINE tp == InputOf(request[t].job)
             m == InputEvent(request[t])
  <2>4. tp \in TopicPartition /\ m \in Event /\ m # Garbage /\ m.job = request[t].job
        BY <2>1, RequestsHaveFields, JobsHavePartitions, SentinelAssumption DEF InputEvent
  <2>5. Len(log'[tp]) = Len(log[tp]) + 1 /\ log'[tp][Len(log[tp]) + 1] = m
        BY <2>2, <2>4, PublishAppends
  <2>6. CallsEndQueued
    <3> HIDE DEF tp, m
    <3>1. Len(log[tp]) + 1 \in 1..Len(log'[tp]) /\ Len(log[tp]) + 1 > Len(log[tp])
          BY <2>4, <2>5 DEF InfrastructureTypeOK
    <3>2. ASSUME NEW r \in RequestId, BeingSubmitted(r)
          PROVE  \/ BeingSubmitted(r)'
                 \/ \E p \in TopicPartition : \E i \in 1..Len(log'[p]) :
                       i > Len(log[p]) /\ log'[p][i] # Garbage /\ log'[p][i].job = r
      <4>1. PICK u \in Thread : phase[u] = "publish" /\ request[u].job = r
            BY <3>2 DEF BeingSubmitted
      <4>2. CASE u = t
            BY <2>4, <2>5, <3>1, <4>1, <4>2
      <4>3. CASE u # t
            BY <2>3, <4>1, <4>3 DEF BeingSubmitted
      <4> QED
          BY <4>2, <4>3
    <3> QED
        BY <3>2 DEF CallsEndQueued
  <2> QED
      BY <1>3, <2>1, <2>3, <2>6
<1> QED
    BY <1>2, <1>4, <1>5, <1>6, <1>7 DEF ServiceNext, ServiceStep

(* A step of the only worker that moves no offset saves at most the job of *)
(* its event, and an undecided job only while something is pending for it. *)
LEMMA WorkerStaysCalm ==
    ASSUME IInv, IInv', CalmInv, NEW w \in Worker, Grows,
           UNCHANGED <<committed, serviceVars>>, Busy(w)' => AtHead(w)',
           Busy(w)' /\ EventOf(w)' # Garbage => Following(w)',
           \/ UNCHANGED jobs
           \/ \E r \in RequestId : \E job \in StoredJob :
                 /\ jobs' = [jobs EXCEPT ![r] = job] /\ job.error # "queue_publish_failed"
                 /\ Pending(r)
    PROVE  CalmInv'
<1> USE DEF IInv, TypeOK
<1>1. CallsEndQueued
      BY DEF CallsEndQueued, BeingSubmitted, serviceVars
<1>2. Calm'
      BY SentinelAssumption DEF CalmInv, Calm, serviceVars, InfrastructureTypeOK
<1>3. ASSUME NEW r \in RequestId, Undecided(r)'
      PROVE  Pending(r)'
  <2>1. Undecided(r) \/ Pending(r)
        BY <1>3 DEF Undecided, InfrastructureTypeOK
  <2>2. Pending(r)
        BY <2>1 DEF CalmInv
  <2> QED
      BY <1>1, <2>2, PendingStays DEF Pending
<1>4. ASSUME NEW v \in Worker, Busy(v)'
      PROVE  AtHead(v)' /\ (EventOf(v)' # Garbage => Following(v)')
  <2>1. v = w
        BY DEF CalmInv, OneWorker
  <2> QED
      BY <1>4, <2>1
<1> QED
    BY <1>2, <1>3, <1>4 DEF CalmInv, OneWorker, CallsGetThrough

(* A commit leaves no undecided job without anything pending for it.       *)
LEMMA CommitStaysCalm ==
    ASSUME IInv, IInv', CalmInv, NEW w \in Worker, Commit(w), UNCHANGED serviceVars
    PROVE  CalmInv'
<1> USE DEF IInv, TypeOK
<1>1. /\ Busy(w) /\ step[w] = "commit" /\ w \notin fenced
      /\ committed' = [committed EXCEPT ![held[w].tp] = held[w].offset]
      /\ UNCHANGED <<jobs, log>> /\ step'[w] = "idle"
      BY DEF Commit, Release, Go, Busy, WorkerTypeOK, CalmInv, Calm
<1>2. PICK p \in Position : p = held[w]
      BY <1>1 DEF HandlingOK, Handling
<1>3. /\ p.tp \in TopicPartition /\ p.offset = committed[p.tp] + 1
      /\ p = [tp |-> p.tp, offset |-> p.offset]
      BY <1>1, <1>2 DEF HandlingOK, Handling, Position
<1>4. ASSUME NEW r \in RequestId, PendingBeside(p, r)
      PROVE  Pending(r)'
  <2>1. CASE BeingSubmitted(r)
        BY <2>1 DEF BeingSubmitted, serviceVars, Pending, PendingBeside
  <2>2. ASSUME NEW tp \in TopicPartition, NEW i \in 1..Len(log[tp]),
               i > committed[tp], p # [tp |-> tp, offset |-> i],
               log[tp][i] # Garbage, log[tp][i].job = r
        PROVE  Pending(r)'
    <3>1. i > committed'[tp]
      <4>1. CASE tp = p.tp
        <5>1. i # p.offset
              BY <1>3, <2>2, <4>1
        <5> QED
            BY <1>1, <1>2, <1>3, <2>2, <4>1, <5>1 DEF InfrastructureTypeOK
      <4>2. CASE tp # p.tp
            BY <1>1, <1>2, <2>2, <4>2 DEF InfrastructureTypeOK
      <4> QED
          BY <4>1, <4>2
    <3>2. [tp |-> tp, offset |-> i] # NoMessage
          BY MessageAssumption DEF Position, InfrastructureTypeOK
    <3> QED
        BY <1>1, <2>2, <3>1, <3>2 DEF Pending, PendingBeside
  <2> QED
      BY <1>4, <2>1, <2>2 DEF PendingBeside
<1>5. ASSUME NEW r \in RequestId, Undecided(r)'
      PROVE  Pending(r)'
  <2>1. Undecided(r) /\ Pending(r)
        BY <1>1, <1>5 DEF Undecided, CalmInv
  <2>2. CASE EventOf(w) # Garbage /\ EventOf(w).job = r
    <3>1. PendingBeside(p, r)
          BY <1>1, <1>2, <2>1, <2>2 DEF CalmInv, Following
    <3> QED
        BY <1>4, <3>1
  <2>3. CASE ~(EventOf(w) # Garbage /\ EventOf(w).job = r)
    <3>1. log[p.tp][p.offset] = EventOf(w)
          BY <1>2 DEF EventOf, MessageAt
    <3>2. PendingBeside(p, r)
          BY <1>3, <2>1, <2>3, <3>1 DEF Pending, PendingBeside
    <3> QED
        BY <1>4, <3>2
  <2> QED
      BY <2>2, <2>3
<1>6. ASSUME NEW v \in Worker
      PROVE  ~Busy(v)'
  <2>1. v = w
        BY DEF CalmInv, OneWorker
  <2> QED
      BY <1>1, <2>1 DEF Busy
<1>7. Calm'
      BY <1>1 DEF CalmInv, Calm, serviceVars
<1> QED
    BY <1>5, <1>6, <1>7 DEF CalmInv, OneWorker, CallsGetThrough

(* Each step of the only worker keeps the pipeline calm.                   *)
LEMMA WorkerStepStaysCalm ==
    ASSUME IInv, IInv', CalmInv, NEW w \in Worker, UNCHANGED serviceVars,
           \/ WorkerStep(w) \/ WorkerCrash(w) \/ Shutdown(w) \/ Evict(w)
    PROVE  CalmInv' /\ (JobsOutliveWork => LifeStep)
<1> USE DEF IInv, TypeOK
<1>1. Grows /\ OnlyItself(w)
      BY WorkerStepEffect DEF StepKeeps
<1>2. ASSUME Busy(w), UNCHANGED committed, held'[w] = held[w]
      PROVE  AtHead(w)'
      BY <1>2 DEF CalmInv, AtHead
<1>3. CASE Commit(w)
      BY <1>3, CommitStaysCalm DEF Commit, LifeStep
<1>4. ASSUME UNCHANGED <<jobs, committed>>, Busy(w)' => AtHead(w)',
             Busy(w)' /\ EventOf(w)' # Garbage => Following(w)'
      PROVE  CalmInv' /\ (JobsOutliveWork => LifeStep)
      BY <1>1, <1>4, WorkerStaysCalm DEF LifeStep
<1>5. CASE Restart(w) \/ WorkerCrash(w) \/ Shutdown(w) \/ CommitRefused(w)
  <2>1. ~Busy(w)'
        BY <1>5 DEF Restart, WorkerCrash, Shutdown, CommitRefused, Release, Go, WorkerTypeOK, Busy
  <2>2. UNCHANGED <<jobs, committed>>
        BY <1>5 DEF Restart, WorkerCrash, Shutdown, CommitRefused, infrastructureVars
  <2> QED
      BY <1>4, <2>1, <2>2
<1>a. CASE \E tp \in TopicPartition : Poll(w, tp)
  <2>1. PICK tp \in TopicPartition : Poll(w, tp)
        BY <1>a
  <2>2. step'[w] \in {"reject", "load"} /\ UNCHANGED <<jobs, committed>>
        BY <2>1 DEF Poll, Go, WorkerTypeOK, infrastructureVars
  <2>3. held'[w] = [tp |-> tp, offset |-> committed[tp] + 1]
        BY <2>1 DEF Poll, WorkerTypeOK
  <2>4. AtHead(w)'
        BY <2>2, <2>3 DEF AtHead
  <2>5. Following(w)'
        BY <2>2 DEF Following, JobInPlace
  <2> QED
      BY <1>4, <2>2, <2>4, <2>5
<1>b. CASE Evict(w)
  <2>1. Busy(w) /\ UNCHANGED <<jobs, log, committed, step, held, wjob, serviceVars>>
        BY <1>b DEF Evict
  <2>2. EventOf(w)' = EventOf(w)
        BY <2>1 DEF EventOf, MessageAt
  <2>3. PICK r, p : r = EventOf(w).job /\ r = EventOf(w).job' /\ p = held[w] /\ p = held'[w]
        BY <2>1, <2>2
  <2>4. PendingBeside(p, r)' <=> PendingBeside(p, r)
        BY <2>1 DEF PendingBeside, BeingSubmitted, serviceVars
  <2>5. EventOf(w) # Garbage => Following(w)
        BY <2>1 DEF CalmInv
  <2>6. EventOf(w)' # Garbage => Following(w)'
        BY <2>1, <2>2, <2>3, <2>4, <2>5 DEF Following, JobInPlace, Undecided, JobsOutliveWork
  <2> QED
      BY <1>2, <1>4, <2>1, <2>6
<1>6. CASE RejectInvalid(w)
  <2>1. /\ step[w] = "reject" /\ UNCHANGED <<jobs, log, committed, held>>
        BY <1>6 DEF RejectInvalid, Finish
  <2>2. EventOf(w)' = EventOf(w) /\ EventOf(w) = Garbage
        BY <2>1 DEF EventOf, MessageAt, HandlingOK, Handling, Busy
  <2> QED
      BY <1>2, <1>4, <2>1, <2>2 DEF Busy
<1>7. ASSUME step[w] \in {"load", "missing", "mark", "moderate",
                          "saveSucceeded", "saveRetrying", "saveExhausted"},
             UNCHANGED <<committed, held>>
      PROVE  /\ AtHead(w)' /\ Handling(w) /\ EventOf(w) \in Event /\ EventOf(w)' = EventOf(w) /\ EventOf(w) # Garbage
             /\ EventOf(w).job \in RequestId /\ Pending(EventOf(w).job) /\ Following(w)
             /\ held[w] \in Position /\ held[w].offset <= Len(log[held[w].tp])
             /\ held[w].tp \in TopicPartition
  <2>1. Busy(w) /\ Handling(w)
        BY <1>7 DEF Busy, HandlingOK
  <2>2. EventOf(w) \in Event /\ EventOf(w) # Garbage
        BY <1>7, <2>1, SentinelAssumption DEF Handling
  <2>3. EventOf(w)' = EventOf(w)
        BY <1>1, <1>7, <2>1, PositionIsStable
  <2>4. /\ held[w] \in Position /\ held[w].offset <= Len(log[held[w].tp])
        /\ held[w].tp \in TopicPartition
        BY <2>1 DEF Handling, Position, InfrastructureTypeOK
  <2> QED
      BY <1>2, <1>7, <2>1, <2>2, <2>3, <2>4, HandledIsPending DEF CalmInv
<1>8. CASE LoadJob(w)
  <2>1. step[w] = "load" /\ UNCHANGED <<jobs, log, committed, held>>
        BY <1>8 DEF LoadJob, Finish, infrastructureVars
  <2>2. PICK r \in RequestId : r = EventOf(w).job /\ r = EventOf(w).job'
        BY <1>7, <2>1
  <2>3. \/ jobs[r] = NoJob /\ step'[w] = "missing"
        \/ jobs[r] # NoJob /\ jobs[r].state = "succeeded" /\ step'[w] = "commit"
        \/ jobs[r] # NoJob /\ jobs[r].state # "succeeded" /\ step'[w] = "mark"
        BY <1>8, <2>2 DEF LoadJob, Finish, Go, WorkerTypeOK
  <2>4. Following(w)'
        BY <2>1, <2>2, <2>3 DEF Following, JobInPlace, Undecided
  <2> QED
      BY <1>4, <1>7, <2>1, <2>4
<1>9. CASE DeadLetterMissing(w)
  <2>1. /\ step[w] = "missing" /\ step'[w] = "commit"
        /\ UNCHANGED <<jobs, log, committed, held>>
        BY <1>9 DEF DeadLetterMissing, Finish, Go, WorkerTypeOK
  <2>2. PICK r \in RequestId : r = EventOf(w).job /\ r = EventOf(w).job'
        BY <1>7, <2>1
  <2>3. Undecided(r) => PendingBeside(held[w], r)
        BY <1>7, <2>1, <2>2 DEF Following
  <2>4. Undecided(r)' => PendingBeside(held[w], r)'
        BY <2>1, <2>3 DEF Undecided, PendingBeside, BeingSubmitted, serviceVars
  <2>5. Following(w)'
        BY <2>1, <2>2, <2>4 DEF Following, JobInPlace
  <2> QED
      BY <1>4, <1>7, <2>1, <2>5
<1>10. CASE PublishResult(w) \/ DeadLetterExhausted(w)
  <2>1. /\ step[w] = "moderate" /\ step'[w] \in {"saveSucceeded", "saveExhausted"}
        /\ UNCHANGED <<jobs, log, committed, held>>
        BY <1>10 DEF PublishResult, DeadLetterExhausted, Go, WorkerTypeOK
  <2>2. PICK r \in RequestId : r = EventOf(w).job /\ r = EventOf(w).job'
        BY <1>7, <2>1
  <2>3. Following(w)'
        BY <1>7, <2>1, <2>2 DEF Following, JobInPlace, JobsOutliveWork
  <2> QED
      BY <1>4, <1>7, <2>1, <2>3
<1>11. CASE PublishRetry(w)
  <2>1. /\ step[w] = "moderate" /\ step'[w] = "saveRetrying"
        /\ Publish(RetryOf(EventOf(w).job), NextAttempt(EventOf(w)))
        /\ UNCHANGED <<jobs, committed, held>>
        BY <1>11 DEF PublishRetry, Go, WorkerTypeOK
  <2>2. PICK r \in RequestId : r = EventOf(w).job /\ r = EventOf(w).job'
        BY <1>7, <2>1
  <2>3. PICK tp \in TopicPartition : tp = RetryOf(r)
        BY JobsHavePartitions
  <2>4. PICK m \in Event : m = NextAttempt(EventOf(w)) /\ m.job = r /\ m # Garbage
        BY <1>7, <2>1, <2>2, EventsHaveFields, SentinelAssumption DEF NextAttempt, Event
  <2>5. Len(log'[tp]) = Len(log[tp]) + 1 /\ log'[tp][Len(log[tp]) + 1] = m
        BY <2>1, <2>2, <2>3, <2>4, PublishAppends
  <2>6. PendingBeside(held[w], r)'
    <3>1. PICK i \in Nat : i = Len(log[tp]) + 1
          BY DEF InfrastructureTypeOK
    <3>2. i \in 1..Len(log'[tp]) /\ i > committed'[tp]
          BY <2>1, <2>5, <3>1 DEF InfrastructureTypeOK, OffsetsOK
    <3>3. held'[w] # [tp |-> tp, offset |-> i]
          BY <1>7, <2>1, <3>1 DEF InfrastructureTypeOK
    <3> QED
        BY <2>4, <2>5, <3>1, <3>2, <3>3 DEF PendingBeside
  <2>7. Following(w)'
        BY <1>7, <2>1, <2>2, <2>6 DEF Following, JobInPlace, JobsOutliveWork
  <2> QED
      BY <1>4, <1>7, <2>1, <2>7
<1>12. ASSUME NEW r \in RequestId, NEW job \in StoredJob, Save(r, job), UNCHANGED committed,
              AtHead(w)', job.error # "queue_publish_failed", Pending(r),
              JobsOutliveWork => jobs[r] # NoJob /\ (jobs' = [jobs EXCEPT ![r] = job] => Moved(r, job)),
              Following(w)'
       PROVE  CalmInv' /\ (JobsOutliveWork => LifeStep)
  <2>1. CASE jobs[r] = NoJob
        BY <1>4, <1>12, <2>1 DEF Save
  <2>2. CASE jobs[r] # NoJob
    <3>1. jobs' = [jobs EXCEPT ![r] = job]
          BY <1>12, <2>2 DEF Save
    <3>2. CalmInv'
          BY <1>1, <1>12, <3>1, WorkerStaysCalm
    <3>3. JobsOutliveWork => LifeStep
          BY <1>12, <3>1 DEF LifeStep
    <3> QED
        BY <3>2, <3>3
  <2> QED
      BY <2>1, <2>2
<1>13. CASE MarkProcessing(w)
  <2>1. /\ step[w] = "mark" /\ step'[w] = "moderate" /\ Save(EventOf(w).job, wjob[w])
        /\ UNCHANGED <<committed, held>>
        BY <1>13 DEF MarkProcessing, Go, WorkerTypeOK
  <2>2. PICK r \in RequestId : r = EventOf(w).job /\ r = EventOf(w).job'
        BY <1>7, <2>1
  <2>3. /\ JobsOutliveWork => jobs[r] # NoJob /\ jobs[r].state # "succeeded"
        /\ Pending(r)
        /\ wjob[w] \in StoredJob /\ wjob[w].state = "processing" /\ wjob[w].error = NoError
        BY <1>7, <2>1, <2>2 DEF Following, JobInPlace, Handling
  <2>4. wjob[w].error # "queue_publish_failed" /\ wjob[w] # NoJob
        BY <2>3, ErrorAssumption, SentinelAssumption
  <2>5. jobs[r] # NoJob => jobs' = [jobs EXCEPT ![r] = wjob[w]]
        BY <2>1, <2>2 DEF Save
  <2>6. JobsOutliveWork => JobInPlace(w)'
        BY <2>1, <2>2, <2>3, <2>4, <2>5 DEF JobInPlace, InfrastructureTypeOK
  <2>7. Following(w)'
        BY <2>1, <2>6 DEF Following, JobsOutliveWork
  <2>8. JobsOutliveWork => jobs[r] # NoJob /\ (jobs' = [jobs EXCEPT ![r] = wjob[w]] => Moved(r, wjob[w]))
        BY <2>3, <2>4 DEF Moved
  <2> QED
      BY <1>7, <1>12, <2>1, <2>2, <2>3, <2>4, <2>7, <2>8
<1>14. CASE SaveSucceeded(w) \/ SaveRetrying(w) \/ SaveExhausted(w)
  <2>1. /\ step[w] \in {"saveSucceeded", "saveRetrying", "saveExhausted"} /\ step'[w] = "commit"
        /\ UNCHANGED <<committed, held, log>>
        BY <1>14 DEF SaveSucceeded, SaveRetrying, SaveExhausted, Finish, Go, WorkerTypeOK
  <2>2. PICK r \in RequestId : r = EventOf(w).job /\ r = EventOf(w).job'
        BY <1>7, <2>1
  <2>3. /\ JobsOutliveWork => jobs[r] # NoJob /\ jobs[r].state = "processing"
        /\ Pending(r) /\ wjob[w] \in StoredJob
        BY <1>7, <2>1, <2>2 DEF Following, JobInPlace, Handling
  <2>4. EventOf(w).attempt \in Nat /\ EventOf(w).attempt + 1 \in Nat /\ EventOf(w).content \in Content
        BY <1>7, <2>1, EventsHaveFields
  <2> DEFINE done == [wjob[w] EXCEPT !.state = "succeeded", !.error = NoError,
                                     !.attempt = EventOf(w).attempt,
                                     !.result = EventOf(w).content]
             again == [wjob[w] EXCEPT !.state = "accepted", !.attempt = EventOf(w).attempt + 1,
                                      !.error = "processing_retry_scheduled"]
             over == [wjob[w] EXCEPT !.state = "failed", !.attempt = EventOf(w).attempt,
                                     !.error = "processing_attempts_exhausted"]
  <2>5. /\ done \in StoredJob /\ done.state = "succeeded" /\ done.error = NoError
        /\ again \in StoredJob /\ again.state = "accepted"
        /\ again.error = "processing_retry_scheduled"
        /\ over \in StoredJob /\ over.state = "failed"
        /\ over.error = "processing_attempts_exhausted"
    <3>1. done \in StoredJob /\ again \in StoredJob /\ over \in StoredJob
          BY <2>3, <2>4, EditedJobs
    <3> QED
        BY <2>3, <3>1 DEF StoredJob
  <2>6. \/ Save(EventOf(w).job, done)
        \/ step[w] = "saveRetrying" /\ Save(EventOf(w).job, again)
        \/ Save(EventOf(w).job, over)
        BY <1>14 DEF SaveSucceeded, SaveRetrying, SaveExhausted
  <2> HIDE DEF done, again, over
  <2>7. PICK job \in StoredJob :
           /\ Save(r, job) /\ job.error # "queue_publish_failed"
           /\ \/ job.state \in {"succeeded", "failed"}
              \/ job.state = "accepted" /\ step[w] = "saveRetrying"
        BY <2>2, <2>5, <2>6, ErrorAssumption
  <2>8. /\ JobsOutliveWork => jobs[r] # NoJob /\ (jobs' = [jobs EXCEPT ![r] = job] => Moved(r, job))
        /\ jobs' = IF jobs[r] = NoJob THEN jobs ELSE [jobs EXCEPT ![r] = job]
    <3>1. job # NoJob
          BY SentinelAssumption
    <3> QED
        BY <2>3, <2>7, <3>1 DEF Save, Moved
  <2>9. step[w] = "saveRetrying" => PendingBeside(held[w], r)'
    <3>1. step[w] = "saveRetrying" => PendingBeside(held[w], r)
          BY <1>7, <2>1, <2>2 DEF Following
    <3> QED
        BY <2>1, <3>1 DEF PendingBeside, BeingSubmitted, serviceVars
  <2>10. Undecided(r)' => step[w] = "saveRetrying"
        BY <2>7, <2>8 DEF Undecided, InfrastructureTypeOK
  <2>11. Following(w)'
        BY <2>1, <2>2, <2>9, <2>10 DEF Following, JobInPlace
  <2> QED
      BY <1>7, <1>12, <2>1, <2>3, <2>7, <2>8, <2>11
<1> QED
    BY <1>3, <1>5, <1>a, <1>b, <1>6, <1>8, <1>9, <1>10, <1>11, <1>13, <1>14 DEF WorkerStep, Handle

(* The pipeline stays calm, inductively.                                   *)
LEMMA StepStaysCalm ==
    ASSUME IInv, CalmInv, [Next]_vars
    PROVE  CalmInv' /\ (JobsOutliveWork => LifeStep)
<1> USE DEF IInv, TypeOK
<1>1. IInv'
      BY StepKeepsInvariant
<1>2. CASE ServiceNext /\ UNCHANGED workerVars
      BY <1>1, <1>2, ServiceStaysCalm
<1>3. CASE WorkerNext /\ UNCHANGED serviceVars
      BY <1>1, <1>3, WorkerStepStaysCalm DEF WorkerNext
<1>4. ASSUME UNCHANGED serviceVars
      PROVE  CallsEndQueued
      BY <1>4 DEF CallsEndQueued, BeingSubmitted, serviceVars
<1>5. ASSUME NEW r \in RequestId, Expire(r)
      PROVE  CalmInv' /\ (JobsOutliveWork => LifeStep)
  <2>1. /\ jobs' = [jobs EXCEPT ![r] = NoJob] /\ jobs[r] # NoJob
        /\ JobsOutliveWork => ~InProgress(r)
        /\ UNCHANGED <<log, committed, results, dlq, serviceVars, workerVars>>
        BY <1>5 DEF Expire, Fault, JobsOutliveWork
  <2>2. Calm' /\ Grows
        BY <2>1 DEF CalmInv, Calm, serviceVars, workerVars, Grows, InfrastructureTypeOK
  <2>3. CalmInv'
        BY <1>1, <1>4, <2>1, <2>2, OthersStayCalm DEF InfrastructureTypeOK
  <2>4. jobs[r] \in StoredJob /\ (JobsOutliveWork => ~Undecided(r))
        BY <2>1, PendingIsProgress DEF CalmInv, InfrastructureTypeOK
  <2>5. JobsOutliveWork => jobs[r].state \in {"succeeded", "failed"}
        BY <2>1, <2>4 DEF Undecided, StoredJob, State
  <2>6. JobsOutliveWork => LifeStep
        BY <2>1, <2>5 DEF LifeStep, Moved
  <2> QED
      BY <2>3, <2>6
<1>6. ASSUME UNCHANGED <<jobs, committed, serviceVars, workerVars>>, Grows
      PROVE  CalmInv' /\ (JobsOutliveWork => LifeStep)
  <2>1. Calm'
        BY <1>6 DEF CalmInv, Calm, serviceVars, workerVars
  <2> QED
      BY <1>1, <1>4, <1>6, <2>1, OthersStayCalm DEF LifeStep
<1>7. ASSUME NEW tp \in TopicPartition, ForeignMessage(tp)
      PROVE  CalmInv' /\ (JobsOutliveWork => LifeStep)
      BY <1>6, <1>7, PublishAppends DEF ForeignMessage, Grows
<1>8. CASE UNCHANGED vars
      BY <1>6, <1>8 DEF vars, infrastructureVars, Grows, InfrastructureTypeOK
<1> QED
    BY <1>2, <1>3, <1>5, <1>7, <1>8 DEF Next

(* With one worker and calls that get through, an undecided job always has *)
(* its event pending or about to be published.                             *)
THEOREM CalmInvariance == Spec /\ OneWorker /\ CallsGetThrough => []CalmInv
<1>1. Init /\ OneWorker /\ CallsGetThrough => CalmInv
      BY DEF Init, InfrastructureInit, ServiceInit, WorkerInit, CalmInv, Calm, Undecided, Busy
<1>2. IInv /\ CalmInv /\ [Next]_vars => CalmInv'
      BY StepStaysCalm
<1> QED
    BY <1>1, <1>2, Invariance, PTL DEF Spec

(* A job a client was told is accepted and that is undecided is worked on. *)
THEOREM AcceptedJobsArePending == Spec /\ OneWorker /\ CallsGetThrough => []AcceptedJobIsPending
<1>1. IInv /\ CalmInv => AcceptedJobIsPending
  <2> SUFFICES ASSUME IInv, CalmInv, NEW q \in acked, Undecided(q.job)
               PROVE  InProgress(q.job)
      BY DEF AcceptedJobIsPending, Undecided
  <2>1. q.job \in RequestId
        BY RequestsHaveFields DEF IInv, TypeOK, ServiceTypeOK
  <2> QED
      BY <2>1, PendingIsProgress DEF CalmInv
<1> QED
    BY <1>1, Invariance, CalmInvariance, PTL

(* A step along the life cycle is one of the client's life cycle.          *)
LEMMA LifeStepIsPromised ==
    ASSUME InfrastructureTypeOK, LifeStep
    PROVE  [Lifecycle!Next]_(Lifecycle!vars)
<1> DEFINE polled == [r \in RequestId |-> IF jobs[r] = NoJob THEN "absent" ELSE jobs[r].state]
<1>1. CASE UNCHANGED jobs
      BY <1>1 DEF Lifecycle!vars
<1>2. ASSUME NEW r \in RequestId, NEW job \in StoredJob \cup {NoJob}, Moved(r, job)
      PROVE  Lifecycle!Next
  <2> DEFINE to == IF job = NoJob THEN "absent" ELSE job.state
  <2>1. polled' = [polled EXCEPT ![r] = to]
        BY <1>2 DEF Moved, InfrastructureTypeOK
  <2>2. ASSUME NEW from, polled[r] \in from
        PROVE  Lifecycle!Move(r, from, to)
        BY <2>1, <2>2 DEF Lifecycle!Move
  <2>3. CASE jobs[r] = NoJob /\ job # NoJob /\ job.state = "accepted"
    <3>1. Lifecycle!Move(r, {"absent"}, "accepted")
          BY <2>2, <2>3
    <3> QED
        BY <3>1 DEF Lifecycle!Next, Lifecycle!Accept
  <2>4. CASE jobs[r] # NoJob /\ jobs[r].state # "succeeded" /\ job # NoJob /\ job.state = "processing"
    <3>1. jobs[r].state \in {"accepted", "processing", "failed"}
          BY <2>4 DEF InfrastructureTypeOK, StoredJob, State
    <3>2. Lifecycle!Move(r, {"accepted", "processing", "failed"}, "processing")
          BY <2>2, <2>4, <3>1
    <3> QED
        BY <3>2 DEF Lifecycle!Next, Lifecycle!Start
  <2>5. CASE /\ jobs[r] # NoJob /\ jobs[r].state = "processing"
             /\ job # NoJob /\ job.state \in {"succeeded", "accepted", "failed"}
    <3>1. Lifecycle!Move(r, {"processing"}, job.state)
          BY <2>2, <2>5
    <3> QED
        BY <2>5, <3>1 DEF Lifecycle!Next, Lifecycle!Succeed, Lifecycle!Reschedule, Lifecycle!GiveUp
  <2>6. CASE jobs[r] # NoJob /\ jobs[r].state \in {"succeeded", "failed"} /\ job = NoJob
    <3>1. Lifecycle!Move(r, {"succeeded", "failed"}, "absent")
          BY <2>2, <2>6
    <3> QED
        BY <3>1 DEF Lifecycle!Next, Lifecycle!Expire
  <2> QED
      BY <1>2, <2>3, <2>4, <2>5, <2>6 DEF Moved
<1> QED
    BY <1>1, <1>2 DEF LifeStep

(* What a client polls follows the life cycle of a job.                    *)
THEOREM PollsFollowLifecycle ==
    Spec /\ OneWorker /\ CallsGetThrough /\ JobsOutliveWork => Lifecycle!SafeSpec
<1>1. Init => Lifecycle!Init
      BY DEF Init, InfrastructureInit, Lifecycle!Init
<1>2. JobsOutliveWork /\ IInv /\ CalmInv /\ [Next]_vars => [Lifecycle!Next]_(Lifecycle!vars)
      BY StepStaysCalm, LifeStepIsPromised DEF IInv, TypeOK
<1>3. JobsOutliveWork => JobsOutliveWork'
      BY DEF JobsOutliveWork
<1> QED
    BY <1>1, <1>2, <1>3, Invariance, CalmInvariance, PTL DEF Spec, Lifecycle!SafeSpec

-----------------------------------------------------------------------------
(***************************************************************************)
(* A client that saw a job succeed never sees it in another state again,   *)
(* short of its expiry: not with two workers, nor with publications that   *)
(* fail, but whatever else may happen.                                     *)
(***************************************************************************)

\* The publications of the API get through.
PublicationsGetThrough == "publish_failure" \notin Faults

Succeeded(r) == jobs[r] # NoJob /\ jobs[r].state = "succeeded"

\* The worker has loaded a job that it has not decided and saved yet.
Deciding(w) == step[w] \in {"mark", "moderate", "saveSucceeded", "saveRetrying", "saveExhausted"}

\* No thread has anything to save, and the worker decides no decided job.
SuccessInv == /\ OneWorker /\ PublicationsGetThrough /\ Calm
              /\ \A w \in Worker : Deciding(w) => ~Succeeded(EventOf(w).job)

\* What a step may not do.
SuccessKept == \A r \in RequestId : Succeeded(r) => jobs'[r] = NoJob \/ jobs'[r].state = "succeeded"

(* A step of others than the worker decides nothing.                       *)
LEMMA OthersKeepSuccess ==
    ASSUME IInv, IInv', SuccessInv, Grows, UNCHANGED workerVars, Calm',
           \A r \in RequestId : jobs'[r] \in {jobs[r], NoJob}
                                \/ (jobs[r] = NoJob /\ jobs'[r].state = "accepted")
    PROVE  SuccessInv' /\ SuccessKept
<1> USE DEF IInv, TypeOK
<1>1. \A r \in RequestId : Succeeded(r)' => Succeeded(r)
      BY DEF Succeeded
<1>2. SuccessKept
      BY DEF SuccessKept, Succeeded
<1>3. ASSUME NEW w \in Worker, Deciding(w)'
      PROVE  ~Succeeded(EventOf(w).job)'
  <2>1. Deciding(w) /\ Busy(w) /\ Handling(w) /\ held'[w] = held[w]
        BY <1>3 DEF Deciding, Busy, HandlingOK, workerVars
  <2>2. EventOf(w)' = EventOf(w)
        BY <2>1, PositionIsStable
  <2>3. EventOf(w) \in Event
        BY <2>1 DEF Handling, Deciding
  <2>4. PICK r \in RequestId : r = EventOf(w).job /\ r = EventOf(w).job'
        BY <2>2, <2>3, EventsHaveFields
  <2>5. ~Succeeded(r)
        BY <2>1, <2>4 DEF SuccessInv
  <2>6. ~Succeeded(r)'
        BY <1>1, <2>5
  <2> QED
      BY <2>4, <2>6 DEF Succeeded
<1> QED
    BY <1>2, <1>3 DEF SuccessInv, OneWorker, PublicationsGetThrough

(* A thread whose publications get through stores new jobs only.           *)
LEMMA ServiceKeepsSuccess ==
    ASSUME IInv, IInv', SuccessInv, ServiceNext, UNCHANGED workerVars
    PROVE  SuccessInv' /\ SuccessKept
<1> USE DEF IInv, TypeOK
<1>1. Grows
      BY ServiceStepEffect
<1>2. ~\E t \in Thread : PublishInputFails(t) \/ SaveAccepted(t) \/ SavePublishFailed(t)
      BY DEF PublishInputFails, SaveAccepted, SavePublishFailed, Fault,
             SuccessInv, PublicationsGetThrough, Calm
<1>3. ASSUME UNCHANGED jobs, NEW t \in Thread, phase'[t] \in {"idle", "check", "publish"},
             \A u \in Thread \ {t} : phase'[u] = phase[u]
      PROVE  SuccessInv' /\ SuccessKept
  <2>1. Calm'
        BY <1>3 DEF SuccessInv, Calm
  <2> QED
      BY <1>1, <1>3, <2>1, OthersKeepSuccess
<1>4. ASSUME NEW t \in Thread, NEW q \in Request, SubmitNew(t, q)
      PROVE  SuccessInv' /\ SuccessKept
  <2> DEFINE job == [state |-> "accepted", attempt |-> 0, result |-> NoResult,
                     error |-> NoError, fingerprint |-> q.content]
  <2>1. q.job \in RequestId /\ job.state = "accepted" /\ job.error = NoError
        BY RequestsHaveFields
  <2>2. /\ jobs' = [jobs EXCEPT ![q.job] = job] /\ jobs[q.job] = NoJob
        /\ Enter(t, "publish", q, job)
        BY <1>4 DEF SubmitNew
  <2>3. phase'[t] = "publish" /\ \A u \in Thread \ {t} : phase'[u] = phase[u]
        BY <2>2 DEF Enter, ServiceTypeOK
  <2>4. \A r \in RequestId : jobs'[r] = jobs[r] \/ (jobs[r] = NoJob /\ jobs'[r] = job)
        BY <2>1, <2>2 DEF InfrastructureTypeOK
  <2> HIDE DEF job
  <2>5. Calm'
        BY <2>1, <2>3, <2>4, ErrorAssumption DEF SuccessInv, Calm
  <2> QED
      BY <1>1, <2>1, <2>4, <2>5, OthersKeepSuccess
<1>5. ASSUME NEW t \in Thread, NEW q \in Request, SubmitExisting(t, q)
      PROVE  SuccessInv' /\ SuccessKept
  <2>1. UNCHANGED jobs /\ phase'[t] = "check" /\ \A u \in Thread \ {t} : phase'[u] = phase[u]
        BY <1>5 DEF SubmitExisting, Enter, ServiceTypeOK, infrastructureVars
  <2> QED
      BY <1>3, <2>1
<1>6. ASSUME NEW t \in Thread, CheckExisting(t)
      PROVE  SuccessInv' /\ SuccessKept
  <2>1. request[t].job \in RequestId
        BY <1>6, RequestsHaveFields DEF CheckExisting, CallsOK, Calling
  <2>2. ~(jobs[request[t].job] # NoJob /\ jobs[request[t].job].error = "queue_publish_failed")
        BY <2>1 DEF SuccessInv, Calm
  <2>3. UNCHANGED infrastructureVars /\ (Refuse(t) \/ Answer202(t))
        BY <1>6, <2>2 DEF CheckExisting
  <2>4. UNCHANGED jobs /\ phase'[t] = "idle" /\ \A u \in Thread \ {t} : phase'[u] = phase[u]
        BY <2>3 DEF Refuse, Answer202, Enter, ServiceTypeOK, infrastructureVars
  <2> QED
      BY <1>3, <2>4
<1>7. ASSUME NEW t \in Thread, PublishInput(t)
      PROVE  SuccessInv' /\ SuccessKept
  <2>1. phase[t] = "publish" /\ UNCHANGED jobs
        BY <1>7 DEF PublishInput, SuccessInv, Calm
  <2>2. Answer202(t)
        BY <1>7, <2>1 DEF PublishInput
  <2>3. phase'[t] = "idle" /\ \A u \in Thread \ {t} : phase'[u] = phase[u]
        BY <2>2 DEF Answer202, Enter, ServiceTypeOK
  <2> QED
      BY <1>3, <2>1, <2>3
<1>8. ASSUME NEW t \in Thread, AbandonCall(t)
      PROVE  SuccessInv' /\ SuccessKept
  <2>1. UNCHANGED jobs /\ phase'[t] = "idle" /\ \A u \in Thread \ {t} : phase'[u] = phase[u]
        BY <1>8 DEF AbandonCall, Refuse, Enter, ServiceTypeOK
  <2> QED
      BY <1>3, <2>1
<1> QED
    BY <1>2, <1>4, <1>5, <1>6, <1>7, <1>8 DEF ServiceNext, ServiceStep

(* The only worker saves over the job it loaded undecided, and nobody has  *)
(* decided it since.                                                       *)
LEMMA WorkerKeepsSuccess ==
    ASSUME IInv, IInv', SuccessInv, NEW w \in Worker, UNCHANGED serviceVars,
           \/ WorkerStep(w) \/ WorkerCrash(w) \/ Shutdown(w) \/ Evict(w)
    PROVE  SuccessInv' /\ SuccessKept
<1> USE DEF IInv, TypeOK
<1>1. Grows
      BY WorkerStepEffect DEF StepKeeps
<1>2. ASSUME Deciding(w)' => ~Succeeded(EventOf(w).job)', Calm', SuccessKept
      PROVE  SuccessInv' /\ SuccessKept
      BY <1>2 DEF SuccessInv, OneWorker, PublicationsGetThrough
<1>3. ASSUME UNCHANGED jobs
      PROVE  Calm' /\ SuccessKept
      BY <1>3 DEF SuccessInv, Calm, SuccessKept, Succeeded, serviceVars
<1>4. ASSUME UNCHANGED jobs, ~Deciding(w)'
      PROVE  SuccessInv' /\ SuccessKept
      BY <1>2, <1>3, <1>4
\* The event of a worker that has loaded a job stays its event.
<1>5. ASSUME step[w] = "load" \/ Deciding(w), UNCHANGED held
      PROVE  Handling(w) /\ \E r \in RequestId : r = EventOf(w).job /\ r = EventOf(w).job'
  <2>1. Handling(w)
        BY <1>5 DEF Deciding, Busy, HandlingOK
  <2>2. EventOf(w)' = EventOf(w)
        BY <1>1, <1>5, <2>1, PositionIsStable
  <2>3. EventOf(w) \in Event
        BY <1>5, <2>1 DEF Handling, Deciding
  <2> QED
      BY <2>1, <2>2, <2>3, EventsHaveFields
<1>6. ASSUME UNCHANGED <<jobs, held>>, Deciding(w)
      PROVE  SuccessInv' /\ SuccessKept
  <2>1. PICK r \in RequestId : r = EventOf(w).job /\ r = EventOf(w).job'
        BY <1>5, <1>6
  <2>2. ~Succeeded(r)'
        BY <1>6, <2>1 DEF SuccessInv, Succeeded
  <2> QED
      BY <1>2, <1>3, <1>6, <2>1, <2>2 DEF Succeeded
<1>7. ASSUME Deciding(w), UNCHANGED held, NEW job \in StoredJob, Save(EventOf(w).job, job),
             job.error # "queue_publish_failed", Deciding(w)' => job.state # "succeeded"
      PROVE  SuccessInv' /\ SuccessKept
  <2>1. PICK r \in RequestId : r = EventOf(w).job /\ r = EventOf(w).job'
        BY <1>5, <1>7
  <2>2. \A q \in RequestId : jobs'[q] = jobs[q] \/ (jobs'[q] = job /\ q = r)
        BY <1>7, <2>1, SaveKeepsType
  <2>3. ~Succeeded(r)
        BY <1>7, <2>1 DEF SuccessInv
  <2>4. Deciding(w)' => ~Succeeded(r)'
        BY <1>7, <2>2, <2>3 DEF Succeeded
  <2>5. Calm'
        BY <1>7, <2>2 DEF SuccessInv, Calm, serviceVars
  <2>6. SuccessKept
        BY <2>2, <2>3 DEF SuccessKept, Succeeded
  <2> QED
      BY <1>2, <2>1, <2>4, <2>5, <2>6 DEF Succeeded
<1>8. CASE Restart(w) \/ WorkerCrash(w) \/ Shutdown(w) \/ CommitRefused(w) \/ Commit(w)
  <2>1. ~Deciding(w)'
        BY <1>8 DEF Restart, WorkerCrash, Shutdown, CommitRefused, Commit, Release, Go,
                    WorkerTypeOK, Deciding
  <2>2. UNCHANGED jobs
        BY <1>8 DEF Restart, WorkerCrash, Shutdown, CommitRefused, Commit, infrastructureVars
  <2> QED
      BY <1>4, <2>1, <2>2
<1>9. CASE (\E tp \in TopicPartition : Poll(w, tp)) \/ RejectInvalid(w) \/ DeadLetterMissing(w)
  <2>1. ~Deciding(w)'
        BY <1>9 DEF Poll, RejectInvalid, DeadLetterMissing, Finish, Go, WorkerTypeOK, Deciding
  <2>2. UNCHANGED jobs
        BY <1>9 DEF Poll, RejectInvalid, DeadLetterMissing, infrastructureVars
  <2> QED
      BY <1>4, <2>1, <2>2
<1>a. CASE Evict(w)
  <2>1. UNCHANGED <<jobs, step, held>>
        BY <1>a DEF Evict
  <2>2. CASE Deciding(w)
        BY <1>6, <2>1, <2>2
  <2>3. CASE ~Deciding(w)
        BY <1>4, <2>1, <2>3 DEF Deciding
  <2> QED
      BY <2>2, <2>3
<1>b. CASE LoadJob(w)
  <2>1. step[w] = "load" /\ UNCHANGED <<jobs, held>>
        BY <1>b DEF LoadJob, Finish, infrastructureVars
  <2>2. PICK r \in RequestId : r = EventOf(w).job /\ r = EventOf(w).job'
        BY <1>5, <2>1
  <2>3. step'[w] \in {"missing", "commit"} \/ ~Succeeded(r)
        BY <1>b, <2>2 DEF LoadJob, Finish, Go, WorkerTypeOK, Succeeded
  <2>4. Deciding(w)' => ~Succeeded(r)'
        BY <2>1, <2>3 DEF Deciding, Succeeded
  <2> QED
      BY <1>2, <1>3, <2>1, <2>2, <2>4 DEF Succeeded
<1>c. CASE PublishResult(w) \/ PublishRetry(w) \/ DeadLetterExhausted(w)
  <2>1. UNCHANGED <<jobs, held>> /\ Deciding(w)
        BY <1>c DEF PublishResult, PublishRetry, DeadLetterExhausted, Deciding
  <2> QED
      BY <1>6, <2>1
<1>d. CASE MarkProcessing(w)
  <2>1. Deciding(w) /\ UNCHANGED held /\ Save(EventOf(w).job, wjob[w])
        BY <1>d DEF MarkProcessing, Deciding
  <2>2. wjob[w] \in StoredJob /\ wjob[w].state = "processing" /\ wjob[w].error = NoError
        BY <1>5, <1>d, <2>1 DEF Handling, MarkProcessing
  <2> QED
      BY <1>7, <2>1, <2>2, ErrorAssumption
<1>e. CASE SaveSucceeded(w) \/ SaveRetrying(w) \/ SaveExhausted(w)
  <2>1. Deciding(w) /\ UNCHANGED held /\ step'[w] = "commit"
        BY <1>e DEF SaveSucceeded, SaveRetrying, SaveExhausted, Finish, Go, WorkerTypeOK, Deciding
  <2>2. wjob[w] \in StoredJob
        BY <1>5, <1>e, <2>1 DEF Handling, SaveSucceeded, SaveRetrying, SaveExhausted
  <2>3. EventOf(w) \in Event
        BY <1>5, <2>1 DEF Handling, Deciding
  <2>4. EventOf(w).attempt \in Nat /\ EventOf(w).attempt + 1 \in Nat /\ EventOf(w).content \in Content
        BY <2>3, EventsHaveFields
  <2>5. \E job \in StoredJob : Save(EventOf(w).job, job) /\ job.error # "queue_publish_failed"
    <3>1. CASE SaveSucceeded(w)
      <4> DEFINE job == [wjob[w] EXCEPT !.state = "succeeded", !.error = NoError,
                                        !.attempt = EventOf(w).attempt,
                                        !.result = EventOf(w).content]
      <4>1. job \in StoredJob
            BY <2>2, <2>4, EditedJobs
      <4>2. job.error = NoError
            BY <2>2 DEF StoredJob
      <4>3. Save(EventOf(w).job, job)
            BY <3>1 DEF SaveSucceeded
      <4> HIDE DEF job
      <4> QED
          BY <4>1, <4>2, <4>3, ErrorAssumption
    <3>2. CASE SaveRetrying(w)
      <4> DEFINE job == [wjob[w] EXCEPT !.state = "accepted", !.attempt = EventOf(w).attempt + 1,
                                        !.error = "processing_retry_scheduled"]
      <4>1. job \in StoredJob
            BY <2>2, <2>4, EditedJobs
      <4>2. job.error = "processing_retry_scheduled"
            BY <2>2 DEF StoredJob
      <4>3. Save(EventOf(w).job, job)
            BY <3>2 DEF SaveRetrying
      <4> HIDE DEF job
      <4> QED
          BY <4>1, <4>2, <4>3
    <3>3. CASE SaveExhausted(w)
      <4> DEFINE job == [wjob[w] EXCEPT !.state = "failed", !.attempt = EventOf(w).attempt,
                                        !.error = "processing_attempts_exhausted"]
      <4>1. job \in StoredJob
            BY <2>2, <2>4, EditedJobs
      <4>2. job.error = "processing_attempts_exhausted"
            BY <2>2 DEF StoredJob
      <4>3. Save(EventOf(w).job, job)
            BY <3>3 DEF SaveExhausted
      <4> HIDE DEF job
      <4> QED
          BY <4>1, <4>2, <4>3
    <3> QED
        BY <1>e, <3>1, <3>2, <3>3
  <2>6. ~Deciding(w)'
        BY <2>1 DEF Deciding
  <2> QED
      BY <1>7, <2>1, <2>5, <2>6
<1> QED
    BY <1>8, <1>9, <1>a, <1>b, <1>c, <1>d, <1>e DEF WorkerStep, Handle

(* No step of the pipeline turns success into anything but absence.        *)
LEMMA StepKeepsSuccess ==
    ASSUME IInv, SuccessInv, [Next]_vars
    PROVE  SuccessInv' /\ SuccessKept
<1>1. IInv'
      BY StepKeepsInvariant
<1> USE DEF IInv, TypeOK
<1>2. CASE ServiceNext /\ UNCHANGED workerVars
      BY <1>1, <1>2, ServiceKeepsSuccess
<1>3. CASE WorkerNext /\ UNCHANGED serviceVars
      BY <1>1, <1>3, WorkerKeepsSuccess DEF WorkerNext
<1>4. ASSUME UNCHANGED <<serviceVars, workerVars>>, Grows,
             \A r \in RequestId : jobs'[r] \in {jobs[r], NoJob}
      PROVE  SuccessInv' /\ SuccessKept
  <2>1. Calm'
        BY <1>4 DEF SuccessInv, Calm, serviceVars
  <2> QED
      BY <1>1, <1>4, <2>1, OthersKeepSuccess
<1>5. ASSUME NEW r \in RequestId, Expire(r)
      PROVE  SuccessInv' /\ SuccessKept
      BY <1>4, <1>5 DEF Expire, Grows, InfrastructureTypeOK
<1>6. ASSUME NEW tp \in TopicPartition, ForeignMessage(tp)
      PROVE  SuccessInv' /\ SuccessKept
      BY <1>4, <1>6, PublishAppends DEF ForeignMessage, Grows
<1>7. CASE UNCHANGED vars
      BY <1>4, <1>7 DEF vars, infrastructureVars, Grows, InfrastructureTypeOK
<1> QED
    BY <1>2, <1>3, <1>5, <1>6, <1>7 DEF Next

(* A client that saw a job succeed never sees it in another state again.   *)
THEOREM SuccessStays == Spec /\ OneWorker /\ PublicationsGetThrough => SucceededIsFinal
<1>1. Init /\ OneWorker /\ PublicationsGetThrough => SuccessInv
      BY DEF Init, InfrastructureInit, ServiceInit, WorkerInit, SuccessInv, Calm, Deciding
<1>2. IInv /\ SuccessInv /\ [Next]_vars => SuccessInv'
      BY StepKeepsSuccess
<1>3. IInv /\ SuccessInv /\ [Next]_vars
        => [\A r \in RequestId : jobs[r] # NoJob /\ jobs[r].state = "succeeded" =>
                jobs'[r] = NoJob \/ jobs'[r].state = "succeeded"]_vars
      BY StepKeepsSuccess DEF SuccessKept, Succeeded
<1> QED
    BY <1>1, <1>2, <1>3, Invariance, PTL DEF Spec, SucceededIsFinal

-----------------------------------------------------------------------------
(***************************************************************************)
(* Duplicates are the price of faults.  An account is kept for each job:   *)
(* a fault pays for one submission by every thread.                        *)
(***************************************************************************)

\* Calls about to publish the job's event, and calls whose publication failed.
Publishing(r) == {t \in Thread : phase[t] \in {"publish", "republish"} /\ request[t].job = r}
Failing(r) == {t \in Thread : phase[t] = "fail" /\ request[t].job = r}

\* The stored job is one whose publication failed.
QueueFailed(r) == /\ jobs[r] # NoJob /\ jobs[r].state = "failed"
                  /\ jobs[r].error = "queue_publish_failed"

\* Threads that may still see it and publish it again.
Eligible(r) == {t \in Thread : /\ QueueFailed(r)
                               /\ ~(phase[t] \in {"republish", "accept", "fail"} /\ request[t].job = r)}

\* The submissions made for job r, and those that no further fault needs to
\* pay for: by calls under way, by threads that see a failed publication,
\* and by whoever stores the job anew once it is absent.
Absent(r) == IF jobs[r] = NoJob THEN 1 ELSE 0
Afforded(r) == Cardinality(Submissions(r)) + Cardinality(Publishing(r))
                  + Cardinality(Eligible(r)) + Absent(r)

\* The submissions made, to come and to be feared are paid for by faults.
SubmissionsPaid ==
    \A r \in RequestId :
        Afforded(r) + Cardinality(Thread) * Cardinality(Failing(r)) <= 1 + faults * Cardinality(Thread)

(* Two sets that agree on all but one element differ by at most one.       *)
LEMMA OneApart ==
    ASSUME NEW X, NEW Y, NEW x, IsFiniteSet(X), X \ {x} = Y \ {x}
    PROVE  /\ IsFiniteSet(Y) /\ Cardinality(X) \in Nat /\ Cardinality(Y) \in Nat
           /\ (x \in X <=> x \in Y) => Cardinality(Y) = Cardinality(X)
           /\ x \in X /\ x \notin Y => Cardinality(X) = Cardinality(Y) + 1
           /\ x \notin X /\ x \in Y => Cardinality(Y) = Cardinality(X) + 1
<1>1. CASE x \in X <=> x \in Y
  <2>1. X = Y
        BY <1>1
  <2> QED
      BY <2>1, <1>1, FS_CardinalityType
<1>2. CASE x \in X /\ x \notin Y
  <2>1. Y = X \ {x}
        BY <1>2
  <2>2. IsFiniteSet(Y) /\ Cardinality(Y) = Cardinality(X) - 1
        BY <1>2, <2>1, FS_RemoveElement
  <2> QED
      BY <1>2, <2>2, FS_CardinalityType
<1>3. CASE x \notin X /\ x \in Y
  <2>1. Y = X \cup {x}
        BY <1>3
  <2>2. IsFiniteSet(Y) /\ Cardinality(Y) = Cardinality(X) + 1
        BY <1>3, <2>1, FS_AddElement
  <2> QED
      BY <1>3, <2>2, FS_CardinalityType
<1> QED
    BY <1>1, <1>2, <1>3

(* What the accounts count is finite.                                      *)
LEMMA AccountsAreFinite ==
    ASSUME InfrastructureTypeOK, NEW r \in RequestId
    PROVE  /\ IsFiniteSet(Submissions(r)) /\ Cardinality(Submissions(r)) \in Nat
           /\ IsFiniteSet(Publishing(r)) /\ Cardinality(Publishing(r)) \in Nat
           /\ IsFiniteSet(Failing(r)) /\ Cardinality(Failing(r)) \in Nat
           /\ IsFiniteSet(Eligible(r)) /\ Cardinality(Eligible(r)) \in Nat
           /\ Cardinality(Eligible(r)) <= Cardinality(Thread)
           /\ ~QueueFailed(r) => Cardinality(Eligible(r)) = 0
           /\ Cardinality(Thread) \in Nat \ {0}
           /\ Absent(r) \in Nat /\ faults \in Nat
<1>1. IsFiniteSet(Submissions(r))
  <2>1. PICK n \in Nat : n = Len(log[InputOf(r)])
        BY JobsHavePartitions DEF InfrastructureTypeOK
  <2>2. Submissions(r) \in SUBSET (1..n)
        BY <2>1 DEF Submissions
  <2>3. IsFiniteSet(1..n)
        BY FS_Interval
  <2> QED
      BY <2>2, <2>3, FS_Subset
<1>2. /\ Publishing(r) \in SUBSET Thread /\ Failing(r) \in SUBSET Thread
      /\ Eligible(r) \in SUBSET Thread
      BY DEF Publishing, Failing, Eligible
<1>3. Cardinality(Thread) \in Nat \ {0}
      BY ThreadAssumption, FS_CardinalityType, FS_EmptySet
<1>4. ~QueueFailed(r) => Eligible(r) = {}
      BY DEF Eligible
<1> QED
    BY <1>1, <1>2, <1>3, <1>4, ThreadAssumption, FS_Subset, FS_CardinalityType, FS_EmptySet
    DEF Absent, InfrastructureTypeOK

(* The arithmetic of the accounts: a fault pays for n submissions, now or  *)
(* when the call that failed says so.                                      *)
LEMMA FaultsPay ==
    ASSUME NEW n \in Nat, NEW a \in Nat, NEW b \in Nat, NEW c \in Nat, NEW d \in Nat,
           NEW f \in Nat, NEW g \in Nat, a + n * c <= 1 + f * n,
           \/ d = c /\ f <= g /\ b <= a
           \/ d = c /\ g = f + 1 /\ b <= a + n
           \/ d = c + 1 /\ g = f + 1 /\ b <= a
           \/ c = d + 1 /\ f <= g /\ b <= a + n
    PROVE  b + n * d <= 1 + g * n
<1>1. PICK nc \in Nat, fn \in Nat : nc = n * c /\ fn = f * n
      OBVIOUS
<1>2. CASE d = c
  <2>1. n * d = nc
        BY <1>1, <1>2
  <2>2. f <= g => g * n >= fn
        BY <1>1
  <2>3. g = f + 1 => g * n = fn + n
        BY <1>1
  <2> QED
      BY <1>1, <1>2, <2>1, <2>2, <2>3
<1>3. CASE d = c + 1 /\ g = f + 1
  <2>1. n * d = nc + n /\ g * n = fn + n
        BY <1>1, <1>3
  <2> QED
      BY <1>1, <1>3, <2>1
<1>4. CASE c = d + 1 /\ f <= g
  <2>1. nc = n * d + n /\ g * n >= fn
        BY <1>1, <1>4
  <2> QED
      BY <1>1, <1>4, <2>1
<1> QED
    BY <1>2, <1>3, <1>4

\* The terms of the accounts are numbers.
AccountNumbers(r) ==
    /\ Cardinality(Submissions(r)) \in Nat /\ Cardinality(Publishing(r)) \in Nat
    /\ Cardinality(Failing(r)) \in Nat /\ Cardinality(Eligible(r)) \in Nat
    /\ Cardinality(Eligible(r)) <= Cardinality(Thread)
    /\ ~QueueFailed(r) => Cardinality(Eligible(r)) = 0
    /\ Cardinality(Thread) \in Nat \ {0}
    /\ Absent(r) \in Nat /\ faults \in Nat /\ Afforded(r) \in Nat

\* The accounts of all jobs are numbers, in any state of the right types.
AccountsOK == \A r \in RequestId : AccountNumbers(r)

\* The same as an implication between states, so that it can be used after a step.
LEMMA AccountsAreNumbers == InfrastructureTypeOK => AccountsOK
<1> SUFFICES ASSUME InfrastructureTypeOK, NEW r \in RequestId
             PROVE  AccountNumbers(r)
    BY DEF AccountsOK
<1> QED
    BY AccountsAreFinite DEF AccountNumbers, Afforded

(* The account of a job after a step, from how the step changed it.        *)
LEMMA AccountIsKept ==
    ASSUME InfrastructureTypeOK, InfrastructureTypeOK', SubmissionsPaid, NEW r \in RequestId,
           \/ /\ Cardinality(Failing(r))' = Cardinality(Failing(r)) /\ faults <= faults'
              /\ Afforded(r)' <= Afforded(r)
           \/ /\ Cardinality(Failing(r))' = Cardinality(Failing(r)) /\ faults' = faults + 1
              /\ Afforded(r)' <= Afforded(r) + Cardinality(Thread)
           \/ /\ Cardinality(Failing(r))' = Cardinality(Failing(r)) + 1 /\ faults' = faults + 1
              /\ Afforded(r)' <= Afforded(r)
           \/ /\ Cardinality(Failing(r)) = Cardinality(Failing(r))' + 1 /\ faults <= faults'
              /\ Afforded(r)' <= Afforded(r) + Cardinality(Thread)
    PROVE  Afforded(r)' + Cardinality(Thread) * Cardinality(Failing(r))'
               <= 1 + faults' * Cardinality(Thread)
<1>1. AccountNumbers(r) /\ AccountNumbers(r)'
  <2>1. InfrastructureTypeOK' => AccountsOK'
        BY AccountsAreNumbers, PTL
  <2> QED
      BY <2>1, AccountsAreNumbers DEF AccountsOK
<1>2. Cardinality(Thread) \in Nat
      BY <1>1 DEF AccountNumbers
<1>3. PICK n \in Nat, a \in Nat, b \in Nat, c \in Nat, d \in Nat, f \in Nat, g \in Nat :
         /\ n = Cardinality(Thread) /\ a = Afforded(r) /\ b = Afforded(r)'
         /\ c = Cardinality(Failing(r)) /\ d = Cardinality(Failing(r))'
         /\ f = faults /\ g = faults'
      BY <1>1, <1>2 DEF AccountNumbers
<1>4. a + n * c <= 1 + f * n
      BY <1>3 DEF SubmissionsPaid
<1>5. \/ d = c /\ f <= g /\ b <= a
      \/ d = c /\ g = f + 1 /\ b <= a + n
      \/ d = c + 1 /\ g = f + 1 /\ b <= a
      \/ c = d + 1 /\ f <= g /\ b <= a + n
      BY <1>3
<1>6. b + n * d <= 1 + g * n
      BY <1>4, <1>5, FaultsPay
<1> QED
    BY <1>3, <1>6

(* How the accounts change when one thread changes its phase.              *)
LEMMA ThreadMoves ==
    ASSUME InfrastructureTypeOK, NEW r \in RequestId, NEW t \in Thread,
           \A u \in Thread \ {t} : phase'[u] = phase[u] /\ request'[u] = request[u]
    PROVE  /\ \/ (t \in Publishing(r) <=> t \in Publishing(r)')
                    /\ Cardinality(Publishing(r))' = Cardinality(Publishing(r))
              \/ t \in Publishing(r) /\ t \notin Publishing(r)'
                    /\ Cardinality(Publishing(r)) = Cardinality(Publishing(r))' + 1
              \/ t \notin Publishing(r) /\ t \in Publishing(r)'
                    /\ Cardinality(Publishing(r))' = Cardinality(Publishing(r)) + 1
           /\ \/ (t \in Failing(r) <=> t \in Failing(r)')
                    /\ Cardinality(Failing(r))' = Cardinality(Failing(r))
              \/ t \in Failing(r) /\ t \notin Failing(r)'
                    /\ Cardinality(Failing(r)) = Cardinality(Failing(r))' + 1
              \/ t \notin Failing(r) /\ t \in Failing(r)'
                    /\ Cardinality(Failing(r))' = Cardinality(Failing(r)) + 1
           /\ (QueueFailed(r)' <=> QueueFailed(r)) =>
              \/ (t \in Eligible(r) <=> t \in Eligible(r)')
                    /\ Cardinality(Eligible(r))' = Cardinality(Eligible(r))
              \/ t \in Eligible(r) /\ t \notin Eligible(r)'
                    /\ Cardinality(Eligible(r)) = Cardinality(Eligible(r))' + 1
              \/ t \notin Eligible(r) /\ t \in Eligible(r)'
                    /\ Cardinality(Eligible(r))' = Cardinality(Eligible(r)) + 1
<1> DEFINE Apart(X, Y) == \/ (t \in X <=> t \in Y) /\ Cardinality(Y) = Cardinality(X)
                          \/ t \in X /\ t \notin Y /\ Cardinality(X) = Cardinality(Y) + 1
                          \/ t \notin X /\ t \in Y /\ Cardinality(Y) = Cardinality(X) + 1
<1>1. ASSUME NEW X, NEW Y, IsFiniteSet(X), X \ {t} = Y \ {t}
      PROVE  Apart(X, Y)
      BY <1>1, OneApart
<1>2. PICK X, Y : X = Publishing(r) /\ Y = Publishing(r)'
      OBVIOUS
<1>3. X \ {t} = Y \ {t} /\ IsFiniteSet(X)
      BY <1>2, AccountsAreFinite DEF Publishing
<1>4. PICK V, W : V = Failing(r) /\ W = Failing(r)'
      OBVIOUS
<1>5. V \ {t} = W \ {t} /\ IsFiniteSet(V)
      BY <1>4, AccountsAreFinite DEF Failing
<1>6. PICK E, F : E = Eligible(r) /\ F = Eligible(r)'
      OBVIOUS
<1>7. IsFiniteSet(E) /\ ((QueueFailed(r)' <=> QueueFailed(r)) => E \ {t} = F \ {t})
      BY <1>6, AccountsAreFinite DEF Eligible
<1>8. /\ Apart(X, Y) /\ Apart(V, W)
      /\ (QueueFailed(r)' <=> QueueFailed(r)) => Apart(E, F)
      BY <1>1, <1>3, <1>5, <1>7
<1> QED
    BY <1>2, <1>4, <1>6, <1>8

(* An event on the input topic is one more submission of its job, a        *)
(* message anywhere else or of another job none.                           *)
LEMMA SubmissionsGrow ==
    ASSUME InfrastructureTypeOK, NEW tp \in TopicPartition,
           NEW m \in Event \cup {Garbage}, Publish(tp, m), NEW r \in RequestId
    PROVE  /\ ~(tp = InputOf(r) /\ m # Garbage /\ m.job = r) =>
                  Cardinality(Submissions(r))' = Cardinality(Submissions(r))
           /\ tp = InputOf(r) /\ m # Garbage /\ m.job = r =>
                  Cardinality(Submissions(r))' = Cardinality(Submissions(r)) + 1
           /\ Cardinality(Submissions(r))' <= Cardinality(Submissions(r)) + 1
<1>1. PICK n \in Nat : n = Len(log[InputOf(r)])
      BY JobsHavePartitions DEF InfrastructureTypeOK
<1>2. PICK X, Y : X = Submissions(r) /\ Y = Submissions(r)'
      OBVIOUS
<1>3. IsFiniteSet(X) /\ Cardinality(X) \in Nat
      BY <1>2, AccountsAreFinite
<1>4. Publish(tp, m) => log' = [log EXCEPT ![tp] = Append(log[tp], m)]
      BY DEF Publish
<1>5. \/ Y = X /\ ~(tp = InputOf(r) /\ m # Garbage /\ m.job = r)
      \/ Y = X \cup {n + 1} /\ n + 1 \notin X /\ tp = InputOf(r) /\ m # Garbage /\ m.job = r
  <2>1. PICK old \in Seq(Event \cup {Garbage}), new \in Seq(Event \cup {Garbage}) :
           old = log[InputOf(r)] /\ new = log'[InputOf(r)]
        BY PublishAppends, JobsHavePartitions DEF InfrastructureTypeOK
  <2>2. /\ X = {i \in 1..Len(old) : old[i] # Garbage /\ old[i].job = r}
        /\ Y = {i \in 1..Len(new) : new[i] # Garbage /\ new[i].job = r}
        BY <1>2, <2>1 DEF Submissions, InputOf
  <2>3. CASE tp = InputOf(r)
    <3>1. new = Append(old, m)
          BY <1>4, <2>1, <2>3, JobsHavePartitions DEF InfrastructureTypeOK
    <3>2. /\ Len(new) = n + 1 /\ new[n + 1] = m
          /\ \A i \in 1..n : new[i] = old[i]
          BY <1>1, <2>1, <3>1
    <3>3. \A i \in 1..(n + 1) : i \in 1..n \/ i = n + 1
          OBVIOUS
    <3>4. Len(old) = n
          BY <1>1, <2>1
    <3>5. CASE m # Garbage /\ m.job = r
          BY <2>2, <2>3, <3>2, <3>3, <3>4, <3>5
    <3>6. CASE ~(m # Garbage /\ m.job = r)
          BY <2>2, <3>2, <3>3, <3>4, <3>6
    <3> QED
        BY <3>5, <3>6
  <2>4. CASE tp # InputOf(r)
    <3>1. new = old
          BY <1>4, <2>1, <2>4, JobsHavePartitions DEF InfrastructureTypeOK
    <3> QED
        BY <2>2, <2>4, <3>1
  <2> QED
      BY <2>3, <2>4
<1>6. /\ Cardinality(Y) <= Cardinality(X) + 1
      /\ Y = X \cup {n + 1} /\ n + 1 \notin X => Cardinality(Y) = Cardinality(X) + 1
  <2>1. n + 1 \notin X => Cardinality(X \cup {n + 1}) = Cardinality(X) + 1
        BY <1>3, FS_AddElement
  <2>2. CASE Y = X
        BY <1>3, <2>2
  <2>3. CASE Y = X \cup {n + 1} /\ n + 1 \notin X
        BY <1>3, <2>1, <2>3
  <2> QED
      BY <1>5, <2>2, <2>3
<1>7. Cardinality(X) = Cardinality(Submissions(r)) /\ Cardinality(Y) = Cardinality(Submissions(r))'
      BY <1>2
<1> QED
    BY <1>5, <1>6, <1>7

(* Whatever a thread does, every submission stays paid for: the case of    *)
(* each of its steps, for its own job and for the others.                  *)
LEMMA ServicePays ==
    ASSUME IInv, SubmissionsPaid, ServiceNext
    PROVE  SubmissionsPaid'
<1> USE DEF IInv, TypeOK
<1>1. InfrastructureTypeOK' /\ ServiceTypeOK'
      BY ServiceStepEffect
<1> DEFINE Others(t) == \A u \in Thread \ {t} : phase'[u] = phase[u] /\ request'[u] = request[u]
           Same(r) == Cardinality(Submissions(r))' = Cardinality(Submissions(r))
           Paid(r) == Afforded(r)' + Cardinality(Thread) * Cardinality(Failing(r))'
                         <= 1 + faults' * Cardinality(Thread)
<1>2. AccountsOK /\ AccountsOK'
  <2>1. InfrastructureTypeOK' => AccountsOK'
        BY AccountsAreNumbers, PTL
  <2> QED
      BY <1>1, <2>1, AccountsAreNumbers
<1>3. ASSUME NEW r \in RequestId, UNCHANGED log
      PROVE  Same(r)
  <2>1. Submissions(r)' = Submissions(r)
        BY <1>3 DEF Submissions, InputOf
  <2> QED
      BY <2>1
<1>4. faults' >= faults
  <2>1. faults \in Nat
        BY DEF InfrastructureTypeOK
  <2>2. faults' = faults \/ faults' = faults + 1
        BY DEF ServiceNext, ServiceStep, SubmitNew, SubmitExisting, CheckExisting, PublishInput,
               PublishInputFails, SaveAccepted, SavePublishFailed, AbandonCall, Fault,
               infrastructureVars
  <2> QED
      BY <2>1, <2>2
<1>5. ASSUME NEW t \in Thread, Others(t), NEW r \in RequestId, Same(r), jobs'[r] = jobs[r],
             phase[t] \in {"idle", "check"} \/ request[t].job # r,
             phase'[t] \in {"idle", "check"} \/ request'[t].job # r
      PROVE  Paid(r)
  <2>1. /\ t \notin Publishing(r) /\ t \notin Publishing(r)'
        /\ t \notin Failing(r) /\ t \notin Failing(r)'
        /\ t \in Eligible(r) <=> t \in Eligible(r)'
        /\ QueueFailed(r)' <=> QueueFailed(r)
        BY <1>5 DEF Publishing, Failing, Eligible, QueueFailed
  <2>2. /\ Cardinality(Publishing(r))' = Cardinality(Publishing(r))
        /\ Cardinality(Failing(r))' = Cardinality(Failing(r))
        /\ Cardinality(Eligible(r))' = Cardinality(Eligible(r))
        BY <1>5, <2>1, ThreadMoves
  <2>3. Absent(r)' = Absent(r)
        BY <1>5 DEF Absent
  <2>4. Afforded(r)' <= Afforded(r)
        BY <1>2, <1>5, <2>2, <2>3 DEF Afforded, AccountsOK, AccountNumbers
  <2> QED
      BY <1>1, <1>4, <2>2, <2>4, AccountIsKept
<1>6. ASSUME NEW t \in Thread, NEW q \in Request, SubmitNew(t, q), NEW r \in RequestId
      PROVE  Paid(r)
  <2> DEFINE job == [state |-> "accepted", attempt |-> 0, result |-> NoResult,
                     error |-> NoError, fingerprint |-> q.content]
  <2>1. q.job \in RequestId /\ job # NoJob /\ job.error = NoError
        BY RequestsHaveFields, SentinelAssumption, <1>6 DEF StoredJob, State
  <2>2. /\ jobs' = [jobs EXCEPT ![q.job] = job] /\ jobs[q.job] = NoJob
        /\ Enter(t, "publish", q, job) /\ phase[t] = "idle" /\ UNCHANGED <<log, faults>>
        BY <1>6 DEF SubmitNew
  <2>3. phase'[t] = "publish" /\ request'[t] = q /\ Others(t)
        BY <2>2 DEF Enter, ServiceTypeOK
  <2>4. CASE r # q.job
    <3>1. jobs'[r] = jobs[r]
          BY <2>2, <2>4 DEF InfrastructureTypeOK
    <3> QED
        BY <1>3, <1>5, <2>2, <2>3, <2>4, <3>1
  <2>5. CASE r = q.job
    <3>1. ~QueueFailed(r) /\ ~QueueFailed(r)'
          BY <2>1, <2>2, <2>5, ErrorAssumption DEF QueueFailed, InfrastructureTypeOK
    <3>2. /\ t \notin Publishing(r) /\ t \in Publishing(r)'
          /\ t \notin Failing(r) /\ t \notin Failing(r)'
          BY <2>2, <2>3, <2>5 DEF Publishing, Failing
    <3>3. /\ Cardinality(Publishing(r))' = Cardinality(Publishing(r)) + 1
          /\ Cardinality(Failing(r))' = Cardinality(Failing(r))
          BY <2>3, <3>2, ThreadMoves
    <3>4. Cardinality(Eligible(r)) = 0 /\ Cardinality(Eligible(r))' = 0
          BY <1>2, <3>1 DEF AccountsOK, AccountNumbers
    <3>5. Absent(r) = 1 /\ Absent(r)' = 0
          BY <2>1, <2>2, <2>5 DEF Absent, InfrastructureTypeOK
    <3>6. Afforded(r)' <= Afforded(r)
          BY <1>2, <1>3, <2>2, <3>3, <3>4, <3>5 DEF Afforded, AccountsOK, AccountNumbers
    <3> QED
        BY <1>1, <1>4, <3>3, <3>6, AccountIsKept
  <2> QED
      BY <2>4, <2>5
<1>7. ASSUME NEW t \in Thread, NEW q \in Request, SubmitExisting(t, q), NEW r \in RequestId
      PROVE  Paid(r)
  <2>1. /\ UNCHANGED <<jobs, log>> /\ phase[t] = "idle" /\ phase'[t] = "check" /\ Others(t)
        BY <1>7 DEF SubmitExisting, Enter, ServiceTypeOK, infrastructureVars
  <2> QED
      BY <1>3, <1>5, <2>1
<1>8. ASSUME NEW t \in Thread, CheckExisting(t), NEW r \in RequestId
      PROVE  Paid(r)
  <2> DEFINE q == request[t]
             existing == jobs[q.job]
  <2>1. phase[t] = "check" /\ UNCHANGED <<jobs, log>>
        BY <1>8 DEF CheckExisting, infrastructureVars
  <2>2. CASE Refuse(t) \/ Answer202(t)
    <3>1. phase'[t] = "idle" /\ Others(t)
          BY <2>2 DEF Refuse, Answer202, Enter, ServiceTypeOK
    <3> QED
        BY <1>3, <1>5, <2>1, <3>1
  <2>3. CASE /\ existing # NoJob
             /\ existing.state = "failed" /\ existing.error = "queue_publish_failed"
             /\ Enter(t, "republish", q, existing)
    <3>1. phase'[t] = "republish" /\ request'[t] = q /\ Others(t)
          BY <2>3 DEF Enter, ServiceTypeOK
    <3>2. CASE r # q.job
          BY <1>3, <1>5, <2>1, <3>1, <3>2
    <3>3. CASE r = q.job
      <4>1. /\ t \notin Publishing(r) /\ t \in Publishing(r)'
            /\ t \notin Failing(r) /\ t \notin Failing(r)'
            /\ t \in Eligible(r) /\ t \notin Eligible(r)'
            /\ QueueFailed(r)' <=> QueueFailed(r)
            BY <2>1, <2>3, <3>1, <3>3 DEF Publishing, Failing, Eligible, QueueFailed
      <4>2. /\ Cardinality(Publishing(r))' = Cardinality(Publishing(r)) + 1
            /\ Cardinality(Failing(r))' = Cardinality(Failing(r))
            /\ Cardinality(Eligible(r)) = Cardinality(Eligible(r))' + 1
            BY <3>1, <4>1, ThreadMoves
      <4>3. Absent(r)' = Absent(r)
            BY <2>1 DEF Absent
      <4>4. Afforded(r)' <= Afforded(r)
            BY <1>2, <1>3, <2>1, <4>2, <4>3 DEF Afforded, AccountsOK, AccountNumbers
      <4> QED
          BY <1>1, <1>4, <4>2, <4>4, AccountIsKept
    <3> QED
        BY <3>2, <3>3
  <2> QED
      BY <1>8, <2>2, <2>3 DEF CheckExisting
<1>9. ASSUME NEW t \in Thread, phase[t] \in {"publish", "republish"},
             UNCHANGED log \/ Publish(InputOf(request[t].job), InputEvent(request[t])),
             NEW r \in RequestId
      PROVE  /\ Cardinality(Submissions(r))' <= Cardinality(Submissions(r)) + 1
             /\ request[t].job # r => Same(r)
  <2>1. request[t] \in Request
        BY <1>9 DEF CallsOK, Calling
  <2>2. /\ InputOf(request[t].job) \in TopicPartition
        /\ InputEvent(request[t]) \in Event \cup {Garbage}
        /\ InputEvent(request[t]).job = request[t].job
        BY <2>1, RequestsHaveFields, JobsHavePartitions DEF InputEvent
  <2>3. CASE UNCHANGED log
        BY <1>2, <1>3, <2>3 DEF AccountsOK, AccountNumbers
  <2>4. CASE Publish(InputOf(request[t].job), InputEvent(request[t]))
        BY <2>2, <2>4, SubmissionsGrow
  <2> QED
      BY <1>9, <2>3, <2>4
<1>10. ASSUME NEW t \in Thread, PublishInput(t), NEW r \in RequestId
       PROVE  Paid(r)
  <2>1. /\ phase[t] \in {"publish", "republish"} /\ UNCHANGED jobs
        /\ Publish(InputOf(request[t].job), InputEvent(request[t]))
        /\ \/ phase[t] = "publish" /\ phase'[t] = "idle"
           \/ phase[t] = "republish" /\ phase'[t] = "accept" /\ request'[t] = request[t]
        /\ Others(t)
        BY <1>10 DEF PublishInput, Answer202, Enter, ServiceTypeOK
  <2>2. CASE request[t].job # r
        BY <1>5, <1>9, <2>1, <2>2
  <2>3. CASE request[t].job = r
    <3>1. /\ t \in Publishing(r) /\ t \notin Publishing(r)'
          /\ t \notin Failing(r) /\ t \notin Failing(r)'
          /\ t \in Eligible(r) <=> t \in Eligible(r)'
          /\ QueueFailed(r)' <=> QueueFailed(r)
          BY <2>1, <2>3 DEF Publishing, Failing, Eligible, QueueFailed
    <3>2. /\ Cardinality(Publishing(r)) = Cardinality(Publishing(r))' + 1
          /\ Cardinality(Failing(r))' = Cardinality(Failing(r))
          /\ Cardinality(Eligible(r))' = Cardinality(Eligible(r))
          BY <2>1, <3>1, ThreadMoves
    <3>3. Absent(r)' = Absent(r) /\ Cardinality(Submissions(r))' <= Cardinality(Submissions(r)) + 1
          BY <1>9, <2>1 DEF Absent
    <3>4. Afforded(r)' <= Afforded(r)
          BY <1>2, <3>2, <3>3 DEF Afforded, AccountsOK, AccountNumbers
    <3> QED
        BY <1>1, <1>4, <3>2, <3>4, AccountIsKept
  <2> QED
      BY <2>2, <2>3
<1>11. ASSUME NEW t \in Thread, PublishInputFails(t), NEW r \in RequestId
       PROVE  Paid(r)
  <2>1. /\ phase[t] \in {"publish", "republish"} /\ UNCHANGED jobs
        /\ UNCHANGED log \/ Publish(InputOf(request[t].job), InputEvent(request[t]))
        /\ phase'[t] = "fail" /\ request'[t] = request[t] /\ faults' = faults + 1
        /\ Others(t)
        BY <1>11 DEF PublishInputFails, Enter, ServiceTypeOK, Fault
  <2>2. CASE request[t].job # r
        BY <1>5, <1>9, <2>1, <2>2
  <2>3. CASE request[t].job = r
    <3>1. /\ t \in Publishing(r) /\ t \notin Publishing(r)'
          /\ t \notin Failing(r) /\ t \in Failing(r)'
          /\ t \notin Eligible(r)'
          /\ QueueFailed(r)' <=> QueueFailed(r)
          BY <2>1, <2>3 DEF Publishing, Failing, Eligible, QueueFailed
    <3>2. /\ Cardinality(Publishing(r)) = Cardinality(Publishing(r))' + 1
          /\ Cardinality(Failing(r))' = Cardinality(Failing(r)) + 1
          /\ Cardinality(Eligible(r))' <= Cardinality(Eligible(r))
      <4>1. /\ Cardinality(Eligible(r)) \in Nat /\ Cardinality(Eligible(r))' \in Nat
            BY <1>2 DEF AccountsOK, AccountNumbers
      <4> QED
          BY <2>1, <3>1, <4>1, ThreadMoves
    <3>3. Absent(r)' = Absent(r) /\ Cardinality(Submissions(r))' <= Cardinality(Submissions(r)) + 1
          BY <1>9, <2>1 DEF Absent
    <3>4. Afforded(r)' <= Afforded(r)
          BY <1>2, <3>2, <3>3 DEF Afforded, AccountsOK, AccountNumbers
    <3> QED
        BY <1>1, <2>1, <3>2, <3>4, AccountIsKept
  <2> QED
      BY <2>2, <2>3
<1>12. ASSUME NEW t \in Thread, SaveAccepted(t) \/ SavePublishFailed(t), NEW r \in RequestId
       PROVE  Paid(r)
  <2>1. /\ phase[t] \in {"accept", "fail"} /\ phase'[t] = "idle" /\ Others(t) /\ UNCHANGED log
        BY <1>12 DEF SaveAccepted, SavePublishFailed, Answer202, Refuse, Enter, ServiceTypeOK
  <2>2. tjob[t] \in StoredJob /\ request[t] \in Request /\ request[t].job \in RequestId
        BY <2>1, RequestsHaveFields DEF CallsOK, Calling
  <2> DEFINE accepted == [tjob[t] EXCEPT !.state = "accepted", !.error = NoError]
             failed == [tjob[t] EXCEPT !.state = "failed", !.error = "queue_publish_failed"]
  <2>3. /\ accepted \in StoredJob /\ accepted.state = "accepted"
        /\ failed \in StoredJob
        BY <2>2 DEF StoredJob, State
  <2>4. PICK job \in StoredJob : /\ Save(request[t].job, job)
                                 /\ phase[t] = "accept" => job.state = "accepted"
        BY <1>12, <2>3 DEF SaveAccepted, SavePublishFailed
  <2>5. /\ \A q \in RequestId : q # request[t].job => jobs'[q] = jobs[q]
        /\ jobs[request[t].job] = NoJob => jobs' = jobs
        /\ jobs[request[t].job] # NoJob => jobs'[request[t].job] = job
        /\ job # NoJob
        BY <2>2, <2>4, SentinelAssumption DEF Save, InfrastructureTypeOK
  <2>6. CASE request[t].job # r
        BY <1>3, <1>5, <2>1, <2>5, <2>6
  <2>7. CASE request[t].job = r
    <3>1. /\ t \notin Publishing(r) /\ t \notin Publishing(r)' /\ t \notin Failing(r)'
          /\ t \in Failing(r) <=> phase[t] = "fail"
          BY <2>1, <2>7 DEF Publishing, Failing
    <3>2. /\ Cardinality(Publishing(r))' = Cardinality(Publishing(r))
          /\ phase[t] = "accept" => Cardinality(Failing(r))' = Cardinality(Failing(r))
          /\ phase[t] = "fail" => Cardinality(Failing(r)) = Cardinality(Failing(r))' + 1
          BY <2>1, <3>1, ThreadMoves
    <3>3. Absent(r)' = Absent(r)
          BY <2>5, <2>7 DEF Absent
    <3>4. phase[t] = "accept" => ~QueueFailed(r)'
          BY <2>4, <2>5, <2>7 DEF QueueFailed
    <3>5. /\ phase[t] = "accept" => Cardinality(Eligible(r))' = 0
          /\ Cardinality(Eligible(r))' <= Cardinality(Thread)
          BY <1>2, <3>4 DEF AccountsOK, AccountNumbers
    <3>6. CASE phase[t] = "accept"
      <4>1. Afforded(r)' <= Afforded(r)
            BY <1>2, <1>3, <2>1, <3>2, <3>3, <3>5, <3>6 DEF Afforded, AccountsOK, AccountNumbers
      <4> QED
          BY <1>1, <1>4, <3>2, <3>6, <4>1, AccountIsKept
    <3>7. CASE phase[t] = "fail"
      <4>1. Afforded(r)' <= Afforded(r) + Cardinality(Thread)
            BY <1>2, <1>3, <2>1, <3>2, <3>3, <3>5 DEF Afforded, AccountsOK, AccountNumbers
      <4> QED
          BY <1>1, <1>4, <3>2, <3>7, <4>1, AccountIsKept
    <3> QED
        BY <2>1, <3>6, <3>7
  <2> QED
      BY <2>6, <2>7
<1>13. ASSUME NEW t \in Thread, AbandonCall(t), NEW r \in RequestId
       PROVE  Paid(r)
  <2>1. /\ phase'[t] = "idle" /\ Others(t) /\ UNCHANGED <<jobs, log>> /\ faults' = faults + 1
        BY <1>13 DEF AbandonCall, Refuse, Enter, ServiceTypeOK, Fault
  <2>2. /\ t \notin Publishing(r)' /\ t \notin Failing(r)'
        /\ QueueFailed(r)' <=> QueueFailed(r)
        BY <2>1 DEF Publishing, Failing, QueueFailed
  <2>3. /\ Cardinality(Publishing(r))' <= Cardinality(Publishing(r))
        /\ Cardinality(Eligible(r))' <= Cardinality(Eligible(r)) + 1
        /\ \/ Cardinality(Failing(r))' = Cardinality(Failing(r))
           \/ Cardinality(Failing(r)) = Cardinality(Failing(r))' + 1
    <3>1. /\ Cardinality(Eligible(r)) \in Nat /\ Cardinality(Eligible(r))' \in Nat
          /\ Cardinality(Publishing(r)) \in Nat /\ Cardinality(Publishing(r))' \in Nat
          BY <1>2 DEF AccountsOK, AccountNumbers
    <3> QED
        BY <2>1, <2>2, <3>1, ThreadMoves
  <2>4. Absent(r)' = Absent(r)
        BY <2>1 DEF Absent
  <2>5. Afforded(r)' <= Afforded(r) + Cardinality(Thread)
        BY <1>2, <1>3, <2>1, <2>3, <2>4 DEF Afforded, AccountsOK, AccountNumbers
  <2> QED
      BY <1>1, <1>4, <2>1, <2>3, <2>5, AccountIsKept
<1> QED
    BY <1>6, <1>7, <1>8, <1>10, <1>11, <1>12, <1>13 DEF ServiceNext, ServiceStep, SubmissionsPaid

(* A worker submits nothing, stores no new job and none whose publication  *)
(* failed.                                                                 *)
LEMMA WorkerLeavesAccounts ==
    ASSUME IInv, NEW w \in Worker, NEW r \in RequestId,
           \/ WorkerStep(w) \/ WorkerCrash(w) \/ Shutdown(w) \/ Evict(w)
    PROVE  /\ Cardinality(Submissions(r))' = Cardinality(Submissions(r))
           /\ faults' >= faults
           /\ \/ jobs'[r] = jobs[r]
              \/ /\ jobs[r] # NoJob /\ jobs'[r] # NoJob
                 /\ jobs'[r].error # "queue_publish_failed"
<1> USE DEF IInv, TypeOK
<1>1. ASSUME step[w] \in {"mark", "moderate", "saveSucceeded", "saveRetrying", "saveExhausted"}
      PROVE  /\ EventOf(w) \in Event /\ EventOf(w).job \in RequestId
             /\ EventOf(w).attempt \in Nat /\ EventOf(w).attempt + 1 \in Nat
             /\ EventOf(w).content \in Content
             /\ wjob[w] \in StoredJob \/ step[w] = "moderate"
             /\ step[w] = "mark" => wjob[w].error = NoError
      BY <1>1, EventsHaveFields DEF HandlingOK, Busy, Handling
<1>2. Cardinality(Submissions(r))' = Cardinality(Submissions(r))
  <2>1. CASE UNCHANGED log
    <3>1. Submissions(r)' = Submissions(r)
          BY <2>1 DEF Submissions, InputOf
    <3> QED
        BY <3>1
  <2>2. CASE PublishRetry(w)
    <3>1. step[w] = "moderate" /\ Publish(RetryOf(EventOf(w).job), NextAttempt(EventOf(w)))
          BY <2>2 DEF PublishRetry
    <3>2. /\ RetryOf(EventOf(w).job) \in TopicPartition /\ RetryOf(EventOf(w).job) # InputOf(r)
          /\ NextAttempt(EventOf(w)) \in Event \cup {Garbage}
          BY <1>1, <3>1, EventsHaveFields, JobsHavePartitions DEF RetryOf, InputOf
    <3> QED
        BY <3>1, <3>2, SubmissionsGrow
  <2> QED
      BY <2>1, <2>2 DEF WorkerStep, Handle, Poll, RejectInvalid, LoadJob, DeadLetterMissing,
         MarkProcessing, PublishResult, SaveSucceeded, SaveRetrying, DeadLetterExhausted,
         SaveExhausted, Commit, CommitRefused, Restart, WorkerCrash, Shutdown, Evict,
         infrastructureVars
<1>3. faults' >= faults
  <2>1. faults \in Nat
        BY DEF InfrastructureTypeOK
  <2>2. faults' = faults \/ faults' = faults + 1
        BY DEF WorkerStep, Handle, Poll, RejectInvalid, LoadJob, DeadLetterMissing,
           MarkProcessing, PublishResult, SaveSucceeded, PublishRetry, SaveRetrying,
           DeadLetterExhausted, SaveExhausted, Commit, CommitRefused, Restart, WorkerCrash,
           Shutdown, Evict, infrastructureVars, Fault
  <2> QED
      BY <2>1, <2>2
<1> DEFINE Kept == \/ jobs'[r] = jobs[r]
                   \/ /\ jobs[r] # NoJob /\ jobs'[r] # NoJob
                      /\ jobs'[r].error # "queue_publish_failed"
<1>4. ASSUME NEW q \in RequestId, NEW job \in StoredJob, Save(q, job),
             job.error # "queue_publish_failed"
      PROVE  Kept
  <2>1. jobs'[r] = jobs[r] \/ jobs'[r] = job
        BY <1>4, SaveKeepsType
  <2>2. jobs[r] = NoJob => jobs'[r] = jobs[r]
        BY <1>4 DEF Save, InfrastructureTypeOK
  <2>3. job # NoJob
        BY SentinelAssumption
  <2> QED
      BY <1>4, <2>1, <2>2, <2>3
<1>5. ASSUME MarkProcessing(w)
      PROVE  Kept
  <2>1. step[w] = "mark" /\ Save(EventOf(w).job, wjob[w])
        BY <1>5 DEF MarkProcessing
  <2>2. PICK q \in RequestId, job \in StoredJob : q = EventOf(w).job /\ job = wjob[w]
        BY <1>1, <2>1
  <2>3. job.error # "queue_publish_failed"
        BY <1>1, <2>1, <2>2, ErrorAssumption
  <2> QED
      BY <1>4, <2>1, <2>2, <2>3
<1>6. ASSUME SaveSucceeded(w) \/ SaveRetrying(w) \/ SaveExhausted(w)
      PROVE  Kept
  <2>1. step[w] \in {"saveSucceeded", "saveRetrying", "saveExhausted"}
        BY <1>6 DEF SaveSucceeded, SaveRetrying, SaveExhausted
  <2> DEFINE done == [wjob[w] EXCEPT !.state = "succeeded", !.error = NoError,
                                     !.attempt = EventOf(w).attempt,
                                     !.result = EventOf(w).content]
             again == [wjob[w] EXCEPT !.state = "accepted", !.attempt = EventOf(w).attempt + 1,
                                      !.error = "processing_retry_scheduled"]
             over == [wjob[w] EXCEPT !.state = "failed", !.attempt = EventOf(w).attempt,
                                     !.error = "processing_attempts_exhausted"]
  <2>2. done \in StoredJob /\ again \in StoredJob /\ over \in StoredJob
        BY <1>1, <2>1, EditedJobs
  <2>3. /\ done.error = NoError /\ again.error = "processing_retry_scheduled"
        /\ over.error = "processing_attempts_exhausted"
        BY <1>1, <2>1 DEF StoredJob
  <2>4. \/ Save(EventOf(w).job, done) \/ Save(EventOf(w).job, again) \/ Save(EventOf(w).job, over)
        BY <1>6 DEF SaveSucceeded, SaveRetrying, SaveExhausted
  <2> HIDE DEF done, again, over
  <2>5. PICK q \in RequestId : q = EventOf(w).job
        BY <1>1, <2>1
  <2>6. PICK job \in StoredJob : Save(q, job) /\ job \in {done, again, over}
        BY <2>2, <2>4, <2>5
  <2>7. job.error # "queue_publish_failed"
        BY <2>3, <2>6, ErrorAssumption
  <2> QED
      BY <1>4, <2>6, <2>7
<1>7. UNCHANGED jobs => Kept
      OBVIOUS
<1>8. Kept
      BY <1>5, <1>6, <1>7 DEF WorkerStep, Handle, Poll, RejectInvalid, LoadJob,
         DeadLetterMissing, PublishResult, PublishRetry, DeadLetterExhausted,
         Commit, CommitRefused, Restart, WorkerCrash, Shutdown, Evict, infrastructureVars
<1> QED
    BY <1>2, <1>3, <1>8

(* Every submission is paid for, inductively.                              *)
LEMMA StepPaysForSubmissions ==
    ASSUME IInv, SubmissionsPaid, [Next]_vars
    PROVE  SubmissionsPaid'
<1> USE DEF IInv, TypeOK
<1>1. InfrastructureTypeOK' /\ ServiceTypeOK'
      BY StepKeepsInvariant
<1> DEFINE Paid(r) == Afforded(r)' + Cardinality(Thread) * Cardinality(Failing(r))'
                         <= 1 + faults' * Cardinality(Thread)
<1>2. AccountsOK /\ AccountsOK'
  <2>1. InfrastructureTypeOK' => AccountsOK'
        BY AccountsAreNumbers, PTL
  <2> QED
      BY <1>1, <2>1, AccountsAreNumbers
<1>3. ASSUME NEW r \in RequestId, UNCHANGED serviceVars,
             Cardinality(Submissions(r))' = Cardinality(Submissions(r)),
             \/ faults' >= faults /\ jobs'[r] = jobs[r]
             \/ /\ faults' >= faults /\ jobs[r] # NoJob /\ jobs'[r] # NoJob
                /\ jobs'[r].error # "queue_publish_failed"
             \/ faults' = faults + 1 /\ jobs'[r] = NoJob
      PROVE  Paid(r)
  <2>1. /\ Cardinality(Publishing(r))' = Cardinality(Publishing(r))
        /\ Cardinality(Failing(r))' = Cardinality(Failing(r))
    <3>1. Publishing(r)' = Publishing(r) /\ Failing(r)' = Failing(r)
          BY <1>3 DEF serviceVars, Publishing, Failing
    <3> QED
        BY <3>1
  <2>2. Cardinality(Eligible(r))' <= Cardinality(Eligible(r))
    <3>1. CASE jobs'[r] = jobs[r]
      <4>1. Eligible(r)' = Eligible(r)
            BY <1>3, <3>1 DEF serviceVars, Eligible, QueueFailed
      <4> QED
          BY <1>2, <4>1 DEF AccountsOK, AccountNumbers
    <3>2. CASE ~QueueFailed(r)'
      <4>1. Cardinality(Eligible(r))' = 0
            BY <1>2, <3>2 DEF AccountsOK, AccountNumbers
      <4> QED
          BY <1>2, <4>1 DEF AccountsOK, AccountNumbers
    <3> QED
        BY <1>3, <3>1, <3>2 DEF QueueFailed
  <2>3. /\ Absent(r)' <= Absent(r) + 1
        /\ Absent(r)' = Absent(r) \/ faults' = faults + 1
        BY <1>3 DEF Absent
  <2>4. CASE Absent(r)' = Absent(r)
    <3>1. Afforded(r)' <= Afforded(r)
          BY <1>2, <1>3, <2>1, <2>2, <2>4 DEF Afforded, AccountsOK, AccountNumbers
    <3>2. faults' >= faults
          BY <1>2, <1>3 DEF AccountsOK, AccountNumbers
    <3> QED
        BY <1>1, <2>1, <3>1, <3>2, AccountIsKept
  <2>5. CASE faults' = faults + 1
    <3>1. Afforded(r)' <= Afforded(r) + Cardinality(Thread)
          BY <1>2, <1>3, <2>1, <2>2, <2>3 DEF Afforded, AccountsOK, AccountNumbers
    <3> QED
        BY <1>1, <2>1, <2>5, <3>1, AccountIsKept
  <2> QED
      BY <2>3, <2>4, <2>5
<1>4. ASSUME NEW r \in RequestId, UNCHANGED log
      PROVE  Cardinality(Submissions(r))' = Cardinality(Submissions(r))
  <2>1. Submissions(r)' = Submissions(r)
        BY <1>4 DEF Submissions, InputOf
  <2> QED
      BY <2>1
<1>5. CASE ServiceNext
      BY <1>5, ServicePays
<1>6. CASE WorkerNext /\ UNCHANGED serviceVars
  <2>1. \A r \in RequestId : Paid(r)
        BY <1>3, <1>6, WorkerLeavesAccounts DEF WorkerNext
  <2> QED
      BY <2>1 DEF SubmissionsPaid
<1>7. ASSUME NEW q \in RequestId, Expire(q)
      PROVE  SubmissionsPaid'
  <2>1. /\ jobs' = [jobs EXCEPT ![q] = NoJob] /\ faults' = faults + 1
        /\ UNCHANGED log /\ UNCHANGED serviceVars
        BY <1>7 DEF Expire, Fault
  <2>2. \A r \in RequestId : jobs'[r] = jobs[r] \/ jobs'[r] = NoJob
        BY <2>1 DEF InfrastructureTypeOK
  <2>3. faults' >= faults
        BY <2>1 DEF InfrastructureTypeOK
  <2>4. \A r \in RequestId : Paid(r)
        BY <1>3, <1>4, <2>1, <2>2, <2>3
  <2> QED
      BY <2>4 DEF SubmissionsPaid
<1>8. ASSUME NEW tp \in TopicPartition, ForeignMessage(tp)
      PROVE  SubmissionsPaid'
  <2>1. /\ Publish(tp, Garbage) /\ faults' = faults + 1 /\ UNCHANGED jobs /\ UNCHANGED serviceVars
        BY <1>8 DEF ForeignMessage, Fault
  <2>2. faults' >= faults
        BY <2>1 DEF InfrastructureTypeOK
  <2>3. \A r \in RequestId : Cardinality(Submissions(r))' = Cardinality(Submissions(r))
        BY <2>1, SubmissionsGrow
  <2>4. \A r \in RequestId : Paid(r)
        BY <1>3, <2>1, <2>2, <2>3
  <2> QED
      BY <2>4 DEF SubmissionsPaid
<1>9. CASE UNCHANGED vars
  <2>1. UNCHANGED <<log, jobs, faults>> /\ UNCHANGED serviceVars
        BY <1>9 DEF vars, infrastructureVars
  <2>2. faults' >= faults
        BY <2>1 DEF InfrastructureTypeOK
  <2>3. \A r \in RequestId : Paid(r)
        BY <1>3, <1>4, <2>1, <2>2
  <2> QED
      BY <2>3 DEF SubmissionsPaid
<1> QED
    BY <1>5, <1>6, <1>7, <1>8, <1>9 DEF Next


(* No job is submitted more often than the faults pay for, one submission  *)
(* by every thread for each: the second half of DuplicatesNeedFaults.      *)
THEOREM SubmissionsArePaid == Spec => []SubmissionsPaid
<1>1. Init => SubmissionsPaid
  <2> SUFFICES ASSUME Init, NEW r \in RequestId
               PROVE  Afforded(r) + Cardinality(Thread) * Cardinality(Failing(r))
                         <= 1 + faults * Cardinality(Thread)
      BY DEF SubmissionsPaid
  <2>1. IInv
        BY InitEstablishesInvariant
  <2>2. faults = 0 /\ jobs[r] = NoJob
        BY DEF Init, InfrastructureInit
  <2>3. /\ Submissions(r) = {} /\ Publishing(r) = {} /\ Failing(r) = {}
        /\ ~QueueFailed(r) /\ Absent(r) = 1
        BY <2>2, JobsHavePartitions DEF Submissions, Publishing, Failing, QueueFailed, Absent,
           Init, InfrastructureInit, ServiceInit
  <2>4. /\ Cardinality(Submissions(r)) = 0 /\ Cardinality(Publishing(r)) = 0
        /\ Cardinality(Failing(r)) = 0 /\ Cardinality(Eligible(r)) = 0
        BY <2>1, <2>3, AccountsAreFinite, FS_EmptySet DEF IInv, TypeOK
  <2>5. Cardinality(Thread) \in Nat
        BY <2>1, AccountsAreFinite DEF IInv, TypeOK
  <2>6. Afforded(r) = 1
        BY <2>3, <2>4 DEF Afforded
  <2> QED
      BY <2>2, <2>4, <2>5, <2>6
<1>2. IInv /\ SubmissionsPaid /\ [Next]_vars => SubmissionsPaid'
      BY StepPaysForSubmissions
<1> QED
    BY <1>1, <1>2, Invariance, PTL DEF Spec

-----------------------------------------------------------------------------
(***************************************************************************)
(* The other half: an event decides its job once, unless a fault has it    *)
(* handled again, by the next owner of its partition or by a worker that   *)
(* the group has evicted.                                                  *)
(***************************************************************************)

\* The steps of a worker before and after it published what it decided.
Early == {"load", "missing", "mark", "moderate"}
Late == {"saveSucceeded", "saveRetrying", "saveExhausted", "commit"}

\* A message about job r that the group has still to acknowledge, and one
\* that its owner is done with but for the commit.
Waits(p, r) == /\ p \in Position
               /\ p.offset \in 1..Len(log[p.tp]) /\ p.offset > committed[p.tp]
               /\ MessageAt(p) # Garbage /\ MessageAt(p).job = r
Spent(p) == \E w \in Worker \ fenced : step[w] \in Late /\ held[w] = p

\* Who may still decide job r: messages, and evicted workers.
Unspent(r) == {p \in Position : Waits(p, r) /\ ~Spent(p)}
Zombies(r) == {w \in fenced : step[w] \in Early /\ EventOf(w) # Garbage /\ EventOf(w).job = r}

\* A worker that was evicted still handles the message it had.
FencedBusy == \A w \in fenced : Busy(w)

\* The decisions made and to come are paid for by submissions and faults.
DecisionPaid(r) ==
    /\ IsFiniteSet(Unspent(r)) /\ IsFiniteSet(Zombies(r))
    /\ Len(results[r]) + Cardinality(Unspent(r)) + Cardinality(Zombies(r))
          <= Cardinality(Submissions(r)) + faults
DecisionsPaid == FencedBusy /\ \A r \in RequestId : DecisionPaid(r)

(* How the size of a set changes with an element taken out or put in.      *)
LEMMA SizesFollow ==
    ASSUME NEW X, NEW Y, IsFiniteSet(X)
    PROVE  /\ Cardinality(X) \in Nat
           /\ Y \subseteq X => /\ IsFiniteSet(Y) /\ Cardinality(Y) \in Nat
                               /\ Cardinality(Y) <= Cardinality(X)
           /\ \A y : Y \subseteq X \cup {y} =>
                 /\ IsFiniteSet(Y) /\ Cardinality(Y) \in Nat
                 /\ Cardinality(Y) <= Cardinality(X) + 1
           /\ \A x \in X : Y \subseteq X \ {x} =>
                 /\ IsFiniteSet(Y) /\ Cardinality(Y) \in Nat
                 /\ Cardinality(Y) + 1 <= Cardinality(X)
           /\ \A x \in X : \A y : Y \subseteq (X \ {x}) \cup {y} =>
                 /\ IsFiniteSet(Y) /\ Cardinality(Y) \in Nat
                 /\ Cardinality(Y) <= Cardinality(X)
<1>1. ASSUME NEW A, NEW B, IsFiniteSet(A), B \subseteq A
      PROVE  /\ IsFiniteSet(B) /\ Cardinality(B) \in Nat /\ Cardinality(A) \in Nat
             /\ Cardinality(B) <= Cardinality(A)
      BY <1>1, FS_Subset, FS_CardinalityType
<1>2. ASSUME NEW A, NEW y, IsFiniteSet(A)
      PROVE  /\ IsFiniteSet(A \cup {y}) /\ Cardinality(A \cup {y}) \in Nat
             /\ Cardinality(A \cup {y}) <= Cardinality(A) + 1
  <2>1. IsFiniteSet(A \cup {y}) /\ Cardinality(A \cup {y}) \in {Cardinality(A), Cardinality(A) + 1}
        BY <1>2, FS_AddElement
  <2> QED
      BY <1>2, <2>1, FS_CardinalityType
<1>3. ASSUME NEW A, NEW x \in A, IsFiniteSet(A)
      PROVE  /\ IsFiniteSet(A \ {x}) /\ Cardinality(A \ {x}) \in Nat
             /\ Cardinality(A \ {x}) + 1 = Cardinality(A)
  <2>1. IsFiniteSet(A \ {x}) /\ Cardinality(A \ {x}) = Cardinality(A) - 1
        BY <1>3, FS_RemoveElement
  <2> QED
      BY <1>3, <2>1, FS_CardinalityType
<1>4. Cardinality(X) \in Nat
      BY FS_CardinalityType
<1>5. Y \subseteq X => /\ IsFiniteSet(Y) /\ Cardinality(Y) \in Nat
                       /\ Cardinality(Y) <= Cardinality(X)
      BY <1>1
<1>6. ASSUME NEW y, Y \subseteq X \cup {y}
      PROVE  /\ IsFiniteSet(Y) /\ Cardinality(Y) \in Nat
             /\ Cardinality(Y) <= Cardinality(X) + 1
  <2>1. PICK B : B = X \cup {y}
        OBVIOUS
  <2>2. IsFiniteSet(B) /\ Cardinality(B) \in Nat /\ Cardinality(B) <= Cardinality(X) + 1
        BY <1>2, <2>1
  <2>3. IsFiniteSet(Y) /\ Cardinality(Y) \in Nat /\ Cardinality(Y) <= Cardinality(B)
        BY <1>1, <1>6, <2>1, <2>2
  <2> QED
      BY <1>4, <2>2, <2>3
<1>7. ASSUME NEW x \in X, Y \subseteq X \ {x}
      PROVE  /\ IsFiniteSet(Y) /\ Cardinality(Y) \in Nat
             /\ Cardinality(Y) + 1 <= Cardinality(X)
  <2>1. PICK B : B = X \ {x}
        OBVIOUS
  <2>2. IsFiniteSet(B) /\ Cardinality(B) \in Nat /\ Cardinality(B) + 1 = Cardinality(X)
        BY <1>3, <2>1
  <2>3. IsFiniteSet(Y) /\ Cardinality(Y) \in Nat /\ Cardinality(Y) <= Cardinality(B)
        BY <1>1, <1>7, <2>1, <2>2
  <2> QED
      BY <1>4, <2>2, <2>3
<1>8. ASSUME NEW x \in X, NEW y, Y \subseteq (X \ {x}) \cup {y}
      PROVE  /\ IsFiniteSet(Y) /\ Cardinality(Y) \in Nat
             /\ Cardinality(Y) <= Cardinality(X)
  <2>1. PICK B, C : B = X \ {x} /\ C = B \cup {y}
        OBVIOUS
  <2>2. IsFiniteSet(B) /\ Cardinality(B) \in Nat /\ Cardinality(B) + 1 = Cardinality(X)
        BY <1>3, <2>1
  <2>3. IsFiniteSet(C) /\ Cardinality(C) \in Nat /\ Cardinality(C) <= Cardinality(B) + 1
        BY <1>2, <2>1, <2>2
  <2>4. IsFiniteSet(Y) /\ Cardinality(Y) \in Nat /\ Cardinality(Y) <= Cardinality(C)
        BY <1>1, <1>8, <2>1, <2>3
  <2> QED
      BY <1>4, <2>2, <2>3, <2>4
<1> QED
    BY <1>4, <1>5, <1>6, <1>7, <1>8


\* What a step that happens before the decision of job r, at it, or by a
\* fault does to those who may decide r, and to what pays for them.
Costless(r) == /\ Unspent(r)' \subseteq Unspent(r) /\ Zombies(r)' \subseteq Zombies(r)
               /\ Len(results[r])' = Len(results[r])
               /\ Cardinality(Submissions(r))' + faults' >= Cardinality(Submissions(r)) + faults
Charged(r) == /\ \/ /\ Zombies(r)' \subseteq Zombies(r)
                    /\ \E y : Unspent(r)' \subseteq Unspent(r) \cup {y}
                 \/ /\ Unspent(r)' \subseteq Unspent(r)
                    /\ \E y : Zombies(r)' \subseteq Zombies(r) \cup {y}
              /\ Len(results[r])' = Len(results[r])
              /\ Cardinality(Submissions(r))' + faults'
                    >= Cardinality(Submissions(r)) + faults + 1
Decided(r) == /\ \/ /\ Zombies(r)' \subseteq Zombies(r)
                    /\ \E x \in Unspent(r) : Unspent(r)' \subseteq Unspent(r) \ {x}
                 \/ /\ Unspent(r)' \subseteq Unspent(r)
                    /\ \E x \in Zombies(r) : Zombies(r)' \subseteq Zombies(r) \ {x}
              /\ Len(results[r])' = Len(results[r]) + 1
              /\ Cardinality(Submissions(r))' + faults' >= Cardinality(Submissions(r)) + faults
Requeued(r) == /\ \/ /\ Zombies(r)' \subseteq Zombies(r)
                     /\ \E x \in Unspent(r) : \E y : Unspent(r)' \subseteq (Unspent(r) \ {x}) \cup {y}
                  \/ /\ \E y : Unspent(r)' \subseteq Unspent(r) \cup {y}
                     /\ \E x \in Zombies(r) : Zombies(r)' \subseteq Zombies(r) \ {x}
               /\ Len(results[r])' = Len(results[r])
               /\ Cardinality(Submissions(r))' + faults' >= Cardinality(Submissions(r)) + faults

(* In each of the four cases what was paid for stays paid for.             *)
LEMMA DecisionStaysPaid ==
    ASSUME InfrastructureTypeOK, InfrastructureTypeOK', NEW r \in RequestId, DecisionPaid(r),
           Costless(r) \/ Charged(r) \/ Decided(r) \/ Requeued(r)
    PROVE  DecisionPaid(r)'
<1>1. PICK U, V, Y, Z : /\ U = Unspent(r) /\ V = Unspent(r)'
                        /\ Y = Zombies(r) /\ Z = Zombies(r)'
      OBVIOUS
<1>2. /\ Cardinality(Submissions(r)) \in Nat /\ Cardinality(Submissions(r))' \in Nat
      /\ faults \in Nat /\ faults' \in Nat
  <2>1. InfrastructureTypeOK' => AccountsOK'
        BY AccountsAreNumbers, PTL
  <2> QED
      BY <2>1, AccountsAreNumbers DEF AccountsOK, AccountNumbers
<1>3. Len(results[r]) \in Nat /\ Len(results[r])' \in Nat
      BY DEF InfrastructureTypeOK
<1>4. PICK l \in Nat, m \in Nat, a \in Nat, b \in Nat :
         /\ l = Len(results[r]) /\ m = Len(results[r])'
         /\ a = Cardinality(Submissions(r)) + faults
         /\ b = Cardinality(Submissions(r))' + faults'
  <2>1. /\ Cardinality(Submissions(r)) + faults \in Nat
        /\ Cardinality(Submissions(r))' + faults' \in Nat
        BY <1>2
  <2> QED
      BY <1>3, <2>1
<1>5. /\ IsFiniteSet(U) /\ IsFiniteSet(Y)
      /\ l + Cardinality(U) + Cardinality(Y) <= a
      BY <1>1, <1>4 DEF DecisionPaid
<1> DEFINE Fits == /\ IsFiniteSet(V) /\ IsFiniteSet(Z)
                   /\ m + Cardinality(V) + Cardinality(Z) <= b
<1>6. /\ Cardinality(U) \in Nat /\ Cardinality(Y) \in Nat
      /\ l \in Nat /\ m \in Nat /\ a \in Nat /\ b \in Nat
      BY <1>4, <1>5, SizesFollow
<1>7. Fits => DecisionPaid(r)'
      BY <1>1, <1>4 DEF DecisionPaid
<1>8. CASE Costless(r)
  <2>1. V \subseteq U /\ Z \subseteq Y /\ m = l /\ b >= a
        BY <1>1, <1>2, <1>4, <1>8 DEF Costless
  <2>2. /\ IsFiniteSet(V) /\ Cardinality(V) \in Nat /\ Cardinality(V) <= Cardinality(U)
        /\ IsFiniteSet(Z) /\ Cardinality(Z) \in Nat /\ Cardinality(Z) <= Cardinality(Y)
        BY <1>5, <2>1, SizesFollow
  <2>3. Fits
        BY <1>5, <1>6, <2>1, <2>2
  <2> QED
      BY <1>7, <2>3
<1>9. CASE Charged(r)
  <2>1. \/ Z \subseteq Y /\ \E y : V \subseteq U \cup {y}
        \/ V \subseteq U /\ \E y : Z \subseteq Y \cup {y}
        BY <1>1, <1>2, <1>4, <1>9 DEF Charged
  <2>2. m = l /\ b >= a + 1
        BY <1>1, <1>2, <1>4, <1>9 DEF Charged
  <2>3. CASE Z \subseteq Y /\ \E y : V \subseteq U \cup {y}
    <3>1. /\ IsFiniteSet(V) /\ Cardinality(V) \in Nat /\ Cardinality(V) <= Cardinality(U) + 1
          /\ IsFiniteSet(Z) /\ Cardinality(Z) \in Nat /\ Cardinality(Z) <= Cardinality(Y)
          BY <1>5, <2>3, SizesFollow
    <3>2. Fits
          BY <1>5, <1>6, <2>2, <3>1
    <3> QED
        BY <1>7, <3>2
  <2>4. CASE V \subseteq U /\ \E y : Z \subseteq Y \cup {y}
    <3>1. /\ IsFiniteSet(V) /\ Cardinality(V) \in Nat /\ Cardinality(V) <= Cardinality(U)
          /\ IsFiniteSet(Z) /\ Cardinality(Z) \in Nat /\ Cardinality(Z) <= Cardinality(Y) + 1
          BY <1>5, <2>4, SizesFollow
    <3>2. Fits
          BY <1>5, <1>6, <2>2, <3>1
    <3> QED
        BY <1>7, <3>2
  <2> QED
      BY <2>1, <2>3, <2>4
<1>10. CASE Decided(r)
  <2>1. \/ Z \subseteq Y /\ \E x \in U : V \subseteq U \ {x}
        \/ V \subseteq U /\ \E x \in Y : Z \subseteq Y \ {x}
        BY <1>1, <1>2, <1>4, <1>10 DEF Decided
  <2>2. m = l + 1 /\ b >= a
        BY <1>1, <1>2, <1>4, <1>10 DEF Decided
  <2>3. CASE Z \subseteq Y /\ \E x \in U : V \subseteq U \ {x}
    <3>1. /\ IsFiniteSet(V) /\ Cardinality(V) \in Nat /\ Cardinality(V) + 1 <= Cardinality(U)
          /\ IsFiniteSet(Z) /\ Cardinality(Z) \in Nat /\ Cardinality(Z) <= Cardinality(Y)
          BY <1>5, <2>3, SizesFollow
    <3>2. Fits
          BY <1>5, <1>6, <2>2, <3>1
    <3> QED
        BY <1>7, <3>2
  <2>4. CASE V \subseteq U /\ \E x \in Y : Z \subseteq Y \ {x}
    <3>1. /\ IsFiniteSet(V) /\ Cardinality(V) \in Nat /\ Cardinality(V) <= Cardinality(U)
          /\ IsFiniteSet(Z) /\ Cardinality(Z) \in Nat /\ Cardinality(Z) + 1 <= Cardinality(Y)
          BY <1>5, <2>4, SizesFollow
    <3>2. Fits
          BY <1>5, <1>6, <2>2, <3>1
    <3> QED
        BY <1>7, <3>2
  <2> QED
      BY <2>1, <2>3, <2>4
<1>11. CASE Requeued(r)
  <2>1. \/ Z \subseteq Y /\ \E x \in U : \E y : V \subseteq (U \ {x}) \cup {y}
        \/ (\E y : V \subseteq U \cup {y}) /\ \E x \in Y : Z \subseteq Y \ {x}
        BY <1>1, <1>2, <1>4, <1>11 DEF Requeued
  <2>2. m = l /\ b >= a
        BY <1>1, <1>2, <1>4, <1>11 DEF Requeued
  <2>3. CASE Z \subseteq Y /\ \E x \in U : \E y : V \subseteq (U \ {x}) \cup {y}
    <3>1. /\ IsFiniteSet(V) /\ Cardinality(V) \in Nat /\ Cardinality(V) <= Cardinality(U)
          /\ IsFiniteSet(Z) /\ Cardinality(Z) \in Nat /\ Cardinality(Z) <= Cardinality(Y)
          BY <1>5, <2>3, SizesFollow
    <3>2. Fits
          BY <1>5, <1>6, <2>2, <3>1
    <3> QED
        BY <1>7, <3>2
  <2>4. CASE (\E y : V \subseteq U \cup {y}) /\ \E x \in Y : Z \subseteq Y \ {x}
    <3>1. /\ IsFiniteSet(V) /\ Cardinality(V) \in Nat /\ Cardinality(V) <= Cardinality(U) + 1
          /\ IsFiniteSet(Z) /\ Cardinality(Z) \in Nat /\ Cardinality(Z) + 1 <= Cardinality(Y)
          BY <1>5, <2>4, SizesFollow
    <3>2. Fits
          BY <1>5, <1>6, <2>2, <3>1
    <3> QED
        BY <1>7, <3>2
  <2> QED
      BY <2>1, <2>3, <2>4
<1> QED
    BY <1>8, <1>9, <1>10, <1>11

(* A message that waits after a step waited before, or the step has just   *)
(* published it.                                                           *)
LEMMA WaitingIsNotNew ==
    ASSUME InfrastructureTypeOK, InfrastructureTypeOK',
           NEW r \in RequestId, NEW p, Waits(p, r)',
           \A tp \in TopicPartition : committed[tp] <= committed'[tp],
           NEW tp \in TopicPartition, NEW m \in Event \cup {Garbage},
           UNCHANGED log \/ Publish(tp, m)
    PROVE  \/ Waits(p, r)
           \/ /\ Publish(tp, m) /\ m # Garbage /\ m.job = r
              /\ p = [tp |-> tp, offset |-> Len(log[tp]) + 1]
<1>1. /\ p \in Position /\ p.tp \in TopicPartition /\ p.offset \in Nat
      /\ p = [tp |-> p.tp, offset |-> p.offset]
      BY DEF Waits, Position
<1>2. committed[p.tp] \in Nat /\ committed'[p.tp] \in Nat /\ p.offset > committed[p.tp]
  <2>1. committed[p.tp] <= committed'[p.tp] /\ p.offset > committed'[p.tp]
        BY <1>1 DEF Waits
  <2> QED
      BY <1>1, <2>1 DEF InfrastructureTypeOK
<1>3. CASE UNCHANGED log
      BY <1>2, <1>3 DEF Waits, MessageAt
<1>4. CASE Publish(tp, m)
      BY <1>1, <1>2, <1>4 DEF Waits, MessageAt, Publish, InfrastructureTypeOK
<1> QED
    BY <1>3, <1>4


(* An evicted worker that may still decide a job could do so before every  *)
(* step that is not its own.                                               *)
LEMMA ZombiesAreNotNew ==
    ASSUME IInv, InfrastructureTypeOK', Grows, NEW r \in RequestId, NEW v \in Zombies(r)',
           v \in fenced, step[v] \in Early, held'[v] = held[v]
    PROVE  v \in Zombies(r)
<1>1. EventOf(v)' # Garbage /\ EventOf(v)'.job = r
      BY DEF Zombies
<1>2. v \in Worker /\ Handling(v)
      BY DEF Early, IInv, TypeOK, WorkerTypeOK, HandlingOK, Busy
<1>3. EventOf(v)' = EventOf(v)
      BY <1>2, PositionIsStable DEF IInv, TypeOK
<1> QED
    BY <1>1, <1>3 DEF Zombies

(* How a worker leaves the steps before and after its decision.            *)
LEMMA WorkerTurns ==
    ASSUME TypeOK, FencedBusy, NEW w \in Worker,
           \/ WorkerStep(w) \/ WorkerCrash(w) \/ Shutdown(w) \/ Evict(w)
    PROVE  /\ w \in fenced' => Busy(w)'
           /\ w \in fenced' /\ step'[w] \in Early =>
                 Evict(w) \/ (w \in fenced /\ step[w] \in Early /\ held'[w] = held[w])
           /\ w \notin fenced /\ step[w] \in Late =>
                 \/ WorkerCrash(w) \/ Evict(w)
                 \/ step'[w] \in Late /\ w \notin fenced' /\ held'[w] = held[w]
                 \/ committed' = [committed EXCEPT ![held[w].tp] = held[w].offset]
<1> DEFINE Turns == /\ w \in fenced' => Busy(w)'
                    /\ w \in fenced' /\ step'[w] \in Early =>
                          Evict(w) \/ (w \in fenced /\ step[w] \in Early /\ held'[w] = held[w])
                    /\ w \notin fenced /\ step[w] \in Late =>
                          \/ WorkerCrash(w) \/ Evict(w)
                          \/ step'[w] \in Late /\ w \notin fenced' /\ held'[w] = held[w]
                          \/ committed' = [committed EXCEPT ![held[w].tp] = held[w].offset]
<1>1. ASSUME NEW tp \in TopicPartition, Poll(w, tp)
      PROVE  Turns
  <2>1. step[w] = "idle" /\ fenced' = fenced
        BY <1>1 DEF Poll
  <2> QED
      BY <2>1 DEF FencedBusy, Busy, Late
<1>2. ASSUME NEW s \in {"idle", "down"}, Release(w, s),
             ~(w \notin fenced /\ step[w] \in Late) \/ WorkerCrash(w)
               \/ committed' = [committed EXCEPT ![held[w].tp] = held[w].offset]
      PROVE  Turns
  <2>1. w \notin fenced'
        BY <1>2 DEF Release
  <2> QED
      BY <1>2, <2>1
<1>3. CASE Commit(w) \/ CommitRefused(w) \/ Restart(w) \/ WorkerCrash(w) \/ Shutdown(w)
      BY <1>2, <1>3 DEF Commit, CommitRefused, Restart, WorkerCrash, Shutdown, Late
<1>4. CASE Evict(w)
      BY <1>4 DEF Evict, TypeOK, WorkerTypeOK, Busy
<1>5. CASE LoadJob(w) \/ MarkProcessing(w)
  <2>1. /\ step[w] \in {"load", "mark"} /\ held' = held /\ fenced' = fenced
        /\ step'[w] \in {"missing", "mark", "moderate", "commit"}
        BY <1>5 DEF LoadJob, MarkProcessing, Finish, Go, TypeOK, WorkerTypeOK
  <2> QED
      BY <2>1 DEF Early, Late, Busy
<1>6. CASE \/ RejectInvalid(w) \/ DeadLetterMissing(w) \/ PublishResult(w) \/ SaveSucceeded(w)
           \/ PublishRetry(w) \/ SaveRetrying(w) \/ DeadLetterExhausted(w) \/ SaveExhausted(w)
  <2>1. /\ held' = held /\ fenced' = fenced
        /\ step'[w] \in {"saveSucceeded", "saveRetrying", "saveExhausted", "commit"}
        BY <1>6 DEF RejectInvalid, DeadLetterMissing, PublishResult, SaveSucceeded, PublishRetry,
           SaveRetrying, DeadLetterExhausted, SaveExhausted, Finish, Go, TypeOK, WorkerTypeOK
  <2> QED
      BY <2>1 DEF Early, Late, Busy
<1> QED
    BY <1>1, <1>3, <1>4, <1>5, <1>6 DEF WorkerStep, Handle

(* The message that a member of the group is about to decide is unspent.   *)
LEMMA DecidedIsUnspent ==
    ASSUME IInv, NEW w \in Worker \ fenced, step[w] = "moderate", NEW r \in RequestId,
           EventOf(w).job = r
    PROVE  held[w] \in Unspent(r)
<1> USE DEF IInv, TypeOK
<1>1. Busy(w) /\ Handling(w)
      BY DEF Busy, HandlingOK
<1>2. /\ held[w] \in Position /\ held[w].offset \in 1..Len(log[held[w].tp])
      /\ held[w].offset = committed[held[w].tp] + 1 /\ EventOf(w) # Garbage
      BY <1>1, SentinelAssumption DEF Handling
<1>3. committed[held[w].tp] \in Nat
      BY <1>2 DEF Position, InfrastructureTypeOK
<1>4. Waits(held[w], r)
      BY <1>2, <1>3 DEF Waits, EventOf
<1>5. ASSUME NEW v \in Worker \ fenced, step[v] \in Late, held[v] = held[w]
      PROVE  FALSE
  <2>1. v # w /\ Busy(v)
        BY <1>5 DEF Late, Busy
  <2> QED
      BY <1>1, <1>5, <2>1 DEF OwnersExclusive
<1> QED
    BY <1>2, <1>4, <1>5 DEF Unspent, Spent


(* What a worker decides, and what a fault has decided again, is paid for. *)
LEMMA WorkerPays ==
    ASSUME IInv, InfrastructureTypeOK', FencedBusy, NEW w \in Worker, NEW r \in RequestId,
           \/ WorkerStep(w) \/ WorkerCrash(w) \/ Shutdown(w) \/ Evict(w)
    PROVE  Costless(r) \/ Charged(r) \/ Decided(r) \/ Requeued(r)
<1> USE DEF IInv, TypeOK
<1> DEFINE Goal == Costless(r) \/ Charged(r) \/ Decided(r) \/ Requeued(r)
           retry == [tp |-> RetryOf(r), offset |-> Len(log[RetryOf(r)]) + 1]
           Requeue == PublishRetry(w) /\ EventOf(w).job = r
           Decide == PublishResult(w) /\ EventOf(w).job = r
<1>1. Grows /\ OnlyItself(w)
      BY WorkerStepEffect DEF StepKeeps
<1>2. /\ w \in fenced' /\ step'[w] \in Early =>
            Evict(w) \/ (w \in fenced /\ step[w] \in Early /\ held'[w] = held[w])
      /\ w \notin fenced /\ step[w] \in Late =>
            \/ WorkerCrash(w) \/ Evict(w)
            \/ step'[w] \in Late /\ w \notin fenced' /\ held'[w] = held[w]
            \/ committed' = [committed EXCEPT ![held[w].tp] = held[w].offset]
      BY WorkerTurns
<1>3. \A v \in Worker \ {w} : /\ step'[v] = step[v] /\ held'[v] = held[v]
                              /\ v \in fenced' <=> v \in fenced
      BY <1>1 DEF OnlyItself
<1>4. ASSUME NEW v \in Zombies(r)'
      PROVE  v \in Zombies(r) \/ (Evict(w) /\ v = w)
  <2>1. v \in fenced' /\ step'[v] \in Early /\ v \in Worker
    <3>1. fenced' \subseteq Worker
          BY WorkerStepEffect DEF StepKeeps, WorkerTypeOK
    <3> QED
        BY <1>4, <3>1 DEF Zombies
  <2>2. CASE v # w
        BY <1>1, <1>3, <2>1, <2>2, ZombiesAreNotNew
  <2>3. CASE v = w /\ ~Evict(w)
        BY <1>1, <1>2, <2>1, <2>3, ZombiesAreNotNew
  <2> QED
      BY <2>2, <2>3
<1>5. PICK S \in Nat, T \in Nat, f \in Nat, g \in Nat :
         /\ S = Cardinality(Submissions(r)) /\ T = Cardinality(Submissions(r))'
         /\ f = faults /\ g = faults' /\ T = S /\ g >= f
  <2>1. Cardinality(Submissions(r)) \in Nat /\ faults \in Nat /\ faults' \in Nat
        BY AccountsAreFinite DEF InfrastructureTypeOK
  <2> QED
      BY <2>1, WorkerLeavesAccounts
<1>6. \A tp \in TopicPartition : committed[tp] <= committed'[tp]
  <2>1. CASE UNCHANGED committed
        BY <2>1 DEF InfrastructureTypeOK
  <2>2. CASE /\ step[w] = "commit" /\ w \notin fenced
             /\ committed' = [committed EXCEPT ![held[w].tp] = held[w].offset]
    <3>1. Busy(w) /\ Handling(w)
          BY <2>2 DEF Busy, HandlingOK
    <3>2. held[w].offset = committed[held[w].tp] + 1
          BY <2>2, <3>1 DEF Handling
    <3> QED
        BY <2>2, <3>2 DEF InfrastructureTypeOK
  <2> QED
      BY <1>1, <2>1, <2>2 DEF OnlyItself
<1>7. ASSUME NEW p \in Unspent(r)'
      PROVE  \/ p \in Unspent(r)
             \/ Requeue /\ p = retry
             \/ /\ WorkerCrash(w) \/ Evict(w)
                /\ w \notin fenced /\ step[w] \in Late /\ p = held[w]
  <2>1. Waits(p, r)' /\ ~Spent(p)'
        BY <1>7 DEF Unspent
  <2>2. Waits(p, r) \/ (Requeue /\ p = retry)
    <3>1. CASE UNCHANGED log
      <4>1. TopicPartition # {} /\ Garbage \in Event \cup {Garbage}
            BY JobsHavePartitions
      <4>2. PICK tp \in TopicPartition : TRUE
            BY <4>1
      <4>3. PICK m \in Event \cup {Garbage} : m = Garbage
            BY <4>1
      <4> QED
          BY <1>6, <2>1, <3>1, <4>2, <4>3, WaitingIsNotNew
    <3>2. CASE PublishRetry(w)
      <4>1. /\ step[w] = "moderate" /\ Publish(RetryOf(EventOf(w).job), NextAttempt(EventOf(w)))
            BY <3>2 DEF PublishRetry
      <4>2. EventOf(w) \in Event
            BY <4>1 DEF HandlingOK, Busy, Handling
      <4>3. PICK e \in Event : e = EventOf(w)
            BY <4>2
      <4>4. /\ NextAttempt(e) \in Event \cup {Garbage} /\ NextAttempt(e).job = e.job
            /\ RetryOf(e.job) \in TopicPartition /\ e.job \in RequestId
            BY EventsHaveFields, JobsHavePartitions DEF NextAttempt, Event
      <4>5. PICK tp \in TopicPartition, m \in Event \cup {Garbage} :
               tp = RetryOf(e.job) /\ m = NextAttempt(e)
            BY <4>4
      <4>6. Publish(tp, m)
            BY <4>1, <4>3, <4>5
      <4>7. \/ Waits(p, r)
            \/ m.job = r /\ p = [tp |-> tp, offset |-> Len(log[tp]) + 1]
            BY <1>6, <2>1, <4>6, WaitingIsNotNew
      <4>8. m.job = e.job
            BY <4>4, <4>5
      <4> QED
          BY <3>2, <4>3, <4>5, <4>7, <4>8
    <3> QED
        BY <3>1, <3>2 DEF WorkerStep, Handle, Poll, RejectInvalid, LoadJob, DeadLetterMissing,
           MarkProcessing, PublishResult, SaveSucceeded, SaveRetrying, DeadLetterExhausted,
           SaveExhausted, Commit, CommitRefused, Restart, WorkerCrash, Shutdown, Evict,
           infrastructureVars
  <2>3. CASE Waits(p, r) /\ Spent(p)
    <3>1. PICK v \in Worker \ fenced : step[v] \in Late /\ held[v] = p
          BY <2>3 DEF Spent
    <3>2. v = w
          BY <1>3, <2>1, <3>1 DEF Spent
    <3>3. /\ ~(step'[w] \in Late /\ w \notin fenced' /\ held'[w] = held[w])
          BY <2>1, <3>1, <3>2 DEF Spent
    <3>4. committed' # [committed EXCEPT ![held[w].tp] = held[w].offset]
      <4>1. p \in Position /\ p.tp \in TopicPartition /\ p.offset \in Nat /\ p.offset > committed'[p.tp]
            BY <2>1 DEF Waits, Position
      <4>2. held[w] = p
            BY <3>1, <3>2
      <4>3. ASSUME committed' = [committed EXCEPT ![p.tp] = p.offset]
            PROVE  FALSE
        <5>1. committed'[p.tp] = p.offset
              BY <4>1, <4>3 DEF InfrastructureTypeOK
        <5> QED
            BY <4>1, <5>1
      <4> QED
          BY <4>2, <4>3
    <3> QED
        BY <1>2, <3>1, <3>2, <3>3, <3>4
  <2>4. CASE Waits(p, r) /\ ~Spent(p)
        BY <2>1, <2>4 DEF Unspent, Waits
  <2> QED
      BY <2>2, <2>3, <2>4
<1>8. Len(results[r])' = IF Decide THEN Len(results[r]) + 1 ELSE Len(results[r])
  <2>1. CASE PublishResult(w)
    <3>1. /\ step[w] = "moderate"
          /\ results' = [results EXCEPT ![EventOf(w).job] = Append(@, EventOf(w).content)]
          BY <2>1 DEF PublishResult
    <3>2. EventOf(w) \in Event
          BY <3>1 DEF HandlingOK, Busy, Handling
    <3>3. PICK q \in RequestId, c \in Content : q = EventOf(w).job /\ c = EventOf(w).content
          BY <3>2, EventsHaveFields
    <3>4. results' = [results EXCEPT ![q] = Append(results[q], c)]
          BY <3>1, <3>3
    <3>5. /\ q = r => results'[r] = Append(results[r], c)
          /\ q # r => results'[r] = results[r]
          BY <3>4 DEF InfrastructureTypeOK
    <3>6. results[r] \in Seq(Content)
          BY DEF InfrastructureTypeOK
    <3> QED
        BY <2>1, <3>3, <3>5, <3>6
  <2>2. CASE ~PublishResult(w)
    <3>1. UNCHANGED results
          BY <2>2 DEF WorkerStep, Handle, Poll, RejectInvalid, LoadJob, DeadLetterMissing,
             MarkProcessing, SaveSucceeded, PublishRetry, SaveRetrying, DeadLetterExhausted,
             SaveExhausted, Commit, CommitRefused, Restart, WorkerCrash, Shutdown, Evict,
             infrastructureVars
    <3> QED
        BY <2>2, <3>1
  <2> QED
      BY <2>1, <2>2
<1>9. ASSUME w \in fenced, step[w] = "moderate", EventOf(w).job = r,
             step'[w] \in Late, UNCHANGED <<held, fenced>>
      PROVE  /\ w \in Zombies(r) /\ Zombies(r)' \subseteq Zombies(r) \ {w}
  <2>1. EventOf(w) # Garbage
        BY <1>9, SentinelAssumption DEF HandlingOK, Busy, Handling
  <2>2. w \in Zombies(r)
        BY <1>9, <2>1 DEF Zombies, Early
  <2>3. w \notin Zombies(r)'
        BY <1>9 DEF Zombies, Early, Late
  <2>4. ~Evict(w)
        BY <1>9 DEF Evict
  <2> QED
      BY <1>4, <2>2, <2>3, <2>4
<1>10. ASSUME w \notin fenced, step[w] = "moderate", EventOf(w).job = r,
              step'[w] \in Late, UNCHANGED <<held, fenced>>
       PROVE  held[w] \in Unspent(r) /\ held[w] \notin Unspent(r)'
  <2>1. Spent(held[w])'
        BY <1>10 DEF Spent
  <2> QED
      BY <1>10, <2>1, DecidedIsUnspent DEF Unspent
<1>11. ASSUME PublishResult(w) \/ PublishRetry(w)
       PROVE  /\ step[w] = "moderate" /\ step'[w] \in Late /\ UNCHANGED <<held, fenced>>
              /\ ~WorkerCrash(w) /\ ~Evict(w)
  <2>1. /\ step[w] = "moderate" /\ UNCHANGED <<held, fenced, faults>>
        /\ step'[w] \in Late
        BY <1>11 DEF PublishResult, PublishRetry, Go, WorkerTypeOK, Late
  <2> QED
      BY <2>1 DEF WorkerCrash, Evict, Fault, InfrastructureTypeOK
<1>12. CASE Decide
  <2>1. ~Requeue
        BY <1>12 DEF PublishResult, PublishRetry, Go, WorkerTypeOK
  <2>2. Len(results[r])' = Len(results[r]) + 1 /\ T + g >= S + f
        BY <1>5, <1>8, <1>12
  <2>3. Zombies(r)' \subseteq Zombies(r) /\ Unspent(r)' \subseteq Unspent(r)
        BY <1>4, <1>7, <1>11, <1>12, <2>1
  <2>4. CASE w \in fenced
        BY <1>5, <1>9, <1>11, <1>12, <2>2, <2>3, <2>4 DEF Decided
  <2>5. CASE w \notin fenced
        BY <1>5, <1>10, <1>11, <1>12, <2>2, <2>3, <2>5 DEF Decided
  <2> QED
      BY <2>4, <2>5
<1>13. CASE Requeue
  <2>1. ~Decide
        BY <1>13 DEF PublishResult, PublishRetry, Go, WorkerTypeOK
  <2>2. Len(results[r])' = Len(results[r]) /\ T + g >= S + f
        BY <1>5, <1>8, <2>1
  <2>3. Zombies(r)' \subseteq Zombies(r) /\ Unspent(r)' \subseteq Unspent(r) \cup {retry}
        BY <1>4, <1>7, <1>11, <1>13
  <2>4. CASE w \in fenced
    <3>1. w \in Zombies(r) /\ Zombies(r)' \subseteq Zombies(r) \ {w}
          BY <1>9, <1>11, <1>13, <2>4
    <3>2. /\ \E y : Unspent(r)' \subseteq Unspent(r) \cup {y}
          /\ \E x \in Zombies(r) : Zombies(r)' \subseteq Zombies(r) \ {x}
          BY <2>3, <3>1
    <3>3. Cardinality(Submissions(r))' + faults' >= Cardinality(Submissions(r)) + faults
          BY <1>5, <2>2
    <3> QED
        BY <2>2, <3>2, <3>3 DEF Requeued
  <2>5. CASE w \notin fenced
    <3>1. held[w] \in Unspent(r) /\ Unspent(r)' \subseteq (Unspent(r) \ {held[w]}) \cup {retry}
          BY <1>10, <1>11, <1>13, <2>3, <2>5
    <3>2. /\ Zombies(r)' \subseteq Zombies(r)
          /\ \E x \in Unspent(r) : \E y : Unspent(r)' \subseteq (Unspent(r) \ {x}) \cup {y}
          BY <2>3, <3>1
    <3>3. Cardinality(Submissions(r))' + faults' >= Cardinality(Submissions(r)) + faults
          BY <1>5, <2>2
    <3> QED
        BY <2>2, <3>2, <3>3 DEF Requeued
  <2> QED
      BY <2>4, <2>5
<1>14. CASE ~Decide /\ ~Requeue /\ (WorkerCrash(w) \/ Evict(w))
  <2>1. g = f + 1
        BY <1>5, <1>14 DEF WorkerCrash, Evict, Fault
  <2>2. Len(results[r])' = Len(results[r]) /\ T + g >= S + f + 1
        BY <1>5, <1>8, <1>14, <2>1
  <2>3. CASE w \notin fenced /\ step[w] \in Late
    <3>1. Unspent(r)' \subseteq Unspent(r) \cup {held[w]}
          BY <1>7, <1>14
    <3>2. w \notin Zombies(r)'
      <4>1. step'[w] \notin Early
            BY <1>14, <2>3 DEF WorkerCrash, Evict, Release, Go, WorkerTypeOK, Early, Late
      <4> QED
          BY <4>1 DEF Zombies
    <3>3. Zombies(r)' \subseteq Zombies(r)
          BY <1>4, <3>2
    <3> QED
        BY <1>5, <2>2, <3>1, <3>3 DEF Charged
  <2>4. CASE ~(w \notin fenced /\ step[w] \in Late)
    <3>1. Unspent(r)' \subseteq Unspent(r)
          BY <1>7, <1>14, <2>4
    <3>2. Zombies(r)' \subseteq Zombies(r) \cup {w}
          BY <1>4
    <3> QED
        BY <1>5, <2>2, <3>1, <3>2 DEF Charged
  <2> QED
      BY <2>3, <2>4
<1>15. CASE ~Decide /\ ~Requeue /\ ~(WorkerCrash(w) \/ Evict(w))
  <2>1. Len(results[r])' = Len(results[r]) /\ T + g >= S + f
        BY <1>5, <1>8, <1>15
  <2>2. Zombies(r)' \subseteq Zombies(r) /\ Unspent(r)' \subseteq Unspent(r)
        BY <1>4, <1>7, <1>15
  <2> QED
      BY <1>5, <2>1, <2>2 DEF Costless
<1> QED
    BY <1>12, <1>13, <1>14, <1>15


(* A step of the API, an expiry or a foreign message decides nothing; what *)
(* it publishes about a job is a submission of it.                         *)
LEMMA OutsidersPay ==
    ASSUME IInv, InfrastructureTypeOK', NEW r \in RequestId, Grows,
           UNCHANGED workerVars, UNCHANGED <<committed, results>>, faults' >= faults,
           NEW tp \in TopicPartition, NEW m \in Event \cup {Garbage},
           UNCHANGED log \/ Publish(tp, m), m # Garbage => tp = InputOf(m.job)
    PROVE  Costless(r) \/ Charged(r)
<1> USE DEF IInv, TypeOK
<1>1. /\ step' = step /\ held' = held /\ fenced' = fenced
      BY DEF workerVars
<1>2. Zombies(r)' \subseteq Zombies(r)
  <2> SUFFICES ASSUME NEW v \in Zombies(r)'
               PROVE  v \in Zombies(r)
      OBVIOUS
  <2>1. v \in fenced /\ step[v] \in Early
        BY <1>1 DEF Zombies
  <2> QED
      BY <1>1, <2>1, ZombiesAreNotNew
<1>3. \A q \in TopicPartition : committed[q] <= committed'[q]
      BY DEF InfrastructureTypeOK
<1>4. ASSUME NEW p \in Unspent(r)'
      PROVE  \/ p \in Unspent(r)
             \/ /\ Publish(tp, m) /\ m # Garbage /\ m.job = r
                /\ p = [tp |-> tp, offset |-> Len(log[tp]) + 1]
  <2>1. Waits(p, r)' /\ ~Spent(p)
        BY <1>1, <1>4 DEF Unspent, Spent
  <2>2. \/ Waits(p, r)
        \/ /\ Publish(tp, m) /\ m # Garbage /\ m.job = r
           /\ p = [tp |-> tp, offset |-> Len(log[tp]) + 1]
        BY <1>3, <2>1, WaitingIsNotNew
  <2> QED
      BY <2>1, <2>2 DEF Unspent, Waits
<1>5. /\ Cardinality(Submissions(r)) \in Nat /\ Cardinality(Submissions(r))' \in Nat
      /\ faults \in Nat /\ faults' \in Nat
  <2>1. InfrastructureTypeOK' => AccountsOK'
        BY AccountsAreNumbers, PTL
  <2> QED
      BY <2>1, AccountsAreNumbers DEF AccountsOK, AccountNumbers
<1>6. Len(results[r])' = Len(results[r])
      OBVIOUS
<1>7. CASE UNCHANGED log /\ ~Publish(tp, m)
  <2>1. Submissions(r)' = Submissions(r)
        BY <1>7 DEF Submissions, InputOf
  <2>2. Cardinality(Submissions(r))' = Cardinality(Submissions(r))
        BY <2>1
  <2>3. Unspent(r)' \subseteq Unspent(r)
        BY <1>4, <1>7
  <2> QED
      BY <1>2, <1>5, <1>6, <2>2, <2>3 DEF Costless
<1>8. CASE Publish(tp, m) /\ ~(m # Garbage /\ m.job = r)
  <2>1. Cardinality(Submissions(r))' = Cardinality(Submissions(r))
        BY <1>8, SubmissionsGrow
  <2>2. Unspent(r)' \subseteq Unspent(r)
        BY <1>4, <1>8
  <2> QED
      BY <1>2, <1>5, <1>6, <2>1, <2>2 DEF Costless
<1>9. CASE Publish(tp, m) /\ m # Garbage /\ m.job = r
  <2>1. Cardinality(Submissions(r))' = Cardinality(Submissions(r)) + 1
        BY <1>9, SubmissionsGrow
  <2>2. \E y : Unspent(r)' \subseteq Unspent(r) \cup {y}
    <3>1. Unspent(r)' \subseteq Unspent(r) \cup {[tp |-> tp, offset |-> Len(log[tp]) + 1]}
          BY <1>4
    <3> QED
        BY <3>1
  <2> QED
      BY <1>2, <1>5, <1>6, <2>1, <2>2 DEF Charged
<1> QED
    BY <1>7, <1>8, <1>9

(* Every decision is paid for, inductively.                                *)
LEMMA StepPaysForDecisions ==
    ASSUME IInv, DecisionsPaid, [Next]_vars
    PROVE  DecisionsPaid'
<1> USE DEF IInv, TypeOK
<1>1. InfrastructureTypeOK'
      BY StepKeepsInvariant
<1>2. ASSUME NEW r \in RequestId, Costless(r) \/ Charged(r) \/ Decided(r) \/ Requeued(r)
      PROVE  DecisionPaid(r)'
      BY <1>1, <1>2, DecisionStaysPaid DEF DecisionsPaid
<1>3. UNCHANGED workerVars => FencedBusy'
      BY DEF DecisionsPaid, FencedBusy, Busy, workerVars
<1>4. ASSUME NEW tp \in TopicPartition, NEW m \in Event \cup {Garbage},
             Grows, UNCHANGED workerVars, UNCHANGED <<committed, results>>, faults' >= faults,
             UNCHANGED log \/ Publish(tp, m), m # Garbage => tp = InputOf(m.job)
      PROVE  DecisionsPaid'
  <2>1. \A r \in RequestId : DecisionPaid(r)'
        BY <1>1, <1>2, <1>4, OutsidersPay
  <2> QED
      BY <1>3, <1>4, <2>1 DEF DecisionsPaid
<1>5. ASSUME Grows, UNCHANGED workerVars, UNCHANGED <<committed, results, log>>, faults' >= faults
      PROVE  DecisionsPaid'
  <2>1. CASE TopicPartition = {}
    <3>1. RequestId = {}
          BY <2>1, JobsHavePartitions
    <3> QED
        BY <1>3, <1>5, <3>1 DEF DecisionsPaid
  <2>2. CASE TopicPartition # {}
    <3>1. PICK tp \in TopicPartition, m \in Event \cup {Garbage} : m = Garbage
          BY <2>2
    <3> QED
        BY <1>4, <1>5, <3>1
  <2> QED
      BY <2>1, <2>2
<1>6. faults \in Nat /\ faults' \in Nat
      BY <1>1 DEF InfrastructureTypeOK
<1>7. CASE ServiceNext /\ UNCHANGED workerVars
  <2>1. Grows /\ UNCHANGED committed
        BY <1>7, ServiceStepEffect
  <2>2. faults' >= faults /\ UNCHANGED results
    <3>1. (faults' = faults \/ faults' = faults + 1) /\ UNCHANGED results
          BY <1>7 DEF ServiceNext, ServiceStep, SubmitNew, SubmitExisting, CheckExisting,
             PublishInput, PublishInputFails, SaveAccepted, SavePublishFailed, AbandonCall,
             Fault, infrastructureVars
    <3> QED
        BY <1>6, <3>1
  <2>3. CASE UNCHANGED log
        BY <1>5, <1>7, <2>1, <2>2, <2>3
  <2>4. ASSUME NEW t \in Thread, PublishInput(t) \/ PublishInputFails(t), ~UNCHANGED log
        PROVE  DecisionsPaid'
    <3>1. /\ phase[t] \in {"publish", "republish"}
          /\ Publish(InputOf(request[t].job), InputEvent(request[t]))
          BY <2>4 DEF PublishInput, PublishInputFails
    <3>2. PICK q \in Request : q = request[t]
          BY <3>1 DEF CallsOK, Calling
    <3>3. /\ InputOf(q.job) \in TopicPartition /\ InputEvent(q) \in Event
          /\ InputEvent(q).job = q.job
          BY RequestsHaveFields, JobsHavePartitions DEF InputEvent
    <3>4. PICK tp \in TopicPartition, m \in Event \cup {Garbage} :
             tp = InputOf(q.job) /\ m = InputEvent(q) /\ m.job = q.job
          BY <3>3
    <3> QED
        BY <1>4, <1>7, <2>1, <2>2, <3>1, <3>2, <3>4
  <2> QED
      BY <1>7, <2>3, <2>4 DEF ServiceNext, ServiceStep, SubmitNew, SubmitExisting,
         CheckExisting, SaveAccepted, SavePublishFailed, AbandonCall, infrastructureVars
<1>8. CASE WorkerNext /\ UNCHANGED serviceVars
  <2>1. PICK w \in Worker : WorkerStep(w) \/ WorkerCrash(w) \/ Shutdown(w) \/ Evict(w)
        BY <1>8 DEF WorkerNext
  <2>2. \A r \in RequestId : DecisionPaid(r)'
        BY <1>1, <1>2, <2>1, WorkerPays DEF DecisionsPaid
  <2>3. FencedBusy'
    <3>1. /\ w \in fenced' => Busy(w)'
          /\ \A v \in Worker \ {w} : step'[v] = step[v] /\ (v \in fenced' <=> v \in fenced)
          /\ fenced' \subseteq Worker
          BY <2>1, WorkerTurns, WorkerStepEffect
          DEF DecisionsPaid, StepKeeps, OnlyItself, WorkerTypeOK
    <3> QED
        BY <3>1 DEF DecisionsPaid, FencedBusy, Busy
  <2> QED
      BY <2>2, <2>3 DEF DecisionsPaid
<1>9. ASSUME NEW r \in RequestId, Expire(r)
      PROVE  DecisionsPaid'
  <2>1. /\ faults' = faults + 1 /\ UNCHANGED <<log, committed, results, dlq>>
        /\ UNCHANGED workerVars
        BY <1>9 DEF Expire, Fault
  <2>2. Grows
        BY <2>1 DEF Grows, InfrastructureTypeOK
  <2> QED
      BY <1>5, <1>6, <2>1, <2>2
<1>10. ASSUME NEW tp \in TopicPartition, ForeignMessage(tp)
       PROVE  DecisionsPaid'
  <2>1. /\ Publish(tp, Garbage) /\ faults' = faults + 1
        /\ UNCHANGED <<committed, results, dlq>> /\ UNCHANGED workerVars
        BY <1>10 DEF ForeignMessage, Fault
  <2>2. PICK m \in Event \cup {Garbage} : m = Garbage
        OBVIOUS
  <2>3. Publish(tp, m)
        BY <2>1, <2>2
  <2>4. Grows
        BY <2>1, <2>3, PublishAppends DEF Grows
  <2> QED
      BY <1>4, <1>6, <2>1, <2>2, <2>3, <2>4
<1>11. CASE UNCHANGED vars
  <2>1. /\ UNCHANGED <<log, committed, results, dlq, faults>> /\ UNCHANGED workerVars
        BY <1>11 DEF vars, infrastructureVars
  <2>2. Grows
        BY <2>1 DEF Grows, InfrastructureTypeOK
  <2> QED
      BY <1>5, <1>6, <2>1, <2>2
<1> QED
    BY <1>7, <1>8, <1>9, <1>10, <1>11 DEF Next

(* Duplicates are the price of faults: a job is decided no more often than *)
(* it was submitted and faults happened, and submitted once and by every   *)
(* thread for each fault at most.                                          *)
THEOREM DuplicatesArePaid == Spec => []DuplicatesNeedFaults
<1>1. Init => DecisionsPaid
  <2> SUFFICES ASSUME Init
               PROVE  DecisionsPaid
      OBVIOUS
  <2>1. FencedBusy
        BY DEF Init, WorkerInit, FencedBusy
  <2>2. ASSUME NEW r \in RequestId
        PROVE  DecisionPaid(r)
    <3>1. IInv
          BY InitEstablishesInvariant
    <3>2. Zombies(r) = {}
          BY DEF Init, WorkerInit, Zombies
    <3>3. Unspent(r) = {}
          BY DEF Init, InfrastructureInit, Unspent, Waits, Position
    <3>4. results[r] = << >> /\ faults = 0
          BY DEF Init, InfrastructureInit
    <3>5. Cardinality(Submissions(r)) \in Nat
          BY <3>1, AccountsAreFinite DEF IInv, TypeOK
    <3>6. Len(results[r]) = 0
          BY <3>4
    <3> QED
        BY <3>2, <3>3, <3>4, <3>5, <3>6, FS_EmptySet DEF DecisionPaid
  <2> QED
      BY <2>1, <2>2 DEF DecisionsPaid
<1>2. IInv /\ DecisionsPaid /\ [Next]_vars => DecisionsPaid'
      BY StepPaysForDecisions
<1>3. IInv /\ DecisionsPaid /\ SubmissionsPaid => DuplicatesNeedFaults
  <2> SUFFICES ASSUME IInv, DecisionsPaid, SubmissionsPaid, NEW r \in RequestId
               PROVE  /\ Len(results[r]) <= Cardinality(Submissions(r)) + faults
                      /\ Cardinality(Submissions(r)) <= 1 + faults * Cardinality(Thread)
      BY DEF DuplicatesNeedFaults
  <2>1. /\ Cardinality(Submissions(r)) \in Nat /\ Cardinality(Publishing(r)) \in Nat
        /\ Cardinality(Failing(r)) \in Nat /\ Cardinality(Eligible(r)) \in Nat
        /\ Cardinality(Thread) \in Nat /\ Absent(r) \in Nat /\ faults \in Nat
        BY AccountsAreFinite DEF IInv, TypeOK
  <2>2. Len(results[r]) \in Nat
        BY DEF IInv, TypeOK, InfrastructureTypeOK
  <2>3. Cardinality(Unspent(r)) \in Nat /\ Cardinality(Zombies(r)) \in Nat
        BY FS_CardinalityType DEF DecisionsPaid, DecisionPaid
  <2>4. Len(results[r]) <= Cardinality(Submissions(r)) + faults
        BY <2>1, <2>2, <2>3 DEF DecisionsPaid, DecisionPaid
  <2>5. PICK n \in Nat, s \in Nat, k \in Nat, f \in Nat, c \in Nat :
           /\ n = Cardinality(Thread) /\ s = Cardinality(Submissions(r))
           /\ k = Cardinality(Failing(r)) /\ f = faults /\ c = Afforded(r)
        BY <2>1 DEF Afforded
  <2>6. s <= c
        BY <2>1, <2>5 DEF Afforded
  <2>7. c + n * k <= 1 + f * n
        BY <2>5 DEF SubmissionsPaid
  <2>8. s <= 1 + f * n
    <3>1. n * k \in Nat /\ f * n \in Nat
          OBVIOUS
    <3> QED
        BY <2>6, <2>7, <3>1
  <2> QED
      BY <2>4, <2>5, <2>8
<1> QED
    BY <1>1, <1>2, <1>3, Invariance, SubmissionsArePaid, PTL DEF Spec
=============================================================================
