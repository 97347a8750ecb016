------------------------------ MODULE JobWorker ------------------------------
(***************************************************************************)
(* The worker group: sentinel.worker.run polls a message, hands it to      *)
(* ModerationEventProcessor.process and commits its offset.  Every call to *)
(* Redis or Kafka is a step; engine.moderate, which touches none of them,  *)
(* is part of the publication its outcome leads to.  An exception that     *)
(* leaves the loop ends the process.                                       *)
(***************************************************************************)
EXTENDS JobInfrastructure

CONSTANTS Worker, NoMessage

Position == [tp : TopicPartition, offset : Nat]

ASSUME MessageAssumption == NoMessage \notin Position

Step == {"idle", "down",
         "reject",        \* the message is not an event: dead-letter it
         "load",          \* read the job
         "missing",       \* there is no job: dead-letter the event
         "mark",          \* save the job as processing
         "moderate",      \* run the engine and publish what follows
         "saveSucceeded", "saveRetrying", "saveExhausted",
         "commit"}

VARIABLES step,    \* what each worker does next
          held,    \* the position of the message it handles
          wjob,    \* the stored job it holds ("processing" in process)
          fenced   \* busy workers the group has evicted meanwhile

workerVars == <<step, held, wjob, fenced>>

WorkerTypeOK ==
    /\ step \in [Worker -> Step]
    /\ held \in [Worker -> Position \cup {NoMessage}]
    /\ wjob \in [Worker -> StoredJob \cup {NoJob}]
    /\ fenced \subseteq Worker

WorkerInit ==
    /\ step = [w \in Worker |-> "idle"]
    /\ held = [w \in Worker |-> NoMessage]
    /\ wjob = [w \in Worker |-> NoJob]
    /\ fenced = {}

Busy(w) == step[w] \notin {"idle", "down"}
MessageAt(p) == log[p.tp][p.offset]
EventOf(w) == MessageAt(held[w])

Go(w, s) == step' = [step EXCEPT ![w] = s]
Release(w, s) == /\ Go(w, s)
                 /\ held' = [held EXCEPT ![w] = NoMessage]
                 /\ wjob' = [wjob EXCEPT ![w] = NoJob]
                 /\ fenced' = fenced \ {w}
\* The job leaves the worker's hands: only the commit is left.
Finish(w) == /\ Go(w, "commit")
             /\ wjob' = [wjob EXCEPT ![w] = NoJob]
             /\ UNCHANGED <<held, fenced>>

(***************************************************************************)
(* The next message after the committed offset.  The group gives a         *)
(* partition to one member at a time, so no other member that still        *)
(* belongs to the group is busy with it.                                   *)
(***************************************************************************)
Poll(w, tp) ==
    LET position == [tp |-> tp, offset |-> committed[tp] + 1]
    IN  /\ step[w] = "idle"
        /\ \A v \in Worker \ fenced : Busy(v) => held[v].tp # tp
        /\ committed[tp] < Len(log[tp])
        /\ held' = [held EXCEPT ![w] = position]
        /\ Go(w, IF MessageAt(position) = Garbage THEN "reject" ELSE "load")
        /\ UNCHANGED <<infrastructureVars, wjob, fenced>>

(* Mutant: a message that fails the schema ends the process. *)
RejectByRaising(w) ==
    /\ step[w] = "reject"
    /\ Release(w, "down")
    /\ UNCHANGED infrastructureVars

(* A message that fails the schema is dead-lettered by its position. *)
RejectInvalid(w) ==
    /\ step[w] = "reject"
    /\ dlq' = dlq \cup {[source |-> held[w].tp, offset |-> held[w].offset,
                         error |-> "invalid_event_schema"]}
    /\ Finish(w)
    /\ UNCHANGED <<jobs, log, committed, results, faults>>

(* Mutant: an event without a job is skipped, a decided job decided again. *)
LoadIgnoringMissing(w) ==
    /\ step[w] = "load"
    /\ \/ jobs[EventOf(w).job] = NoJob /\ Finish(w)
       \/ /\ jobs[EventOf(w).job] # NoJob
          /\ wjob' = [wjob EXCEPT ![w] = [jobs[EventOf(w).job] EXCEPT !.state = "processing"]]
          /\ Go(w, "mark")
          /\ UNCHANGED <<held, fenced>>
    /\ UNCHANGED infrastructureVars

(* process: no job, a job already decided, or a job to work on. *)
LoadJob(w) ==
    LET event == EventOf(w)
        stored == jobs[event.job]
    IN  /\ step[w] = "load"
        /\ \/ stored = NoJob /\ Go(w, "missing") /\ UNCHANGED <<held, wjob, fenced>>
           \/ stored # NoJob /\ stored.state = "succeeded" /\ Finish(w)
           \/ /\ stored # NoJob
              /\ stored.state # "succeeded"
              /\ wjob' = [wjob EXCEPT ![w] =
                            [stored EXCEPT !.state = "processing",
                                           !.attempt = event.attempt,
                                           !.error = NoError]]
              /\ Go(w, "mark")
              /\ UNCHANGED <<held, fenced>>
        /\ UNCHANGED infrastructureVars

DeadLetterMissing(w) ==
    /\ step[w] = "missing"
    /\ dlq' = dlq \cup {[job |-> EventOf(w).job, attempt |-> EventOf(w).attempt,
                         error |-> "missing_job_state"]}
    /\ Finish(w)
    /\ UNCHANGED <<jobs, log, committed, results, faults>>

(* Mutant: the offset is committed before the work is done. *)
MarkAndCommit(w) ==
    /\ step[w] = "mark"
    /\ Save(EventOf(w).job, wjob[w])
    /\ committed' = [committed EXCEPT ![held[w].tp] = held[w].offset]
    /\ Go(w, "moderate")
    /\ UNCHANGED <<log, results, dlq, faults, held, wjob, fenced>>

MarkProcessing(w) ==
    /\ step[w] = "mark"
    /\ Save(EventOf(w).job, wjob[w])
    /\ Go(w, "moderate")
    /\ UNCHANGED <<log, committed, results, dlq, faults, held, wjob, fenced>>

(* Mutant: the result is saved but not published. *)
SkipPublishingResult(w) ==
    /\ step[w] = "moderate"
    /\ Go(w, "saveSucceeded")
    /\ UNCHANGED <<infrastructureVars, held, wjob, fenced>>

(* engine.moderate returned: publish the result, then save it. *)
PublishResult(w) ==
    /\ step[w] = "moderate"
    /\ results' = [results EXCEPT ![EventOf(w).job] = Append(@, EventOf(w).content)]
    /\ Go(w, "saveSucceeded")
    /\ UNCHANGED <<jobs, log, committed, dlq, faults, held, wjob, fenced>>

SaveSucceeded(w) ==
    /\ step[w] = "saveSucceeded"
    /\ Save(EventOf(w).job, [wjob[w] EXCEPT !.state = "succeeded", !.error = NoError,
                                            !.attempt = EventOf(w).attempt,
                                            !.result = EventOf(w).content])
    /\ Finish(w)
    /\ UNCHANGED <<log, committed, results, dlq, faults>>

(* Mutant: the retry is recorded but no event published. *)
SkipPublishingRetry(w) ==
    /\ step[w] = "moderate"
    /\ EventOf(w).attempt + 1 < MaxAttempts
    /\ Go(w, "saveRetrying")
    /\ UNCHANGED <<infrastructureVars, held, wjob, fenced>>

(* engine.moderate raised with attempts left: publish the next attempt. *)
PublishRetry(w) ==
    /\ step[w] = "moderate"
    /\ EventOf(w).attempt + 1 < MaxAttempts
    /\ Publish(RetryOf(EventOf(w).job), NextAttempt(EventOf(w)))
    /\ Go(w, "saveRetrying")
    /\ UNCHANGED <<jobs, committed, results, dlq, faults, held, wjob, fenced>>

(* Mutant: the retry is scheduled and the attempts given up all the same. *)
RetryAndGiveUp(w) ==
    /\ step[w] = "saveRetrying"
    /\ Save(EventOf(w).job, [wjob[w] EXCEPT !.state = "accepted",
                                            !.attempt = EventOf(w).attempt + 1,
                                            !.error = "processing_retry_scheduled"])
    /\ dlq' = dlq \cup {[job |-> EventOf(w).job, attempt |-> EventOf(w).attempt,
                         error |-> "processing_attempts_exhausted"]}
    /\ Go(w, "saveExhausted")
    /\ UNCHANGED <<log, committed, results, faults, held, wjob, fenced>>

SaveRetrying(w) ==
    /\ step[w] = "saveRetrying"
    /\ Save(EventOf(w).job, [wjob[w] EXCEPT !.state = "accepted",
                                            !.attempt = EventOf(w).attempt + 1,
                                            !.error = "processing_retry_scheduled"])
    /\ Finish(w)
    /\ UNCHANGED <<log, committed, results, dlq, faults>>

(* engine.moderate raised on the last attempt: dead-letter the event. *)
DeadLetterExhausted(w) ==
    /\ step[w] = "moderate"
    /\ EventOf(w).attempt + 1 >= MaxAttempts
    /\ dlq' = dlq \cup {[job |-> EventOf(w).job, attempt |-> EventOf(w).attempt,
                         error |-> "processing_attempts_exhausted"]}
    /\ Go(w, "saveExhausted")
    /\ UNCHANGED <<jobs, log, committed, results, faults, held, wjob, fenced>>

SaveExhausted(w) ==
    /\ step[w] = "saveExhausted"
    /\ Save(EventOf(w).job, [wjob[w] EXCEPT !.state = "failed",
                                            !.attempt = EventOf(w).attempt,
                                            !.error = "processing_attempts_exhausted"])
    /\ Finish(w)
    /\ UNCHANGED <<log, committed, results, dlq, faults>>

(* Mutant: an evicted member commits all the same. *)
CommitUnfenced(w) ==
    /\ step[w] = "commit"
    /\ committed' = [committed EXCEPT ![held[w].tp] = held[w].offset]
    /\ Release(w, "idle")
    /\ UNCHANGED <<jobs, log, results, dlq, faults>>

(* The synchronous commit of the message's offset... *)
Commit(w) ==
    /\ step[w] = "commit"
    /\ w \notin fenced
    /\ committed' = [committed EXCEPT ![held[w].tp] = held[w].offset]
    /\ Release(w, "idle")
    /\ UNCHANGED <<jobs, log, results, dlq, faults>>

(* ...which the group refuses to a member it evicted: run raises. *)
CommitRefused(w) ==
    /\ step[w] = "commit"
    /\ w \in fenced
    /\ Release(w, "down")
    /\ UNCHANGED infrastructureVars

(***************************************************************************)
(* The process dies, or a Kafka or Redis call raises and run ends.  A call *)
(* that raises after taking effect is the crash after its step.            *)
(***************************************************************************)
WorkerCrash(w) ==
    /\ step[w] # "down"
    /\ Fault("worker_crash")
    /\ Release(w, "down")
    /\ UNCHANGED <<jobs, log, committed, results, dlq>>

(* SIGTERM: the loop ends once the message in hand is committed. *)
Shutdown(w) ==
    /\ step[w] = "idle"
    /\ Fault("shutdown")
    /\ Release(w, "down")
    /\ UNCHANGED <<jobs, log, committed, results, dlq>>

Restart(w) ==
    /\ step[w] = "down"
    /\ Release(w, "idle")
    /\ UNCHANGED infrastructureVars

(* A worker is busy for too long and the group gives its partitions away. *)
Evict(w) ==
    /\ Busy(w)
    /\ w \notin fenced
    /\ Fault("eviction")
    /\ fenced' = fenced \cup {w}
    /\ UNCHANGED <<jobs, log, committed, results, dlq, step, held, wjob>>

\* What a live worker does with the message it handles.
Handle(w) == \/ RejectInvalid(w)  \/ LoadJob(w)      \/ DeadLetterMissing(w)
             \/ MarkProcessing(w) \/ PublishResult(w) \/ SaveSucceeded(w)
             \/ PublishRetry(w)   \/ SaveRetrying(w)
             \/ DeadLetterExhausted(w) \/ SaveExhausted(w)
             \/ Commit(w) \/ CommitRefused(w)

WorkerStep(w) == (\E tp \in TopicPartition : Poll(w, tp)) \/ Handle(w) \/ Restart(w)

WorkerNext == \E w \in Worker : \/ WorkerStep(w)
                                \/ WorkerCrash(w) \/ Shutdown(w) \/ Evict(w)
=============================================================================
