----------------------------- MODULE JobService -----------------------------
(***************************************************************************)
(* DistributedModerationService.submit, run by the threads that            *)
(* asyncio.to_thread takes from its pool: every call to Redis or Kafka is  *)
(* a step, and a thread keeps the job it read or built (tjob) from one     *)
(* step to the next.                                                       *)
(***************************************************************************)
EXTENDS JobInfrastructure, FiniteSets

CONSTANTS Thread, NoRequest

Request == [job : RequestId, content : Content]

ASSUME RequestAssumption == NoRequest \notin Request

\* The pool that asyncio.to_thread takes its threads from has some, but not
\* any number of them.
ASSUME ThreadAssumption == IsFiniteSet(Thread) /\ Thread # {}

Phase == {"idle",       \* no call
          "check",      \* SET NX found a job: read it and compare
          "publish",    \* a new job: send its input event
          "republish",  \* a job whose publication failed: send the event again
          "accept",     \* the event went out again: save the job as accepted
          "fail"}       \* the publication failed: save that

VARIABLES phase,    \* what each thread does next
          request,  \* the request it serves
          tjob,     \* the stored job it holds
          acked     \* requests answered with 202

serviceVars == <<phase, request, tjob, acked>>

ServiceTypeOK ==
    /\ phase \in [Thread -> Phase]
    /\ request \in [Thread -> Request \cup {NoRequest}]
    /\ tjob \in [Thread -> StoredJob \cup {NoJob}]
    /\ acked \subseteq Request

ServiceInit ==
    /\ phase = [t \in Thread |-> "idle"]
    /\ request = [t \in Thread |-> NoRequest]
    /\ tjob = [t \in Thread |-> NoJob]
    /\ acked = {}

InputEvent(q) == [job |-> q.job, content |-> q.content, attempt |-> 0]

Enter(t, p, q, job) ==
    /\ phase' = [phase EXCEPT ![t] = p]
    /\ request' = [request EXCEPT ![t] = q]
    /\ tjob' = [tjob EXCEPT ![t] = job]

\* The call ends: with the job (202), or with 409, 503 or 500.
Answer202(t) == Enter(t, "idle", NoRequest, NoJob) /\ acked' = acked \cup {request[t]}
Refuse(t)    == Enter(t, "idle", NoRequest, NoJob) /\ UNCHANGED acked

(* Mutant: SET without NX. *)
SubmitOverwriting(t, q) ==
    LET job == [state |-> "accepted", attempt |-> 0, result |-> NoResult,
                error |-> NoError, fingerprint |-> q.content]
    IN  /\ phase[t] = "idle"
        /\ jobs' = [jobs EXCEPT ![q.job] = job]
        /\ Enter(t, "publish", q, job)
        /\ UNCHANGED <<log, committed, results, dlq, faults, acked>>

(* SET NX stores a new job. *)
SubmitNew(t, q) ==
    LET job == [state |-> "accepted", attempt |-> 0, result |-> NoResult,
                error |-> NoError, fingerprint |-> q.content]
    IN  /\ phase[t] = "idle"
        /\ jobs[q.job] = NoJob
        /\ jobs' = [jobs EXCEPT ![q.job] = job]
        /\ Enter(t, "publish", q, job)
        /\ UNCHANGED <<log, committed, results, dlq, faults, acked>>

(* SET NX finds the id taken. *)
SubmitExisting(t, q) ==
    /\ phase[t] = "idle"
    /\ jobs[q.job] # NoJob
    /\ Enter(t, "check", q, NoJob)
    /\ UNCHANGED <<infrastructureVars, acked>>

(* Mutant: the fingerprints are not compared. *)
CheckExistingById(t) ==
    LET existing == jobs[request[t].job]
    IN  /\ phase[t] = "check"
        /\ existing # NoJob
        /\ IF existing.state = "failed" /\ existing.error = "queue_publish_failed"
           THEN Enter(t, "republish", request[t], existing) /\ UNCHANGED acked
           ELSE Answer202(t)
        /\ UNCHANGED infrastructureVars

(* The job is read in a second call, when it may be gone or changed. *)
CheckExisting(t) ==
    LET q == request[t]
        existing == jobs[q.job]
    IN  /\ phase[t] = "check"
        /\ \/ existing = NoJob /\ Refuse(t)
           \/ /\ existing # NoJob
              /\ existing.fingerprint # q.content
              /\ Refuse(t)
           \/ /\ existing # NoJob
              /\ existing.fingerprint = q.content
              /\ IF existing.state = "failed" /\ existing.error = "queue_publish_failed"
                 THEN Enter(t, "republish", q, existing) /\ UNCHANGED acked
                 ELSE Answer202(t)
        /\ UNCHANGED infrastructureVars

(* The broker acknowledges the input event. *)
PublishInput(t) ==
    /\ phase[t] \in {"publish", "republish"}
    /\ Publish(InputOf(request[t].job), InputEvent(request[t]))
    /\ IF phase[t] = "publish"
       THEN Answer202(t)
       ELSE Enter(t, "accept", request[t], tjob[t]) /\ UNCHANGED acked
    /\ UNCHANGED <<jobs, committed, results, dlq, faults>>

(***************************************************************************)
(* publish raises: the broker refused the event, or flush ran into its     *)
(* timeout while the event, or another thread's event on the same          *)
(* producer, was still outstanding, and the event is in the topic all the  *)
(* same.                                                                   *)
(***************************************************************************)
PublishInputFails(t) ==
    /\ phase[t] \in {"publish", "republish"}
    /\ Fault("publish_failure")
    /\ \/ UNCHANGED log
       \/ Publish(InputOf(request[t].job), InputEvent(request[t]))
    /\ Enter(t, "fail", request[t], tjob[t])
    /\ UNCHANGED <<jobs, committed, results, dlq, acked>>

(* The job read before the publication is saved after it. *)
SaveAccepted(t) ==
    /\ phase[t] = "accept"
    /\ Save(request[t].job, [tjob[t] EXCEPT !.state = "accepted", !.error = NoError])
    /\ Answer202(t)
    /\ UNCHANGED <<log, committed, results, dlq, faults>>

SavePublishFailed(t) ==
    /\ phase[t] = "fail"
    /\ Save(request[t].job, [tjob[t] EXCEPT !.state = "failed",
                                            !.error = "queue_publish_failed"])
    /\ Refuse(t)
    /\ UNCHANGED <<log, committed, results, dlq, faults>>

(* The API process dies or a Redis call raises: the client sees no answer. *)
AbandonCall(t) ==
    /\ phase[t] # "idle"
    /\ Fault("api_failure")
    /\ Refuse(t)
    /\ UNCHANGED <<jobs, log, committed, results, dlq>>

\* A call that has begun goes on without the client.
ServiceStep(t) == \/ CheckExisting(t)
                  \/ PublishInput(t)
                  \/ PublishInputFails(t)
                  \/ SaveAccepted(t)
                  \/ SavePublishFailed(t)

ServiceNext == \E t \in Thread : \/ \E q \in Request : SubmitNew(t, q) \/ SubmitExisting(t, q)
                                 \/ ServiceStep(t)
                                 \/ AbandonCall(t)
=============================================================================
