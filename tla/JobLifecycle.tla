---------------------------- MODULE JobLifecycle ----------------------------
(***************************************************************************)
(* What a client polling GET /v1/moderation/jobs/{id} is promised about    *)
(* the state of a job, whatever the workers do behind it.                  *)
(***************************************************************************)
CONSTANT RequestId

VARIABLE status  \* the state polled, "absent" for a 404

Init == status = [r \in RequestId |-> "absent"]

Move(r, from, to) == status[r] \in from /\ status' = [status EXCEPT ![r] = to]

Accept(r)     == Move(r, {"absent"}, "accepted")
\* A redelivered event starts a job again, even one that had failed.
Start(r)      == Move(r, {"accepted", "processing", "failed"}, "processing")
Succeed(r)    == Move(r, {"processing"}, "succeeded")
Reschedule(r) == Move(r, {"processing"}, "accepted")
GiveUp(r)     == Move(r, {"processing"}, "failed")
Expire(r)     == Move(r, {"succeeded", "failed"}, "absent")

Next == \E r \in RequestId : \/ Accept(r) \/ Start(r) \/ Succeed(r)
                             \/ Reschedule(r) \/ GiveUp(r) \/ Expire(r)

\* Polling ends: a job does not stay accepted or processing for ever.
PollingEnds == \A r \in RequestId :
    status[r] \in {"accepted", "processing"} ~> status[r] \in {"succeeded", "failed"}

vars == <<status>>

\* What a client may see from one poll to the next, whether or not it ends.
SafeSpec == Init /\ [][Next]_vars

Spec == SafeSpec /\ PollingEnds
=============================================================================
