--------------------------- MODULE ReviewWorkflow ---------------------------
(***************************************************************************)
(* ReviewService over the ledger.  Its lock makes each operation atomic    *)
(* but for the failure of its commit.  Roles come from the authorization   *)
(* file and the policy version from the release: both may change when the  *)
(* API is started again.                                                   *)
(***************************************************************************)
EXTENDS ReviewLedger

VARIABLES roles,   \* the role of each reviewer
          policy   \* the policy version of this process

vars == <<ledgerVars, roles, policy>>

Init == LedgerInit /\ roles \in [Reviewer -> Role] /\ policy \in Version

ReviewRoles == {"reviewer", "senior_reviewer"}

\* Mutant: sequences start at zero.
NewEventFromZero(id, action, actor, from, to) ==
    LET before == events[id]
    IN  [hash |-> minted + 1,
         previous |-> IF before = << >> THEN 0 ELSE before[Len(before)].hash,
         sequence |-> Len(before),
         action |-> action, actor |-> actor,
         role |-> IF actor = Nobody THEN Nobody ELSE roles[actor],
         from |-> from, to |-> to]

NewEvent(id, action, actor, from, to) ==
    LET before == events[id]
    IN  [hash |-> minted + 1,
         previous |-> IF before = << >> THEN 0 ELSE before[Len(before)].hash,
         sequence |-> Len(before) + 1,
         action |-> action, actor |-> actor,
         role |-> IF actor = Nobody THEN Nobody ELSE roles[actor],
         from |-> from, to |-> to]

Transition(id, case, action, actor, from) ==
    /\ Commit([id |-> id, case |-> case, event |-> NewEvent(id, action, actor, from, case.state)])
    /\ UNCHANGED <<roles, policy>>

\* Mutant: the case of this policy version is looked up.
CaseOfVersion(request) == {<<request, policy>>} \cap {id \in CaseId : cases[id] # NoCase}

\* find_by_request_id: whatever policy version the case was made under.
CaseOf(request) == {id \in CaseId : id[1] = request /\ cases[id] # NoCase}

(* A response that needs review makes a case, once per request. *)
Enqueue(request) ==
    /\ mode = "up"
    /\ CaseOf(request) = {}
    /\ Transition(<<request, policy>>,
                  [state |-> "pending", assigned |-> Nobody, decision |-> Undecided],
                  "created", Nobody, Nobody)

\* The case is there and the principal may review.
Reviews(p, id) == mode = "up" /\ roles[p] \in ReviewRoles /\ cases[id] # NoCase

(* Mutant: the case is assigned to the role of the principal. *)
ClaimByRole(p, id) ==
    /\ Reviews(p, id)
    /\ cases[id].state \in {"pending", "appealed"}
    /\ Transition(id, [cases[id] EXCEPT !.state = "claimed", !.assigned = roles[p]],
                  "claimed", p, cases[id].state)

Claim(p, id) ==
    /\ Reviews(p, id)
    /\ cases[id].state = "appealed" => roles[p] = "senior_reviewer"
    /\ cases[id].state \in {"pending", "appealed"}
    /\ Transition(id, [cases[id] EXCEPT !.state = "claimed", !.assigned = p],
                  "claimed", p, cases[id].state)

WasAppealed(id) == \E i \in 1..Len(events[id]) : events[id][i].action = "appealed"

(* Mutant: the claim of the appeal is taken to have checked the role. *)
DecideByClaim(p, id, decision) ==
    /\ Reviews(p, id)
    /\ cases[id].state = "claimed"
    /\ cases[id].assigned = p
    /\ Transition(id, [cases[id] EXCEPT !.state = "resolved", !.decision = decision],
                  IF WasAppealed(id) THEN "appeal_decided" ELSE "decided", p, "claimed")

(* Mutant: anyone who may review decides. *)
DecideUnassigned(p, id, decision) ==
    /\ Reviews(p, id)
    /\ cases[id].state = "claimed"
    /\ WasAppealed(id) => roles[p] = "senior_reviewer"
    /\ Transition(id, [cases[id] EXCEPT !.state = "resolved", !.decision = decision],
                  IF WasAppealed(id) THEN "appeal_decided" ELSE "decided", p, "claimed")

Decide(p, id, decision) ==
    /\ Reviews(p, id)
    /\ cases[id].state = "claimed"
    /\ cases[id].assigned = p
    /\ WasAppealed(id) => roles[p] = "senior_reviewer"
    /\ Transition(id, [cases[id] EXCEPT !.state = "resolved", !.decision = decision],
                  IF WasAppealed(id) THEN "appeal_decided" ELSE "decided", p, "claimed")

Appeal(p, id) ==
    /\ Reviews(p, id)
    /\ cases[id].state = "resolved"
    /\ Transition(id, [cases[id] EXCEPT !.state = "appealed", !.assigned = Nobody],
                  "appealed", p, "resolved")

(* The API comes up again, with the roles and the policy of its release. *)
StartRelease == /\ Restart
                /\ roles' \in [Reviewer -> Role]
                /\ policy' \in Version

Next == \/ \E request \in Request : Enqueue(request)
        \/ \E p \in Reviewer, id \in CaseId :
              \/ Claim(p, id)
              \/ \E decision \in Verdict : Decide(p, id, decision)
              \/ Appeal(p, id)
        \/ Stop /\ UNCHANGED <<roles, policy>>
        \/ StartRelease

Spec == Init /\ [][Next]_vars
-----------------------------------------------------------------------------
\* Every variable holds values of its type.
TypeOK == LedgerTypeOK /\ roles \in [Reviewer -> Role] /\ policy \in Version

\* The record of line n, if it can be read.
Readable == {n \in 1..Len(file) : file[n].text # Garbled}

(* What the API shows is what a replay of its own ledger would show: until *)
(* an append fails, a restart restores cases and audit trails exactly.     *)
ProjectionIsReplayable ==
    mode = "up" /\ ~damaged => Replays /\ cases = ReplayedCases /\ events = ReplayedEvents

(* Processes that end between or around whole appends never leave a ledger *)
(* that the next startup refuses.                                          *)
StartupSucceeds == ~damaged => mode # "refused"

Recorded(r) == \E n \in Readable : file[n].text = r

(* While every append succeeds, a transition answered with success is a    *)
(* record of the ledger for good, whatever restarts follow.                *)
NothingAcknowledgedIsLost == ~damaged => \A r \in acked : Recorded(r)

(* Every state transition appends a record (the document's sentence).      *)
EveryTransitionIsRecorded == \A r \in acked : Recorded(r)

(* The audit trail of a case is one unbroken path that ends in its state.  *)
AuditTrailIsPath ==
    \A id \in CaseId : mode = "up" /\ cases[id] # NoCase =>
        LET trail == events[id]
        IN  /\ trail # << >> /\ trail[Len(trail)].to = cases[id].state
            /\ \A i \in 1..Len(trail) :
                  /\ trail[i].sequence = i
                  /\ trail[i].from = IF i = 1 THEN Nobody ELSE trail[i - 1].to

(* Once a case has been appealed only people who were senior reviewers at  *)
(* the time claimed and decided it, whatever roles changed in between.     *)
SeniorsHandleAppeals ==
    \A id \in CaseId : \A i, j \in 1..Len(events[id]) :
        /\ i < j
        /\ events[id][i].action = "appealed"
        /\ events[id][j].action \in {"claimed", "appeal_decided", "decided"}
        => events[id][j].role = "senior_reviewer"

(* A decision is taken by the person whose claim directly precedes it: two *)
(* reviewers never decide one claim.                                       *)
ClaimantDecides ==
    \A id \in CaseId : \A i \in 1..Len(events[id]) :
        events[id][i].action \in {"decided", "appeal_decided"} =>
            /\ i > 1
            /\ events[id][i - 1].action = "claimed"
            /\ events[id][i - 1].actor = events[id][i].actor

(* A request has one case, also when releases with other policies saw it.  *)
OneCasePerRequest ==
    \A a, b \in CaseId : cases[a] # NoCase /\ cases[b] # NoCase /\ a[1] = b[1] => a = b
=============================================================================
