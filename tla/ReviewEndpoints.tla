--------------------------- MODULE ReviewEndpoints ---------------------------
(***************************************************************************)
(* The review endpoints of the API over ReviewWorkflow: what they publish  *)
(* to the backlog gauge, and the feedback they export.  A call that is     *)
(* refused (401, 403, 404, 409, 503) changes nothing.                      *)
(***************************************************************************)
EXTENDS ReviewWorkflow

CONSTANT Unset

VARIABLES gauge,    \* sentinel_review_backlog: unset, or a count for each state
          feedback  \* the records of the export that was just answered

apiVars == <<vars, gauge, feedback>>

ApiInit == Init /\ gauge = Unset /\ feedback = {}

Backlog == [s \in ReviewState |-> Cardinality({id \in CaseId : cases[id] # NoCase /\ cases[id].state = s})]

\* Mutant: the gauge is only refreshed while it has never been set.
RefreshOnce == gauge' = IF mode' # "up" THEN Unset
                        ELSE IF acked' # acked /\ gauge = Unset THEN Backlog' ELSE gauge

\* Only a call that got its commit through refreshes; a new process has no gauge.
Refresh == gauge' = IF mode' # "up" THEN Unset ELSE IF acked' # acked THEN Backlog' ELSE gauge

EnqueueResponse(request) == Enqueue(request) /\ Refresh /\ feedback' = {}
\* A response whose request has its case already refreshes the gauge as well.
EnqueueAgain(request) == /\ mode = "up" /\ CaseOf(request) # {}
                         /\ gauge' = Backlog /\ feedback' = {} /\ UNCHANGED vars
ClaimCase(p, id) == Claim(p, id) /\ Refresh /\ feedback' = {}
DecideCase(p, id) == (\E decision \in Verdict : Decide(p, id, decision)) /\ Refresh /\ feedback' = {}
AppealCase(p, id) == Appeal(p, id) /\ Refresh /\ feedback' = {}

ListCases == mode = "up" /\ gauge' = Backlog /\ feedback' = {} /\ UNCHANGED vars

\* Mutant: every case that was ever decided is exported.
FeedbackOfDecided == {[id |-> id, label |-> cases[id].decision, appealed |-> WasAppealed(id)] :
                         id \in {c \in CaseId : cases[c] # NoCase /\ cases[c].decision # Undecided}}

Feedback == {[id |-> id, label |-> cases[id].decision, appealed |-> WasAppealed(id)] :
                id \in {c \in CaseId : /\ cases[c] # NoCase /\ cases[c].state = "resolved"
                                       /\ cases[c].decision # Undecided}}

ExportFeedback(p) == /\ mode = "up"
                     /\ roles[p] = "auditor"
                     /\ feedback' = Feedback
                     /\ UNCHANGED <<vars, gauge>>

EndProcess == (Stop /\ UNCHANGED <<roles, policy>>) /\ Refresh /\ feedback' = {}
StartProcess == StartRelease /\ gauge' = Unset /\ feedback' = {}

ApiNext == \/ \E request \in Request : EnqueueResponse(request) \/ EnqueueAgain(request)
           \/ \E p \in Reviewer, id \in CaseId :
                 ClaimCase(p, id) \/ DecideCase(p, id) \/ AppealCase(p, id)
           \/ ListCases
           \/ \E p \in Reviewer : ExportFeedback(p)
           \/ EndProcess
           \/ StartProcess

ApiSpec == ApiInit /\ [][ApiNext]_apiVars
-----------------------------------------------------------------------------
(* A gauge that shows anything shows the cases as they are, whichever of   *)
(* the calls changed them and whichever commit failed; it shows nothing    *)
(* after a restart until the next call (api/reviews.py, _refresh_backlog;  *)
(* api/routes.py).                                                         *)
GaugeIsCurrent == mode = "up" /\ gauge # Unset => gauge = Backlog

(* A label that is exported is the last word on its case: the decision in  *)
(* the last record the ledger has of it, not one that is under appeal, and *)
(* marked appealed whenever it was (review/service.py, export_feedback).   *)
ExportIsTheLastWord ==
    ~damaged => \A r \in feedback :
        LET records == {n \in Readable : file[n].text.id = r.id}
            last == file[CHOOSE n \in records : \A k \in records : k <= n].text
        IN  /\ last.event.action \in {"decided", "appeal_decided"}
            /\ last.case.decision = r.label
            /\ r.appealed <=> \E n \in records : file[n].text.event.action = "appealed"
=============================================================================
