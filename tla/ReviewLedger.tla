---------------------------- MODULE ReviewLedger ----------------------------
(***************************************************************************)
(* JsonlReviewRepository: the append-only file of audit records, the       *)
(* projection kept in memory, and the replay of the file at startup.       *)
(* A record is the case after the transition and the audit event; the hash *)
(* of an event is a number no other event has.  An append that fails can   *)
(* leave part of a line behind, and a process that goes on writes its next *)
(* line right after it.                                                    *)
(***************************************************************************)
EXTENDS Naturals, Sequences, FiniteSets

CONSTANTS Request, Version, Reviewer,  \* request ids, policy versions, people
          Verdict,                     \* what a human decides: allow, block
          MaxEvents,                   \* audit events minted in a run
          Faults, MaxFaults,
          NoCase, Nobody, Undecided, Garbled

Role == {"reviewer", "senior_reviewer", "auditor"}
ReviewState == {"pending", "claimed", "resolved", "appealed"}
CaseId == Request \X Version

ReviewCase == [state : ReviewState, assigned : Reviewer \cup {Nobody},
               decision : Verdict \cup {Undecided}]
AuditEvent == [hash : Nat, previous : Nat, sequence : Nat,
               action : {"created", "claimed", "decided", "appealed", "appeal_decided"},
               actor : Reviewer \cup {Nobody}, role : Role \cup {Nobody},
               from : ReviewState \cup {Nobody}, to : ReviewState]
Record == [id : CaseId, case : ReviewCase, event : AuditEvent]

\* Markers are none of the values they stand beside.
ASSUME LedgerAssumption ==
    /\ MaxEvents \in Nat
    /\ MaxFaults \in Nat
    /\ Faults \subseteq {"crash", "torn_crash", "write_error"}
    /\ NoCase \notin ReviewCase
    /\ Nobody \notin Reviewer
    /\ Garbled \notin Record

VARIABLES file,    \* lines of the ledger: a record or garbage, and whether it ends
          cases,   \* projection: the case of each id, or NoCase
          events,  \* projection: the audit events of each id
          mode,    \* "up", "down", or "refused" when the replay failed
          minted,  \* events made so far
          acked,   \* the records whose transition was answered with success
          faults,
          damaged  \* an append has failed or was torn

ledgerVars == <<file, cases, events, mode, minted, acked, faults, damaged>>

LedgerTypeOK ==
    /\ file \in Seq([text : Record \cup {Garbled}, ended : BOOLEAN])
    /\ cases \in [CaseId -> ReviewCase \cup {NoCase}]
    /\ events \in [CaseId -> Seq(AuditEvent)]
    /\ mode \in {"up", "down", "refused"}
    /\ minted \in 0..MaxEvents
    /\ acked \subseteq Record
    /\ faults \in 0..MaxFaults
    /\ damaged \in BOOLEAN

Empty(value) == [id \in CaseId |-> value]

LedgerInit == /\ file = << >> /\ cases = Empty(NoCase) /\ events = Empty(<< >>)
              /\ mode = "up" /\ minted = 0 /\ acked = {}
              /\ faults = 0 /\ damaged = FALSE

Fault(kind) == kind \in Faults /\ faults < MaxFaults /\ faults' = faults + 1

\* Mutant: the file is opened for writing, not for appending.
WriteOverFile(text, ended) == file' = << [text |-> text, ended |-> ended] >>

\* Text written after a line that did not end makes one garbled line with it.
WriteLine(text, ended) ==
    file' = IF file # << >> /\ ~file[Len(file)].ended
            THEN [file EXCEPT ![Len(file)] = [text |-> Garbled, ended |-> ended]]
            ELSE Append(file, [text |-> text, ended |-> ended])

\* Mutant: only the case of the record is projected.
ProjectCaseOnly(r) == cases' = [cases EXCEPT ![r.id] = r.case] /\ UNCHANGED events

Project(r) == /\ cases' = [cases EXCEPT ![r.id] = r.case]
              /\ events' = [events EXCEPT ![r.id] = Append(@, r.event)]

\* The record reaches the file, then the projection, then the caller.
Committed(r) == /\ WriteLine(r, TRUE)
                /\ Project(r)
                /\ acked' = acked \cup {r}
                /\ UNCHANGED <<mode, faults, damaged>>

\* Mutant: the projection's case is the caller's, who changed it before committing.
ShareWithCaller(r) == cases' = [cases EXCEPT ![r.id] = r.case] /\ UNCHANGED events

\* The projection holds copies: a failed commit leaves it alone.
LeaveProjection(r) == UNCHANGED <<cases, events>>

\* write, flush or close raises: nothing, a part, or all of the line is there.
WriteError(r) == /\ Fault("write_error")
                 /\ \/ UNCHANGED file
                    \/ WriteLine(Garbled, FALSE)
                    \/ \E ended \in BOOLEAN : WriteLine(r, ended)
                 /\ LeaveProjection(r)
                 /\ damaged' = TRUE
                 /\ UNCHANGED <<mode, acked>>

\* The process dies before, after, or in the middle of the append.
CrashInCommit(r) == /\ \/ /\ Fault("crash")
                          /\ UNCHANGED file \/ WriteLine(r, TRUE)
                          /\ UNCHANGED damaged
                       \/ /\ Fault("torn_crash")
                          /\ \E text \in {Garbled, r} : WriteLine(text, FALSE)
                          /\ damaged' = TRUE
                    /\ mode' = "down"
                    /\ cases' = Empty(NoCase)
                    /\ events' = Empty(<< >>)
                    /\ UNCHANGED acked

Commit(r) == /\ minted < MaxEvents
             /\ minted' = minted + 1
             /\ Committed(r) \/ WriteError(r) \/ CrashInCommit(r)
-----------------------------------------------------------------------------
\* The lines of a case among the first n.
LinesOf(id, n) == {k \in 1..n : file[k].text # Garbled /\ file[k].text.id = id}

\* The i-th line of a case.
LineOf(id, i) == CHOOSE k \in {l \in LinesOf(id, Len(file)) : Cardinality(LinesOf(id, l)) = i} : TRUE

\* Replaying the first n lines: the events of a case, in order.
EventsIn(n, id) == [i \in 1..Cardinality(LinesOf(id, n)) |-> file[LineOf(id, i)].text.event]

\* Event e continues the chain of the events before it.
Continues(before, e) ==
    /\ e.sequence = Len(before) + 1
    /\ e.previous = IF before = << >> THEN 0 ELSE before[Len(before)].hash

Replays == \A n \in 1..Len(file) :
              /\ file[n].text # Garbled
              /\ Continues(EventsIn(n - 1, file[n].text.id), file[n].text.event)

ReplayedEvents == [id \in CaseId |-> EventsIn(Len(file), id)]
ReplayedCases ==
    [id \in CaseId |->
        LET lines == LinesOf(id, Len(file))
        IN  IF lines = {} THEN NoCase ELSE file[LineOf(id, Cardinality(lines))].text.case]

(* Startup replays the ledger, and does not come up when it is damaged. *)
Restart == /\ mode = "down"
           /\ \/ /\ Replays
                 /\ mode' = "up"
                 /\ cases' = ReplayedCases
                 /\ events' = ReplayedEvents
              \/ /\ ~Replays
                 /\ mode' = "refused"
                 /\ UNCHANGED <<cases, events>>
           /\ UNCHANGED <<file, minted, acked, faults, damaged>>

(* The process ends between two requests. *)
Stop == /\ mode = "up"
        /\ Fault("crash")
        /\ mode' = "down"
        /\ cases' = Empty(NoCase)
        /\ events' = Empty(<< >>)
        /\ UNCHANGED <<file, minted, acked, damaged>>
=============================================================================
