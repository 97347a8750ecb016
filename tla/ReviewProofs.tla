---------------------------- MODULE ReviewProofs ----------------------------
(***************************************************************************)
(* Theorems about ReviewWorkflow and ReviewEndpoints for every set of      *)
(* requests, policy versions, reviewers and verdicts, every length of the  *)
(* ledger and every choice and number of faults.                           *)
(***************************************************************************)
EXTENDS ReviewEndpoints, CountingFacts, SequenceTheorems, TLAPS

\* The event e of case id survives: on the ledger, or in the process.
Known(id, e) == \/ \E n \in Readable : file[n].text.id = id /\ file[n].text.event = e
                \/ \E i \in 1..Len(events[id]) : events[id][i] = e

\* What an event alone says: its place in the life of the case.
EventOK(e) ==
    /\ e.sequence = 1 => e.action = "created" /\ e.from = Nobody
    /\ e.sequence = 2 => e.action = "claimed"
    /\ e.sequence = 3 => e.action = "decided"
    /\ e.sequence = 4 => e.action = "appealed"
    /\ e.action = "created" => e.sequence = 1 /\ e.to = "pending"
    /\ e.action = "decided" => e.sequence = 3 /\ e.to = "resolved"
    /\ e.action = "appealed" => e.sequence >= 4 /\ e.to = "appealed"
    /\ e.action = "claimed" =>
          e.to = "claimed" /\ (e.sequence = 2 \/ (e.sequence >= 5 /\ e.role = "senior_reviewer"))
    /\ e.action = "appeal_decided" =>
          e.to = "resolved" /\ e.sequence >= 5 /\ e.role = "senior_reviewer"

\* Event e can be the one after d.
Follows(d, e) ==
    /\ e.from = d.to
    /\ e.action \in {"decided", "appeal_decided"} => d.action = "claimed" /\ d.actor = e.actor

\* The case that a transition leaves agrees with its event.
Agrees(case, e) == case.state = e.to /\ (e.action = "claimed" => case.assigned = e.actor)

EventsOK == \A id \in CaseId, e \in AuditEvent : Known(id, e) =>
                EventOK(e) /\ e.hash \in 1..minted /\ e.previous < e.hash
LinksOK == \A a, b \in CaseId, d, e \in AuditEvent : Known(a, d) /\ Known(b, e) =>
               /\ d.hash = e.hash => a = b /\ d = e
               /\ e.previous = d.hash => Follows(d, e)
RecordsOK == \A n \in Readable : Agrees(file[n].text.case, file[n].text.event)
\* A trail is numbered and chained from its first event, and ends in its case.
TrailOK(trail, case) ==
    /\ case = NoCase <=> trail = << >>
    /\ case # NoCase => Agrees(case, trail[Len(trail)])
    /\ \A i \in 1..Len(trail) :
          /\ trail[i].sequence = i
          /\ trail[i].previous = IF i = 1 THEN 0 ELSE trail[i - 1].hash
TrailsOK == \A id \in CaseId : TrailOK(events[id], cases[id])
AckedOK == \A r \in acked : r.event.hash <= minted

\* A policy version makes cases only while the ledger has none of the request.
RequestsOK ==
    /\ OneCasePerRequest
    /\ \A m, n \in Readable : file[m].text.id[1] = file[n].text.id[1] => file[m].text.id = file[n].text.id
    /\ mode = "up" => \A n \in Readable :
          /\ cases[file[n].text.id] # NoCase \/ file[n].text.id[2] = policy
          /\ \A id \in CaseId : cases[id] # NoCase /\ id[1] = file[n].text.id[1] => id = file[n].text.id

\* A ledger without a failed append.
LedgerOK == ~damaged =>
    /\ \A n \in 1..Len(file) : file[n].text # Garbled /\ file[n].ended
    /\ Replays
    /\ mode = "up" => cases = ReplayedCases /\ events = ReplayedEvents
    /\ mode # "refused"
    /\ \A r \in acked : Recorded(r)

WorkflowInv == TypeOK /\ EventsOK /\ LinksOK /\ RecordsOK /\ TrailsOK /\ AckedOK /\ RequestsOK /\ LedgerOK
-----------------------------------------------------------------------------
\* A readable line holds a record.
LEMMA ReadableLines ==
    ASSUME TypeOK
    PROVE  /\ Len(file) \in Nat
           /\ \A n \in 1..Len(file) : file[n].text \in Record \/ file[n].text = Garbled
           /\ \A n \in Readable : n \in 1..Len(file) /\ file[n].text \in Record
<1>1. file \in Seq([text : Record \cup {Garbled}, ended : BOOLEAN])
  BY DEF TypeOK, LedgerTypeOK
<1>2. Len(file) \in Nat /\ \A n \in 1..Len(file) : file[n] \in [text : Record \cup {Garbled}, ended : BOOLEAN]
  BY <1>1, ElementOfSeq, LenProperties, Zenon
<1>. QED  BY <1>2 DEF Readable

\* The lines of a case are numbered from one, as LineOf counts them.
LEMMA LinesAreNumbered ==
    ASSUME TypeOK, NEW id
    PROVE  /\ Cardinality(LinesOf(id, Len(file))) \in Nat
           /\ LinesOf(id, Len(file)) = {} <=> Cardinality(LinesOf(id, Len(file))) = 0
           /\ \A i \in 1..Cardinality(LinesOf(id, Len(file))) :
                 /\ LineOf(id, i) \in LinesOf(id, Len(file))
                 /\ Cardinality(LinesOf(id, LineOf(id, i))) = i
           /\ \A k \in LinesOf(id, Len(file)) :
                 /\ Cardinality(LinesOf(id, k)) \in 1..Cardinality(LinesOf(id, Len(file)))
                 /\ LineOf(id, Cardinality(LinesOf(id, k))) = k
                 /\ Cardinality(LinesOf(id, k - 1)) = Cardinality(LinesOf(id, k)) - 1
           /\ \A n \in 0..Len(file) :
                 /\ Cardinality(LinesOf(id, n)) \in 0..Cardinality(LinesOf(id, Len(file)))
                 /\ LinesOf(id, n) \subseteq LinesOf(id, Len(file))
<1>. DEFINE S == LinesOf(id, Len(file))
<1>1. Len(file) \in Nat
  BY ReadableLines
<1>2. \A x \in S : x \in 1..Len(file)
  BY DEF LinesOf
<1>3. \A n \in 0..Len(file) : LinesOf(id, n) = UpTo(S, n)
  <2>1. \A n \in 0..Len(file) : \A x : x \in LinesOf(id, n) <=> x \in UpTo(S, n)
    BY <1>1 DEF LinesOf, UpTo
  <2>. QED  BY <2>1
<1>. HIDE DEF S
<1>4. IsFiniteSet(S) /\ Cardinality(S) \in Nat
  BY <1>1, <1>2, CountUpTo, 0 \in Nat
<1>5. \A n \in 0..Len(file) : Cardinality(UpTo(S, n)) \in 0..Cardinality(S) /\ UpTo(S, n) \subseteq S
  <2>1. \A n \in Nat : Cardinality(UpTo(S, n)) \in Nat /\ Cardinality(UpTo(S, n)) <= Cardinality(S)
    BY <1>1, <1>2, CountUpTo
  <2>. QED  BY <1>4, <2>1 DEF UpTo
<1>6. ASSUME NEW k \in S
      PROVE  /\ k \in 1..Len(file) /\ k - 1 \in 0..Len(file)
             /\ Cardinality(UpTo(S, k)) \in 1..Cardinality(S)
             /\ Cardinality(UpTo(S, k - 1)) = Cardinality(UpTo(S, k)) - 1
  <2>1. k \in 1..Len(file)
    BY <1>2
  <2>2. k \in Nat /\ k - 1 \in Nat /\ k = (k - 1) + 1 /\ k - 1 \in 0..Len(file)
    BY <1>1, <2>1
  <2>3. Cardinality(UpTo(S, k)) = Cardinality(UpTo(S, k - 1)) + 1
    BY <1>1, <1>2, <2>2, CountStep
  <2>. QED  BY <1>4, <1>5, <2>1, <2>2, <2>3
<1>7. \A i : LineOf(id, i) = CHOOSE k \in {l \in S : Cardinality(LinesOf(id, l)) = i} : TRUE
  BY DEF LineOf, S
<1>8. ASSUME NEW i \in 1..Cardinality(S)
      PROVE  /\ LineOf(id, i) \in S /\ Cardinality(UpTo(S, LineOf(id, i))) = i
             /\ \A j \in S : Cardinality(UpTo(S, j)) = i => j = LineOf(id, i)
  <2>1. PICK k \in S : /\ Cardinality(UpTo(S, k)) = i
                       /\ \A j \in S : Cardinality(UpTo(S, j)) = i => j = k
    BY <1>1, <1>2, Numbered
  <2>2. \A l \in S : LinesOf(id, l) = UpTo(S, l)
    BY <1>1, <1>2, <1>3
  <2>3. {l \in S : Cardinality(LinesOf(id, l)) = i} = {k}
    <3>1. \A l : l \in {m \in S : Cardinality(LinesOf(id, m)) = i} <=> l = k
      BY <2>1, <2>2
    <3>. QED  BY <3>1
  <2>4. LineOf(id, i) = k
    BY <1>7, <2>3, Zenon
  <2>. QED  BY <2>1, <2>4
<1>9. S = {} <=> Cardinality(S) = 0
  BY <1>4, FS_EmptySet
<1>. QED
  <2>1. \A k \in S : LinesOf(id, k) = UpTo(S, k) /\ LinesOf(id, k - 1) = UpTo(S, k - 1)
    BY <1>3, <1>6
  <2>2. \A i \in 1..Cardinality(S) : LinesOf(id, LineOf(id, i)) = UpTo(S, LineOf(id, i))
    BY <1>8, <2>1
  <2>3. \A k \in S : LineOf(id, Cardinality(UpTo(S, k))) = k
    BY <1>6, <1>8
  <2>. QED  BY <1>3, <1>4, <1>5, <1>6, <1>8, <1>9, <2>1, <2>2, <2>3 DEF S

\* What a replay of the first n lines makes of a case.
LEMMA EventsInLines ==
    ASSUME TypeOK, NEW id, NEW n \in 0..Len(file)
    PROVE  /\ EventsIn(n, id) \in Seq(AuditEvent)
           /\ Len(EventsIn(n, id)) = Cardinality(LinesOf(id, n))
           /\ \A i \in 1..Cardinality(LinesOf(id, n)) :
                 /\ LineOf(id, i) \in Readable
                 /\ EventsIn(n, id)[i] = file[LineOf(id, i)].text.event
<1>. DEFINE C == Cardinality(LinesOf(id, n))
<1>1. C \in Nat /\ \A i \in 1..C : LineOf(id, i) \in LinesOf(id, Len(file))
  <2>1. C \in 0..Cardinality(LinesOf(id, Len(file))) /\ Cardinality(LinesOf(id, Len(file))) \in Nat
    BY LinesAreNumbered
  <2>2. \A i \in 1..C : i \in 1..Cardinality(LinesOf(id, Len(file)))
    BY <2>1
  <2>. QED  BY <2>1, <2>2, LinesAreNumbered
<1>2. \A k \in LinesOf(id, Len(file)) : k \in Readable /\ file[k].text.event \in AuditEvent
  <2>1. \A k \in LinesOf(id, Len(file)) : k \in Readable
    BY DEF LinesOf, Readable
  <2>. QED  BY <2>1, ReadableLines DEF Record
<1>3. EventsIn(n, id) = [i \in 1..C |-> file[LineOf(id, i)].text.event]
  BY DEF EventsIn
<1>. HIDE DEF C
<1>4. EventsIn(n, id) \in [1..C -> AuditEvent]
  BY <1>1, <1>2, <1>3
<1>5. EventsIn(n, id) \in Seq(AuditEvent) /\ Len(EventsIn(n, id)) = C
  BY <1>1, <1>4
<1>. QED  BY <1>1, <1>2, <1>3, <1>5 DEF C

\* A replay that accepts the ledger makes a trail of every case.
LEMMA ReplayMakesTrails ==
    ASSUME TypeOK, RecordsOK, Replays, NEW id \in CaseId
    PROVE  /\ ReplayedEvents[id] \in Seq(AuditEvent)
           /\ ReplayedCases[id] \in ReviewCase \cup {NoCase}
           /\ TrailOK(ReplayedEvents[id], ReplayedCases[id])
           /\ ReplayedCases[id] = NoCase <=> LinesOf(id, Len(file)) = {}
           /\ \A i \in 1..Len(ReplayedEvents[id]) :
                 \E k \in Readable : file[k].text.id = id /\ file[k].text.event = ReplayedEvents[id][i]
<1>. DEFINE L == LinesOf(id, Len(file))
           C == Cardinality(L)
           trail == ReplayedEvents[id]
<1>1. Len(file) \in Nat /\ Len(file) \in 0..Len(file) /\ C \in Nat
  BY ReadableLines, LinesAreNumbered
<1>2. trail = EventsIn(Len(file), id)
  BY DEF ReplayedEvents
<1>3. /\ trail \in Seq(AuditEvent) /\ Len(trail) = C
      /\ \A i \in 1..C : LineOf(id, i) \in Readable /\ trail[i] = file[LineOf(id, i)].text.event
  BY <1>1, <1>2, EventsInLines
<1>4. \A i \in 1..C : LineOf(id, i) \in L /\ Cardinality(LinesOf(id, LineOf(id, i))) = i
  BY LinesAreNumbered
<1>5. ReplayedCases[id] = IF L = {} THEN NoCase ELSE file[LineOf(id, C)].text.case
  BY DEF ReplayedCases
<1>6. L = {} <=> C = 0
  BY LinesAreNumbered
<1>7. ASSUME NEW i \in 1..C
      PROVE  /\ trail[i].sequence = i
             /\ trail[i].previous = IF i = 1 THEN 0 ELSE trail[i - 1].hash
             /\ \E k \in Readable : file[k].text.id = id /\ file[k].text.event = trail[i]
  <2>. DEFINE k == LineOf(id, i)
              before == EventsIn(k - 1, id)
  <2>1. k \in L /\ k \in Readable /\ k \in 1..Len(file) /\ file[k].text.id = id /\ trail[i] = file[k].text.event
    BY <1>3, <1>4 DEF LinesOf, Readable
  <2>2. Continues(before, trail[i])
    BY <2>1 DEF Replays
  <2>3. Cardinality(LinesOf(id, k - 1)) = i - 1
    BY <1>4, <2>1, LinesAreNumbered
  <2>4. k - 1 \in 0..Len(file)
    BY <1>1, <2>1
  <2>5. Len(before) = i - 1 /\ before \in Seq(AuditEvent)
    BY <2>3, <2>4, EventsInLines
  <2>6. i # 1 => before[i - 1] = trail[i - 1]
    <3>1. i # 1 => i - 1 \in 1..C /\ i - 1 \in 1..(i - 1)
      BY <1>1
    <3>2. i # 1 => before[i - 1] = file[LineOf(id, i - 1)].text.event
      BY <2>3, <2>4, <3>1, EventsInLines
    <3>. QED  BY <1>3, <3>1, <3>2
  <2>7. before = << >> <=> i = 1
    BY <2>5, EmptySeq
  <2>8. trail[i].sequence = Len(before) + 1
        /\ trail[i].previous = IF before = << >> THEN 0 ELSE before[Len(before)].hash
    BY <2>2 DEF Continues
  <2>. HIDE DEF before, trail, k
  <2>9. (i - 1) + 1 = i
    OBVIOUS
  <2>. QED  BY <2>1, <2>5, <2>6, <2>7, <2>8, <2>9
<1>8. /\ ReplayedCases[id] \in ReviewCase \cup {NoCase}
      /\ ReplayedCases[id] = NoCase <=> C = 0
      /\ ReplayedCases[id] # NoCase => Agrees(ReplayedCases[id], trail[Len(trail)])
  <2>1. CASE C = 0
    BY <1>5, <1>6, <2>1
  <2>2. CASE C # 0
    <3>1. C \in 1..C
      BY <1>1, <2>2
    <3>2. ReplayedCases[id] = file[LineOf(id, C)].text.case /\ LineOf(id, C) \in Readable
          /\ trail[Len(trail)] = file[LineOf(id, C)].text.event
      BY <1>3, <1>5, <1>6, <2>2, <3>1
    <3>3. file[LineOf(id, C)].text.case \in ReviewCase
      BY <3>2, ReadableLines DEF Record
    <3>4. Agrees(file[LineOf(id, C)].text.case, file[LineOf(id, C)].text.event)
      BY <3>2 DEF RecordsOK
    <3>5. ReplayedCases[id] # NoCase
      BY <3>2, <3>3, LedgerAssumption
    <3>. QED  BY <2>2, <3>2, <3>3, <3>4, <3>5
  <2>. QED  BY <2>1, <2>2
<1>9. trail = << >> <=> C = 0
  BY <1>3, EmptySeq
<1>. QED  BY <1>3, <1>6, <1>7, <1>8, <1>9 DEF TrailOK

\* The last event of a case's trail.
Last(id) == events[id][Len(events[id])]

\* A transition: its record continues the case as the process shows it.
Extends(r) ==
    /\ r \in Record /\ mode = "up"
    /\ r.event.hash = minted + 1
    /\ r.event.sequence = Len(events[r.id]) + 1
    /\ r.event.previous = IF events[r.id] = << >> THEN 0 ELSE Last(r.id).hash
    /\ EventOK(r.event) /\ Agrees(r.case, r.event)
    /\ events[r.id] # << >> => Follows(Last(r.id), r.event)
    /\ cases[r.id] # NoCase \/ (r.id[2] = policy /\ CaseOf(r.id[1]) = {})

\* The typed pieces of a case that the process shows.
LEMMA ShownCases ==
    ASSUME TypeOK, EventsOK, TrailsOK, NEW id \in CaseId, cases[id] # NoCase
    PROVE  /\ cases[id] \in ReviewCase
           /\ Len(events[id]) \in Nat /\ Len(events[id]) >= 1 /\ events[id] # << >>
           /\ Last(id) \in AuditEvent /\ Last(id).sequence = Len(events[id])
           /\ Last(id).sequence \in Nat /\ Last(id).sequence >= 1
           /\ EventOK(Last(id)) /\ Agrees(cases[id], Last(id))
           /\ \A i \in 1..Len(events[id]) :
                 events[id][i] \in AuditEvent /\ EventOK(events[id][i]) /\ events[id][i].sequence = i
<1>1. cases[id] \in ReviewCase /\ events[id] \in Seq(AuditEvent)
  BY DEF TypeOK, LedgerTypeOK
<1>2. TrailOK(events[id], cases[id])
  BY DEF TrailsOK
<1>3. events[id] # << >> /\ Len(events[id]) \in Nat /\ Len(events[id]) >= 1
  BY <1>1, <1>2, EmptySeq DEF TrailOK
<1>4. \A i \in 1..Len(events[id]) : events[id][i] \in AuditEvent /\ events[id][i].sequence = i
  BY <1>1, <1>2, ElementOfSeq DEF TrailOK
<1>5. \A i \in 1..Len(events[id]) : EventOK(events[id][i])
  <2>1. \A i \in 1..Len(events[id]) : Known(id, events[id][i])
    BY DEF Known
  <2>. QED  BY <1>4, <2>1 DEF EventsOK
<1>6. Len(events[id]) \in 1..Len(events[id])
  BY <1>3
<1>. QED  BY <1>1, <1>2, <1>3, <1>4, <1>5, <1>6 DEF Last, TrailOK

\* A case is under appeal, or decided after one, from its fourth event on.
LEMMA AppealedFromFour ==
    ASSUME TypeOK, EventsOK, TrailsOK, NEW id \in CaseId, cases[id] # NoCase
    PROVE  WasAppealed(id) <=> Last(id).sequence >= 4
<1>. DEFINE n == Len(events[id])
<1>1. /\ n \in Nat /\ n = Last(id).sequence
      /\ \A i \in 1..n : EventOK(events[id][i]) /\ events[id][i].sequence = i
      /\ WasAppealed(id) <=> \E i \in 1..n : events[id][i].action = "appealed"
  BY ShownCases DEF WasAppealed
<1>. HIDE DEF n
<1>2. ASSUME NEW i \in 1..n, events[id][i].action = "appealed" PROVE n >= 4
  <2>1. i >= 4
    BY <1>1, <1>2 DEF EventOK
  <2>. QED  BY <1>1, <2>1
<1>3. ASSUME n >= 4 PROVE 4 \in 1..n /\ events[id][4].action = "appealed"
  <2>1. 4 \in 1..n
    BY <1>1, <1>3
  <2>. QED  BY <1>1, <2>1 DEF EventOK
<1>. QED  BY <1>1, <1>2, <1>3

\* The record of a transition has its type and the fields the chain needs.
LEMMA NewRecord ==
    ASSUME TypeOK, TrailsOK, NEW id \in CaseId, NEW case \in ReviewCase,
           NEW action \in {"created", "claimed", "decided", "appealed", "appeal_decided"},
           NEW actor \in Reviewer \cup {Nobody}, NEW from \in ReviewState \cup {Nobody}
    PROVE  LET e == NewEvent(id, action, actor, from, case.state)
           IN  /\ [id |-> id, case |-> case, event |-> e] \in Record
               /\ e.hash = minted + 1 /\ e.sequence = Len(events[id]) + 1
               /\ e.previous = IF events[id] = << >> THEN 0 ELSE Last(id).hash
               /\ e.action = action /\ e.actor = actor /\ e.from = from /\ e.to = case.state
               /\ actor # Nobody => e.role = roles[actor]
<1>1. events[id] \in Seq(AuditEvent) /\ minted \in Nat /\ roles \in [Reviewer -> Role]
  BY LedgerAssumption DEF TypeOK, LedgerTypeOK
<1>2. events[id] # << >> => Last(id) \in AuditEvent
  <2>1. events[id] # << >> => Len(events[id]) \in 1..Len(events[id])
    BY <1>1, EmptySeq
  <2>. QED  BY <1>1, <2>1, ElementOfSeq DEF Last
<1>3. (IF events[id] = << >> THEN 0 ELSE Last(id).hash) \in Nat
  BY <1>2 DEF AuditEvent
<1>4. (IF actor = Nobody THEN Nobody ELSE roles[actor]) \in Role \cup {Nobody}
  BY <1>1
<1>5. case.state \in ReviewState
  BY DEF ReviewCase
<1>6. Len(events[id]) \in Nat
  BY <1>1
<1>7. NewEvent(id, action, actor, from, case.state) \in AuditEvent
  BY <1>1, <1>3, <1>4, <1>5, <1>6 DEF NewEvent, AuditEvent, Last
<1>. QED  BY <1>7 DEF NewEvent, Last, Record

\* Each of the four transitions commits a record that continues its case.
LEMMA EnqueueExtends ==
    ASSUME TypeOK, TrailsOK, NEW request \in Request, Enqueue(request)
    PROVE  \E r : Extends(r) /\ Commit(r) /\ UNCHANGED <<roles, policy>>
<1>. DEFINE id == <<request, policy>>
            case == [state |-> "pending", assigned |-> Nobody, decision |-> Undecided]
            e == NewEvent(id, "created", Nobody, Nobody, case.state)
            r == [id |-> id, case |-> case, event |-> e]
<1>1. id \in CaseId /\ case \in ReviewCase /\ case.state = "pending"
  BY DEF CaseId, ReviewCase, ReviewState, TypeOK
<1>2. /\ r \in Record /\ e.hash = minted + 1 /\ e.sequence = Len(events[id]) + 1
      /\ e.previous = IF events[id] = << >> THEN 0 ELSE Last(id).hash
      /\ e.action = "created" /\ e.actor = Nobody /\ e.from = Nobody /\ e.to = "pending"
  <2>. HIDE DEF id, case
  <2>1. /\ "created" \in {"created", "claimed", "decided", "appealed", "appeal_decided"}
        /\ Nobody \in Reviewer \cup {Nobody} /\ Nobody \in ReviewState \cup {Nobody}
    OBVIOUS
  <2>2. [id |-> id, case |-> case, event |-> NewEvent(id, "created", Nobody, Nobody, case.state)]
            \in Record
    BY <1>1, <2>1, NewRecord
  <2>3. /\ e.hash = minted + 1 /\ e.sequence = Len(events[id]) + 1
        /\ e.previous = IF events[id] = << >> THEN 0 ELSE Last(id).hash
        /\ e.action = "created" /\ e.actor = Nobody /\ e.from = Nobody /\ e.to = case.state
    BY DEF NewEvent, Last
  <2>. QED  BY <1>1, <2>2, <2>3
<1>3. CaseOf(request) = {} /\ mode = "up" /\ Commit(r) /\ UNCHANGED <<roles, policy>>
  BY DEF Enqueue, Transition
<1>4. events[id] = << >>
  BY <1>1, <1>3 DEF CaseOf, TrailsOK, TrailOK
<1>5. e.sequence = 1
  BY <1>2, <1>4, EmptySeq
<1>6. r.id = id /\ r.case = case /\ r.event = e /\ r.id[1] = request /\ r.id[2] = policy
  OBVIOUS
<1>. HIDE DEF e, id, r, case
<1>7. EventOK(e) /\ Agrees(case, e)
  BY <1>1, <1>2, <1>5 DEF EventOK, Agrees
<1>. QED  BY <1>2, <1>3, <1>4, <1>6, <1>7 DEF Extends

\* A claim continues the case it claims.
LEMMA ClaimExtends ==
    ASSUME TypeOK, EventsOK, TrailsOK, NEW p \in Reviewer, NEW id \in CaseId, Claim(p, id)
    PROVE  \E r : Extends(r) /\ Commit(r) /\ UNCHANGED <<roles, policy>>
<1>. DEFINE case == [cases[id] EXCEPT !.state = "claimed", !.assigned = p]
            e == NewEvent(id, "claimed", p, cases[id].state, case.state)
            r == [id |-> id, case |-> case, event |-> e]
<1>1. cases[id] # NoCase /\ mode = "up" /\ Commit(r) /\ UNCHANGED <<roles, policy>>
      /\ cases[id].state \in {"pending", "appealed"}
      /\ (cases[id].state = "appealed" => roles[p] = "senior_reviewer")
  BY DEF Claim, Reviews, Transition
<1>2. /\ cases[id] \in ReviewCase /\ events[id] # << >> /\ Last(id) \in AuditEvent
      /\ Last(id).sequence \in Nat /\ Last(id).sequence >= 1
      /\ EventOK(Last(id)) /\ Agrees(cases[id], Last(id))
  BY <1>1, ShownCases
<1>3. case \in ReviewCase /\ case.state = "claimed" /\ case.assigned = p
  BY <1>2 DEF ReviewCase, ReviewState
<1>. HIDE DEF case
<1>4. cases[id].state \in ReviewState /\ p # Nobody
  BY <1>2, LedgerAssumption DEF ReviewCase
<1>5. /\ r \in Record /\ e.hash = minted + 1 /\ e.sequence = Len(events[id]) + 1
      /\ e.previous = IF events[id] = << >> THEN 0 ELSE Last(id).hash
      /\ e.action = "claimed" /\ e.actor = p /\ e.from = cases[id].state /\ e.to = "claimed"
      /\ e.role = roles[p]
  BY <1>3, <1>4, NewRecord
<1>6. r.id = id /\ r.case = case /\ r.event = e
  OBVIOUS
<1>. HIDE DEF e, r
<1>12. e.sequence = Last(id).sequence + 1
  BY <1>1, <1>5, ShownCases
<1>13. e.role = roles[p]
  BY <1>5
<1>7. Last(id).to = cases[id].state
  BY <1>2 DEF Agrees
<1>8. cases[id].state = "pending" => Last(id).sequence = 1
  BY <1>2, <1>7 DEF EventOK, AuditEvent
<1>9. cases[id].state = "appealed" => Last(id).sequence >= 4
  BY <1>2, <1>7 DEF EventOK, AuditEvent
<1>10. EventOK(e)
  <2>1. CASE cases[id].state = "pending"
    <3>1. e.sequence = 2
      BY <1>8, <1>12, <2>1
    <3>2. e.sequence # 1 /\ e.sequence # 3 /\ e.sequence # 4
      BY <3>1
    <3>. QED  BY <1>5, <3>1, <3>2 DEF EventOK
  <2>2. CASE cases[id].state = "appealed"
    <3>1. e.sequence >= 5 /\ e.role = "senior_reviewer"
      BY <1>1, <1>2, <1>9, <1>12, <1>13, <2>2
    <3>2. e.sequence \notin {1, 2, 3, 4}
      BY <3>1
    <3>. QED  BY <1>5, <3>1, <3>2 DEF EventOK
  <2>. QED  BY <1>1, <2>1, <2>2
<1>11. Agrees(case, e) /\ Follows(Last(id), e)
  BY <1>3, <1>5, <1>7 DEF Agrees, Follows
<1>. QED  BY <1>1, <1>2, <1>5, <1>6, <1>10, <1>11 DEF Extends

\* A decision continues the case it decides.
LEMMA DecideExtends ==
    ASSUME TypeOK, EventsOK, TrailsOK,
           NEW p \in Reviewer, NEW id \in CaseId, NEW decision \in Verdict, Decide(p, id, decision)
    PROVE  \E r : Extends(r) /\ Commit(r) /\ UNCHANGED <<roles, policy>>
<1>. DEFINE case == [cases[id] EXCEPT !.state = "resolved", !.decision = decision]
            action == IF WasAppealed(id) THEN "appeal_decided" ELSE "decided"
            e == NewEvent(id, action, p, "claimed", case.state)
            r == [id |-> id, case |-> case, event |-> e]
<1>1. cases[id] # NoCase /\ mode = "up" /\ Commit(r) /\ UNCHANGED <<roles, policy>>
      /\ cases[id].state = "claimed" /\ cases[id].assigned = p
      /\ (WasAppealed(id) => roles[p] = "senior_reviewer")
  BY DEF Decide, Reviews, Transition
<1>2. /\ cases[id] \in ReviewCase /\ events[id] # << >> /\ Last(id) \in AuditEvent
      /\ Last(id).sequence \in Nat /\ Last(id).sequence >= 1
      /\ EventOK(Last(id)) /\ Agrees(cases[id], Last(id))
  BY <1>1, ShownCases
<1>3. case \in ReviewCase /\ case.state = "resolved"
  BY <1>2 DEF ReviewCase, ReviewState
<1>. HIDE DEF case
<1>4. p # Nobody /\ "claimed" \in ReviewState \cup {Nobody} /\ action \in {"decided", "appeal_decided"}
      /\ (action = "appeal_decided" <=> WasAppealed(id))
  BY LedgerAssumption DEF ReviewState
<1>. HIDE DEF action
<1>5. /\ r \in Record /\ e.hash = minted + 1 /\ e.sequence = Len(events[id]) + 1
      /\ e.previous = IF events[id] = << >> THEN 0 ELSE Last(id).hash
      /\ e.action = action /\ e.actor = p /\ e.from = "claimed" /\ e.to = "resolved"
      /\ e.role = roles[p]
  BY <1>3, <1>4, NewRecord
<1>6. r.id = id /\ r.case = case /\ r.event = e
  OBVIOUS
<1>. HIDE DEF e, r
<1>12. e.sequence = Last(id).sequence + 1
  BY <1>1, <1>5, ShownCases
<1>7. Last(id).action = "claimed" /\ Last(id).to = "claimed" /\ Last(id).actor = p
  BY <1>1, <1>2 DEF Agrees, EventOK, AuditEvent
<1>8. Last(id).sequence # 1 /\ Last(id).sequence # 3
  BY <1>2, <1>7 DEF EventOK
<1>9. WasAppealed(id) <=> Last(id).sequence >= 4
  BY <1>1, AppealedFromFour
<1>10. EventOK(e)
  <2>1. Last(id).sequence = 2 \/ Last(id).sequence >= 4
    BY <1>2, <1>8
  <2>2. CASE Last(id).sequence = 2
    <3>1. e.sequence = 3 /\ e.action = "decided"
      BY <1>4, <1>5, <1>9, <1>12, <2>2
    <3>. QED  BY <1>5, <3>1 DEF EventOK
  <2>3. CASE Last(id).sequence >= 4
    <3>1. e.sequence >= 5 /\ e.action = "appeal_decided" /\ e.role = "senior_reviewer"
      BY <1>1, <1>2, <1>4, <1>5, <1>9, <1>12, <2>3
    <3>2. e.sequence \notin {1, 2, 3, 4}
      BY <3>1
    <3>. QED  BY <1>5, <3>1, <3>2 DEF EventOK
  <2>. QED  BY <2>1, <2>2, <2>3
<1>11. Agrees(case, e) /\ Follows(Last(id), e)
  BY <1>3, <1>4, <1>5, <1>7 DEF Agrees, Follows
<1>. QED  BY <1>1, <1>2, <1>5, <1>6, <1>10, <1>11 DEF Extends

\* An appeal continues the case it reopens.
LEMMA AppealExtends ==
    ASSUME TypeOK, EventsOK, TrailsOK, NEW p \in Reviewer, NEW id \in CaseId, Appeal(p, id)
    PROVE  \E r : Extends(r) /\ Commit(r) /\ UNCHANGED <<roles, policy>>
<1>. DEFINE case == [cases[id] EXCEPT !.state = "appealed", !.assigned = Nobody]
            e == NewEvent(id, "appealed", p, "resolved", case.state)
            r == [id |-> id, case |-> case, event |-> e]
<1>1. cases[id] # NoCase /\ mode = "up" /\ Commit(r) /\ UNCHANGED <<roles, policy>>
      /\ cases[id].state = "resolved"
  BY DEF Appeal, Reviews, Transition
<1>2. /\ cases[id] \in ReviewCase /\ events[id] # << >> /\ Last(id) \in AuditEvent
      /\ Last(id).sequence \in Nat /\ Last(id).sequence >= 1
      /\ EventOK(Last(id)) /\ Agrees(cases[id], Last(id))
  BY <1>1, ShownCases
<1>3. case \in ReviewCase /\ case.state = "appealed"
  BY <1>2 DEF ReviewCase, ReviewState
<1>. HIDE DEF case
<1>4. p # Nobody /\ "resolved" \in ReviewState \cup {Nobody}
  BY LedgerAssumption DEF ReviewState
<1>5. /\ r \in Record /\ e.hash = minted + 1 /\ e.sequence = Len(events[id]) + 1
      /\ e.previous = IF events[id] = << >> THEN 0 ELSE Last(id).hash
      /\ e.action = "appealed" /\ e.actor = p /\ e.from = "resolved" /\ e.to = "appealed"
  BY <1>3, <1>4, NewRecord
<1>6. r.id = id /\ r.case = case /\ r.event = e
  OBVIOUS
<1>. HIDE DEF e, r
<1>12. e.sequence = Last(id).sequence + 1
  BY <1>1, <1>5, ShownCases
<1>7. Last(id).to = "resolved" /\ Last(id).action \in {"decided", "appeal_decided"}
  BY <1>1, <1>2 DEF Agrees, EventOK, AuditEvent
<1>8. Last(id).sequence >= 3
  BY <1>2, <1>7 DEF EventOK
<1>9. EventOK(e)
  <2>1. e.sequence >= 4 /\ e.sequence \notin {1, 2, 3}
    BY <1>2, <1>8, <1>12
  <2>. QED  BY <1>5, <2>1 DEF EventOK
<1>10. Agrees(case, e) /\ Follows(Last(id), e)
  BY <1>3, <1>5, <1>7 DEF Agrees, Follows
<1>. QED  BY <1>1, <1>2, <1>5, <1>6, <1>9, <1>10 DEF Extends

\* What the next-state relation is made of.
LEMMA StepsOfWorkflow ==
    ASSUME TypeOK, EventsOK, TrailsOK, Next
    PROVE  \/ \E r : Extends(r) /\ Commit(r) /\ UNCHANGED <<roles, policy>>
           \/ Stop /\ UNCHANGED <<roles, policy>>
           \/ StartRelease
BY EnqueueExtends, ClaimExtends, DecideExtends, AppealExtends DEF Next

\* Writing adds text to the ledger, or makes its last line unreadable.
LEMMA WriteLineEffect ==
    ASSUME TypeOK, NEW text \in Record \cup {Garbled}, NEW ended \in BOOLEAN, WriteLine(text, ended)
    PROVE  /\ file' \in Seq([text : Record \cup {Garbled}, ended : BOOLEAN])
           /\ \A n \in 1..Len(file') : \/ file'[n].text \in {Garbled, text}
                                       \/ n \in 1..Len(file) /\ file'[n].text = file[n].text
<1>. DEFINE Line == [text : Record \cup {Garbled}, ended : BOOLEAN]
            line == [text |-> text, ended |-> ended]
            torn == [text |-> Garbled, ended |-> ended]
<1>1. file \in Seq(Line) /\ line \in Line /\ torn \in Line /\ Len(file) \in Nat
  BY DEF TypeOK, LedgerTypeOK
<1>2. line.text = text /\ torn.text = Garbled
  OBVIOUS
<1>3. \/ file # << >> /\ file' = [file EXCEPT ![Len(file)] = torn]
      \/ file' = Append(file, line)
  BY DEF WriteLine
<1>. HIDE DEF Line, line, torn
<1>4. CASE file # << >> /\ file' = [file EXCEPT ![Len(file)] = torn]
  <2>1. Len(file) \in 1..Len(file)
    BY <1>1, <1>4, EmptySeq
  <2>2. /\ file' \in Seq(Line) /\ Len(file') = Len(file)
        /\ \A n \in 1..Len(file) : file'[n] = IF n = Len(file) THEN torn ELSE file[n]
    BY <1>1, <1>4, <2>1, ExceptSeq
  <2>. QED  BY <1>2, <2>2 DEF Line
<1>5. CASE file' = Append(file, line)
  <2>1. /\ file' \in Seq(Line) /\ Len(file') = Len(file) + 1
        /\ \A n \in 1..Len(file) : file'[n] = file[n]
        /\ file'[Len(file) + 1] = line
    BY <1>1, <1>5, AppendProperties
  <2>2. \A n \in 1..Len(file') : n \in 1..Len(file) \/ n = Len(file) + 1
    BY <1>1, <2>1
  <2>. QED  BY <1>2, <2>1, <2>2 DEF Line
<1>. QED  BY <1>3, <1>4, <1>5

\* A commit, whichever way it goes: what it leaves of the ledger and the process.
LEMMA CommitEffect ==
    ASSUME TypeOK, NEW r, Extends(r), Commit(r)
    PROVE  /\ file' \in Seq([text : Record \cup {Garbled}, ended : BOOLEAN])
           /\ \A n \in Readable' : \/ file'[n].text = r
                                   \/ n \in Readable /\ file'[n].text = file[n].text
           /\ \/ /\ cases' = [cases EXCEPT ![r.id] = r.case]
                 /\ events' = [events EXCEPT ![r.id] = Append(@, r.event)]
                 /\ mode' = "up" /\ acked' = acked \cup {r}
              \/ UNCHANGED <<cases, events, mode, acked>>
              \/ /\ cases' = Empty(NoCase) /\ events' = Empty(<< >>)
                 /\ mode' = "down" /\ UNCHANGED acked
           /\ minted' = minted + 1 /\ minted' \in 0..MaxEvents
           /\ faults' \in 0..MaxFaults /\ damaged' \in BOOLEAN
<1>1. r \in Record /\ r \in Record \cup {Garbled} /\ Garbled \in Record \cup {Garbled} /\ mode = "up"
  BY DEF Extends
<1>2. \/ UNCHANGED file
      \/ \E text \in {Garbled, r}, ended \in BOOLEAN : WriteLine(text, ended)
  BY DEF Commit, Committed, WriteError, CrashInCommit, Fault
<1>3. /\ file' \in Seq([text : Record \cup {Garbled}, ended : BOOLEAN])
      /\ \A n \in Readable' : \/ file'[n].text = r
                              \/ n \in Readable /\ file'[n].text = file[n].text
  <2>1. CASE UNCHANGED file
    BY <2>1 DEF TypeOK, LedgerTypeOK, Readable
  <2>2. ASSUME NEW text \in {Garbled, r}, NEW ended \in BOOLEAN, WriteLine(text, ended)
        PROVE  <1>3!:
    <3>1. text \in Record \cup {Garbled}
      BY <1>1
    <3>. QED  BY <2>2, <3>1, WriteLineEffect DEF Readable
  <2>. QED  BY <1>2, <2>1, <2>2
<1>4. \/ /\ cases' = [cases EXCEPT ![r.id] = r.case]
         /\ events' = [events EXCEPT ![r.id] = Append(@, r.event)]
         /\ mode' = "up" /\ acked' = acked \cup {r}
      \/ UNCHANGED <<cases, events, mode, acked>>
      \/ /\ cases' = Empty(NoCase) /\ events' = Empty(<< >>)
         /\ mode' = "down" /\ UNCHANGED acked
  BY <1>1 DEF Commit, Committed, Project, WriteError, LeaveProjection, CrashInCommit
<1>5. minted' = minted + 1 /\ minted' \in 0..MaxEvents
  BY LedgerAssumption DEF Commit, TypeOK, LedgerTypeOK
<1>6. faults' \in 0..MaxFaults /\ damaged' \in BOOLEAN
  <2>1. MaxFaults \in Nat /\ faults \in 0..MaxFaults /\ damaged \in BOOLEAN
    BY LedgerAssumption DEF TypeOK, LedgerTypeOK
  <2>2. CASE Committed(r)
    BY <2>1, <2>2 DEF Committed
  <2>3. CASE WriteError(r)
    BY <2>1, <2>3 DEF WriteError, Fault
  <2>4. CASE CrashInCommit(r)
    <3>1. faults < MaxFaults /\ faults' = faults + 1 /\ (damaged' = damaged \/ damaged' = TRUE)
      BY <2>4 DEF CrashInCommit, Fault
    <3>2. damaged' \in BOOLEAN
      BY <2>1, <3>1, Zenon
    <3>. QED  BY <2>1, <3>1, <3>2
  <2>. QED  BY <2>2, <2>3, <2>4 DEF Commit
<1>. QED  BY <1>3, <1>4, <1>5, <1>6

\* A commit keeps the types.
LEMMA CommitType ==
    ASSUME TypeOK, NEW r, Extends(r), Commit(r), UNCHANGED <<roles, policy>>
    PROVE  TypeOK'
<1>1. r \in Record /\ r.id \in CaseId /\ r.case \in ReviewCase /\ r.event \in AuditEvent
  BY DEF Extends, Record
<1>2. /\ cases \in [CaseId -> ReviewCase \cup {NoCase}] /\ acked \subseteq Record
      /\ events \in [CaseId -> Seq(AuditEvent)] /\ mode \in {"up", "down", "refused"}
  BY DEF TypeOK, LedgerTypeOK
<1>3. /\ cases' \in [CaseId -> ReviewCase \cup {NoCase}] /\ acked' \subseteq Record
      /\ events' \in [CaseId -> Seq(AuditEvent)] /\ mode' \in {"up", "down", "refused"}
  <2>1. CASE /\ cases' = [cases EXCEPT ![r.id] = r.case]
             /\ events' = [events EXCEPT ![r.id] = Append(@, r.event)]
             /\ mode' = "up" /\ acked' = acked \cup {r}
    <3>1. Append(events[r.id], r.event) \in Seq(AuditEvent)
      BY <1>1, <1>2
    <3>2. events' \in [CaseId -> Seq(AuditEvent)]
      BY <1>2, <2>1, <3>1
    <3>. QED  BY <1>1, <1>2, <2>1, <3>2
  <2>2. CASE UNCHANGED <<cases, events, mode, acked>>
    BY <1>2, <2>2
  <2>3. CASE /\ cases' = Empty(NoCase) /\ events' = Empty(<< >>)
             /\ mode' = "down" /\ UNCHANGED acked
    <3>1. << >> \in Seq(AuditEvent)
      BY EmptySeq
    <3>. QED  BY <1>2, <2>3, <3>1 DEF Empty
  <2>. QED  BY <2>1, <2>2, <2>3, CommitEffect
<1>. QED  BY <1>3, CommitEffect DEF TypeOK, LedgerTypeOK

\* The last event of a case that the process shows is a known event.
LEMMA LastIsKnown ==
    ASSUME TypeOK, EventsOK, NEW id \in CaseId, events[id] # << >>
    PROVE  Last(id) \in AuditEvent /\ Known(id, Last(id)) /\ Last(id).hash \in 1..minted
<1>1. events[id] \in Seq(AuditEvent)
  BY DEF TypeOK, LedgerTypeOK
<1>2. Len(events[id]) \in 1..Len(events[id])
  BY <1>1, EmptySeq
<1>3. Last(id) \in AuditEvent
  BY <1>1, <1>2, ElementOfSeq DEF Last
<1>4. Known(id, Last(id))
  BY <1>2 DEF Known, Last
<1>. QED  BY <1>3, <1>4 DEF EventsOK

\* The only event that a commit makes known is its own.
LEMMA KnownAfterCommit ==
    ASSUME TypeOK, NEW r, Extends(r), Commit(r), NEW id, NEW e, id \in CaseId, Known(id, e)'
    PROVE  Known(id, e) \/ (id = r.id /\ e = r.event)
<1>1. r \in Record /\ r.id \in CaseId /\ r.event \in AuditEvent /\ events \in [CaseId -> Seq(AuditEvent)]
  BY DEF Extends, Record, TypeOK, LedgerTypeOK
<1>2. ASSUME NEW n \in Readable', file'[n].text.id = id, file'[n].text.event = e
      PROVE  Known(id, e) \/ (id = r.id /\ e = r.event)
  BY <1>2, CommitEffect DEF Known
<1>3. ASSUME NEW i \in 1..Len(events'[id]), events'[id][i] = e
      PROVE  Known(id, e) \/ (id = r.id /\ e = r.event)
  <2>1. CASE events' = [events EXCEPT ![r.id] = Append(@, r.event)]
    <3>1. CASE id # r.id
      BY <1>1, <1>3, <2>1, <3>1 DEF Known
    <3>2. CASE id = r.id
      <4>1. events'[id] = Append(events[id], r.event) /\ events[id] \in Seq(AuditEvent)
        BY <1>1, <2>1, <3>2
      <4>2. /\ Len(events'[id]) = Len(events[id]) + 1 /\ Len(events[id]) \in Nat
            /\ \A j \in 1..Len(events[id]) : events'[id][j] = events[id][j]
            /\ events'[id][Len(events[id]) + 1] = r.event
        BY <1>1, <4>1, AppendProperties
      <4>3. i \in 1..Len(events[id]) \/ i = Len(events[id]) + 1
        BY <4>2
      <4>. QED  BY <1>3, <3>2, <4>2, <4>3 DEF Known
    <3>. QED  BY <3>1, <3>2
  <2>2. CASE UNCHANGED events
    BY <1>3, <2>2 DEF Known
  <2>3. CASE events' = Empty(<< >>)
    <3>1. events'[id] = << >>
      BY <2>3 DEF Empty
    <3>. QED  BY <1>3, <3>1, EmptySeq
  <2>. QED  BY <2>1, <2>2, <2>3, CommitEffect
<1>. QED  BY <1>2, <1>3 DEF Known

\* A commit keeps what events say alone and of each other.
LEMMA CommitEvents ==
    ASSUME TypeOK, EventsOK, LinksOK, NEW r, Extends(r), Commit(r)
    PROVE  EventsOK' /\ LinksOK'
<1>. DEFINE f == r.event
<1>1. /\ r.id \in CaseId /\ f \in AuditEvent /\ EventOK(f) /\ f.hash = minted + 1
      /\ minted \in Nat /\ minted' = minted + 1
  <2>1. r \in Record /\ EventOK(f) /\ f.hash = minted + 1
    BY DEF Extends
  <2>2. r.id \in CaseId /\ f \in AuditEvent
    BY <2>1 DEF Record
  <2>3. minted \in Nat
    BY LedgerAssumption DEF TypeOK, LedgerTypeOK
  <2>. QED  BY <2>1, <2>2, <2>3, CommitEffect
<1>2. \/ events[r.id] = << >> /\ f.previous = 0
      \/ /\ events[r.id] # << >> /\ f.previous = Last(r.id).hash
         /\ Last(r.id) \in AuditEvent /\ Known(r.id, Last(r.id)) /\ Last(r.id).hash \in 1..minted
         /\ Follows(Last(r.id), f)
  BY <1>1, LastIsKnown DEF Extends
<1>3. f.previous \in 0..minted
  BY <1>1, <1>2
<1>. HIDE DEF f
<1>4. \A id \in CaseId, e \in AuditEvent : Known(id, e)' => Known(id, e) \/ (id = r.id /\ e = f)
  BY KnownAfterCommit DEF f
<1>5. \A id \in CaseId, e \in AuditEvent : Known(id, e) =>
          EventOK(e) /\ e.hash \in 1..minted /\ e.previous < e.hash /\ e.previous \in Nat
  BY DEF EventsOK, AuditEvent
<1>6. EventsOK'
  <2>1. ASSUME NEW id \in CaseId, NEW e \in AuditEvent, Known(id, e)'
        PROVE  EventOK(e) /\ e.hash \in 1..minted' /\ e.previous < e.hash
    <3>1. CASE Known(id, e)
      BY <1>1, <1>5, <3>1
    <3>2. CASE e = f
      BY <1>1, <1>3, <3>2
    <3>. QED  BY <1>4, <2>1, <3>1, <3>2
  <2>. QED  BY <2>1 DEF EventsOK, EventOK
<1>7. LinksOK'
  <2>1. ASSUME NEW a \in CaseId, NEW b \in CaseId, NEW d \in AuditEvent, NEW e \in AuditEvent,
               Known(a, d)', Known(b, e)'
        PROVE  /\ d.hash = e.hash => a = b /\ d = e
               /\ e.previous = d.hash => Follows(d, e)
    <3>1. CASE Known(a, d) /\ Known(b, e)
      BY <3>1 DEF LinksOK
    <3>2. CASE Known(a, d) /\ b = r.id /\ e = f
      <4>1. d.hash \in 1..minted
        BY <1>5, <3>2
      <4>2. d.hash # e.hash
        BY <1>1, <3>2, <4>1
      <4>3. ASSUME e.previous = d.hash PROVE Follows(d, e)
        <5>1. f.previous = d.hash /\ d.hash # 0
          BY <3>2, <4>1, <4>3
        <5>2. Last(r.id) \in AuditEvent /\ Known(r.id, Last(r.id)) /\ d.hash = Last(r.id).hash
              /\ Follows(Last(r.id), f)
          BY <1>2, <5>1
        <5>3. d = Last(r.id)
          BY <1>1, <3>2, <5>2 DEF LinksOK
        <5>. QED  BY <3>2, <5>2, <5>3
      <4>. QED  BY <4>2, <4>3
    <3>3. CASE a = r.id /\ d = f /\ Known(b, e)
      <4>1. e.hash \in 1..minted /\ e.previous < e.hash /\ e.previous \in Nat
        BY <1>5, <3>3
      <4>2. e.hash # d.hash /\ e.previous # d.hash
        BY <1>1, <3>3, <4>1
      <4>. QED  BY <4>2
    <3>4. CASE a = r.id /\ d = f /\ b = r.id /\ e = f
      <4>1. e.previous # d.hash
        BY <1>1, <1>3, <3>4
      <4>. QED  BY <3>4, <4>1
    <3>. QED  BY <1>4, <2>1, <3>1, <3>2, <3>3, <3>4
  <2>. QED  BY <2>1 DEF LinksOK, Follows
<1>. QED  BY <1>6, <1>7

\* A commit keeps records in step with their events, and the trails chained.
LEMMA CommitTrails ==
    ASSUME TypeOK, RecordsOK, TrailsOK, AckedOK, NEW r, Extends(r), Commit(r)
    PROVE  RecordsOK' /\ TrailsOK' /\ AckedOK'
<1>1. /\ r \in Record /\ r.id \in CaseId /\ r.case \in ReviewCase /\ r.event \in AuditEvent
      /\ r.event.hash = minted + 1 /\ Agrees(r.case, r.event)
      /\ r.event.sequence = Len(events[r.id]) + 1
      /\ r.event.previous = IF events[r.id] = << >> THEN 0 ELSE Last(r.id).hash
  BY DEF Extends, Record
<1>2. events \in [CaseId -> Seq(AuditEvent)] /\ cases \in [CaseId -> ReviewCase \cup {NoCase}]
      /\ acked \subseteq Record /\ minted \in Nat
  BY LedgerAssumption DEF TypeOK, LedgerTypeOK
<1>3. RecordsOK'
  <2>1. \A n \in Readable' : Agrees(file'[n].text.case, file'[n].text.event)
    BY <1>1, CommitEffect DEF RecordsOK
  <2>. QED  BY <2>1 DEF RecordsOK, Agrees
<1>4. ASSUME NEW id \in CaseId PROVE TrailOK(events'[id], cases'[id])
  <2>1. CASE events' = [events EXCEPT ![r.id] = Append(@, r.event)] /\ cases' = [cases EXCEPT ![r.id] = r.case]
    <3>1. CASE id # r.id
      BY <1>1, <1>2, <2>1, <3>1 DEF TrailsOK
    <3>2. CASE id = r.id
      <4>. DEFINE old == events[id]
                  new == events'[id]
      <4>1. new = Append(old, r.event) /\ old \in Seq(AuditEvent) /\ cases'[id] = r.case
        BY <1>1, <1>2, <2>1, <3>2
      <4>2. /\ new # << >> /\ Len(new) = Len(old) + 1 /\ Len(old) \in Nat
            /\ \A j \in 1..Len(old) : new[j] = old[j]
            /\ new[Len(old) + 1] = r.event
        BY <1>1, <4>1, AppendProperties
      <4>3. r.case # NoCase
        BY <1>1, LedgerAssumption
      <4>4. \A i \in 1..Len(old) : /\ old[i].sequence = i
                                   /\ old[i].previous = IF i = 1 THEN 0 ELSE old[i - 1].hash
        BY DEF TrailsOK, TrailOK
      <4>5. old = << >> <=> Len(old) = 0
        BY <4>1, EmptySeq
      <4>6. /\ r.event.sequence = Len(old) + 1
            /\ r.event.previous = IF old = << >> THEN 0 ELSE old[Len(old)].hash
        BY <1>1, <3>2 DEF Last
      <4>. HIDE DEF old, new
      <4>7. ASSUME NEW i \in 1..Len(new)
            PROVE  new[i].sequence = i /\ new[i].previous = IF i = 1 THEN 0 ELSE new[i - 1].hash
        <5>1. CASE i \in 1..Len(old)
          <6>1. i # 1 => i - 1 \in 1..Len(old)
            BY <4>2, <5>1
          <6>2. i # 1 => new[i - 1] = old[i - 1]
            BY <4>2, <6>1
          <6>3. new[i] = old[i]
            BY <4>2, <5>1
          <6>. QED  BY <4>4, <5>1, <6>2, <6>3
        <5>2. CASE i = Len(old) + 1
          <6>1. i # 1 <=> old # << >>
            BY <4>2, <4>5, <5>2
          <6>2. i # 1 => i - 1 = Len(old) /\ i - 1 \in 1..Len(old)
            BY <4>2, <5>2
          <6>3. i # 1 => new[i - 1] = old[Len(old)]
            BY <4>2, <6>2
          <6>4. new[i] = r.event
            BY <4>2, <5>2
          <6>. QED  BY <4>6, <5>2, <6>1, <6>3, <6>4
        <5>. QED  BY <4>2, <5>1, <5>2
      <4>8. new[Len(new)] = r.event
        BY <4>2
      <4>. QED  BY <1>1, <4>1, <4>2, <4>3, <4>7, <4>8 DEF TrailOK, new
    <3>. QED  BY <3>1, <3>2
  <2>2. CASE UNCHANGED <<cases, events>>
    BY <2>2 DEF TrailsOK
  <2>3. CASE cases' = Empty(NoCase) /\ events' = Empty(<< >>)
    <3>1. cases'[id] = NoCase /\ events'[id] = << >>
      BY <2>3 DEF Empty
    <3>. QED  BY <3>1, EmptySeq DEF TrailOK
  <2>. QED  BY <2>1, <2>2, <2>3, CommitEffect
<1>5. TrailsOK'
  BY <1>4 DEF TrailsOK, TrailOK, Agrees
<1>6. AckedOK'
  <2>1. \A s \in acked : s.event.hash \in Nat /\ s.event.hash <= minted
    BY <1>2 DEF AckedOK, Record, AuditEvent
  <2>2. \A s \in acked' : s \in acked \/ s = r
    BY CommitEffect
  <2>3. \A s \in acked' : s.event.hash <= minted + 1
    BY <1>1, <1>2, <2>1, <2>2
  <2>. QED  BY <2>3, CommitEffect DEF AckedOK
<1>. QED  BY <1>3, <1>5, <1>6

\* A commit gives no request a second case.
LEMMA CommitRequests ==
    ASSUME TypeOK, RequestsOK, NEW r, Extends(r), Commit(r), UNCHANGED policy
    PROVE  RequestsOK'
<1>. DEFINE idOf(n) == file[n].text.id
<1>1. /\ r \in Record /\ r.id \in CaseId /\ r.case # NoCase /\ mode = "up"
      /\ cases[r.id] # NoCase \/ (r.id[2] = policy /\ CaseOf(r.id[1]) = {})
  <2>1. r \in Record
    BY DEF Extends
  <2>2. r.id \in CaseId /\ r.case \in ReviewCase
    BY <2>1 DEF Record
  <2>. QED  BY <2>1, <2>2, LedgerAssumption DEF Extends
<1>2. \A a, b \in CaseId : a[1] = b[1] /\ a[2] = b[2] => a = b
  BY DEF CaseId
<1>3. \A n \in Readable : idOf(n) \in CaseId
  BY ReadableLines DEF Record
<1>4. /\ \A a, b \in CaseId : cases[a] # NoCase /\ cases[b] # NoCase /\ a[1] = b[1] => a = b
      /\ \A m, n \in Readable : idOf(m)[1] = idOf(n)[1] => idOf(m) = idOf(n)
      /\ \A n \in Readable : cases[idOf(n)] # NoCase \/ idOf(n)[2] = policy
      /\ \A n \in Readable, id \in CaseId : cases[id] # NoCase /\ id[1] = idOf(n)[1] => id = idOf(n)
  BY <1>1 DEF RequestsOK, OneCasePerRequest
<1>5. \A n \in Readable' : file'[n].text.id = r.id \/ (n \in Readable /\ file'[n].text.id = idOf(n))
  BY CommitEffect
<1>6. \A id \in CaseId : cases[id] # NoCase /\ id[1] = r.id[1] => id = r.id
  <2>1. CASE cases[r.id] # NoCase
    BY <1>1, <1>4, <2>1
  <2>2. CASE CaseOf(r.id[1]) = {}
    BY <2>2 DEF CaseOf
  <2>. QED  BY <1>1, <2>1, <2>2
<1>7. \A n \in Readable : idOf(n)[1] = r.id[1] => idOf(n) = r.id
  <2>1. CASE cases[r.id] # NoCase
    BY <1>1, <1>4, <2>1
  <2>2. CASE r.id[2] = policy /\ CaseOf(r.id[1]) = {}
    <3>1. \A n \in Readable : idOf(n)[1] = r.id[1] => cases[idOf(n)] = NoCase
      BY <1>3, <2>2 DEF CaseOf
    <3>. QED  BY <1>1, <1>2, <1>3, <1>4, <2>2, <3>1
  <2>. QED  BY <1>1, <2>1, <2>2
<1>. HIDE DEF idOf
<1>8. \/ /\ \A id \in CaseId : cases'[id] # NoCase <=> cases[id] # NoCase \/ id = r.id
      \/ /\ cases' = cases
      \/ /\ \A id \in CaseId : cases'[id] = NoCase
         /\ mode' = "down"
  <2>1. cases \in [CaseId -> ReviewCase \cup {NoCase}]
    BY DEF TypeOK, LedgerTypeOK
  <2>2. CASE cases' = [cases EXCEPT ![r.id] = r.case]
    BY <1>1, <2>1, <2>2
  <2>3. CASE cases' = Empty(NoCase) /\ mode' = "down"
    BY <2>3 DEF Empty
  <2>. QED  BY <2>2, <2>3, CommitEffect
<1>9. \A a, b \in CaseId : cases'[a] # NoCase /\ cases'[b] # NoCase /\ a[1] = b[1] => a = b
  BY <1>1, <1>4, <1>6, <1>8
<1>10. \A m, n \in Readable' : file'[m].text.id[1] = file'[n].text.id[1] => file'[m].text.id = file'[n].text.id
  BY <1>4, <1>5, <1>7
<1>11. ASSUME mode' = "up", NEW n \in Readable'
       PROVE  /\ cases'[file'[n].text.id] # NoCase \/ file'[n].text.id[2] = policy
              /\ \A id \in CaseId : cases'[id] # NoCase /\ id[1] = file'[n].text.id[1] => id = file'[n].text.id
  <2>1. CASE file'[n].text.id = r.id
    BY <1>1, <1>6, <1>8, <1>11, <2>1
  <2>2. CASE n \in Readable /\ file'[n].text.id = idOf(n)
    BY <1>3, <1>4, <1>7, <1>8, <1>11, <2>2
  <2>. QED  BY <1>5, <2>1, <2>2
<1>. QED  BY <1>9, <1>10, <1>11 DEF RequestsOK, OneCasePerRequest

\* The part of LinesAreNumbered that is needed in the state after a step too.
FoundByNumber == \A id \in CaseId : \A k \in LinesOf(id, Len(file)) :
                     LineOf(id, Cardinality(LinesOf(id, k))) = k

\* The number of a record finds its line, in any state of the right types.
LEMMA LinesAreFound == TypeOK => FoundByNumber
BY LinesAreNumbered DEF FoundByNumber

\* A line that is appended whole adds its record to what a replay makes.
LEMMA AppendedLine ==
    ASSUME TypeOK, TypeOK', NEW r \in Record, NEW id \in CaseId,
           file' = Append(file, [text |-> r, ended |-> TRUE])
    PROVE  /\ Len(file') = Len(file) + 1
           /\ \A n \in 1..Len(file) : file'[n] = file[n]
           /\ file'[Len(file) + 1] = [text |-> r, ended |-> TRUE]
           /\ \A n \in 0..Len(file) : EventsIn(n, id)' = EventsIn(n, id)
           /\ ReplayedEvents'[id] = IF id = r.id THEN Append(ReplayedEvents[id], r.event) ELSE ReplayedEvents[id]
           /\ ReplayedCases'[id] = IF id = r.id THEN r.case ELSE ReplayedCases[id]
<1>. DEFINE line == [text |-> r, ended |-> TRUE]
<1>1. PICK N \in Nat : N = Len(file)
  BY ReadableLines
<1>2. PICK L : L = LinesOf(id, N)
  OBVIOUS
<1>3. PICK C : C = Cardinality(L)
  OBVIOUS
<1>4. file \in Seq([text : Record \cup {Garbled}, ended : BOOLEAN])
      /\ line \in [text : Record \cup {Garbled}, ended : BOOLEAN]
  BY DEF TypeOK, LedgerTypeOK
<1>5. Len(file') = N + 1 /\ (\A n \in 1..N : file'[n] = file[n]) /\ file'[N + 1] = line
  BY <1>1, <1>4, AppendProperties
<1>6. r # Garbled /\ line.text = r
  BY LedgerAssumption
<1>. HIDE DEF line
<1>7. \A n \in 0..N : LinesOf(id, n)' = LinesOf(id, n)
  <2>1. ASSUME NEW n \in 0..N PROVE LinesOf(id, n)' = LinesOf(id, n)
    <3>1. \A k \in 1..n : k \in 1..N /\ file'[k] = file[k]
      BY <1>5
    <3>. QED  BY <3>1 DEF LinesOf
  <2>. QED  BY <2>1
<1>8. LinesOf(id, N + 1)' = IF id = r.id THEN L \cup {N + 1} ELSE L
  <2>1. \A k : k \in 1..(N + 1) <=> k \in 1..N \/ k = N + 1
    OBVIOUS
  <2>2. \A k \in 1..N : file'[k].text = file[k].text
    BY <1>5
  <2>3. file'[N + 1].text = r
    BY <1>5, <1>6
  <2>. QED  BY <1>2, <1>6, <2>1, <2>2, <2>3 DEF LinesOf
<1>9. /\ C \in Nat /\ (L = {} <=> C = 0)
      /\ \A i \in 1..C : LineOf(id, i) \in L /\ Cardinality(LinesOf(id, LineOf(id, i))) = i
      /\ \A n \in 0..N : Cardinality(LinesOf(id, n)) \in 0..C
      /\ L \in SUBSET (1..N)
  <2>1. L \in SUBSET (1..N)
    BY <1>2 DEF LinesOf
  <2>. QED  BY <1>1, <1>2, <1>3, <2>1, LinesAreNumbered
<1>10. Cardinality(LinesOf(id, N + 1)') = IF id = r.id THEN C + 1 ELSE C
  <2>1. N + 1 \notin L
    BY <1>9
  <2>2. IsFiniteSet(L)
    <3>1. IsFiniteSet(1..N)
      BY FS_Interval
    <3>. QED  BY <1>9, <3>1, FS_Subset
  <2>. QED  BY <1>3, <1>8, <2>1, <2>2, FS_AddElement
<1>11. \A k \in LinesOf(id, N + 1)' : LineOf(id, Cardinality(LinesOf(id, k)))' = k
  <2>1. TypeOK' => FoundByNumber'
    BY LinesAreFound, PTL
  <2>2. \A k \in LinesOf(id, Len(file))' : LineOf(id, Cardinality(LinesOf(id, k)))' = k
    BY <2>1 DEF FoundByNumber
  <2>3. LinesOf(id, Len(file))' = LinesOf(id, N + 1)'
    BY <1>5 DEF LinesOf
  <2>. QED  BY <2>2, <2>3
<1>12. \A i \in 1..C : LineOf(id, i)' = LineOf(id, i) /\ LineOf(id, i) \in 1..N
  <2>1. ASSUME NEW i \in 1..C PROVE LineOf(id, i)' = LineOf(id, i) /\ LineOf(id, i) \in 1..N
    <3>1. PICK k \in L : k = LineOf(id, i) /\ Cardinality(LinesOf(id, k)) = i
      BY <1>9
    <3>2. k \in 1..N /\ k \in 0..N /\ k \in LinesOf(id, N + 1)'
      BY <1>8, <1>9
    <3>3. LinesOf(id, k)' = LinesOf(id, k)
      BY <1>7, <3>2
    <3>4. Cardinality(LinesOf(id, k))' = i
      BY <3>1, <3>3
    <3>. QED  BY <1>11, <3>1, <3>2, <3>4
  <2>. QED  BY <2>1
<1>13. \A n \in 0..N : EventsIn(n, id)' = EventsIn(n, id)
  <2>1. ASSUME NEW n \in 0..N PROVE EventsIn(n, id)' = EventsIn(n, id)
    <3>1. PICK c \in 0..C : c = Cardinality(LinesOf(id, n))
      BY <1>9
    <3>2. EventsIn(n, id) = [i \in 1..c |-> file[LineOf(id, i)].text.event]
      BY <3>1 DEF EventsIn
    <3>3. Cardinality(LinesOf(id, n))' = c
      BY <1>7, <3>1
    <3>4. EventsIn(n, id)' = [i \in 1..c |-> file'[LineOf(id, i)'].text.event]
      BY <3>3 DEF EventsIn
    <3>5. \A i \in 1..c : file'[LineOf(id, i)'].text.event = file[LineOf(id, i)].text.event
      <4>1. \A i \in 1..c : i \in 1..C
        BY <1>9
      <4>. QED  BY <1>5, <1>12, <4>1
    <3>. QED  BY <3>2, <3>4, <3>5
  <2>. QED  BY <2>1
<1>14. id = r.id => \A i : i = C + 1 => LineOf(id, i)' = N + 1
  BY <1>8, <1>10, <1>11
<1>15. EventsIn(N, id) \in Seq(AuditEvent) /\ Len(EventsIn(N, id)) = C
       /\ \A i \in 1..C : EventsIn(N, id)[i] = file[LineOf(id, i)].text.event
  BY <1>1, <1>2, <1>3, N \in 0..N, EventsInLines
<1>16. EventsIn(N + 1, id)' = IF id = r.id THEN Append(EventsIn(N, id), r.event) ELSE EventsIn(N, id)
  <2>0. \A i \in 1..C : file'[LineOf(id, i)'].text.event = EventsIn(N, id)[i]
    BY <1>5, <1>12, <1>15
  <2>1. CASE id # r.id
    <3>1. EventsIn(N + 1, id)' = [i \in 1..C |-> file'[LineOf(id, i)'].text.event]
      BY <1>10, <2>1 DEF EventsIn
    <3>2. EventsIn(N, id) = [i \in 1..C |-> EventsIn(N, id)[i]]
      BY <1>2, <1>3 DEF EventsIn
    <3>. QED  BY <2>0, <2>1, <3>1, <3>2
  <2>2. CASE id = r.id
    <3>. DEFINE new == EventsIn(N + 1, id)'
                old == EventsIn(N, id)
    <3>1. new = [i \in 1..(C + 1) |-> file'[LineOf(id, i)'].text.event]
      BY <1>10, <2>2 DEF EventsIn
    <3>2. /\ \A i \in 1..(C + 1) : i \in 1..C \/ i = C + 1
          /\ \A i \in 1..C : i \in 1..(C + 1)
          /\ C + 1 \in 1..(C + 1)
      BY <1>9
    <3>3. file'[N + 1].text.event = r.event
      BY <1>5, <1>6
    <3>4. \A i \in 1..C : new[i] = old[i]
      BY <2>0, <3>1, <3>2, Zenon
    <3>5. new[C + 1] = r.event
      <4>1. \A i : i \in 1..(C + 1) => new[i] = file'[LineOf(id, i)'].text.event
        BY <3>1, Zenon
      <4>2. \A i : i = C + 1 => file'[LineOf(id, i)'].text.event = r.event
        BY <1>14, <2>2, <3>3, Zenon
      <4>. HIDE DEF new
      <4>. QED  BY <3>2, <4>1, <4>2, Zenon
    <3>6. r.event \in AuditEvent
      BY DEF Record
    <3>7. /\ Append(old, r.event) \in Seq(AuditEvent) /\ Len(Append(old, r.event)) = C + 1
          /\ \A i \in 1..C : Append(old, r.event)[i] = old[i]
          /\ Append(old, r.event)[C + 1] = r.event
      BY <1>15, <3>6, AppendProperties
    <3>8. Append(old, r.event) = [i \in 1..(C + 1) |-> Append(old, r.event)[i]]
      BY <3>7, LenProperties, Zenon
    <3>9. new = [i \in 1..(C + 1) |-> new[i]]
      BY <3>1, Zenon
    <3>. HIDE DEF new, old
    <3>10. \A i \in 1..(C + 1) : new[i] = Append(old, r.event)[i]
      BY <3>2, <3>4, <3>5, <3>7, Zenon
    <3>11. new = Append(old, r.event)
      BY <3>8, <3>9, <3>10, Zenon
    <3>. QED  BY <2>2, <3>11 DEF new, old
  <2>. QED  BY <2>1, <2>2
<1>17. ReplayedEvents'[id] = IF id = r.id THEN Append(ReplayedEvents[id], r.event) ELSE ReplayedEvents[id]
  <2>1. ReplayedEvents[id] = EventsIn(N, id)
    BY <1>1 DEF ReplayedEvents
  <2>2. ReplayedEvents'[id] = EventsIn(Len(file), id)'
    BY DEF ReplayedEvents
  <2>3. EventsIn(Len(file), id)' = EventsIn(N + 1, id)'
    BY <1>5 DEF EventsIn
  <2>. QED  BY <1>16, <2>1, <2>2, <2>3
<1>18. ReplayedCases'[id] = IF id = r.id THEN r.case ELSE ReplayedCases[id]
  <2>1. ReplayedCases[id] = IF L = {} THEN NoCase ELSE file[LineOf(id, C)].text.case
    BY <1>1, <1>2, <1>3 DEF ReplayedCases
  <2>2. ReplayedCases'[id] = IF LinesOf(id, N + 1)' = {} THEN NoCase
                             ELSE file'[LineOf(id, Cardinality(LinesOf(id, N + 1)))'].text.case
    BY <1>5 DEF ReplayedCases
  <2>3. CASE id # r.id
    <3>1. Cardinality(LinesOf(id, N + 1))' = C
      BY <1>10, <2>3
    <3>2. L # {} => C \in 1..C
      <4>1. C \in Nat /\ (L # {} => C # 0)
        BY <1>9, Zenon
      <4>. QED  BY <4>1
    <3>3. L # {} => file'[LineOf(id, C)'].text.case = file[LineOf(id, C)].text.case
      BY <1>5, <1>12, <3>2
    <3>4. LineOf(id, Cardinality(LinesOf(id, N + 1)))' = LineOf(id, C)'
      BY <3>1
    <3>. QED  BY <1>8, <2>1, <2>2, <2>3, <3>3, <3>4
  <2>4. CASE id = r.id
    <3>1. LineOf(id, Cardinality(LinesOf(id, N + 1)))' = N + 1
      BY <1>8, <1>11, <2>4
    <3>2. file'[N + 1].text.case = r.case
      BY <1>5, <1>6
    <3>. QED  BY <1>8, <2>2, <2>4, <3>1, <3>2
  <2>. QED  BY <2>3, <2>4
<1>. QED  BY <1>1, <1>5, <1>13, <1>17, <1>18 DEF line


\* The lines of the ledger are whole, and a startup accepts them.
Whole == (\A n \in 1..Len(file) : file[n].text # Garbled /\ file[n].ended) /\ Replays

\* A transition whose record reaches a whole ledger whole leaves it whole.
LEMMA AppendKeepsWhole ==
    ASSUME TypeOK, TypeOK', Whole, NEW r, Extends(r), events = ReplayedEvents,
           file' = Append(file, [text |-> r, ended |-> TRUE])
    PROVE  Whole'
<1>1. PICK N \in Nat : N = Len(file)
  BY ReadableLines
<1>2. r \in Record /\ r.id \in CaseId /\ r # Garbled
  <2>1. r \in Record
    BY DEF Extends
  <2>. QED  BY <2>1, LedgerAssumption DEF Record
<1>3. Len(file') = N + 1 /\ (\A n \in 1..N : file'[n] = file[n])
      /\ file'[N + 1] = [text |-> r, ended |-> TRUE]
  BY <1>1, <1>2, AppendedLine
<1>4. \A id \in CaseId : \A n \in 0..N : EventsIn(n, id)' = EventsIn(n, id)
  BY <1>1, <1>2, AppendedLine
<1>5. \A n \in 1..(N + 1) : n \in 1..N \/ n = N + 1
  BY <1>1
<1>6. file'[N + 1].text = r /\ file'[N + 1].ended
  BY <1>3
<1>7. \A n \in 1..Len(file') : file'[n].text # Garbled /\ file'[n].ended
  BY <1>1, <1>2, <1>3, <1>5, <1>6 DEF Whole
<1>8. Continues(EventsIn(N, r.id), r.event)
  <2>1. EventsIn(N, r.id) = events[r.id]
    BY <1>1, <1>2 DEF ReplayedEvents
  <2>. QED  BY <2>1 DEF Extends, Continues, Last
<1>9. ASSUME NEW n \in 1..N PROVE Continues(EventsIn(n - 1, file[n].text.id), file[n].text.event)
                                 /\ file[n].text.id \in CaseId /\ n - 1 \in 0..N
  <2>1. Continues(EventsIn(n - 1, file[n].text.id), file[n].text.event) /\ n \in Readable
    BY <1>1 DEF Whole, Replays, Readable
  <2>2. file[n].text.id \in CaseId
    BY <2>1, ReadableLines DEF Record
  <2>3. n - 1 \in 0..N
    OBVIOUS
  <2>. QED  BY <2>1, <2>2, <2>3
<1>10. ASSUME NEW n \in 1..(N + 1)
       PROVE  file'[n].text # Garbled /\ Continues(EventsIn(n - 1, file[n].text.id)', file'[n].text.event)
  <2>1. CASE n \in 1..N
    <3>1. EventsIn(n - 1, file[n].text.id)' = EventsIn(n - 1, file[n].text.id)
      <4>1. PICK m \in 0..N : m = n - 1
        BY <1>9, <2>1
      <4>2. PICK id \in CaseId : id = file[n].text.id /\ id = file'[n].text.id
        BY <1>3, <1>9, <2>1
      <4>3. EventsIn(m, id)' = EventsIn(m, id)
        BY <1>4
      <4>4. EventsIn(n - 1, file[n].text.id)' = EventsIn(m, id)'
        BY <4>1, <4>2 DEF EventsIn
      <4>. QED  BY <4>1, <4>2, <4>3, <4>4
    <3>. QED  BY <1>3, <1>7, <1>9, <2>1, <3>1
  <2>2. CASE n = N + 1
    <3>1. PICK id \in CaseId : id = r.id /\ id = file'[n].text.id
      BY <1>2, <1>6, <2>2
    <3>2. EventsIn(N, id)' = EventsIn(N, id)
      BY <1>1, <1>4
    <3>3. n - 1 = N
      BY <2>2
    <3>4. EventsIn(n - 1, file[n].text.id)' = EventsIn(N, id)'
      BY <3>1, <3>3 DEF EventsIn
    <3>. QED  BY <1>2, <1>6, <1>8, <2>2, <3>1, <3>2, <3>4
  <2>. QED  BY <1>5, <2>1, <2>2
<1>. QED  BY <1>3, <1>7, <1>10 DEF Whole, Replays, Continues

\* What a replay makes is a matter of the file alone.
LEMMA SameFile ==
    ASSUME UNCHANGED file
    PROVE  /\ Replays' <=> Replays
           /\ ReplayedEvents' = ReplayedEvents /\ ReplayedCases' = ReplayedCases
           /\ Readable' = Readable
<1>1. \A id, n : LinesOf(id, n)' = LinesOf(id, n)
  BY DEF LinesOf
<1>2. \A id, i : LineOf(id, i)' = LineOf(id, i)
  BY <1>1 DEF LineOf
<1>3. \A n, id : EventsIn(n, id)' = EventsIn(n, id)
  BY <1>1, <1>2 DEF EventsIn
<1>4. Replays' <=> Replays
  BY <1>3 DEF Replays, Continues
<1>5. ReplayedEvents' = ReplayedEvents
  BY <1>3 DEF ReplayedEvents
<1>6. ReplayedCases' = ReplayedCases
  BY <1>1, <1>2 DEF ReplayedCases
<1>. QED  BY <1>4, <1>5, <1>6 DEF Readable

\* Until an append fails, what the process shows and what it has acknowledged is on the ledger.
LEMMA CommitLedger ==
    ASSUME TypeOK, TypeOK', LedgerOK, NEW r, Extends(r), Commit(r)
    PROVE  LedgerOK'
<1>. SUFFICES ASSUME ~damaged' PROVE LedgerOK'
  BY DEF LedgerOK
<1>1. ~damaged /\ (Committed(r) \/ CrashInCommit(r))
  <2>1. WriteError(r) => damaged'
    BY Zenon DEF WriteError
  <2>2. Committed(r) => damaged' = damaged
    BY Zenon DEF Committed
  <2>3. CrashInCommit(r) => damaged' = damaged \/ damaged'
    BY Zenon DEF CrashInCommit
  <2>4. Committed(r) \/ WriteError(r) \/ CrashInCommit(r)
    BY DEF Commit
  <2>5. damaged' = damaged => ~damaged
    BY SMT DEF TypeOK, LedgerTypeOK
  <2>. QED  BY <2>1, <2>2, <2>3, <2>4, <2>5, Zenon
<1>2. /\ Whole /\ events = ReplayedEvents /\ cases = ReplayedCases /\ mode = "up"
      /\ \A s \in acked : Recorded(s)
  BY <1>1 DEF LedgerOK, Whole, Extends
<1>3. r \in Record /\ r.id \in CaseId /\ r.event \in AuditEvent
  BY DEF Extends, Record
<1>4. WriteLine(r, TRUE) => file' = Append(file, [text |-> r, ended |-> TRUE])
  <2>1. file # << >> => Len(file) \in 1..Len(file)
    BY EmptySeq DEF TypeOK, LedgerTypeOK
  <2>. QED  BY <1>2, <2>1 DEF WriteLine, Whole
<1>5. ASSUME file' = Append(file, [text |-> r, ended |-> TRUE])
      PROVE  /\ Whole' /\ (\A s \in acked : Recorded(s)') /\ Recorded(r)'
             /\ \A id \in CaseId :
                   /\ ReplayedEvents'[id] = IF id = r.id THEN Append(events[id], r.event) ELSE events[id]
                   /\ ReplayedCases'[id] = IF id = r.id THEN r.case ELSE cases[id]
  <2>1. Whole'
    BY <1>2, <1>5, AppendKeepsWhole
  <2>2. PICK N \in Nat : N = Len(file)
    BY ReadableLines
  <2>3. Len(file') = N + 1 /\ (\A n \in 1..N : file'[n] = file[n])
        /\ file'[N + 1] = [text |-> r, ended |-> TRUE]
    BY <1>3, <1>5, <2>2, AppendedLine
  <2>4. Readable' = 1..(N + 1) /\ Readable = 1..N
    BY <1>2, <2>1, <2>2, <2>3 DEF Whole, Readable
  <2>5. \A n \in 1..N : n \in 1..(N + 1)
    OBVIOUS
  <2>6. \A s \in acked : Recorded(s)'
    BY <1>2, <2>3, <2>4, <2>5 DEF Recorded
  <2>7. Recorded(r)'
    BY <2>3, <2>4, N + 1 \in 1..(N + 1) DEF Recorded
  <2>8. \A id \in CaseId :
           /\ ReplayedEvents'[id] = IF id = r.id THEN Append(events[id], r.event) ELSE events[id]
           /\ ReplayedCases'[id] = IF id = r.id THEN r.case ELSE cases[id]
    BY <1>2, <1>3, <1>5, AppendedLine
  <2>. QED  BY <2>1, <2>6, <2>7, <2>8
<1>6. CASE Committed(r)
  <2>1. file' = Append(file, [text |-> r, ended |-> TRUE])
    BY <1>4, <1>6 DEF Committed
  <2>2. /\ mode' = "up" /\ acked' = acked \cup {r}
        /\ cases' = [cases EXCEPT ![r.id] = r.case]
        /\ events' = [events EXCEPT ![r.id] = Append(@, r.event)]
    BY <1>2, <1>6 DEF Committed, Project
  <2>3. \A id \in CaseId : /\ events'[id] = IF id = r.id THEN Append(events[id], r.event) ELSE events[id]
                           /\ cases'[id] = IF id = r.id THEN r.case ELSE cases[id]
    BY <2>2 DEF TypeOK, LedgerTypeOK
  <2>4. \A id \in CaseId : events'[id] = ReplayedEvents'[id] /\ cases'[id] = ReplayedCases'[id]
    BY <1>5, <2>1, <2>3
  <2>5. events' = [id \in CaseId |-> events'[id]] /\ cases' = [id \in CaseId |-> cases'[id]]
    BY DEF TypeOK, LedgerTypeOK
  <2>6. ReplayedEvents' = [id \in CaseId |-> ReplayedEvents'[id]] /\ ReplayedCases' = [id \in CaseId |-> ReplayedCases'[id]]
    BY DEF ReplayedEvents, ReplayedCases
  <2>7. events' = ReplayedEvents' /\ cases' = ReplayedCases'
    BY <2>4, <2>5, <2>6
  <2>8. Whole' /\ \A s \in acked' : Recorded(s)'
    BY <1>5, <2>1, <2>2
  <2>. QED  BY <2>2, <2>7, <2>8 DEF LedgerOK, Whole
<1>7. CASE CrashInCommit(r)
  <2>1. mode' = "down" /\ acked' = acked /\ (UNCHANGED file \/ WriteLine(r, TRUE))
    BY <1>7 DEF CrashInCommit
  <2>2. CASE UNCHANGED file
    <3>1. Whole'
      BY <1>2, <2>2, SameFile DEF Whole
    <3>2. \A s \in acked : Recorded(s)'
      BY <1>2, <2>2 DEF Recorded, Readable
    <3>. QED  BY <2>1, <3>1, <3>2 DEF LedgerOK, Whole, Recorded
  <2>3. CASE WriteLine(r, TRUE)
    BY <1>4, <1>5, <2>1, <2>3 DEF LedgerOK, Whole, Recorded
  <2>. QED  BY <2>1, <2>2, <2>3
<1>. QED  BY <1>1, <1>6, <1>7


\* A step that leaves the file alone and shows no event that was not there before.
LEMMA ShownAgain ==
    ASSUME TypeOK, EventsOK, LinksOK, RecordsOK, AckedOK, UNCHANGED <<file, minted, acked>>,
           \A id \in CaseId : \A i \in 1..Len(events'[id]) : Known(id, events'[id][i])
    PROVE  EventsOK' /\ LinksOK' /\ RecordsOK' /\ AckedOK'
<1>1. \A id \in CaseId, e \in AuditEvent : Known(id, e)' => Known(id, e)
  <2>1. ASSUME NEW id \in CaseId, NEW e \in AuditEvent, Known(id, e)' PROVE Known(id, e)
    <3>1. Readable' = Readable
      BY SameFile
    <3>2. ASSUME NEW n \in Readable', file'[n].text.id = id, file'[n].text.event = e PROVE Known(id, e)
      BY <3>1, <3>2 DEF Known
    <3>3. ASSUME NEW i \in 1..Len(events'[id]), events'[id][i] = e PROVE Known(id, e)
      BY <3>3
    <3>. QED  BY <2>1, <3>2, <3>3 DEF Known
  <2>. QED  BY <2>1
<1>2. EventsOK'
  BY <1>1 DEF EventsOK, EventOK
<1>3. LinksOK'
  BY <1>1 DEF LinksOK, Follows
<1>4. RecordsOK'
  BY SameFile DEF RecordsOK, Agrees
<1>5. AckedOK'
  BY DEF AckedOK
<1>. QED  BY <1>2, <1>3, <1>4, <1>5

\* A process that ends takes the projection with it and nothing else.
LEMMA StopKeepsInv ==
    ASSUME WorkflowInv, Stop, UNCHANGED <<roles, policy>>
    PROVE  WorkflowInv'
<1>1. /\ mode' = "down" /\ UNCHANGED <<file, minted, acked, damaged>>
      /\ faults < MaxFaults /\ faults' = faults + 1
      /\ \A id \in CaseId : cases'[id] = NoCase /\ events'[id] = << >>
      /\ cases' = Empty(NoCase) /\ events' = Empty(<< >>)
  BY DEF Stop, Fault, Empty
<1>2. << >> \in Seq(AuditEvent) /\ Len(<< >>) = 0
  BY EmptySeq
<1>3. TypeOK'
  <2>1. faults' \in 0..MaxFaults
    BY <1>1, LedgerAssumption DEF WorkflowInv, TypeOK, LedgerTypeOK
  <2>2. cases' \in [CaseId -> ReviewCase \cup {NoCase}] /\ events' \in [CaseId -> Seq(AuditEvent)]
    BY <1>1, <1>2 DEF Empty
  <2>. QED  BY <1>1, <2>1, <2>2 DEF WorkflowInv, TypeOK, LedgerTypeOK
<1>4. \A id \in CaseId : \A i \in 1..Len(events'[id]) : Known(id, events'[id][i])
  BY <1>1, <1>2
<1>5. EventsOK' /\ LinksOK' /\ RecordsOK' /\ AckedOK'
  BY <1>1, <1>4, ShownAgain DEF WorkflowInv
<1>6. TrailsOK'
  BY <1>1, <1>2 DEF TrailsOK, TrailOK
<1>7. RequestsOK'
  <2>1. RequestsOK
    BY DEF WorkflowInv
  <2>. QED  BY <1>1, <2>1, SameFile DEF RequestsOK, OneCasePerRequest
<1>8. LedgerOK'
  <2>1. LedgerOK
    BY DEF WorkflowInv
  <2>2. mode' # "up" /\ mode' # "refused" /\ (damaged' <=> damaged)
    BY <1>1
  <2>3. \A s \in acked : Recorded(s)' <=> Recorded(s)
    BY <1>1, SameFile DEF Recorded
  <2>. QED  BY <1>1, <2>1, <2>2, <2>3, SameFile DEF LedgerOK
<1>. QED  BY <1>3, <1>5, <1>6, <1>7, <1>8 DEF WorkflowInv

\* A startup shows what the ledger says, or does not come up.
LEMMA StartKeepsInv ==
    ASSUME WorkflowInv, StartRelease
    PROVE  WorkflowInv'
<1>1. /\ mode = "down" /\ UNCHANGED <<file, minted, acked, faults, damaged>>
      /\ roles' \in [Reviewer -> Role] /\ policy' \in Version
      /\ \/ Replays /\ mode' = "up" /\ cases' = ReplayedCases /\ events' = ReplayedEvents
         \/ ~Replays /\ mode' = "refused" /\ UNCHANGED <<cases, events>>
  BY DEF StartRelease, Restart
<1>2. TypeOK /\ EventsOK /\ LinksOK /\ RecordsOK /\ TrailsOK /\ AckedOK /\ RequestsOK /\ LedgerOK
  BY DEF WorkflowInv
<1>3. CASE Replays /\ mode' = "up" /\ cases' = ReplayedCases /\ events' = ReplayedEvents
  <2>1. \A id \in CaseId :
          /\ events'[id] \in Seq(AuditEvent) /\ cases'[id] \in ReviewCase \cup {NoCase}
          /\ TrailOK(events'[id], cases'[id])
          /\ cases'[id] = NoCase <=> LinesOf(id, Len(file)) = {}
          /\ \A i \in 1..Len(events'[id]) :
                \E k \in Readable : file[k].text.id = id /\ file[k].text.event = events'[id][i]
    BY <1>2, <1>3, ReplayMakesTrails
  <2>2. TypeOK'
    <3>1. events' = [id \in CaseId |-> events'[id]] /\ cases' = [id \in CaseId |-> cases'[id]]
      BY <1>3 DEF ReplayedCases, ReplayedEvents
    <3>2. events' \in [CaseId -> Seq(AuditEvent)] /\ cases' \in [CaseId -> ReviewCase \cup {NoCase}]
      BY <2>1, <3>1
    <3>. QED  BY <1>1, <1>2, <1>3, <3>2 DEF TypeOK, LedgerTypeOK
  <2>3. \A id \in CaseId : \A i \in 1..Len(events'[id]) : Known(id, events'[id][i])
    BY <2>1 DEF Known
  <2>4. EventsOK' /\ LinksOK' /\ RecordsOK' /\ AckedOK'
    BY <1>1, <1>2, <2>3, ShownAgain
  <2>5. TrailsOK'
    BY <2>1 DEF TrailsOK, TrailOK, Agrees
  <2>6. RequestsOK'
    <3>1. \A n \in Readable : file[n].text.id \in CaseId /\ n \in LinesOf(file[n].text.id, Len(file))
      BY <1>2, ReadableLines DEF Record, Readable, LinesOf
    <3>2. \A id \in CaseId : cases'[id] # NoCase => \E n \in Readable : file[n].text.id = id
      BY <2>1 DEF LinesOf, Readable
    <3>3. \A n \in Readable : cases'[file[n].text.id] # NoCase
      BY <2>1, <3>1
    <3>4. \A m, n \in Readable : file[m].text.id[1] = file[n].text.id[1] => file[m].text.id = file[n].text.id
      BY <1>2 DEF RequestsOK
    <3>. QED  BY <1>1, <3>2, <3>3, <3>4, SameFile DEF RequestsOK, OneCasePerRequest
  <2>7. LedgerOK'
    <3>1. \A s \in acked : Recorded(s)' <=> Recorded(s)
      BY <1>1, SameFile DEF Recorded
    <3>2. damaged' <=> damaged
      BY <1>1
    <3>. QED  BY <1>1, <1>2, <1>3, <3>1, <3>2, SameFile DEF LedgerOK
  <2>. QED  BY <2>2, <2>4, <2>5, <2>6, <2>7 DEF WorkflowInv
<1>4. CASE ~Replays /\ mode' = "refused" /\ UNCHANGED <<cases, events>>
  <2>1. damaged
    BY <1>2, <1>4 DEF LedgerOK
  <2>2. LedgerOK'
    <3>1. damaged'
      BY <1>1, <2>1
    <3>. QED  BY <3>1 DEF LedgerOK
  <2>3. TypeOK'
    BY <1>1, <1>2, <1>4 DEF TypeOK, LedgerTypeOK
  <2>4. \A id \in CaseId : \A i \in 1..Len(events'[id]) : Known(id, events'[id][i])
    BY <1>4 DEF Known
  <2>5. EventsOK' /\ LinksOK' /\ RecordsOK' /\ AckedOK'
    BY <1>1, <1>2, <2>4, ShownAgain
  <2>6. TrailsOK'
    BY <1>2, <1>4 DEF TrailsOK, TrailOK, Agrees
  <2>7. RequestsOK'
    BY <1>1, <1>2, <1>4, SameFile DEF RequestsOK, OneCasePerRequest
  <2>. QED  BY <2>2, <2>3, <2>5, <2>6, <2>7 DEF WorkflowInv
<1>. QED  BY <1>1, <1>3, <1>4


\* A new deployment has an empty ledger.
LEMMA InitInv == Init => WorkflowInv
<1>. SUFFICES ASSUME Init PROVE WorkflowInv
  OBVIOUS
<1>1. /\ file = << >> /\ acked = {} /\ minted = 0 /\ faults = 0 /\ mode = "up" /\ damaged = FALSE
      /\ cases = Empty(NoCase) /\ events = Empty(<< >>)
      /\ roles \in [Reviewer -> Role] /\ policy \in Version
  BY DEF Init, LedgerInit
<1>2. Len(<< >>) = 0 /\ << >> \in Seq(AuditEvent) /\ << >> \in Seq([text : Record \cup {Garbled}, ended : BOOLEAN])
  BY EmptySeq
<1>3. \A id \in CaseId : cases[id] = NoCase /\ events[id] = << >>
  BY <1>1 DEF Empty
<1>4. TypeOK
  <2>1. events \in [CaseId -> Seq(AuditEvent)] /\ cases \in [CaseId -> ReviewCase \cup {NoCase}]
    BY <1>1, <1>2 DEF Empty
  <2>2. 0 \in 0..MaxEvents /\ 0 \in 0..MaxFaults
    BY LedgerAssumption
  <2>. QED  BY <1>1, <1>2, <2>1, <2>2 DEF TypeOK, LedgerTypeOK
<1>5. Len(file) = 0 /\ Readable = {} /\ \A id : LinesOf(id, Len(file)) = {}
  BY <1>1, <1>2 DEF Readable, LinesOf
<1>6. \A id, e : id \in CaseId => ~Known(id, e)
  BY <1>2, <1>3, <1>5 DEF Known
<1>7. EventsOK /\ LinksOK /\ RecordsOK /\ AckedOK
  BY <1>1, <1>5, <1>6 DEF EventsOK, LinksOK, RecordsOK, AckedOK
<1>8. TrailsOK
  BY <1>2, <1>3 DEF TrailsOK, TrailOK
<1>9. RequestsOK
  BY <1>3, <1>5 DEF RequestsOK, OneCasePerRequest
<1>10. LedgerOK
  <2>1. ReplayedCases = cases
    BY <1>1, <1>5 DEF ReplayedCases, Empty
  <2>2. \A id \in CaseId : ReplayedEvents[id] = << >>
    <3>1. ASSUME NEW id \in CaseId PROVE ReplayedEvents[id] = << >>
      <4>1. Cardinality(LinesOf(id, Len(file))) = 0
        BY <1>5, FS_EmptySet
      <4>2. EventsIn(Len(file), id) \in Seq(AuditEvent) /\ Len(EventsIn(Len(file), id)) = 0
        BY <1>4, <1>5, <4>1, 0 \in 0..0, EventsInLines
      <4>. QED  BY <4>2, EmptySeq DEF ReplayedEvents
    <3>. QED  BY <3>1
  <2>3. ReplayedEvents = events
    BY <1>1, <2>2 DEF ReplayedEvents, Empty
  <2>4. Replays
    BY <1>5 DEF Replays
  <2>. QED  BY <1>1, <1>5, <2>1, <2>3, <2>4 DEF LedgerOK
<1>. QED  BY <1>4, <1>7, <1>8, <1>9, <1>10 DEF WorkflowInv

\* Every step of the service, and every fault, preserves the invariant.
LEMMA NextKeepsInv == WorkflowInv /\ [Next]_vars => WorkflowInv'
<1>. SUFFICES ASSUME WorkflowInv, [Next]_vars PROVE WorkflowInv'
  OBVIOUS
<1>1. TypeOK /\ EventsOK /\ LinksOK /\ RecordsOK /\ TrailsOK /\ AckedOK /\ RequestsOK /\ LedgerOK
  BY DEF WorkflowInv
<1>2. ASSUME NEW r, Extends(r), Commit(r), UNCHANGED <<roles, policy>>
      PROVE  WorkflowInv'
  <2>1. TypeOK'
    BY <1>1, <1>2, CommitType
  <2>2. EventsOK' /\ LinksOK'
    BY <1>1, <1>2, CommitEvents
  <2>3. RecordsOK' /\ TrailsOK' /\ AckedOK'
    BY <1>1, <1>2, CommitTrails
  <2>4. RequestsOK'
    BY <1>1, <1>2, CommitRequests
  <2>5. LedgerOK'
    BY <1>1, <1>2, <2>1, CommitLedger
  <2>. QED  BY <2>1, <2>2, <2>3, <2>4, <2>5 DEF WorkflowInv
<1>3. CASE Stop /\ UNCHANGED <<roles, policy>>
  BY <1>3, StopKeepsInv
<1>4. CASE StartRelease
  BY <1>4, StartKeepsInv
<1>5. CASE UNCHANGED vars
  <2>1. UNCHANGED <<file, cases, events, mode, minted, acked, faults, damaged, roles, policy>>
    BY <1>5 DEF vars, ledgerVars
  <2>2. \A id \in CaseId : \A i \in 1..Len(events'[id]) : Known(id, events'[id][i])
    BY <2>1 DEF Known
  <2>3. EventsOK' /\ LinksOK' /\ RecordsOK' /\ AckedOK'
    BY <1>1, <2>1, <2>2, ShownAgain
  <2>4. TypeOK' /\ TrailsOK'
    BY <1>1, <2>1 DEF TypeOK, LedgerTypeOK, TrailsOK, TrailOK, Agrees
  <2>5. RequestsOK'
    BY <1>1, <2>1 DEF RequestsOK, OneCasePerRequest, Readable
  <2>6. LedgerOK'
    <3>1. \A s \in acked : Recorded(s)' <=> Recorded(s)
      BY <2>1, SameFile DEF Recorded
    <3>. QED  BY <1>1, <2>1, <3>1, SameFile DEF LedgerOK
  <2>. QED  BY <2>3, <2>4, <2>5, <2>6 DEF WorkflowInv
<1>. QED  BY <1>1, <1>2, <1>3, <1>4, <1>5, StepsOfWorkflow

\* The inductive invariant of the review workflow holds in every reachable state.
THEOREM WorkflowInvHolds == Spec => []WorkflowInv
BY InitInv, NextKeepsInv, PTL DEF Spec

\* Every variable of the workflow and its ledger keeps its type.
THEOREM ReviewTypesHold == Spec => []TypeOK
<1>1. WorkflowInv => TypeOK
  BY DEF WorkflowInv
<1>. QED  BY <1>1, WorkflowInvHolds, PTL

\* A request never gets a second case, whichever releases saw it.
THEOREM RequestsHaveOneCase == Spec => []OneCasePerRequest
<1>1. WorkflowInv => OneCasePerRequest
  BY DEF WorkflowInv, RequestsOK
<1>. QED  BY <1>1, WorkflowInvHolds, PTL

\* While no append has failed, the process shows what a replay would show.
THEOREM ProjectionReplays == Spec => []ProjectionIsReplayable
<1>1. WorkflowInv => ProjectionIsReplayable
  BY DEF WorkflowInv, LedgerOK, ProjectionIsReplayable
<1>. QED  BY <1>1, WorkflowInvHolds, PTL

\* While no append has failed, no startup refuses the ledger.
THEOREM StartupsSucceed == Spec => []StartupSucceeds
<1>1. WorkflowInv => StartupSucceeds
  BY DEF WorkflowInv, LedgerOK, StartupSucceeds
<1>. QED  BY <1>1, WorkflowInvHolds, PTL

\* While no append has failed, what was answered with success is on the ledger.
THEOREM AcknowledgedIsRecorded == Spec => []NothingAcknowledgedIsLost
<1>1. WorkflowInv => NothingAcknowledgedIsLost
  BY DEF WorkflowInv, LedgerOK, NothingAcknowledgedIsLost
<1>. QED  BY <1>1, WorkflowInvHolds, PTL

\* What the chain of a case gives: each event is known, sound, and follows the one before it.
LEMMA TrailFacts ==
    ASSUME WorkflowInv, NEW id \in CaseId, NEW i \in 1..Len(events[id])
    PROVE  /\ events[id][i] \in AuditEvent /\ EventOK(events[id][i])
           /\ events[id][i].sequence = i /\ i \in Nat
           /\ i # 1 => /\ i - 1 \in 1..Len(events[id])
                       /\ Follows(events[id][i - 1], events[id][i])
<1>1. TypeOK /\ EventsOK /\ LinksOK /\ TrailOK(events[id], cases[id])
  BY DEF WorkflowInv, TrailsOK
<1>2. events[id] \in Seq(AuditEvent) /\ Len(events[id]) \in Nat
  BY <1>1 DEF TypeOK, LedgerTypeOK
<1>3. \A j \in 1..Len(events[id]) : events[id][j] \in AuditEvent /\ Known(id, events[id][j])
  BY <1>2, ElementOfSeq DEF Known
<1>4. i # 1 => i - 1 \in 1..Len(events[id])
  BY <1>2
<1>5. events[id][i].sequence = i /\ (i # 1 => events[id][i].previous = events[id][i - 1].hash)
  BY <1>1 DEF TrailOK
<1>. QED  BY <1>1, <1>2, <1>3, <1>4, <1>5 DEF EventsOK, LinksOK

\* The audit trail of a case is one unbroken path from its creation to its state.
THEOREM AuditTrailsArePaths == Spec => []AuditTrailIsPath
<1>1. ASSUME WorkflowInv, NEW id \in CaseId, mode = "up", cases[id] # NoCase
      PROVE  /\ events[id] # << >> /\ events[id][Len(events[id])].to = cases[id].state
             /\ \A i \in 1..Len(events[id]) :
                   /\ events[id][i].sequence = i
                   /\ events[id][i].from = IF i = 1 THEN Nobody ELSE events[id][i - 1].to
  <2>1. TrailOK(events[id], cases[id])
    BY <1>1 DEF WorkflowInv, TrailsOK
  <2>2. events[id] # << >> /\ events[id][Len(events[id])].to = cases[id].state
    BY <1>1, <2>1 DEF TrailOK, Agrees
  <2>3. ASSUME NEW i \in 1..Len(events[id])
        PROVE  /\ events[id][i].sequence = i
               /\ events[id][i].from = IF i = 1 THEN Nobody ELSE events[id][i - 1].to
    <3>1. /\ EventOK(events[id][i]) /\ events[id][i].sequence = i
          /\ i # 1 => Follows(events[id][i - 1], events[id][i])
      BY <1>1, TrailFacts
    <3>. QED  BY <3>1 DEF EventOK, Follows
  <2>. QED  BY <2>2, <2>3
<1>2. WorkflowInv => AuditTrailIsPath
  BY <1>1 DEF AuditTrailIsPath
<1>. QED  BY <1>2, WorkflowInvHolds, PTL

\* Only the reviewer whose claim comes right before a decision takes it.
THEOREM ClaimantsDecide == Spec => []ClaimantDecides
<1>1. ASSUME WorkflowInv, NEW id \in CaseId, NEW i \in 1..Len(events[id]),
             events[id][i].action \in {"decided", "appeal_decided"}
      PROVE  /\ i > 1 /\ events[id][i - 1].action = "claimed"
             /\ events[id][i - 1].actor = events[id][i].actor
  <2>1. /\ EventOK(events[id][i]) /\ events[id][i].sequence = i /\ i \in Nat
        /\ i # 1 => Follows(events[id][i - 1], events[id][i])
    BY <1>1, TrailFacts
  <2>2. i # 1
    BY <1>1, <2>1 DEF EventOK
  <2>3. i > 1
    BY <2>1, <2>2
  <2>. QED  BY <1>1, <2>1, <2>2, <2>3 DEF Follows
<1>2. WorkflowInv => ClaimantDecides
  BY <1>1 DEF ClaimantDecides
<1>. QED  BY <1>2, WorkflowInvHolds, PTL

\* From the appeal of a case on, only senior reviewers claim and decide it.
THEOREM AppealsAreForSeniors == Spec => []SeniorsHandleAppeals
<1>1. ASSUME WorkflowInv, NEW id \in CaseId, NEW i \in 1..Len(events[id]), NEW j \in 1..Len(events[id]),
             i < j, events[id][i].action = "appealed",
             events[id][j].action \in {"claimed", "appeal_decided", "decided"}
      PROVE  events[id][j].role = "senior_reviewer"
  <2>1. /\ EventOK(events[id][i]) /\ events[id][i].sequence = i
        /\ EventOK(events[id][j]) /\ events[id][j].sequence = j
        /\ i \in Nat /\ j \in Nat
    BY <1>1, TrailFacts
  <2>2. i >= 4
    BY <1>1, <2>1 DEF EventOK
  <2>3. j >= 5 /\ j # 2 /\ j # 3
    BY <1>1, <2>1, <2>2
  <2>. QED  BY <1>1, <2>1, <2>3 DEF EventOK
<1>2. WorkflowInv => SeniorsHandleAppeals
  BY <1>1 DEF SeniorsHandleAppeals
<1>. QED  BY <1>2, WorkflowInvHolds, PTL

-----------------------------------------------------------------------------
\* A call of an endpoint is a step of the workflow, or none.
LEMMA CallsAreSteps == [ApiNext]_apiVars => [Next]_vars
<1>1. ASSUME NEW request \in Request, EnqueueResponse(request) PROVE Next
  BY <1>1 DEF EnqueueResponse, Next
<1>2. ASSUME NEW p \in Reviewer, NEW id \in CaseId, ClaimCase(p, id) \/ DecideCase(p, id) \/ AppealCase(p, id)
      PROVE  Next
  BY <1>2 DEF ClaimCase, DecideCase, AppealCase, Next
<1>3. EndProcess \/ StartProcess => Next
  BY DEF EndProcess, StartProcess, Next
<1>. QED  BY <1>1, <1>2, <1>3 DEF ApiNext, EnqueueAgain, ListCases, ExportFeedback, apiVars

\* The endpoints add nothing to the life of a case: they implement the workflow.
THEOREM EndpointsImplementWorkflow == ApiSpec => Spec
<1>1. ApiInit => Init
  BY DEF ApiInit
<1>. QED  BY <1>1, CallsAreSteps, PTL DEF ApiSpec, Spec

\* What a transition that is answered with success changes, it also acknowledges.
LEMMA CommitShows ==
    ASSUME WorkflowInv, \/ \E request \in Request : Enqueue(request)
                        \/ \E p \in Reviewer, id \in CaseId :
                              Claim(p, id) \/ Appeal(p, id) \/ \E decision \in Verdict : Decide(p, id, decision)
    PROVE  mode' = "up" => acked' # acked \/ cases' = cases
<1>1. TypeOK /\ EventsOK /\ TrailsOK /\ AckedOK /\ minted \in Nat /\ acked \subseteq Record
  BY LedgerAssumption DEF WorkflowInv, TypeOK, LedgerTypeOK
<1>2. PICK r : Extends(r) /\ Commit(r)
  BY <1>1, EnqueueExtends, ClaimExtends, DecideExtends, AppealExtends
<1>3. r \notin acked
  <2>1. r.event.hash = minted + 1
    BY <1>2 DEF Extends
  <2>2. ~(minted + 1 <= minted)
    BY <1>1
  <2>. QED  BY <1>1, <2>1, <2>2 DEF AckedOK
<1>. QED  BY <1>1, <1>2, <1>3, CommitEffect

\* The inductive invariant of the gauge and of the last export.
EndpointInv == /\ WorkflowInv
               /\ GaugeIsCurrent
               /\ feedback = {} \/ (mode = "up" /\ feedback = Feedback)

\* A call that commits refreshes the gauge, and no call leaves an old export behind.
LEMMA CallsKeepInv == EndpointInv /\ [ApiNext]_apiVars => EndpointInv'
<1>. SUFFICES ASSUME EndpointInv, [ApiNext]_apiVars PROVE EndpointInv'
  OBVIOUS
<1>1. WorkflowInv'
  BY CallsAreSteps, NextKeepsInv DEF EndpointInv
<1>2. cases' = cases => Backlog' = Backlog
  BY DEF Backlog
<1>3. ASSUME \/ \E request \in Request : EnqueueResponse(request)
             \/ \E p \in Reviewer, id \in CaseId : ClaimCase(p, id) \/ DecideCase(p, id) \/ AppealCase(p, id)
      PROVE  GaugeIsCurrent' /\ feedback' = {}
  <2>1. Refresh /\ feedback' = {}
    BY <1>3 DEF EnqueueResponse, ClaimCase, DecideCase, AppealCase
  <2>2. mode = "up" /\ (mode' = "up" => acked' # acked \/ cases' = cases)
    <3>1. \/ \E request \in Request : Enqueue(request)
          \/ \E p \in Reviewer, id \in CaseId :
                Claim(p, id) \/ Appeal(p, id) \/ \E decision \in Verdict : Decide(p, id, decision)
      BY <1>3 DEF EnqueueResponse, ClaimCase, DecideCase, AppealCase
    <3>2. mode = "up"
      BY <3>1 DEF Enqueue, Claim, Appeal, Decide, Reviews
    <3>. QED  BY <3>1, <3>2, CommitShows DEF EndpointInv
  <2>. QED  BY <1>2, <2>1, <2>2 DEF Refresh, GaugeIsCurrent, EndpointInv
<1>4. ASSUME UNCHANGED vars
      PROVE  Backlog' = Backlog /\ Feedback' = Feedback /\ mode' = mode
  BY <1>4 DEF vars, ledgerVars, Backlog, Feedback, WasAppealed
<1>5. ASSUME \/ \E request \in Request : EnqueueAgain(request)
             \/ ListCases
      PROVE  GaugeIsCurrent' /\ feedback' = {}
  BY <1>4, <1>5 DEF EnqueueAgain, ListCases, GaugeIsCurrent
<1>6. ASSUME NEW p \in Reviewer, ExportFeedback(p)
      PROVE  GaugeIsCurrent' /\ mode' = "up" /\ feedback' = Feedback'
  BY <1>4, <1>6 DEF ExportFeedback, GaugeIsCurrent, EndpointInv
<1>7. EndProcess => GaugeIsCurrent' /\ feedback' = {}
  BY DEF EndProcess, Stop, GaugeIsCurrent
<1>8. StartProcess => GaugeIsCurrent' /\ feedback' = {}
  BY DEF StartProcess, GaugeIsCurrent
<1>9. UNCHANGED apiVars => GaugeIsCurrent' /\ (feedback' = {} \/ (mode' = "up" /\ feedback' = Feedback'))
  BY <1>4 DEF apiVars, GaugeIsCurrent, EndpointInv
<1>. QED  BY <1>1, <1>3, <1>5, <1>6, <1>7, <1>8, <1>9 DEF ApiNext, EndpointInv

\* The inductive invariant of the endpoints holds in every reachable state.
THEOREM EndpointInvHolds == ApiSpec => []EndpointInv
<1>1. ApiInit => EndpointInv
  BY InitInv DEF ApiInit, EndpointInv, GaugeIsCurrent
<1>. QED  BY <1>1, CallsKeepInv, PTL DEF ApiSpec

\* A gauge that shows anything counts the cases as they are.
THEOREM GaugesAreCurrent == ApiSpec => []GaugeIsCurrent
<1>1. EndpointInv => GaugeIsCurrent
  BY DEF EndpointInv
<1>. QED  BY <1>1, EndpointInvHolds, PTL

\* The last line of a case on the ledger is the one a replay takes its state from.
LEMMA LastLine ==
    ASSUME TypeOK, NEW id \in CaseId, LinesOf(id, Len(file)) # {}
    PROVE  LET L == LinesOf(id, Len(file))
           IN  (CHOOSE n \in L : \A k \in L : k <= n) = LineOf(id, Cardinality(L))
<1>1. PICK N \in Nat : N = Len(file)
  BY ReadableLines
<1>2. PICK L : L = LinesOf(id, N)
  OBVIOUS
<1>3. L \in SUBSET (0..N) /\ L # {}
  BY <1>1, <1>2 DEF LinesOf
<1>4. \E m \in L : \A k \in L : k <= m
  BY <1>3, GreatestNumber
<1>5. PICK m \in L : m = (CHOOSE n \in L : \A k \in L : k <= n) /\ \A k \in L : k <= m
  BY <1>4
<1>6. LinesOf(id, m) = L
  <2>1. \A k : k \in 1..m => k \in 1..N
    BY <1>3
  <2>2. \A k \in L : k \in 1..m
    <3>1. \A k \in L : k \in 1..N /\ k <= m
      BY <1>2, <1>5 DEF LinesOf
    <3>. QED  BY <1>3, <3>1
  <2>. QED  BY <1>2, <2>1, <2>2 DEF LinesOf
<1>7. LineOf(id, Cardinality(LinesOf(id, m))) = m
  BY <1>1, <1>2, LinesAreNumbered
<1>. QED  BY <1>1, <1>2, <1>5, <1>6, <1>7

\* An exported label is the decision of the last record that the ledger has of the case.
LEMMA FeedbackIsLast ==
    ASSUME WorkflowInv, mode = "up", ~damaged, NEW id \in CaseId,
           cases[id] # NoCase, cases[id].state = "resolved"
    PROVE  LET records == {n \in Readable : file[n].text.id = id}
               last == file[CHOOSE n \in records : \A k \in records : k <= n].text
           IN  /\ last.event.action \in {"decided", "appeal_decided"}
               /\ last.case.decision = cases[id].decision
               /\ WasAppealed(id) <=> \E n \in records : file[n].text.event.action = "appealed"
<1>1. TypeOK /\ EventsOK /\ TrailsOK /\ cases = ReplayedCases /\ events = ReplayedEvents
  BY DEF WorkflowInv, LedgerOK
<1>2. PICK L : L = LinesOf(id, Len(file))
  OBVIOUS
<1>3. PICK C : C = Cardinality(L)
  OBVIOUS
<1>4. {n \in Readable : file[n].text.id = id} = L
  BY <1>2 DEF Readable, LinesOf
<1>5. cases[id] = IF L = {} THEN NoCase ELSE file[LineOf(id, C)].text.case
  BY <1>1, <1>2, <1>3 DEF ReplayedCases
<1>6. L # {} /\ cases[id] = file[LineOf(id, C)].text.case
  BY <1>5
<1>7. (CHOOSE n \in L : \A k \in L : k <= n) = LineOf(id, C)
  BY <1>1, <1>2, <1>3, <1>6, LastLine
<1>8. /\ C \in Nat /\ C # 0
      /\ \A i \in 1..C : LineOf(id, i) \in L
      /\ \A k \in L : Cardinality(LinesOf(id, k)) \in 1..C /\ LineOf(id, Cardinality(LinesOf(id, k))) = k
  BY <1>1, <1>2, <1>3, <1>6, LinesAreNumbered
<1>9. Len(events[id]) = C /\ \A i \in 1..C : events[id][i] = file[LineOf(id, i)].text.event
  <2>1. events[id] = EventsIn(Len(file), id) /\ Len(file) \in 0..Len(file)
    BY <1>1, ReadableLines DEF ReplayedEvents
  <2>. QED  BY <1>1, <1>2, <1>3, <2>1, EventsInLines
<1>10. Last(id) = file[LineOf(id, C)].text.event
  <2>1. C \in 1..C
    BY <1>8
  <2>. QED  BY <1>9, <2>1 DEF Last
<1>11. Last(id).action \in {"decided", "appeal_decided"}
  <2>1. EventOK(Last(id)) /\ Last(id) \in AuditEvent /\ Last(id).to = "resolved"
    BY <1>1, ShownCases DEF Agrees
  <2>. QED  BY <2>1 DEF EventOK, AuditEvent
<1>12. WasAppealed(id) <=> \E n \in L : file[n].text.event.action = "appealed"
  <2>1. WasAppealed(id) <=> \E i \in 1..C : file[LineOf(id, i)].text.event.action = "appealed"
    BY <1>9 DEF WasAppealed
  <2>. QED  BY <1>8, <2>1
<1>. QED  BY <1>4, <1>6, <1>7, <1>10, <1>11, <1>12

\* What is exported for retraining is the last word of the ledger on each case.
THEOREM ExportsAreTheLastWord == ApiSpec => []ExportIsTheLastWord
<1>1. ASSUME EndpointInv, ~damaged, NEW r \in feedback
      PROVE  LET records == {n \in Readable : file[n].text.id = r.id}
                 last == file[CHOOSE n \in records : \A k \in records : k <= n].text
             IN  /\ last.event.action \in {"decided", "appeal_decided"}
                 /\ last.case.decision = r.label
                 /\ r.appealed <=> \E n \in records : file[n].text.event.action = "appealed"
  <2>1. mode = "up" /\ r \in Feedback
    BY <1>1 DEF EndpointInv
  <2>2. PICK id \in CaseId : /\ cases[id] # NoCase /\ cases[id].state = "resolved"
                             /\ r = [id |-> id, label |-> cases[id].decision, appealed |-> WasAppealed(id)]
    BY <2>1 DEF Feedback
  <2>3. r.id = id /\ r.label = cases[id].decision /\ (r.appealed <=> WasAppealed(id))
    BY <2>2
  <2>4. WorkflowInv
    BY <1>1 DEF EndpointInv
  <2>5. LET records == {n \in Readable : file[n].text.id = id}
            last == file[CHOOSE n \in records : \A k \in records : k <= n].text
        IN  /\ last.event.action \in {"decided", "appeal_decided"}
            /\ last.case.decision = cases[id].decision
            /\ WasAppealed(id) <=> \E n \in records : file[n].text.event.action = "appealed"
    BY <1>1, <2>1, <2>2, <2>4, FeedbackIsLast
  <2>. QED  BY <2>3, <2>5
<1>2. EndpointInv => ExportIsTheLastWord
  BY <1>1 DEF ExportIsTheLastWord
<1>. QED  BY <1>2, EndpointInvHolds, PTL
=============================================================================
