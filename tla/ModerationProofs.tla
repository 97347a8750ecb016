-------------------------- MODULE ModerationProofs --------------------------
(***************************************************************************)
(* What concurrent moderations make of the vector index, for any number of *)
(* processes, requests, campaigns and failures: the campaign of a text is  *)
(* neither missed nor invented, and few of its members escape.             *)
(***************************************************************************)
EXTENDS Moderation, PolicyProofs

\* The call of p searched for a text.
Known(p) == calls[p] # NoCall /\ calls[p].text # NoText

\* The requests under whose ids t was ever stored.
Storers(t) == {q \in RequestId : t \in stored[q]}

\* Those that had been answered when p searched, and kept to its text since.
Members(p) == {q \in prior[p] : Loyal(q, calls[p].text)}

\* The index holds what was stored last, and only what was stored is answered.
IndexIsStored ==
    \A q \in RequestId :
        /\ stored[q] # {} => index[q] \in stored[q]
        /\ index[q] # NoText => index[q] \in stored[q]
        /\ answered[q] \subseteq stored[q]
        /\ allowed[q] \subseteq answered[q]
        /\ IsFiniteSet(stored[q])

\* What a call counted: no more than was stored, no less than was answered.
CountsAreEvidence ==
    \A p \in Process : Known(p) =>
        /\ calls[p].matches <= Cardinality(Storers(calls[p].text) \ {calls[p].request})
        /\ \A k \in 0..5 : Cardinality(Members(p)) >= k => calls[p].matches >= k

\* A decision rests on the count of its call.
DecisionsRestOnCounts ==
    \A p \in Process : Deciding(p) =>
        /\ Known(p) => calls[p].text \in stored[calls[p].request]
        /\ Known(p) /\ calls[p].matches >= 2 => calls[p].response.decision # "allow"
        /\ Known(p) /\ calls[p].matches >= 5 => calls[p].response.decision = "block"
        /\ \A s \in calls[p].response.signals : s.category = "coordinated_abuse" =>
              Known(p) /\ calls[p].matches >= 2 /\ (s.score >= 90 => calls[p].matches >= 5)

\* The requests of the calls that counted too few others of the campaign of t.
Light(p, t) == calls[p] # NoCall /\ calls[p].text = t /\ calls[p].matches < 2
LightIds(t) == {calls[p].request : p \in {x \in Process : Light(x, t)}}
Allowed(t) == {q \in RequestId : t \in allowed[q]}

\* No id was used for several texts.
OneTextPerId == \A q \in RequestId : Cardinality(stored[q]) <= 1

\* The members, the light requests and the allowed requests of a campaign.
Bounded(members, light, through) ==
    /\ Cardinality(members) <= 2 => Cardinality(members \cup light) <= Cardinality(Process) + 1
    /\ Cardinality(through \cup light) <= Cardinality(Process) + 1

(* While a campaign has at most two members in the index, those and the    *)
(* requests still to come are no more than the processes and one; later    *)
(* none is added.                                                          *)
EscapesAreCounted ==
    OneTextPerId => \A t \in Text : Bounded(Storers(t), LightIds(t), Allowed(t))

ModerationInv == /\ TypeOK
                 /\ IndexIsStored
                 /\ CountsAreEvidence
                 /\ DecisionsRestOnCounts
                 /\ EscapesAreCounted
-----------------------------------------------------------------------------
\* The sets whose members are counted are finite.
LEMMA EverythingIsFinite ==
    /\ IsFiniteSet(RequestId) /\ IsFiniteSet(Process)
    /\ \A S : S \subseteq RequestId => IsFiniteSet(S) /\ Cardinality(S) \in Nat
<1>1. IsFiniteSet(RequestId) /\ IsFiniteSet(Thread) /\ IsFiniteSet(Worker)
  BY ModerationAssumption
<1>2. IsFiniteSet({Loop})
  BY FS_Singleton
<1>3. IsFiniteSet({Loop} \cup Thread)
  BY <1>1, <1>2, FS_Union
<1>4. IsFiniteSet(Process)
  BY <1>1, <1>3, FS_Union DEF Process
<1>5. ASSUME NEW S, S \subseteq RequestId PROVE IsFiniteSet(S) /\ Cardinality(S) \in Nat
  BY <1>1, <1>5, FS_Subset, FS_CardinalityType
<1>. QED  BY <1>1, <1>4, <1>5

\* What a search brings back, less the request's own vector.
LEMMA SearchCounts ==
    ASSUME NEW similar \in SUBSET RequestId, NEW r \in RequestId,
           NEW found \in kSubset(Min({SearchLimit, Cardinality(similar)}), similar)
    PROVE  /\ Cardinality(Others(found, r)) \in 0..SearchLimit
           /\ Cardinality(Others(found, r)) <= Cardinality(similar \ {r})
           /\ \A M \in SUBSET similar : \A k \in 0..5 :
                 Cardinality(M \ {r}) >= k => Cardinality(Others(found, r)) >= k
<1>. DEFINE both == {SearchLimit, Cardinality(similar)}
            others == found \ {r}
<1>1. SearchLimit \in Nat /\ SearchLimit >= 6
  BY ModerationAssumption
<1>2. IsFiniteSet(similar) /\ Cardinality(similar) \in Nat
  BY EverythingIsFinite
<1>3. both \in SUBSET Nat /\ both # {}
  BY <1>1, <1>2
<1>4. \E m \in both : \A k \in both : m =< k
  BY <1>3, LeastNumber
<1>5. Min(both) \in both /\ \A k \in both : Min(both) =< k
  BY <1>4, Zenon DEF Min
<1>6. found \in SUBSET similar /\ Cardinality(found) = Min(both)
  BY DEF kSubset
<1>7. IsFiniteSet(found) /\ Cardinality(found) \in Nat
  BY <1>6, EverythingIsFinite
<1>8. Cardinality(found) <= SearchLimit
  <2>. HIDE DEF both
  <2>. QED  BY <1>5, <1>6 DEF both
<1>9. Cardinality(found) = SearchLimit \/ found = similar
  <2>1. Cardinality(found) = SearchLimit \/ Cardinality(found) = Cardinality(similar)
    BY <1>5, <1>6
  <2>. QED  BY <2>1, <1>2, <1>6, FS_Subset
<1>10. /\ IsFiniteSet(others) /\ Cardinality(others) \in Nat
       /\ Cardinality(others) <= Cardinality(found)
       /\ Cardinality(others) >= Cardinality(found) - 1
  <2>1. IsFiniteSet(others)
    BY <1>7, FS_RemoveElement
  <2>2. Cardinality(others) = IF r \in found THEN Cardinality(found) - 1 ELSE Cardinality(found)
    BY <1>7, FS_RemoveElement
  <2>3. Cardinality(others) \in Nat
    BY <2>1, FS_CardinalityType
  <2>. QED  BY <1>7, <2>1, <2>2, <2>3
<1>11. Cardinality(others) <= Cardinality(similar \ {r})
  <2>1. others \in SUBSET (similar \ {r}) /\ IsFiniteSet(similar \ {r})
    BY <1>2, <1>6, FS_RemoveElement
  <2>. QED  BY <2>1, FS_Subset
<1>12. ASSUME NEW M \in SUBSET similar, NEW k \in 0..5, Cardinality(M \ {r}) >= k
       PROVE  Cardinality(others) >= k
  <2>1. CASE Cardinality(found) = SearchLimit
    BY <2>1, <1>1, <1>10
  <2>2. CASE found = similar
    <3>1. M \ {r} \in SUBSET others
      BY <2>2
    <3>2. Cardinality(M \ {r}) <= Cardinality(others) /\ IsFiniteSet(M \ {r})
      BY <3>1, <1>10, FS_Subset
    <3>3. Cardinality(M \ {r}) \in Nat
      BY <3>2, FS_CardinalityType
    <3>. QED  BY <3>2, <3>3, <1>10, <1>12
  <2>. QED  BY <1>9, <2>1, <2>2
<1>13. others = Others(found, r)
  BY DEF Others
<1>14. Cardinality(others) \in 0..SearchLimit
  BY <1>1, <1>7, <1>8, <1>10
<1>. QED  BY <1>11, <1>12, <1>13, <1>14


\* The signals of this model are of them.
LEMMA SignalIs ==
    ASSUME NEW score \in 0..100
    PROVE  /\ Signal("ml", "toxicity", score) \in SignalRecord
           /\ Signal("vector", "coordinated_abuse", score) \in SignalRecord
           /\ Signal("vision", "graphic_violence", score) \in SignalRecord
           /\ Signal("policy", "cross_modal_disagreement", score) \in SignalRecord
BY DEF Signal, SignalRecord

\* A response whose risk is explained by signals of the right form is a response.
LEMMA ExplainedIsModerated ==
    ASSUME NEW response, NEW risk, NEW signals, response = Response(risk, signals),
           Explained(response), signals \subseteq SignalRecord
    PROVE  response \in Moderated
<1>1. /\ response = [decision |-> Decision(risk), risk |-> risk, signals |-> signals]
      /\ risk \in 0..100
  BY DEF Response, Explained
<1>2. Decision(risk) \in {"allow", "review", "block"}
  BY DEF Decision
<1>. QED  BY <1>1, <1>2 DEF Moderated, SignalRecord

\* The decision of a call rests on what it counted and on nothing that happened since.
LEMMA DecidedIs ==
    ASSUME NEW call \in Call, call.text = NoText => call.image \in ImageScore
    PROVE  /\ Decided(call) \in Moderated
           /\ call.text # NoText /\ call.matches >= 2 => Decided(call).decision # "allow"
           /\ call.text # NoText /\ call.matches >= 5 => Decided(call).decision = "block"
           /\ \A s \in Decided(call).signals : s.category = "coordinated_abuse" =>
                 call.text # NoText /\ call.matches >= 2 /\ (s.score >= 90 => call.matches >= 5)
<1>. DEFINE text == TextResponse({}, OwnScore[call.text], call.matches)
            scores == [c \in {"graphic_violence"} |-> call.image]
            image == ImageResponse(scores)
            fused == FusedResponse(text, scores)
<1>1. /\ call.text \in Text \cup {NoText} /\ call.image \in ImageScore \cup {NoImage}
      /\ call.matches \in Nat
  BY ModerationAssumption DEF Call
<1>2. ASSUME call.text # NoText
      PROVE  /\ Explained(text) /\ text \in Moderated
             /\ text.risk >= 40 <=> OwnScore[call.text] >= 40 \/ call.matches >= 2
             /\ text.risk >= 85 <=> OwnScore[call.text] >= 85 \/ call.matches >= 5
             /\ \A s \in text.signals : s.category = "coordinated_abuse" =>
                   call.matches >= 2 /\ (s.score >= 90 => call.matches >= 5)
  <2>1. PICK n \in Nat : n = call.matches
    BY <1>1
  <2>2. PICK m \in 0..100 : m = OwnScore[call.text]
    BY <1>1, <1>2, ModerationAssumption
  <2>3. PICK response : response = TextResponse({}, m, n)
    OBVIOUS
  <2>4. PICK none : none = {}
    OBVIOUS
  <2>5. /\ Explained(response)
        /\ response.risk >= 85 <=> m >= 85 \/ n >= 5
        /\ response.risk >= 40 <=> m >= 40 \/ n >= 2
        /\ \A s \in response.signals : s.category = "coordinated_abuse" =>
              n >= 2 /\ s.score = CampaignRisk(n)
    <3>1. \A r \in none : r.severity \in 0..100 /\ r.category # "cross_modal_disagreement"
      BY <2>4
    <3>2. /\ Explained(TextResponse(none, m, n))
          /\ TextResponse(none, m, n).risk >= 85 <=> (\E r \in none : r.severity >= 85) \/ m >= 85 \/ n >= 5
          /\ TextResponse(none, m, n).risk >= 40 <=> (\E r \in none : r.severity >= 40) \/ m >= 40 \/ n >= 2
          /\ \A s \in TextResponse(none, m, n).signals : s.category = "coordinated_abuse" =>
                \/ n >= 2 /\ s.score = CampaignRisk(n)
                \/ \E r \in none : r.category = "coordinated_abuse"
      BY <3>1, TextResponseIs
    <3>. QED  BY <2>3, <2>4, <3>2
  <2>6. TextSignals({}, m, n) \subseteq SignalRecord
    <3>1. CampaignRisk(n) \in 0..100
      BY CampaignRiskIs
    <3>2. \A s \in TextSignals({}, m, n) :
             s = Signal("ml", "toxicity", m) \/ s = Signal("vector", "coordinated_abuse", CampaignRisk(n))
      BY DEF TextSignals
    <3>3. /\ Signal("ml", "toxicity", m) \in SignalRecord
          /\ Signal("vector", "coordinated_abuse", CampaignRisk(n)) \in SignalRecord
      BY <3>1, SignalIs
    <3>. QED  BY <3>2, <3>3
  <2>7. response \in Moderated
    <3>1. response = Response(Strictest({r.severity : r \in {}} \cup {m, CampaignRisk(n)}), TextSignals({}, m, n))
      BY <2>3 DEF TextResponse
    <3>. QED  BY <2>5, <2>6, <3>1, ExplainedIsModerated
  <2>8. CampaignRisk(n) >= 90 => n >= 5
    BY CampaignRiskIs
  <2>9. response = text
    BY <2>1, <2>2, <2>3
  <2>. HIDE DEF text
  <2>. QED  BY <2>1, <2>2, <2>5, <2>7, <2>8, <2>9
<1>3. ASSUME call.image \in ImageScore
      PROVE  /\ Explained(image) /\ image \in Moderated
             /\ image.risk = ImageRisk(scores) /\ image.signals = ImageSignals(scores)
             /\ \A s \in image.signals : s.category # "coordinated_abuse"
  <2>1. /\ DOMAIN scores = {"graphic_violence"}
        /\ \A c \in DOMAIN scores : scores[c] \in 0..100 /\ c # "cross_modal_disagreement"
        /\ \A c \in DOMAIN scores : c # "coordinated_abuse"
    BY <1>3, ModerationAssumption
  <2>2. PICK given : given = scores
    OBVIOUS
  <2>. HIDE DEF scores
  <2>3. /\ DOMAIN given = {"graphic_violence"}
        /\ \A c \in DOMAIN given : given[c] \in 0..100 /\ c # "cross_modal_disagreement"
        /\ \A c \in DOMAIN given : c # "coordinated_abuse"
    BY <2>1, <2>2
  <2>4. /\ Explained(ImageResponse(given))
        /\ ImageResponse(given).risk = ImageRisk(given)
        /\ ImageResponse(given).signals = ImageSignals(given)
        /\ \A s \in ImageResponse(given).signals :
              s.category \notin {"cross_modal_disagreement", "coordinated_abuse"}
    BY <2>3, ImageResponseIs
  <2>5. ImageSignals(given) \subseteq SignalRecord
    <3>1. \A s \in ImageSignals(given) : s = Signal("vision", "graphic_violence", given["graphic_violence"])
      BY <2>3 DEF ImageSignals
    <3>2. Signal("vision", "graphic_violence", given["graphic_violence"]) \in SignalRecord
      BY <2>3, SignalIs
    <3>. QED  BY <3>1, <3>2
  <2>6. ImageResponse(given) = Response(ImageRisk(given), ImageSignals(given))
    BY DEF ImageResponse
  <2>7. ImageResponse(given) \in Moderated
    BY <2>4, <2>5, <2>6, ExplainedIsModerated
  <2>. QED  BY <2>2, <2>4, <2>7
<1>4. ASSUME call.text # NoText, call.image \in ImageScore
      PROVE  /\ Explained(fused) /\ fused \in Moderated
             /\ \A t \in Nat : text.risk >= t => fused.risk >= t
             /\ \A s \in fused.signals : s.category = "coordinated_abuse" => s \in text.signals
  <2>1. PICK spoken, given : spoken = text /\ given = scores
    OBVIOUS
  <2>2. /\ Explained(spoken) /\ Explained(ImageResponse(given))
        /\ ImageResponse(given).risk = ImageRisk(given)
        /\ ImageResponse(given).signals = ImageSignals(given)
        /\ spoken \in Moderated /\ ImageResponse(given) \in Moderated
        /\ \A s \in ImageResponse(given).signals : s.category # "coordinated_abuse"
    BY <1>2, <1>3, <1>4, <2>1
  <2>. HIDE DEF text, scores, image
  <2>3. PICK response : response = FusedResponse(spoken, given)
    OBVIOUS
  <2>4. /\ Explained(response)
        /\ \A t \in Nat : response.risk >= t <=> spoken.risk >= t \/ ImageResponse(given).risk >= t
        /\ \A s \in response.signals :
              \/ s \in spoken.signals \/ s \in ImageResponse(given).signals
              \/ s.category = "cross_modal_disagreement"
    BY <2>2, <2>3, FusionIs
  <2>. DEFINE risk == Strictest({spoken.risk, ImageRisk(given)})
              signals == spoken.signals \cup ImageSignals(given) \cup
                 (IF Intervenes(spoken.risk) # Intervenes(ImageRisk(given))
                  THEN {Signal("policy", "cross_modal_disagreement", risk)} ELSE {})
  <2>5. response = Response(risk, signals)
    BY <2>3 DEF FusedResponse
  <2>6. risk \in 0..100
    BY <2>4, <2>5 DEF Explained, Response
  <2>7. signals \subseteq SignalRecord
    <3>1. spoken.signals \subseteq SignalRecord /\ ImageSignals(given) \subseteq SignalRecord
      BY <2>2 DEF Moderated, SignalRecord
    <3>2. Signal("policy", "cross_modal_disagreement", risk) \in SignalRecord
      BY <2>6, SignalIs
    <3>. HIDE DEF risk
    <3>. QED  BY <3>1, <3>2
  <2>8. response \in Moderated
    <3>. HIDE DEF risk, signals
    <3>. QED  BY <2>4, <2>5, <2>7, ExplainedIsModerated
  <2>9. response = fused
    BY <2>1, <2>3
  <2>. QED  BY <2>1, <2>2, <2>4, <2>8, <2>9
<1>5. /\ call.text = NoText => Decided(call) = image
      /\ call.text # NoText /\ call.image = NoImage => Decided(call) = text
      /\ call.text # NoText /\ call.image # NoImage => Decided(call) = fused
  BY DEF Decided
<1>. HIDE DEF text, scores, image, fused
<1>6. \A response : Explained(response) =>
         /\ response.risk \in 0..100
         /\ response.risk >= 40 => response.decision # "allow"
         /\ response.risk >= 85 => response.decision = "block"
  BY DEF Explained, Decision, BlockThreshold, ReviewThreshold
<1>7. CASE call.text = NoText
  BY <1>3, <1>5, <1>7
<1>8. CASE call.text # NoText /\ call.image = NoImage
  BY <1>1, <1>2, <1>5, <1>6, <1>8
<1>9. CASE call.text # NoText /\ call.image # NoImage
  <2>1. call.image \in ImageScore
    BY <1>1, <1>9
  <2>2. /\ text.risk >= 40 => fused.risk >= 40
        /\ text.risk >= 85 => fused.risk >= 85
    BY <1>4, <1>9, <2>1
  <2>. QED  BY <1>1, <1>2, <1>4, <1>5, <1>6, <1>9, <2>1, <2>2
<1>. QED  BY <1>7, <1>8, <1>9

-----------------------------------------------------------------------------
\* The requests whose vectors a search for t may find.
Similar(t) == {q \in RequestId : index[q] = t}

\* Process p has searched for text t under id r, and counted the others it found.
Begun(c, p, r, t) ==
    /\ c # NoCall /\ calls' = [calls EXCEPT ![p] = c]
    /\ c.request = r /\ c.text = t /\ c.response = NoCall
    /\ c.matches <= Cardinality(Similar(t) \ {r})
    /\ \A M \in SUBSET Similar(t) : \A k \in 0..5 : Cardinality(M \ {r}) >= k => c.matches >= k

\* A search begins a call with the evidence that the index held.
LEMMA SearchBegins ==
    ASSUME TypeOK, NEW p \in Process, NEW r \in RequestId, NEW t \in Text,
           NEW image \in ImageScore \cup {NoImage}, Search(p, r, t, image)
    PROVE  /\ calls[p] = NoCall
           /\ \E c \in Call : Begun(c, p, r, t)
<1>. DEFINE similar == {q \in RequestId : index[q] = t}
<1>1. PICK found \in kSubset(Min({SearchLimit, Cardinality(similar)}), similar) :
         Begin(p, [request |-> r, text |-> t, image |-> image, response |-> NoCall,
                   matches |-> Cardinality(Others(found, r))])
  BY DEF Search
<1>. DEFINE n == Cardinality(Others(found, r))
            c == [request |-> r, text |-> t, image |-> image, response |-> NoCall, matches |-> n]
<1>2. similar \in SUBSET RequestId /\ similar = Similar(t)
  BY DEF Similar
<1>. HIDE DEF similar
<1>3. /\ n \in 0..SearchLimit /\ n <= Cardinality(similar \ {r})
      /\ \A M \in SUBSET similar : \A k \in 0..5 : Cardinality(M \ {r}) >= k => n >= k
  BY <1>1, <1>2, SearchCounts
<1>4. calls[p] = NoCall /\ calls' = [calls EXCEPT ![p] = c]
  BY <1>1 DEF Begin
<1>. HIDE DEF n
<1>5. c \in Call /\ c.request = r /\ c.text = t /\ c.response = NoCall /\ c.matches = n
  BY <1>3 DEF Call
<1>6. c # NoCall
  BY <1>5, ModerationAssumption
<1>. HIDE DEF c
<1>7. Begun(c, p, r, t)
  BY <1>2, <1>3, <1>4, <1>5, <1>6 DEF Begun
<1>. QED  BY <1>4, <1>5, <1>7

\* A process is in a call, or in none; a call is decided or not.
LEMMA CallIs ==
    ASSUME TypeOK, NEW p \in Process, calls[p] # NoCall
    PROVE  /\ calls[p] \in Call /\ calls[p].request \in RequestId
           /\ calls[p].text \in Text \cup {NoText} /\ calls[p].matches \in Nat
           /\ Deciding(p) => calls[p].response \in Moderated
           /\ Undecided(p) => calls[p].text \in Text /\ calls[p].text # NoText
           /\ calls[p].text # NoText => calls[p].text \in Text
<1>1. calls[p] \in Call
  BY DEF TypeOK
<1>2. /\ calls[p].request \in RequestId
      /\ calls[p].text \in Text \cup {NoText} /\ calls[p].matches \in Nat
      /\ calls[p].response \in Moderated \cup {NoCall}
  BY <1>1, ModerationAssumption DEF Call
<1>3. Undecided(p) => calls[p].text \in Text
  BY DEF TypeOK
<1>. QED  BY <1>1, <1>2, <1>3, ModerationAssumption DEF Deciding

\* An image alone begins a call that its scores decided.
LEMMA InspectionBegins ==
    ASSUME TypeOK, NEW p \in Process, NEW r \in RequestId, NEW image \in ImageScore,
           InspectImage(p, r, image)
    PROVE  /\ calls[p] = NoCall
           /\ \E c \in Call :
                 /\ c # NoCall /\ calls' = [calls EXCEPT ![p] = c]
                 /\ c.text = NoText /\ c.response \in Moderated /\ c.response # NoCall
                 /\ \A s \in c.response.signals : s.category # "coordinated_abuse"
<1>. DEFINE call == [request |-> r, text |-> NoText, image |-> image, matches |-> 0,
                     response |-> NoCall]
            c == [call EXCEPT !.response = Decided(call)]
<1>1. calls[p] = NoCall /\ calls' = [calls EXCEPT ![p] = c]
  BY DEF InspectImage, Begin
<1>2. call \in Call /\ call.text = NoText /\ call.image \in ImageScore /\ call.matches = 0
  BY ModerationAssumption DEF Call
<1>3. /\ Decided(call) \in Moderated
      /\ \A s \in Decided(call).signals : s.category # "coordinated_abuse"
  <2>. HIDE DEF call
  <2>. QED  BY <1>2, DecidedIs
<1>4. c \in Call /\ c.text = NoText /\ c.response = Decided(call)
  <2>. HIDE DEF call
  <2>. QED  BY <1>2, <1>3 DEF Call
<1>. HIDE DEF c
<1>. QED  BY <1>1, <1>3, <1>4, ModerationAssumption

\* A call is decided once its vector is stored.
LEMMA UpsertDecides ==
    ASSUME TypeOK, NEW p \in Process, Upsert(p)
    PROVE  /\ Undecided(p)
           /\ \E c \in Call :
                 /\ c # NoCall /\ calls' = [calls EXCEPT ![p] = c]
                 /\ c.request = calls[p].request /\ c.text = calls[p].text
                 /\ c.matches = calls[p].matches
                 /\ c.response \in Moderated /\ c.response # NoCall
                 /\ c.matches >= 2 => c.response.decision # "allow"
                 /\ c.matches >= 5 => c.response.decision = "block"
                 /\ \A s \in c.response.signals : s.category = "coordinated_abuse" =>
                       c.matches >= 2 /\ (s.score >= 90 => c.matches >= 5)
<1>1. Undecided(p) /\ calls' = [calls EXCEPT ![p].response = Decided(calls[p])]
  BY DEF Upsert
<1>2. calls[p] \in Call /\ calls[p].text # NoText /\ calls[p].matches \in Nat
  BY <1>1, CallIs DEF Undecided
<1>. DEFINE c == [calls[p] EXCEPT !.response = Decided(calls[p])]
<1>3. calls' = [calls EXCEPT ![p] = c]
  BY <1>1
<1>4. /\ Decided(calls[p]) \in Moderated
      /\ calls[p].matches >= 2 => Decided(calls[p]).decision # "allow"
      /\ calls[p].matches >= 5 => Decided(calls[p]).decision = "block"
      /\ \A s \in Decided(calls[p]).signals : s.category = "coordinated_abuse" =>
            calls[p].matches >= 2 /\ (s.score >= 90 => calls[p].matches >= 5)
  <2>1. PICK call : call = calls[p]
    OBVIOUS
  <2>2. call \in Call /\ call.text # NoText
    BY <1>2, <2>1
  <2>3. /\ Decided(call) \in Moderated
        /\ call.matches >= 2 => Decided(call).decision # "allow"
        /\ call.matches >= 5 => Decided(call).decision = "block"
        /\ \A s \in Decided(call).signals : s.category = "coordinated_abuse" =>
              call.matches >= 2 /\ (s.score >= 90 => call.matches >= 5)
    BY <2>2, DecidedIs
  <2>. QED  BY <2>1, <2>3
<1>5. /\ c \in Call /\ c.request = calls[p].request /\ c.text = calls[p].text
      /\ c.matches = calls[p].matches /\ c.response = Decided(calls[p])
  BY <1>2, <1>4 DEF Call
<1>. HIDE DEF c
<1>6. c # NoCall /\ c.response # NoCall
  BY <1>4, <1>5, ModerationAssumption
<1>7. PICK response : response = Decided(calls[p])
  OBVIOUS
<1>8. /\ c.response = response /\ response \in Moderated
      /\ c.matches >= 2 => response.decision # "allow"
      /\ c.matches >= 5 => response.decision = "block"
      /\ \A s \in response.signals : s.category = "coordinated_abuse" =>
            c.matches >= 2 /\ (s.score >= 90 => c.matches >= 5)
  BY <1>4, <1>5, <1>7
<1>. QED  BY <1>1, <1>3, <1>5, <1>6, <1>8


\* Storing a vector under the request of a call.
LEMMA StoreKeepsTypes ==
    ASSUME TypeOK, NEW call, call.request \in RequestId, call.text \in Text, Store(call)
    PROVE  /\ index' = [index EXCEPT ![call.request] = call.text]
           /\ stored' = [stored EXCEPT ![call.request] = stored[call.request] \cup {call.text}]
           /\ index' \in [RequestId -> Text \cup {NoText}]
           /\ stored' \in [RequestId -> SUBSET Text]
BY DEF Store, TypeOK

\* The same in all actions that store.
LEMMA StoresOrNot ==
    ASSUME TypeOK, NEW p \in Process, Upsert(p) \/ Fail(p)
    PROVE  \/ UNCHANGED <<index, stored>>
           \/ /\ Undecided(p)
              /\ index' = [index EXCEPT ![calls[p].request] = calls[p].text]
              /\ stored' = [stored EXCEPT ![calls[p].request] = stored[calls[p].request] \cup {calls[p].text}]
              /\ index' \in [RequestId -> Text \cup {NoText}]
              /\ stored' \in [RequestId -> SUBSET Text]
<1>1. UNCHANGED <<index, stored>> \/ (Undecided(p) /\ Store(calls[p]))
  BY DEF Upsert, Fail
<1>2. CASE UNCHANGED <<index, stored>>
  BY <1>2
<1>3. CASE Undecided(p) /\ Store(calls[p])
  <2>1. calls[p].request \in RequestId /\ calls[p].text \in Text
    BY <1>3, CallIs DEF Undecided
  <2>. QED  BY <1>3, <2>1, StoreKeepsTypes
<1>. QED  BY <1>1, <1>2, <1>3

\* Calls end, are begun or are decided; the others are left alone.
LEMMA CallsChange ==
    ASSUME TypeOK, NEW p \in Process, NEW c \in Call \cup {NoCall}, calls' = [calls EXCEPT ![p] = c]
    PROVE  /\ calls' \in [Process -> Call \cup {NoCall}] /\ calls'[p] = c
           /\ \A q \in Process : q # p => calls'[q] = calls[q]
BY DEF TypeOK

\* Every step keeps the types.
LEMMA TypesAreKept ==
    ASSUME TypeOK, [Next]_vars
    PROVE  TypeOK'
<1>. USE DEF TypeOK
<1>1. ASSUME UNCHANGED vars PROVE TypeOK'
  BY <1>1 DEF vars, Undecided
<1>2. ASSUME NEW p \in Process, NEW r \in RequestId, NEW t \in Text,
             NEW image \in ImageScore \cup {NoImage}, Search(p, r, t, image)
      PROVE  TypeOK'
  <2>1. PICK c \in Call : /\ c # NoCall /\ calls' = [calls EXCEPT ![p] = c]
                          /\ c.text = t /\ c.response = NoCall
    <3>. HIDE DEF TypeOK
    <3>1. \E c \in Call : Begun(c, p, r, t)
      BY <1>2, SearchBegins
    <3>. QED  BY <3>1 DEF Begun
  <2>2. /\ calls' \in [Process -> Call \cup {NoCall}] /\ calls'[p] = c
        /\ \A q \in Process : q # p => calls'[q] = calls[q]
    BY <2>1, CallsChange
  <2>3. prior' \in [Process -> SUBSET RequestId]
    BY <1>2 DEF Search
  <2>4. \A q \in Process : Undecided(q)' => calls'[q].text \in Text
    BY <2>1, <2>2 DEF Undecided
  <2>. QED  BY <1>2, <2>2, <2>3, <2>4 DEF Search
<1>3. ASSUME NEW p \in Process, NEW r \in RequestId, NEW image \in ImageScore,
             InspectImage(p, r, image)
      PROVE  TypeOK'
  <2>1. PICK c \in Call : /\ c # NoCall /\ calls' = [calls EXCEPT ![p] = c]
                          /\ c.response # NoCall
    BY <1>3, InspectionBegins
  <2>2. /\ calls' \in [Process -> Call \cup {NoCall}] /\ calls'[p] = c
        /\ \A q \in Process : q # p => calls'[q] = calls[q]
    BY <2>1, CallsChange
  <2>3. \A q \in Process : Undecided(q)' => calls'[q].text \in Text
    BY <2>1, <2>2 DEF Undecided
  <2>. QED  BY <1>3, <2>2, <2>3 DEF InspectImage
<1>4. ASSUME NEW p \in Process, Upsert(p) PROVE TypeOK'
  <2>1. PICK c \in Call : /\ c # NoCall /\ calls' = [calls EXCEPT ![p] = c]
                          /\ c.response # NoCall
    BY <1>4, UpsertDecides
  <2>2. /\ calls' \in [Process -> Call \cup {NoCall}] /\ calls'[p] = c
        /\ \A q \in Process : q # p => calls'[q] = calls[q]
    BY <2>1, CallsChange
  <2>3. \A q \in Process : Undecided(q)' => calls'[q].text \in Text
    BY <2>1, <2>2 DEF Undecided
  <2>4. index' \in [RequestId -> Text \cup {NoText}] /\ stored' \in [RequestId -> SUBSET Text]
    BY <1>4, StoresOrNot
  <2>. QED  BY <1>4, <2>2, <2>3, <2>4 DEF Upsert
<1>5. ASSUME NEW p \in Process, End(p)
      PROVE  /\ calls' \in [Process -> Call \cup {NoCall}]
             /\ prior' \in [Process -> SUBSET RequestId]
             /\ \A q \in Process : Undecided(q)' => calls'[q].text \in Text
  <2>1. /\ calls' \in [Process -> Call \cup {NoCall}] /\ calls'[p] = NoCall
        /\ \A q \in Process : q # p => calls'[q] = calls[q]
    BY <1>5, CallsChange DEF End
  <2>. QED  BY <1>5, <2>1 DEF End, Undecided
<1>6. ASSUME NEW p \in Process, Fail(p) PROVE TypeOK'
  <2>1. index' \in [RequestId -> Text \cup {NoText}] /\ stored' \in [RequestId -> SUBSET Text]
    BY <1>6, StoresOrNot
  <2>. QED  BY <1>5, <1>6, <2>1 DEF Fail
<1>7. ASSUME NEW p \in Process, Answer(p) PROVE TypeOK'
  <2>1. /\ calls[p].request \in RequestId
        /\ calls[p].text # NoText => calls[p].text \in Text
    BY <1>7, CallIs DEF Answer, Deciding
  <2>2. answered' \in [RequestId -> SUBSET Text] /\ allowed' \in [RequestId -> SUBSET Text]
    BY <1>7, <2>1 DEF Answer, Give
  <2>. QED  BY <1>5, <1>7, <2>2 DEF Answer
<1>. QED  BY <1>1, <1>2, <1>3, <1>4, <1>6, <1>7 DEF Next


\* A vector that is stored counts for its own text only, and only the first one for its id.
LEMMA IndexStaysStored ==
    ASSUME TypeOK, IndexIsStored, DecisionsRestOnCounts, [Next]_vars
    PROVE  /\ IndexIsStored'
           /\ \A q \in RequestId : stored[q] \subseteq stored'[q]
<1>. USE DEF IndexIsStored
<1>1. ASSUME UNCHANGED <<index, stored, answered, allowed>>
      PROVE  IndexIsStored' /\ \A q \in RequestId : stored[q] \subseteq stored'[q]
  BY <1>1
<1>2. ASSUME NEW p \in Process, Upsert(p) \/ Fail(p)
      PROVE  IndexIsStored' /\ \A q \in RequestId : stored[q] \subseteq stored'[q]
  <2>1. UNCHANGED <<answered, allowed>>
    BY <1>2 DEF Upsert, Fail
  <2>2. CASE UNCHANGED <<index, stored>>
    BY <1>1, <2>1, <2>2
  <2>3. CASE ~UNCHANGED <<index, stored>>
    <3>1. /\ Undecided(p)
          /\ index' = [index EXCEPT ![calls[p].request] = calls[p].text]
          /\ stored' = [stored EXCEPT ![calls[p].request] = stored[calls[p].request] \cup {calls[p].text}]
      BY <1>2, <2>3, StoresOrNot
    <3>2. calls[p].request \in RequestId /\ calls[p].text \in Text
      BY <3>1, CallIs DEF Undecided
    <3>3. \A q \in RequestId :
             \/ q = calls[p].request /\ index'[q] = calls[p].text /\ stored'[q] = stored[q] \cup {calls[p].text}
             \/ index'[q] = index[q] /\ stored'[q] = stored[q]
      BY <3>1, <3>2 DEF TypeOK
    <3>4. \A q \in RequestId : IsFiniteSet(stored[q] \cup {calls[p].text})
      BY FS_AddElement
    <3>. QED  BY <2>1, <3>3, <3>4
  <2>. QED  BY <2>2, <2>3
<1>3. ASSUME NEW p \in Process, Answer(p)
      PROVE  IndexIsStored' /\ \A q \in RequestId : stored[q] \subseteq stored'[q]
  <2>1. /\ Deciding(p) /\ Give(calls[p]) /\ UNCHANGED <<index, stored>>
        /\ calls[p].request \in RequestId
    BY <1>3, CallIs DEF Answer, Deciding
  <2>2. CASE calls[p].text = NoText
    BY <1>1, <2>1, <2>2 DEF Give
  <2>3. CASE calls[p].text # NoText
    <3>1. calls[p].text \in stored[calls[p].request]
      BY <2>1, <2>3 DEF DecisionsRestOnCounts, Known, Deciding
    <3>2. /\ answered' = [answered EXCEPT ![calls[p].request] = answered[calls[p].request] \cup {calls[p].text}]
          /\ \/ allowed' = allowed
             \/ allowed' = [allowed EXCEPT ![calls[p].request] = allowed[calls[p].request] \cup {calls[p].text}]
      BY <2>1, <2>3 DEF Give
    <3>3. \A q \in RequestId :
             \/ /\ q = calls[p].request /\ answered'[q] = answered[q] \cup {calls[p].text}
                /\ allowed'[q] = allowed[q] \/ allowed'[q] = allowed[q] \cup {calls[p].text}
             \/ answered'[q] = answered[q] /\ allowed'[q] = allowed[q]
      BY <2>1, <3>2 DEF TypeOK
    <3>. QED  BY <2>1, <3>1, <3>3
  <2>. QED  BY <2>2, <2>3
<1>4. ASSUME NEW p \in Process, NEW r \in RequestId, NEW t \in Text,
             NEW image \in ImageScore \cup {NoImage}, Search(p, r, t, image)
      PROVE  UNCHANGED <<index, stored, answered, allowed>>
  BY <1>4 DEF Search
<1>5. ASSUME NEW p \in Process, NEW r \in RequestId, NEW image \in ImageScore,
             InspectImage(p, r, image)
      PROVE  UNCHANGED <<index, stored, answered, allowed>>
  BY <1>5 DEF InspectImage
<1>6. ASSUME UNCHANGED vars PROVE UNCHANGED <<index, stored, answered, allowed>>
  BY <1>6 DEF vars
<1>. QED  BY <1>1, <1>2, <1>3, <1>4, <1>5, <1>6 DEF Next

\* A search sees at most what was stored, and at least what was answered and kept.
LEMMA SearchIsEvidence ==
    ASSUME TypeOK, IndexIsStored, NEW t \in Text
    PROVE  /\ Similar(t) \subseteq Storers(t)
           /\ \A q \in RequestId : t \in answered[q] /\ Loyal(q, t) => q \in Similar(t)
<1>1. t # NoText
  BY ModerationAssumption
<1>. QED  BY <1>1 DEF Similar, Storers, IndexIsStored, Loyal


\* A part of a set of requests has no more members.
LEMMA PartIsSmaller ==
    ASSUME NEW T \in SUBSET RequestId, NEW S \in SUBSET T
    PROVE  /\ Cardinality(S) \in Nat /\ Cardinality(T) \in Nat
           /\ Cardinality(S) <= Cardinality(T)
BY EverythingIsFinite, FS_Subset

\* What a call counted stays evidence while others store and replace vectors.
LEMMA CountsCarry ==
    ASSUME TypeOK, NEW q \in Process, Known(q),
           calls[q].matches <= Cardinality(Storers(calls[q].text) \ {calls[q].request}),
           \A k \in 0..5 : Cardinality(Members(q)) >= k => calls[q].matches >= k,
           calls'[q].text = calls[q].text, calls'[q].request = calls[q].request,
           calls'[q].matches = calls[q].matches, prior'[q] = prior[q],
           stored' \in [RequestId -> SUBSET Text],
           \A r \in RequestId : stored[r] \subseteq stored'[r]
    PROVE  /\ calls'[q].matches <= Cardinality(Storers(calls[q].text)' \ {calls'[q].request})
           /\ \A k \in 0..5 : Cardinality(Members(q)') >= k => calls'[q].matches >= k
<1>1. calls[q] # NoCall /\ calls[q].matches \in Nat /\ prior[q] \in SUBSET RequestId
  BY CallIs DEF Known, TypeOK
<1>. DEFINE old == Storers(calls[q].text) \ {calls[q].request}
            new == {r \in RequestId : calls[q].text \in stored'[r]} \ {calls[q].request}
            kept == {r \in prior[q] : stored'[r] \subseteq {calls[q].text}}
<1>2. new \in SUBSET RequestId /\ old \in SUBSET new
  BY DEF Storers
<1>3. kept \in SUBSET Members(q) /\ Members(q) \in SUBSET RequestId
  BY <1>1 DEF Members, Loyal
<1>4. /\ Cardinality(old) \in Nat /\ Cardinality(new) \in Nat /\ Cardinality(old) <= Cardinality(new)
      /\ Cardinality(kept) \in Nat /\ Cardinality(Members(q)) \in Nat
      /\ Cardinality(kept) <= Cardinality(Members(q))
  <2>. HIDE DEF old, new, kept
  <2>. QED  BY <1>2, <1>3, PartIsSmaller
<1>5. Members(q)' = kept
  BY DEF Members, Loyal
<1>6. Storers(calls[q].text)' \ {calls'[q].request} = {r \in RequestId : calls'[q].text \in stored'[r]} \ {calls[q].request}
  BY DEF Storers
<1>7. PICK n \in Nat : n = Cardinality(old)
  BY <1>4
<1>8. PICK m \in Nat : m = Cardinality(Members(q))
  BY <1>4
<1>9. calls'[q].matches <= Cardinality(new)
  <2>. HIDE DEF new
  <2>1. calls[q].matches <= n /\ n <= Cardinality(new)
    BY <1>4, <1>7 DEF old
  <2>. QED  BY <1>1, <1>4, <2>1
<1>10. ASSUME NEW k \in 0..5, Cardinality(kept) >= k PROVE calls[q].matches >= k
  <2>. HIDE DEF kept
  <2>1. m >= k
    BY <1>4, <1>8, <1>10
  <2>. QED  BY <1>8, <2>1
<1>. QED  BY <1>5, <1>6, <1>9, <1>10 DEF new, kept


\* Every step keeps counts evidence.
LEMMA CountsStayEvidence ==
    ASSUME TypeOK, TypeOK', IndexIsStored, CountsAreEvidence, [Next]_vars,
           \A q \in RequestId : stored[q] \subseteq stored'[q]
    PROVE  CountsAreEvidence'
<1>. DEFINE Good(q) == /\ calls'[q].matches <= Cardinality(Storers(calls[q].text)' \ {calls'[q].request})
                       /\ \A k \in 0..5 : Cardinality(Members(q)') >= k => calls'[q].matches >= k
<1>1. SUFFICES ASSUME NEW q \in Process, Known(q)' PROVE Good(q)
  BY DEF CountsAreEvidence
<1>2. stored' \in [RequestId -> SUBSET Text]
  BY DEF TypeOK
<1>3. ASSUME calls[q] # NoCall, calls'[q].text = calls[q].text, calls'[q].request = calls[q].request,
             calls'[q].matches = calls[q].matches, prior'[q] = prior[q]
      PROVE  Good(q)
  <2>1. Known(q)
    BY <1>1, <1>3 DEF Known
  <2>2. /\ calls[q].matches <= Cardinality(Storers(calls[q].text) \ {calls[q].request})
        /\ \A k \in 0..5 : Cardinality(Members(q)) >= k => calls[q].matches >= k
    BY <2>1 DEF CountsAreEvidence
  <2>. QED  BY <1>2, <1>3, <2>1, <2>2, CountsCarry
<1>4. ASSUME calls'[q] = calls[q], prior'[q] = prior[q] PROVE Good(q)
  BY <1>1, <1>3, <1>4 DEF Known
<1>5. CASE UNCHANGED vars
  BY <1>4, <1>5 DEF vars
<1>6. ASSUME NEW p \in Process, NEW r \in RequestId, NEW t \in Text,
             NEW image \in ImageScore \cup {NoImage}, Search(p, r, t, image)
      PROVE  Good(q)
  <2>1. \E c \in Call : Begun(c, p, r, t)
    BY <1>6, SearchBegins
  <2>2. PICK c \in Call :
           /\ c # NoCall /\ calls' = [calls EXCEPT ![p] = c]
           /\ c.request = r /\ c.text = t /\ c.response = NoCall
           /\ c.matches <= Cardinality(Similar(t) \ {r})
           /\ \A M \in SUBSET Similar(t) : \A k \in 0..5 :
                 Cardinality(M \ {r}) >= k => c.matches >= k
    BY <2>1 DEF Begun
  <2>3. calls'[p] = c /\ \A x \in Process : x # p => calls'[x] = calls[x]
    BY <2>2, CallsChange
  <2>4. /\ prior'[p] = {x \in RequestId \ {r} : t \in answered[x]}
        /\ \A x \in Process : x # p => prior'[x] = prior[x]
        /\ stored' = stored
    BY <1>6 DEF Search, TypeOK
  <2>5. CASE q # p
    BY <1>4, <2>3, <2>4, <2>5
  <2>6. CASE q = p
    <3>1. Storers(t) \in SUBSET RequestId /\ Similar(t) \subseteq Storers(t)
      BY SearchIsEvidence DEF Storers
    <3>2. Cardinality(Similar(t) \ {r}) <= Cardinality(Storers(t) \ {r})
      <4>1. Storers(t) \ {r} \in SUBSET RequestId /\ Similar(t) \ {r} \in SUBSET (Storers(t) \ {r})
        BY <3>1
      <4>. QED  BY <4>1, PartIsSmaller
    <3>3. /\ Cardinality(Similar(t) \ {r}) \in Nat /\ Cardinality(Storers(t) \ {r}) \in Nat
          /\ c.matches \in Nat
      <4>1. Storers(t) \ {r} \in SUBSET RequestId /\ Similar(t) \ {r} \in SUBSET (Storers(t) \ {r})
        BY <3>1
      <4>. QED  BY <4>1, PartIsSmaller, ModerationAssumption DEF Call
    <3>4. c.matches <= Cardinality(Storers(t) \ {r})
      <4>1. PICK n \in Nat : n = Cardinality(Similar(t) \ {r})
        BY <3>3
      <4>2. PICK m \in Nat : m = Cardinality(Storers(t) \ {r})
        BY <3>3
      <4>3. c.matches <= n /\ n <= m
        BY <2>2, <3>2, <4>1, <4>2
      <4>. QED  BY <3>3, <4>2, <4>3
    <3>5. Storers(calls[q].text)' \ {calls'[q].request} = Storers(t) \ {r}
      BY <2>2, <2>3, <2>4, <2>6 DEF Storers
    <3>6. Members(q)' \in SUBSET Similar(t) /\ Members(q)' \ {r} = Members(q)'
      <4>1. Members(q)' = {x \in prior'[q] : stored[x] \subseteq {t}}
        BY <2>2, <2>3, <2>4, <2>6 DEF Members, Loyal
      <4>. QED  BY <2>4, <2>6, <4>1, SearchIsEvidence DEF Loyal
    <3>7. \A k \in 0..5 : Cardinality(Members(q)') >= k => c.matches >= k
      BY <2>2, <3>6
    <3>. QED  BY <2>3, <2>6, <3>4, <3>5, <3>7
  <2>. QED  BY <2>5, <2>6
<1>7. ASSUME NEW p \in Process, NEW r \in RequestId, NEW image \in ImageScore,
             InspectImage(p, r, image)
      PROVE  Good(q)
  <2>1. PICK c \in Call : /\ c # NoCall /\ calls' = [calls EXCEPT ![p] = c]
                          /\ c.text = NoText
    BY <1>7, InspectionBegins
  <2>2. calls'[p] = c /\ \A x \in Process : x # p => calls'[x] = calls[x]
    BY <2>1, CallsChange
  <2>3. q # p
    BY <1>1, <2>1, <2>2 DEF Known
  <2>. QED  BY <1>4, <1>7, <2>2, <2>3 DEF InspectImage
<1>8. ASSUME NEW p \in Process, Upsert(p) PROVE Good(q)
  <2>1. PICK c \in Call : /\ c # NoCall /\ calls' = [calls EXCEPT ![p] = c]
                          /\ c.request = calls[p].request /\ c.text = calls[p].text
                          /\ c.matches = calls[p].matches
    BY <1>8, UpsertDecides
  <2>2. calls'[p] = c /\ \A x \in Process : x # p => calls'[x] = calls[x]
    BY <2>1, CallsChange
  <2>3. prior' = prior /\ calls[p] # NoCall
    BY <1>8 DEF Upsert, Undecided
  <2>. QED  BY <1>3, <1>4, <2>1, <2>2, <2>3
<1>9. ASSUME NEW p \in Process, Fail(p) \/ Answer(p) PROVE Good(q)
  <2>1. End(p)
    BY <1>9 DEF Fail, Answer
  <2>2. calls'[p] = NoCall /\ \A x \in Process : x # p => calls'[x] = calls[x]
    BY <2>1, CallsChange DEF End
  <2>3. q # p
    BY <1>1, <2>2 DEF Known
  <2>4. prior'[q] = prior[q]
    BY <2>1, <2>3 DEF End, TypeOK
  <2>. QED  BY <1>4, <2>2, <2>3, <2>4
<1>. HIDE DEF Good
<1>. QED  BY <1>5, <1>6, <1>7, <1>8, <1>9 DEF Next

\* Every step keeps decisions resting on counts.
LEMMA DecisionsStay ==
    ASSUME TypeOK, DecisionsRestOnCounts, [Next]_vars,
           \A q \in RequestId : stored[q] \subseteq stored'[q]
    PROVE  DecisionsRestOnCounts'
<1>. DEFINE Good(q) ==
        /\ Known(q)' => calls'[q].text \in stored'[calls'[q].request]
        /\ Known(q)' /\ calls'[q].matches >= 2 => calls'[q].response.decision # "allow"
        /\ Known(q)' /\ calls'[q].matches >= 5 => calls'[q].response.decision = "block"
        /\ \A s \in calls'[q].response.signals : s.category = "coordinated_abuse" =>
              Known(q)' /\ calls'[q].matches >= 2 /\ (s.score >= 90 => calls'[q].matches >= 5)
<1>1. SUFFICES ASSUME NEW q \in Process, Deciding(q)' PROVE Good(q)
  BY DEF DecisionsRestOnCounts
<1>2. ASSUME calls'[q] = calls[q] PROVE Good(q)
  <2>1. Deciding(q) /\ (Known(q)' <=> Known(q)) /\ calls[q].request \in RequestId
    BY <1>1, <1>2, CallIs DEF Deciding, Known
  <2>2. /\ Known(q) => calls[q].text \in stored[calls[q].request]
        /\ Known(q) /\ calls[q].matches >= 2 => calls[q].response.decision # "allow"
        /\ Known(q) /\ calls[q].matches >= 5 => calls[q].response.decision = "block"
        /\ \A s \in calls[q].response.signals : s.category = "coordinated_abuse" =>
              Known(q) /\ calls[q].matches >= 2 /\ (s.score >= 90 => calls[q].matches >= 5)
    BY <2>1 DEF DecisionsRestOnCounts
  <2>. QED  BY <1>2, <2>1, <2>2
<1>3. CASE UNCHANGED vars
  BY <1>2, <1>3 DEF vars
<1>4. ASSUME NEW p \in Process, NEW r \in RequestId, NEW t \in Text,
             NEW image \in ImageScore \cup {NoImage}, Search(p, r, t, image)
      PROVE  Good(q)
  <2>1. \E c \in Call : Begun(c, p, r, t)
    BY <1>4, SearchBegins
  <2>2. PICK c \in Call : calls' = [calls EXCEPT ![p] = c] /\ c.response = NoCall
    BY <2>1 DEF Begun
  <2>3. calls'[p] = c /\ \A x \in Process : x # p => calls'[x] = calls[x]
    BY <2>2, CallsChange
  <2>. QED  BY <1>1, <1>2, <2>2, <2>3 DEF Deciding
<1>5. ASSUME NEW p \in Process, NEW r \in RequestId, NEW image \in ImageScore,
             InspectImage(p, r, image)
      PROVE  Good(q)
  <2>1. PICK c \in Call : /\ calls' = [calls EXCEPT ![p] = c] /\ c.text = NoText
                          /\ \A s \in c.response.signals : s.category # "coordinated_abuse"
    BY <1>5, InspectionBegins
  <2>2. calls'[p] = c /\ \A x \in Process : x # p => calls'[x] = calls[x]
    BY <2>1, CallsChange
  <2>3. CASE q = p
    <3>1. ~Known(q)'
      BY <2>1, <2>2, <2>3 DEF Known
    <3>. QED  BY <2>1, <2>2, <2>3, <3>1
  <2>. QED  BY <1>2, <2>2, <2>3
<1>6. ASSUME NEW p \in Process, Upsert(p) PROVE Good(q)
  <2>1. Undecided(p) /\ UNCHANGED prior /\ Store(calls[p])
    BY <1>6 DEF Upsert
  <2>2. PICK c \in Call :
           /\ c # NoCall /\ calls' = [calls EXCEPT ![p] = c]
           /\ c.request = calls[p].request /\ c.text = calls[p].text
           /\ c.matches = calls[p].matches
           /\ c.response \in Moderated /\ c.response # NoCall
           /\ c.matches >= 2 => c.response.decision # "allow"
           /\ c.matches >= 5 => c.response.decision = "block"
           /\ \A s \in c.response.signals : s.category = "coordinated_abuse" =>
                 c.matches >= 2 /\ (s.score >= 90 => c.matches >= 5)
    BY <1>6, UpsertDecides
  <2>3. calls'[p] = c /\ \A x \in Process : x # p => calls'[x] = calls[x]
    BY <2>2, CallsChange
  <2>4. CASE q = p
    <3>1. /\ calls[p].request \in RequestId /\ calls[p].text \in Text /\ calls[p].text # NoText
      BY <2>1, CallIs DEF Undecided
    <3>2. c.text \in stored'[c.request]
      BY <2>1, <2>2, <3>1 DEF Store, TypeOK
    <3>3. Known(q)'
      BY <2>2, <2>3, <2>4, <3>1 DEF Known
    <3>. QED  BY <2>2, <2>3, <2>4, <3>2, <3>3
  <2>. QED  BY <1>2, <2>3, <2>4
<1>7. ASSUME NEW p \in Process, Fail(p) \/ Answer(p) PROVE Good(q)
  <2>1. End(p)
    BY <1>7 DEF Fail, Answer
  <2>2. calls'[p] = NoCall /\ \A x \in Process : x # p => calls'[x] = calls[x]
    BY <2>1, CallsChange DEF End
  <2>3. q # p
    BY <1>1, <2>2 DEF Deciding
  <2>. QED  BY <1>2, <2>2, <2>3
<1>. HIDE DEF Good
<1>. QED  BY <1>3, <1>4, <1>5, <1>6, <1>7 DEF Next

-----------------------------------------------------------------------------
\* The sets of a campaign are sets of requests.
LEMMA CampaignSets ==
    ASSUME TypeOK, NEW t \in Text
    PROVE  /\ Storers(t) \in SUBSET RequestId /\ LightIds(t) \in SUBSET RequestId
           /\ Allowed(t) \in SUBSET RequestId
<1>1. \A p \in Process : Light(p, t) => calls[p].request \in RequestId
  BY CallIs DEF Light
<1>. QED  BY <1>1 DEF Storers, LightIds, Allowed

\* There are no more light requests than processes.
LEMMA LightIdsAreFew ==
    ASSUME TypeOK, NEW t \in Text
    PROVE  Cardinality(LightIds(t)) \in Nat /\ Cardinality(LightIds(t)) <= Cardinality(Process)
<1>. DEFINE S == {p \in Process : Light(p, t)}
            f == [p \in S |-> calls[p].request]
<1>1. IsFiniteSet(S) /\ Cardinality(S) <= Cardinality(Process)
  <2>1. S \in SUBSET Process
    OBVIOUS
  <2>. QED  BY <2>1, EverythingIsFinite, FS_Subset
<1>2. f \in Surjection(S, LightIds(t))
  <2>1. f \in [S -> LightIds(t)]
    BY DEF LightIds
  <2>2. \A id \in LightIds(t) : \E p \in S : f[p] = id
    BY DEF LightIds
  <2>. QED  BY <2>1, <2>2 DEF Surjection
<1>. HIDE DEF S, f
<1>3. IsFiniteSet(LightIds(t)) /\ Cardinality(LightIds(t)) <= Cardinality(S)
  BY <1>1, <1>2, FS_Surjection
<1>4. Cardinality(S) \in Nat /\ Cardinality(LightIds(t)) \in Nat /\ Cardinality(Process) \in Nat
  BY <1>1, <1>3, EverythingIsFinite, FS_CardinalityType
<1>. QED  BY <1>1, <1>3, <1>4

\* The same for all campaigns, to be cited of the state after a step.
LightIsFew == \A t \in Text : Cardinality(LightIds(t)) <= Cardinality(Process)

\* It follows from the types.
LEMMA TypesMakeLightFew == TypeOK => LightIsFew
BY LightIdsAreFew DEF LightIsFew

\* The bound is kept when neither union grows.
LEMMA BoundCarries ==
    ASSUME NEW S \in SUBSET RequestId, NEW L \in SUBSET RequestId, NEW A \in SUBSET RequestId,
           NEW T \in SUBSET RequestId, NEW M \in SUBSET RequestId, NEW B \in SUBSET RequestId,
           Bounded(S, L, A), S \subseteq T,
           Cardinality(T) <= 2 => T \cup M \subseteq S \cup L,
           B \cup M \subseteq A \cup L
    PROVE  Bounded(T, M, B)
<1>1. Cardinality(Process) \in Nat
  BY EverythingIsFinite, FS_CardinalityType
<1>2. /\ Cardinality(B \cup M) \in Nat /\ Cardinality(A \cup L) \in Nat
      /\ Cardinality(B \cup M) <= Cardinality(A \cup L)
  <2>1. A \cup L \in SUBSET RequestId /\ B \cup M \in SUBSET (A \cup L)
    OBVIOUS
  <2>. QED  BY <2>1, PartIsSmaller
<1>3. ASSUME Cardinality(T) <= 2
      PROVE  Cardinality(T \cup M) <= Cardinality(Process) + 1
  <2>1. S \cup L \in SUBSET RequestId /\ T \cup M \in SUBSET (S \cup L) /\ S \in SUBSET T
    BY <1>3
  <2>2. /\ Cardinality(T \cup M) \in Nat /\ Cardinality(S \cup L) \in Nat
        /\ Cardinality(T \cup M) <= Cardinality(S \cup L)
        /\ Cardinality(S) \in Nat /\ Cardinality(T) \in Nat /\ Cardinality(S) <= Cardinality(T)
    BY <2>1, PartIsSmaller
  <2>3. Cardinality(S) <= 2
    BY <1>3, <2>2
  <2>4. Cardinality(S \cup L) <= Cardinality(Process) + 1
    BY <2>3 DEF Bounded
  <2>. QED  BY <1>1, <2>2, <2>4
<1>4. Cardinality(A \cup L) <= Cardinality(Process) + 1
  BY DEF Bounded
<1>. QED  BY <1>1, <1>2, <1>3, <1>4 DEF Bounded

\* A light request adds to them only while at most two members are stored.
LEMMA BoundOfSearch ==
    ASSUME NEW S \in SUBSET RequestId, NEW L \in SUBSET RequestId, NEW A \in SUBSET RequestId,
           NEW M \in SUBSET RequestId, NEW r \in RequestId,
           Bounded(S, L, A), M \subseteq L \cup {r}, A \subseteq S,
           Cardinality(M) <= Cardinality(Process),
           ~(Cardinality(S \ {r}) >= 2)
    PROVE  Bounded(S, M, A)
<1>1. Cardinality(Process) \in Nat
  BY EverythingIsFinite, FS_CardinalityType
<1>2. IsFiniteSet(S) /\ IsFiniteSet(M) /\ Cardinality(S) \in Nat /\ Cardinality(M) \in Nat
  BY EverythingIsFinite
<1>3. Cardinality(S \ {r}) \in Nat /\ Cardinality(S \ {r}) = IF r \in S THEN Cardinality(S) - 1 ELSE Cardinality(S)
  BY <1>2, EverythingIsFinite, FS_RemoveElement
<1>4. Cardinality(A \cup M) \in Nat /\ Cardinality(S \cup M) \in Nat /\ Cardinality(A \cup M) <= Cardinality(S \cup M)
  <2>1. S \cup M \in SUBSET RequestId /\ A \cup M \in SUBSET (S \cup M)
    OBVIOUS
  <2>. QED  BY <2>1, PartIsSmaller
<1>5. Cardinality(S \cup M) <= Cardinality(Process) + 1
  <2>1. CASE r \in S /\ Cardinality(S) = 2
    <3>1. S \cup M \in SUBSET (S \cup L) /\ S \cup L \in SUBSET RequestId
      BY <2>1
    <3>2. Cardinality(S \cup M) <= Cardinality(S \cup L) /\ Cardinality(S \cup L) \in Nat
      BY <3>1, PartIsSmaller
    <3>3. Cardinality(S \cup L) <= Cardinality(Process) + 1
      BY <2>1 DEF Bounded
    <3>. QED  BY <1>1, <1>4, <3>2, <3>3
  <2>2. CASE Cardinality(S) <= 1
    <3>1. Cardinality(S \cup M) = Cardinality(S) + Cardinality(M) - Cardinality(S \cap M)
      BY <1>2, FS_Union
    <3>2. Cardinality(S \cap M) \in Nat
      BY EverythingIsFinite
    <3>. QED  BY <1>1, <1>2, <1>4, <2>2, <3>1, <3>2
  <2>3. (r \in S /\ Cardinality(S) = 2) \/ Cardinality(S) <= 1
    BY <1>2, <1>3
  <2>. QED  BY <2>1, <2>2, <2>3
<1>6. Cardinality(A \cup M) <= Cardinality(Process) + 1
  BY <1>1, <1>4, <1>5
<1>. QED  BY <1>5, <1>6 DEF Bounded


\* While ids keep to their texts the index holds every member of a campaign.
LEMMA IndexIsComplete ==
    ASSUME IndexIsStored, OneTextPerId, NEW t \in Text
    PROVE  Storers(t) \subseteq Similar(t)
<1>1. SUFFICES ASSUME NEW q \in RequestId, t \in stored[q] PROVE index[q] = t
  BY DEF Storers, Similar
<1>2. /\ IsFiniteSet(stored[q]) /\ Cardinality(stored[q]) <= 1 /\ index[q] \in stored[q]
  BY <1>1 DEF IndexIsStored, OneTextPerId
<1>3. Cardinality(stored[q]) \in Nat /\ Cardinality(stored[q]) # 0
  BY <1>1, <1>2, FS_CardinalityType, FS_EmptySet
<1>4. Cardinality(stored[q]) = 1
  BY <1>2, <1>3
<1>5. PICK x : stored[q] = {x}
  BY <1>2, <1>4, FS_Singleton
<1>. QED  BY <1>1, <1>2, <1>5

\* An id that keeps to its text has always kept to it.
LEMMA OneTextBefore ==
    ASSUME IndexIsStored', OneTextPerId', \A q \in RequestId : stored[q] \subseteq stored'[q]
    PROVE  OneTextPerId
<1>1. SUFFICES ASSUME NEW q \in RequestId PROVE Cardinality(stored[q]) <= 1
  BY DEF OneTextPerId
<1>2. IsFiniteSet(stored'[q]) /\ stored[q] \in SUBSET stored'[q] /\ Cardinality(stored'[q]) <= 1
  BY DEF OneTextPerId, IndexIsStored
<1>3. IsFiniteSet(stored[q]) /\ Cardinality(stored[q]) <= Cardinality(stored'[q])
  BY <1>2, FS_Subset
<1>. QED  BY <1>2, <1>3, FS_CardinalityType

\* Every step keeps the escapes counted.
LEMMA EscapesStayCounted ==
    ASSUME TypeOK, TypeOK', IndexIsStored, IndexIsStored', CountsAreEvidence,
           DecisionsRestOnCounts, EscapesAreCounted, [Next]_vars,
           \A q \in RequestId : stored[q] \subseteq stored'[q]
    PROVE  EscapesAreCounted'
<1>1. SUFFICES ASSUME OneTextPerId', NEW t \in Text
               PROVE  Bounded(Storers(t)', LightIds(t)', Allowed(t)')
  BY DEF EscapesAreCounted, Bounded
<1>2. OneTextPerId
  BY <1>1, OneTextBefore
<1>3. Bounded(Storers(t), LightIds(t), Allowed(t))
  BY <1>2 DEF EscapesAreCounted
<1>4. /\ Storers(t) \in SUBSET RequestId /\ LightIds(t) \in SUBSET RequestId
      /\ Allowed(t) \in SUBSET RequestId /\ Allowed(t) \subseteq Storers(t)
  BY CampaignSets DEF Allowed, Storers, IndexIsStored
<1>5. /\ Storers(t)' \in SUBSET RequestId /\ LightIds(t)' \in SUBSET RequestId
      /\ Allowed(t)' \in SUBSET RequestId
  <2>1. \A p \in Process : calls'[p] # NoCall => calls'[p].request \in RequestId
    BY DEF TypeOK, Call
  <2>. QED  BY <2>1 DEF Storers, LightIds, Allowed, Light
<1>6. t # NoText
  BY ModerationAssumption
<1>. DEFINE Same(q) == \/ calls'[q] = calls[q] \/ calls'[q] = NoCall
                       \/ /\ calls[q] # NoCall /\ calls'[q].request = calls[q].request
                          /\ calls'[q].text = calls[q].text /\ calls'[q].matches = calls[q].matches
                       \/ calls'[q].text # t
<1>7. ASSUME \A q \in Process : Same(q) PROVE LightIds(t)' \subseteq LightIds(t)
  BY <1>7 DEF LightIds, Light
<1>8. ASSUME \A q \in Process : Same(q), Storers(t)' = Storers(t), Allowed(t)' \subseteq Allowed(t) \cup LightIds(t)
      PROVE  Bounded(Storers(t)', LightIds(t)', Allowed(t)')
  <2>1. LightIds(t)' \subseteq LightIds(t)
    BY <1>7, <1>8
  <2>. QED  BY <1>3, <1>4, <1>5, <1>8, <2>1, BoundCarries
<1>9. CASE UNCHANGED vars
  <2>1. /\ \A q \in Process : Same(q)
        /\ Storers(t)' = Storers(t) /\ Allowed(t)' = Allowed(t)
    BY <1>9 DEF vars, Storers, Allowed
  <2>. HIDE DEF Same
  <2>. QED  BY <1>8, <2>1
<1>10. ASSUME NEW p \in Process, NEW r \in RequestId, NEW u \in Text,
              NEW image \in ImageScore \cup {NoImage}, Search(p, r, u, image)
       PROVE  Bounded(Storers(t)', LightIds(t)', Allowed(t)')
  <2>1. \E c \in Call : Begun(c, p, r, u)
    BY <1>10, SearchBegins
  <2>2. PICK c \in Call :
           /\ c # NoCall /\ calls' = [calls EXCEPT ![p] = c]
           /\ c.request = r /\ c.text = u
           /\ \A M \in SUBSET Similar(u) : \A k \in 0..5 :
                 Cardinality(M \ {r}) >= k => c.matches >= k
    BY <2>1 DEF Begun
  <2>3. calls'[p] = c /\ \A x \in Process : x # p => calls'[x] = calls[x]
    BY <2>2, CallsChange
  <2>4. Storers(t)' = Storers(t) /\ Allowed(t)' = Allowed(t)
    BY <1>10 DEF Search, Storers, Allowed
  <2>5. CASE u # t
    <3>1. \A q \in Process : Same(q)
      BY <2>2, <2>3, <2>5
    <3>. HIDE DEF Same
    <3>. QED  BY <1>8, <2>4, <3>1
  <2>6. CASE u = t /\ c.matches >= 2
    <3>1. c.matches \in Nat
      BY ModerationAssumption DEF Call
    <3>2. LightIds(t)' \subseteq LightIds(t)
      BY <2>2, <2>3, <2>6, <3>1 DEF LightIds, Light
    <3>. QED  BY <1>3, <1>4, <1>5, <2>4, <3>2, BoundCarries
  <2>7. CASE u = t /\ ~(c.matches >= 2)
    <3>1. Storers(t) \in SUBSET Similar(t)
      BY <1>2, IndexIsComplete
    <3>2. ~(Cardinality(Storers(t) \ {r}) >= 2)
      BY <2>2, <2>7, <3>1
    <3>3. LightIds(t)' \subseteq LightIds(t) \cup {r}
      BY <2>2, <2>3 DEF LightIds, Light
    <3>4. Cardinality(LightIds(t)') <= Cardinality(Process)
      <4>1. TypeOK' => LightIsFew'
        BY TypesMakeLightFew, PTL
      <4>2. LightIsFew'
        BY <4>1
      <4>. QED  BY <4>2 DEF LightIsFew
    <3>5. Bounded(Storers(t), LightIds(t)', Allowed(t))
      BY <1>3, <1>4, <1>5, <3>2, <3>3, <3>4, BoundOfSearch
    <3>. QED  BY <2>4, <3>5
  <2>8. c.matches >= 2 \/ ~(c.matches >= 2)
    OBVIOUS
  <2>. QED  BY <2>5, <2>6, <2>7, <2>8
<1>11. ASSUME NEW p \in Process, NEW r \in RequestId, NEW image \in ImageScore,
              InspectImage(p, r, image)
       PROVE  Bounded(Storers(t)', LightIds(t)', Allowed(t)')
  <2>1. PICK c \in Call : calls' = [calls EXCEPT ![p] = c] /\ c.text = NoText
    BY <1>11, InspectionBegins
  <2>2. calls'[p] = c /\ \A x \in Process : x # p => calls'[x] = calls[x]
    BY <2>1, CallsChange
  <2>3. \A q \in Process : Same(q)
    BY <1>6, <2>1, <2>2
  <2>4. Storers(t)' = Storers(t) /\ Allowed(t)' = Allowed(t)
    BY <1>11 DEF InspectImage, Storers, Allowed
  <2>. HIDE DEF Same
  <2>. QED  BY <1>8, <2>3, <2>4
<1>12. ASSUME NEW p \in Process, Upsert(p) \/ Fail(p)
       PROVE  Bounded(Storers(t)', LightIds(t)', Allowed(t)')
  <2>1. \A q \in Process : Same(q)
    <3>1. CASE Upsert(p)
      <4>1. PICK c \in Call : /\ calls' = [calls EXCEPT ![p] = c]
                              /\ c.request = calls[p].request /\ c.text = calls[p].text
                              /\ c.matches = calls[p].matches
        BY <3>1, UpsertDecides
      <4>2. calls'[p] = c /\ \A x \in Process : x # p => calls'[x] = calls[x]
        BY <4>1, CallsChange
      <4>3. calls[p] # NoCall
        BY <3>1 DEF Upsert, Undecided
      <4>. QED  BY <4>1, <4>2, <4>3
    <3>2. CASE Fail(p)
      <4>1. calls'[p] = NoCall /\ \A x \in Process : x # p => calls'[x] = calls[x]
        BY <3>2, CallsChange DEF Fail, End
      <4>. QED  BY <4>1
    <3>. QED  BY <1>12, <3>1, <3>2
  <2>. HIDE DEF Same
  <2>2. LightIds(t)' \subseteq LightIds(t)
    BY <1>7, <2>1
  <2>3. Allowed(t)' = Allowed(t)
    BY <1>12 DEF Upsert, Fail, Allowed
  <2>4. CASE UNCHANGED <<index, stored>>
    <3>1. Storers(t)' = Storers(t)
      BY <2>4 DEF Storers
    <3>. QED  BY <1>8, <2>1, <2>3, <3>1
  <2>5. CASE ~UNCHANGED <<index, stored>>
    <3>1. /\ Undecided(p)
          /\ stored' = [stored EXCEPT ![calls[p].request] = stored[calls[p].request] \cup {calls[p].text}]
      BY <1>12, <2>5, StoresOrNot
    <3>2. calls[p].request \in RequestId /\ calls[p].text # NoText /\ calls[p].matches \in Nat
      BY <3>1, CallIs DEF Undecided
    <3>3. CASE calls[p].text # t
      <4>1. Storers(t)' = Storers(t)
        BY <3>1, <3>2, <3>3 DEF Storers, TypeOK
      <4>. QED  BY <1>8, <2>1, <2>3, <4>1
    <3>4. CASE calls[p].text = t
      <4>1. PICK r \in RequestId : r = calls[p].request
        BY <3>2
      <4>2. Storers(t)' = Storers(t) \cup {r}
        BY <3>1, <3>2, <3>4, <4>1 DEF Storers, TypeOK
      <4>3. ASSUME Cardinality(Storers(t)') <= 2 PROVE r \in LightIds(t)
        <5>1. calls[p].matches <= Cardinality(Storers(t) \ {r})
          BY <3>1, <3>2, <3>4, <4>1 DEF CountsAreEvidence, Known, Undecided
        <5>2. IsFiniteSet(Storers(t) \ {r}) /\ Cardinality(Storers(t) \ {r}) \in Nat
          BY <1>4, EverythingIsFinite
        <5>3. Storers(t)' = (Storers(t) \ {r}) \cup {r}
          BY <4>2
        <5>4. Cardinality((Storers(t) \ {r}) \cup {r}) = Cardinality(Storers(t) \ {r}) + 1
          <6>1. r \notin Storers(t) \ {r}
            OBVIOUS
          <6>. QED  BY <5>2, <6>1, FS_AddElement
        <5>5. Cardinality(Storers(t) \ {r}) < 2
          BY <4>3, <5>2, <5>3, <5>4
        <5>6. calls[p].matches < 2
          BY <3>2, <5>1, <5>2, <5>5
        <5>. QED  BY <3>1, <3>4, <4>1, <5>6 DEF LightIds, Light, Undecided
      <4>4. Cardinality(Storers(t)') <= 2 =>
               Storers(t)' \cup LightIds(t)' \subseteq Storers(t) \cup LightIds(t)
        BY <2>2, <4>2, <4>3
      <4>5. Storers(t) \subseteq Storers(t)'
        BY <4>2
      <4>. QED  BY <1>3, <1>4, <1>5, <2>2, <2>3, <4>4, <4>5, BoundCarries
    <3>. QED  BY <3>3, <3>4
  <2>. QED  BY <2>4, <2>5
<1>13. ASSUME NEW p \in Process, Answer(p)
       PROVE  Bounded(Storers(t)', LightIds(t)', Allowed(t)')
  <2>1. /\ Deciding(p) /\ Give(calls[p]) /\ End(p) /\ stored' = stored
    BY <1>13 DEF Answer
  <2>2. calls'[p] = NoCall /\ \A x \in Process : x # p => calls'[x] = calls[x]
    BY <2>1, CallsChange DEF End
  <2>3. \A q \in Process : Same(q)
    BY <2>2
  <2>4. calls[p].request \in RequestId /\ calls[p].matches \in Nat
    BY <2>1, CallIs DEF Deciding
  <2>. HIDE DEF Same
  <2>5. Storers(t)' = Storers(t)
    BY <2>1 DEF Storers
  <2>6. ASSUME NEW q \in Allowed(t)', q \notin Allowed(t) PROVE q \in LightIds(t)
    <3>1. /\ q = calls[p].request /\ calls[p].text = t
          /\ calls[p].response.decision = "allow"
      BY <2>1, <2>4, <2>6 DEF Give, Allowed, TypeOK
    <3>2. calls[p].matches < 2
      BY <1>6, <2>1, <2>4, <3>1 DEF DecisionsRestOnCounts, Known, Deciding
    <3>. QED  BY <2>1, <3>1, <3>2 DEF LightIds, Light, Deciding
  <2>. QED  BY <1>8, <2>3, <2>5, <2>6
<1>. QED  BY <1>9, <1>10, <1>11, <1>12, <1>13 DEF Next

-----------------------------------------------------------------------------
\* The invariant holds before the first moderation.
LEMMA ModerationStartsWell == Init => ModerationInv
<1>. SUFFICES ASSUME Init PROVE ModerationInv
  OBVIOUS
<1>1. \A p \in Process : calls[p] = NoCall
  BY DEF Init
<1>2. TypeOK
  BY DEF Init, TypeOK, Undecided
<1>3. IndexIsStored
  <2>1. IsFiniteSet({})
    BY FS_EmptySet
  <2>. QED  BY <2>1 DEF Init, IndexIsStored
<1>4. CountsAreEvidence /\ DecisionsRestOnCounts
  BY <1>1 DEF CountsAreEvidence, DecisionsRestOnCounts, Known, Deciding
<1>5. EscapesAreCounted
  <2>1. SUFFICES ASSUME NEW t \in Text PROVE Bounded(Storers(t), LightIds(t), Allowed(t))
    BY DEF EscapesAreCounted
  <2>2. Storers(t) = {} /\ LightIds(t) = {} /\ Allowed(t) = {}
    BY <1>1 DEF Init, Storers, LightIds, Allowed, Light
  <2>3. Cardinality({}) = 0 /\ Cardinality(Process) \in Nat
    BY FS_EmptySet, EverythingIsFinite, FS_CardinalityType
  <2>4. {} \cup {} = {}
    OBVIOUS
  <2>5. Bounded({}, {}, {})
    BY <2>3, <2>4 DEF Bounded
  <2>. QED  BY <2>2, <2>5
<1>. QED  BY <1>2, <1>3, <1>4, <1>5 DEF ModerationInv

(* However moderations interleave, fail and are sent again, the index, the *)
(* counts and the decisions belong together.                               *)
THEOREM ModerationInvHolds == Spec => []ModerationInv
<1>1. Init => ModerationInv
  BY ModerationStartsWell
<1>2. ModerationInv /\ [Next]_vars => ModerationInv'
  <2>. SUFFICES ASSUME ModerationInv, [Next]_vars PROVE ModerationInv'
    OBVIOUS
  <2>. USE DEF ModerationInv
  <2>1. TypeOK'
    BY TypesAreKept
  <2>2. IndexIsStored' /\ \A q \in RequestId : stored[q] \subseteq stored'[q]
    BY IndexStaysStored
  <2>3. CountsAreEvidence'
    BY <2>1, <2>2, CountsStayEvidence
  <2>4. DecisionsRestOnCounts'
    BY <2>2, DecisionsStay
  <2>5. EscapesAreCounted'
    BY <2>1, <2>2, EscapesStayCounted
  <2>. QED  BY <2>1, <2>2, <2>3, <2>4, <2>5
<1>. QED  BY <1>1, <1>2, PTL DEF Spec

\* The index, the calls and the observations have their types.
THEOREM ModerationTypesHold == Spec => []TypeOK
<1>1. ModerationInv => TypeOK
  BY DEF ModerationInv
<1>. QED  BY <1>1, ModerationInvHolds, PTL

(* Whatever failed or was sent again, a text that follows two answered     *)
(* members of its campaign is not allowed and one that follows five is     *)
(* blocked (threat_intelligence/service.py, assess_and_index).             *)
THEOREM CampaignsAreNoticed == Spec => []CampaignIsNoticed
<1>1. ModerationInv => CampaignIsNoticed
  <2>1. SUFFICES ASSUME ModerationInv, NEW p \in Process, Deciding(p), calls[p].text # NoText
        PROVE  /\ Cardinality(Members(p)) >= 2 => calls[p].response.decision # "allow"
               /\ Cardinality(Members(p)) >= 5 => calls[p].response.decision = "block"
    BY DEF CampaignIsNoticed, Members
  <2>2. Known(p) /\ calls[p].matches \in Nat
    BY <2>1, CallIs DEF Known, Deciding, ModerationInv
  <2>3. \A k \in 0..5 : Cardinality(Members(p)) >= k => calls[p].matches >= k
    BY <2>1, <2>2 DEF ModerationInv, CountsAreEvidence
  <2>4. /\ calls[p].matches >= 2 => calls[p].response.decision # "allow"
        /\ calls[p].matches >= 5 => calls[p].response.decision = "block"
    BY <2>1, <2>2 DEF ModerationInv, DecisionsRestOnCounts
  <2>5. 2 \in 0..5 /\ 5 \in 0..5
    OBVIOUS
  <2>. QED  BY <2>3, <2>4, <2>5
<1>. QED  BY <1>1, ModerationInvHolds, PTL

(* A campaign signal needs as many other requests with similar content as  *)
(* its score tells: replays, retries and redeliveries do not count.        *)
THEOREM CampaignsAreReal == Spec => []NoFalseCampaign
<1>1. ModerationInv => NoFalseCampaign
  <2>1. SUFFICES ASSUME ModerationInv, NEW p \in Process, Deciding(p),
                        NEW s \in calls[p].response.signals, s.category = "coordinated_abuse"
        PROVE  LET others == {q \in RequestId \ {calls[p].request} : calls[p].text \in stored[q]}
               IN  /\ Cardinality(others) >= 2
                   /\ s.score >= 90 => Cardinality(others) >= 5
    BY DEF NoFalseCampaign
  <2>. DEFINE others == {q \in RequestId \ {calls[p].request} : calls[p].text \in stored[q]}
  <2>2. Known(p) /\ calls[p].matches >= 2 /\ (s.score >= 90 => calls[p].matches >= 5)
    BY <2>1 DEF ModerationInv, DecisionsRestOnCounts
  <2>3. others = Storers(calls[p].text) \ {calls[p].request}
    BY DEF Storers
  <2>4. others \in SUBSET RequestId
    OBVIOUS
  <2>. HIDE DEF others
  <2>5. calls[p].matches <= Cardinality(others)
    BY <2>1, <2>2, <2>3 DEF ModerationInv, CountsAreEvidence
  <2>6. calls[p].matches \in Nat /\ Cardinality(others) \in Nat
    BY <2>1, <2>4, CallIs, EverythingIsFinite DEF Deciding, ModerationInv
  <2>7. Cardinality(others) >= 2 /\ (s.score >= 90 => Cardinality(others) >= 5)
    BY <2>2, <2>5, <2>6
  <2>. QED  BY <2>7 DEF others
<1>. QED  BY <1>1, ModerationInvHolds, PTL

(* Moderations that run side by side let at most one member of a campaign  *)
(* escape for each process and one more (the search and the upsert of      *)
(* service.py are two calls).                                              *)
THEOREM FewEscape == Spec => []EscapesAreBounded
<1>1. ModerationInv => EscapesAreBounded
  <2>1. SUFFICES ASSUME ModerationInv, OneTextPerId, NEW t \in Text
        PROVE  Cardinality(Allowed(t)) <= Cardinality(Process) + 1
    BY DEF EscapesAreBounded, OneTextPerId, Allowed
  <2>2. Cardinality(Allowed(t) \cup LightIds(t)) <= Cardinality(Process) + 1
    BY <2>1 DEF ModerationInv, EscapesAreCounted, Bounded
  <2>3. Allowed(t) \cup LightIds(t) \in SUBSET RequestId
    BY <2>1, CampaignSets DEF ModerationInv
  <2>4. Allowed(t) \in SUBSET (Allowed(t) \cup LightIds(t))
    OBVIOUS
  <2>5. /\ Cardinality(Allowed(t)) <= Cardinality(Allowed(t) \cup LightIds(t))
        /\ Cardinality(Allowed(t)) \in Nat /\ Cardinality(Allowed(t) \cup LightIds(t)) \in Nat
    BY <2>3, <2>4, PartIsSmaller
  <2>6. Cardinality(Process) \in Nat
    BY EverythingIsFinite, FS_CardinalityType
  <2>. QED  BY <2>2, <2>5, <2>6
<1>. QED  BY <1>1, ModerationInvHolds, PTL
=============================================================================
