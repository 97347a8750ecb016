-------------------- MODULE SynchronousModerationProofs --------------------
(***************************************************************************)
(* Theorems about SynchronousModeration for every upload, every piece of   *)
(* evidence with scores from 0 to 100 and every mapping of image labels.   *)
(***************************************************************************)
EXTENDS SynchronousModeration, PolicyProofs

\* The answer that the evidence of the request calls for.
Answered == LET scores == CategoryScores(evidence.labels)
            IN  IF ~HasImage THEN text
                ELSE IF request.hasText THEN FusedResponse(text, scores)
                ELSE ImageResponse(scores)

\* The last stage of a request of this kind.
Last == IF HasImage /\ request.hasText THEN 4 ELSE IF HasImage THEN 3 ELSE 2

\* Evidence has the types that the parts which give it promise.
EvidenceOK ==
    /\ evidence \in [rules : RuleSets \cup {{}}, models : ModelScores \cup {{}}, matches : Nat,
                     labels : [DOMAIN LabelCategory -> 0..100]]
    /\ ~HasImage => evidence.labels = Quiet.labels
    /\ ~request.hasText => evidence.rules = {} /\ evidence.models = {} /\ evidence.matches = 0
    /\ text = TextResponse(evidence.rules, ModelScore(evidence.models), evidence.matches)

\* The inductive invariant of a request.
RequestInv ==
    /\ {request.hasText, request.imageModel, request.index, request.review} \subseteq BOOLEAN
    /\ HasImage \/ request.hasText
    /\ stage \in 1..Last
    /\ EvidenceOK
    /\ indexed \in BOOLEAN /\ queued \in BOOLEAN
    /\ status \in {0, 200, 413, 415, 422, 500, 503}
    /\ status = 0 => ~queued /\ (HasImage /\ stage <= 2 => ~indexed)
    /\ status \in {413, 415, 422, 503} => ~indexed /\ ~queued
    /\ status = 200 => /\ response = Answered
                       /\ queued <=> request.review /\ RequiresReview(response)

\* The stages a request goes through, by what it brings.
LEMMA StagesAre ==
    ASSUME HasImage \/ request.hasText, stage \in 1..Last
    PROVE  /\ Stages[stage] \in {"decode", "score"} => HasImage /\ stage <= 2
           /\ Stages[stage] = "text" => /\ request.hasText /\ (HasImage => stage = 3)
                                        /\ (~HasImage => stage = 1)
           /\ Stages[stage] # "answer" => stage + 1 \in 1..Last
<1>1. CASE HasImage /\ request.hasText
  <2>1. Stages = <<"decode", "score", "text", "answer">>
    BY <1>1 DEF Stages
  <2>2. stage \in 1..4 /\ Last = 4
    BY <1>1 DEF Last
  <2>. QED  BY <1>1, <2>1, <2>2
<1>2. CASE HasImage /\ ~request.hasText
  <2>1. Stages = <<"decode", "score", "answer">>
    BY <1>2 DEF Stages
  <2>2. stage \in 1..3 /\ Last = 3
    BY <1>2 DEF Last
  <2>. QED  BY <1>2, <2>1, <2>2
<1>3. CASE ~HasImage /\ request.hasText
  <2>1. Stages = <<"text", "answer">>
    BY <1>3 DEF Stages
  <2>2. stage \in 1..2 /\ Last = 2
    BY <1>3 DEF Last
  <2>. QED  BY <1>3, <2>1, <2>2
<1>. QED  BY <1>1, <1>2, <1>3

\* An image that fails a test of the decoder is answered with the code of a test.
LEMMA RefusalCodes ==
    ASSUME NEW u, NEW checks, checks = DecodeChecks(u),
           NEW failed, failed = {i \in DOMAIN checks : ~checks[i].ok}, failed # {}
    PROVE  checks[Min(failed)].code \in {413, 415, 422}
<1>1. DOMAIN checks = 1..9 /\ \A i \in 1..9 : checks[i].code \in {413, 415, 422}
  BY DEF DecodeChecks
<1>2. failed \in SUBSET Nat
  BY <1>1
<1>3. PICK m \in failed : \A k \in failed : m <= k
  BY <1>2, LeastNumber
<1>4. \E x \in failed : \A y \in failed : x =< y
  BY <1>3
<1>5. Min(failed) \in failed
  BY <1>4, Zenon DEF Min
<1>. QED  BY <1>1, <1>5

\* A request comes without evidence.
LEMMA RequestArrives == RequestInit => RequestInv
<1>. SUFFICES ASSUME RequestInit PROVE RequestInv
  OBVIOUS
<1>1. Quiet.labels \in [DOMAIN LabelCategory -> 0..100]
  BY DEF Quiet
<1>2. NoResponse = TextResponse({}, ModelScore({}), 0)
  <2>1. ModelScore({}) = 0
    BY StrictestIs DEF ModelScore
  <2>2. CampaignRisk(0) = 0
    BY CampaignRiskIs
  <2>3. Strictest({0, 0}) = 0
    <3>1. \A x \in {0, 0} : x \in 0..100
      OBVIOUS
    <3>2. Strictest({0, 0}) \in {0, 0} \cup {0}
      BY <3>1, StrictestIs
    <3>. QED  BY <3>2
  <2>4. {r.severity : r \in {}} \cup {ModelScore({}), CampaignRisk(0)} = {0, 0}
    BY <2>1, <2>2
  <2>5. TextSignals({}, 0, 0) = {}
    BY DEF TextSignals, ReviewThreshold
  <2>6. TextResponse({}, ModelScore({}), 0) = Response(Strictest({0, 0}), TextSignals({}, 0, 0))
    BY <2>1, <2>4, Zenon DEF TextResponse
  <2>. QED  BY <2>3, <2>5, <2>6, Zenon DEF NoResponse
<1>3. /\ {request.hasText, request.imageModel, request.index, request.review} \subseteq BOOLEAN
      /\ HasImage \/ request.hasText
  BY DEF RequestInit, HasImage
<1>4. EvidenceOK
  <2>1. evidence = Quiet /\ text = NoResponse
    BY DEF RequestInit
  <2>2. Quiet \in [rules : RuleSets \cup {{}}, models : ModelScores \cup {{}}, matches : Nat,
                   labels : [DOMAIN LabelCategory -> 0..100]]
    BY <1>1 DEF Quiet
  <2>3. Quiet.rules = {} /\ Quiet.models = {} /\ Quiet.matches = 0
    BY DEF Quiet
  <2>. QED  BY <1>2, <2>1, <2>2, <2>3 DEF EvidenceOK
<1>5. stage \in 1..Last /\ status = 0 /\ indexed = FALSE /\ queued = FALSE
  BY DEF RequestInit, Last
<1>6. indexed \in BOOLEAN /\ queued \in BOOLEAN /\ ~indexed /\ ~queued
  BY <1>5
<1>7. status \in {0, 200, 413, 415, 422, 500, 503} /\ status \notin {200, 413, 415, 422, 503}
  BY <1>5
<1>. QED  BY <1>3, <1>4, <1>5, <1>6, <1>7, Zenon DEF RequestInv


\* A step that only turns a request away: nothing was stored for it before.
LEMMA TurnedAway ==
    ASSUME RequestInv, status = 0, HasImage, stage <= 2,
           status' \in {413, 415, 422, 500, 503},
           UNCHANGED <<request, evidence, stage, text, indexed, response, queued>>
    PROVE  RequestInv'
<1>1. Last' = Last /\ (HasImage' <=> HasImage) /\ (EvidenceOK' <=> EvidenceOK)
  BY DEF Last, HasImage, EvidenceOK
<1>2. ~indexed /\ ~queued
  BY DEF RequestInv
<1>3. status' # 0 /\ status' # 200 /\ status' \in {0, 200, 413, 415, 422, 500, 503}
  OBVIOUS
<1>4. ~indexed' /\ ~queued'
  BY <1>2
<1>. QED  BY <1>1, <1>3, <1>4 DEF RequestInv

\* Decoding turns a request away or lets it go on.
LEMMA DecodeKeepsInv ==
    ASSUME RequestInv, Decode
    PROVE  RequestInv'
<1>1. status = 0 /\ HasImage /\ stage <= 2 /\ stage + 1 \in 1..Last /\ stage \in 1..Last
      /\ UNCHANGED <<request, evidence, text, indexed, response, queued>>
  BY StagesAre DEF Decode, At, RequestInv
<1>2. CASE End(503)
  BY <1>1, <1>2, TurnedAway DEF End
<1>3. ASSUME NEW checks, checks = DecodeChecks(request.upload),
             NEW failed, failed = {i \in DOMAIN checks : ~checks[i].ok}, failed # {},
             End(checks[Min(failed)].code)
      PROVE  RequestInv'
  <2>1. checks[Min(failed)].code \in {413, 415, 422}
    BY <1>3, RefusalCodes
  <2>. QED  BY <1>1, <1>3, <2>1, TurnedAway DEF End
<1>4. CASE Proceed
  <2>1. stage' = stage + 1 /\ status' = status
    BY <1>4 DEF Proceed
  <2>2. Last' = Last /\ (HasImage' <=> HasImage) /\ (EvidenceOK' <=> EvidenceOK)
    BY <1>1 DEF Last, HasImage, EvidenceOK
  <2>3. ~indexed /\ ~queued
    BY <1>1 DEF RequestInv
  <2>4. ~indexed' /\ ~queued' /\ status' = 0 /\ stage' \in 1..Last
    BY <1>1, <2>1, <2>3
  <2>. QED  BY <1>1, <2>2, <2>4 DEF RequestInv
<1>. QED  BY <1>2, <1>3, <1>4 DEF Decode

\* The image model gives every label its probability, or the request is turned away.
LEMMA ScoreKeepsInv ==
    ASSUME RequestInv, ScoreImage
    PROVE  RequestInv'
<1>1. status = 0 /\ HasImage /\ stage <= 2 /\ stage + 1 \in 1..Last /\ stage \in 1..Last
      /\ UNCHANGED <<request, text, indexed, response, queued>>
  BY StagesAre DEF ScoreImage, At, RequestInv
<1>2. ASSUME NEW code \in {413, 422, 500}, End(code), UNCHANGED evidence PROVE RequestInv'
  BY <1>1, <1>2, TurnedAway DEF End
<1>3. ASSUME NEW p \in Probabilities, evidence' = [evidence EXCEPT !.labels = p], Proceed
      PROVE  RequestInv'
  <2>1. stage' = stage + 1 /\ status' = 0
    BY <1>1, <1>3 DEF Proceed
  <2>2. Last' = Last /\ (HasImage' <=> HasImage)
    BY <1>1 DEF Last, HasImage
  <2>3. p \in [DOMAIN LabelCategory -> 0..100]
    BY EvidenceAssumption
  <2>4. EvidenceOK
    BY DEF RequestInv
  <2>5. EvidenceOK'
    <3>1. /\ evidence' \in [rules : RuleSets \cup {{}}, models : ModelScores \cup {{}}, matches : Nat,
                            labels : [DOMAIN LabelCategory -> 0..100]]
          /\ evidence'.rules = evidence.rules /\ evidence'.models = evidence.models
          /\ evidence'.matches = evidence.matches
      BY <1>3, <2>3, <2>4 DEF EvidenceOK
    <3>. QED  BY <1>1, <2>2, <2>4, <3>1 DEF EvidenceOK
  <2>6. ~indexed /\ ~queued
    BY <1>1 DEF RequestInv
  <2>7. ~indexed' /\ ~queued' /\ stage' \in 1..Last /\ status' \notin {200, 413, 415, 422, 503}
    BY <1>1, <2>1, <2>6
  <2>. QED  BY <1>1, <2>1, <2>2, <2>5, <2>7 DEF RequestInv
<1>. QED  BY <1>2, <1>3 DEF ScoreImage

\* A text is moderated after its image was accepted, by the evidence it meets.
LEMMA TextKeepsInv ==
    ASSUME RequestInv, ModerateText
    PROVE  RequestInv'
<1>1. /\ status = 0 /\ request.hasText /\ stage + 1 \in 1..Last /\ stage \in 1..Last
      /\ HasImage => stage = 3
      /\ UNCHANGED <<request, response, queued>> /\ ~queued /\ queued \in BOOLEAN
      /\ request.index \in BOOLEAN
  BY StagesAre DEF ModerateText, At, RequestInv
<1>2. Last' = Last /\ (HasImage' <=> HasImage)
  BY <1>1 DEF Last, HasImage
<1>3. EvidenceOK /\ (HasImage \/ request.hasText)
      /\ {request.hasText, request.imageModel, request.index, request.review} \subseteq BOOLEAN
  BY DEF RequestInv
<1>4. CASE End(500) /\ indexed' \in {FALSE, request.index} /\ UNCHANGED <<evidence, text>>
  <2>1. status' = 500 /\ stage' = stage /\ indexed' \in BOOLEAN
    BY <1>1, <1>4 DEF End
  <2>2. EvidenceOK'
    BY <1>1, <1>2, <1>3, <1>4 DEF EvidenceOK
  <2>3. status' \in {0, 200, 413, 415, 422, 500, 503} /\ status' \notin {0, 200, 413, 415, 422, 503}
    BY <2>1
  <2>4. queued' \in BOOLEAN
    BY <1>1
  <2>5. status' # 0 /\ status' # 200 /\ stage' \in 1..Last'
    BY <1>1, <1>2, <2>1
  <2>6. /\ {request'.hasText, request'.imageModel, request'.index, request'.review} \subseteq BOOLEAN
        /\ HasImage' \/ request'.hasText
    BY <1>1, <1>2, <1>3
  <2>. QED  BY <1>1, <1>2, <2>1, <2>2, <2>3, <2>4, <2>5, <2>6, ZenonT(60) DEF RequestInv
<1>5. ASSUME NEW rules \in RuleSets, NEW models \in ModelScores,
             NEW matches \in (IF request.index THEN Matches ELSE {0}),
             evidence' = [evidence EXCEPT !.rules = rules, !.models = models, !.matches = matches],
             text' = TextResponse(rules, ModelScore(models), matches),
             indexed' = request.index, Proceed
      PROVE  RequestInv'
  <2>1. stage' = stage + 1 /\ status' = 0
    BY <1>1, <1>5 DEF Proceed
  <2>2. matches \in Nat
    BY EvidenceAssumption
  <2>3. /\ evidence' \in [rules : RuleSets \cup {{}}, models : ModelScores \cup {{}}, matches : Nat,
                          labels : [DOMAIN LabelCategory -> 0..100]]
        /\ evidence'.rules = rules /\ evidence'.models = models
        /\ evidence'.matches = matches /\ evidence'.labels = evidence.labels
    BY <1>3, <1>5, <2>2 DEF EvidenceOK
  <2>4. EvidenceOK'
    BY <1>1, <1>2, <1>3, <1>5, <2>3 DEF EvidenceOK
  <2>5. HasImage => ~(stage' <= 2)
    BY <1>1, <2>1
  <2>6. /\ indexed' \in BOOLEAN /\ queued' \in BOOLEAN /\ ~queued' /\ stage' \in 1..Last
        /\ status' \in {0, 200, 413, 415, 422, 500, 503} /\ status' \notin {200, 413, 415, 422, 503}
    BY <1>1, <1>5, <2>1
  <2>7. status' # 200 /\ stage' \in 1..Last'
    BY <1>1, <1>2, <2>1
  <2>8. /\ {request'.hasText, request'.imageModel, request'.index, request'.review} \subseteq BOOLEAN
        /\ HasImage' \/ request'.hasText
    BY <1>1, <1>2, <1>3
  <2>. QED  BY <1>1, <1>2, <2>1, <2>4, <2>5, <2>6, <2>7, <2>8, Zenon DEF RequestInv
<1>. QED  BY <1>4, <1>5 DEF ModerateText

\* The answer is what the evidence calls for, and is reviewed if it has to be.
LEMMA AnswerKeepsInv ==
    ASSUME RequestInv, Answer
    PROVE  RequestInv'
<1>1. /\ status = 0 /\ stage \in 1..Last /\ response' = Answered
      /\ UNCHANGED <<request, evidence, text, indexed, stage>> /\ ~queued
  BY DEF Answer, At, RequestInv, Answered, End
<1>2. /\ Last' = Last /\ (HasImage' <=> HasImage) /\ (EvidenceOK' <=> EvidenceOK)
      /\ Answered' = Answered
  BY <1>1 DEF Last, HasImage, EvidenceOK, Answered
<1>3. \/ status' = 200 /\ queued' = (request.review /\ RequiresReview(response'))
      \/ status' = 500 /\ queued' = queued
  BY DEF Answer, End
<1>4. CASE status' = 200 /\ queued' = (request.review /\ RequiresReview(response'))
  <2>1. status' \in {0, 200, 413, 415, 422, 500, 503} /\ status' \notin {0, 413, 415, 422, 503}
    BY <1>4
  <2>2. queued' \in BOOLEAN /\ (queued' <=> request.review /\ RequiresReview(response'))
    BY <1>4
  <2>. QED  BY <1>1, <1>2, <2>1, <2>2 DEF RequestInv, RequiresReview
<1>5. CASE status' = 500 /\ queued' = queued
  <2>1. status' \in {0, 200, 413, 415, 422, 500, 503} /\ status' \notin {0, 200, 413, 415, 422, 503}
    BY <1>5
  <2>. QED  BY <1>1, <1>2, <1>5, <2>1 DEF RequestInv
<1>. QED  BY <1>3, <1>4, <1>5

\* The inductive invariant holds from the payload to the answer.
THEOREM RequestInvHolds == RequestSpec => []RequestInv
<1>1. RequestInv /\ [RequestNext]_moderation => RequestInv'
  <2>. SUFFICES ASSUME RequestInv, [RequestNext]_moderation PROVE RequestInv'
    OBVIOUS
  <2>1. CASE UNCHANGED moderation
    BY <2>1 DEF moderation, RequestInv, Last, HasImage, EvidenceOK, Answered, RequiresReview
  <2>. QED  BY <2>1, DecodeKeepsInv, ScoreKeepsInv, TextKeepsInv, AnswerKeepsInv DEF RequestNext
<1>. QED  BY <1>1, RequestArrives, PTL DEF RequestSpec

\* A request whose image is refused neither feeds the campaign index nor the review queue.
THEOREM RefusalsLeaveNoTrace == RequestSpec => []RefusedLeavesNoTrace
<1>1. RequestInv => RefusedLeavesNoTrace
  BY DEF RequestInv, RefusedLeavesNoTrace
<1>. QED  BY <1>1, RequestInvHolds, PTL


\* A category scores as high as any label that is mapped to it.
LEMMA CategoryScoresAre ==
    ASSUME NEW labels \in [DOMAIN LabelCategory -> 0..100]
    PROVE  /\ \A c \in DOMAIN CategoryScores(labels) :
                 CategoryScores(labels)[c] \in 0..100 /\ c \in ImageCategory
           /\ \A t \in Nat : t > 0 =>
                 ((\E c \in DOMAIN CategoryScores(labels) : CategoryScores(labels)[c] >= t)
                  <=> \E i \in DOMAIN LabelCategory : labels[i] >= t)
<1>. DEFINE of(c) == {labels[i] : i \in {j \in DOMAIN LabelCategory : LabelCategory[j] = c}}
            C == {LabelCategory[i] : i \in DOMAIN LabelCategory}
<1>1. CategoryScores(labels) = [c \in C |-> Strictest(of(c))]
  BY DEF CategoryScores
<1>2. \A i \in DOMAIN LabelCategory : LabelCategory[i] \in ImageCategory
  BY LabelAssumption
<1>3. \A c : \A x \in of(c) : x \in 0..100
  OBVIOUS
<1>4. \A i \in DOMAIN LabelCategory : LabelCategory[i] \in C /\ labels[i] \in of(LabelCategory[i])
  OBVIOUS
<1>5. \A c \in C : \A x \in of(c) : \E i \in DOMAIN LabelCategory : x = labels[i]
  OBVIOUS
<1>6. \A c \in C : c \in ImageCategory
  BY <1>2
<1>. HIDE DEF of, C
<1>7. \A c \in C : Strictest(of(c)) \in 0..100
  BY <1>3, StrictestIs
<1>8. \A c : \A t \in Nat : t > 0 => (Strictest(of(c)) >= t <=> \E x \in of(c) : x >= t)
  BY <1>3, StrictestReaches
<1>9. ASSUME NEW t \in Nat, t > 0
      PROVE  (\E c \in C : Strictest(of(c)) >= t) <=> \E i \in DOMAIN LabelCategory : labels[i] >= t
  <2>1. ASSUME NEW c \in C, Strictest(of(c)) >= t PROVE \E i \in DOMAIN LabelCategory : labels[i] >= t
    <3>1. PICK x \in of(c) : x >= t
      BY <1>8, <1>9, <2>1
    <3>. QED  BY <1>5, <3>1
  <2>2. ASSUME NEW i \in DOMAIN LabelCategory, labels[i] >= t PROVE \E c \in C : Strictest(of(c)) >= t
    BY <1>4, <1>8, <1>9, <2>2
  <2>. QED  BY <2>1, <2>2
<1>. QED  BY <1>1, <1>6, <1>7, <1>9

\* What the answer says, and how that follows from each piece of evidence.
LEMMA AnsweredIs ==
    ASSUME EvidenceOK, HasImage \/ request.hasText
    PROVE  /\ Explained(Answered)
           /\ Answered.risk >= 85 <=> TextReaches(85, 5) \/ ImageReaches(85)
           /\ Answered.risk >= 40 <=> TextReaches(40, 2) \/ ImageReaches(40)
           /\ (\E s \in Answered.signals : s.category = "cross_modal_disagreement")
                 <=> HasImage /\ request.hasText /\ ~(TextReaches(40, 2) <=> ImageReaches(40))
<1>. DEFINE model == ModelScore(evidence.models)
            scores == CategoryScores(evidence.labels)
            image == ImageResponse(scores)
<1>1. /\ evidence.rules \in RuleSets \cup {{}} /\ evidence.models \in ModelScores \cup {{}}
      /\ evidence.matches \in Nat /\ evidence.labels \in [DOMAIN LabelCategory -> 0..100]
      /\ text = TextResponse(evidence.rules, model, evidence.matches)
  BY DEF EvidenceOK
<1>2. \A r \in evidence.rules : r.severity \in 0..100 /\ r.category # "cross_modal_disagreement"
  BY <1>1, EvidenceAssumption
<1>3. \A x \in evidence.models : x \in 0..100
  BY <1>1, EvidenceAssumption
<1>4. /\ model \in 0..100
      /\ model >= 85 <=> \E x \in evidence.models : x >= 85
      /\ model >= 40 <=> \E x \in evidence.models : x >= 40
  BY <1>3, StrictestIs, StrictestReaches DEF ModelScore
<1>. HIDE DEF model
<1>5. /\ Explained(text) /\ \A s \in text.signals : s.category # "cross_modal_disagreement"
      /\ text.risk >= 85 <=> (\E r \in evidence.rules : r.severity >= 85) \/ model >= 85 \/ evidence.matches >= 5
      /\ text.risk >= 40 <=> (\E r \in evidence.rules : r.severity >= 40) \/ model >= 40 \/ evidence.matches >= 2
  <2>0. PICK matches \in Nat : matches = evidence.matches
    BY <1>1
  <2>1. PICK rules : rules = evidence.rules
    OBVIOUS
  <2>2. \A r \in rules : r.severity \in 0..100 /\ r.category # "cross_modal_disagreement"
    BY <1>2, <2>1
  <2>3. model \in 0..100
    BY <1>4
  <2>4. /\ Explained(TextResponse(rules, model, matches))
        /\ \A s \in TextResponse(rules, model, matches).signals : s.category # "cross_modal_disagreement"
        /\ TextResponse(rules, model, matches).risk >= 85
              <=> (\E r \in rules : r.severity >= 85) \/ model >= 85 \/ matches >= 5
        /\ TextResponse(rules, model, matches).risk >= 40
              <=> (\E r \in rules : r.severity >= 40) \/ model >= 40 \/ matches >= 2
    BY <2>2, <2>3, TextResponseIs, Zenon
  <2>. QED  BY <1>1, <2>0, <2>1, <2>4
<1>6. (text.risk >= 85 <=> TextReaches(85, 5)) /\ (text.risk >= 40 <=> TextReaches(40, 2))
  BY <1>4, <1>5, Zenon DEF TextReaches
<1>7. /\ \A c \in DOMAIN scores : scores[c] \in 0..100 /\ c \in ImageCategory
      /\ (\E c \in DOMAIN scores : scores[c] >= 85) <=> ImageReaches(85)
      /\ (\E c \in DOMAIN scores : scores[c] >= 40) <=> ImageReaches(40)
  <2>1. 85 \in Nat /\ 85 > 0 /\ 40 \in Nat /\ 40 > 0
    OBVIOUS
  <2>. QED  BY <1>1, <2>1, CategoryScoresAre DEF ImageReaches
<1>8. \A c \in ImageCategory : c # "cross_modal_disagreement" /\ c # "coordinated_abuse"
  BY DEF ImageCategory
<1>. HIDE DEF scores
<1>9. /\ Explained(image) /\ image.risk = ImageRisk(scores) /\ image.signals = ImageSignals(scores)
      /\ (image.risk >= 85 <=> ImageReaches(85)) /\ (image.risk >= 40 <=> ImageReaches(40))
      /\ \A s \in image.signals : s.category # "cross_modal_disagreement"
  <2>1. /\ \A c \in DOMAIN scores : scores[c] \in 0..100 /\ c # "cross_modal_disagreement"
        /\ \A c \in DOMAIN scores : c # "coordinated_abuse"
    BY <1>7, <1>8
  <2>2. /\ Explained(image) /\ image.risk = ImageRisk(scores) /\ image.signals = ImageSignals(scores)
        /\ image.risk >= 85 <=> \E c \in DOMAIN scores : scores[c] >= 85
        /\ image.risk >= 40 <=> \E c \in DOMAIN scores : scores[c] >= 40
        /\ \A s \in image.signals : s.category \notin {"cross_modal_disagreement", "coordinated_abuse"}
    BY <2>1, ImageResponseIs
  <2>. QED  BY <1>7, <2>2
<1>10. CASE ~HasImage
  <2>1. ~ImageReaches(85) /\ ~ImageReaches(40)
    <3>1. \A i \in DOMAIN LabelCategory : evidence.labels[i] = 0
      BY <1>10 DEF EvidenceOK, Quiet
    <3>. QED  BY <3>1 DEF ImageReaches
  <2>2. Answered = text
    BY <1>10 DEF Answered
  <2>. QED  BY <1>5, <1>6, <1>10, <2>1, <2>2, Zenon
<1>11. CASE HasImage /\ ~request.hasText
  <2>1. ~TextReaches(85, 5) /\ ~TextReaches(40, 2)
    BY <1>11 DEF EvidenceOK, TextReaches
  <2>2. Answered = image
    BY <1>11 DEF Answered, scores
  <2>. QED  BY <1>9, <1>11, <2>1, <2>2, Zenon
<1>12. CASE HasImage /\ request.hasText
  <2>1. Answered = FusedResponse(text, scores)
    BY <1>12 DEF Answered, scores
  <2>2. /\ Explained(Answered)
        /\ \A t \in Nat : Answered.risk >= t <=> text.risk >= t \/ image.risk >= t
        /\ \A s \in Answered.signals :
              \/ s \in text.signals \/ s \in image.signals
              \/ s.category = "cross_modal_disagreement" /\ ~(text.risk >= 40 <=> image.risk >= 40)
        /\ ~(text.risk >= 40 <=> image.risk >= 40)
              => \E s \in Answered.signals : s.category = "cross_modal_disagreement"
    BY <1>5, <1>9, <2>1, FusionIs
  <2>3. /\ Answered.risk >= 85 <=> text.risk >= 85 \/ image.risk >= 85
        /\ Answered.risk >= 40 <=> text.risk >= 40 \/ image.risk >= 40
    BY <2>2, 85 \in Nat, 40 \in Nat
  <2>4. (\E s \in Answered.signals : s.category = "cross_modal_disagreement")
           <=> ~(text.risk >= 40 <=> image.risk >= 40)
    BY <1>5, <1>9, <2>2, Zenon
  <2>. QED  BY <1>6, <1>9, <1>12, <2>2, <2>3, <2>4, Zenon
<1>. QED  BY <1>10, <1>11, <1>12

\* The decision is the strictest that any single piece of evidence calls for.
THEOREM StrictestWins == RequestSpec => []StrictestEvidenceWins
<1>1. ASSUME RequestInv, status = 200 
      PROVE  response.decision = IF TextReaches(85, 5) \/ ImageReaches(85) THEN "block"
                                 ELSE IF TextReaches(40, 2) \/ ImageReaches(40) THEN "review"
                                 ELSE "allow"
  <2>1. response = Answered /\ EvidenceOK /\ (HasImage \/ request.hasText)
    BY <1>1 DEF RequestInv
  <2>2. /\ response.decision = Decision(response.risk)
        /\ response.risk >= 85 <=> TextReaches(85, 5) \/ ImageReaches(85)
        /\ response.risk >= 40 <=> TextReaches(40, 2) \/ ImageReaches(40)
    BY <2>1, AnsweredIs DEF Explained
  <2>. QED  BY <2>2 DEF Decision, BlockThreshold, ReviewThreshold
<1>2. RequestInv => StrictestEvidenceWins
  BY <1>1 DEF StrictestEvidenceWins
<1>. QED  BY <1>2, RequestInvHolds, PTL

\* The decision, and the risk of an intervention, can be told from the signals.
THEOREM SignalsExplain == RequestSpec => []SignalsExplainDecision
<1>1. RequestInv => SignalsExplainDecision
  BY AnsweredIs, ExplainedTells DEF RequestInv, SignalsExplainDecision
<1>. QED  BY <1>1, RequestInvHolds, PTL

\* What one modality makes of a request is never overruled by the other unreviewed.
THEOREM ContradictionsReviewed == RequestSpec => []ContradictionsAreReviewed
<1>1. ASSUME RequestInv, status = 200
      PROVE  queued <=> /\ request.review
                        /\ \/ response.decision = "review"
                           \/ /\ HasImage /\ request.hasText
                              /\ TextReaches(40, 2) # ImageReaches(40)
  <2>1. response = Answered /\ EvidenceOK /\ (HasImage \/ request.hasText)
        /\ (queued <=> request.review /\ RequiresReview(response))
    BY <1>1 DEF RequestInv
  <2>2. (\E s \in response.signals : s.category = "cross_modal_disagreement")
           <=> HasImage /\ request.hasText /\ ~(TextReaches(40, 2) <=> ImageReaches(40))
    BY <2>1, AnsweredIs
  <2>3. TextReaches(40, 2) # ImageReaches(40) <=> ~(TextReaches(40, 2) <=> ImageReaches(40))
    BY DEF TextReaches, ImageReaches
  <2>. QED  BY <2>1, <2>2, <2>3 DEF RequiresReview
<1>2. RequestInv => ContradictionsAreReviewed
  BY <1>1 DEF ContradictionsAreReviewed
<1>. QED  BY <1>2, RequestInvHolds, PTL
=============================================================================
