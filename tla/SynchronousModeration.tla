----------------------- MODULE SynchronousModeration -----------------------
(***************************************************************************)
(* One request to POST /v1/moderate or /v1/moderate/multimodal, from its   *)
(* payload to the answer, with every piece of evidence it may meet.        *)
(***************************************************************************)
EXTENDS ModerationPolicy, Sequences

CONSTANTS Uploads,        \* images that clients send
          RuleSets,       \* sets of rules a text may match
          ModelScores,    \* sets of scores, one for each installed model
          Matches,        \* numbers of similar requests in the index
          LabelCategory,  \* the reviewed category of each mapped model label
          Probabilities,  \* probabilities of those labels
          NoUpload

ASSUME LabelAssumption == LabelCategory \in Seq(ImageCategory)

\* Scores are hundredths of numbers from 0 to 1; no rule speaks for the fusion.
ASSUME EvidenceAssumption ==
    /\ \A rules \in RuleSets : \A r \in rules :
          r.severity \in 0..100 /\ r.category # "cross_modal_disagreement"
    /\ ModelScores \subseteq SUBSET (0..100)
    /\ Matches \subseteq Nat
    /\ Probabilities \subseteq [DOMAIN LabelCategory -> 0..100]

VARIABLES request, evidence, stage, status, text, indexed, response, queued
moderation == <<request, evidence, stage, status, text, indexed, response, queued>>

Quiet == [rules |-> {}, models |-> {}, matches |-> 0, labels |-> [i \in DOMAIN LabelCategory |-> 0]]
NoResponse == Response(0, {})

RequestInit ==
    /\ request \in [upload : Uploads \cup {NoUpload}, hasText : BOOLEAN, imageModel : BOOLEAN,
                    index : BOOLEAN, review : BOOLEAN]
    /\ request.upload # NoUpload \/ request.hasText
    /\ evidence = Quiet
    /\ stage = 1 /\ status = 0
    /\ text = NoResponse /\ response = NoResponse
    /\ indexed = FALSE /\ queued = FALSE

HasImage == request.upload # NoUpload

\* Mutant: the text is moderated while the image is not yet known to be one.
StagesTextFirst ==
    IF ~HasImage THEN <<"text", "answer">>
    ELSE IF request.hasText THEN <<"text", "decode", "score", "answer">>
    ELSE <<"decode", "score", "answer">>

Stages == IF ~HasImage THEN <<"text", "answer">>
          ELSE IF request.hasText THEN <<"decode", "score", "text", "answer">>
          ELSE <<"decode", "score", "answer">>

At(name) == status = 0 /\ Stages[stage] = name
Proceed == stage' = stage + 1 /\ UNCHANGED status
End(code) == status' = code /\ UNCHANGED stage

(* What decode_image tests, in its order, and how the route answers.       *)
DecodeChecks(u) ==
    LET check(ok, code) == [ok |-> ok, code |-> code]
    IN  <<check(u.base64 /\ u.bytes > 0, 422), check(u.bytes <= 5242880, 413),
          check(u.format \in {"PNG", "JPEG", "WEBP"}, 415), check(u.header, 422),
          check(u.format = u.declared, 415), check(~u.animated, 415),
          check(u.width > 0 /\ u.height > 0, 422),
          check(u.width <= 8192 /\ u.height <= 8192, 413),
          check(u.width * u.height <= 20000000, 413)>>

Decode ==
    /\ At("decode")
    /\ LET checks == DecodeChecks(request.upload)
           failed == {i \in DOMAIN checks : ~checks[i].ok}
       IN  IF ~request.imageModel THEN End(503)
           ELSE IF failed # {} THEN End(checks[Min(failed)].code)
           ELSE Proceed
    /\ UNCHANGED <<request, evidence, text, indexed, response, queued>>

(* The decoder of the image model may refuse the pixels after all, and the *)
(* model may raise.                                                        *)
ScoreImage ==
    /\ At("score")
    /\ \/ \E p \in Probabilities : evidence' = [evidence EXCEPT !.labels = p] /\ Proceed
       \/ \E code \in {413, 422, 500} : End(code) /\ UNCHANGED evidence
    /\ UNCHANGED <<request, text, indexed, response, queued>>

(* ModerationEngine.moderate; a search that fails leaves no vector, an     *)
(* upsert may have taken effect when it fails.                             *)
ModerateText ==
    /\ At("text")
    /\ \/ \E rules \in RuleSets, models \in ModelScores,
             matches \in (IF request.index THEN Matches ELSE {0}) :
             /\ evidence' = [evidence EXCEPT !.rules = rules, !.models = models,
                                             !.matches = matches]
             /\ text' = TextResponse(rules, ModelScore(models), matches)
             /\ indexed' = request.index
             /\ Proceed
       \/ /\ End(500)
          /\ indexed' \in {FALSE, request.index}
          /\ UNCHANGED <<evidence, text>>
    /\ UNCHANGED <<request, response, queued>>

\* Mutant: of the labels of one category the last one counts.
CategoryScoresOfLast(labels) ==
    [c \in {LabelCategory[i] : i \in DOMAIN LabelCategory} |->
        labels[Max({i \in DOMAIN LabelCategory : LabelCategory[i] = c})]]

(* predict_scores: a category scores as high as any label mapped to it.    *)
CategoryScores(labels) ==
    [c \in {LabelCategory[i] : i \in DOMAIN LabelCategory} |->
        Strictest({labels[i] : i \in {j \in DOMAIN LabelCategory : LabelCategory[j] = c}})]

(* The decision is enqueued for review if it must be, then answered; an    *)
(* append to the ledger that fails turns the answer into an error.         *)
Answer ==
    /\ At("answer")
    /\ LET scores == CategoryScores(evidence.labels)
       IN  response' = IF ~HasImage THEN text
                       ELSE IF request.hasText THEN FusedResponse(text, scores)
                       ELSE ImageResponse(scores)
    /\ \/ queued' = (request.review /\ RequiresReview(response')) /\ End(200)
       \/ request.review /\ RequiresReview(response') /\ End(500) /\ UNCHANGED queued
    /\ UNCHANGED <<request, evidence, text, indexed>>

RequestNext == Decode \/ ScoreImage \/ ModerateText \/ Answer

RequestSpec == RequestInit /\ [][RequestNext]_moderation
-----------------------------------------------------------------------------
\* What the evidence of each modality says, piece by piece.
TextReaches(threshold, members) ==
    \/ \E r \in evidence.rules : r.severity >= threshold
    \/ \E s \in evidence.models : s >= threshold
    \/ evidence.matches >= members
ImageReaches(threshold) == \E i \in DOMAIN LabelCategory : evidence.labels[i] >= threshold

(* The decision is the strictest that any single rule, model, image label  *)
(* or campaign calls for, and no stricter (core/engine.py, ml/ensemble.py, *)
(* multimodal/engine.py, timm_model.py).                                   *)
StrictestEvidenceWins ==
    status = 200 =>
        response.decision = IF TextReaches(85, 5) \/ ImageReaches(85) THEN "block"
                            ELSE IF TextReaches(40, 2) \/ ImageReaches(40) THEN "review"
                            ELSE "allow"

(* Who sees only the signals of an answer can tell its decision and its    *)
(* risk as far as it matters: no intervention goes unexplained (signals    *)
(* and risk are computed apart in core/engine.py and multimodal/engine.py).*)
SignalsExplainDecision ==
    status = 200 =>
        LET shown == Strictest({s.score : s \in response.signals})
        IN  /\ Decision(shown) = response.decision
            /\ response.decision # "allow" => shown = response.risk

(* With reviews enabled a human is asked about every decision to review    *)
(* and whenever one modality intervenes and the other does not, whichever  *)
(* evidence makes it so, and about nothing else (multimodal/engine.py,     *)
(* review/service.py, enqueue).                                            *)
ContradictionsAreReviewed ==
    status = 200 =>
        (queued <=> /\ request.review
                    /\ \/ response.decision = "review"
                       \/ /\ HasImage /\ request.hasText
                          /\ TextReaches(40, 2) # ImageReaches(40))

(* A request whose image is refused, wherever that is found out, neither   *)
(* adds its text to the campaign index nor reaches the review queue        *)
(* (multimodal/engine.py, decode_image and predict_scores come first).     *)
RefusedLeavesNoTrace == status \in {413, 415, 422, 503} => ~indexed /\ ~queued
=============================================================================
