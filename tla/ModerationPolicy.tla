-------------------------- MODULE ModerationPolicy --------------------------
(***************************************************************************)
(* The decision the program takes from its evidence: ModerationEngine over *)
(* rules, toxicity models and the campaign assessment, and the fusion with *)
(* image scores by MultimodalModerationEngine.  Scores are hundredths.     *)
(***************************************************************************)
EXTENDS Naturals, FiniteSets, FiniteSetsExt

ReviewThreshold == 40
BlockThreshold == 85

\* DEFAULT_RULES, without their phrases.
DefaultRules == {[category |-> "threat", severity |-> 95],
                 [category |-> "threat", severity |-> 90],
                 [category |-> "harassment", severity |-> 65],
                 [category |-> "identity_attack", severity |-> 85]}

ImageCategory == {"sexual_content", "graphic_violence"}

Strictest(scores) == Max(scores \cup {0})

Decision(risk) ==
    IF risk >= BlockThreshold THEN "block"
    ELSE IF risk >= ReviewThreshold THEN "review" ELSE "allow"

\* The ensemble of the models that are installed: the strictest score wins.
ModelScore(scores) == Strictest(scores)

\* Mutant: the risk of a campaign is not raised when it grows.
CampaignRiskFlat(matches) == IF matches >= 2 THEN 65 ELSE 0

\* The risk of a text that so many other requests came close to.
CampaignRisk(matches) ==
    IF matches >= 5 THEN 90
    ELSE IF matches >= 2 THEN Min({84, 55 + 5 * matches}) ELSE 0

Signal(source, category, score) == [source |-> source, category |-> category, score |-> score]

\* Mutant: only a model score that blocks is explained.
TextSignalsQuiet(rules, model, matches) ==
    {Signal("heuristic", r.category, r.severity) : r \in rules}
    \cup (IF model >= BlockThreshold THEN {Signal("ml", "toxicity", model)} ELSE {})
    \cup (IF matches >= 2 THEN {Signal("vector", "coordinated_abuse", CampaignRisk(matches))} ELSE {})

TextSignals(rules, model, matches) ==
    {Signal("heuristic", r.category, r.severity) : r \in rules}
    \cup (IF model >= ReviewThreshold THEN {Signal("ml", "toxicity", model)} ELSE {})
    \cup (IF matches >= 2 THEN {Signal("vector", "coordinated_abuse", CampaignRisk(matches))} ELSE {})

Response(risk, signals) == [decision |-> Decision(risk), risk |-> risk, signals |-> signals]

(* ModerationEngine.moderate *)
TextResponse(rules, model, matches) ==
    Response(Strictest({r.severity : r \in rules} \cup {model, CampaignRisk(matches)}),
             TextSignals(rules, model, matches))

Intervenes(risk) == risk >= ReviewThreshold

ImageSignals(scores) ==
    {Signal("vision", c, scores[c]) : c \in {d \in DOMAIN scores : Intervenes(scores[d])}}

ImageRisk(scores) == Strictest({scores[c] : c \in DOMAIN scores})

(* MultimodalModerationEngine.moderate for an image that comes without text *)
ImageResponse(scores) == Response(ImageRisk(scores), ImageSignals(scores))

(* ... and for an image with a text: the strictest risk wins. *)
FusedResponse(text, scores) ==
    LET image == ImageRisk(scores)
        risk == Strictest({text.risk, image})
    IN  Response(risk, text.signals \cup ImageSignals(scores) \cup
                 (IF Intervenes(text.risk) # Intervenes(image)
                  THEN {Signal("policy", "cross_modal_disagreement", risk)} ELSE {}))

\* Mutant: only decisions to review are reviewed.
RequiresReviewByDecision(response) == response.decision = "review"

(* ReviewService.enqueue: a human looks at it. *)
RequiresReview(response) ==
    \/ response.decision = "review"
    \/ \E s \in response.signals : s.category = "cross_modal_disagreement"
=============================================================================
