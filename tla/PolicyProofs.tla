---------------------------- MODULE PolicyProofs ----------------------------
(***************************************************************************)
(* What the decision policy makes of its evidence, for every set of scores *)
(* from 0 to 100 and every number of matches.                              *)
(***************************************************************************)
EXTENDS ModerationPolicy, CountingFacts, TLAPS

\* The strictest of some scores is one of them, or zero, and none is above it.
LEMMA StrictestIs ==
    ASSUME NEW S, \A x \in S : x \in 0..100
    PROVE  /\ Strictest(S) \in 0..100 /\ Strictest(S) \in S \cup {0}
           /\ \A x \in S : x <= Strictest(S)
<1>. DEFINE T == S \cup {0}
<1>1. T \in SUBSET (0..100) /\ T # {}
  OBVIOUS
<1>2. \E m \in T : \A k \in T : k <= m
  BY <1>1, GreatestNumber
<1>3. \E m \in T : \A k \in T : m >= k
  BY <1>1, <1>2
<1>4. Max(T) \in T /\ \A k \in T : Max(T) >= k
  BY <1>3, Zenon DEF Max
<1>. HIDE DEF T
<1>5. \A x \in S : x \in T /\ x \in 0..100
  BY DEF T
<1>6. Strictest(S) = Max(T)
  BY DEF Strictest, T
<1>. QED  BY <1>1, <1>4, <1>5, <1>6 DEF T

\* It reaches a threshold exactly if one of them does.
LEMMA StrictestReaches ==
    ASSUME NEW S, \A x \in S : x \in 0..100, NEW t \in Nat, t > 0
    PROVE  Strictest(S) >= t <=> \E x \in S : x >= t
BY StrictestIs

\* The strictest of two scores.
LEMMA StricterOfTwo ==
    ASSUME NEW a \in 0..100, NEW b \in 0..100
    PROVE  /\ Strictest({a, b}) \in {a, b}
           /\ a <= Strictest({a, b}) /\ b <= Strictest({a, b})
<1>1. \A x \in {a, b} : x \in 0..100
  OBVIOUS
<1>2. /\ Strictest({a, b}) \in {a, b} \cup {0} /\ Strictest({a, b}) \in 0..100
      /\ a <= Strictest({a, b}) /\ b <= Strictest({a, b})
  BY <1>1, StrictestIs
<1>. QED  BY <1>2

\* The risk of a campaign reaches the two thresholds at two and at five matches.
LEMMA CampaignRiskIs ==
    ASSUME NEW n \in Nat
    PROVE  /\ CampaignRisk(n) \in 0..100
           /\ CampaignRisk(n) >= 85 <=> n >= 5
           /\ CampaignRisk(n) >= 40 <=> n >= 2
           /\ CampaignRisk(n) >= 90 => n >= 5
           /\ n < 2 => CampaignRisk(n) = 0
<1>1. CASE n >= 5
  BY <1>1 DEF CampaignRisk
<1>2. CASE n >= 2 /\ ~(n >= 5)
  <2>. DEFINE two == {84, 55 + 5 * n}
  <2>1. \E x \in two : \A y \in two : x =< y
    BY <1>2
  <2>2. Min(two) \in two /\ \A y \in two : Min(two) =< y
    BY <2>1, Zenon DEF Min
  <2>3. CampaignRisk(n) = Min(two)
    BY <1>2 DEF CampaignRisk
  <2>4. n = 2 \/ n = 3 \/ n = 4
    BY <1>2
  <2>5. Min(two) = 55 + 5 * n
    BY <2>2, <2>4
  <2>. QED  BY <1>2, <2>3, <2>4, <2>5
<1>3. CASE n < 2
  BY <1>3 DEF CampaignRisk
<1>. QED  BY <1>1, <1>2, <1>3

\* A campaign that grows never looks milder.
LEMMA CampaignRiskGrows ==
    ASSUME NEW m \in Nat, NEW n \in Nat, m <= n
    PROVE  CampaignRisk(m) <= CampaignRisk(n)
<1>1. ASSUME NEW k \in {2, 3, 4}
      PROVE  CampaignRisk(k) = 55 + 5 * k
  <2>. DEFINE two == {84, 55 + 5 * k}
  <2>1. \E x \in two : \A y \in two : x =< y
    OBVIOUS
  <2>2. Min(two) \in two /\ \A y \in two : Min(two) =< y
    BY <2>1, Zenon DEF Min
  <2>3. CampaignRisk(k) = Min(two)
    BY DEF CampaignRisk
  <2>. QED  BY <2>2, <2>3
<1>2. CASE m < 2
  BY <1>2, CampaignRiskIs
<1>3. CASE n >= 5
  <2>1. CampaignRisk(n) = 90 /\ (m >= 5 => CampaignRisk(m) = 90)
    BY <1>3 DEF CampaignRisk
  <2>2. ~(m >= 5) => CampaignRisk(m) \in 0..100 /\ ~(CampaignRisk(m) >= 90)
    BY CampaignRiskIs
  <2>. QED  BY <2>1, <2>2
<1>4. CASE m >= 2 /\ ~(n >= 5)
  <2>1. m \in {2, 3, 4} /\ n \in {2, 3, 4}
    BY <1>4
  <2>. QED  BY <1>1, <2>1
<1>. QED  BY <1>2, <1>3, <1>4

\* A response whose signals account for its risk as far as it matters.
Explained(response) ==
    /\ response.risk \in 0..100
    /\ response.decision = Decision(response.risk)
    /\ \A s \in response.signals : s.score \in 0..response.risk
    /\ response.risk >= 40 => \E s \in response.signals : s.score = response.risk

\* Its decision can be told from its signals alone.
LEMMA ExplainedTells ==
    ASSUME NEW response, Explained(response)
    PROVE  LET shown == Strictest({s.score : s \in response.signals})
           IN  /\ Decision(shown) = response.decision
               /\ response.decision # "allow" => shown = response.risk
<1>. DEFINE scores == {s.score : s \in response.signals}
            shown == Strictest(scores)
<1>1. response.risk \in 0..100 /\ \A x \in scores : x \in 0..100 /\ x <= response.risk
  BY DEF Explained
<1>2. shown \in 0..100 /\ shown \in scores \cup {0} /\ \A x \in scores : x <= shown
  BY <1>1, StrictestIs
<1>3. response.risk >= 40 => response.risk \in scores
  BY DEF Explained
<1>. HIDE DEF scores, shown
<1>4. shown <= response.risk /\ (response.risk >= 40 => shown = response.risk)
  BY <1>1, <1>2, <1>3
<1>5. response.decision = Decision(response.risk)
  BY DEF Explained
<1>. QED  BY <1>1, <1>2, <1>4, <1>5 DEF Decision, BlockThreshold, ReviewThreshold, shown, scores

\* The moderation of a text: strictest evidence, explained.
LEMMA TextRiskIs ==
    ASSUME NEW rules, NEW model \in 0..100, NEW matches \in Nat,
           \A r \in rules : r.severity \in 0..100
    PROVE  LET response == TextResponse(rules, model, matches)
           IN  /\ Explained(response)
               /\ response.risk >= 85 <=> (\E r \in rules : r.severity >= 85) \/ model >= 85 \/ matches >= 5
               /\ response.risk >= 40 <=> (\E r \in rules : r.severity >= 40) \/ model >= 40 \/ matches >= 2
<1>. DEFINE all == {r.severity : r \in rules} \cup {model, CampaignRisk(matches)}
            risk == Strictest(all)
            signals == TextSignals(rules, model, matches)
<1>1. \A x \in all : x \in 0..100
  BY CampaignRiskIs
<1>2. risk \in 0..100 /\ risk \in all \cup {0} /\ \A x \in all : x <= risk
  BY <1>1, StrictestIs
<1>3. /\ risk >= 85 <=> \E x \in all : x >= 85
      /\ risk >= 40 <=> \E x \in all : x >= 40
  BY <1>1, StrictestReaches
<1>4. TextResponse(rules, model, matches) = Response(risk, signals)
  BY DEF TextResponse
<1>5. \A s \in signals :
        \/ \E r \in rules : s = Signal("heuristic", r.category, r.severity)
        \/ model >= 40 /\ s = Signal("ml", "toxicity", model)
        \/ matches >= 2 /\ s = Signal("vector", "coordinated_abuse", CampaignRisk(matches))
  BY DEF TextSignals, ReviewThreshold
<1>6. /\ \A r \in rules : Signal("heuristic", r.category, r.severity) \in signals
      /\ model >= 40 => Signal("ml", "toxicity", model) \in signals
      /\ matches >= 2 => Signal("vector", "coordinated_abuse", CampaignRisk(matches)) \in signals
  BY DEF TextSignals, ReviewThreshold
<1>7. \A x : x \in all <=> (\E r \in rules : x = r.severity) \/ x = model \/ x = CampaignRisk(matches)
  OBVIOUS
<1>. HIDE DEF all, risk, signals
<1>8. \A s \in signals : s.score \in 0..risk
  <2>1. ASSUME NEW s \in signals PROVE s.score \in all
    <3>1. ASSUME NEW r \in rules, s = Signal("heuristic", r.category, r.severity) PROVE s.score \in all
      BY <1>7, <3>1 DEF Signal
    <3>2. ASSUME s = Signal("ml", "toxicity", model) PROVE s.score \in all
      BY <1>7, <3>2 DEF Signal
    <3>3. ASSUME s = Signal("vector", "coordinated_abuse", CampaignRisk(matches)) PROVE s.score \in all
      BY <1>7, <3>3 DEF Signal
    <3>. QED  BY <1>5, <3>1, <3>2, <3>3
  <2>2. \A x \in all : x \in 0..risk
    BY <1>1, <1>2
  <2>. QED  BY <2>1, <2>2, Zenon
<1>9. risk >= 40 => \E s \in signals : s.score = risk
  <2>1. ASSUME risk >= 40 PROVE risk \in all
    BY <1>2, <2>1
  <2>2. ASSUME risk >= 40, NEW r \in rules, risk = r.severity PROVE \E s \in signals : s.score = risk
    BY <1>6, <2>2 DEF Signal
  <2>3. ASSUME risk >= 40, risk = model PROVE \E s \in signals : s.score = risk
    BY <1>6, <2>3 DEF Signal
  <2>4. ASSUME risk >= 40, risk = CampaignRisk(matches) PROVE \E s \in signals : s.score = risk
    <3>1. matches >= 2
      BY <2>4, CampaignRiskIs
    <3>. QED  BY <1>6, <2>4, <3>1 DEF Signal
  <2>. QED  BY <1>7, <2>1, <2>2, <2>3, <2>4
<1>10. /\ risk >= 85 <=> (\E r \in rules : r.severity >= 85) \/ model >= 85 \/ matches >= 5
       /\ risk >= 40 <=> (\E r \in rules : r.severity >= 40) \/ model >= 40 \/ matches >= 2
  <2>1. /\ (\E x \in all : x >= 85) <=> (\E r \in rules : r.severity >= 85) \/ model >= 85 \/ CampaignRisk(matches) >= 85
        /\ (\E x \in all : x >= 40) <=> (\E r \in rules : r.severity >= 40) \/ model >= 40 \/ CampaignRisk(matches) >= 40
    BY <1>7, Zenon
  <2>. QED  BY <1>3, <2>1, CampaignRiskIs
<1>. QED  BY <1>2, <1>4, <1>8, <1>9, <1>10 DEF Response, Explained

\* ... and no word of another modality.
LEMMA TextResponseIs ==
    ASSUME NEW rules, NEW model \in 0..100, NEW matches \in Nat,
           \A r \in rules : r.severity \in 0..100 /\ r.category # "cross_modal_disagreement"
    PROVE  LET response == TextResponse(rules, model, matches)
           IN  /\ Explained(response)
               /\ response.risk >= 85 <=> (\E r \in rules : r.severity >= 85) \/ model >= 85 \/ matches >= 5
               /\ response.risk >= 40 <=> (\E r \in rules : r.severity >= 40) \/ model >= 40 \/ matches >= 2
               /\ \A s \in response.signals : s.category # "cross_modal_disagreement"
               /\ \A s \in response.signals : s.category = "coordinated_abuse" =>
                     \/ matches >= 2 /\ s.score = CampaignRisk(matches)
                     \/ \E r \in rules : r.category = "coordinated_abuse"
<1>. DEFINE response == TextResponse(rules, model, matches)
<1>1. \A s \in response.signals :
        \/ \E r \in rules : s = Signal("heuristic", r.category, r.severity)
        \/ model >= 40 /\ s = Signal("ml", "toxicity", model)
        \/ matches >= 2 /\ s = Signal("vector", "coordinated_abuse", CampaignRisk(matches))
  BY DEF TextSignals, ReviewThreshold, TextResponse, Response
<1>2. /\ Explained(response)
      /\ response.risk >= 85 <=> (\E r \in rules : r.severity >= 85) \/ model >= 85 \/ matches >= 5
      /\ response.risk >= 40 <=> (\E r \in rules : r.severity >= 40) \/ model >= 40 \/ matches >= 2
  BY TextRiskIs
<1>. HIDE DEF response
<1>3. \A s \in response.signals : s.category # "cross_modal_disagreement"
  BY <1>1 DEF Signal
<1>4. \A s \in response.signals : s.category = "coordinated_abuse" =>
         \/ matches >= 2 /\ s.score = CampaignRisk(matches)
         \/ \E r \in rules : r.category = "coordinated_abuse"
  BY <1>1 DEF Signal
<1>. QED  BY <1>2, <1>3, <1>4 DEF response

\* The decision of a text can be told from the signals a client is shown, and
\* so can the risk of an intervention; and it is what the strictest of the
\* rules, the models and the campaign calls for.
THEOREM SignalsTell ==
    ASSUME NEW rules, \A r \in rules : r.severity \in 0..100,
           NEW models, \A x \in models : x \in 0..100, NEW matches \in Nat
    PROVE  LET response == TextResponse(rules, ModelScore(models), matches)
               shown == Strictest({s.score : s \in response.signals})
           IN  /\ Decision(shown) = response.decision
               /\ response.decision # "allow" => shown = response.risk
               /\ response.decision = "block" <=> \/ \E r \in rules : r.severity >= 85
                                                  \/ \E x \in models : x >= 85
                                                  \/ matches >= 5
               /\ response.decision = "allow" <=> /\ \A r \in rules : ~(r.severity >= 40)
                                                  /\ \A x \in models : ~(x >= 40)
                                                  /\ matches < 2
<1>. DEFINE model == ModelScore(models)
            response == TextResponse(rules, model, matches)
            shown == Strictest({s.score : s \in response.signals})
<1>1. /\ model \in 0..100
      /\ model >= 85 <=> \E x \in models : x >= 85
      /\ model >= 40 <=> \E x \in models : x >= 40
  BY StrictestIs, StrictestReaches DEF ModelScore
<1>. HIDE DEF model
<1>2. /\ Explained(response)
      /\ response.risk >= 85 <=> (\E r \in rules : r.severity >= 85) \/ model >= 85 \/ matches >= 5
      /\ response.risk >= 40 <=> (\E r \in rules : r.severity >= 40) \/ model >= 40 \/ matches >= 2
  BY <1>1, TextRiskIs
<1>3. Decision(shown) = response.decision /\ (response.decision # "allow" => shown = response.risk)
  BY <1>2, ExplainedTells
<1>. HIDE DEF response, shown
<1>4. /\ response.decision = "block" <=> response.risk >= 85
      /\ response.decision = "allow" <=> ~(response.risk >= 40)
  BY <1>2 DEF Explained, Decision, BlockThreshold, ReviewThreshold
<1>5. matches < 2 <=> ~(matches >= 2)
  OBVIOUS
<1>6. response.decision = "block" <=> \/ \E r \in rules : r.severity >= 85
                                      \/ \E x \in models : x >= 85
                                      \/ matches >= 5
  BY <1>1, <1>2, <1>4, Zenon
<1>7. response.decision = "allow" <=> /\ \A r \in rules : ~(r.severity >= 40)
                                      /\ \A x \in models : ~(x >= 40)
                                      /\ matches < 2
  BY <1>1, <1>2, <1>4, <1>5, Zenon
<1>. QED  BY <1>3, <1>6, <1>7 DEF model, response, shown

\* The moderation of an image by scores that each image category is given.
LEMMA ImageResponseIs ==
    ASSUME NEW scores, \A c \in DOMAIN scores : scores[c] \in 0..100 /\ c # "cross_modal_disagreement",
           \A c \in DOMAIN scores : c # "coordinated_abuse"
    PROVE  LET response == ImageResponse(scores)
           IN  /\ Explained(response) /\ response.risk = ImageRisk(scores)
               /\ response.signals = ImageSignals(scores)
               /\ response.risk >= 85 <=> \E c \in DOMAIN scores : scores[c] >= 85
               /\ response.risk >= 40 <=> \E c \in DOMAIN scores : scores[c] >= 40
               /\ \A s \in response.signals : s.category \notin {"cross_modal_disagreement", "coordinated_abuse"}
<1>. DEFINE all == {scores[c] : c \in DOMAIN scores}
            risk == ImageRisk(scores)
            signals == ImageSignals(scores)
<1>1. \A x \in all : x \in 0..100
  OBVIOUS
<1>2. risk \in 0..100 /\ risk \in all \cup {0} /\ \A x \in all : x <= risk
  BY <1>1, StrictestIs DEF ImageRisk
<1>3. /\ risk >= 85 <=> \E x \in all : x >= 85
      /\ risk >= 40 <=> \E x \in all : x >= 40
  BY <1>1, StrictestReaches DEF ImageRisk
<1>4. \A x : x \in all <=> \E c \in DOMAIN scores : x = scores[c]
  OBVIOUS
<1>5. \A s \in signals : \E c \in DOMAIN scores : s = Signal("vision", c, scores[c])
  BY DEF ImageSignals
<1>6. \A c \in DOMAIN scores : scores[c] >= 40 => Signal("vision", c, scores[c]) \in signals
  BY DEF ImageSignals, Intervenes, ReviewThreshold
<1>. HIDE DEF all, risk, signals
<1>7. \A s \in signals : s.score \in 0..risk
  BY <1>1, <1>2, <1>4, <1>5 DEF Signal
<1>8. risk >= 40 => \E s \in signals : s.score = risk
  <2>1. ASSUME risk >= 40 PROVE \E c \in DOMAIN scores : risk = scores[c]
    BY <1>2, <1>4, <2>1
  <2>. QED  BY <1>6, <2>1 DEF Signal
<1>9. \A s \in signals : s.category \notin {"cross_modal_disagreement", "coordinated_abuse"}
  BY <1>5 DEF Signal
<1>10. ImageResponse(scores) = Response(risk, signals)
  BY DEF ImageResponse, risk, signals
<1>. QED  BY <1>2, <1>3, <1>4, <1>7, <1>8, <1>9, <1>10 DEF Response, Explained, risk, signals

\* The fusion of an explained text with an image: explained again, with the
\* signals of both, and one of their disagreement if there is one.
LEMMA FusionIs ==
    ASSUME NEW text, NEW scores, Explained(text), Explained(ImageResponse(scores)),
           ImageResponse(scores).risk = ImageRisk(scores),
           ImageResponse(scores).signals = ImageSignals(scores)
    PROVE  LET response == FusedResponse(text, scores)
               image == ImageResponse(scores)
           IN  /\ Explained(response)
               /\ text.risk <= response.risk /\ image.risk <= response.risk
               /\ \A t \in Nat : response.risk >= t <=> text.risk >= t \/ image.risk >= t
               /\ text.signals \cup image.signals \subseteq response.signals
               /\ \A s \in response.signals :
                     \/ s \in text.signals \/ s \in image.signals
                     \/ /\ s.category = "cross_modal_disagreement"
                        /\ ~(text.risk >= 40 <=> image.risk >= 40)
               /\ ~(text.risk >= 40 <=> image.risk >= 40)
                     => \E s \in response.signals : s.category = "cross_modal_disagreement"
<1>. DEFINE image == ImageResponse(scores)
            risk == Strictest({text.risk, image.risk})
            response == FusedResponse(text, scores)
            cross == Signal("policy", "cross_modal_disagreement", risk)
<1>1. text.risk \in 0..100 /\ image.risk \in 0..100
  BY DEF Explained
<1>2. risk \in {text.risk, image.risk} /\ text.risk <= risk /\ image.risk <= risk
  BY <1>1, StricterOfTwo
<1>3. /\ response.risk = risk /\ response.decision = Decision(risk)
      /\ response.signals = text.signals \cup image.signals \cup
             (IF Intervenes(text.risk) # Intervenes(image.risk) THEN {cross} ELSE {})
  BY DEF FusedResponse, Response
<1>4. cross.score = risk /\ cross.category = "cross_modal_disagreement"
  BY DEF Signal
<1>5. /\ \A s \in text.signals : s.score \in 0..text.risk
      /\ \A s \in image.signals : s.score \in 0..image.risk
      /\ text.risk >= 40 => \E s \in text.signals : s.score = text.risk
      /\ image.risk >= 40 => \E s \in image.signals : s.score = image.risk
  BY DEF Explained
<1>6. Intervenes(text.risk) # Intervenes(image.risk) <=> ~(text.risk >= 40 <=> image.risk >= 40)
  BY DEF Intervenes, ReviewThreshold
<1>. HIDE DEF image, risk, response, cross
<1>7. \A s \in response.signals : s.score \in 0..risk
  <2>1. ASSUME NEW s \in response.signals PROVE s \in text.signals \/ s \in image.signals \/ s = cross
    BY <1>3
  <2>2. risk \in 0..risk
    BY <1>1, <1>2
  <2>3. (\A x \in 0..text.risk : x \in 0..risk) /\ (\A x \in 0..image.risk : x \in 0..risk)
    <3>1. \A a, b \in 0..100 : a <= b => \A x \in 0..a : x \in 0..b
      OBVIOUS
    <3>2. risk \in 0..100
      BY <1>1, <1>2
    <3>. QED  BY <1>1, <1>2, <3>1, <3>2
  <2>. QED  BY <1>4, <1>5, <2>1, <2>2, <2>3
<1>8. risk >= 40 => \E s \in response.signals : s.score = risk
  BY <1>1, <1>2, <1>3, <1>5
<1>9. \A t \in Nat : risk >= t <=> text.risk >= t \/ image.risk >= t
  <2>1. PICK a \in 0..100, b \in 0..100, c \in 0..100 : a = text.risk /\ b = image.risk /\ c = risk
    BY <1>1, <1>2
  <2>2. c \in {a, b} /\ a <= c /\ b <= c
    BY <1>2, <2>1
  <2>3. \A t \in Nat : c >= t <=> a >= t \/ b >= t
    BY <2>2
  <2>. QED  BY <2>1, <2>3
<1>10. risk \in 0..100
  BY <1>1, <1>2
<1>11. Explained(response)
  BY <1>3, <1>7, <1>8, <1>10 DEF Explained
<1>12. text.signals \cup image.signals \subseteq response.signals
  BY <1>3
<1>. QED  BY <1>2, <1>3, <1>4, <1>6, <1>9, <1>11, <1>12 DEF image, response

\* A text and an image, moderated apart and together: nothing either reports is
\* lost, the stricter decision wins, the signals tell it, and exactly a
\* contradiction of the two is signalled besides.
THEOREM FusedResponseIs ==
    ASSUME NEW rules, \A r \in rules : r.severity \in 0..100 /\ r.category # "cross_modal_disagreement",
           NEW models, \A x \in models : x \in 0..100, NEW matches \in Nat,
           NEW scores \in [ImageCategory -> 0..100]
    PROVE  LET text == TextResponse(rules, ModelScore(models), matches)
               image == ImageResponse(scores)
               response == FusedResponse(text, scores)
               disagree == ~(text.decision = "allow" <=> image.decision = "allow")
           IN  /\ text.signals \cup image.signals \subseteq response.signals
               /\ \A s \in response.signals : \/ s \in text.signals \cup image.signals
                                              \/ s.category = "cross_modal_disagreement"
               /\ (\E s \in response.signals : s.category = "cross_modal_disagreement") <=> disagree
               /\ response.decision = "block" <=> text.decision = "block" \/ image.decision = "block"
               /\ response.decision = "allow" <=> text.decision = "allow" /\ image.decision = "allow"
               /\ Decision(Strictest({s.score : s \in response.signals})) = response.decision
<1>. DEFINE model == ModelScore(models)
            text == TextResponse(rules, model, matches)
            image == ImageResponse(scores)
            response == FusedResponse(text, scores)
<1>1. model \in 0..100
  BY StrictestIs DEF ModelScore
<1>. HIDE DEF model
<1>2. Explained(text) /\ \A s \in text.signals : s.category # "cross_modal_disagreement"
  BY <1>1, TextResponseIs
<1>3. /\ DOMAIN scores = ImageCategory /\ \A c \in ImageCategory : scores[c] \in 0..100
      /\ \A c \in ImageCategory : c \notin {"cross_modal_disagreement", "coordinated_abuse"}
  BY DEF ImageCategory
<1>4. /\ Explained(image) /\ image.risk = ImageRisk(scores) /\ image.signals = ImageSignals(scores)
      /\ \A s \in image.signals : s.category # "cross_modal_disagreement"
  BY <1>3, ImageResponseIs
<1>. HIDE DEF text
<1>5. /\ Explained(response)
      /\ \A t \in Nat : response.risk >= t <=> text.risk >= t \/ image.risk >= t
      /\ text.signals \cup image.signals \subseteq response.signals
      /\ \A s \in response.signals :
            \/ s \in text.signals \/ s \in image.signals
            \/ /\ s.category = "cross_modal_disagreement"
               /\ ~(text.risk >= 40 <=> image.risk >= 40)
      /\ ~(text.risk >= 40 <=> image.risk >= 40)
            => \E s \in response.signals : s.category = "cross_modal_disagreement"
  BY <1>2, <1>4, FusionIs
<1>6. Decision(Strictest({s.score : s \in response.signals})) = response.decision
  BY <1>5, ExplainedTells
<1>. HIDE DEF image, response
<1>7. ASSUME NEW a, Explained(a)
      PROVE  /\ a.decision = "block" <=> a.risk >= 85
             /\ a.decision = "allow" <=> ~(a.risk >= 40)
  BY <1>7 DEF Explained, Decision, BlockThreshold, ReviewThreshold
<1>8. /\ response.risk >= 85 <=> text.risk >= 85 \/ image.risk >= 85
      /\ response.risk >= 40 <=> text.risk >= 40 \/ image.risk >= 40
  BY <1>5
<1>9. /\ response.decision = "block" <=> text.decision = "block" \/ image.decision = "block"
      /\ response.decision = "allow" <=> text.decision = "allow" /\ image.decision = "allow"
      /\ (text.risk >= 40 <=> image.risk >= 40) <=> (text.decision = "allow" <=> image.decision = "allow")
  BY <1>2, <1>4, <1>5, <1>7, <1>8
<1>10. (\E s \in response.signals : s.category = "cross_modal_disagreement")
         <=> ~(text.risk >= 40 <=> image.risk >= 40)
  BY <1>2, <1>4, <1>5
<1>11. \A s \in response.signals : \/ s \in text.signals \cup image.signals
                                   \/ s.category = "cross_modal_disagreement"
  BY <1>5
<1>. QED  BY <1>5, <1>6, <1>9, <1>10, <1>11 DEF model, text, image, response

\* The second response is at least as strict as the first.
NoLaxer(first, second) ==
    /\ first.decision = "block" => second.decision = "block"
    /\ second.decision = "allow" => first.decision = "allow"

\* More risk, no laxer decision.
LEMMA RiskDecides ==
    ASSUME NEW first, NEW second, Explained(first), Explained(second), first.risk <= second.risk
    PROVE  NoLaxer(first, second)
BY DEF NoLaxer, Explained, Decision, BlockThreshold, ReviewThreshold

\* More scores, or higher ones, no lower strictest score.
LEMMA StrictestGrows ==
    ASSUME NEW S, \A x \in S : x \in 0..100, NEW T, \A y \in T : y \in 0..100,
           \A x \in S : \E y \in T : x <= y
    PROVE  Strictest(S) <= Strictest(T)
<1>1. PICK s \in 0..100 : s = Strictest(S) /\ s \in S \cup {0}
  BY StrictestIs
<1>2. PICK t \in 0..100 : t = Strictest(T) /\ \A y \in T : y <= t
  BY StrictestIs
<1>3. CASE s \in S
  <2>1. PICK y \in T : s <= y
    BY <1>3
  <2>2. y \in 0..100 /\ y <= t
    BY <1>2, <2>1
  <2>. QED  BY <1>1, <1>2, <2>1, <2>2
<1>. QED  BY <1>1, <1>2, <1>3

\* Evidence never makes up for other evidence: with more rules that match, more
\* models, more requests of the same kind, higher image scores, or an image at
\* all, an answer has no less risk and is no laxer.
THEOREM EvidenceNeverWeakens ==
    ASSUME NEW rules, NEW moreRules, rules \subseteq moreRules, \A r \in moreRules : r.severity \in 0..100,
           NEW models, NEW moreModels, models \subseteq moreModels, \A x \in moreModels : x \in 0..100,
           NEW matches \in Nat, NEW moreMatches \in Nat, matches <= moreMatches,
           NEW scores \in [ImageCategory -> 0..100], NEW higher \in [ImageCategory -> 0..100],
           \A c \in ImageCategory : scores[c] <= higher[c]
    PROVE  LET text == TextResponse(rules, ModelScore(models), matches)
               moreText == TextResponse(moreRules, ModelScore(moreModels), moreMatches)
               fused == FusedResponse(text, scores)
               moreFused == FusedResponse(moreText, higher)
           IN  /\ text.risk <= moreText.risk /\ NoLaxer(text, moreText)
               /\ fused.risk <= moreFused.risk /\ NoLaxer(fused, moreFused)
               /\ text.risk <= fused.risk /\ NoLaxer(text, fused)
               /\ NoLaxer(ImageResponse(scores), fused)
<1>. DEFINE text == TextResponse(rules, ModelScore(models), matches)
            moreText == TextResponse(moreRules, ModelScore(moreModels), moreMatches)
            image == ImageResponse(scores)
            moreImage == ImageResponse(higher)
            fused == FusedResponse(text, scores)
            moreFused == FusedResponse(moreText, higher)
<1>1. PICK m \in 0..100, n \in 0..100 : m = ModelScore(models) /\ n = ModelScore(moreModels) /\ m <= n
  <2>1. \A x \in models : x \in 0..100 /\ \E y \in moreModels : x <= y
    OBVIOUS
  <2>. QED  BY <2>1, StrictestIs, StrictestGrows DEF ModelScore
<1>2. text.risk <= moreText.risk /\ Explained(text) /\ Explained(moreText)
  <2>. DEFINE all == {r.severity : r \in rules} \cup {m, CampaignRisk(matches)}
              more == {r.severity : r \in moreRules} \cup {n, CampaignRisk(moreMatches)}
  <2>1. CampaignRisk(matches) \in 0..100 /\ CampaignRisk(moreMatches) \in 0..100
    BY CampaignRiskIs
  <2>2. CampaignRisk(matches) <= CampaignRisk(moreMatches)
    BY CampaignRiskGrows
  <2>3. (\A x \in all : x \in 0..100) /\ \A y \in more : y \in 0..100
    BY <2>1
  <2>4. ASSUME NEW x \in all PROVE \E y \in more : x <= y
    <3>1. CASE \E r \in rules : x = r.severity
      <4>1. PICK r \in rules : x = r.severity
        BY <3>1
      <4>2. r \in moreRules /\ x \in 0..100
        BY <4>1
      <4>3. x \in more /\ x <= x
        BY <4>1, <4>2
      <4>. QED  BY <4>3
    <3>2. CASE x = m
      BY <1>1, <3>2
    <3>3. CASE x = CampaignRisk(matches)
      BY <2>2, <3>3
    <3>. QED  BY <3>1, <3>2, <3>3
  <2>. HIDE DEF all, more
  <2>5. Strictest(all) <= Strictest(more)
    BY <2>3, <2>4, StrictestGrows
  <2>6. text.risk = Strictest(all) /\ moreText.risk = Strictest(more)
    BY <1>1 DEF TextResponse, Response, all, more
  <2>7. Explained(TextResponse(rules, m, matches)) /\ Explained(TextResponse(moreRules, n, moreMatches))
    BY TextRiskIs
  <2>. QED  BY <1>1, <2>5, <2>6, <2>7
<1>3. /\ Explained(image) /\ image.risk = ImageRisk(scores) /\ image.signals = ImageSignals(scores)
      /\ Explained(moreImage) /\ moreImage.risk = ImageRisk(higher) /\ moreImage.signals = ImageSignals(higher)
  <2>1. \A f \in [ImageCategory -> 0..100] : \A c \in DOMAIN f :
           f[c] \in 0..100 /\ c \notin {"cross_modal_disagreement", "coordinated_abuse"}
    BY DEF ImageCategory
  <2>. QED  BY <2>1, ImageResponseIs
<1>4. image.risk <= moreImage.risk
  <2>. DEFINE all == {scores[c] : c \in DOMAIN scores}
              more == {higher[c] : c \in DOMAIN higher}
  <2>1. (\A x \in all : x \in 0..100) /\ (\A y \in more : y \in 0..100)
        /\ \A x \in all : \E y \in more : x <= y
    OBVIOUS
  <2>. HIDE DEF all, more
  <2>2. Strictest(all) <= Strictest(more)
    BY <2>1, StrictestGrows
  <2>. QED  BY <1>3, <2>2 DEF ImageRisk, all, more
<1>. HIDE DEF text, moreText
<1>5. /\ Explained(fused) /\ text.risk <= fused.risk /\ image.risk <= fused.risk
      /\ \A t \in Nat : fused.risk >= t <=> text.risk >= t \/ image.risk >= t
  BY <1>2, <1>3, FusionIs
<1>6. /\ Explained(moreFused) /\ moreText.risk <= moreFused.risk /\ moreImage.risk <= moreFused.risk
  BY <1>2, <1>3, FusionIs
<1>. HIDE DEF image, moreImage, fused, moreFused
<1>7. fused.risk <= moreFused.risk
  <2>1. PICK a \in 0..100, b \in 0..100, c \in 0..100, d \in 0..100 :
          a = text.risk /\ b = moreText.risk /\ c = image.risk /\ d = moreImage.risk
    BY <1>2, <1>3 DEF Explained
  <2>2. PICK e \in 0..100, f \in 0..100 : e = fused.risk /\ f = moreFused.risk
    BY <1>5, <1>6 DEF Explained
  <2>3. e <= a \/ e <= c
    <3>1. e >= e /\ e \in Nat
      BY <2>2
    <3>. QED  BY <1>5, <2>1, <2>2, <3>1
  <2>4. a <= b /\ c <= d /\ b <= f /\ d <= f
    BY <1>2, <1>4, <1>6, <2>1, <2>2
  <2>. QED  BY <2>2, <2>3, <2>4
<1>. QED  BY <1>2, <1>3, <1>5, <1>6, <1>7, RiskDecides DEF text, moreText, image, fused, moreFused
=============================================================================
