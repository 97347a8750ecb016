----------------------------- MODULE Evaluation -----------------------------
(***************************************************************************)
(* The promotion of a model: the corpus is loaded, every case is scored    *)
(* under every attack, and the report must pass the gates.                 *)
(***************************************************************************)
EXTENDS Integers, Sequences, FiniteSets, FiniteSetsExt

CONSTANTS CaseId, MaxLines, Attack, Clean,
          Score,          \* scores of a model, and 101 for one out of range
          Requirement     \* evaluation-gates.json, in hundredths

ASSUME AttackAssumption == Clean \in Attack
ASSUME ScoreAssumption == Score \subseteq Nat

\* The gates ask for some recall and allow for less than every safe text.
ASSUME RequirementAssumption == /\ Requirement.worstAttackRecall \in 1..100
                                /\ Requirement.falsePositiveRate \in 0..99

Threshold == 40

VARIABLES lines, scored, verdict
evaluation == <<lines, scored, verdict>>

EvaluationInit ==
    /\ lines \in UNION {[1..n -> [id : CaseId, label : {0, 1}]] : n \in 0..MaxLines}
    /\ scored = {}
    /\ verdict = "loading"

Labels == {lines[i].label : i \in DOMAIN lines}
Distinct == \A i, j \in DOMAIN lines : lines[i].id = lines[j].id => i = j

\* Mutant: a corpus of unsafe cases alone is accepted.
CorpusValidWithoutSafeCases == lines # <<>> /\ Distinct

CorpusValid == lines # <<>> /\ Distinct /\ Labels = {0, 1}

LoadCases == /\ verdict = "loading"
             /\ verdict' = IF CorpusValid THEN "scoring" ELSE "refused"
             /\ UNCHANGED <<lines, scored>>

(* Every case is scored under the attack; a score outside [0, 1] ends the  *)
(* evaluation.  The order of cases and attacks does not show in a report.  *)
ScoreVariants(attack) ==
    /\ verdict = "scoring"
    /\ \A s \in scored : s.attack # attack
    /\ \E scores \in [DOMAIN lines -> Score] :
          /\ scored' = scored \cup {[id |-> lines[i].id, label |-> lines[i].label,
                                     attack |-> attack, score |-> scores[i]] : i \in DOMAIN lines}
          /\ verdict' = IF \E i \in DOMAIN lines : scores[i] > 100 THEN "refused" ELSE verdict
    /\ UNCHANGED lines

\* A cell of the confusion matrix over some scored variants.
Cell(items, label, flagged) ==
    Cardinality({s \in items : s.label = label /\ (s.score >= Threshold) = flagged})

\* The rate n / (n + m) in ten thousandths, finer than the rates of a corpus here; 0 of none.
Rate(n, m) == IF n + m = 0 THEN 0 ELSE (10000 * n) \div (n + m)
Recall(items) == Rate(Cell(items, 1, TRUE), Cell(items, 1, FALSE))
Precision(items) == Rate(Cell(items, 1, TRUE), Cell(items, 0, TRUE))
FalsePositiveRate(items) == Rate(Cell(items, 0, TRUE), Cell(items, 0, FALSE))

Slice(attack) == {s \in scored : s.attack = attack}
Attacked == Attack \ {Clean}

WorstAttackRecall ==
    IF Attacked = {} THEN Recall(Slice(Clean)) ELSE Min({Recall(Slice(a)) : a \in Attacked})
RecallDrop == Max({Recall(Slice(Clean)) - Recall(Slice(a)) : a \in Attacked}
                  \cup (IF Attacked = {} THEN {0} ELSE {}))

PassesGates ==
    /\ Recall(scored) >= 100 * Requirement.recall
    /\ Precision(scored) >= 100 * Requirement.precision
    /\ WorstAttackRecall >= 100 * Requirement.worstAttackRecall
    /\ FalsePositiveRate(scored) <= 100 * Requirement.falsePositiveRate
    /\ RecallDrop <= 100 * Requirement.recallDrop

Gate == /\ verdict = "scoring"
        /\ \A a \in Attack : Slice(a) # {}
        /\ verdict' = IF PassesGates THEN "promoted" ELSE "failed"
        /\ UNCHANGED <<lines, scored>>

EvaluationNext == LoadCases \/ (\E a \in Attack : ScoreVariants(a)) \/ Gate

EvaluationSpec == EvaluationInit /\ [][EvaluationNext]_evaluation
-----------------------------------------------------------------------------
(* A model that is promoted tells safe from unsafe: no attack hides all    *)
(* unsafe cases from it, and there are safe cases that it lets pass, so    *)
(* that neither a corpus that lacks one of the labels nor a model that     *)
(* gives all texts the same score can pass (evaluation/cases.py,           *)
(* load_cases; metrics.py; gates.py).                                      *)
PromotionIsEarned ==
    verdict = "promoted" =>
        /\ \A a \in Attacked : Cell(Slice(a), 1, TRUE) > 0
        /\ Cell(scored, 0, FALSE) > 0
=============================================================================
