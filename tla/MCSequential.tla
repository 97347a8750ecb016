---------------------------- MODULE MCSequential ----------------------------
(* The parts of the program that run by themselves from their input to     *)
(* their result, each for all of its inputs: an instance picks one part    *)
(* and the others stay as they are.                                        *)
EXTENDS RuleScan, ImageInspection, SynchronousModeration, ApiProcess, Evaluation

VARIABLE part

vars == <<part, scan, inspection, moderation, process, evaluation>>

Words(n) == UNION {[1..k -> {"a", "b"}] : k \in n}
MCPhraseSet == {{p, q} : p, q \in Words(1..3)}
MCTextToScan == Words(0..4)

Upload(format, declared, width, height) ==
    [base64 |-> TRUE, bytes |-> 1000, format |-> format, declared |-> declared, header |-> TRUE,
     animated |-> FALSE, width |-> width, height |-> height]
MCUploads == LET sound == Upload("JPEG", "JPEG", 640, 480)
             IN  {sound, Upload("WEBP", "PNG", 640, 480), Upload("GIF", "PNG", 640, 480),
                  Upload("PNG", "PNG", 0, 480), Upload("PNG", "PNG", 8193, 1),
                  Upload("PNG", "PNG", 8192, 8192),
                  [sound EXCEPT !.base64 = FALSE], [sound EXCEPT !.bytes = 0],
                  [sound EXCEPT !.bytes = 5242881], [sound EXCEPT !.header = FALSE],
                  [sound EXCEPT !.animated = TRUE]}

MCRuleSets == {{}, DefaultRules} \cup {{r} : r \in DefaultRules}
MCModelScores == {{}, {39}, {40}, {20, 84}, {39, 85}}
MCMatches == {0, 1, 2, 4, 5}
MCLabelCategory == <<"sexual_content", "sexual_content", "graphic_violence">>
MCProbabilities == {p \in [1..3 -> {0, 39, 40, 60, 85}] : p[1] + p[2] + p[3] <= 100}

Development == [environment |-> "development", docs |-> "unset", hsts |-> "unset",
                limiter |-> "unset", review |-> "unset", distributed |-> "unset",
                credentials |-> "example", ledger |-> "sound", baseline |-> "absent",
                transformer |-> "absent", image |-> "absent", index |-> "unset",
                redis |-> "sound", kafka |-> "sound"]
ProductionExample == [Development EXCEPT !.environment = "production", !.docs = "false",
                          !.hsts = "true", !.limiter = "true", !.review = "true",
                          !.credentials = "issued", !.index = "reachable",
                          !.distributed = "true", !.baseline = "sound"]
MCBaseEnvironments == {Development, ProductionExample}

MCRequirement == [recall |-> 60, precision |-> 60, worstAttackRecall |-> 30,
                  falsePositiveRate |-> 25, recallDrop |-> 50]

\* What the variables of a part are while another one is looked at.
ScanIdle == phrases = {} /\ content = <<>> /\ start = 1 /\ node = <<>> /\ matches = {}
InspectionIdle == pieces = <<>> /\ payload = <<>> /\ position = 2 /\ size = <<"invalid">>
RequestIdle == /\ request = <<>> /\ evidence = Quiet /\ stage = 1 /\ status = 0
               /\ text = NoResponse /\ response = NoResponse /\ indexed = FALSE /\ queued = FALSE
ProcessIdle == env = <<>> /\ phase = "import" /\ built = {} /\ open = {} /\ ready = FALSE
EvaluationIdle == lines = <<>> /\ scored = {} /\ verdict = "loading"

Init == \/ /\ part = "rules" /\ ScanInit
           /\ InspectionIdle /\ RequestIdle /\ ProcessIdle /\ EvaluationIdle
        \/ /\ part = "image" /\ InspectionInit
           /\ ScanIdle /\ RequestIdle /\ ProcessIdle /\ EvaluationIdle
        \/ /\ part = "request" /\ RequestInit
           /\ ScanIdle /\ InspectionIdle /\ ProcessIdle /\ EvaluationIdle
        \/ /\ part = "process" /\ ProcessInit
           /\ ScanIdle /\ InspectionIdle /\ RequestIdle /\ EvaluationIdle
        \/ /\ part = "evaluation" /\ EvaluationInit
           /\ ScanIdle /\ InspectionIdle /\ RequestIdle /\ ProcessIdle

Next == /\ UNCHANGED part
        /\ \/ part = "rules" /\ ScanNext /\ UNCHANGED <<inspection, moderation, process, evaluation>>
           \/ part = "image" /\ InspectionNext /\ UNCHANGED <<scan, moderation, process, evaluation>>
           \/ part = "request" /\ RequestNext /\ UNCHANGED <<scan, inspection, process, evaluation>>
           \/ part = "process" /\ ProcessNext /\ UNCHANGED <<scan, inspection, moderation, evaluation>>
           \/ part = "evaluation" /\ EvaluationNext
              /\ UNCHANGED <<scan, inspection, moderation, process>>

Spec == Init /\ [][Next]_vars /\ WF_vars(Next)
=============================================================================
