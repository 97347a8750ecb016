SPECIFICATION Spec
CONSTANTS
    Character = {"a", "b"}
    PhraseSet <- MCPhraseSet
    TextToScan <- MCTextToScan
    MaxPieces = 3
    MaxCut = 12
    Uploads <- MCUploads
    RuleSets <- MCRuleSets
    ModelScores <- MCModelScores
    Matches <- MCMatches
    LabelCategory <- MCLabelCategory
    Probabilities <- MCProbabilities
    NoUpload = NoUpload
    BaseEnvironments <- MCBaseEnvironments
    CaseId = {1, 2, 3}
    MaxLines = 3
    Attack = {clean, zero_width, leetspeak}
    Clean = clean
    Score = {20, 60, 101}
    Requirement <- MCRequirement
INVARIANTS
    RulesThatOccurAreFound
    FirstFrameIsReported
    StrictestEvidenceWins
    SignalsExplainDecision
    ContradictionsAreReviewed
    RefusedLeavesNoTrace
    ProductionIsGuarded
    ReadyMeansComplete
    StopClosesEverything
    PromotionIsEarned
PROPERTIES
    InspectionEnds
CHECK_DEADLOCK FALSE
