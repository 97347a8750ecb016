SPECIFICATION Spec
CONSTANTS
    RequestId = {1, 2, 3, 4, 5, 6}
    Other = other
    Text = {spam, other}
    Loop = loop
    Thread = {thread}
    Worker = {}
    OwnScore <- MCOwnScore
    ImageScore = {10}
    SearchLimit = 20
    MaxCalls = 6
    MaxFailures = 1
    NoCall = NoCall
    NoText = NoText
    NoImage = NoImage
CONSTRAINT OtherContentOnce
ACTION_CONSTRAINT FreshIdsInOrder
INVARIANTS
    TypeOK
    CampaignIsNoticed
    NoFalseCampaign
    EscapesAreBounded
CHECK_DEADLOCK FALSE
