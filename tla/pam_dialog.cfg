SPECIFICATION FairSpec
CONSTANTS
    weak = weak
    fair = fair
    strong = strong
    None = None
    Token <- MCToken
    Policies <- MCPolicies
    Retries <- AllRetries
INVARIANTS
    SuccessMeansAccepted
    StoredWasAccepted
    FailureIsJustified
    EveryQuestionHasAReason
PROPERTIES
    NoQuestionAfterAcceptance
    Returns
CHECK_DEADLOCK FALSE
