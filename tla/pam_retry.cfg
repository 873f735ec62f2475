SPECIFICATION Spec
CONSTANTS
    weak = weak
    fair = fair
    strong = strong
    None = None
    Token <- MCToken
    Policies <- MCPolicies
    Retries = {3}
INVARIANTS
    ResultIsTheCheck
CHECK_DEADLOCK FALSE
