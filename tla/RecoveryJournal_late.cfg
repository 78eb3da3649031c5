SPECIFICATION Spec
CONSTANTS
    w1 = w1
    w2 = w2
    h1 = h1
    h2 = h2
    None = None
    Windows <- OneWindow
    Handles <- SmallHandles
    Prompt <- Nobody
    Rebind = FALSE
    Overlap = FALSE
    Transient = FALSE
    MaxRequests = 2
    MaxRuns = 1
INVARIANT RemainsEligible
