SPECIFICATION FairSpec
CONSTANTS
    w1 = w1
    w2 = w2
    h1 = h1
    h2 = h2
    None = None
    Windows <- SmallWindows
    Handles <- SmallHandles
    Prompt <- OnlyFirst
    Rebind = FALSE
    Overlap = FALSE
    Transient = FALSE
    MaxRequests = 2
    MaxRuns = 2
INVARIANT TypeOK
INVARIANT JournalInv
INVARIANT HiddenIsJournaled
INVARIANT MemoryKeepsHidden
PROPERTY RevealedAfterExit
