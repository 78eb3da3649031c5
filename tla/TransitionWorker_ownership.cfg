SPECIFICATION Spec
CHECK_DEADLOCK FALSE
CONSTANTS
    w1 = w1
    w2 = w2
    s1 = s1
    s2 = s2
    a = a
    b = b
    c = c
    None = None
    Free = Free
    Windows <- TwoWindows
    Slots <- TwoSlots
    Views <- ThreeViews
    Leaves <- TabLeaves
    Shown <- TabShown
    Hideable <- OnlyW2
    Scripts <- OwnUndoAndCommands
    Disturbances <- W2Hidden
    Closable <- OnlyW1
    UndoLimit = 2
    CompletedLimit = 1
    MaxGeneration = 2
    MaxTopology = 1
    MaxLife = 2
    MaxEvents = 2
    MaxPosted = 2
INVARIANT TypeOK
INVARIANT OwnershipCoherent
INVARIANT UndoComplete
PROPERTY ClaimsInPlace
PROPERTY DomainAtomic
PROPERTY OwnershipPromise
PROPERTY FreshAuthority
PROPERTY UrgentWins
