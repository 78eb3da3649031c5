SPECIFICATION Spec
CHECK_DEADLOCK FALSE
CONSTANTS
    w1 = w1
    w2 = w2
    s1 = s1
    s2 = s2
    a = a
    b = b
    c = c
    None = None
    Free = Free
    Windows <- TwoWindows
    Slots <- TwoSlots
    Views <- ThreeViews
    Leaves <- TabLeaves
    Shown <- TabShown
    Hideable <- OnlyW2
    Scripts <- Overtaking
    Disturbances <- W1Away
    Closable <- Nothing
    UndoLimit = 2
    CompletedLimit = 2
    MaxGeneration = 2
    MaxTopology = 0
    MaxLife = 1
    MaxEvents = 0
    MaxPosted = 2
PROPERTY SupersededNeverCommits
