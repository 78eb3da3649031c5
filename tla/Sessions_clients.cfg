SPECIFICATION MCSpec
CHECK_DEADLOCK FALSE
CONSTANTS
    None = None
    Oversized <- Large
    MaxLog = 2
    MaxReplay = 2
    MaxBytes = 3
    Bulk <- Sizes
    MaxPlans = 1
    MaxHistory = 1
    MaxRevision = 2
    MaxTokens = 2
    MaxDisturbed = 1
    Clients <- Both
    Asks <- FollowOrPlan
    Commands <- HostCommands
    Ids <- ThreeIds
    MaxSent <- FourAndSeven
    MaxUnread = 1
    MaxWaits = 1
    output1 = output1
    output2 = output2
    cable1 = cable1
    cable2 = cable2
    faint = faint
    loud = loud
    screen1 = screen1
    Nothing = Nothing
    Audios <- SomeAudios
    Cables <- SomeCables
    Gains <- SomeGains
    Displays <- SomeDisplays
    Loops <- OneLoop
    MaxRows = 2
    Presets <- SomePresets
    CablePresets <- SomeCablePresets
    Bundles <- SomeBundles
INVARIANT AtMostOnceInWindow
INVARIANT AppliedOnce
INVARIANT PlansCurrent
INVARIANT FollowersKnow
INVARIANT NotMixedUp
INVARIANT RunsAsShown
PROPERTY UnselectedUntouched
PROPERTY NoLoopStarted
