SPECIFICATION Spec
CHECK_DEADLOCK FALSE
CONSTANTS
    output1 = output1
    output2 = output2
    faint = faint
    loud = loud
    screen1 = screen1
    m1 = m1
    m2 = m2
    ident1 = ident1
    ident2 = ident2
    NoId = NoId
    Devices <- Ports
    Panels <- TwoPanels
    HardwareId <- TwoAlike
    SavedIds <- TwoIdentities
    MaxTopology = 2
    NoProvider = NoProvider
    Providers <- TwoProviders
    Sessions <- One
    Resources <- One
    MaxProviders = 1
    MaxSequence = 2
    MaxGrants = 2
    MaxTime = 1
    NoIntent = NoIntent
    Edits <- OneTwo
    Removals <- Two
    Scopes <- EachAlone
    MaxIntents = 3
    MaxRevisions = 0
    MaxUndo = 1
    MaxUnasked = 1
    Nowhere = Nowhere
    Trees <- JustContested
    WindowCount = 3
    Rooms <- TwoRooms
    Spots <- ThreeSpots
    Start <- SideBySide
    Lockable <- One
    Rigid <- Three
    Clicked <- One
    FlowSize <- Flowed
    MaxUserActs = 1
    MaxLayouts = 2
    MaxTogether = 3
    Documents <- Referring
    Selections <- ThreeSelections
    Bindings <- OneBinding
    MaxNodes = 11
    Nil = Nil
    Default = Default
    input1 = input1
    line1 = line1
    Outputs <- BothOutputs
    Screens <- OneScreen
    AudioChoices <- ThreeAudios
    RowChoices <- OneRow
    Books <- TwoBooks
    MaxMirrors = 2
    MaxPresets = 1
    MaxTouches = 1
    MaxShifts = 1
    Unset = Unset
    Playbacks <- ThreePlaybacks
    Captures <- OneCapture
    Installed <- OneWire
    Volumes <- BothVolumes
    FirstVolume = faint
    Papers <- TwoPapers
    MaxTunings = 1
    MaxTrouble = 1
    MaxKept = 2
    Parts = {"tree"}
INVARIANT DraftSaves
