SPECIFICATION WorkflowSpec
CONSTANTS
    Declared <- SmallShapes
    Packets <- SomePackets
    MaxEscalations = 2
    Validations <- AnyChecks
    Tracked = 2
    Others = 1
    Contents <- TwoContents
    Untracked <- LargeFiles
    Digests <- OneSize
    DigestOf <- BySize
    Checkouts <- CleanCheckouts
    MaxEdits = 1
    NoShape = NoShape
    NoHandoff = NoHandoff
    NoDiff = NoDiff
    NoFile = NoFile
    NoProbe = NoProbe
    NoRecord = NoRecord
    a = a
    b = b
    u1 = u1
    u2 = u2
INVARIANTS
    PreparedIsCompletable
CHECK_DEADLOCK FALSE
