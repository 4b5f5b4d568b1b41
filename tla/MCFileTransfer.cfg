SPECIFICATION FairSpec
CONSTANTS
    good = good
    bad = bad
    wide = wide
    vast = vast
    dots = dots
    x = x
    y = y
    NL = NL
    Stale = Stale
    Rest = Rest
    Absent = Absent
    Data <- MCData
    Content <- MCContent
    Name <- MCName
    Parola <- MCParola
    Directories <- MCDirectories
    SeekEnds <- MCSeekEnds
    Width <- MCWidth
    Starts <- MCStarts
    BufferSize = 3
    LineLimit = 6
    MaxFileSize = 5
    MaxCommands = 3
    MayBreak = TRUE
INVARIANTS
    TypeOK
    InSync
    WholeFiles
    NoOverrun
    SendsFit
    SyncInv
PROPERTIES
    GetIsExact
    PutIsExact
    ListIsExact
    CommandEnds
    ThreadEnds
