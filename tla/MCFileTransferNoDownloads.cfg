SPECIFICATION Spec
CONSTANTS
    good = good
    bad = bad
    wide = wide
    vast = vast
    dots = dots
    x = x
    y = y
    NL = NL
    Stale = Stale
    Rest = Rest
    Absent = Absent
    Data <- MCData
    Content <- MCContent
    Name <- MCName
    Parola <- MCParola
    Directories <- MCDirectories
    SeekEnds <- MCSeekEnds
    Width <- MCWidth
    Starts <- NoDownloadsStarts
    BufferSize = 3
    LineLimit = 6
    MaxFileSize = 5
    MaxCommands = 3
    MayBreak = FALSE
INVARIANT RepliesUnderstood
