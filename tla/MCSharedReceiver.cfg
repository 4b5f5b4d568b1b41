SPECIFICATION FairSpec
CONSTANTS
    s1 = s1
    s2 = s2
    s3 = s3
    Junk = Junk
    Session <- ThreeSessions
    Ends <- ShortEnds
    Answers <- ShortAnswers
    BufferSize = 3
    SeqModulus = 8
    Overlap = FALSE
INVARIANTS
    TypeOK
    SessionIsolation
    DrainedBetweenSessions
    SequentialInv
PROPERTY AllServed
