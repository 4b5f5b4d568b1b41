SPECIFICATION Spec
CONSTANTS
    s1 = s1
    s2 = s2
    s3 = s3
    Junk = Junk
    Session <- TwoSessions
    Ends <- BesideEnds
    Answers <- BesideAnswers
    BufferSize = 3
    SeqModulus = 8
    Overlap = TRUE
INVARIANT SessionIsolation
