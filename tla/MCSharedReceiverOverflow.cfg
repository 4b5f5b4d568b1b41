SPECIFICATION Spec
CONSTANTS
    s1 = s1
    s2 = s2
    s3 = s3
    Junk = Junk
    Session <- TwoSessions
    Ends <- LongEnds
    Answers <- LongAnswers
    BufferSize = 3
    SeqModulus = 6
    Overlap = FALSE
INVARIANT SessionIsolation
