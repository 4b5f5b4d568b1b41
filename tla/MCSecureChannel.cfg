SPECIFICATION FairSpec
CONSTANTS
    a = a
    b = b
    Garbled = Garbled
    Byte <- MCByte
    BufferSize = 2
    SeqModulus = 8
INVARIANTS
    TypeOK
    ReceivedIsPrefix
    NoRejection
    StampsUnique
    ChannelInv
    OverflowLosesOnlyLast
PROPERTIES
    ImplementsByteStream
    FailureNoticed
