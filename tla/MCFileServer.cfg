SPECIFICATION Spec
CONSTANTS
    s1 = s1
    s2 = s2
    f1 = f1
    f2 = f2
    i1 = i1
    i2 = i2
    i3 = i3
    Session = {s1, s2}
    Name = {f1, f2}
    Inode = {i1, i2, i3}
    None = None
    Old = Old
    OldSize = 2
    MaxSize = 3
    FragmentMax = 2
    ReadAhead = 2
    MaxUploads = 2
    MaxCommands = 2
    MayCrash = TRUE
SYMMETRY MCSymmetry
INVARIANTS
    TypeOK
    BytesInPlace
    FilesArePure
    FilesInv
PROPERTIES
    UndisturbedDownload
    UndisturbedUpload
