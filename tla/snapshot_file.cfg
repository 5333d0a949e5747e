SPECIFICATION Spec
CONSTANTS
    None = None
    Rejected = Rejected
    s1 = s1
    s2 = s2
    Saver = {s1, s2}
    Snapshot = {"before", "after", "refused"}
    Value <- MCValue
    Encode <- MCEncode
    Decode <- MCDecode
    Readings <- MCReadings
    ValidSnapshot <- MCValidSnapshot
    MaxSaves = 3
SYMMETRY MCSymmetry
INVARIANTS
    TypeOK
    AcceptedWasSaved
    ReturnedSaveIsLoadable
    NoMomentWithoutACopy
