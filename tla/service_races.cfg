SPECIFICATION FairSpec
CONSTANTS
    v1 = v1
    v2 = v2
    bad = bad
    OTHER_KEY = OTHER_KEY
    c1 = c1
    c2 = c2
    NoFile = NoFile
    Broken = Broken
    OtherKeys <- MCOtherKeys
    Val = {v1, v2, bad}
    Malformed = {bad}
    InitConf <- RacingInitConf
    Call = {c1, c2}
    Requests <- RacingRequests
    DirWritable = TRUE
    Faults = {"quit", "full"}
INVARIANTS
    FileIsLastSave
    FreshSavesAreCurrent
PROPERTIES
    FreshSavesTakeEffect
    ChangesAreAuthorised
    AcknowledgedIsStored
    ReadsSeeSaves
    AnsweredCallsEnd
