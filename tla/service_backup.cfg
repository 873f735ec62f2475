SPECIFICATION Spec
CONSTANTS
    v1 = v1
    v2 = v2
    bad = bad
    OTHER_KEY = OTHER_KEY
    c1 = c1
    c2 = c2
    NoFile = NoFile
    Broken = Broken
    OtherKeys <- MCOtherKeys
    Val = {v1, v2, bad}
    Malformed = {bad}
    InitConf <- SmallInitConf
    Call = {c1}
    Requests <- BackupOnly
    DirWritable = FALSE
    Faults = {}
INVARIANTS
    BackupLeavesBackup
