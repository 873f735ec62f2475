SPECIFICATION Spec
CONSTANTS
    new = new
    old = old
    bad = bad
    Yes = Yes
    DefaultPolicy = DefaultPolicy
    NoText = NoText
    NoFile = NoFile
    Broken = Broken
    No = No
    Garbage = Garbage
    Postinst = Postinst
    l1 = l1
    l2 = l2
    OtherKeys <- OneStandard
    OsVersions <- ServerOnly
    Val <- MCVal
    Malformed = {bad}
    Loader = {l1, l2}
    Root = {l1}
    Upgrades = TRUE
    InitConfs <- RaceContents
    SetterArg <- SetsLength
INVARIANTS
    OptionsHaveASource
    SettingsSurvive
PROPERTIES
    PrivilegedLoadsFindAFile
CHECK_DEADLOCK FALSE
