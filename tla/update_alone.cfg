SPECIFICATION FairSpec
CONSTANTS
    new = new
    old = old
    bad = bad
    Yes = Yes
    DefaultPolicy = DefaultPolicy
    NoText = NoText
    NoFile = NoFile
    Broken = Broken
    No = No
    Garbage = Garbage
    Postinst = Postinst
    l1 = l1
    l2 = l2
    OtherKeys <- SomeRules
    OsVersions <- Systems
    Val <- MCVal
    Malformed = {bad}
    Loader = {l1}
    Root = {l1}
    Upgrades = TRUE
    InitConfs <- AnyContents
    SetterArg <- NoSetter
INVARIANTS
    UndisturbedLoadIsExact
    UpgradeCompletes
    UpgradesNeverWeaken
PROPERTIES
    UnknownSystemsAreLeftAlone
    EveryLoadEnds
CHECK_DEADLOCK FALSE
