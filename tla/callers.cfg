SPECIFICATION Spec
CONSTANTS
    Threads = {t1, t2}
    Confs <- MCConfs
    Unreadable = unreadable
    Lengths = {0, 9, 600}
    CallLimit = 1
SYMMETRY Symmetric
INVARIANTS
    MessageIsForItsError
    MessageExplains
    OnlyOffChecksLeak
