SPECIFICATION Spec
CONSTANTS
    c1 = c1
    t1 = t1
    t2 = t2
    c2 = c2
    Commands = {c1}
    Torrents = {t1, t2}
    MaxId = 3
    Overlap = FALSE
INVARIANTS TypeOK DaemonAgrees OwnNumbers
PROPERTY ImplementsRegistry
