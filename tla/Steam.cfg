SPECIFICATION FairSpec
CONSTANTS
    Shells = {s1, s2}
    Files = {bin, archive}
    Program = bin
    Environments <- MCEnvironments
    NoShell = NoShell
INVARIANTS
    InstalledIsWhole
    NeverNested
    InstallersExclude
PROPERTY EveryoneGetsOn
CHECK_DEADLOCK FALSE
