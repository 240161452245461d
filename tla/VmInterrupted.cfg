SPECIFICATION Spec
CONSTANTS
    Launchers = {l1, l2}
    Environments = {{"interrupt"}}
    NoLauncher = NoLauncher
INVARIANT ColdStartIsSerial
CHECK_DEADLOCK FALSE
