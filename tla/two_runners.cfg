\* The code does not keep OneRunnerAtATime.
SPECIFICATION Spec
CONSTANTS
    p1 = p1
    p2 = p2
    k1 = k1
    k2 = k2
    Procs <- MCTwoProcs
    Packets <- MCOnePacket
    Commands <- MCInspectAndResume
    Crashes = FALSE
    MaxHead = 0
INVARIANTS
    OneRunnerAtATime
