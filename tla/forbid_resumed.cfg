\* The code does not keep ForbidStops.
SPECIFICATION Spec
CONSTANTS
    p1 = p1
    p2 = p2
    k1 = k1
    k2 = k2
    Procs <- MCOneProc
    Packets <- MCOnePacket
    Commands <- MCInspectAndResume
    Crashes = TRUE
    MaxHead = 0
INVARIANTS
    ForbidStops
