\* Every command ends or waits for a human, the runner or a verification command.
SPECIFICATION FairSpec
CONSTANTS
    p1 = p1
    p2 = p2
    k1 = k1
    k2 = k2
    Procs <- MCOneProc
    Packets <- MCOnePacket
    Commands <- MCInspectAndResume
    Crashes = TRUE
    MaxHead = 0
PROPERTIES
    CommandsEnd
