\* One command at a time, killed anywhere and followed by any other.
SPECIFICATION Spec
CONSTANTS
    p1 = p1
    p2 = p2
    k1 = k1
    k2 = k2
    Procs <- MCOneProc
    Packets <- MCOnePacket
    Commands <- MCAllCommands
    Crashes = TRUE
    MaxHead = 0
INVARIANTS
    TypeOK
    PromptIsApproved
    DenialIsFinal
    CompletedIsVerified
    RecordsAgreeAtRest
    HandlersFindTheirInputs
