\* Inspections and resumes only: a paused run waits, a closed run stays closed.
SPECIFICATION Spec
CONSTANTS
    p1 = p1
    p2 = p2
    k1 = k1
    k2 = k2
    Procs <- MCOneProc
    Packets <- MCOnePacket
    Commands <- MCInspectAndResume
    Crashes = TRUE
    MaxHead = 1
INVARIANTS
    PausedRunIsResumable
    EvidenceIsOfOneExecution
    EligibleResumeIsServed
PROPERTIES
    ClosedRunStaysClosed
    PromiseKept
