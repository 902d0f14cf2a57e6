--------------------------- MODULE MCRunLifecycle ---------------------------
(* The instance of the run lifecycle that TLC checks. *)
EXTENDS RunRefinement

CONSTANTS p1, p2, k1, k2

MCOneProc == {p1}
MCTwoProcs == {p1, p2}
MCPackets == {k1, k2}
MCOnePacket == {k1}
MCAllCommands == {"status", "resume", "verify"}
MCInspectAndResume == {"status", "resume"}

=============================================================================
