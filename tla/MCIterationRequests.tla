------------------------- MODULE MCIterationRequests -------------------------
(* The instance of the iteration requests that TLC checks. *)
EXTENDS IterationRequests

MCProcs == {"p1"}
MCInstructions == {"rename", "retest"}

=============================================================================
