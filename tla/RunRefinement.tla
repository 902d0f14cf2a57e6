--------------------------- MODULE RunRefinement ---------------------------
(***************************************************************************)
(* The run lifecycle implements GovernedRun.                               *)
(***************************************************************************)
EXTENDS RunInvariants

\* A run is about to close when run.json says so, and closed when the manifest
\* says it as well.
Outcome ==
    CASE run.status = "completed" ->
            IF manifest.status = "completed" THEN "completed" ELSE "completing"
      [] run.status = "abandoned" ->
            IF manifest.status = "abandoned" THEN "abandoned" ELSE "abandoning"
      [] OTHER -> "open"

Promise == INSTANCE GovernedRun WITH
    Evidence <- RunnerEvidence,
    decision <- files["decision"],
    answer   <- files["resolution"],
    working  <- \E p \in Procs : At(p, "executing"),
    evidence <- (RunnerEvidence \cap Present(files)) \ stale,
    audit    <- files["audit"],
    verdict  <- files["verification"],
    outcome  <- Outcome

\* Whatever is interrupted, killed, inspected and resumed, the directory of a
\* run shows a behaviour of GovernedRun: no step of the handlers in
\* transition-engine.ts, or of the inspection, decides, asks, launches,
\* records, judges or closes out of turn.
PromiseKept == Promise!Spec

=============================================================================
