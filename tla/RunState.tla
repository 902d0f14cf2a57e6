----------------------------- MODULE RunState -----------------------------
(***************************************************************************)
(* What one governed run keeps on disk, and the pure functions with which  *)
(* `gdh status` and `gdh resume` read it back                              *)
(* (apps/cli/src/services/run-lifecycle/inspection.ts).                    *)
(*                                                                         *)
(* A run is two records, run.json and session.manifest.json, and a set of  *)
(* artifact files.  Every field the functions below do not read (ids,      *)
(* timestamps, summaries, artifact paths, sessions, progress) is left out. *)
(***************************************************************************)
EXTENDS Naturals, Sequences

CONSTANTS
    Packets,   \* the contents an approval packet may have
    MaxHead    \* bound: how many times Git HEAD moves during the run's life

ASSUME PacketsAssumption == Packets # {} /\ "absent" \notin Packets
ASSUME MaxHeadAssumption == MaxHead \in Nat

\* An optional stage or checkpoint that is not set (undefined in the source).
NoStage == "none"

Heads == 0 .. MaxHead

Stages == {"created", "spec_normalized", "plan_created", "policy_evaluated",
           "awaiting_approval", "approval_resolved", "runner_started",
           "runner_completed", "verification_started",
           "verification_completed"}

OptionalStage == Stages \cup {NoStage}

\* The statuses a run can have; "absent" is the status of a missing record.
Statuses == {"absent", "created", "planning", "running", "in_progress",
             "awaiting_approval", "interrupted", "resumable", "resuming",
             "verifying", "completed", "failed", "cancelled", "abandoned"}

ActiveStatuses == {"created", "planning", "running", "in_progress",
                   "resuming", "verifying"}

TerminalStatuses == {"completed", "failed", "cancelled", "abandoned"}

ApprovalStatuses == {"not_required", "pending", "approved", "denied"}

VerificationStatuses == {"not_run", "passed", "failed"}

\* run.json
RunRecords == [status : Statuses, stage : Stages, pending : OptionalStage,
               verification : VerificationStatuses]

NoRun == [status |-> "absent", stage |-> "created", pending |-> NoStage,
          verification |-> "not_run"]

\* session.manifest.json: `checkpoint` is the stage of the checkpoint that
\* lastCheckpointId names, `head` the Git HEAD of workspace.lastSnapshot and
\* `approval` the pair approvalState.required/.status.
Manifests == [status : Statuses, stage : Stages, pending : OptionalStage,
              checkpoint : OptionalStage, approval : ApprovalStatuses,
              head : Heads]

NoManifest == [status |-> "absent", stage |-> "created", pending |-> NoStage,
               checkpoint |-> NoStage, approval |-> "not_required", head |-> 0]

\* The artifacts that some guard of the lifecycle reads.  Those whose content
\* no guard reads are only "present".
Artifacts == {"spec", "plan", "preview", "decision", "packet", "resolution",
              "result", "commands", "changed", "diff", "audit", "verification"}

Decisions == {"allow", "prompt", "forbid"}
Resolutions == {"approved", "denied"}
RunnerResults == {"completed", "failed", "blocked"}
AuditResults == {"clean", "breach"}
Verdicts == {"passed", "failed"}

FileValues == {"absent", "present"} \cup Decisions \cup Packets
                 \cup Resolutions \cup RunnerResults \cup AuditResults
                 \cup Verdicts

FileSets == [Artifacts -> FileValues]

NoFiles == [a \in Artifacts |-> "absent"]

Present(files) == {a \in Artifacts : files[a] # "absent"}

-----------------------------------------------------------------------------
(* inspection.ts *)

RunnerEvidence == {"result", "commands", "changed", "diff", "audit"}

HasRunnerEvidence(files) == RunnerEvidence \subseteq Present(files)

\* Mutant: a pending-step name where a stage belongs.
StageAfterCheckpointStep(stage) ==
    IF stage = "policy_evaluated" THEN "approval.requested" ELSE stage

\* The stage that follows a checkpoint taken at the end of `stage`.
StageAfterCheckpoint(stage) ==
    CASE stage = "spec_normalized"        -> "plan_created"
      [] stage = "plan_created"           -> "policy_evaluated"
      [] stage = "policy_evaluated"       -> "awaiting_approval"
      [] stage = "approval_resolved"      -> "runner_started"
      [] stage = "runner_completed"       -> "verification_started"
      [] stage = "verification_completed" -> NoStage
      [] OTHER                            -> stage

\* Mutant: an interrupted runner stage whose evidence files exist is taken as done.
DetermineNextStageTrustingFiles(r, m, files) ==
    IF "runner_started" \in {m.stage, r.stage}
    THEN IF HasRunnerEvidence(files) THEN "verification_started" ELSE "runner_started"
    ELSE IF m.pending # NoStage THEN m.pending
    ELSE IF m.checkpoint # NoStage THEN StageAfterCheckpoint(m.checkpoint)
    ELSE StageAfterCheckpoint(r.stage)

\* The stage from which the two records would have the run continue: the first
\* rule that applies.
DetermineNextStage(r, m, files) ==
    LET stages == {m.stage, r.stage}
    IN  IF "runner_started" \in stages
        THEN "runner_started"
        ELSE IF /\ "runner_completed" \in stages \/ m.pending = "verification_started"
                /\ ~HasRunnerEvidence(files)
        THEN NoStage
        ELSE IF m.pending = "runner_completed" /\ ~HasRunnerEvidence(files)
        THEN "runner_started"
        ELSE IF m.pending # NoStage
        THEN m.pending
        ELSE IF m.status = "awaiting_approval"
        THEN "awaiting_approval"
        ELSE IF m.checkpoint # NoStage
        THEN StageAfterCheckpoint(m.checkpoint)
        ELSE IF r.stage = "created"
        THEN "spec_normalized"
        ELSE StageAfterCheckpoint(r.stage)

\* Mutant: a paused run is asked for the resolution it is waiting for.
RequiredArtifactsWithResolution(stage, m) ==
    IF stage = "awaiting_approval"
    THEN {"spec", "plan", "decision", "packet", "resolution"} ELSE {}

\* Mutant: the packet is not required to ask for its approval.
RequiredArtifactsNoPacket(stage, m) ==
    CASE stage = "awaiting_approval" -> {"spec", "plan", "decision"}
      [] stage = "runner_started" -> {"spec", "plan", "decision"}
      [] OTHER -> {}

\* The artifacts that must be there before `stage` is entered.  run.json and
\* the manifest are always required, but inspection cannot begin without them.
\* runner-entry.snapshot is required only once it exists, so it is never missing.
RequiredArtifacts(stage, m) ==
    CASE stage = "plan_created"      -> {"spec"}
      [] stage = "policy_evaluated"  -> {"spec", "plan"}
      [] stage = "awaiting_approval" -> {"spec", "plan", "decision", "packet"}
      [] stage = "approval_resolved" -> {"decision"}
      [] stage = "runner_started"    ->
            {"spec", "plan", "decision"} \cup
                (IF m.approval = "not_required" THEN {} ELSE {"resolution"})
      [] stage \in {"runner_completed", "verification_started"} -> RunnerEvidence
      [] stage = "verification_completed" -> {"verification"}
      [] OTHER -> {}

\* Continuity: the workspace is where the manifest left it and every required
\* artifact is in the run directory.  A dirty working tree is only a warning.
ContinuityHolds(stage, m, onDisk, head) ==
    /\ m.head = head
    /\ RequiredArtifacts(stage, m) \subseteq onDisk

\* Mutant: the recorded approval is not looked at.
EligibleIgnoringApproval(r, m, files, onDisk, head) ==
    LET stage == DetermineNextStage(r, m, files)
    IN  /\ stage # NoStage
        /\ ContinuityHolds(stage, m, onDisk, head)
        /\ m.status \notin {"completed", "abandoned", "cancelled"}

\* Mutant: a terminal manifest does not rule a resume out.
EligibleWhenTerminal(r, m, files, onDisk, head) ==
    LET stage == DetermineNextStage(r, m, files)
    IN  /\ stage # NoStage
        /\ ContinuityHolds(stage, m, onDisk, head)
        /\ m.approval # "denied"

\* A "failed" manifest is not in the list of statuses that rule a resume out,
\* and every checkpoint the lifecycle takes is restartable or rerunnable.
Eligible(r, m, files, onDisk, head) ==
    LET stage == DetermineNextStage(r, m, files)
    IN  /\ stage # NoStage
        /\ ContinuityHolds(stage, m, onDisk, head)
        /\ m.status \notin {"completed", "abandoned", "cancelled"}
        /\ m.approval # "denied"
        /\ r.verification = "failed" => m.pending = "verification_started"

\* What inspection writes to both records as the status of the run.
InspectedStatus(r, m, eligible) ==
    IF m.status = "awaiting_approval" THEN "awaiting_approval"
    ELSE IF eligible /\ r.status \notin TerminalStatuses THEN "resumable"
    ELSE r.status

=============================================================================
