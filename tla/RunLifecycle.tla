--------------------------- MODULE RunLifecycle ---------------------------
(***************************************************************************)
(* The governed run lifecycle of the gdh command line                      *)
(* (apps/cli/src/services/run-lifecycle): `gdh run` creates a run and      *)
(* drives it through its stages, `gdh status` inspects it, `gdh resume`    *)
(* continues it and `gdh verify` repeats its verification.                 *)
(*                                                                         *)
(* Each command is a process of its own that keeps copies of the two       *)
(* records and of the artifacts in memory and writes whole files.  Every   *)
(* write that a later command can tell apart is one action, so the process *)
(* can be killed (Crash) between any two of them, and two commands can     *)
(* interleave between any two of them.                                     *)
(***************************************************************************)
EXTENDS RunState

CONSTANTS
    Procs,     \* the command-line processes that may be alive at a time
    Commands,  \* the commands that may be given after `gdh run`
    Crashes    \* whether a process may be killed

ASSUME CommandsAssumption == Commands \subseteq {"status", "resume", "verify"}
ASSUME CrashesAssumption == Crashes \in BOOLEAN

VARIABLES
    run,       \* run.json
    manifest,  \* session.manifest.json
    files,     \* the artifacts in the run directory
    head,      \* Git HEAD of the repository
    ctx,       \* ctx[p]: what process p has in memory, and where it is
    torn,      \* history: a process died since the records were last written together
    stale,     \* history: the evidence on disk that is older than the last launch
    answered   \* history: the packet content the human last answered

vars == <<run, manifest, files, head, ctx, torn, stale, answered>>

\* What the writes of a command leave alone, unless they say otherwise.
others == <<head, torn, stale, answered>>

-----------------------------------------------------------------------------
(* Processes. *)

\* The stages advanceLifecycle has a handler for.
HandledStages == {"spec_normalized", "plan_created", "policy_evaluated",
                  "awaiting_approval", "runner_started",
                  "verification_started"}

\* Where a process can be: at the entry of a stage handler, or before a write.
Locations ==
    HandledStages \cup
    {"idle", "create_manifest",
     "spec_run", "spec_manifest", "plan_run", "plan_manifest",
     "policy_running", "policy_run", "policy_manifest",
     "forbid_run", "forbid_manifest",
     "packet", "prompt_run", "prompt_manifest",
     "resolved", "deny_manifest", "approve_manifest",
     "pause_run", "pause_manifest",
     "runner_manifest", "launch", "executing", "evidence",
     "completed_manifest", "completed_run", "completed_snapshot",
     "relapse_run", "relapse_manifest",
     "verify_manifest", "verifying", "verdict_run", "verdict_manifest",
     "finalize", "blocked_snapshot", "final_run", "final_manifest",
     "load", "interrupt", "inspect", "inspect_manifest",
     "resume_run", "resume_manifest", "unsupported", "verify_load"}

Idle == [cmd |-> "none", pc |-> "idle", run |-> NoRun, manifest |-> NoManifest,
         mem |-> NoFiles, next |-> NoStage, eligible |-> FALSE,
         executed |-> FALSE, resumed |-> FALSE, written |-> 0]

\* The order in which the evidence of an execution is written.
EvidenceOrder == <<"commands", "result", "changed", "diff", "audit">>

Contexts == [cmd : {"none", "run", "status", "resume", "verify"}, pc : Locations,
             run : RunRecords, manifest : Manifests, mem : FileSets,
             next : OptionalStage, eligible : BOOLEAN, executed : BOOLEAN,
             resumed : BOOLEAN, written : 0 .. Len(EvidenceOrder)]

At(p, loc) == ctx[p].pc = loc

Fresh(p) == ctx[p].cmd = "run"

GoTo(p, loc) ==
    /\ ctx' = [ctx EXCEPT ![p].pc = loc]
    /\ UNCHANGED <<run, manifest, files>>

\* `old` with the artifacts of `new` in place of its own.
Overlay(new, old) ==
    [a \in Artifacts |-> IF a \in DOMAIN new THEN new[a] ELSE old[a]]

WriteRun(p, r, loc) ==
    /\ run' = r
    /\ ctx' = [ctx EXCEPT ![p].run = r, ![p].pc = loc]
    /\ UNCHANGED <<manifest, files>>

WriteManifest(p, m, loc) ==
    /\ manifest' = m
    /\ ctx' = [ctx EXCEPT ![p].manifest = m, ![p].pc = loc]
    /\ UNCHANGED <<run, files>>

WriteFiles(p, new, loc) ==
    /\ files' = Overlay(new, files)
    /\ ctx' = [ctx EXCEPT ![p].mem = Overlay(new, @), ![p].pc = loc]
    /\ UNCHANGED <<run, manifest>>

\* The record `rec` moved to another status and position.
Moved(rec, status, stage, pending) ==
    [rec EXCEPT !.status = status, !.stage = stage, !.pending = pending]

Checkpointed(m, stage) == [m EXCEPT !.checkpoint = stage]

\* The end of advanceLifecycle: `gdh run` finalizes the run, `gdh resume`
\* inspects it a second time.
AfterAdvance(p) == IF Fresh(p) THEN "finalize" ELSE "load"

-----------------------------------------------------------------------------
(* gdh run: createFreshRunContext. *)

CreateRun(p) ==
    /\ run = NoRun
    /\ LET r == Moved(NoRun, "created", "created", "spec_normalized")
           m == [Moved(NoManifest, "created", "created", "spec_normalized")
                     EXCEPT !.head = head]
       IN  /\ run' = r
           /\ ctx' = [ctx EXCEPT ![p] = [Idle EXCEPT !.cmd = "run", !.run = r,
                                         !.manifest = m, !.pc = "create_manifest"]]
    /\ UNCHANGED <<manifest, files, others>>

CreateManifest(p) ==
    /\ At(p, "create_manifest")
    /\ WriteManifest(p, ctx[p].manifest, "spec_normalized")
    /\ UNCHANGED others

-----------------------------------------------------------------------------
(* handleSpecNormalized and handlePlanCreated. *)

NormalizeSpec(p) ==
    /\ At(p, "spec_normalized")
    /\ WriteFiles(p, [spec |-> "present"],
                  IF Fresh(p) THEN "spec_run" ELSE "plan_created")
    /\ UNCHANGED others

SpecRun(p) ==
    /\ At(p, "spec_run")
    /\ WriteRun(p, Moved(ctx[p].run, "planning", "spec_normalized", "plan_created"),
                "spec_manifest")
    /\ UNCHANGED others

SpecManifest(p) ==
    /\ At(p, "spec_manifest")
    /\ LET m == ctx[p].manifest
       IN  WriteManifest(p, Checkpointed(
               Moved(m, m.status, "spec_normalized", "plan_created"),
               "spec_normalized"), "plan_created")
    /\ UNCHANGED others

\* Mutant: resumed, the handler returns its own stage and is entered again.
CreatePlanAgain(p) ==
    /\ At(p, "plan_created")
    /\ WriteFiles(p, [plan |-> "present"],
                  IF Fresh(p) THEN "plan_run" ELSE "plan_created")
    /\ UNCHANGED others

CreatePlan(p) ==
    /\ At(p, "plan_created")
    /\ WriteFiles(p, [plan |-> "present"],
                  IF Fresh(p) THEN "plan_run" ELSE "policy_evaluated")
    /\ UNCHANGED others

PlanRun(p) ==
    /\ At(p, "plan_run")
    /\ WriteRun(p, Moved(ctx[p].run, ctx[p].run.status, "plan_created",
                         "policy_evaluated"), "plan_manifest")
    /\ UNCHANGED others

PlanManifest(p) ==
    /\ At(p, "plan_manifest")
    /\ LET m == ctx[p].manifest
       IN  WriteManifest(p, Checkpointed(
               Moved(m, m.status, "plan_created", "policy_evaluated"),
               "plan_created"), "policy_evaluated")
    /\ UNCHANGED others

-----------------------------------------------------------------------------
(* handlePolicyEvaluated. *)

\* Where the handler goes on once the decision is recorded.
AfterPolicy(decision) ==
    CASE decision = "allow"  -> "runner_started"
      [] decision = "prompt" -> "packet"
      [] decision = "forbid" -> "forbid_run"

\* Mutant: every decision but forbid goes on to the runner.
PendingAfterPolicyRunner(decision) == "runner_started"

\* The pending stage of the checkpoint: only a prompt is told apart.
PendingAfterPolicy(decision) ==
    IF decision = "prompt" THEN "awaiting_approval" ELSE "runner_started"

\* The policy pack is read from disk by every command, so any decision is
\* possible at every evaluation.  The preview is written first, then the
\* decision.
EvaluatePolicy(p) ==
    /\ At(p, "policy_evaluated")
    /\ \E d \in Decisions :
          WriteFiles(p, [preview |-> "present", decision |-> d],
                     IF Fresh(p) THEN "policy_running" ELSE AfterPolicy(d))
    /\ UNCHANGED others

PolicyRunning(p) ==
    /\ At(p, "policy_running")
    /\ WriteRun(p, [ctx[p].run EXCEPT !.status = "running"], "policy_run")
    /\ UNCHANGED others

PolicyRun(p) ==
    /\ At(p, "policy_run")
    /\ WriteRun(p, Moved(ctx[p].run, ctx[p].run.status, "policy_evaluated",
                         PendingAfterPolicy(ctx[p].mem["decision"])),
                "policy_manifest")
    /\ UNCHANGED others

PolicyManifest(p) ==
    /\ At(p, "policy_manifest")
    /\ LET m == ctx[p].manifest
           d == ctx[p].mem["decision"]
       IN  WriteManifest(p, Checkpointed(
               Moved(m, m.status, "policy_evaluated", PendingAfterPolicy(d)),
               "policy_evaluated"), AfterPolicy(d))
    /\ UNCHANGED others

ForbidRun(p) ==
    /\ At(p, "forbid_run")
    /\ WriteRun(p, Moved(ctx[p].run, "failed", "policy_evaluated", NoStage),
                "forbid_manifest")
    /\ UNCHANGED others

\* A resume leaves the stage and the pending stage of the manifest as they are.
ForbidManifest(p) ==
    /\ At(p, "forbid_manifest")
    /\ WriteManifest(p, IF Fresh(p)
                        THEN Moved(ctx[p].manifest, "failed", "policy_evaluated", NoStage)
                        ELSE [ctx[p].manifest EXCEPT !.status = "failed"],
                     AfterAdvance(p))
    /\ UNCHANGED others

\* The id of a packet depends on the run, the spec and the pack's name only,
\* its content on the evaluation.
RequestApproval(p) ==
    /\ At(p, "packet")
    /\ \E k \in Packets :
          WriteFiles(p, [packet |-> k],
                     IF Fresh(p) THEN "prompt_run" ELSE "awaiting_approval")
    /\ UNCHANGED others

PromptRun(p) ==
    /\ At(p, "prompt_run")
    /\ WriteRun(p, Moved(ctx[p].run, "awaiting_approval", "awaiting_approval",
                         "awaiting_approval"), "prompt_manifest")
    /\ UNCHANGED others

PromptManifest(p) ==
    /\ At(p, "prompt_manifest")
    /\ WriteManifest(p, [Moved(ctx[p].manifest, "awaiting_approval",
                               "awaiting_approval", "awaiting_approval")
                             EXCEPT !.approval = "pending"], "awaiting_approval")
    /\ UNCHANGED others

-----------------------------------------------------------------------------
(* handleAwaitingApproval. *)

\* Mutant: the human is asked again although he has answered.
AskHumanAgain(p) ==
    /\ At(p, "awaiting_approval")
    /\ \E answer \in Resolutions :
          WriteFiles(p, [resolution |-> answer], "resolved")
    /\ answered' = ctx[p].mem["packet"]
    /\ UNCHANGED <<head, torn, stale>>

\* An approval resolver is there (interactive mode) and the human answers.
AskHuman(p) ==
    /\ At(p, "awaiting_approval")
    /\ ctx[p].mem["resolution"] = "absent"
    /\ \E answer \in Resolutions :
          WriteFiles(p, [resolution |-> answer], "resolved")
    /\ answered' = ctx[p].mem["packet"]
    /\ UNCHANGED <<head, torn, stale>>

\* No resolver: `gdh run` ends, `gdh resume` records that it still waits.
NobodyToAsk(p) ==
    /\ At(p, "awaiting_approval")
    /\ ctx[p].mem["resolution"] = "absent"
    /\ GoTo(p, IF Fresh(p) THEN "finalize" ELSE "pause_run")
    /\ UNCHANGED others

\* The resolution on disk is used as it is, whatever packet it answered.
ReuseResolution(p) ==
    /\ At(p, "awaiting_approval")
    /\ ctx[p].mem["resolution"] # "absent"
    /\ GoTo(p, "resolved")
    /\ UNCHANGED others

PauseRun(p) ==
    /\ At(p, "pause_run")
    /\ WriteRun(p, [ctx[p].run EXCEPT !.status = "awaiting_approval"],
                "pause_manifest")
    /\ UNCHANGED others

PauseManifest(p) ==
    /\ At(p, "pause_manifest")
    /\ WriteManifest(p, [ctx[p].manifest EXCEPT !.status = "awaiting_approval",
                                                !.approval = "pending"],
                     AfterAdvance(p))
    /\ UNCHANGED others

DenyRun(p) ==
    /\ At(p, "resolved")
    /\ ctx[p].mem["resolution"] # "approved"
    /\ WriteRun(p, Moved(ctx[p].run, "abandoned", "approval_resolved", NoStage),
                "deny_manifest")
    /\ UNCHANGED others

DenyManifest(p) ==
    /\ At(p, "deny_manifest")
    /\ LET m == [ctx[p].manifest EXCEPT !.approval = "denied"]
       IN  WriteManifest(p, IF Fresh(p)
                            THEN Moved(m, "abandoned", "approval_resolved", NoStage)
                            ELSE [m EXCEPT !.status = "abandoned"],
                         AfterAdvance(p))
    /\ UNCHANGED others

ApproveRun(p) ==
    /\ At(p, "resolved")
    /\ ctx[p].mem["resolution"] = "approved"
    /\ WriteRun(p, Moved(ctx[p].run, "in_progress", "approval_resolved",
                         "runner_started"), "approve_manifest")
    /\ UNCHANGED others

ApproveManifest(p) ==
    /\ At(p, "approve_manifest")
    /\ WriteManifest(p, [Checkpointed(
           Moved(ctx[p].manifest, "in_progress", "approval_resolved", "runner_started"),
           "approval_resolved") EXCEPT !.approval = "approved"], "runner_started")
    /\ UNCHANGED others

-----------------------------------------------------------------------------
(* handleRunnerStarted. *)

RunnerRun(p) ==
    /\ At(p, "runner_started")
    /\ LET r == Moved(ctx[p].run, "in_progress", "runner_started", "runner_completed")
       IN  /\ run' = r
           /\ ctx' = [ctx EXCEPT ![p].run = r, ![p].executed = TRUE,
                                 ![p].pc = "runner_manifest"]
    /\ UNCHANGED <<manifest, files, others>>

RunnerManifest(p) ==
    /\ At(p, "runner_manifest")
    /\ WriteManifest(p, Moved(ctx[p].manifest, "in_progress", "runner_started",
                              "runner_completed"), "launch")
    /\ UNCHANGED others

LaunchRunner(p) ==
    /\ At(p, "launch")
    /\ GoTo(p, "executing")
    /\ stale' = RunnerEvidence \cap Present(files)
    /\ UNCHANGED <<head, torn, answered>>

\* runner.execute returns, or throws, which becomes a failed result.
RunnerReturns(p) ==
    /\ At(p, "executing")
    /\ \E result \in RunnerResults :
          ctx' = [ctx EXCEPT ![p].mem["result"] = result, ![p].written = 0,
                             ![p].pc = "evidence"]
    /\ UNCHANGED <<run, manifest, files, others>>

\* Where the evidence of an execution, or of a run stopped before it, leads.
AfterEvidence(p) ==
    IF Fresh(p)
    THEN IF ctx[p].executed THEN "completed_manifest" ELSE "blocked_snapshot"
    ELSE IF ctx[p].mem["result"] = "completed"
         THEN "verification_started" ELSE "relapse_run"

\* The next artifact of EvidenceOrder: also the synthetic evidence of
\* finalizeFreshRun, whose result is "blocked".
PersistEvidence(p) ==
    /\ At(p, "evidence")
    /\ LET n    == ctx[p].written + 1
           kind == EvidenceOrder[n]
           loc  == IF n = Len(EvidenceOrder) THEN AfterEvidence(p) ELSE "evidence"
       IN  \E value \in (CASE kind = "result" -> {ctx[p].mem["result"]}
                           [] kind = "audit"  -> AuditResults
                           [] OTHER           -> {"present"}) :
              /\ files' = [files EXCEPT ![kind] = value]
              /\ ctx' = [ctx EXCEPT ![p].mem[kind] = value, ![p].written = n,
                                    ![p].pc = loc]
              /\ stale' = stale \ {kind}
    /\ UNCHANGED <<run, manifest, head, torn, answered>>

\* A fresh run: the manifest is written before run.json.
ExecutionStatus(p) ==
    IF ctx[p].mem["result"] = "completed" THEN "verifying" ELSE "interrupted"

ExecutionPending(p) ==
    IF ctx[p].mem["result"] = "completed"
    THEN "verification_started" ELSE "runner_started"

CompletedManifest(p) ==
    /\ At(p, "completed_manifest")
    /\ WriteManifest(p, Checkpointed(
           Moved(ctx[p].manifest, ExecutionStatus(p), "runner_completed",
                 ExecutionPending(p)), "runner_completed"), "completed_run")
    /\ UNCHANGED others

CompletedRun(p) ==
    /\ At(p, "completed_run")
    /\ WriteRun(p, Moved(ctx[p].run, ExecutionStatus(p), "runner_completed",
                         ExecutionPending(p)), "completed_snapshot")
    /\ UNCHANGED others

CompletedSnapshot(p) ==
    /\ At(p, "completed_snapshot")
    /\ WriteManifest(p, [ctx[p].manifest EXCEPT !.head = head],
                     IF ctx[p].mem["result"] = "completed"
                     THEN "verification_started" ELSE "finalize")
    /\ UNCHANGED others

\* A resume whose runner did not complete.
RelapseRun(p) ==
    /\ At(p, "relapse_run")
    /\ WriteRun(p, Moved(ctx[p].run, "interrupted", "runner_started",
                         "runner_started"), "relapse_manifest")
    /\ UNCHANGED others

RelapseManifest(p) ==
    /\ At(p, "relapse_manifest")
    /\ WriteManifest(p, Moved(ctx[p].manifest, "interrupted", "runner_started",
                              "runner_started"), "load")
    /\ UNCHANGED others

-----------------------------------------------------------------------------
(* completeVerificationTransition, and rerunVerificationForExistingRun. *)

VerificationRun(p) ==
    /\ At(p, "verification_started")
    /\ WriteRun(p, IF ctx[p].cmd = "verify"
                   THEN [ctx[p].run EXCEPT !.status = "verifying"]
                   ELSE Moved(ctx[p].run, "verifying", "verification_started",
                              "verification_completed"),
                IF Fresh(p) THEN "verify_manifest" ELSE "verifying")
    /\ UNCHANGED others

VerificationManifest(p) ==
    /\ At(p, "verify_manifest")
    /\ WriteManifest(p, Moved(ctx[p].manifest, "verifying", "verification_started",
                              "verification_completed"), "verifying")
    /\ UNCHANGED others

\* Mutant: the audit is not part of the policy check.
PolicyCompliantNoAudit(mem) ==
    mem["decision"] = "prompt" => mem["resolution"] = "approved"

\* The policy.compliance check.
PolicyCompliant(mem) ==
    /\ mem["decision"] = "prompt" => mem["resolution"] = "approved"
    /\ mem["audit"] # "breach"

\* The artifacts.completeness check.
ExpectedArtifacts(mem) ==
    {"spec", "plan", "preview", "decision"} \cup RunnerEvidence
        \cup (IF mem["decision"] = "prompt" THEN {"packet"} ELSE {})
        \cup (IF mem["resolution"] # "absent" THEN {"resolution"} ELSE {})

\* The verification commands, the diff, the claims and the packet pass or not;
\* the checks about the run's own records are computed.
RunVerification(p) ==
    /\ At(p, "verifying")
    /\ \E checksPass \in BOOLEAN :
          LET passed == /\ checksPass
                        /\ PolicyCompliant(ctx[p].mem)
                        /\ ExpectedArtifacts(ctx[p].mem) \subseteq Present(files)
          IN  WriteFiles(p, [verification |-> IF passed THEN "passed" ELSE "failed"],
                         "verdict_run")
    /\ UNCHANGED others

\* The final status decideRunCompletion gives.
FinalStatus(p) ==
    IF ctx[p].mem["verification"] = "passed" THEN "completed" ELSE "failed"

VerdictRun(p) ==
    /\ At(p, "verdict_run")
    /\ WriteRun(p, [Moved(ctx[p].run, FinalStatus(p), "verification_completed", NoStage)
                        EXCEPT !.verification = ctx[p].mem["verification"]],
                "verdict_manifest")
    /\ UNCHANGED others

\* Only a fresh run takes a checkpoint.  `gdh verify` ends here.
VerdictManifest(p) ==
    /\ At(p, "verdict_manifest")
    /\ LET m == Moved(ctx[p].manifest, FinalStatus(p), "verification_completed", NoStage)
       IN  IF ctx[p].cmd = "verify"
           THEN /\ manifest' = m
                /\ ctx' = [ctx EXCEPT ![p] = Idle]
                /\ torn' = FALSE
                /\ UNCHANGED <<run, files>>
           ELSE /\ WriteManifest(p, IF Fresh(p)
                                    THEN Checkpointed(m, "verification_completed")
                                    ELSE m, AfterAdvance(p))
                /\ UNCHANGED torn
    /\ UNCHANGED <<head, stale, answered>>

-----------------------------------------------------------------------------
(* finalizeFreshRun. *)

Finalize(p) ==
    /\ At(p, "finalize")
    /\ ctx' = IF ctx[p].executed
              THEN [ctx EXCEPT ![p].pc = "final_run"]
              ELSE [ctx EXCEPT ![p].mem["result"] = "blocked", ![p].written = 0,
                               ![p].pc = "evidence"]
    /\ UNCHANGED <<run, manifest, files, others>>

BlockedSnapshot(p) ==
    /\ At(p, "blocked_snapshot")
    /\ WriteManifest(p, [ctx[p].manifest EXCEPT !.head = head], "final_run")
    /\ UNCHANGED others

FinalRun(p) ==
    /\ At(p, "final_run")
    /\ WriteRun(p, ctx[p].run, "final_manifest")
    /\ UNCHANGED others

FinalManifest(p) ==
    /\ At(p, "final_manifest")
    /\ manifest' = [ctx[p].manifest EXCEPT !.status = ctx[p].run.status]
    /\ ctx' = [ctx EXCEPT ![p] = Idle]
    /\ UNCHANGED <<run, files, others>>

-----------------------------------------------------------------------------
(* gdh status and gdh resume: prepareRunInspection. *)

Invoke(p, cmd) ==
    /\ At(p, "idle")
    /\ run # NoRun
    /\ ctx' = [ctx EXCEPT ![p] = [Idle EXCEPT !.cmd = cmd,
                  !.pc = IF cmd = "verify" THEN "verify_load" ELSE "load"]]
    /\ UNCHANGED <<run, manifest, files, others>>

\* loadDurableRunState throws when the manifest is missing.
Load(p) ==
    /\ At(p, "load")
    /\ IF manifest = NoManifest
       THEN ctx' = [ctx EXCEPT ![p] = Idle]
       ELSE ctx' = [ctx EXCEPT
                ![p].run = run, ![p].manifest = manifest, ![p].mem = files,
                ![p].pc = IF manifest.status \in ActiveStatuses
                          THEN "interrupt" ELSE "inspect"]
    /\ UNCHANGED <<run, manifest, files, others>>

\* An active status is taken to mean that the process which wrote it is gone.
\* Only run.json is written; the manifest changes in memory.
Interrupt(p) ==
    /\ At(p, "interrupt")
    /\ LET r    == ctx[p].run
           m    == ctx[p].manifest
           next == DetermineNextStage(r, m, ctx[p].mem)
           r2   == Moved(r, "interrupted", r.stage,
                         IF next = NoStage THEN r.stage ELSE next)
       IN  /\ run' = r2
           /\ ctx' = [ctx EXCEPT
                  ![p].run = r2,
                  ![p].manifest = Moved(m, "interrupted", r.stage,
                                        IF next = NoStage THEN m.stage ELSE next),
                  ![p].pc = "inspect"]
    /\ UNCHANGED <<manifest, files, others>>

Inspect(p) ==
    /\ At(p, "inspect")
    /\ LET r  == ctx[p].run
           m  == ctx[p].manifest
           ok == Eligible(r, m, ctx[p].mem, Present(files), head)
           r2 == Moved(r, InspectedStatus(r, m, ok), r.stage,
                       DetermineNextStage(r, m, ctx[p].mem))
       IN  /\ run' = r2
           /\ ctx' = [ctx EXCEPT ![p].run = r2, ![p].eligible = ok,
                                 ![p].next = r2.pending,
                                 ![p].pc = "inspect_manifest"]
    /\ UNCHANGED <<manifest, files, others>>

\* Mutant: the manifest keeps the stages it had.
InspectManifestStatusOnly(p) ==
    /\ At(p, "inspect_manifest")
    /\ LET c == ctx[p]
           m == [c.manifest EXCEPT !.status = c.run.status]
       IN  /\ manifest' = m
           /\ ctx' = IF c.cmd = "resume" /\ ~c.resumed /\ c.eligible
                     THEN [ctx EXCEPT ![p].manifest = m, ![p].pc = "resume_run"]
                     ELSE [ctx EXCEPT ![p] = Idle]
    /\ torn' = FALSE
    /\ UNCHANGED <<run, files, head, stale, answered>>

\* A resume goes on only if this was its first inspection and found it eligible.
InspectManifest(p) ==
    /\ At(p, "inspect_manifest")
    /\ LET c == ctx[p]
           m == Moved(c.manifest, c.run.status, c.run.stage, c.next)
       IN  /\ manifest' = m
           /\ ctx' = IF c.cmd = "resume" /\ ~c.resumed /\ c.eligible
                     THEN [ctx EXCEPT ![p].manifest = m, ![p].pc = "resume_run"]
                     ELSE [ctx EXCEPT ![p] = Idle]
    /\ torn' = FALSE
    /\ UNCHANGED <<run, files, head, stale, answered>>

ResumeRun(p) ==
    /\ At(p, "resume_run")
    /\ WriteRun(p, Moved(ctx[p].run, "resuming", ctx[p].next, ctx[p].next),
                "resume_manifest")
    /\ UNCHANGED others

ResumeManifest(p) ==
    /\ At(p, "resume_manifest")
    /\ LET next == ctx[p].next
           m    == Moved(ctx[p].manifest, "resuming", next, next)
       IN  /\ manifest' = m
           /\ ctx' = [ctx EXCEPT ![p].manifest = m, ![p].resumed = TRUE,
                  ![p].pc = IF next \in HandledStages THEN next ELSE "unsupported"]
    /\ UNCHANGED <<run, files, others>>

\* advanceLifecycle throws: "Lifecycle stage ... is not implemented safely yet."
Unsupported(p) ==
    /\ At(p, "unsupported")
    /\ ctx' = [ctx EXCEPT ![p] = Idle]
    /\ UNCHANGED <<run, manifest, files, others>>

-----------------------------------------------------------------------------
(* gdh verify: loadRunContext throws when an artifact it needs is missing. *)

VerifyLoad(p) ==
    /\ At(p, "verify_load")
    /\ IF {"spec", "plan", "result", "changed", "decision", "commands", "diff"}
             \subseteq Present(files)
       THEN ctx' = [ctx EXCEPT
                ![p].run = run, ![p].manifest = manifest, ![p].mem = files,
                ![p].pc = "verification_started"]
       ELSE ctx' = [ctx EXCEPT ![p] = Idle]
    /\ UNCHANGED <<run, manifest, files, others>>

-----------------------------------------------------------------------------
(* The environment. *)

\* The process is killed, or an error it does not handle ends it.
Crash(p) ==
    /\ Crashes
    /\ ctx[p].cmd # "none"
    /\ ctx' = [ctx EXCEPT ![p] = Idle]
    /\ torn' = TRUE
    /\ UNCHANGED <<run, manifest, files, head, stale, answered>>

\* Someone, perhaps the runner, commits or checks out in the repository.
HeadMoves ==
    /\ head < MaxHead
    /\ head' = head + 1
    /\ UNCHANGED <<run, manifest, files, ctx, torn, stale, answered>>

-----------------------------------------------------------------------------

Init ==
    /\ run = NoRun
    /\ manifest = NoManifest
    /\ files = NoFiles
    /\ head = 0
    /\ ctx = [p \in Procs |-> Idle]
    /\ torn = FALSE
    /\ stale = {}
    /\ answered = "absent"

\* Steps that wait for nobody.
OwnStep(p) ==
    \/ CreateManifest(p)
    \/ NormalizeSpec(p) \/ SpecRun(p) \/ SpecManifest(p)
    \/ CreatePlan(p) \/ PlanRun(p) \/ PlanManifest(p)
    \/ EvaluatePolicy(p) \/ PolicyRunning(p) \/ PolicyRun(p) \/ PolicyManifest(p)
    \/ ForbidRun(p) \/ ForbidManifest(p)
    \/ RequestApproval(p) \/ PromptRun(p) \/ PromptManifest(p)
    \/ ReuseResolution(p) \/ PauseRun(p) \/ PauseManifest(p)
    \/ DenyRun(p) \/ DenyManifest(p) \/ ApproveRun(p) \/ ApproveManifest(p)
    \/ RunnerRun(p) \/ RunnerManifest(p) \/ LaunchRunner(p) \/ PersistEvidence(p)
    \/ CompletedManifest(p) \/ CompletedRun(p) \/ CompletedSnapshot(p)
    \/ RelapseRun(p) \/ RelapseManifest(p)
    \/ VerificationRun(p) \/ VerificationManifest(p)
    \/ VerdictRun(p) \/ VerdictManifest(p)
    \/ Finalize(p) \/ BlockedSnapshot(p) \/ FinalRun(p) \/ FinalManifest(p)
    \/ Load(p) \/ Interrupt(p) \/ Inspect(p) \/ InspectManifest(p)
    \/ ResumeRun(p) \/ ResumeManifest(p) \/ Unsupported(p)
    \/ VerifyLoad(p)

\* Steps that wait for the human, the runner or the verification commands.
AwaitedStep(p) ==
    \/ AskHuman(p) \/ NobodyToAsk(p)
    \/ RunnerReturns(p)
    \/ RunVerification(p)

Next ==
    \/ \E p \in Procs :
          \/ CreateRun(p)
          \/ \E cmd \in Commands : Invoke(p, cmd)
          \/ OwnStep(p)
          \/ AwaitedStep(p)
          \/ Crash(p)
    \/ HeadMoves

Spec == Init /\ [][Next]_vars

\* A process that is alive is scheduled; nothing bounds how long the human, the
\* runner or a verification command takes.
FairSpec == Spec /\ \A p \in Procs : WF_vars(OwnStep(p))

=============================================================================
