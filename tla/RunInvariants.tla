--------------------------- MODULE RunInvariants ---------------------------
(***************************************************************************)
(* The inductive invariants behind the theorems about the run lifecycle.   *)
(***************************************************************************)
EXTENDS RunProperties

PacketValues == Packets \cup {"absent"}

\* What a process has in memory where the type of its context does not tell.
Typed(c) ==
    /\ c.mem["packet"] \in PacketValues
    /\ c.pc = "evidence" => c.written < Len(EvidenceOrder)
    /\ c.pc \in {"policy_running", "policy_run", "policy_manifest"}
           => c.mem["decision"] \in Decisions
    /\ c.pc = "verdict_run" => c.mem["verification"] \in Verdicts
    /\ c.pc = "inspect_manifest" /\ c.eligible => c.next # NoStage
    /\ c.pc \in {"resume_run", "resume_manifest"} => c.next # NoStage

\* The variables keep their types because the values a handler is about to use
\* as a stage, a decision or a verdict are ones.
TypeInv ==
    /\ TypeOK
    /\ files["packet"] \in PacketValues
    /\ \A p \in Procs : Typed(ctx[p])

-----------------------------------------------------------------------------
(* The approval of a prompt, for one process at a time. *)

\* No prompt is unanswered in these artifacts, and none was denied.
Approved(f) == f["decision"] = "prompt" => f["resolution"] = "approved"

BeforePolicy == {"spec_normalized", "plan_created", "policy_evaluated"}
Running == {"runner_started", "runner_completed"}
AfterApproval == {"approval_resolved", "runner_started"}

\* These two records do not lead a resume to the runner.
Early(r, m) ==
    /\ r.stage \notin Running
    /\ m.stage \notin Running
    /\ m.pending \notin Running
    /\ m.checkpoint \notin AfterApproval
    /\ r.stage = "approval_resolved" /\ m.checkpoint = NoStage
           => m.pending \in BeforePolicy \cup {"awaiting_approval", "approval_resolved"}

\* Records that would have the policy evaluated again name no checkpoint that is
\* only taken after the approval.
Coherent(r, m) ==
    {r.stage, m.stage, m.pending} \cap BeforePolicy # {}
        => m.checkpoint \notin AfterApproval

\* Both, for records that stand beside the artifacts `f`.
Gated(r, m, f) == Coherent(r, m) /\ (Approved(f) \/ Early(r, m))

\* The places where the policy is still to be evaluated.
EarlyLocs == BeforePolicy \cup
    {"create_manifest", "spec_run", "spec_manifest", "plan_run", "plan_manifest",
     "policy_running", "policy_run", "policy_manifest"}

ApprovalLocs == {"packet", "prompt_run", "prompt_manifest", "awaiting_approval",
                 "resolved", "deny_manifest"}

\* The places that write a stage from which the runner is entered.
RunnerLocs == {"approve_manifest", "runner_started", "runner_manifest", "launch",
               "executing", "completed_manifest", "completed_run",
               "completed_snapshot", "relapse_run", "relapse_manifest"}

\* The places where the records and artifacts in memory are not those on disk.
UnloadedLocs == {"idle", "load", "verify_load"}
DetachedLocs == {"create_manifest", "inspect", "inspect_manifest"}

\* What inspection is about to write to the manifest.
InspectedManifest(c) == Moved(c.manifest, c.run.status, c.run.stage, c.next)

\* A process with the context `c` works on what is on disk: `r`, `m` and `f`.
InStep(c, r, m, f) ==
    c.pc \notin UnloadedLocs =>
        /\ c.run = r
        /\ c.mem["decision"] = f["decision"]
        /\ c.mem["resolution"] = f["resolution"]
        /\ c.pc \notin DetachedLocs => c.manifest = m

\* What each place of a handler may rely on.
InPlace(c, r, m, f) ==
    /\ c.pc \in EarlyLocs => Early(r, m)
    /\ c.pc = "create_manifest" =>
           /\ c.manifest.stage = "created" /\ c.manifest.pending = "spec_normalized"
           /\ c.manifest.checkpoint = NoStage
           /\ r.stage = "created"
    /\ c.pc = "inspect" => Gated(r, c.manifest, f)
    /\ c.pc = "inspect_manifest" => Gated(r, InspectedManifest(c), f)
    /\ c.pc \in {"resume_run", "resume_manifest"} =>
           c.cmd = "resume" /\ m.pending = c.next
    /\ c.pc = "resume_manifest" => r.stage = c.next
    /\ c.pc \in BeforePolicy /\ c.cmd # "run" => m.pending \in BeforePolicy
    /\ c.pc \in ApprovalLocs =>
           IF c.cmd = "run" THEN m.checkpoint = "policy_evaluated"
           ELSE m.pending \in BeforePolicy \cup {"awaiting_approval"}
    /\ c.pc \in {"forbid_run", "forbid_manifest"} => m.checkpoint \notin AfterApproval
    /\ c.pc = "forbid_manifest" => r.stage = "policy_evaluated"
    /\ c.pc = "approve_manifest" => r.stage = "approval_resolved"
    /\ c.pc = "verify_manifest" => r.stage = "verification_started"
    /\ c.pc \in {"completed_manifest", "completed_run", "completed_snapshot",
                 "finalize"} => c.cmd = "run"
    /\ c.pc = "verdict_manifest" => r.stage = "verification_completed"
    /\ c.pc \in RunnerLocs => Approved(f)
    /\ c.pc = "evidence" /\ (c.executed \/ c.cmd # "run") => Approved(f)

\* Before `gdh run` there is nothing.
Unborn ==
    run.status = "absent" =>
        /\ run = NoRun /\ manifest = NoManifest /\ files = NoFiles
        /\ \A p \in Procs : ctx[p] = Idle

\* No prompt leads to the runner unapproved: neither what is on disk, for the
\* next resume to read, nor what a process is about to do.
ApprovalInv ==
    /\ Unborn
    /\ Gated(run, manifest, files)
    /\ \A p \in Procs : /\ InStep(ctx[p], run, manifest, files)
                        /\ InPlace(ctx[p], run, manifest, files)

\* One command is given at a time.
OneCommand == \A p, q \in Procs : p = q

-----------------------------------------------------------------------------
(* What the verdicts, the denials and the agreement of the records rest on,  *)
(* for one process at a time.                                                *)

InspectionLocs == {"load", "interrupt", "inspect", "inspect_manifest",
                   "resume_run", "resume_manifest"}

JudgeLocs == {"verification_started", "verify_manifest", "verifying",
              "verdict_run", "verdict_manifest"}

FinalLocs == {"finalize", "blocked_snapshot", "final_run", "final_manifest"}

\* Which commands are where, and where the runner has been launched.
Placed(c) ==
    /\ c.cmd = "none" => c.pc = "idle"
    /\ c.cmd = "run" => c.pc \notin InspectionLocs \cup
           {"idle", "verify_load", "unsupported", "relapse_run", "relapse_manifest",
            "pause_run", "pause_manifest"}
    /\ c.cmd = "status" => c.pc \in InspectionLocs /\ c.resumed = FALSE
    /\ c.cmd = "resume" =>
           /\ c.pc \in InspectionLocs \/ c.resumed = TRUE
           /\ c.pc \notin {"idle", "verify_load", "verify_manifest", "create_manifest"}
                             \cup FinalLocs
    /\ c.cmd = "verify" => c.pc \in {"verify_load"} \cup (JudgeLocs \ {"verify_manifest"})
    /\ c.pc = "create_manifest" =>
           c.manifest.status = "created" /\ c.manifest.approval = "not_required"
    /\ c.pc \in {"runner_manifest", "launch", "executing", "completed_manifest",
                 "completed_run", "completed_snapshot"} => c.executed
    /\ c.cmd = "run" /\ c.pc \in JudgeLocs => c.executed
    /\ c.cmd = "resume" /\ c.pc = "evidence" => c.executed

\* The artifacts in memory are those on disk, but for the result of an execution
\* that is being recorded.
Held(c, f) ==
    c.pc \notin UnloadedLocs =>
        /\ \A a \in Artifacts \ {"result"} : c.mem[a] = f[a]
        /\ c.pc # "evidence" \/ c.written >= 2 => c.mem["result"] = f["result"]
        /\ c.pc = "evidence" =>
               /\ c.mem["result"] # "absent"
               /\ \A i \in 1 .. c.written : f[EvidenceOrder[i]] # "absent"

\* The artifacts are written in the order of the stages.
Ordered(f) ==
    /\ f["decision"] # "absent" => {"spec", "plan", "preview"} \subseteq Present(f)
    /\ RunnerEvidence \cap Present(f) # {} => f["decision"] # "absent"
    /\ f["audit"] \in AuditResults \cup {"absent"}

\* The places behind a recorded decision.
DecidedLocs ==
    {"policy_running", "policy_run", "policy_manifest", "forbid_run", "forbid_manifest",
     "pause_run", "pause_manifest", "evidence"}
        \cup ApprovalLocs \cup RunnerLocs \cup JudgeLocs \cup FinalLocs

\* The places behind a recorded execution.
ExecutedLocs == {"completed_manifest", "completed_run", "completed_snapshot",
                 "relapse_run", "relapse_manifest"}

\* A resume that was found eligible.
Admitted(c) ==
    \/ c.pc = "inspect_manifest" /\ c.eligible
    \/ c.pc \in {"resume_run", "resume_manifest"}

\* What a place can count on among the artifacts.
Supplied(c, f) ==
    /\ c.pc \in {"spec_run", "spec_manifest", "plan_created"} => "spec" \in Present(f)
    /\ c.pc \in {"plan_run", "plan_manifest", "policy_evaluated"}
           => {"spec", "plan"} \subseteq Present(f)
    /\ c.pc \in DecidedLocs => "decision" \in Present(f)
    /\ c.pc \in {"prompt_run", "prompt_manifest", "awaiting_approval"}
           => "packet" \in Present(f)
    /\ c.pc \in ExecutedLocs => HasRunnerEvidence(f)
    /\ c.pc \in JudgeLocs /\ c.cmd # "verify" => HasRunnerEvidence(f)
    /\ Admitted(c) => RequiredArtifacts(c.next, c.manifest) \subseteq Present(f)

SupplyInv ==
    /\ Ordered(files)
    /\ \A p \in Procs : Placed(ctx[p]) /\ Held(ctx[p], files) /\ Supplied(ctx[p], files)

\* A run that has ended in both records' sense.
ClosedStatuses == {"completed", "abandoned"}

\* The places of a handler at work: run.json does not call the run closed.
WorkLocs ==
    {"packet", "prompt_run", "prompt_manifest", "awaiting_approval", "resolved",
     "pause_run", "pause_manifest", "forbid_run", "forbid_manifest", "resume_manifest",
     "verify_manifest", "verifying", "verdict_run"} \cup EarlyLocs \cup RunnerLocs

AtWork(c) ==
    \/ c.pc \in WorkLocs
    \/ c.pc = "verification_started" /\ c.cmd # "verify"
    \/ c.pc = "evidence" /\ c.executed

\* Why a completed run.json stands beside a passed verdict.
Judged(c, r, f) ==
    /\ AtWork(c) => r.status \notin ClosedStatuses
    /\ c.pc \in {"finalize", "evidence"} /\ ~c.executed => r.status # "completed"
    /\ c.pc = "deny_manifest" => r.status = "abandoned"
    /\ c.pc = "verdict_run" /\ f["verification"] = "passed"
           => f["audit"] = "clean" /\ Approved(f)

JudgedInv == CompletedIsVerified /\ \A p \in Procs : Judged(ctx[p], run, files)

\* The places from which the runner may still be entered.
OpenLocs ==
    EarlyLocs \cup (ApprovalLocs \ {"deny_manifest"}) \cup
    {"approve_manifest", "runner_started", "runner_manifest", "launch", "executing"}

\* A denial stays in the manifest and lets no command near the runner.
Undenied(c, m) ==
    /\ c.pc \in {"inspect", "inspect_manifest"} => c.manifest.approval = m.approval
    /\ Admitted(c) \/ c.pc \in OpenLocs => m.approval # "denied"

DenialInv == \A p \in Procs : Undenied(ctx[p], manifest)

\* A command that has not touched the records.
Untouched(c) == c.pc \in {"idle", "verify_load"} \/ (c.pc = "load" /\ ~c.resumed)

\* A fresh run that waits, or comes to its end.
Ending(c) ==
    \/ c.pc \in FinalLocs \cup {"completed_snapshot"}
    \/ c.pc = "awaiting_approval" /\ c.cmd = "run"
    \/ c.pc = "evidence" /\ ~c.executed

\* The two records are at the same place, and say the same of it.
SamePlace(r, m) == r.stage = m.stage /\ r.pending = m.pending
Same(r, m) == r.status = m.status /\ SamePlace(r, m)

\* The record `r` is in `stage` and waits for `pending`.
Stands(r, stage, pending) == r.stage = stage /\ r.pending = pending

\* Which record has already what its other half is about to get.
Agreeing(c, r, m, f, t) ==
    /\ Untouched(c) => t \/ Same(r, m)
    /\ ~Untouched(c) /\ c.pc # "create_manifest" => m.status # "absent"
    /\ Ending(c) => SamePlace(r, m)
    /\ c.pc = "inspect_manifest" => c.next = r.pending
    /\ c.pc = "resume_manifest" => r.status = "resuming" /\ Stands(r, c.next, c.next)
    /\ c.pc = "unsupported" => Same(r, m)
    /\ c.pc = "forbid_manifest" => Stands(r, "policy_evaluated", NoStage)
    /\ c.pc = "prompt_manifest" => Stands(r, "awaiting_approval", "awaiting_approval")
    /\ c.pc = "deny_manifest" => Stands(r, "approval_resolved", NoStage)
    /\ c.pc = "completed_run" =>
           Stands(m, "runner_completed", IF f["result"] = "completed"
                                          THEN "verification_started" ELSE "runner_started")
    /\ c.pc = "verdict_manifest" =>
           /\ Stands(r, "verification_completed", NoStage)
           /\ r.status = IF f["verification"] = "passed" THEN "completed" ELSE "failed"

AgreementInv ==
    /\ manifest.status = "absent" => manifest = NoManifest
    /\ files["spec"] # "absent" => manifest.status # "absent"
    /\ \A p \in Procs : Agreeing(ctx[p], run, manifest, files, torn)

-----------------------------------------------------------------------------
(* The same without `gdh verify`: runs that are closed, and the evidence of    *)
(* one execution.                                                            *)

\* A manifest that an inspection will not take for the end of the run.
Unfinished(m) == m.status \in ActiveStatuses \cup {"awaiting_approval"}

Handling(c, f) ==
    \/ c.pc \in (EarlyLocs \ {"create_manifest"}) \cup ApprovalLocs \cup JudgeLocs \cup
           {"approve_manifest", "runner_started", "runner_manifest", "launch", "executing"}
    \/ c.pc \in {"completed_run", "completed_snapshot"} /\ f["result"] = "completed"
    \/ c.pc = "evidence" /\ c.executed

\* How the manifest of an unfinished run looks at each place.
Going(c, r, m, f) ==
    /\ Handling(c, f) => Unfinished(m)
    /\ c.pc = "interrupt" => m.status \in ActiveStatuses
    /\ c.pc = "inspect" =>
           IF m.status \in ActiveStatuses THEN r.status \notin ClosedStatuses
           ELSE c.manifest = m
    /\ Admitted(c) => r.status \notin ClosedStatuses

OpenInv ==
    /\ run.status \in ClosedStatuses => manifest.status = run.status \/ Unfinished(manifest)
    /\ \A p \in Procs : Going(ctx[p], run, manifest, files)

\* Evidence of an earlier execution is left only while the records are in the
\* stage that repeats it.
Repeating(c, r, m, s) ==
    s # {} =>
        /\ r.stage = "runner_started"
        /\ m.stage = "runner_started"
        /\ \/ c.pc \in {"idle", "load", "interrupt"}
           \/ c.pc \in {"runner_started", "runner_manifest", "launch", "executing", "evidence"}
           \/ c.pc = "inspect" /\ c.manifest.stage = "runner_started"
           \/ c.pc \in {"inspect_manifest", "resume_run", "resume_manifest"}
              /\ c.next = "runner_started"
        /\ c.pc = "evidence" =>
               c.executed /\ \A i \in 1 .. c.written : EvidenceOrder[i] \notin s

\* The runner is launched from records that are in its stage.
Launching(c, r, m) ==
    /\ c.pc \in {"runner_manifest", "launch"} => r.stage = "runner_started"
    /\ c.pc = "launch" => m.stage = "runner_started"

StaleInv ==
    \A p \in Procs : /\ Repeating(ctx[p], run, manifest, stale)
                     /\ Launching(ctx[p], run, manifest)

-----------------------------------------------------------------------------
(* What the promise of GovernedRun rests on besides. *)

AskLocs == ApprovalLocs \cup {"pause_run", "pause_manifest"}

\* The records `r` and `m` lead to the approval only of a decision to prompt.  The
\* policy is evaluated once more only where it has left no checkpoint.
Asking(r, m, f) ==
    IF m.checkpoint = "policy_evaluated"
    THEN /\ m.pending \notin BeforePolicy
         /\ "packet" \in Present(f) => f["decision"] = "prompt"
    ELSE /\ "awaiting_approval" \notin {r.stage, m.stage, m.pending, m.checkpoint}
         /\ m.pending = NoStage => /\ "awaiting_approval" \notin {r.status, m.status}
                                   /\ r.stage # "policy_evaluated"

Judging == {"runner_completed", "verification_started"}

\* Records that lead to the verification stand beside the evidence.
Evidenced(r, m, f) ==
    \/ r.stage \in Judging \/ m.stage \in Judging \/ m.checkpoint \in Judging
    \/ m.pending = "verification_started"
    => HasRunnerEvidence(f)

Led(r, m, f) == Asking(r, m, f) /\ Evidenced(r, m, f)

\* The places of the runner before its completion is recorded.
Launched(c) ==
    \/ c.pc \in {"runner_manifest", "launch", "executing", "completed_manifest"}
    \/ c.pc = "evidence" /\ c.executed

\* How the records came to lead there.
Leading(c, r, m, f) ==
    /\ c.pc \in EarlyLocs => m.checkpoint # "policy_evaluated"
    /\ c.pc \in EarlyLocs /\ c.cmd = "run" => "packet" \notin Present(f)
    /\ c.pc \in (EarlyLocs \ {"create_manifest"}) \cup AskLocs \cup {"forbid_run"}
           => m.pending # NoStage
    /\ c.pc \in {"policy_running", "policy_run", "policy_manifest", "prompt_run",
                "prompt_manifest"} => c.cmd = "run"
    /\ c.pc \in {"forbid_run", "forbid_manifest"} /\ c.cmd = "run"
           => m.checkpoint = "policy_evaluated"
    /\ c.pc \in AskLocs => f["decision"] = "prompt"
    /\ c.pc = "resolved" => f["resolution"] # "absent"
    /\ Launched(c) => r.stage = "runner_started"
    /\ c.pc = "inspect" =>
           /\ Led(r, c.manifest, f)
           /\ c.manifest.status = "awaiting_approval" => m.status = "awaiting_approval"
    /\ c.pc = "inspect_manifest" => Led(r, InspectedManifest(c), f)

LeadInv ==
    /\ files["resolution"] \in Resolutions \cup {"absent"}
    /\ Led(run, manifest, files)
    /\ \A p \in Procs : Leading(ctx[p], run, manifest, files)

\* What is recorded of an execution, and what is left to record.
Recording(c, r, m, f, s) ==
    /\ c.pc = "executing" => RunnerEvidence \cap Present(f) \subseteq s
    /\ /\ c.cmd = "run" /\ ~c.executed
       /\ c.pc \notin {"evidence", "blocked_snapshot", "final_run", "final_manifest"}
       => RunnerEvidence \cap Present(f) = {}
    /\ c.pc = "evidence" =>
           \A i \in c.written + 1 .. 5 : EvidenceOrder[i] \notin Present(f) \ s
    /\ c.pc \in {"finalize", "evidence"} /\ ~c.executed =>
           (r.status = "abandoned" => m.status = "abandoned")

RecordInv == \A p \in Procs : Recording(ctx[p], run, manifest, files, stale)

-----------------------------------------------------------------------------
(* Which stages a resume can be told. *)

\* advanceLifecycle has a handler for the stage, or a verification was killed.
Served(stage, f) ==
    \/ stage \in HandledStages \cup {NoStage}
    \/ stage = "verification_completed" /\ HasRunnerEvidence(f)

\* Records from which no other stage follows.  A run whose manifest awaits nothing
\* is not at work.
Serving(r, m, f) ==
    /\ Served(m.pending, f) \/ (m.pending = "runner_completed" /\ m.stage = "runner_started")
    /\ m.checkpoint # "created"
    /\ m.pending = NoStage /\ m.status # "absent"
           => r.status \notin ActiveStatuses /\ m.status \notin ActiveStatuses

\* The places at which the manifest awaits something, whatever was resumed.
BusyLocs == {"runner_started", "runner_manifest", "launch", "executing",
             "completed_manifest", "completed_run", "completed_snapshot",
             "verification_started"}

\* How the stage of a resume comes from such records.
Attending(c, r, m, f) ==
    /\ c.pc \in BusyLocs \/ (c.pc = "evidence" /\ c.executed) => m.pending # NoStage
    /\ c.pc = "forbid_manifest" => r.status = "failed"
    /\ c.pc = "inspect" => Serving(r, c.manifest, f) /\ c.manifest.status # "absent"
    /\ c.pc = "inspect_manifest" =>
           /\ c.manifest.checkpoint # "created"
           /\ c.next = NoStage => r.status \notin ActiveStatuses
    /\ c.pc \in {"inspect_manifest", "resume_run", "resume_manifest", "unsupported"}
           => Served(c.next, f)
    /\ c.pc = "unsupported" => c.next \notin HandledStages \cup {NoStage}

ServeInv ==
    /\ Serving(run, manifest, files)
    /\ \A p \in Procs : Attending(ctx[p], run, manifest, files)

-----------------------------------------------------------------------------
(* What a run that waits for the human rests on. *)

\* What the manifest of a waiting run awaits can be entered, whichever of the two
\* records an inspection follows.
Pausable(r, m, f) ==
    m.status = "awaiting_approval" =>
        /\ {r.stage, m.stage} \cap Running = {}
        /\ m.pending \in BeforePolicy \cup {"awaiting_approval"}
        /\ {"decision", "packet"} \subseteq Present(f)

VerdictStages == {"verification_started", "verification_completed"}

\* A pause in run.json is, or is about to be, in the manifest; a denial closed both
\* records; and a run whose verification failed waits for nobody.
Standing(r, m) ==
    /\ r.status = "awaiting_approval"
           => m.status \in ActiveStatuses \cup {"awaiting_approval"}
    /\ m.approval = "denied" => r.status = "abandoned" /\ m.status = "abandoned"
    /\ r.verification = "failed" =>
           /\ r.stage \in VerdictStages
           /\ m.stage \in VerdictStages \/ m.status \in ActiveStatuses
           /\ "awaiting_approval" \notin {r.status, m.status}

\* The places of a handler whose manifest calls the run active.
ActiveLocs ==
    (EarlyLocs \ {"create_manifest"}) \cup (JudgeLocs \ {"verification_started"}) \cup
    {"forbid_run", "forbid_manifest", "packet", "prompt_run", "prompt_manifest",
     "pause_run", "pause_manifest", "runner_started", "runner_manifest", "launch",
     "executing", "completed_manifest", "relapse_run", "relapse_manifest"}

\* Where a process may be once the verification has failed.
FailedLocs ==
    {"idle", "unsupported", "finalize", "final_run", "final_manifest"}
        \cup InspectionLocs \cup JudgeLocs

\* How a handler or an inspection came to leave such records.
Pausing(c, r, m, f) ==
    /\ \/ c.pc \in ActiveLocs
       \/ c.pc = "evidence" /\ c.executed
       \/ c.pc = "verification_started" /\ c.cmd # "verify"
       \/ c.pc = "awaiting_approval" /\ c.cmd # "run"
       \/ c.pc \in {"completed_run", "completed_snapshot"} /\ f["result"] = "completed"
       => m.status \in ActiveStatuses
    /\ c.pc = "awaiting_approval" /\ c.cmd = "run" => m.status = "awaiting_approval"
    /\ c.pc \in {"completed_run", "completed_snapshot"}
           => m.status \notin {"awaiting_approval", "abandoned"}
    /\ Launched(c) \/ c.pc \in {"relapse_manifest", "completed_snapshot"}
           => r.status # "awaiting_approval"
    /\ c.pc \in AskLocs => {r.stage, m.stage} \cap Running = {}
    /\ c.pc \in {"pause_run", "pause_manifest"} =>
           /\ m.pending \in BeforePolicy \cup {"awaiting_approval"}
           /\ "packet" \in Present(f)
    /\ c.pc \in FinalLocs \cup {"evidence"} /\ r.status = "awaiting_approval"
           => m.status = "awaiting_approval"
    /\ c.pc = "inspect" /\ m.status \in ActiveStatuses =>
           r.status = "interrupted" /\ c.manifest.status = "interrupted"
    /\ c.pc = "inspect_manifest" /\ r.status = "awaiting_approval" =>
           Pausable(r, InspectedManifest(c), f)
    /\ r.verification = "failed" =>
           /\ c.pc \in FailedLocs
           /\ c.pc = "finalize" => c.executed
           /\ Admitted(c) => c.next = "verification_started"
           /\ c.pc = "inspect" => c.manifest.stage \in VerdictStages

PauseInv ==
    /\ Pausable(run, manifest, files)
    /\ Standing(run, manifest)
    /\ \A p \in Procs : Pausing(ctx[p], run, manifest, files)

=============================================================================
