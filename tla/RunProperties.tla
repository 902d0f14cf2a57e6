--------------------------- MODULE RunProperties ---------------------------
(***************************************************************************)
(* What the governed run lifecycle promises: its invariants, action        *)
(* properties and liveness, and the statements of the documentation that   *)
(* the code does not keep.                                                 *)
(***************************************************************************)
EXTENDS RunLifecycle

\* No command is running.
AtRest == \A p \in Procs : ctx[p].cmd = "none"

\* At rest, and no process died since both records were last written together.
Settled == AtRest /\ ~torn

-----------------------------------------------------------------------------
(* Invariants *)

\* Every variable has its type.
TypeOK ==
    /\ run \in RunRecords
    /\ manifest \in Manifests
    /\ files \in FileSets
    /\ head \in Heads
    /\ ctx \in [Procs -> Contexts]
    /\ torn \in BOOLEAN
    /\ stale \in SUBSET RunnerEvidence
    /\ answered \in Packets \cup {"absent"}

\* A run whose recorded decision is "prompt" never has its runner at work
\* before a human approved it, whatever was interrupted and resumed in between:
\* the resume gates of requiredArtifactsForNextStage and the approval handler
\* together keep what handlePolicyEvaluated decided.
PromptIsApproved ==
    \A p \in Procs :
        ctx[p].pc \in {"launch", "executing"} /\ ctx[p].mem["decision"] = "prompt"
            => ctx[p].mem["resolution"] = "approved"

\* Once the manifest records a denial, no process starts the runner, and no
\* command makes the run eligible again (evaluateResumeEligibility).
DenialIsFinal ==
    manifest.approval = "denied" =>
        \A p \in Procs : ctx[p].pc \notin {"runner_manifest", "launch", "executing",
                                           "resume_run", "resume_manifest"}

\* run.json says "completed" only while verification.result.json says "passed",
\* the policy audit found no breach and a prompted decision was approved: no
\* crash between the two writes, and no later command, separates them.
CompletedIsVerified ==
    run.status = "completed" =>
        /\ files["verification"] = "passed"
        /\ run.verification = "passed"
        /\ files["audit"] = "clean"
        /\ files["decision"] = "prompt" => files["resolution"] = "approved"

\* Whenever no command is running and none was killed, run.json and
\* session.manifest.json agree on the run's status, stage and pending stage.
RecordsAgreeAtRest ==
    Settled =>
        /\ run.status = manifest.status
        /\ run.stage = manifest.stage
        /\ run.pending = manifest.pending

\* The errors by which the handlers and finalizeFreshRun refuse to go on for
\* want of an input are never raised: what a resume was told is enough to enter
\* a stage is enough for its handler.
HandlersFindTheirInputs ==
    \A p \in Procs :
        LET here == Present(ctx[p].mem)
            needed ==
                CASE ctx[p].pc = "plan_created" -> {"spec"}
                  [] ctx[p].pc = "policy_evaluated" -> {"spec", "plan"}
                  [] ctx[p].pc = "awaiting_approval" -> {"packet"}
                  [] ctx[p].pc = "runner_started" ->
                        {"spec", "plan", "preview", "decision"}
                  [] ctx[p].pc = "finalize" -> {"spec", "plan", "preview", "decision"}
                  [] ctx[p].pc = "verification_started" /\ ctx[p].cmd # "verify" ->
                        {"spec", "plan", "decision"} \cup RunnerEvidence
                  [] OTHER -> {}
        IN  needed \subseteq here

\* A run that waits for a human can always be taken up again: while HEAD has not
\* moved, whatever inspections and resumes left behind, were killed or are still
\* at work, a resume finds it eligible.  (A `gdh verify` killed after its verdict
\* breaks this: it is left out of the run that checks it.)
PausedRunIsResumable ==
    manifest.status = "awaiting_approval" /\ manifest.head = head =>
        Eligible(run, manifest, files, Present(files), head)

\* Verification judges the evidence of one execution: a resume that goes on to
\* verify never mixes artifacts of the last launch of the runner with artifacts
\* an earlier, interrupted one left.  (`gdh verify` judges what it finds.)
EvidenceIsOfOneExecution ==
    \A p \in Procs : At(p, "verifying") => stale = {}

\* A resume that inspection declared eligible is refused by advanceLifecycle in
\* one case only: the run was killed between the beginning of a verification and
\* its verdict, so its evidence is whole but no handler takes it from there.
\* (transition-engine.ts says of that evidence: "verification can resume
\* safely".)  No other stage the records can name is without a handler.
EligibleResumeIsServed ==
    \A p \in Procs :
        At(p, "unsupported") =>
            /\ ctx[p].next = "verification_completed"
            /\ HasRunnerEvidence(files)
            /\ stale = {}

-----------------------------------------------------------------------------
(* Action properties *)

\* A run that both records call completed or abandoned is not reopened by an
\* inspection or a resume, not even by one that was killed half way.  (`gdh
\* verify` does reopen it, so it is left out of the run that checks this.)
ClosedRunStaysClosed ==
    [][ run.status \in {"completed", "abandoned"} /\ manifest.status = run.status
        => run'.status = run.status /\ manifest'.status = manifest.status ]_vars

-----------------------------------------------------------------------------
(* Liveness *)

\* Every command ends, unless it waits for the human, for the runner or for the
\* verification commands, on which the code sets no time limit.
Waits(p) == ctx[p].pc \in {"awaiting_approval", "executing", "verifying"}

CommandsEnd ==
    \A p \in Procs : (ctx[p].cmd # "none") ~> (ctx[p].cmd = "none" \/ Waits(p))

-----------------------------------------------------------------------------
(* What the documentation says and the code does not keep *)

\* docs/decisions/0002-phase-2-policy-gating.md: "`forbid`: persist the decision
\* and stop before execution".
ForbidStops ==
    \A p \in Procs :
        ctx[p].pc = "executing" => ctx[p].mem["decision"] # "forbid"

\* docs/decisions/0004-phase-4-durable-resume.md: "Keep policy, approval, and
\* verification guarantees intact during resume": the runner works under the
\* packet the human answered, not one written since.
ApprovalCoversPacket ==
    \A p \in Procs :
        ctx[p].pc = "executing" /\ ctx[p].mem["decision"] = "prompt"
            => answered = files["packet"]

\* createFreshRunContext records: "Resume is not available while the initial run
\* invocation is still active", so no two processes have the runner at work.
OneRunnerAtATime ==
    \A p, q \in Procs :
        ctx[p].pc = "executing" /\ ctx[q].pc = "executing" => p = q

=============================================================================
