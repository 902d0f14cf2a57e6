--------------------------- MODULE VerdictProofs ---------------------------
(***************************************************************************)
(* What a governed run comes to, as long as commands are given one at a    *)
(* time: a completed run is verified, a denied one stays denied, handlers  *)
(* find what they need, the two records agree when nobody was killed; and, *)
(* without `gdh verify`, a closed run stays closed, a verdict is about one *)
(* execution, a run that waits for the human can be taken up again, and    *)
(* the lifecycle implements GovernedRun.  For every set of packets, every  *)
(* number of moves of HEAD and a process killed between any two writes.    *)
(***************************************************************************)
EXTENDS ApprovalProofs, RunRefinement

-----------------------------------------------------------------------------
(* What a write leaves behind. *)

\* WriteRun.
LEMMA RunWritten ==
    ASSUME TypeInv, NEW p \in Procs, NEW r, NEW loc, WriteRun(p, r, loc)
    PROVE  /\ run' = r /\ manifest' = manifest /\ files' = files
           /\ ctx'[p].pc = loc /\ ctx'[p].cmd = ctx[p].cmd
           /\ ctx'[p].run = r /\ ctx'[p].manifest = ctx[p].manifest
           /\ ctx'[p].mem = ctx[p].mem /\ ctx'[p].next = ctx[p].next
           /\ ctx'[p].eligible = ctx[p].eligible /\ ctx'[p].executed = ctx[p].executed
           /\ ctx'[p].resumed = ctx[p].resumed /\ ctx'[p].written = ctx[p].written
BY DEF TypeInv, TypeOK, Contexts, WriteRun

\* WriteManifest.
LEMMA ManifestWritten ==
    ASSUME TypeInv, NEW p \in Procs, NEW m, NEW loc, WriteManifest(p, m, loc)
    PROVE  /\ run' = run /\ manifest' = m /\ files' = files
           /\ ctx'[p].pc = loc /\ ctx'[p].cmd = ctx[p].cmd
           /\ ctx'[p].run = ctx[p].run /\ ctx'[p].manifest = m
           /\ ctx'[p].mem = ctx[p].mem /\ ctx'[p].next = ctx[p].next
           /\ ctx'[p].eligible = ctx[p].eligible /\ ctx'[p].executed = ctx[p].executed
           /\ ctx'[p].resumed = ctx[p].resumed /\ ctx'[p].written = ctx[p].written
BY DEF TypeInv, TypeOK, Contexts, WriteManifest

\* WriteFiles.
LEMMA FilesWritten ==
    ASSUME TypeInv, NEW p \in Procs, NEW new, NEW loc, WriteFiles(p, new, loc)
    PROVE  /\ run' = run /\ manifest' = manifest /\ files' = Overlay(new, files)
           /\ ctx'[p].pc = loc /\ ctx'[p].cmd = ctx[p].cmd
           /\ ctx'[p].run = ctx[p].run /\ ctx'[p].manifest = ctx[p].manifest
           /\ ctx'[p].mem = Overlay(new, ctx[p].mem) /\ ctx'[p].next = ctx[p].next
           /\ ctx'[p].eligible = ctx[p].eligible /\ ctx'[p].executed = ctx[p].executed
           /\ ctx'[p].resumed = ctx[p].resumed /\ ctx'[p].written = ctx[p].written
BY DEF TypeInv, TypeOK, Contexts, WriteFiles

\* GoTo.
LEMMA Gone ==
    ASSUME TypeInv, NEW p \in Procs, NEW loc, GoTo(p, loc)
    PROVE  /\ run' = run /\ manifest' = manifest /\ files' = files
           /\ ctx'[p].pc = loc /\ ctx'[p].cmd = ctx[p].cmd
           /\ ctx'[p].run = ctx[p].run /\ ctx'[p].manifest = ctx[p].manifest
           /\ ctx'[p].mem = ctx[p].mem /\ ctx'[p].next = ctx[p].next
           /\ ctx'[p].eligible = ctx[p].eligible /\ ctx'[p].executed = ctx[p].executed
           /\ ctx'[p].resumed = ctx[p].resumed /\ ctx'[p].written = ctx[p].written
BY DEF TypeInv, TypeOK, Contexts, GoTo

-----------------------------------------------------------------------------
(* What each step does, in terms of what is on disk.  A process reads its    *)
(* memory, which holds what is on disk.                                      *)

\* A handler goes on from one place to the next.
Comes(p, from, to) ==
    /\ ctx[p].pc = from /\ ctx'[p].pc = to
    /\ ctx'[p].cmd = ctx[p].cmd /\ ctx'[p].resumed = ctx[p].resumed
    /\ ctx'[p].executed = ctx[p].executed
    /\ Held(ctx'[p], files')

\* Nothing on disk changes but run.json.
OnlyRun(status, stage, pending) ==
    /\ run'.status = status /\ run'.stage = stage /\ run'.pending = pending
    /\ run'.verification = run.verification
    /\ manifest' = manifest /\ files' = files /\ torn' = torn /\ stale' = stale

\* Nothing on disk changes but the manifest.
OnlyManifest(status, stage, pending, approval, checkpoint) ==
    /\ manifest'.status = status /\ manifest'.stage = stage
    /\ manifest'.pending = pending /\ manifest'.approval = approval
    /\ manifest'.checkpoint = checkpoint
    /\ run' = run /\ files' = files /\ torn' = torn /\ stale' = stale

\* Nothing on disk changes but the artifacts.
OnlyFiles(f) ==
    /\ files' = f
    /\ run' = run /\ manifest' = manifest /\ torn' = torn /\ stale' = stale

\* The memory of a process is what is on disk.
LEMMA OnDisk ==
    ASSUME TypeInv, ApprovalInv, SupplyInv, NEW p \in Procs,
           ctx[p].pc \notin UnloadedLocs \cup {"evidence"}
    PROVE  /\ ctx[p].run = run /\ ctx[p].mem = files
           /\ ctx[p].pc \notin DetachedLocs => ctx[p].manifest = manifest
<1>1. ctx[p].run = run /\ (ctx[p].pc \notin DetachedLocs => ctx[p].manifest = manifest)
  BY Somewhere DEF InStep
<1>2. ctx[p].mem \in FileSets /\ files \in FileSets
  BY RunTypes, Somewhere
<1>3. \A a \in Artifacts : ctx[p].mem[a] = files[a]
  BY DEF SupplyInv, Held
<1> QED
  BY <1>1, <1>2, <1>3 DEF FileSets

\* A record whose status alone changes is a moved one.
LEMMA StatusMoved ==
    ASSUME NEW r \in RunRecords \cup Manifests, NEW status
    PROVE  [r EXCEPT !.status = status] = Moved(r, status, r.stage, r.pending)
<1>1. CASE r \in RunRecords
  BY <1>1 DEF Moved, RunRecords
<1>2. CASE r \in Manifests
  BY <1>2 DEF Moved, Manifests
<1> QED
  BY <1>1, <1>2

\* A record that is moved (updateRunStage).
LEMMA MovedFields ==
    ASSUME NEW r \in RunRecords \cup Manifests, NEW status, NEW stage, NEW pending
    PROVE  LET n == Moved(r, status, stage, pending)
           IN  /\ n.status = status /\ n.stage = stage /\ n.pending = pending
               /\ r \in RunRecords => n.verification = r.verification
               /\ r \in Manifests => n.approval = r.approval /\ n.checkpoint = r.checkpoint
BY DEF Moved, RunRecords, Manifests

\* A manifest that is moved and takes a checkpoint.
LEMMA CheckpointedFields ==
    ASSUME NEW m \in Manifests, NEW status, NEW stage, NEW pending, NEW checkpoint
    PROVE  LET n == Checkpointed(Moved(m, status, stage, pending), checkpoint)
           IN  /\ n.status = status /\ n.stage = stage /\ n.pending = pending
               /\ n.approval = m.approval /\ n.checkpoint = checkpoint
BY DEF Moved, Checkpointed, Manifests

\* A handler that writes run.json.
LEMMA RunComes ==
    ASSUME TypeInv, ApprovalInv, SupplyInv, NEW p \in Procs, NEW r, NEW loc,
           ctx[p].pc \notin UnloadedLocs \cup {"evidence"}, loc # "evidence",
           WriteRun(p, r, loc), UNCHANGED others
    PROVE  /\ Comes(p, ctx[p].pc, loc)
           /\ run' = r /\ manifest' = manifest /\ files' = files
           /\ torn' = torn /\ stale' = stale
<1>1. ctx[p].mem = files
  BY OnDisk
<1>2. ctx'[p].mem = files' /\ ctx'[p].pc # "evidence"
  BY <1>1, RunWritten
<1>3. Held(ctx'[p], files')
  BY <1>2 DEF Held
<1> QED
  BY <1>3, RunWritten DEF Comes, others

\* A handler that moves run.json.
LEMMA RunMoves ==
    ASSUME TypeInv, ApprovalInv, SupplyInv, NEW p \in Procs,
           NEW status, NEW stage, NEW pending, NEW loc,
           ctx[p].pc \notin UnloadedLocs \cup {"evidence"}, loc # "evidence",
           WriteRun(p, Moved(ctx[p].run, status, stage, pending), loc), UNCHANGED others
    PROVE  Comes(p, ctx[p].pc, loc) /\ OnlyRun(status, stage, pending)
<1> DEFINE r == Moved(ctx[p].run, status, stage, pending)
<1>1. /\ r.status = status /\ r.stage = stage /\ r.pending = pending
      /\ r.verification = run.verification
  BY MovedFields, OnDisk, RunTypes
<1> HIDE DEF r
<1>2. WriteRun(p, r, loc)
  BY DEF r
<1> QED
  BY <1>1, <1>2, RunComes DEF OnlyRun

\* A handler that writes the manifest.
LEMMA ManifestComes ==
    ASSUME TypeInv, ApprovalInv, SupplyInv, NEW p \in Procs, NEW m, NEW loc,
           ctx[p].pc \notin UnloadedLocs \cup {"evidence"}, loc # "evidence",
           WriteManifest(p, m, loc), UNCHANGED others
    PROVE  /\ Comes(p, ctx[p].pc, loc)
           /\ run' = run /\ manifest' = m /\ files' = files
           /\ torn' = torn /\ stale' = stale
<1>1. ctx[p].mem = files
  BY OnDisk
<1>2. ctx'[p].mem = files' /\ ctx'[p].pc # "evidence"
  BY <1>1, ManifestWritten
<1>3. Held(ctx'[p], files')
  BY <1>2 DEF Held
<1> QED
  BY <1>3, ManifestWritten DEF Comes, others

\* A handler that moves the manifest.
LEMMA ManifestMoves ==
    ASSUME TypeInv, ApprovalInv, SupplyInv, NEW p \in Procs,
           NEW status, NEW stage, NEW pending, NEW loc,
           ctx[p].pc \notin UnloadedLocs \cup DetachedLocs \cup {"evidence"},
           loc # "evidence",
           WriteManifest(p, Moved(ctx[p].manifest, status, stage, pending), loc),
           UNCHANGED others
    PROVE  /\ Comes(p, ctx[p].pc, loc)
           /\ OnlyManifest(status, stage, pending, manifest.approval, manifest.checkpoint)
<1> DEFINE m == Moved(ctx[p].manifest, status, stage, pending)
<1>1. /\ m.status = status /\ m.stage = stage /\ m.pending = pending
      /\ m.approval = ctx[p].manifest.approval
      /\ m.checkpoint = ctx[p].manifest.checkpoint
  BY MovedFields, RunTypes
<1>2. ctx[p].manifest = manifest
  BY OnDisk
<1> HIDE DEF m
<1>3. WriteManifest(p, m, loc)
  BY DEF m
<1> QED
  BY <1>1, <1>2, <1>3, ManifestComes DEF OnlyManifest

\* A handler that moves the manifest and takes a checkpoint.
LEMMA ManifestCheckpoints ==
    ASSUME TypeInv, ApprovalInv, SupplyInv, NEW p \in Procs,
           NEW status, NEW stage, NEW pending, NEW checkpoint, NEW loc,
           ctx[p].pc \notin UnloadedLocs \cup DetachedLocs \cup {"evidence"},
           loc # "evidence",
           WriteManifest(p, Checkpointed(Moved(ctx[p].manifest, status, stage, pending),
                                         checkpoint), loc),
           UNCHANGED others
    PROVE  /\ Comes(p, ctx[p].pc, loc)
           /\ OnlyManifest(status, stage, pending, manifest.approval, checkpoint)
<1> DEFINE m == Checkpointed(Moved(ctx[p].manifest, status, stage, pending), checkpoint)
<1>1. /\ m.status = status /\ m.stage = stage /\ m.pending = pending
      /\ m.approval = ctx[p].manifest.approval
      /\ m.checkpoint = checkpoint
  BY CheckpointedFields, RunTypes
<1>2. ctx[p].manifest = manifest
  BY OnDisk
<1> HIDE DEF m
<1>3. WriteManifest(p, m, loc)
  BY DEF m
<1> QED
  BY <1>1, <1>2, <1>3, ManifestComes DEF OnlyManifest

\* A handler that writes artifacts.
LEMMA FilesCome ==
    ASSUME TypeInv, ApprovalInv, SupplyInv, NEW p \in Procs, NEW new, NEW loc,
           ctx[p].pc \notin UnloadedLocs \cup {"evidence"}, loc # "evidence",
           WriteFiles(p, new, loc), torn' = torn, stale' = stale
    PROVE  Comes(p, ctx[p].pc, loc) /\ OnlyFiles(Overlay(new, files))
<1>1. ctx[p].mem = files
  BY OnDisk
<1>2. ctx'[p].mem = files' /\ ctx'[p].pc # "evidence"
  BY <1>1, FilesWritten
<1>3. Held(ctx'[p], files')
  BY <1>2 DEF Held
<1> QED
  BY <1>3, FilesWritten DEF Comes, OnlyFiles

\* A handler that writes nothing.
LEMMA HandlerGoes ==
    ASSUME TypeInv, ApprovalInv, SupplyInv, NEW p \in Procs, NEW loc,
           ctx[p].pc \notin UnloadedLocs \cup {"evidence"}, loc # "evidence",
           GoTo(p, loc)
    PROVE  /\ Comes(p, ctx[p].pc, loc)
           /\ run' = run /\ manifest' = manifest /\ files' = files
           /\ torn' = torn /\ stale' = stale => OnlyFiles(files)
<1>1. ctx[p].mem = files
  BY OnDisk
<1>2. ctx'[p].mem = files' /\ ctx'[p].pc # "evidence"
  BY <1>1, Gone
<1>3. Held(ctx'[p], files')
  BY <1>2 DEF Held
<1> QED
  BY <1>3, Gone DEF Comes, OnlyFiles

\* What the handlers of the spec and of the plan do.
SpecEffect(p) ==
    \/ /\ Comes(p, "create_manifest", "spec_normalized")
       /\ OnlyManifest("created", "created", "spec_normalized", "not_required", NoStage)
    \/ /\ Comes(p, "spec_normalized", IF Fresh(p) THEN "spec_run" ELSE "plan_created")
       /\ OnlyFiles(Overlay([spec |-> "present"], files))
    \/ /\ Comes(p, "spec_run", "spec_manifest")
       /\ OnlyRun("planning", "spec_normalized", "plan_created")
    \/ /\ Comes(p, "spec_manifest", "plan_created")
       /\ OnlyManifest(manifest.status, "spec_normalized", "plan_created", manifest.approval,
                       "spec_normalized")
    \/ /\ Comes(p, "plan_created", IF Fresh(p) THEN "plan_run" ELSE "policy_evaluated")
       /\ OnlyFiles(Overlay([plan |-> "present"], files))
    \/ /\ Comes(p, "plan_run", "plan_manifest")
       /\ OnlyRun(run.status, "plan_created", "policy_evaluated")
    \/ /\ Comes(p, "plan_manifest", "policy_evaluated")
       /\ OnlyManifest(manifest.status, "plan_created", "policy_evaluated", manifest.approval,
                       "plan_created")

LEMMA SpecEffects ==
    ASSUME TypeInv, ApprovalInv, SupplyInv, NEW p \in Procs,
           \/ CreateManifest(p) \/ NormalizeSpec(p) \/ SpecRun(p) \/ SpecManifest(p)
           \/ CreatePlan(p) \/ PlanRun(p) \/ PlanManifest(p)
    PROVE  SpecEffect(p)
<1> USE DEF SpecEffect, UnloadedLocs, DetachedLocs, At
<1>1. ASSUME ctx[p].pc \notin {"idle", "load", "verify_load", "evidence"}
      PROVE  /\ ctx[p].run = run /\ ctx[p].mem = files
             /\ ctx[p].pc \notin DetachedLocs => ctx[p].manifest = manifest
  BY <1>1, OnDisk
<1>2. CASE CreateManifest(p)
  <2>1. /\ ctx[p].manifest.status = "created" /\ ctx[p].manifest.stage = "created"
        /\ ctx[p].manifest.pending = "spec_normalized"
        /\ ctx[p].manifest.approval = "not_required"
        /\ ctx[p].manifest.checkpoint = NoStage
    BY <1>2, Somewhere DEF CreateManifest, InPlace, SupplyInv, Placed
  <2> QED
    BY <1>2, <2>1, ManifestComes DEF CreateManifest, OnlyManifest
<1>3. CASE NormalizeSpec(p)
  BY <1>3, FilesCome DEF NormalizeSpec, others
<1>4. CASE SpecRun(p)
  BY <1>4, RunMoves DEF SpecRun
<1>5. CASE SpecManifest(p)
  BY <1>1, <1>5, ManifestCheckpoints DEF SpecManifest
<1>6. CASE CreatePlan(p)
  BY <1>6, FilesCome DEF CreatePlan, others
<1>7. CASE PlanRun(p)
  BY <1>1, <1>7, RunMoves DEF PlanRun
<1>8. CASE PlanManifest(p)
  BY <1>1, <1>8, ManifestCheckpoints DEF PlanManifest
<1> QED
  BY <1>2, <1>3, <1>4, <1>5, <1>6, <1>7, <1>8
\* What handlePolicyEvaluated does.
PolicyEffect(p) ==
    \/ \E d \in Decisions :
          /\ Comes(p, "policy_evaluated",
                   IF Fresh(p) THEN "policy_running" ELSE AfterPolicy(d))
          /\ OnlyFiles(Overlay([preview |-> "present", decision |-> d], files))
    \/ /\ Comes(p, "policy_running", "policy_run")
       /\ OnlyRun("running", run.stage, run.pending)
    \/ /\ Comes(p, "policy_run", "policy_manifest")
       /\ OnlyRun(run.status, "policy_evaluated", PendingAfterPolicy(files["decision"]))
    \/ /\ Comes(p, "policy_manifest", AfterPolicy(files["decision"]))
       /\ OnlyManifest(manifest.status, "policy_evaluated",
                       PendingAfterPolicy(files["decision"]), manifest.approval,
                       "policy_evaluated")
    \/ /\ Comes(p, "forbid_run", "forbid_manifest")
       /\ OnlyRun("failed", "policy_evaluated", NoStage)
    \/ /\ Fresh(p)
       /\ Comes(p, "forbid_manifest", "finalize")
       /\ OnlyManifest("failed", "policy_evaluated", NoStage, manifest.approval,
                       manifest.checkpoint)
    \/ /\ ~Fresh(p)
       /\ Comes(p, "forbid_manifest", "load")
       /\ OnlyManifest("failed", manifest.stage, manifest.pending, manifest.approval,
                       manifest.checkpoint)
    \/ \E k \in Packets :
          /\ Comes(p, "packet", IF Fresh(p) THEN "prompt_run" ELSE "awaiting_approval")
          /\ OnlyFiles(Overlay([packet |-> k], files))
    \/ /\ Comes(p, "prompt_run", "prompt_manifest")
       /\ OnlyRun("awaiting_approval", "awaiting_approval", "awaiting_approval")
    \/ /\ Comes(p, "prompt_manifest", "awaiting_approval")
       /\ OnlyManifest("awaiting_approval", "awaiting_approval", "awaiting_approval", "pending",
                       manifest.checkpoint)

LEMMA PolicyEffects ==
    ASSUME TypeInv, ApprovalInv, SupplyInv, NEW p \in Procs,
           \/ EvaluatePolicy(p) \/ PolicyRunning(p) \/ PolicyRun(p) \/ PolicyManifest(p)
           \/ ForbidRun(p) \/ ForbidManifest(p)
           \/ RequestApproval(p) \/ PromptRun(p) \/ PromptManifest(p)
    PROVE  PolicyEffect(p)
<1> USE DEF PolicyEffect, UnloadedLocs, DetachedLocs, At
<1>1. ASSUME ctx[p].pc \notin {"idle", "load", "verify_load", "evidence"}
      PROVE  /\ ctx[p].run = run /\ ctx[p].mem = files
             /\ ctx[p].pc \notin DetachedLocs => ctx[p].manifest = manifest
  BY <1>1, OnDisk
<1>2. run \in RunRecords /\ manifest \in Manifests
  BY Somewhere
<1>3. CASE EvaluatePolicy(p)
  BY <1>3, FilesCome DEF EvaluatePolicy, others, AfterPolicy, Decisions
<1>4. CASE PolicyRunning(p)
  <2>1. [ctx[p].run EXCEPT !.status = "running"] =
            Moved(ctx[p].run, "running", ctx[p].run.stage, ctx[p].run.pending)
    BY RunTypes, StatusMoved
  <2>2. WriteRun(p, Moved(ctx[p].run, "running", ctx[p].run.stage, ctx[p].run.pending),
                 "policy_run")
    BY <1>4, <2>1 DEF PolicyRunning
  <2> QED
    BY <1>1, <1>4, <2>2, RunMoves DEF PolicyRunning
<1>5. CASE PolicyRun(p)
  BY <1>1, <1>5, RunMoves DEF PolicyRun
<1>6. CASE PolicyManifest(p)
  <2>1. AfterPolicy(files["decision"]) # "evidence"
    BY <1>1, <1>6, RunTypes DEF PolicyManifest, Typed, AfterPolicy, Decisions
  <2> QED
    BY <1>1, <1>6, <2>1, ManifestCheckpoints DEF PolicyManifest
<1>7. CASE ForbidRun(p)
  BY <1>7, RunMoves DEF ForbidRun
<1>8. CASE ForbidManifest(p) /\ Fresh(p)
  BY <1>8, ManifestMoves DEF ForbidManifest, AfterAdvance
<1>9. CASE ForbidManifest(p) /\ ~Fresh(p)
  <2> DEFINE m == Moved(ctx[p].manifest, "failed", ctx[p].manifest.stage,
                        ctx[p].manifest.pending)
  <2>1. [ctx[p].manifest EXCEPT !.status = "failed"] = m
    BY RunTypes, StatusMoved
  <2>2. WriteManifest(p, m, "load")
    BY <1>9, <2>1 DEF ForbidManifest, AfterAdvance
  <2> QED
    BY <1>1, <1>9, <2>2, ManifestMoves DEF ForbidManifest
<1>10. CASE RequestApproval(p)
  BY <1>10, FilesCome DEF RequestApproval, others
<1>11. CASE PromptRun(p)
  BY <1>11, RunMoves DEF PromptRun
<1>12. CASE PromptManifest(p)
  <2> DEFINE m == [Moved(ctx[p].manifest, "awaiting_approval", "awaiting_approval",
                         "awaiting_approval") EXCEPT !.approval = "pending"]
  <2>1. /\ m.status = "awaiting_approval" /\ m.stage = "awaiting_approval"
        /\ m.pending = "awaiting_approval" /\ m.approval = "pending"
        /\ m.checkpoint = manifest.checkpoint
    BY <1>1, <1>2, <1>12 DEF PromptManifest, Moved, Manifests
  <2> HIDE DEF m
  <2>2. WriteManifest(p, m, "awaiting_approval") /\ UNCHANGED others
    BY <1>12 DEF m, PromptManifest
  <2> QED
    BY <1>12, <2>1, <2>2, ManifestComes DEF PromptManifest, OnlyManifest
<1> QED
  BY <1>3, <1>4, <1>5, <1>6, <1>7, <1>8, <1>9, <1>10, <1>11, <1>12
\* What handleAwaitingApproval does.
AnswerEffect(p) ==
    \/ \E answer \in Resolutions :
          /\ files["resolution"] = "absent"
          /\ Comes(p, "awaiting_approval", "resolved")
          /\ OnlyFiles(Overlay([resolution |-> answer], files))
    \/ /\ Comes(p, "awaiting_approval", IF Fresh(p) THEN "finalize" ELSE "pause_run")
       /\ OnlyFiles(files)
    \/ /\ files["resolution"] # "absent"
       /\ Comes(p, "awaiting_approval", "resolved")
       /\ OnlyFiles(files)
    \/ /\ Comes(p, "pause_run", "pause_manifest")
       /\ OnlyRun("awaiting_approval", run.stage, run.pending)
    \/ /\ Comes(p, "pause_manifest", AfterAdvance(p))
       /\ OnlyManifest("awaiting_approval", manifest.stage, manifest.pending, "pending",
                       manifest.checkpoint)
    \/ /\ files["resolution"] # "approved"
       /\ Comes(p, "resolved", "deny_manifest")
       /\ OnlyRun("abandoned", "approval_resolved", NoStage)
    \/ /\ Fresh(p)
       /\ Comes(p, "deny_manifest", "finalize")
       /\ OnlyManifest("abandoned", "approval_resolved", NoStage, "denied",
                       manifest.checkpoint)
    \/ /\ ~Fresh(p)
       /\ Comes(p, "deny_manifest", "load")
       /\ OnlyManifest("abandoned", manifest.stage, manifest.pending, "denied",
                       manifest.checkpoint)
    \/ /\ Comes(p, "resolved", "approve_manifest")
       /\ OnlyRun("in_progress", "approval_resolved", "runner_started")
    \/ /\ Comes(p, "approve_manifest", "runner_started")
       /\ OnlyManifest("in_progress", "approval_resolved", "runner_started", "approved",
                       "approval_resolved")

LEMMA AnswerEffects ==
    ASSUME TypeInv, ApprovalInv, SupplyInv, NEW p \in Procs,
           \/ AskHuman(p) \/ NobodyToAsk(p) \/ ReuseResolution(p)
           \/ PauseRun(p) \/ PauseManifest(p)
           \/ DenyRun(p) \/ DenyManifest(p) \/ ApproveRun(p) \/ ApproveManifest(p)
    PROVE  AnswerEffect(p)
<1> USE DEF AnswerEffect, UnloadedLocs, DetachedLocs, At
<1>1. ASSUME ctx[p].pc \notin {"idle", "load", "verify_load", "evidence"}
      PROVE  /\ ctx[p].run = run /\ ctx[p].mem = files
             /\ ctx[p].pc \notin DetachedLocs => ctx[p].manifest = manifest
  BY <1>1, OnDisk
<1>2. run \in RunRecords /\ manifest \in Manifests /\ AfterAdvance(p) # "evidence"
  BY Somewhere DEF AfterAdvance
<1>3. CASE AskHuman(p)
  BY <1>1, <1>3, FilesCome DEF AskHuman
<1>4. CASE NobodyToAsk(p)
  BY <1>4, HandlerGoes DEF NobodyToAsk, others
<1>5. CASE ReuseResolution(p)
  BY <1>1, <1>5, HandlerGoes DEF ReuseResolution, others
<1>6. CASE PauseRun(p)
  <2> DEFINE r == Moved(ctx[p].run, "awaiting_approval", ctx[p].run.stage, ctx[p].run.pending)
  <2>1. [ctx[p].run EXCEPT !.status = "awaiting_approval"] = r
    BY RunTypes, StatusMoved
  <2>2. WriteRun(p, r, "pause_manifest")
    BY <1>6, <2>1 DEF PauseRun
  <2> QED
    BY <1>1, <1>6, <2>2, RunMoves DEF PauseRun
<1>7. CASE PauseManifest(p)
  <2> DEFINE m == [ctx[p].manifest EXCEPT !.status = "awaiting_approval", !.approval = "pending"]
  <2>1. /\ m.status = "awaiting_approval" /\ m.stage = ctx[p].manifest.stage
        /\ m.pending = ctx[p].manifest.pending /\ m.approval = "pending"
        /\ m.checkpoint = ctx[p].manifest.checkpoint
    BY RunTypes DEF Manifests
  <2> HIDE DEF m
  <2>2. WriteManifest(p, m, AfterAdvance(p)) /\ UNCHANGED others
    BY <1>7 DEF m, PauseManifest
  <2> QED
    BY <1>1, <1>2, <1>7, <2>1, <2>2, ManifestComes DEF PauseManifest, OnlyManifest
<1>8. CASE DenyRun(p)
  BY <1>1, <1>8, RunMoves DEF DenyRun
<1>9. CASE DenyManifest(p)
  <2> DEFINE d == [ctx[p].manifest EXCEPT !.approval = "denied"]
             m == IF Fresh(p) THEN Moved(d, "abandoned", "approval_resolved", NoStage)
                  ELSE [d EXCEPT !.status = "abandoned"]
  <2>1. /\ m.status = "abandoned" /\ m.approval = "denied"
        /\ m.checkpoint = ctx[p].manifest.checkpoint
        /\ Fresh(p) => m.stage = "approval_resolved" /\ m.pending = NoStage
        /\ ~Fresh(p) => /\ m.stage = ctx[p].manifest.stage
                        /\ m.pending = ctx[p].manifest.pending
    BY RunTypes DEF Manifests, Moved
  <2> HIDE DEF m
  <2>2. WriteManifest(p, m, AfterAdvance(p)) /\ UNCHANGED others
    BY <1>9 DEF m, DenyManifest
  <2>3. Comes(p, "deny_manifest", AfterAdvance(p))
        /\ OnlyManifest(m.status, m.stage, m.pending, m.approval, m.checkpoint)
    BY <1>2, <1>9, <2>2, ManifestComes DEF DenyManifest, OnlyManifest
  <2>4. ctx[p].manifest = manifest
    BY <1>1, <1>9 DEF DenyManifest
  <2>5. CASE Fresh(p)
    BY <2>1, <2>3, <2>4, <2>5 DEF AfterAdvance
  <2>6. CASE ~Fresh(p)
    BY <2>1, <2>3, <2>4, <2>6 DEF AfterAdvance
  <2> QED
    BY <2>5, <2>6
<1>10. CASE ApproveRun(p)
  BY <1>10, RunMoves DEF ApproveRun
<1>11. CASE ApproveManifest(p)
  <2> DEFINE m == [Checkpointed(Moved(ctx[p].manifest, "in_progress", "approval_resolved",
                       "runner_started"), "approval_resolved") EXCEPT !.approval = "approved"]
  <2>1. /\ m.status = "in_progress" /\ m.stage = "approval_resolved"
        /\ m.pending = "runner_started" /\ m.approval = "approved"
        /\ m.checkpoint = "approval_resolved"
    BY RunTypes DEF Manifests, Moved, Checkpointed
  <2> HIDE DEF m
  <2>2. WriteManifest(p, m, "runner_started") /\ UNCHANGED others
    BY <1>11 DEF m, ApproveManifest
  <2> QED
    BY <1>11, <2>1, <2>2, ManifestComes DEF ApproveManifest, OnlyManifest
<1> QED
  BY <1>3, <1>4, <1>5, <1>6, <1>7, <1>8, <1>9, <1>10, <1>11

\* What handleRunnerStarted does.  The result of the execution is in memory until
\* it is recorded.
RunnerEffect(p) ==
    \/ /\ ctx[p].pc = "runner_started" /\ ctx'[p].pc = "runner_manifest"
       /\ ctx'[p].cmd = ctx[p].cmd /\ ctx'[p].resumed = ctx[p].resumed
       /\ ctx'[p].executed = TRUE /\ Held(ctx'[p], files')
       /\ OnlyRun("in_progress", "runner_started", "runner_completed")
    \/ /\ Comes(p, "runner_manifest", "launch")
       /\ OnlyManifest("in_progress", "runner_started", "runner_completed", manifest.approval,
                       manifest.checkpoint)
    \/ /\ Comes(p, "launch", "executing")
       /\ run' = run /\ manifest' = manifest /\ files' = files /\ torn' = torn
       /\ stale' = RunnerEvidence \cap Present(files)
    \/ /\ Comes(p, "executing", "evidence")
       /\ ctx'[p].written = 0
       /\ OnlyFiles(files)
    \/ /\ Comes(p, "completed_manifest", "completed_run")
       /\ IF files["result"] = "completed"
          THEN OnlyManifest("verifying", "runner_completed", "verification_started",
                            manifest.approval, "runner_completed")
          ELSE OnlyManifest("interrupted", "runner_completed", "runner_started",
                            manifest.approval, "runner_completed")
    \/ /\ Comes(p, "completed_run", "completed_snapshot")
       /\ IF files["result"] = "completed"
          THEN OnlyRun("verifying", "runner_completed", "verification_started")
          ELSE OnlyRun("interrupted", "runner_completed", "runner_started")
    \/ /\ Comes(p, "completed_snapshot",
                IF files["result"] = "completed" THEN "verification_started" ELSE "finalize")
       /\ OnlyManifest(manifest.status, manifest.stage, manifest.pending, manifest.approval,
                       manifest.checkpoint)
    \/ /\ Comes(p, "relapse_run", "relapse_manifest")
       /\ OnlyRun("interrupted", "runner_started", "runner_started")
    \/ /\ Comes(p, "relapse_manifest", "load")
       /\ OnlyManifest("interrupted", "runner_started", "runner_started", manifest.approval,
                       manifest.checkpoint)

LEMMA RunnerEffects ==
    ASSUME TypeInv, ApprovalInv, SupplyInv, NEW p \in Procs,
           \/ RunnerRun(p) \/ RunnerManifest(p) \/ LaunchRunner(p) \/ RunnerReturns(p)
           \/ CompletedManifest(p) \/ CompletedRun(p) \/ CompletedSnapshot(p)
           \/ RelapseRun(p) \/ RelapseManifest(p)
    PROVE  RunnerEffect(p)
<1> USE DEF RunnerEffect, UnloadedLocs, DetachedLocs, At
<1>1. ASSUME ctx[p].pc \notin {"idle", "load", "verify_load", "evidence"}
      PROVE  /\ ctx[p].run = run /\ ctx[p].mem = files
             /\ ctx[p].pc \notin DetachedLocs => ctx[p].manifest = manifest
  BY <1>1, OnDisk
<1>2. /\ run \in RunRecords /\ manifest \in Manifests /\ files \in FileSets
      /\ ctx[p] \in Contexts /\ ctx \in [Procs -> Contexts]
  BY Somewhere
<1>3. CASE RunnerRun(p)
  <2> DEFINE r == Moved(ctx[p].run, "in_progress", "runner_started", "runner_completed")
  <2>1. /\ r.status = "in_progress" /\ r.stage = "runner_started"
        /\ r.pending = "runner_completed" /\ r.verification = run.verification
    BY <1>1, <1>3, MovedFields, RunTypes DEF RunnerRun
  <2> HIDE DEF r
  <2>2. /\ ctx' = [ctx EXCEPT ![p].run = r, ![p].executed = TRUE, ![p].pc = "runner_manifest"]
        /\ run' = r /\ manifest' = manifest /\ files' = files
        /\ torn' = torn /\ stale' = stale
    BY <1>3 DEF r, RunnerRun, others
  <2>3. /\ ctx'[p].pc = "runner_manifest" /\ ctx'[p].mem = files
        /\ ctx'[p].cmd = ctx[p].cmd /\ ctx'[p].resumed = ctx[p].resumed
        /\ ctx'[p].executed = TRUE
    BY <1>1, <1>2, <1>3, <2>2 DEF RunnerRun, Contexts
  <2>4. Held(ctx'[p], files')
    BY <2>2, <2>3 DEF Held
  <2> QED
    BY <1>3, <2>1, <2>2, <2>3, <2>4 DEF RunnerRun, OnlyRun
<1>4. CASE RunnerManifest(p)
  BY <1>1, <1>4, ManifestMoves DEF RunnerManifest
<1>5. CASE LaunchRunner(p)
  BY <1>5, HandlerGoes DEF LaunchRunner
<1>6. CASE RunnerReturns(p)
  <2>1. PICK result \in RunnerResults :
            ctx' = [ctx EXCEPT ![p].mem["result"] = result, ![p].written = 0,
                               ![p].pc = "evidence"]
    BY <1>6 DEF RunnerReturns
  <2>2. /\ ctx'[p].pc = "evidence" /\ ctx'[p].written = 0
        /\ ctx'[p].cmd = ctx[p].cmd /\ ctx'[p].resumed = ctx[p].resumed
        /\ ctx'[p].executed = ctx[p].executed
        /\ ctx'[p].mem = [files EXCEPT !["result"] = result]
    BY <1>1, <1>2, <1>6, <2>1 DEF RunnerReturns, Contexts
  <2>3. Held(ctx'[p], files)
    BY <1>2, <2>2 DEF Held, FileSets, Artifacts, RunnerResults
  <2> QED
    BY <1>6, <2>2, <2>3 DEF RunnerReturns, Comes, OnlyFiles, others
<1>7. CASE CompletedManifest(p)
  BY ZenonT(30), <1>1, <1>7, ManifestCheckpoints
     DEF CompletedManifest, ExecutionStatus, ExecutionPending
<1>8. CASE CompletedRun(p)
  BY <1>1, <1>8, RunMoves DEF CompletedRun, ExecutionStatus, ExecutionPending
<1>9. CASE CompletedSnapshot(p)
  <2> DEFINE m == [ctx[p].manifest EXCEPT !.head = head]
             loc == IF ctx[p].mem["result"] = "completed"
                    THEN "verification_started" ELSE "finalize"
  <2>1. /\ m.status = ctx[p].manifest.status /\ m.stage = ctx[p].manifest.stage
        /\ m.pending = ctx[p].manifest.pending /\ m.approval = ctx[p].manifest.approval
        /\ m.checkpoint = ctx[p].manifest.checkpoint
    BY RunTypes DEF Manifests
  <2> HIDE DEF m
  <2>2. WriteManifest(p, m, loc) /\ UNCHANGED others
    BY <1>9 DEF m, CompletedSnapshot
  <2> QED
    BY <1>1, <1>9, <2>1, <2>2, ManifestComes DEF CompletedSnapshot, OnlyManifest
<1>10. CASE RelapseRun(p)
  BY <1>10, RunMoves DEF RelapseRun
<1>11. CASE RelapseManifest(p)
  BY <1>1, <1>11, ManifestMoves DEF RelapseManifest
<1> QED
  BY <1>3, <1>4, <1>5, <1>6, <1>7, <1>8, <1>9, <1>10, <1>11

\* What it does when the process `p` writes `value` for `kind`, and the place it
\* comes to; and some write of evidence.
EvidenceOf(p, kind, value, loc) ==
    /\ kind \in RunnerEvidence
    /\ kind = EvidenceOrder[ctx[p].written + 1] /\ ctx[p].written \in 0 .. 4
    /\ value # "absent" /\ (kind = "audit" => value \in AuditResults)
    /\ Comes(p, "evidence", loc) /\ ctx'[p].written = ctx[p].written + 1
    /\ run' = run /\ manifest' = manifest /\ files' = [files EXCEPT ![kind] = value]
    /\ torn' = torn /\ stale' = stale \ {kind}
    /\ \/ loc = "evidence"
       \/ /\ HasRunnerEvidence(files') /\ Fresh(p)
          /\ loc = IF ctx[p].executed THEN "completed_manifest" ELSE "blocked_snapshot"
          /\ ctx'[p].written = 5
       \/ /\ HasRunnerEvidence(files') /\ ~Fresh(p)
          /\ loc = IF files'["result"] = "completed"
                   THEN "verification_started" ELSE "relapse_run"
          /\ ctx'[p].written = 5

EvidenceEffect(p) == \E kind, value, loc : EvidenceOf(p, kind, value, loc)

LEMMA EvidenceEffects ==
    ASSUME TypeInv, ApprovalInv, SupplyInv, NEW p \in Procs, PersistEvidence(p)
    PROVE  EvidenceEffect(p)
<1> DEFINE n    == ctx[p].written + 1
           kind == EvidenceOrder[n]
           loc  == IF n = Len(EvidenceOrder) THEN AfterEvidence(p) ELSE "evidence"
<1>1. n \in 1 .. 5 /\ ctx[p].written \in 0 .. 4 /\ ctx[p].pc = "evidence"
  BY RunTypes, EvidenceLen DEF PersistEvidence, At, Typed, Contexts
<1>2. /\ kind \in RunnerEvidence
      /\ n = 1 => kind = "commands"
      /\ n = 2 => kind = "result"
      /\ n = 3 => kind = "changed"
      /\ n = 4 => kind = "diff"
      /\ n = 5 => kind = "audit"
  BY <1>1 DEF EvidenceOrder, RunnerEvidence
<1>3. PICK value :
          /\ value \in (CASE kind = "result" -> {ctx[p].mem["result"]}
                          [] kind = "audit"  -> AuditResults
                          [] OTHER           -> {"present"})
          /\ files' = [files EXCEPT ![kind] = value]
          /\ ctx' = [ctx EXCEPT ![p].mem[kind] = value, ![p].written = n, ![p].pc = loc]
          /\ stale' = stale \ {kind}
  BY DEF PersistEvidence
<1> HIDE DEF n, kind
<1>4. /\ ctx[p] \in Contexts /\ ctx \in [Procs -> Contexts]
      /\ ctx[p].mem \in FileSets /\ files \in FileSets
  BY Somewhere, RunTypes
<1>5. /\ ctx[p].mem["result"] # "absent"
      /\ \A i \in 1 .. ctx[p].written : files[EvidenceOrder[i]] # "absent"
      /\ \A a \in Artifacts \ {"result"} : ctx[p].mem[a] = files[a]
      /\ ctx[p].written >= 2 => ctx[p].mem["result"] = files["result"]
  BY <1>1 DEF SupplyInv, Held, UnloadedLocs
<1>6. /\ value # "absent"
      /\ kind = "audit" => value \in AuditResults
      /\ kind = "result" => value = ctx[p].mem["result"]
  BY <1>3, <1>5 DEF AuditResults
<1> DEFINE mem == [ctx[p].mem EXCEPT ![kind] = value]
<1>7. /\ ctx'[p].pc = loc /\ ctx'[p].cmd = ctx[p].cmd /\ ctx'[p].resumed = ctx[p].resumed
      /\ ctx'[p].executed = ctx[p].executed /\ ctx'[p].written = n /\ ctx'[p].mem = mem
  BY <1>3, <1>4 DEF Contexts
<1>8. \A a \in Artifacts : /\ a # kind => mem[a] = ctx[p].mem[a] /\ files'[a] = files[a]
                           /\ a = kind => mem[a] = value /\ files'[a] = value
  BY <1>3, <1>4 DEF FileSets
<1> HIDE DEF mem
<1>9. kind \in Artifacts /\ "result" \in Artifacts /\ (n # 2 => kind # "result")
  BY <1>1, <1>2 DEF RunnerEvidence, Artifacts
<1>10. \A a \in Artifacts \ {"result"} : mem[a] = files'[a]
  <2> SUFFICES ASSUME NEW a \in Artifacts \ {"result"}
               PROVE  mem[a] = files'[a]
    OBVIOUS
  <2>1. ctx[p].mem[a] = files[a]
    BY <1>5
  <2>2. CASE a = kind
    BY <1>8, <2>2
  <2>3. CASE a # kind
    BY <1>8, <2>1, <2>3
  <2> QED
    BY <2>2, <2>3
<1>11. n >= 2 => mem["result"] = files'["result"]
  <2>1. CASE n = 2
    BY <1>2, <1>8, <1>9, <2>1
  <2>2. CASE n # 2 /\ n >= 2
    <3>1. ctx[p].mem["result"] = files["result"]
      BY <1>1, <1>5, <2>2 DEF n
    <3>2. "result" # kind /\ "result" \in Artifacts
      BY <1>9, <2>2
    <3> QED
      BY <1>8, <3>1, <3>2
  <2> QED
    BY <2>1, <2>2
<1>12. mem["result"] # "absent"
  BY <1>5, <1>6, <1>8, <1>9
<1>13. \A i \in 1 .. n : files'[EvidenceOrder[i]] # "absent"
  <2> SUFFICES ASSUME NEW i \in 1 .. n
               PROVE  files'[EvidenceOrder[i]] # "absent"
    OBVIOUS
  <2>1. EvidenceOrder[i] \in Artifacts
    BY <1>1 DEF EvidenceOrder, Artifacts
  <2>2. CASE EvidenceOrder[i] = kind
    BY <1>6, <1>8, <2>1, <2>2
  <2>3. CASE EvidenceOrder[i] # kind
    <3>1. i \in 1 .. ctx[p].written
      BY <1>1, <2>3 DEF n, kind
    <3> QED
      BY <1>5, <1>8, <2>1, <2>3, <3>1
  <2> QED
    BY <2>2, <2>3
<1>14. Held(ctx'[p], files')
  <2>1. ctx'[p].pc = "evidence" \/ n = 5
    BY <1>7, EvidenceLen
  <2> QED
    BY <1>7, <1>10, <1>11, <1>12, <1>13, <2>1 DEF Held
<1>15. n = 5 => HasRunnerEvidence(files')
  <2> SUFFICES ASSUME n = 5, NEW a \in RunnerEvidence
               PROVE  files'[a] # "absent" /\ a \in Artifacts
    BY DEF HasRunnerEvidence, Present
  <2>1. \E i \in 1 .. 5 : EvidenceOrder[i] = a
    BY DEF EvidenceOrder, RunnerEvidence
  <2> QED
    BY <1>13, <2>1 DEF RunnerEvidence, Artifacts
<1>16. Comes(p, "evidence", loc)
  BY <1>1, <1>7, <1>14 DEF Comes
<1>17. n = 5 => ctx[p].mem["result"] = files'["result"]
  <2> SUFFICES ASSUME n = 5
               PROVE  ctx[p].mem["result"] = files'["result"]
    OBVIOUS
  <2>1. ctx[p].mem["result"] = files["result"]
    BY <1>1, <1>5 DEF n
  <2>2. "result" # kind /\ "result" \in Artifacts
    BY <1>9
  <2> QED
    BY <1>8, <2>1, <2>2
<1>18. run' = run /\ manifest' = manifest /\ torn' = torn
  BY DEF PersistEvidence
<1>19. /\ kind = EvidenceOrder[ctx[p].written + 1] /\ ctx'[p].written = ctx[p].written + 1
       /\ files' = [files EXCEPT ![kind] = value] /\ stale' = stale \ {kind}
  BY <1>3, <1>7 DEF n, kind
<1>20. \/ loc = "evidence"
       \/ /\ HasRunnerEvidence(files') /\ Fresh(p)
          /\ loc = IF ctx[p].executed THEN "completed_manifest" ELSE "blocked_snapshot"
          /\ ctx'[p].written = 5
       \/ /\ HasRunnerEvidence(files') /\ ~Fresh(p)
          /\ loc = IF files'["result"] = "completed"
                   THEN "verification_started" ELSE "relapse_run"
          /\ ctx'[p].written = 5
  <2>1. CASE n = 5
    BY <1>7, <1>15, <1>17, <2>1, EvidenceLen DEF AfterEvidence
  <2>2. CASE n # 5
    BY <2>2, EvidenceLen
  <2> QED
    BY <2>1, <2>2
<1> HIDE DEF loc
<1> QED
  BY <1>1, <1>2, <1>6, <1>16, <1>18, <1>19, <1>20 DEF EvidenceEffect, EvidenceOf

\* What completeVerificationTransition does, and `gdh verify`.
VerdictEffect(p) ==
    \/ /\ ctx[p].cmd = "verify"
       /\ Comes(p, "verification_started", "verifying")
       /\ OnlyRun("verifying", run.stage, run.pending)
    \/ /\ ctx[p].cmd # "verify"
       /\ Comes(p, "verification_started", IF Fresh(p) THEN "verify_manifest" ELSE "verifying")
       /\ OnlyRun("verifying", "verification_started", "verification_completed")
    \/ /\ Comes(p, "verify_manifest", "verifying")
       /\ OnlyManifest("verifying", "verification_started", "verification_completed",
                       manifest.approval, manifest.checkpoint)
    \/ \E verdict \in Verdicts :
          /\ Comes(p, "verifying", "verdict_run")
          /\ OnlyFiles(Overlay([verification |-> verdict], files))
          /\ verdict = "passed" =>
                 /\ files["audit"] # "breach" /\ files["audit"] # "absent"
                 /\ Approved(files)
    \/ /\ Comes(p, "verdict_run", "verdict_manifest")
       /\ run'.status = IF files["verification"] = "passed" THEN "completed" ELSE "failed"
       /\ run'.stage = "verification_completed" /\ run'.pending = NoStage
       /\ run'.verification = files["verification"]
       /\ manifest' = manifest /\ files' = files /\ torn' = torn /\ stale' = stale
    \/ /\ ctx[p].cmd = "verify" /\ ctx[p].pc = "verdict_manifest" /\ ctx'[p] = Idle
       /\ manifest'.status = IF files["verification"] = "passed" THEN "completed" ELSE "failed"
       /\ manifest'.stage = "verification_completed" /\ manifest'.pending = NoStage
       /\ manifest'.approval = manifest.approval
       /\ run' = run /\ files' = files /\ torn' = FALSE /\ stale' = stale
    \/ /\ ctx[p].cmd # "verify"
       /\ Comes(p, "verdict_manifest", AfterAdvance(p))
       /\ OnlyManifest(IF files["verification"] = "passed" THEN "completed" ELSE "failed",
                       "verification_completed", NoStage, manifest.approval,
                       IF Fresh(p) THEN "verification_completed" ELSE manifest.checkpoint)

LEMMA VerdictEffects ==
    ASSUME TypeInv, ApprovalInv, SupplyInv, NEW p \in Procs,
           \/ VerificationRun(p) \/ VerificationManifest(p) \/ RunVerification(p)
           \/ VerdictRun(p) \/ VerdictManifest(p)
    PROVE  VerdictEffect(p)
<1> USE DEF VerdictEffect, UnloadedLocs, DetachedLocs, At
<1>1. ASSUME ctx[p].pc \notin {"idle", "load", "verify_load", "evidence"}
      PROVE  /\ ctx[p].run = run /\ ctx[p].mem = files
             /\ ctx[p].pc \notin DetachedLocs => ctx[p].manifest = manifest
  BY <1>1, OnDisk
<1>2. /\ run \in RunRecords /\ manifest \in Manifests /\ files \in FileSets
      /\ ctx[p] \in Contexts /\ ctx \in [Procs -> Contexts]
  BY Somewhere
<1>3. CASE VerificationRun(p) /\ ctx[p].cmd = "verify"
  <2> DEFINE r == Moved(ctx[p].run, "verifying", ctx[p].run.stage, ctx[p].run.pending)
  <2>1. [ctx[p].run EXCEPT !.status = "verifying"] = r
    BY RunTypes, StatusMoved
  <2>2. WriteRun(p, r, "verifying")
    BY <1>3, <2>1 DEF VerificationRun, Fresh
  <2> QED
    BY <1>1, <1>3, <2>2, RunMoves DEF VerificationRun
<1>4. CASE VerificationRun(p) /\ ctx[p].cmd # "verify"
  BY <1>4, RunMoves DEF VerificationRun
<1>5. CASE VerificationManifest(p)
  BY <1>1, <1>5, ManifestMoves DEF VerificationManifest
<1>6. CASE RunVerification(p)
  <2>1. PICK checksPass \in BOOLEAN :
          LET passed == /\ checksPass
                        /\ PolicyCompliant(ctx[p].mem)
                        /\ ExpectedArtifacts(ctx[p].mem) \subseteq Present(files)
          IN  WriteFiles(p, [verification |-> IF passed THEN "passed" ELSE "failed"],
                         "verdict_run")
    BY <1>6 DEF RunVerification
  <2> DEFINE passed == /\ checksPass
                       /\ PolicyCompliant(ctx[p].mem)
                       /\ ExpectedArtifacts(ctx[p].mem) \subseteq Present(files)
             verdict == IF passed THEN "passed" ELSE "failed"
  <2>2. ctx[p].mem = files
    BY <1>1, <1>6 DEF RunVerification
  <2>3. verdict = "passed" =>
            /\ files["audit"] # "breach" /\ files["audit"] # "absent"
            /\ Approved(files)
    BY <2>2 DEF PolicyCompliant, ExpectedArtifacts, RunnerEvidence, Present, Approved
  <2>4. WriteFiles(p, [verification |-> verdict], "verdict_run")
    BY <2>1
  <2>5. verdict \in Verdicts
    BY DEF Verdicts
  <2> HIDE DEF verdict
  <2>6. Comes(p, "verifying", "verdict_run")
        /\ OnlyFiles(Overlay([verification |-> verdict], files))
    BY <1>6, <2>4, FilesCome DEF RunVerification, others
  <2> QED
    BY <2>3, <2>5, <2>6
<1>7. CASE VerdictRun(p)
  <2> DEFINE r == [Moved(ctx[p].run, FinalStatus(p), "verification_completed", NoStage)
                       EXCEPT !.verification = ctx[p].mem["verification"]]
  <2>1. /\ r.status = FinalStatus(p) /\ r.stage = "verification_completed"
        /\ r.pending = NoStage /\ r.verification = ctx[p].mem["verification"]
    BY RunTypes DEF Moved, RunRecords
  <2> HIDE DEF r
  <2>2. WriteRun(p, r, "verdict_manifest") /\ UNCHANGED others
    BY <1>7 DEF r, VerdictRun
  <2>3. /\ Comes(p, "verdict_run", "verdict_manifest")
        /\ run' = r /\ manifest' = manifest /\ files' = files
        /\ torn' = torn /\ stale' = stale
    BY <1>7, <2>2, RunComes DEF VerdictRun
  <2>4. ctx[p].mem = files
    BY <1>1, <1>7 DEF VerdictRun
  <2> QED
    BY <2>1, <2>3, <2>4 DEF FinalStatus
<1>8. CASE VerdictManifest(p)
  <2> DEFINE m == Moved(ctx[p].manifest, FinalStatus(p), "verification_completed", NoStage)
             n == Checkpointed(m, "verification_completed")
  <2>1. ctx[p].manifest = manifest /\ ctx[p].mem = files /\ ctx[p].pc = "verdict_manifest"
    BY <1>1, <1>8 DEF VerdictManifest
  <2>2. /\ m.status = FinalStatus(p) /\ m.stage = "verification_completed"
        /\ m.pending = NoStage /\ m.approval = manifest.approval
        /\ n.status = FinalStatus(p) /\ n.stage = "verification_completed"
        /\ n.pending = NoStage /\ n.approval = manifest.approval
        /\ m.checkpoint = manifest.checkpoint /\ n.checkpoint = "verification_completed"
    BY <2>1, RunTypes DEF Moved, Manifests, Checkpointed
  <2>3. FinalStatus(p) = IF files["verification"] = "passed" THEN "completed" ELSE "failed"
    BY <2>1 DEF FinalStatus
  <2> DEFINE w == IF Fresh(p) THEN n ELSE m
  <2>4. CASE ctx[p].cmd = "verify"
    <3>1. ctx'[p] = Idle /\ manifest' = m /\ run' = run /\ files' = files
          /\ torn' = FALSE /\ stale' = stale
      BY <1>2, <1>8, <2>4 DEF VerdictManifest
    <3> HIDE DEF m
    <3> QED
      BY <2>1, <2>2, <2>3, <2>4, <3>1
  <2>5. CASE ctx[p].cmd # "verify"
    <3>1. WriteManifest(p, w, AfterAdvance(p)) /\ UNCHANGED others
      BY <1>8, <2>5 DEF VerdictManifest, others
    <3>2. /\ w.status = FinalStatus(p) /\ w.stage = "verification_completed"
          /\ w.pending = NoStage /\ w.approval = manifest.approval
          /\ w.checkpoint = IF Fresh(p) THEN "verification_completed"
                            ELSE manifest.checkpoint
      BY <2>2
    <3> HIDE DEF w
    <3>3. AfterAdvance(p) # "evidence"
      BY DEF AfterAdvance
    <3> QED
      BY <2>1, <2>3, <2>5, <3>1, <3>2, <3>3, ManifestComes DEF OnlyManifest
  <2> QED
    BY <2>4, <2>5
<1> QED
  BY <1>3, <1>4, <1>5, <1>6, <1>7, <1>8

\* What finalizeFreshRun does.
FinalEffect(p) ==
    \/ /\ ctx[p].executed
       /\ Comes(p, "finalize", "final_run")
       /\ OnlyFiles(files)
    \/ /\ ~ctx[p].executed
       /\ Comes(p, "finalize", "evidence") /\ ctx'[p].written = 0
       /\ OnlyFiles(files)
    \/ /\ Comes(p, "blocked_snapshot", "final_run")
       /\ OnlyManifest(manifest.status, manifest.stage, manifest.pending, manifest.approval,
                       manifest.checkpoint)
    \/ /\ Comes(p, "final_run", "final_manifest")
       /\ OnlyRun(run.status, run.stage, run.pending)
    \/ /\ ctx[p].pc = "final_manifest" /\ ctx'[p] = Idle
       /\ OnlyManifest(run.status, manifest.stage, manifest.pending, manifest.approval,
                       manifest.checkpoint)

LEMMA FinalEffects ==
    ASSUME TypeInv, ApprovalInv, SupplyInv, NEW p \in Procs,
           Finalize(p) \/ BlockedSnapshot(p) \/ FinalRun(p) \/ FinalManifest(p)
    PROVE  FinalEffect(p)
<1> USE DEF FinalEffect, UnloadedLocs, DetachedLocs, At
<1>1. ASSUME ctx[p].pc \notin {"idle", "load", "verify_load", "evidence"}
      PROVE  /\ ctx[p].run = run /\ ctx[p].mem = files
             /\ ctx[p].pc \notin DetachedLocs => ctx[p].manifest = manifest
  BY <1>1, OnDisk
<1>2. /\ run \in RunRecords /\ manifest \in Manifests /\ files \in FileSets
      /\ ctx[p] \in Contexts /\ ctx \in [Procs -> Contexts]
  BY Somewhere
<1>3. CASE Finalize(p) /\ ctx[p].executed
  <2>1. GoTo(p, "final_run") /\ torn' = torn /\ stale' = stale
    BY <1>3 DEF Finalize, GoTo, others
  <2> QED
    BY <1>3, <2>1, HandlerGoes DEF Finalize
<1>4. CASE Finalize(p) /\ ~ctx[p].executed
  <2>1. ctx' = [ctx EXCEPT ![p].mem["result"] = "blocked", ![p].written = 0,
                           ![p].pc = "evidence"]
    BY <1>4 DEF Finalize
  <2>2. /\ ctx'[p].pc = "evidence" /\ ctx'[p].written = 0
        /\ ctx'[p].cmd = ctx[p].cmd /\ ctx'[p].resumed = ctx[p].resumed
        /\ ctx'[p].executed = ctx[p].executed
        /\ ctx'[p].mem = [files EXCEPT !["result"] = "blocked"]
    BY <1>1, <1>2, <1>4, <2>1 DEF Finalize, Contexts
  <2>3. Held(ctx'[p], files)
    BY <1>2, <2>2 DEF Held, FileSets, Artifacts
  <2> QED
    BY <1>4, <2>2, <2>3 DEF Finalize, Comes, OnlyFiles, others
<1>5. CASE BlockedSnapshot(p)
  <2> DEFINE m == [ctx[p].manifest EXCEPT !.head = head]
  <2>1. /\ m.status = ctx[p].manifest.status /\ m.stage = ctx[p].manifest.stage
        /\ m.pending = ctx[p].manifest.pending /\ m.approval = ctx[p].manifest.approval
        /\ m.checkpoint = ctx[p].manifest.checkpoint
    BY RunTypes DEF Manifests
  <2> HIDE DEF m
  <2>2. WriteManifest(p, m, "final_run") /\ UNCHANGED others
    BY <1>5 DEF m, BlockedSnapshot
  <2> QED
    BY <1>1, <1>5, <2>1, <2>2, ManifestComes DEF BlockedSnapshot, OnlyManifest
<1>6. CASE FinalRun(p)
  BY <1>1, <1>6, RunComes DEF FinalRun, OnlyRun
<1>7. CASE FinalManifest(p)
  <2>1. ctx[p].run = run /\ ctx[p].manifest = manifest
    BY <1>1, <1>7 DEF FinalManifest
  <2>2. manifest' = [manifest EXCEPT !.status = run.status] /\ ctx'[p] = Idle
    BY <1>2, <1>7, <2>1 DEF FinalManifest
  <2> QED
    BY <1>2, <1>7, <2>2 DEF FinalManifest, OnlyManifest, others, Manifests
<1> QED
  BY <1>3, <1>4, <1>5, <1>6, <1>7

\* What `gdh run` begins with.
CreateEffect(p) ==
    /\ run = NoRun /\ manifest = NoManifest /\ files = NoFiles /\ ctx[p] = Idle
    /\ run'.status = "created" /\ run'.stage = "created"
    /\ run'.verification = "not_run"
    /\ manifest' = manifest /\ files' = files /\ torn' = torn /\ stale' = stale
    /\ ctx'[p].pc = "create_manifest" /\ ctx'[p].cmd = "run"
    /\ ctx'[p].resumed = FALSE /\ ctx'[p].executed = FALSE
    /\ ctx'[p].manifest.status = "created" /\ ctx'[p].manifest.approval = "not_required"
    /\ Held(ctx'[p], files')

LEMMA CreateEffects ==
    ASSUME TypeInv, ApprovalInv, NEW p \in Procs, CreateRun(p)
    PROVE  CreateEffect(p)
<1>1. run = NoRun /\ manifest = NoManifest /\ files = NoFiles /\ ctx[p] = Idle
  BY DEF CreateRun, ApprovalInv, Unborn, NoRun
<1> DEFINE r == Moved(NoRun, "created", "created", "spec_normalized")
           m == [Moved(NoManifest, "created", "created", "spec_normalized")
                     EXCEPT !.head = head]
<1>2. /\ r.status = "created" /\ r.stage = "created" /\ r.verification = "not_run"
      /\ m.status = "created" /\ m.approval = "not_required"
  BY DEF Moved, NoRun, NoManifest
<1> HIDE DEF r, m
<1>3. /\ run' = r /\ UNCHANGED <<manifest, files, others>>
      /\ ctx' = [ctx EXCEPT ![p] = [Idle EXCEPT !.cmd = "run", !.run = r, !.manifest = m,
                                        !.pc = "create_manifest"]]
  BY DEF CreateRun, r, m
<1>4. /\ ctx'[p].pc = "create_manifest" /\ ctx'[p].cmd = "run" /\ ctx'[p].manifest = m
      /\ ctx'[p].resumed = FALSE /\ ctx'[p].executed = FALSE /\ ctx'[p].mem = NoFiles
  BY <1>3 DEF TypeInv, TypeOK, Idle
<1>5. Held(ctx'[p], files')
  BY <1>1, <1>3, <1>4 DEF Held
<1> QED
  BY <1>1, <1>2, <1>3, <1>4, <1>5 DEF CreateEffect, others

\* What a command begins with, and what ends it early.
OnlyMemory == OnlyFiles(files)

EntryEffect(p) ==
    \/ \E cmd \in Commands :
          /\ ctx[p].pc = "idle" /\ run # NoRun /\ OnlyMemory
          /\ ctx'[p].pc = IF cmd = "verify" THEN "verify_load" ELSE "load"
          /\ ctx'[p].cmd = cmd /\ ctx'[p].resumed = FALSE /\ ctx'[p].executed = FALSE
    \/ /\ ctx[p].pc = "load" /\ manifest = NoManifest
       /\ ctx'[p] = Idle /\ OnlyMemory
    \/ /\ Comes(p, "load", IF manifest.status \in ActiveStatuses
                           THEN "interrupt" ELSE "inspect")
       /\ manifest # NoManifest /\ ctx'[p].manifest = manifest /\ OnlyMemory
    \/ /\ ctx[p].pc = "unsupported" /\ ctx'[p] = Idle /\ OnlyMemory
    \/ /\ ctx[p].pc = "verify_load" /\ ctx'[p] = Idle /\ OnlyMemory
    \/ /\ Comes(p, "verify_load", "verification_started")
       /\ {"spec", "plan", "decision"} \subseteq Present(files) /\ OnlyMemory
    \/ /\ ctx[p].cmd # "none" /\ ctx'[p] = Idle
       /\ run' = run /\ manifest' = manifest /\ files' = files
       /\ torn' = TRUE /\ stale' = stale

LEMMA EntryEffects ==
    ASSUME TypeInv, ApprovalInv, SupplyInv, NEW p \in Procs,
           \/ \E cmd \in Commands : Invoke(p, cmd)
           \/ Load(p) \/ Unsupported(p) \/ VerifyLoad(p) \/ Crash(p)
    PROVE  EntryEffect(p)
<1> USE DEF EntryEffect, OnlyMemory, OnlyFiles, At, others
<1>1. ctx[p] \in Contexts /\ ctx \in [Procs -> Contexts]
  BY Somewhere
<1>2. ASSUME NEW cmd \in Commands, Invoke(p, cmd)
      PROVE  EntryEffect(p)
  <2>1. /\ ctx'[p].pc = IF cmd = "verify" THEN "verify_load" ELSE "load"
        /\ ctx'[p].cmd = cmd /\ ctx'[p].resumed = FALSE /\ ctx'[p].executed = FALSE
    BY <1>1, <1>2 DEF Invoke, Idle
  <2> QED
    BY <1>2, <2>1 DEF Invoke
<1>3. CASE Load(p) /\ manifest = NoManifest
  BY <1>1, <1>3 DEF Load
<1>4. CASE Load(p) /\ manifest # NoManifest
  <2> DEFINE loc == IF manifest.status \in ActiveStatuses THEN "interrupt" ELSE "inspect"
  <2>1. /\ ctx'[p].pc = loc /\ ctx'[p].manifest = manifest /\ ctx'[p].mem = files
        /\ ctx'[p].cmd = ctx[p].cmd /\ ctx'[p].resumed = ctx[p].resumed
        /\ ctx'[p].executed = ctx[p].executed
    BY <1>1, <1>4 DEF Load, Contexts
  <2>2. OnlyFiles(files) /\ ctx[p].pc = "load"
    BY <1>4 DEF Load
  <2>3. Held(ctx'[p], files') /\ ctx'[p].pc # "evidence"
    BY <2>1, <2>2 DEF Held
  <2> HIDE DEF loc
  <2>4. Comes(p, "load", loc)
    BY <2>1, <2>2, <2>3 DEF Comes
  <2> QED
    BY <1>4, <2>1, <2>2, <2>4 DEF loc
<1>5. CASE Unsupported(p)
  BY <1>1, <1>5 DEF Unsupported
<1>6. CASE VerifyLoad(p)
  <2>1. CASE ctx' = [ctx EXCEPT ![p] = Idle]
    BY <1>1, <1>6, <2>1 DEF VerifyLoad
  <2>2. CASE {"spec", "plan", "decision"} \subseteq Present(files)
             /\ ctx' = [ctx EXCEPT ![p].run = run, ![p].manifest = manifest, ![p].mem = files,
                                   ![p].pc = "verification_started"]
    <3>1. /\ ctx'[p].pc = "verification_started" /\ ctx'[p].mem = files
          /\ ctx'[p].cmd = ctx[p].cmd /\ ctx'[p].resumed = ctx[p].resumed
          /\ ctx'[p].executed = ctx[p].executed
      BY <1>1, <2>2 DEF Contexts
    <3>2. OnlyFiles(files) /\ ctx[p].pc = "verify_load"
      BY <1>6 DEF VerifyLoad
    <3>3. Held(ctx'[p], files')
      BY <3>1, <3>2 DEF Held
    <3> QED
      BY <2>2, <3>1, <3>2, <3>3 DEF Comes
  <2> QED
    BY <1>6, <2>1, <2>2 DEF VerifyLoad
<1>7. CASE Crash(p)
  BY <1>1, <1>7 DEF Crash
<1> QED
  BY <1>2, <1>3, <1>4, <1>5, <1>6, <1>7

\* What prepareRunInspection does, and the beginning of a resume.
InspectEffect(p) ==
    \/ /\ Comes(p, "interrupt", "inspect")
       /\ run'.status = "interrupted" /\ run'.stage = run.stage
       /\ run'.verification = run.verification
       /\ manifest' = manifest /\ files' = files /\ torn' = torn /\ stale' = stale
       /\ ctx'[p].manifest \in Manifests
       /\ ctx'[p].manifest.status = "interrupted"
       /\ ctx'[p].manifest.stage = run.stage
       /\ ctx'[p].manifest.approval = manifest.approval
       /\ ctx'[p].manifest.checkpoint = manifest.checkpoint
       /\ LET next == DetermineNextStage(run, manifest, files)
          IN  ctx'[p].manifest.pending = IF next = NoStage THEN manifest.stage ELSE next
    \/ LET m    == ctx[p].manifest
           ok   == Eligible(run, m, files, Present(files), head)
           next == DetermineNextStage(run, m, files)
       IN  /\ Comes(p, "inspect", "inspect_manifest")
           /\ OnlyRun(InspectedStatus(run, m, ok), run.stage, next)
           /\ ctx'[p].manifest = m /\ ctx'[p].next = next /\ ctx'[p].eligible = ok
    \/ /\ ctx[p].pc = "inspect_manifest"
       /\ manifest'.status = run.status /\ manifest'.stage = run.stage
       /\ manifest'.pending = ctx[p].next
       /\ manifest'.approval = ctx[p].manifest.approval
       /\ manifest'.checkpoint = ctx[p].manifest.checkpoint
       /\ run' = run /\ files' = files /\ torn' = FALSE /\ stale' = stale
       /\ \/ ctx'[p] = Idle
          \/ /\ ctx[p].cmd = "resume" /\ ctx[p].resumed = FALSE /\ ctx[p].eligible
             /\ Comes(p, "inspect_manifest", "resume_run")
             /\ ctx'[p].manifest = manifest' /\ ctx'[p].next = ctx[p].next
    \/ /\ Comes(p, "resume_run", "resume_manifest")
       /\ OnlyRun("resuming", ctx[p].next, ctx[p].next)
       /\ ctx'[p].manifest = ctx[p].manifest /\ ctx'[p].next = ctx[p].next
    \/ /\ ctx[p].pc = "resume_manifest"
       /\ OnlyManifest("resuming", ctx[p].next, ctx[p].next, manifest.approval,
                       manifest.checkpoint)
       /\ ctx'[p].pc = IF ctx[p].next \in HandledStages THEN ctx[p].next ELSE "unsupported"
       /\ ctx'[p].cmd = ctx[p].cmd /\ ctx'[p].resumed = TRUE
       /\ ctx'[p].executed = ctx[p].executed /\ Held(ctx'[p], files')
       /\ ctx'[p].next = ctx[p].next

LEMMA InspectEffects ==
    ASSUME TypeInv, ApprovalInv, SupplyInv, NEW p \in Procs,
           \/ Interrupt(p) \/ Inspect(p) \/ InspectManifest(p)
           \/ ResumeRun(p) \/ ResumeManifest(p)
    PROVE  InspectEffect(p)
<1> USE DEF InspectEffect, UnloadedLocs, DetachedLocs, At, others
<1>1. ASSUME ctx[p].pc \notin {"idle", "load", "verify_load", "evidence"}
      PROVE  /\ ctx[p].run = run /\ ctx[p].mem = files
             /\ ctx[p].pc \notin DetachedLocs => ctx[p].manifest = manifest
  BY <1>1, OnDisk
<1>2. /\ run \in RunRecords /\ manifest \in Manifests /\ files \in FileSets
      /\ ctx[p] \in Contexts /\ ctx \in [Procs -> Contexts]
      /\ ctx[p].manifest \in Manifests
  BY Somewhere, RunTypes
<1>3. CASE Interrupt(p)
  <2> DEFINE next == DetermineNextStage(run, manifest, files)
             r    == Moved(run, "interrupted", run.stage,
                           IF next = NoStage THEN run.stage ELSE next)
             m    == Moved(manifest, "interrupted", run.stage,
                           IF next = NoStage THEN manifest.stage ELSE next)
  <2>1. ctx[p].run = run /\ ctx[p].mem = files /\ ctx[p].manifest = manifest
        /\ ctx[p].pc = "interrupt"
    BY <1>1, <1>3 DEF Interrupt
  <2>2. /\ r.status = "interrupted" /\ r.stage = run.stage
        /\ r.verification = run.verification
        /\ m.status = "interrupted" /\ m.stage = run.stage
        /\ m.approval = manifest.approval /\ m.checkpoint = manifest.checkpoint
        /\ m.pending = IF next = NoStage THEN manifest.stage ELSE next
    BY <1>2 DEF Moved, RunRecords, Manifests
  <2>3. /\ ctx' = [ctx EXCEPT ![p].run = r, ![p].manifest = m, ![p].pc = "inspect"]
        /\ run' = r /\ UNCHANGED <<manifest, files, others>>
    BY <1>3, <2>1 DEF Interrupt
  <2> HIDE DEF r, m
  <2>4. /\ ctx'[p].pc = "inspect" /\ ctx'[p].manifest = m /\ ctx'[p].mem = files
        /\ ctx'[p].cmd = ctx[p].cmd /\ ctx'[p].resumed = ctx[p].resumed
        /\ ctx'[p].executed = ctx[p].executed
    BY <1>2, <2>1, <2>3 DEF Contexts
  <2>5. Held(ctx'[p], files')
    BY <2>3, <2>4 DEF Held
  <2>6. m \in Manifests
    BY <1>3, <2>4, TypeInspection, RunTypes DEF TypeInv, TypeOK, Contexts
  <2> QED
    BY <2>1, <2>2, <2>3, <2>4, <2>5, <2>6 DEF Comes
<1>4. CASE Inspect(p)
  <2> DEFINE m    == ctx[p].manifest
             ok   == Eligible(run, m, files, Present(files), head)
             next == DetermineNextStage(run, m, files)
             r    == Moved(run, InspectedStatus(run, m, ok), run.stage, next)
  <2>1. ctx[p].run = run /\ ctx[p].mem = files /\ ctx[p].pc = "inspect"
    BY <1>1, <1>4 DEF Inspect
  <2> HIDE DEF ok, next
  <2>2. /\ r.status = InspectedStatus(run, m, ok) /\ r.stage = run.stage
        /\ r.pending = next /\ r.verification = run.verification
    BY <1>2 DEF Moved, RunRecords
  <2>3. /\ ctx' = [ctx EXCEPT ![p].run = r, ![p].eligible = ok, ![p].next = r.pending,
                              ![p].pc = "inspect_manifest"]
        /\ run' = r /\ UNCHANGED <<manifest, files, others>>
    BY <1>4, <2>1 DEF Inspect, ok, next
  <2> HIDE DEF r
  <2>4. /\ ctx'[p].pc = "inspect_manifest" /\ ctx'[p].manifest = m /\ ctx'[p].mem = files
        /\ ctx'[p].cmd = ctx[p].cmd /\ ctx'[p].resumed = ctx[p].resumed
        /\ ctx'[p].executed = ctx[p].executed
        /\ ctx'[p].next = next /\ ctx'[p].eligible = ok
    BY <1>2, <2>1, <2>2, <2>3 DEF Contexts
  <2>5. Comes(p, "inspect", "inspect_manifest")
    BY <2>1, <2>3, <2>4 DEF Held, Comes
  <2>6. OnlyRun(InspectedStatus(run, m, ok), run.stage, next)
    BY <2>2, <2>3 DEF OnlyRun
  <2> QED
    BY <2>4, <2>5, <2>6 DEF ok, next
<1>5. CASE InspectManifest(p)
  <2> DEFINE m == Moved(ctx[p].manifest, ctx[p].run.status, ctx[p].run.stage, ctx[p].next)
  <2>1. ctx[p].run = run /\ ctx[p].mem = files /\ ctx[p].pc = "inspect_manifest"
    BY <1>1, <1>5 DEF InspectManifest
  <2>2. /\ m.status = run.status /\ m.stage = run.stage /\ m.pending = ctx[p].next
        /\ m.approval = ctx[p].manifest.approval
        /\ m.checkpoint = ctx[p].manifest.checkpoint
    BY <1>2, <2>1 DEF Moved, Manifests
  <2>3. /\ manifest' = m /\ torn' = FALSE /\ UNCHANGED <<run, files, stale>>
        /\ \/ ctx' = [ctx EXCEPT ![p] = Idle]
           \/ /\ ctx[p].cmd = "resume" /\ ~ctx[p].resumed /\ ctx[p].eligible
              /\ ctx' = [ctx EXCEPT ![p].manifest = m, ![p].pc = "resume_run"]
    BY <1>5 DEF InspectManifest
  <2> HIDE DEF m
  <2>4. CASE ctx' = [ctx EXCEPT ![p] = Idle]
    BY <1>2, <2>1, <2>2, <2>3, <2>4
  <2>5. CASE /\ ctx[p].cmd = "resume" /\ ~ctx[p].resumed /\ ctx[p].eligible
             /\ ctx' = [ctx EXCEPT ![p].manifest = m, ![p].pc = "resume_run"]
    <3>1. /\ ctx'[p].pc = "resume_run" /\ ctx'[p].manifest = m /\ ctx'[p].mem = files
          /\ ctx'[p].cmd = ctx[p].cmd /\ ctx'[p].resumed = ctx[p].resumed
          /\ ctx'[p].executed = ctx[p].executed /\ ctx'[p].next = ctx[p].next
      BY <1>2, <2>1, <2>5 DEF Contexts
    <3>2. Comes(p, "inspect_manifest", "resume_run")
      BY <2>1, <2>3, <3>1 DEF Held, Comes
    <3>3. ctx[p].resumed = FALSE
      BY <1>2, <2>5 DEF Contexts
    <3> QED
      BY <2>1, <2>2, <2>3, <2>5, <3>1, <3>2, <3>3
  <2> QED
    BY <2>3, <2>4, <2>5
<1>6. CASE ResumeRun(p)
  <2>1. ctx'[p].manifest = ctx[p].manifest /\ ctx'[p].next = ctx[p].next
    BY <1>6, RunWritten DEF ResumeRun
  <2> QED
    BY <1>6, <2>1, RunMoves DEF ResumeRun
<1>7. CASE ResumeManifest(p)
  <2> DEFINE m == Moved(manifest, "resuming", ctx[p].next, ctx[p].next)
             loc == IF ctx[p].next \in HandledStages THEN ctx[p].next ELSE "unsupported"
  <2>1. ctx[p].run = run /\ ctx[p].mem = files /\ ctx[p].manifest = manifest
        /\ ctx[p].pc = "resume_manifest"
    BY <1>1, <1>7 DEF ResumeManifest
  <2>2. /\ m.status = "resuming" /\ m.stage = ctx[p].next /\ m.pending = ctx[p].next
        /\ m.approval = manifest.approval /\ m.checkpoint = manifest.checkpoint
    BY <1>2 DEF Moved, Manifests
  <2>3. /\ manifest' = m /\ UNCHANGED <<run, files, others>>
        /\ ctx' = [ctx EXCEPT ![p].manifest = m, ![p].resumed = TRUE, ![p].pc = loc]
    BY <1>7, <2>1 DEF ResumeManifest
  <2>4. loc # "evidence"
    BY DEF HandledStages
  <2> HIDE DEF m, loc
  <2>5. /\ ctx'[p].pc = loc /\ ctx'[p].mem = files
        /\ ctx'[p].cmd = ctx[p].cmd /\ ctx'[p].resumed = TRUE
        /\ ctx'[p].executed = ctx[p].executed /\ ctx'[p].next = ctx[p].next
    BY <1>2, <2>1, <2>3 DEF Contexts
  <2>6. Held(ctx'[p], files')
    BY <2>3, <2>4, <2>5 DEF Held
  <2> QED
    BY <2>1, <2>2, <2>3, <2>5, <2>6 DEF OnlyManifest, loc
<1> QED
  BY <1>3, <1>4, <1>5, <1>6, <1>7

-----------------------------------------------------------------------------
(* What the handlers find. *)

\* What holds of the only process holds of all.
LEMMA OnlySupply ==
    ASSUME OneCommand, NEW p \in Procs, Ordered(files'),
           Placed(ctx'[p]), Held(ctx'[p], files'), Supplied(ctx'[p], files')
    PROVE  SupplyInv'
BY DEF OneCommand, SupplyInv

\* A process that is not there needs nothing.
LEMMA IdleSupply ==
    /\ Placed(Idle) /\ Held(Idle, files') /\ Supplied(Idle, files')
BY DEF Placed, Held, Supplied, Idle, UnloadedLocs, InspectionLocs, JudgeLocs, FinalLocs,
       DecidedLocs, ExecutedLocs, Admitted, ApprovalLocs, RunnerLocs

\* Artifacts that are written are there, and the others are as they were.
LEMMA Written ==
    ASSUME NEW new, DOMAIN new \subseteq Artifacts,
           \A a \in DOMAIN new : new[a] # "absent"
    PROVE  /\ Present(Overlay(new, files)) = Present(files) \cup DOMAIN new
           /\ \A a \in Artifacts \ DOMAIN new : Overlay(new, files)[a] = files[a]
           /\ \A a \in DOMAIN new : Overlay(new, files)[a] = new[a]
BY DEF Present, Overlay

\* The handlers of the spec and of the plan keep SupplyInv.
LEMMA SupplySpec ==
    ASSUME TypeInv, ApprovalInv, SupplyInv, OneCommand, NEW p \in Procs, SpecEffect(p)
    PROVE  SupplyInv'
<1> USE DEF Placed, Supplied, UnloadedLocs, InspectionLocs, JudgeLocs, FinalLocs,
            DecidedLocs, ExecutedLocs, Admitted, ApprovalLocs, RunnerLocs
<1>1. Ordered(files) /\ Placed(ctx[p]) /\ Supplied(ctx[p], files)
  BY DEF SupplyInv
<1>2. /\ Present(Overlay([spec |-> "present"], files)) = Present(files) \cup {"spec"}
      /\ Present(Overlay([plan |-> "present"], files)) = Present(files) \cup {"plan"}
      /\ \A a \in {"decision", "audit"} :
             /\ Overlay([spec |-> "present"], files)[a] = files[a]
             /\ Overlay([plan |-> "present"], files)[a] = files[a]
  BY DEF Present, Overlay, Artifacts
<1>3. Ordered(files')
  BY <1>1, <1>2 DEF SpecEffect, OnlyFiles, OnlyRun, OnlyManifest, Ordered, RunnerEvidence
<1>4. Held(ctx'[p], files')
  BY DEF SpecEffect, Comes
<1>5. Placed(ctx'[p])
  BY <1>1 DEF SpecEffect, Comes, Fresh
<1>6. Supplied(ctx'[p], files')
  BY <1>1, <1>2 DEF SpecEffect, Comes, OnlyFiles, OnlyRun, OnlyManifest, Fresh
<1> QED
  BY <1>3, <1>4, <1>5, <1>6, OnlySupply

\* Where a decision leads.
LEMMA Decided ==
    ASSUME TypeInv, ApprovalInv, SupplyInv, NEW p \in Procs
    PROVE  /\ \A d \in Decisions : AfterPolicy(d) \in {"runner_started", "packet", "forbid_run"}
           /\ ctx[p].pc = "policy_manifest" => files["decision"] \in Decisions
<1>1. \A d \in Decisions : AfterPolicy(d) \in {"runner_started", "packet", "forbid_run"}
  BY DEF Decisions, AfterPolicy
<1>2. ctx[p].pc = "policy_manifest" => files["decision"] \in Decisions
  BY RunTypes, OnDisk DEF Typed, UnloadedLocs
<1> QED
  BY <1>1, <1>2

\* handlePolicyEvaluated keeps SupplyInv.
LEMMA SupplyPolicy ==
    ASSUME TypeInv, ApprovalInv, SupplyInv, OneCommand, NEW p \in Procs, PolicyEffect(p)
    PROVE  SupplyInv'
<1> USE DEF Placed, Supplied, UnloadedLocs, InspectionLocs, JudgeLocs, FinalLocs,
            DecidedLocs, ExecutedLocs, Admitted, ApprovalLocs, RunnerLocs
<1>1. Ordered(files) /\ Placed(ctx[p]) /\ Supplied(ctx[p], files)
  BY DEF SupplyInv
<1>2. ASSUME NEW d \in Decisions
      PROVE  LET f == Overlay([preview |-> "present", decision |-> d], files)
             IN  /\ Present(f) = Present(files) \cup {"preview", "decision"}
                 /\ f["audit"] = files["audit"] /\ f["decision"] # "absent"
  BY DEF Present, Overlay, Artifacts, Decisions
<1>3. ASSUME NEW k \in Packets
      PROVE  LET f == Overlay([packet |-> k], files)
             IN  /\ Present(f) = Present(files) \cup {"packet"}
                 /\ f["audit"] = files["audit"] /\ f["decision"] = files["decision"]
  BY PacketsAssumption DEF Present, Overlay, Artifacts
<1>4. Ordered(files')
  BY ZenonT(30), <1>1, <1>2, <1>3
     DEF PolicyEffect, Comes, OnlyFiles, OnlyRun, OnlyManifest, Ordered, RunnerEvidence
<1>5. Held(ctx'[p], files')
  BY DEF PolicyEffect, Comes
<1>6. Placed(ctx'[p])
  BY <1>1, Decided DEF PolicyEffect, Comes, Fresh
<1>7. Supplied(ctx'[p], files')
  BY ZenonT(30), <1>1, <1>2, <1>3, Decided
     DEF PolicyEffect, Comes, OnlyFiles, OnlyRun, OnlyManifest, Fresh
<1> QED
  BY <1>4, <1>5, <1>6, <1>7, OnlySupply

\* handleAwaitingApproval keeps SupplyInv.
LEMMA SupplyAnswer ==
    ASSUME TypeInv, ApprovalInv, SupplyInv, OneCommand, NEW p \in Procs, AnswerEffect(p)
    PROVE  SupplyInv'
<1> USE DEF Placed, Supplied, UnloadedLocs, InspectionLocs, JudgeLocs, FinalLocs,
            DecidedLocs, ExecutedLocs, Admitted, ApprovalLocs, RunnerLocs
<1>1. Ordered(files) /\ Placed(ctx[p]) /\ Supplied(ctx[p], files)
  BY DEF SupplyInv
<1>2. ASSUME NEW answer \in Resolutions
      PROVE  LET f == Overlay([resolution |-> answer], files)
             IN  /\ Present(f) = Present(files) \cup {"resolution"}
                 /\ f["audit"] = files["audit"] /\ f["decision"] = files["decision"]
  BY DEF Present, Overlay, Artifacts, Resolutions
<1>3. Ordered(files')
  BY <1>1, <1>2
     DEF AnswerEffect, OnlyFiles, OnlyRun, OnlyManifest, Ordered, RunnerEvidence
<1>4. Held(ctx'[p], files')
  BY DEF AnswerEffect, Comes
<1>5. Placed(ctx'[p])
  BY <1>1 DEF AnswerEffect, Comes, Fresh, AfterAdvance
<1>6. Supplied(ctx'[p], files')
  BY <1>1, <1>2
     DEF AnswerEffect, Comes, OnlyFiles, OnlyRun, OnlyManifest, Fresh, AfterAdvance
<1> QED
  BY <1>3, <1>4, <1>5, <1>6, OnlySupply

\* handleRunnerStarted keeps SupplyInv.
LEMMA SupplyRunner ==
    ASSUME TypeInv, ApprovalInv, SupplyInv, OneCommand, NEW p \in Procs, RunnerEffect(p)
    PROVE  SupplyInv'
<1> USE DEF Placed, Supplied, UnloadedLocs, InspectionLocs, JudgeLocs, FinalLocs,
            DecidedLocs, ExecutedLocs, Admitted, ApprovalLocs, RunnerLocs
<1>1. Ordered(files) /\ Placed(ctx[p]) /\ Supplied(ctx[p], files)
  BY DEF SupplyInv
<1>2. files' = files
  BY DEF RunnerEffect, OnlyFiles, OnlyRun, OnlyManifest
<1>3. Held(ctx'[p], files')
  BY DEF RunnerEffect, Comes
<1>4. ctx[p].pc \in {"completed_manifest", "completed_run", "completed_snapshot"}
          => ctx[p].cmd = "run"
  BY Somewhere DEF InPlace
<1>5. Placed(ctx'[p])
  BY <1>1, <1>4 DEF RunnerEffect, Comes
<1>6. Supplied(ctx'[p], files')
  BY <1>1, <1>2 DEF RunnerEffect, Comes
<1> QED
  BY <1>1, <1>2, <1>3, <1>5, <1>6, OnlySupply

\* A write of evidence keeps SupplyInv.
LEMMA SupplyEvidence ==
    ASSUME TypeInv, ApprovalInv, SupplyInv, OneCommand, NEW p \in Procs, EvidenceEffect(p)
    PROVE  SupplyInv'
<1>1. PICK kind, value, loc : EvidenceOf(p, kind, value, loc)
  BY DEF EvidenceEffect
<1> USE DEF Placed, Supplied, UnloadedLocs, InspectionLocs, JudgeLocs, FinalLocs,
            DecidedLocs, ExecutedLocs, Admitted, ApprovalLocs, RunnerLocs
<1>2. Ordered(files) /\ Placed(ctx[p]) /\ Supplied(ctx[p], files)
  BY DEF SupplyInv
<1>3. files \in FileSets
  BY Somewhere
<1>4. /\ Present(files') = Present(files) \cup {kind}
      /\ kind # "audit" => files'["audit"] = files["audit"]
      /\ kind = "audit" => files'["audit"] = value
      /\ files'["decision"] = files["decision"]
  BY <1>1, <1>3 DEF EvidenceOf, FileSets, Present, RunnerEvidence, Artifacts
<1>5. "decision" \in Present(files)
  BY <1>1, <1>2 DEF EvidenceOf, Comes
<1>6. Ordered(files')
  BY <1>1, <1>2, <1>4, <1>5 DEF EvidenceOf, Ordered, Present
<1>7. Placed(ctx'[p])
  BY <1>1, <1>2 DEF EvidenceOf, Comes, Fresh
<1>8. Supplied(ctx'[p], files')
  BY <1>1, <1>2, <1>4, <1>5 DEF EvidenceOf, Comes
<1> QED
  BY <1>1, <1>6, <1>7, <1>8, OnlySupply DEF EvidenceOf, Comes

\* Verification and the end of a fresh run keep SupplyInv.
LEMMA SupplyVerdict ==
    ASSUME TypeInv, ApprovalInv, SupplyInv, OneCommand, NEW p \in Procs,
           VerdictEffect(p) \/ FinalEffect(p)
    PROVE  SupplyInv'
<1> USE DEF Placed, Supplied, UnloadedLocs, InspectionLocs, JudgeLocs, FinalLocs,
            DecidedLocs, ExecutedLocs, Admitted, ApprovalLocs, RunnerLocs
<1>1. Ordered(files) /\ Placed(ctx[p]) /\ Supplied(ctx[p], files)
  BY DEF SupplyInv
<1>2. ASSUME NEW verdict \in Verdicts
      PROVE  LET f == Overlay([verification |-> verdict], files)
             IN  /\ Present(f) = Present(files) \cup {"verification"}
                 /\ f["audit"] = files["audit"] /\ f["decision"] = files["decision"]
  BY DEF Present, Overlay, Artifacts, Verdicts
<1>3. Ordered(files')
  BY <1>1, <1>2 DEF VerdictEffect, FinalEffect, OnlyFiles, OnlyRun, OnlyManifest, Ordered,
                    RunnerEvidence
<1>4. Held(ctx'[p], files')
  <2>1. ctx'[p] = Idle \/ Held(ctx'[p], files')
    BY DEF VerdictEffect, FinalEffect, Comes
  <2> QED
    BY <2>1, IdleSupply
<1>5. Placed(ctx'[p])
  <2>1. ctx'[p] = Idle \/ Placed(ctx'[p])
    BY ZenonT(30), <1>1 DEF VerdictEffect, FinalEffect, Comes, Fresh, AfterAdvance
  <2> QED
    BY <2>1, IdleSupply
<1>6. Supplied(ctx'[p], files')
  <2>1. ctx'[p] = Idle \/ Supplied(ctx'[p], files')
    BY ZenonT(30), <1>1, <1>2
       DEF VerdictEffect, FinalEffect, Comes, OnlyFiles, OnlyRun, OnlyManifest, Fresh,
           AfterAdvance, HasRunnerEvidence, RunnerEvidence
  <2> QED
    BY <2>1, IdleSupply
<1> QED
  BY <1>3, <1>4, <1>5, <1>6, OnlySupply

\* The beginning of a command, and what ends it early, keep SupplyInv.
LEMMA SupplyEntry ==
    ASSUME TypeInv, ApprovalInv, SupplyInv, OneCommand, NEW p \in Procs,
           CreateEffect(p) \/ EntryEffect(p)
    PROVE  SupplyInv'
<1> USE DEF Placed, Supplied, UnloadedLocs, InspectionLocs, JudgeLocs, FinalLocs,
            DecidedLocs, ExecutedLocs, Admitted, ApprovalLocs, RunnerLocs
<1>1. Ordered(files) /\ Placed(ctx[p]) /\ Supplied(ctx[p], files)
  BY DEF SupplyInv
<1>2. files' = files
  BY DEF CreateEffect, EntryEffect, OnlyMemory, OnlyFiles
<1>3. Held(ctx'[p], files')
  <2>1. \/ ctx'[p] = Idle \/ Held(ctx'[p], files')
        \/ ctx'[p].pc \in {"load", "verify_load"}
    BY DEF CreateEffect, EntryEffect, Comes
  <2> QED
    BY <2>1, IdleSupply DEF Held
<1>4. ctx[p].cmd \in {"none", "run", "status", "resume", "verify"}
  BY RunTypes DEF Contexts
<1>5. Placed(ctx'[p])
  <2>1. ctx'[p] = Idle \/ Placed(ctx'[p])
    BY <1>1, <1>4, CommandsAssumption DEF CreateEffect, EntryEffect, Comes
  <2> QED
    BY <2>1, IdleSupply
<1>6. Supplied(ctx'[p], files')
  <2>1. ctx'[p] = Idle \/ Supplied(ctx'[p], files')
    BY <1>1, <1>2, <1>4 DEF CreateEffect, EntryEffect, Comes
  <2> QED
    BY <2>1, IdleSupply
<1> QED
  BY <1>1, <1>2, <1>3, <1>5, <1>6, OnlySupply

\* What a resume is asked for depends on the stage and the approval.
LEMMA Required ==
    ASSUME NEW m
    PROVE  /\ \A n, s : m.approval = n.approval
                            => RequiredArtifacts(s, m) = RequiredArtifacts(s, n)
           /\ RequiredArtifacts("plan_created", m) = {"spec"}
           /\ RequiredArtifacts("policy_evaluated", m) = {"spec", "plan"}
           /\ {"decision", "packet"} \subseteq RequiredArtifacts("awaiting_approval", m)
           /\ "decision" \in RequiredArtifacts("runner_started", m)
           /\ RequiredArtifacts("verification_started", m) = RunnerEvidence
BY DEF RequiredArtifacts

\* Inspection and the beginning of a resume keep SupplyInv: what was asked for is
\* what the next handler needs.
LEMMA SupplyInspection ==
    ASSUME TypeInv, ApprovalInv, SupplyInv, OneCommand, NEW p \in Procs, InspectEffect(p)
    PROVE  SupplyInv'
<1>1. Ordered(files) /\ Placed(ctx[p]) /\ Supplied(ctx[p], files)
  BY DEF SupplyInv
<1>2. files' = files
  BY DEF InspectEffect, OnlyRun, OnlyManifest
<1>3. Held(ctx'[p], files')
  <2>1. ctx'[p] = Idle \/ Held(ctx'[p], files')
    BY DEF InspectEffect, Comes
  <2> QED
    BY <2>1, IdleSupply
<1>4. Placed(ctx'[p])
  <2>1. ctx[p].pc \in {"resume_run", "resume_manifest"} => ctx[p].cmd = "resume"
    BY Somewhere DEF InPlace
  <2>2. ctx'[p] = Idle \/ Placed(ctx'[p])
    BY <1>1, <2>1
       DEF InspectEffect, Comes, Placed, InspectionLocs, JudgeLocs, FinalLocs, HandledStages
  <2> QED
    BY <2>2, IdleSupply
<1>5. ctx'[p] # Idle /\ Admitted(ctx'[p])
          => RequiredArtifacts(ctx'[p].next, ctx'[p].manifest) \subseteq Present(files)
  <2>1. ASSUME NEW r, NEW m, NEW f, NEW onDisk, NEW h, Eligible(r, m, f, onDisk, h)
        PROVE  RequiredArtifacts(DetermineNextStage(r, m, f), m) \subseteq onDisk
    BY <2>1 DEF Eligible, ContinuityHolds
  <2>2. Admitted(ctx[p])
            => RequiredArtifacts(ctx[p].next, ctx[p].manifest) \subseteq Present(files)
    BY <1>1 DEF Supplied
  <2> SUFFICES ASSUME ctx'[p] # Idle, Admitted(ctx'[p])
               PROVE  RequiredArtifacts(ctx'[p].next, ctx'[p].manifest) \subseteq Present(files)
    OBVIOUS
  <2>3. CASE ctx[p].pc = "inspect"
    BY <2>1, <2>3 DEF InspectEffect, Comes, Admitted
  <2>4. CASE ctx[p].pc = "inspect_manifest"
    <3>1. /\ ctx'[p].manifest.approval = ctx[p].manifest.approval
          /\ ctx'[p].next = ctx[p].next /\ Admitted(ctx[p])
      BY <2>4 DEF InspectEffect, Comes, Admitted
    <3> QED
      BY <2>2, <3>1, Required
  <2>5. CASE ctx[p].pc = "resume_run"
    <3>1. /\ ctx'[p].manifest = ctx[p].manifest
          /\ ctx'[p].next = ctx[p].next /\ Admitted(ctx[p])
      BY <2>5 DEF InspectEffect, Comes, Admitted
    <3> QED
      BY <2>2, <3>1
  <2>6. CASE ctx[p].pc \notin {"inspect", "inspect_manifest", "resume_run"}
    BY <2>6 DEF InspectEffect, Comes, Admitted, HandledStages
  <2> QED
    BY <2>3, <2>4, <2>5, <2>6
<1>6. ctx'[p] # Idle => Supplied(ctx'[p], files)
  <2> USE DEF Supplied, UnloadedLocs, InspectionLocs, JudgeLocs, FinalLocs,
              DecidedLocs, ExecutedLocs, ApprovalLocs, RunnerLocs
  <2>1. CASE ctx[p].pc # "resume_manifest"
    BY <1>5, <2>1 DEF InspectEffect, Comes
  <2>2. CASE ctx[p].pc = "resume_manifest"
    <3>1. RequiredArtifacts(ctx[p].next, ctx[p].manifest) \subseteq Present(files)
      BY <1>1, <2>2 DEF Admitted
    <3>2. /\ ctx'[p].pc \in {ctx[p].next, "unsupported"}
          /\ ctx'[p].pc \in HandledStages \cup {"unsupported"}
      BY <2>2 DEF InspectEffect, Comes
    <3>3. HasRunnerEvidence(files) => "decision" \in Present(files)
      BY <1>1 DEF Ordered, HasRunnerEvidence, RunnerEvidence, Present, Artifacts
    <3>4. ctx'[p].pc = "verification_started" => HasRunnerEvidence(files)
      BY <3>1, <3>2, Required DEF HasRunnerEvidence
    <3>5. ctx'[p].pc \in {"awaiting_approval", "runner_started"} => "decision" \in Present(files)
      BY <3>1, <3>2, Required
    <3>6. /\ ctx'[p].pc = "awaiting_approval" => "packet" \in Present(files)
          /\ ctx'[p].pc = "plan_created" => "spec" \in Present(files)
          /\ ctx'[p].pc = "policy_evaluated" => {"spec", "plan"} \subseteq Present(files)
      BY <3>1, <3>2, Required
    <3> QED
      BY <3>2, <3>3, <3>4, <3>5, <3>6 DEF HandledStages, Admitted
  <2> QED
    BY <2>1, <2>2
<1>7. Supplied(ctx'[p], files')
  BY <1>2, <1>6, IdleSupply
<1> QED
  BY <1>1, <1>2, <1>3, <1>4, <1>7, OnlySupply

-----------------------------------------------------------------------------
(* Every step is one of those. *)

\* What one step of the process p does.
Effect(p) ==
    \/ SpecEffect(p) \/ PolicyEffect(p) \/ AnswerEffect(p) \/ RunnerEffect(p)
    \/ EvidenceEffect(p) \/ VerdictEffect(p) \/ FinalEffect(p)
    \/ CreateEffect(p) \/ EntryEffect(p) \/ InspectEffect(p)

\* A step that the lifecycle does not see: HEAD moves, or nothing does.
Unseen == ctx' = ctx /\ OnlyFiles(files)

LEMMA Effects ==
    ASSUME TypeInv, ApprovalInv, SupplyInv, [Next]_vars
    PROVE  Unseen \/ \E p \in Procs : Effect(p)
<1>1. CASE UNCHANGED vars
  BY <1>1 DEF vars, Unseen, OnlyFiles
<1>2. CASE HeadMoves
  BY <1>2 DEF HeadMoves, Unseen, OnlyFiles
<1>3. ASSUME NEW p \in Procs, CreateRun(p)
      PROVE  Effect(p)
  BY <1>3, CreateEffects DEF Effect
<1>4. ASSUME NEW p \in Procs, NEW cmd \in Commands, Invoke(p, cmd)
      PROVE  Effect(p)
  BY <1>4, EntryEffects DEF Effect
<1>5. ASSUME NEW p \in Procs, OwnStep(p)
      PROVE  Effect(p)
  <2>1. \/ \/ CreateManifest(p) \/ NormalizeSpec(p) \/ SpecRun(p) \/ SpecManifest(p)
           \/ CreatePlan(p) \/ PlanRun(p) \/ PlanManifest(p)
        \/ \/ EvaluatePolicy(p) \/ PolicyRunning(p) \/ PolicyRun(p) \/ PolicyManifest(p)
           \/ ForbidRun(p) \/ ForbidManifest(p)
           \/ RequestApproval(p) \/ PromptRun(p) \/ PromptManifest(p)
        \/ \/ AskHuman(p) \/ NobodyToAsk(p) \/ ReuseResolution(p)
           \/ PauseRun(p) \/ PauseManifest(p)
           \/ DenyRun(p) \/ DenyManifest(p) \/ ApproveRun(p) \/ ApproveManifest(p)
        \/ \/ RunnerRun(p) \/ RunnerManifest(p) \/ LaunchRunner(p) \/ RunnerReturns(p)
           \/ CompletedManifest(p) \/ CompletedRun(p) \/ CompletedSnapshot(p)
           \/ RelapseRun(p) \/ RelapseManifest(p)
        \/ PersistEvidence(p)
        \/ \/ VerificationRun(p) \/ VerificationManifest(p) \/ RunVerification(p)
           \/ VerdictRun(p) \/ VerdictManifest(p)
        \/ Finalize(p) \/ BlockedSnapshot(p) \/ FinalRun(p) \/ FinalManifest(p)
        \/ \/ \E cmd \in Commands : Invoke(p, cmd)
           \/ Load(p) \/ Unsupported(p) \/ VerifyLoad(p) \/ Crash(p)
        \/ \/ Interrupt(p) \/ Inspect(p) \/ InspectManifest(p)
           \/ ResumeRun(p) \/ ResumeManifest(p)
    BY <1>5 DEF OwnStep
  <2> QED
    BY <2>1, SpecEffects, PolicyEffects, AnswerEffects, RunnerEffects, EvidenceEffects,
       VerdictEffects, FinalEffects, EntryEffects, InspectEffects DEF Effect
<1>6. ASSUME NEW p \in Procs, AwaitedStep(p)
      PROVE  Effect(p)
  BY <1>6, AnswerEffects, RunnerEffects, VerdictEffects DEF Effect, AwaitedStep
<1>7. ASSUME NEW p \in Procs, Crash(p)
      PROVE  Effect(p)
  BY <1>7, EntryEffects DEF Effect
<1> QED
  BY <1>1, <1>2, <1>3, <1>4, <1>5, <1>6, <1>7 DEF Next

\* SupplyInv holds initially.
LEMMA SupplyInit == Init => SupplyInv
BY DEF Init, SupplyInv, Ordered, Placed, Held, Supplied, Idle, NoFiles, Present, Artifacts,
       UnloadedLocs, InspectionLocs, JudgeLocs, FinalLocs, DecidedLocs, ExecutedLocs,
       Admitted, ApprovalLocs, RunnerLocs, RunnerEvidence

\* Every step keeps SupplyInv.
LEMMA SupplyStep ==
    ASSUME OneCommand
    PROVE  TypeInv /\ ApprovalInv /\ SupplyInv /\ [Next]_vars => SupplyInv'
<1> SUFFICES ASSUME TypeInv, ApprovalInv, SupplyInv, [Next]_vars
             PROVE  SupplyInv'
  OBVIOUS
<1>1. CASE Unseen
  BY <1>1 DEF Unseen, OnlyFiles, SupplyInv
<1>2. ASSUME NEW p \in Procs, Effect(p)
      PROVE  SupplyInv'
  BY <1>2, SupplySpec, SupplyPolicy, SupplyAnswer, SupplyRunner, SupplyEvidence,
     SupplyVerdict, SupplyEntry, SupplyInspection DEF Effect
<1> QED
  BY <1>1, <1>2, Effects

\* What a handler needs it finds.
LEMMA SupplyImplies == TypeInv /\ SupplyInv => HandlersFindTheirInputs
<1> SUFFICES ASSUME TypeInv, SupplyInv, NEW p \in Procs
             PROVE  LET here == Present(ctx[p].mem)
                    IN  /\ ctx[p].pc = "plan_created" => "spec" \in here
                        /\ ctx[p].pc = "policy_evaluated" => {"spec", "plan"} \subseteq here
                        /\ ctx[p].pc = "awaiting_approval" => "packet" \in here
                        /\ ctx[p].pc \in {"runner_started", "finalize"}
                               => {"spec", "plan", "preview", "decision"} \subseteq here
                        /\ ctx[p].pc = "verification_started" /\ ctx[p].cmd # "verify"
                               => {"spec", "plan", "decision"} \cup RunnerEvidence
                                      \subseteq here
  <2>1. ASSUME NEW q \in Procs
        PROVE  (CASE ctx[q].pc = "plan_created" -> {"spec"}
                  [] ctx[q].pc = "policy_evaluated" -> {"spec", "plan"}
                  [] ctx[q].pc = "awaiting_approval" -> {"packet"}
                  [] ctx[q].pc = "runner_started" ->
                        {"spec", "plan", "preview", "decision"}
                  [] ctx[q].pc = "finalize" -> {"spec", "plan", "preview", "decision"}
                  [] ctx[q].pc = "verification_started" /\ ctx[q].cmd # "verify" ->
                        {"spec", "plan", "decision"} \cup RunnerEvidence
                  [] OTHER -> {})
                 \in {IF ctx[q].pc = "plan_created" THEN {"spec"}
                      ELSE IF ctx[q].pc = "policy_evaluated" THEN {"spec", "plan"}
                      ELSE IF ctx[q].pc = "awaiting_approval" THEN {"packet"}
                      ELSE IF ctx[q].pc \in {"runner_started", "finalize"}
                      THEN {"spec", "plan", "preview", "decision"}
                      ELSE IF ctx[q].pc = "verification_started" /\ ctx[q].cmd # "verify"
                      THEN {"spec", "plan", "decision"} \cup RunnerEvidence
                      ELSE {}}
    OBVIOUS
  <2> QED
    BY <2>1 DEF HandlersFindTheirInputs
<1>1. Ordered(files) /\ Held(ctx[p], files) /\ Supplied(ctx[p], files)
  BY DEF SupplyInv
<1>2. ctx[p].mem \in FileSets /\ files \in FileSets
  BY RunTypes DEF TypeInv, TypeOK
<1>3. ctx[p].pc \in HandledStages \cup {"finalize"} => Present(ctx[p].mem) = Present(files)
  BY <1>1, <1>2 DEF Held, UnloadedLocs, HandledStages, Present
<1>4. HasRunnerEvidence(files) => "decision" \in Present(files)
  BY <1>1 DEF Ordered, HasRunnerEvidence, RunnerEvidence, Present, Artifacts
<1> QED
  BY <1>1, <1>3, <1>4 DEF Supplied, HandledStages, Ordered, Present, JudgeLocs, DecidedLocs,
     RunnerLocs, FinalLocs, ApprovalLocs, HasRunnerEvidence, Artifacts

\* While commands are given one at a time, no handler is entered without what it
\* reads: what an inspection asks of a stage is all that its handler needs.
THEOREM InputsAreFound ==
    ASSUME OneCommand
    PROVE  Spec => []HandlersFindTheirInputs
<1>1. Init => TypeInv /\ ApprovalInv /\ SupplyInv
  BY TypeInit, ApprovalInit, SupplyInit
<1>2. TypeInv /\ ApprovalInv /\ SupplyInv /\ [Next]_vars
          => (TypeInv /\ ApprovalInv /\ SupplyInv)'
  BY TypeStep, ApprovalStep, SupplyStep
<1> QED
  BY <1>1, <1>2, SupplyImplies, PTL DEF Spec

-----------------------------------------------------------------------------
(* What a completed run rests on. *)

\* What holds of the only process holds of all.
LEMMA OnlyJudged ==
    ASSUME OneCommand, NEW p \in Procs, CompletedIsVerified',
           Judged(ctx'[p], run', files')
    PROVE  JudgedInv'
BY DEF OneCommand, JudgedInv

\* A process that is not there asks nothing of the records.
LEMMA IdleJudged == Judged(Idle, run', files')
BY DEF Judged, AtWork, WorkLocs, EarlyLocs, BeforePolicy, RunnerLocs, JudgeLocs, Idle

\* A completed run stays verified where its artifacts stay and run.json says
\* nothing else of its verification.
LEMMA StaysVerified ==
    ASSUME JudgedInv, files' = files,
           run'.status = "completed" =>
               run.status = "completed" /\ run'.verification = run.verification
    PROVE  CompletedIsVerified'
BY DEF JudgedInv, CompletedIsVerified

\* The handlers keep JudgedInv.
LEMMA JudgedHandlers ==
    ASSUME TypeInv, ApprovalInv, SupplyInv, JudgedInv, OneCommand, NEW p \in Procs,
           SpecEffect(p) \/ PolicyEffect(p) \/ AnswerEffect(p) \/ RunnerEffect(p)
    PROVE  JudgedInv'
<1> USE DEF Judged, AtWork, WorkLocs, EarlyLocs, BeforePolicy, RunnerLocs, JudgeLocs,
            ClosedStatuses, OnlyFiles, OnlyRun, OnlyManifest, Comes
<1>1. Judged(ctx[p], run, files) /\ Placed(ctx[p])
  BY DEF JudgedInv, SupplyInv
<1>2. CASE SpecEffect(p)
  <2>1. Judged(ctx'[p], run', files')
    BY <1>1, <1>2 DEF SpecEffect, Fresh
  <2>2. run'.status # "completed"
    BY <1>1, <1>2 DEF SpecEffect
  <2> QED
    BY <2>1, <2>2, OnlyJudged DEF CompletedIsVerified
<1>3. CASE PolicyEffect(p)
  <2>1. /\ ctx[p].pc \in WorkLocs
        /\ ctx'[p].pc \in (WorkLocs \ {"verdict_run"}) \cup {"finalize", "load"}
    BY <1>3, Decided DEF PolicyEffect
  <2>2. run'.status \in {run.status, "running", "failed", "awaiting_approval"}
    BY <1>3 DEF PolicyEffect
  <2>3. "deny_manifest" \notin WorkLocs /\ "evidence" \notin WorkLocs
    OBVIOUS
  <2> HIDE DEF WorkLocs
  <2>4. run'.status \notin ClosedStatuses
    BY <1>1, <2>1, <2>2
  <2>5. Judged(ctx'[p], run', files')
    BY <2>1, <2>3, <2>4
  <2> QED
    BY <2>4, <2>5, OnlyJudged DEF CompletedIsVerified
<1>4. CASE AnswerEffect(p)
  <2>1. \/ /\ ctx[p].pc \in WorkLocs
           /\ ctx'[p].pc \in (WorkLocs \ {"verdict_run"}) \cup {"finalize", "load"}
           /\ run'.status \in {run.status, "awaiting_approval", "in_progress"}
        \/ ctx'[p].pc = "deny_manifest" /\ run'.status = "abandoned"
        \/ /\ ctx[p].pc = "deny_manifest" /\ ctx'[p].pc \in {"finalize", "load"}
           /\ run' = run
    BY <1>4 DEF AnswerEffect, AfterAdvance
  <2>2. {"deny_manifest", "finalize", "load", "evidence"} \cap WorkLocs = {}
    OBVIOUS
  <2> HIDE DEF WorkLocs
  <2>3. run'.status # "completed" /\ (ctx'[p].pc \in WorkLocs => run'.status \notin ClosedStatuses)
    BY <1>1, <2>1, <2>2
  <2>4. Judged(ctx'[p], run', files')
    BY <2>1, <2>2, <2>3
  <2> QED
    BY <2>3, <2>4, OnlyJudged DEF CompletedIsVerified
<1>5. CASE RunnerEffect(p)
  <2>1. Judged(ctx'[p], run', files')
    BY <1>1, <1>5, Somewhere DEF RunnerEffect, Placed, InPlace
  <2>2. run'.status # "completed" \/ (files' = files /\ run' = run)
    BY <1>1, <1>5 DEF RunnerEffect
  <2> QED
    BY <2>1, <2>2, OnlyJudged, StaysVerified DEF CompletedIsVerified
<1> QED
  BY <1>2, <1>3, <1>4, <1>5

\* The evidence of an execution keeps JudgedInv.
LEMMA JudgedEvidence ==
    ASSUME TypeInv, ApprovalInv, SupplyInv, JudgedInv, OneCommand, NEW p \in Procs,
           EvidenceEffect(p)
    PROVE  JudgedInv'
<1> USE DEF Judged, AtWork, WorkLocs, EarlyLocs, BeforePolicy, RunnerLocs, JudgeLocs,
            ClosedStatuses, Comes
<1>1. Judged(ctx[p], run, files) /\ Placed(ctx[p])
  BY DEF JudgedInv, SupplyInv
<1>2. /\ run' = run /\ ctx[p].pc = "evidence" /\ ctx'[p].cmd = ctx[p].cmd
      /\ ctx'[p].executed = ctx[p].executed
      /\ \/ ctx'[p].pc = "evidence"
         \/ Fresh(p) /\ ctx'[p].pc = IF ctx[p].executed
                                     THEN "completed_manifest" ELSE "blocked_snapshot"
         \/ ~Fresh(p) /\ ctx'[p].pc \in {"verification_started", "relapse_run"}
  BY DEF EvidenceEffect, EvidenceOf
<1>3. ctx[p].cmd \in {"run", "resume"}
  BY <1>1, <1>2, RunTypes DEF Placed, JudgeLocs, InspectionLocs, Contexts
<1>4. Judged(ctx'[p], run', files')
  BY <1>1, <1>2, <1>3 DEF Fresh, Placed
<1>5. run'.status # "completed"
  BY <1>1, <1>2
<1> QED
  BY <1>4, <1>5, OnlyJudged DEF CompletedIsVerified

\* Verification keeps JudgedInv: its verdict is the only way to a completed run.
LEMMA JudgedVerdict ==
    ASSUME TypeInv, ApprovalInv, SupplyInv, JudgedInv, OneCommand, NEW p \in Procs,
           VerdictEffect(p)
    PROVE  JudgedInv'
<1> USE DEF Judged, AtWork, WorkLocs, EarlyLocs, BeforePolicy, RunnerLocs, JudgeLocs,
            ClosedStatuses, Comes, OnlyFiles, OnlyRun, OnlyManifest
<1>1. Judged(ctx[p], run, files) /\ Placed(ctx[p]) /\ Ordered(files)
  BY DEF JudgedInv, SupplyInv
<1>2. ASSUME NEW verdict \in Verdicts
      PROVE  LET f == Overlay([verification |-> verdict], files)
             IN  /\ f["verification"] = verdict /\ f["audit"] = files["audit"]
                 /\ f["decision"] = files["decision"] /\ f["resolution"] = files["resolution"]
  BY DEF Overlay, Artifacts
<1>3. Judged(ctx'[p], run', files')
  <2>1. CASE ctx[p].pc = "verifying"
    <3>1. PICK verdict \in Verdicts :
              /\ Comes(p, "verifying", "verdict_run") /\ run' = run
              /\ files' = Overlay([verification |-> verdict], files)
              /\ verdict = "passed" =>
                     /\ files["audit"] # "breach" /\ files["audit"] # "absent"
                     /\ Approved(files)
      BY <2>1 DEF VerdictEffect
    <3>2. /\ files'["verification"] = verdict /\ files'["audit"] = files["audit"]
          /\ Approved(files) => Approved(files')
      BY <1>2, <3>1 DEF Approved
    <3>3. files'["verification"] = "passed" => files'["audit"] = "clean" /\ Approved(files')
      BY <1>1, <3>1, <3>2 DEF Ordered, AuditResults
    <3> QED
      BY <1>1, <2>1, <3>1, <3>3
  <2>2. CASE ctx[p].pc # "verifying"
    <3>1. Fresh(p) /\ ctx[p].pc \in JudgeLocs => ctx[p].executed
      BY <1>1 DEF Placed, Fresh
    <3>2. ctx'[p] = Idle \/ Judged(ctx'[p], run', files')
      BY <1>1, <2>2, <3>1 DEF VerdictEffect, AfterAdvance
    <3> QED
      BY <3>2, IdleJudged
  <2> QED
    BY <2>1, <2>2
<1>4. \/ run'.status # "completed" \/ (files' = files /\ run' = run)
      \/ /\ ctx[p].pc = "verdict_run" /\ files["verification"] = "passed"
         /\ run'.verification = "passed" /\ files' = files
  <2>1. ctx[p].pc = "verifying" => run.status # "completed"
    BY <1>1
  <2> HIDE DEF Judged, AtWork, WorkLocs, JudgeLocs
  <2> QED
    BY <2>1 DEF VerdictEffect
<1>5. CompletedIsVerified'
  BY <1>1, <1>4, StaysVerified DEF CompletedIsVerified, Approved
<1> QED
  BY <1>3, <1>5, OnlyJudged

\* The beginning and the end of a command, inspections and resumes keep JudgedInv.
LEMMA JudgedRest ==
    ASSUME TypeInv, ApprovalInv, SupplyInv, JudgedInv, OneCommand, NEW p \in Procs,
           FinalEffect(p) \/ CreateEffect(p) \/ EntryEffect(p) \/ InspectEffect(p)
    PROVE  JudgedInv'
<1> USE DEF Judged, AtWork, WorkLocs, EarlyLocs, BeforePolicy, RunnerLocs, JudgeLocs,
            ClosedStatuses, Comes, OnlyFiles, OnlyRun, OnlyManifest
<1>1. Judged(ctx[p], run, files) /\ Placed(ctx[p])
  BY DEF JudgedInv, SupplyInv
<1>2. files' = files
  BY DEF FinalEffect, CreateEffect, EntryEffect, InspectEffect, OnlyMemory
<1>3. CASE FinalEffect(p)
  <2>1. ctx'[p] = Idle \/ Judged(ctx'[p], run', files')
    BY <1>1, <1>3 DEF FinalEffect, Placed, FinalLocs
  <2>2. run'.status = run.status /\ run'.verification = run.verification
    BY <1>3 DEF FinalEffect
  <2> QED
    BY <1>2, <2>1, <2>2, IdleJudged, OnlyJudged, StaysVerified
<1>4. CASE CreateEffect(p)
  <2>1. Judged(ctx'[p], run', files') /\ run'.status # "completed"
    BY <1>4 DEF CreateEffect
  <2> QED
    BY <2>1, OnlyJudged DEF CompletedIsVerified
<1>5. CASE EntryEffect(p)
  <2>1. ctx'[p] = Idle \/ Judged(ctx'[p], run', files')
    <3>1. ctx[p].pc = "verify_load" => ctx[p].cmd = "verify"
      BY <1>1, RunTypes DEF Placed, InspectionLocs, Contexts
    <3>2. \/ ctx'[p] = Idle
          \/ ctx'[p].pc \in {"load", "verify_load", "interrupt", "inspect"}
          \/ ctx'[p].pc = "verification_started" /\ ctx'[p].cmd = "verify"
      BY <1>5, <3>1 DEF EntryEffect
    <3> QED
      BY <3>2
  <2>2. run' = run
    BY <1>5 DEF EntryEffect, OnlyMemory
  <2> QED
    BY <1>2, <2>1, <2>2, IdleJudged, OnlyJudged, StaysVerified
<1>6. CASE InspectEffect(p)
  <2>1. InspectedStatus(run, ctx[p].manifest,
            Eligible(run, ctx[p].manifest, files, Present(files), head)) = "completed"
            => run.status = "completed"
    BY DEF InspectedStatus
  <2>2. run'.status = "completed"
            => run.status = "completed" /\ run'.verification = run.verification
    BY <1>6, <2>1 DEF InspectEffect
  <2>3. ctx'[p] = Idle \/ Judged(ctx'[p], run', files')
    <3>1. CASE ctx[p].pc = "resume_manifest"
      <4>1. ctx[p].cmd = "resume"
        BY <3>1, Somewhere DEF InPlace
      <4>2. /\ ctx'[p].pc \in HandledStages \cup {"unsupported"}
            /\ ctx'[p].cmd = ctx[p].cmd /\ run' = run
        BY <1>6, <3>1 DEF InspectEffect
      <4> QED
        BY <1>1, <3>1, <4>1, <4>2 DEF HandledStages
    <3>2. CASE ctx[p].pc # "resume_manifest"
      BY <1>1, <1>6, <3>2 DEF InspectEffect
    <3> QED
      BY <3>1, <3>2
  <2> QED
    BY <1>2, <2>2, <2>3, IdleJudged, OnlyJudged, StaysVerified
<1> QED
  BY <1>3, <1>4, <1>5, <1>6

\* JudgedInv holds initially.
LEMMA JudgedInit == Init => JudgedInv
BY DEF Init, JudgedInv, CompletedIsVerified, Judged, AtWork, WorkLocs, EarlyLocs, BeforePolicy,
       RunnerLocs, JudgeLocs, Idle, NoRun

\* Every step keeps JudgedInv.
LEMMA JudgedStep ==
    ASSUME OneCommand
    PROVE  TypeInv /\ ApprovalInv /\ SupplyInv /\ JudgedInv /\ [Next]_vars => JudgedInv'
<1> SUFFICES ASSUME TypeInv, ApprovalInv, SupplyInv, JudgedInv, [Next]_vars
             PROVE  JudgedInv'
  OBVIOUS
<1>1. CASE Unseen
  BY <1>1 DEF Unseen, OnlyFiles, JudgedInv, CompletedIsVerified
<1>2. ASSUME NEW p \in Procs, Effect(p)
      PROVE  JudgedInv'
  BY <1>2, JudgedHandlers, JudgedEvidence, JudgedVerdict, JudgedRest DEF Effect
<1> QED
  BY <1>1, <1>2, Effects

\* What the theorems about one command at a time rest on.
Base == TypeInv /\ ApprovalInv /\ SupplyInv

\* It holds initially, and every step keeps it.
LEMMA BaseHolds ==
    ASSUME OneCommand
    PROVE  /\ Init => Base
           /\ Base /\ [Next]_vars => Base'
BY TypeInit, ApprovalInit, SupplyInit, TypeStep, ApprovalStep, SupplyStep DEF Base

\* While commands are given one at a time, a run whose record says "completed" has
\* a verification that passed, an audit without a breach and, if it was prompted,
\* an approval: neither a death between two writes nor a later command parts them.
THEOREM CompletionVerified ==
    ASSUME OneCommand
    PROVE  Spec => []CompletedIsVerified
<1>1. Init => Base /\ JudgedInv
  BY BaseHolds, JudgedInit
<1>2. Base /\ JudgedInv /\ [Next]_vars => (Base /\ JudgedInv)'
  BY BaseHolds, JudgedStep DEF Base
<1>3. JudgedInv => CompletedIsVerified
  BY DEF JudgedInv
<1> QED
  BY <1>1, <1>2, <1>3, PTL DEF Spec

-----------------------------------------------------------------------------
(* What a denial rests on. *)

\* What holds of the only process holds of all.
LEMMA OnlyUndenied ==
    ASSUME OneCommand, NEW p \in Procs, Undenied(ctx'[p], manifest')
    PROVE  DenialInv'
BY DEF OneCommand, DenialInv

\* A process that is not there goes nowhere.
LEMMA IdleUndenied == Undenied(Idle, manifest')
BY DEF Undenied, Admitted, OpenLocs, EarlyLocs, BeforePolicy, ApprovalLocs, Idle

\* The handlers keep DenialInv.
LEMMA DenialHandlers ==
    ASSUME TypeInv, ApprovalInv, SupplyInv, DenialInv, OneCommand, NEW p \in Procs,
           \/ SpecEffect(p) \/ PolicyEffect(p) \/ AnswerEffect(p) \/ RunnerEffect(p)
           \/ EvidenceEffect(p) \/ VerdictEffect(p) \/ FinalEffect(p)
    PROVE  DenialInv'
<1> USE DEF Undenied, Admitted, OpenLocs, EarlyLocs, BeforePolicy, ApprovalLocs,
            OnlyFiles, OnlyRun, OnlyManifest, Comes
<1>1. Undenied(ctx[p], manifest)
  BY DEF DenialInv
<1>2. CASE SpecEffect(p)
  BY <1>1, <1>2, OnlyUndenied DEF SpecEffect
<1>3. CASE PolicyEffect(p)
  <2>1. Undenied(ctx'[p], manifest')
    BY <1>1, <1>3, Decided DEF PolicyEffect
  <2> QED
    BY <2>1, OnlyUndenied
<1>4. CASE AnswerEffect(p)
  <2>1. Undenied(ctx'[p], manifest')
    BY <1>1, <1>4 DEF AnswerEffect, AfterAdvance
  <2> QED
    BY <2>1, OnlyUndenied
<1>5. CASE RunnerEffect(p)
  <2>1. Undenied(ctx'[p], manifest')
    BY <1>1, <1>5 DEF RunnerEffect
  <2> QED
    BY <2>1, OnlyUndenied
<1>6. CASE EvidenceEffect(p)
  <2>1. Undenied(ctx'[p], manifest')
    BY <1>6 DEF EvidenceEffect, EvidenceOf
  <2> QED
    BY <2>1, OnlyUndenied
<1>7. CASE VerdictEffect(p)
  <2>1. ctx'[p] = Idle \/ Undenied(ctx'[p], manifest')
    BY <1>7 DEF VerdictEffect, AfterAdvance
  <2> QED
    BY <2>1, IdleUndenied, OnlyUndenied
<1>8. CASE FinalEffect(p)
  <2>1. ctx'[p] = Idle \/ Undenied(ctx'[p], manifest')
    BY <1>8 DEF FinalEffect
  <2> QED
    BY <2>1, IdleUndenied, OnlyUndenied
<1> QED
  BY <1>2, <1>3, <1>4, <1>5, <1>6, <1>7, <1>8

\* The beginning and the end of a command, inspections and resumes keep DenialInv:
\* a denied run is not found eligible.
LEMMA DenialRest ==
    ASSUME TypeInv, ApprovalInv, SupplyInv, DenialInv, OneCommand, NEW p \in Procs,
           CreateEffect(p) \/ EntryEffect(p) \/ InspectEffect(p)
    PROVE  DenialInv'
<1> USE DEF Undenied, Admitted, OpenLocs, EarlyLocs, BeforePolicy, ApprovalLocs,
            OnlyFiles, OnlyRun, OnlyManifest, Comes
<1>1. Undenied(ctx[p], manifest)
  BY DEF DenialInv
<1>2. CASE CreateEffect(p)
  BY <1>2, OnlyUndenied DEF CreateEffect, NoManifest
<1>3. CASE EntryEffect(p)
  <2>1. ctx'[p] = Idle \/ Undenied(ctx'[p], manifest')
    BY <1>3 DEF EntryEffect, OnlyMemory
  <2> QED
    BY <2>1, IdleUndenied, OnlyUndenied
<1>4. CASE InspectEffect(p)
  <2>1. Eligible(run, ctx[p].manifest, files, Present(files), head)
            => ctx[p].manifest.approval # "denied"
    BY DEF Eligible
  <2>2. ctx'[p] = Idle \/ Undenied(ctx'[p], manifest')
    BY <1>1, <1>4, <2>1 DEF InspectEffect, HandledStages
  <2> QED
    BY <2>2, IdleUndenied, OnlyUndenied
<1> QED
  BY <1>2, <1>3, <1>4

\* DenialInv holds initially.
LEMMA DenialInit == Init => DenialInv
BY DEF Init, DenialInv, Undenied, Admitted, OpenLocs, EarlyLocs, BeforePolicy, ApprovalLocs,
       Idle

\* Every step keeps DenialInv.
LEMMA DenialStep ==
    ASSUME OneCommand
    PROVE  Base /\ DenialInv /\ [Next]_vars => DenialInv'
<1> SUFFICES ASSUME TypeInv, ApprovalInv, SupplyInv, DenialInv, [Next]_vars
             PROVE  DenialInv'
  BY DEF Base
<1>1. CASE Unseen
  BY <1>1 DEF Unseen, OnlyFiles, DenialInv
<1>2. ASSUME NEW p \in Procs, Effect(p)
      PROVE  DenialInv'
  BY <1>2, DenialHandlers, DenialRest DEF Effect
<1> QED
  BY <1>1, <1>2, Effects

\* While commands are given one at a time, a run whose manifest records a denial
\* has no process near its runner and no resume under way, for ever after.
THEOREM DenialStands ==
    ASSUME OneCommand
    PROVE  Spec => []DenialIsFinal
<1>1. Init => Base /\ DenialInv
  BY BaseHolds, DenialInit
<1>2. Base /\ DenialInv /\ [Next]_vars => (Base /\ DenialInv)'
  BY BaseHolds, DenialStep
<1>3. DenialInv => DenialIsFinal
  BY DEF DenialInv, Undenied, DenialIsFinal, Admitted, OpenLocs
<1> QED
  BY <1>1, <1>2, <1>3, PTL DEF Spec

-----------------------------------------------------------------------------
(* What the agreement of the two records rests on. *)

\* What holds of the only process holds of all.
LEMMA OnlyAgreeing ==
    ASSUME OneCommand, NEW p \in Procs,
           manifest'.status = "absent" => manifest' = NoManifest,
           files'["spec"] # "absent" => manifest'.status # "absent",
           Agreeing(ctx'[p], run', manifest', files', torn')
    PROVE  AgreementInv'
BY DEF OneCommand, AgreementInv

\* A process that is not there asks for records that agree.
LEMMA IdleAgreeing ==
    ASSUME torn' \/ Same(run', manifest')
    PROVE  Agreeing(Idle, run', manifest', files', torn')
BY DEF Agreeing, Untouched, Ending, FinalLocs, Idle

\* A handler that does not belong to `gdh run` belongs to `gdh verify` or to a resume.
LEMMA Resumed ==
    ASSUME TypeInv, SupplyInv, NEW p \in Procs,
           ctx[p].pc \notin InspectionLocs \cup {"idle", "verify_load"}
    PROVE  /\ Fresh(p) \/ ctx[p].cmd = "verify" \/ ctx[p].resumed = TRUE
           /\ ctx[p].cmd = "verify" => ctx[p].pc \in JudgeLocs
BY RunTypes DEF SupplyInv, Placed, Contexts, Fresh

\* The handlers of the spec, the plan and the policy keep AgreementInv.
LEMMA AgreementPolicy ==
    ASSUME TypeInv, ApprovalInv, SupplyInv, AgreementInv, OneCommand, NEW p \in Procs,
           SpecEffect(p) \/ PolicyEffect(p)
    PROVE  AgreementInv'
<1> USE DEF Agreeing, Untouched, Ending, FinalLocs, SamePlace, Stands,
            OnlyFiles, OnlyRun, OnlyManifest, Comes
<1>1. /\ Agreeing(ctx[p], run, manifest, files, torn) /\ Placed(ctx[p])
      /\ manifest.status = "absent" => manifest = NoManifest
      /\ files["spec"] # "absent" => manifest.status # "absent"
  BY DEF AgreementInv, SupplyInv
<1>2. CASE SpecEffect(p)
  <2>1. manifest'.status = "absent" => manifest' = NoManifest
    BY <1>1, <1>2 DEF SpecEffect
  <2>2. Agreeing(ctx'[p], run', manifest', files', torn')
    BY <1>1, <1>2 DEF SpecEffect
  <2>3. manifest'.status # "absent"
    BY <1>1, <1>2 DEF SpecEffect
  <2> QED
    BY <2>1, <2>2, <2>3, OnlyAgreeing
<1>3. CASE PolicyEffect(p)
  <2>1. manifest'.status # "absent"
    BY <1>1, <1>3 DEF PolicyEffect
  <2>2. Agreeing(ctx'[p], run', manifest', files', torn')
    <3>1. ctx[p].pc = "forbid_manifest" /\ ~Fresh(p) => ctx[p].resumed = TRUE
      BY Resumed DEF InspectionLocs, JudgeLocs
    <3> QED
      BY <1>1, <1>3, <2>1, <3>1, Decided DEF PolicyEffect, Placed, Fresh
  <2> QED
    BY <2>1, <2>2, OnlyAgreeing
<1> QED
  BY <1>2, <1>3

\* The handlers of the approval and of the runner keep AgreementInv.
LEMMA AgreementRunner ==
    ASSUME TypeInv, ApprovalInv, SupplyInv, AgreementInv, OneCommand, NEW p \in Procs,
           AnswerEffect(p) \/ RunnerEffect(p) \/ EvidenceEffect(p)
    PROVE  AgreementInv'
<1> USE DEF Agreeing, Untouched, Ending, FinalLocs, SamePlace, Stands,
            OnlyFiles, OnlyRun, OnlyManifest, Comes
<1>1. /\ Agreeing(ctx[p], run, manifest, files, torn) /\ Placed(ctx[p])
      /\ manifest.status = "absent" => manifest = NoManifest
      /\ files["spec"] # "absent" => manifest.status # "absent"
  BY DEF AgreementInv, SupplyInv
<1>2. CASE AnswerEffect(p)
  <2>1. manifest'.status # "absent"
    BY <1>1, <1>2 DEF AnswerEffect
  <2>2. Agreeing(ctx'[p], run', manifest', files', torn')
    <3>1. ctx[p].pc \in {"pause_manifest", "deny_manifest"} /\ ~Fresh(p)
              => ctx[p].resumed = TRUE
      BY Resumed DEF InspectionLocs, JudgeLocs
    <3>2. ctx[p].pc = "awaiting_approval" /\ Fresh(p) => SamePlace(run, manifest)
      BY <1>1 DEF Fresh
    <3>3. ctx[p].pc # "pause_manifest" \/ ~Fresh(p)
      BY <1>1 DEF Placed, Fresh
    <3> QED
      BY <1>1, <1>2, <2>1, <3>1, <3>2, <3>3 DEF AnswerEffect, AfterAdvance
  <2> QED
    BY <2>1, <2>2, OnlyAgreeing
<1>3. CASE RunnerEffect(p)
  <2>1. manifest'.status # "absent"
    BY <1>1, <1>3 DEF RunnerEffect
  <2>2. Agreeing(ctx'[p], run', manifest', files', torn')
    <3>1. ctx[p].pc = "relapse_manifest" => ctx[p].resumed = TRUE
      BY <1>1, Resumed DEF InspectionLocs, JudgeLocs, Placed, Fresh
    <3>2. ctx[p].pc = "executing" => ctx[p].executed
      BY <1>1 DEF Placed
    <3> QED
      BY <1>1, <1>3, <2>1, <3>1, <3>2 DEF RunnerEffect
  <2> QED
    BY <2>1, <2>2, OnlyAgreeing
<1>4. CASE EvidenceEffect(p)
  <2>1. /\ run' = run /\ manifest' = manifest /\ ctx[p].pc = "evidence" /\ torn' = torn
        /\ ctx'[p].executed = ctx[p].executed
        /\ ctx'[p].pc \in {"evidence", "completed_manifest", "blocked_snapshot",
                           "verification_started", "relapse_run"}
        /\ ctx'[p].pc = "blocked_snapshot" => ~ctx[p].executed
    BY <1>4 DEF EvidenceEffect, EvidenceOf, Fresh
  <2>2. Agreeing(ctx'[p], run', manifest', files', torn')
    BY <1>1, <2>1
  <2> QED
    BY <1>1, <2>1, <2>2, OnlyAgreeing
<1> QED
  BY <1>2, <1>3, <1>4

\* Verification and the end of a fresh run keep AgreementInv.
LEMMA AgreementVerdict ==
    ASSUME TypeInv, ApprovalInv, SupplyInv, AgreementInv, OneCommand, NEW p \in Procs,
           VerdictEffect(p) \/ FinalEffect(p)
    PROVE  AgreementInv'
<1> USE DEF Agreeing, Untouched, Ending, FinalLocs, SamePlace, Stands,
            OnlyFiles, OnlyRun, OnlyManifest, Comes
<1>1. /\ Agreeing(ctx[p], run, manifest, files, torn) /\ Placed(ctx[p])
      /\ manifest.status = "absent" => manifest = NoManifest
      /\ files["spec"] # "absent" => manifest.status # "absent"
  BY DEF AgreementInv, SupplyInv
<1>2. ctx[p].pc # "idle" => run.status # "absent"
  BY Somewhere
<1>3. CASE VerdictEffect(p)
  <2>1. manifest'.status # "absent"
    BY <1>1, <1>3 DEF VerdictEffect
  <2>2. ctx'[p] = Idle => Same(run', manifest')
    BY <1>1, <1>3 DEF VerdictEffect, Same, Idle, AfterAdvance
  <2>3. ctx'[p] = Idle \/ Agreeing(ctx'[p], run', manifest', files', torn')
    <3>1. ctx[p].pc = "verdict_manifest" /\ ~Fresh(p) /\ ctx[p].cmd # "verify"
              => ctx[p].resumed = TRUE
      BY Resumed DEF InspectionLocs
    <3> QED
      BY <1>1, <1>3, <2>1, <3>1 DEF VerdictEffect, AfterAdvance
  <2> QED
    BY <2>1, <2>2, <2>3, IdleAgreeing, OnlyAgreeing
<1>4. CASE FinalEffect(p)
  <2>1. manifest'.status # "absent"
    BY <1>1, <1>2, <1>4 DEF FinalEffect
  <2>2. ctx'[p] = Idle => Same(run', manifest')
    BY <1>1, <1>4 DEF FinalEffect, Same, Idle
  <2>3. ctx'[p] = Idle \/ Agreeing(ctx'[p], run', manifest', files', torn')
    BY <1>1, <1>4, <2>1 DEF FinalEffect
  <2> QED
    BY <2>1, <2>2, <2>3, IdleAgreeing, OnlyAgreeing
<1> QED
  BY <1>3, <1>4

\* The beginning and the end of a command, inspections and resumes keep AgreementInv.
LEMMA AgreementRest ==
    ASSUME TypeInv, ApprovalInv, SupplyInv, AgreementInv, OneCommand, NEW p \in Procs,
           CreateEffect(p) \/ EntryEffect(p) \/ InspectEffect(p)
    PROVE  AgreementInv'
<1> USE DEF Agreeing, Untouched, Ending, FinalLocs, SamePlace, Stands,
            OnlyFiles, OnlyRun, OnlyManifest, Comes
<1>1. /\ Agreeing(ctx[p], run, manifest, files, torn) /\ Placed(ctx[p])
      /\ manifest.status = "absent" => manifest = NoManifest
      /\ files["spec"] # "absent" => manifest.status # "absent"
  BY DEF AgreementInv, SupplyInv
<1>2. ctx[p].pc # "idle" => run.status # "absent"
  BY Somewhere
<1>3. CASE CreateEffect(p)
  <2>1. Agreeing(ctx'[p], run', manifest', files', torn')
    BY <1>3 DEF CreateEffect
  <2> QED
    BY <1>1, <1>3, <2>1, OnlyAgreeing DEF CreateEffect
<1>4. CASE EntryEffect(p)
  <2>1. run' = run /\ manifest' = manifest /\ files' = files
    BY <1>4 DEF EntryEffect, OnlyMemory
  <2>2. manifest = NoManifest <=> manifest.status = "absent"
    BY <1>1 DEF NoManifest
  <2>3. {"spec", "plan", "decision"} \subseteq Present(files) => files["spec"] # "absent"
    BY DEF Present
  <2>4. ctx'[p] = Idle => torn' \/ Same(run', manifest')
    BY <1>1, <1>4, <2>1, <2>2 DEF EntryEffect, OnlyMemory, Idle
  <2>5. ctx'[p] = Idle \/ Agreeing(ctx'[p], run', manifest', files', torn')
    BY <1>1, <1>4, <2>1, <2>2, <2>3 DEF EntryEffect, OnlyMemory
  <2> QED
    BY <1>1, <2>1, <2>4, <2>5, IdleAgreeing, OnlyAgreeing
<1>5. CASE InspectEffect(p)
  <2>1. manifest'.status # "absent"
    BY <1>1, <1>2, <1>5 DEF InspectEffect
  <2>2. ctx'[p] = Idle => Same(run', manifest')
    BY <1>1, <1>5 DEF InspectEffect, Same, Idle
  <2>3. ctx'[p] = Idle \/ Agreeing(ctx'[p], run', manifest', files', torn')
    <3>1. CASE ctx[p].pc = "resume_manifest"
      <4>1. /\ ctx'[p].pc \in HandledStages \cup {"unsupported"}
            /\ Same(run', manifest') /\ ctx'[p].cmd = "resume"
        BY <1>1, <1>5, <3>1, Somewhere DEF InspectEffect, Same, InPlace
      <4> QED
        BY <2>1, <4>1 DEF HandledStages
    <3>2. CASE ctx[p].pc # "resume_manifest"
      BY <1>1, <1>5, <2>1, <3>2 DEF InspectEffect
    <3> QED
      BY <3>1, <3>2
  <2> QED
    BY <2>1, <2>2, <2>3, IdleAgreeing, OnlyAgreeing
<1> QED
  BY <1>3, <1>4, <1>5

\* AgreementInv holds initially.
LEMMA AgreementInit == Init => AgreementInv
BY DEF Init, AgreementInv, Agreeing, Untouched, Ending, FinalLocs, Same, SamePlace, Idle,
       NoRun, NoManifest, NoFiles, Artifacts

\* Every step keeps AgreementInv.
LEMMA AgreementStep ==
    ASSUME OneCommand
    PROVE  Base /\ AgreementInv /\ [Next]_vars => AgreementInv'
<1> SUFFICES ASSUME TypeInv, ApprovalInv, SupplyInv, AgreementInv, [Next]_vars
             PROVE  AgreementInv'
  BY DEF Base
<1>1. CASE Unseen
  BY <1>1 DEF Unseen, OnlyFiles, AgreementInv
<1>2. ASSUME NEW p \in Procs, Effect(p)
      PROVE  AgreementInv'
  BY <1>2, AgreementPolicy, AgreementRunner, AgreementVerdict, AgreementRest DEF Effect
<1> QED
  BY <1>1, <1>2, Effects

\* While commands are given one at a time, the two records of a run agree whenever
\* no command is at work and none was killed since they were last written together.
THEOREM RecordsAgree ==
    ASSUME OneCommand, Procs # {}
    PROVE  Spec => []RecordsAgreeAtRest
<1>1. Init => Base /\ AgreementInv
  BY BaseHolds, AgreementInit
<1>2. Base /\ AgreementInv /\ [Next]_vars => (Base /\ AgreementInv)'
  BY BaseHolds, AgreementStep
<1>3. Base /\ AgreementInv => RecordsAgreeAtRest
  <2> SUFFICES ASSUME Base, AgreementInv, Settled
               PROVE  Same(run, manifest)
    BY DEF RecordsAgreeAtRest, Same, SamePlace
  <2>1. PICK p \in Procs : TRUE
    OBVIOUS
  <2>2. ctx[p].cmd = "none" /\ Placed(ctx[p]) /\ ~torn
    BY DEF Settled, AtRest, Base, SupplyInv
  <2> QED
    BY <2>2 DEF Placed, AgreementInv, Agreeing, Untouched
<1> QED
  BY <1>1, <1>2, <1>3, PTL DEF Spec

-----------------------------------------------------------------------------
(* Without `gdh verify`: runs that are closed. *)

\* No process judges a run outside its lifecycle.
Unverified == \A p \in Procs : ctx[p].cmd # "verify"

\* Nothing but the beginning of a command chooses the command.
LEMMA UnverifiedStep ==
    ASSUME OneCommand, "verify" \notin Commands
    PROVE  Base /\ Unverified /\ [Next]_vars => Unverified'
<1> SUFFICES ASSUME TypeInv, ApprovalInv, SupplyInv, Unverified, [Next]_vars
             PROVE  Unverified'
  BY DEF Base
<1>1. CASE Unseen
  BY <1>1 DEF Unseen, Unverified
<1>2. ASSUME NEW p \in Procs, Effect(p)
      PROVE  Unverified'
  <2>1. ctx[p].cmd # "verify" /\ Idle.cmd # "verify"
    BY DEF Unverified, Idle
  <2>2. CASE CreateEffect(p) \/ EntryEffect(p)
    <3>1. ctx'[p].cmd # "verify"
      BY <2>1, <2>2 DEF CreateEffect, EntryEffect, Comes
    <3> QED
      BY <3>1 DEF OneCommand, Unverified
  <2>3. CASE ~(CreateEffect(p) \/ EntryEffect(p))
    <3>1. CASE SpecEffect(p) \/ PolicyEffect(p) \/ AnswerEffect(p) \/ RunnerEffect(p)
      <4>1. ctx'[p].cmd = ctx[p].cmd
        BY <3>1 DEF SpecEffect, PolicyEffect, AnswerEffect, RunnerEffect, Comes
      <4> QED
        BY <2>1, <4>1 DEF OneCommand, Unverified
    <3>2. CASE EvidenceEffect(p) \/ VerdictEffect(p) \/ FinalEffect(p) \/ InspectEffect(p)
      <4>1. ctx'[p].cmd = ctx[p].cmd \/ ctx'[p] = Idle
        BY <3>2 DEF EvidenceEffect, EvidenceOf, VerdictEffect, FinalEffect, InspectEffect, Comes
      <4> QED
        BY <2>1, <4>1 DEF OneCommand, Unverified
    <3> QED
      BY <1>2, <2>3, <3>1, <3>2 DEF Effect
  <2> QED
    BY <2>2, <2>3
<1> QED
  BY <1>1, <1>2, Effects

\* What holds of the only process holds of all.
LEMMA OnlyGoing ==
    ASSUME OneCommand, NEW p \in Procs,
           run'.status \in ClosedStatuses =>
               manifest'.status = run'.status \/ Unfinished(manifest'),
           Going(ctx'[p], run', manifest', files')
    PROVE  OpenInv'
BY DEF OneCommand, OpenInv

\* A process that is not there asks nothing of the manifest.
LEMMA IdleGoing == Going(Idle, run', manifest', files')
BY DEF Going, Handling, Admitted, Idle, EarlyLocs, BeforePolicy, ApprovalLocs, JudgeLocs
\* The handlers keep OpenInv.
LEMMA OpenHandlers ==
    ASSUME TypeInv, ApprovalInv, SupplyInv, JudgedInv, OpenInv, OneCommand,
           NEW p \in Procs, SpecEffect(p) \/ PolicyEffect(p) \/ AnswerEffect(p)
    PROVE  OpenInv'
<1> USE DEF Going, Handling, Admitted, JudgeLocs, EarlyLocs, BeforePolicy, ApprovalLocs,
            ClosedStatuses, Unfinished, ActiveStatuses, OnlyFiles, OnlyRun, OnlyManifest,
            Comes
<1>1. /\ Going(ctx[p], run, manifest, files) /\ Judged(ctx[p], run, files)
      /\ run.status \in ClosedStatuses =>
             manifest.status = run.status \/ Unfinished(manifest)
  BY DEF OpenInv, JudgedInv
<1>2. CASE SpecEffect(p)
  <2>1. Unfinished(manifest')
    BY <1>1, <1>2 DEF SpecEffect
  <2>2. Going(ctx'[p], run', manifest', files')
    BY <1>2, <2>1 DEF SpecEffect
  <2> QED
    BY <2>1, <2>2, OnlyGoing
<1>3. CASE PolicyEffect(p)
  <2>1. run'.status \notin ClosedStatuses
    <3>1. ctx[p].pc \in WorkLocs
      BY <1>3 DEF PolicyEffect, WorkLocs
    <3>2. run'.status \in {run.status, "running", "failed", "awaiting_approval"}
      BY <1>3 DEF PolicyEffect
    <3> QED
      BY <1>1, <3>1, <3>2 DEF Judged, AtWork
  <2>2. /\ ctx'[p].pc \in {"policy_running", "policy_run", "policy_manifest", "packet",
                           "prompt_run", "prompt_manifest", "awaiting_approval",
                           "runner_started"} => Unfinished(manifest')
        /\ ctx'[p].pc \notin {"interrupt", "inspect", "inspect_manifest", "resume_run",
                              "resume_manifest", "completed_run", "completed_snapshot",
                              "evidence"}
    BY <1>1, <1>3, Decided DEF PolicyEffect
  <2>3. ctx'[p].pc \in {"policy_running", "policy_run", "policy_manifest", "packet",
                        "prompt_run", "prompt_manifest", "awaiting_approval",
                        "runner_started", "forbid_run", "forbid_manifest", "finalize",
                        "load"}
    BY <1>3, Decided DEF PolicyEffect
  <2>4. Going(ctx'[p], run', manifest', files')
    BY <2>2, <2>3
  <2> QED
    BY <2>1, <2>4, OnlyGoing
<1>4. CASE AnswerEffect(p)
  <2>1. \/ Unfinished(manifest')
        \/ run'.status = "abandoned" /\ manifest'.status = "abandoned"
           /\ ctx'[p].pc \in {"finalize", "load"}
        \/ ctx[p].pc \in {"pause_run", "pause_manifest"}
    BY <1>1, <1>4 DEF AnswerEffect, Judged
  <2>2. ctx[p].pc \in {"pause_run", "pause_manifest"} =>
           /\ ctx[p].pc \in WorkLocs
           /\ run'.status \in {run.status, "awaiting_approval"}
           /\ ctx'[p].pc \in {"pause_manifest", "load", "finalize"}
    BY <1>4 DEF AnswerEffect, AfterAdvance, WorkLocs
  <2>3. Going(ctx'[p], run', manifest', files')
    BY <1>4, <2>1, <2>2 DEF AnswerEffect, AfterAdvance
  <2>4. ctx[p].pc \in WorkLocs => run.status \notin ClosedStatuses
    BY <1>1 DEF Judged, AtWork
  <2>5. run'.status \in ClosedStatuses =>
            manifest'.status = run'.status \/ Unfinished(manifest')
    BY <2>1, <2>2, <2>4
  <2> QED
    BY <2>3, <2>5, OnlyGoing
<1> QED
  BY <1>2, <1>3, <1>4

\* The runner and its evidence keep OpenInv.
LEMMA OpenRunner ==
    ASSUME TypeInv, ApprovalInv, SupplyInv, JudgedInv, OpenInv, OneCommand,
           NEW p \in Procs, RunnerEffect(p) \/ EvidenceEffect(p)
    PROVE  OpenInv'
<1> USE DEF Going, Handling, Admitted, JudgeLocs, EarlyLocs, BeforePolicy, ApprovalLocs,
            ClosedStatuses, Unfinished, ActiveStatuses, OnlyFiles, OnlyRun, OnlyManifest,
            Comes
<1>1. /\ Going(ctx[p], run, manifest, files) /\ Judged(ctx[p], run, files)
      /\ Placed(ctx[p])
      /\ run.status \in ClosedStatuses =>
             manifest.status = run.status \/ Unfinished(manifest)
  BY DEF OpenInv, JudgedInv, SupplyInv
<1>2. CASE RunnerEffect(p)
  <2>1. ctx[p].pc \in WorkLocs
    BY <1>2 DEF RunnerEffect, WorkLocs, RunnerLocs
  <2>2. run'.status \in {run.status, "in_progress", "verifying", "interrupted"}
    BY <1>2 DEF RunnerEffect
  <2>3. run'.status \notin ClosedStatuses
    BY <1>1, <2>1, <2>2 DEF Judged, AtWork
  <2>4. Going(ctx'[p], run', manifest', files')
    BY <1>1, <1>2 DEF RunnerEffect
  <2> QED
    BY <2>3, <2>4, OnlyGoing
<1>3. CASE EvidenceEffect(p)
  <2>1. run' = run /\ manifest' = manifest
    BY <1>3 DEF EvidenceEffect, EvidenceOf
  <2>2. /\ ctx[p].pc = "evidence" /\ ctx'[p].executed = ctx[p].executed
        /\ \/ ctx'[p].pc = "evidence"
           \/ Fresh(p) /\ ctx'[p].pc \in {"completed_manifest", "blocked_snapshot"}
           \/ ~Fresh(p) /\ ctx'[p].pc \in {"verification_started", "relapse_run"}
    BY <1>3 DEF EvidenceEffect, EvidenceOf
  <2>3. ctx[p].cmd \in {"run", "resume"}
    BY <1>1, <2>2, RunTypes DEF Placed, InspectionLocs, Contexts
  <2>4. ~Fresh(p) => ctx[p].executed
    BY <1>1, <2>2, <2>3 DEF Placed, Fresh
  <2>5. Going(ctx'[p], run', manifest', files')
    BY <1>1, <2>1, <2>2, <2>4
  <2> QED
    BY <1>1, <2>1, <2>5, OnlyGoing
<1> QED
  BY <1>2, <1>3

\* Verification and the end of a fresh run keep OpenInv.
LEMMA OpenVerdict ==
    ASSUME TypeInv, ApprovalInv, SupplyInv, JudgedInv, AgreementInv, Unverified, OpenInv,
           OneCommand, NEW p \in Procs, VerdictEffect(p) \/ FinalEffect(p)
    PROVE  OpenInv'
<1> USE DEF Going, Handling, Admitted, JudgeLocs, EarlyLocs, BeforePolicy, ApprovalLocs,
            ClosedStatuses, Unfinished, ActiveStatuses, OnlyFiles, OnlyRun, OnlyManifest,
            Comes
<1>1. /\ Going(ctx[p], run, manifest, files) /\ Placed(ctx[p])
      /\ Agreeing(ctx[p], run, manifest, files, torn) /\ ctx[p].cmd # "verify"
      /\ run.status \in ClosedStatuses =>
             manifest.status = run.status \/ Unfinished(manifest)
  BY DEF OpenInv, AgreementInv, SupplyInv, Unverified
<1>2. CASE VerdictEffect(p)
  <2>1. ctx[p].pc # "verdict_manifest" => Unfinished(manifest')
    BY <1>1, <1>2 DEF VerdictEffect
  <2>2. ctx[p].pc = "verdict_manifest" => manifest'.status = run'.status
    BY <1>1, <1>2 DEF VerdictEffect, Agreeing
  <2>3. Going(ctx'[p], run', manifest', files')
    BY <1>1, <1>2, <2>1 DEF VerdictEffect, AfterAdvance
  <2> QED
    BY <2>1, <2>2, <2>3, OnlyGoing
<1>3. CASE FinalEffect(p)
  <2>1. \/ manifest'.status = manifest.status /\ run'.status = run.status
        \/ manifest'.status = run'.status
    BY <1>3 DEF FinalEffect
  <2>2. ctx'[p] = Idle \/ Going(ctx'[p], run', manifest', files')
    BY <1>1, <1>3 DEF FinalEffect
  <2> QED
    BY <1>1, <2>1, <2>2, IdleGoing, OnlyGoing
<1> QED
  BY <1>2, <1>3
\* The beginning and the end of a command, inspections and resumes keep OpenInv.
LEMMA OpenRest ==
    ASSUME TypeInv, ApprovalInv, SupplyInv, Unverified, OpenInv, OneCommand,
           NEW p \in Procs, CreateEffect(p) \/ EntryEffect(p) \/ InspectEffect(p)
    PROVE  OpenInv'
<1> USE DEF Going, Handling, Admitted, JudgeLocs, EarlyLocs, BeforePolicy, ApprovalLocs,
            ClosedStatuses, Unfinished, OnlyFiles, OnlyRun, OnlyManifest, Comes
<1>1. /\ Going(ctx[p], run, manifest, files) /\ Placed(ctx[p]) /\ ctx[p].cmd # "verify"
      /\ run.status \in ClosedStatuses =>
             manifest.status = run.status \/ Unfinished(manifest)
  BY DEF OpenInv, SupplyInv, Unverified
<1>2. CASE CreateEffect(p)
  BY <1>2, OnlyGoing DEF CreateEffect
<1>3. CASE EntryEffect(p)
  <2>1. run' = run /\ manifest' = manifest /\ files' = files
    BY <1>3 DEF EntryEffect, OnlyMemory
  <2>2. ctx[p].pc # "verify_load"
    BY <1>1, RunTypes DEF Placed, InspectionLocs, Contexts
  <2>3. ctx'[p] = Idle \/ Going(ctx'[p], run', manifest', files')
    BY <1>1, <1>3, <2>1, <2>2 DEF EntryEffect
  <2> QED
    BY <1>1, <2>1, <2>3, IdleGoing, OnlyGoing
<1>4. CASE InspectEffect(p) /\ ctx[p].pc = "inspect"
  <2> DEFINE m  == ctx[p].manifest
             ok == Eligible(run, m, files, Present(files), head)
  <2>1. /\ ctx'[p].pc = "inspect_manifest" /\ ctx'[p].eligible = ok
        /\ run'.status = InspectedStatus(run, m, ok) /\ manifest' = manifest
    BY <1>4 DEF InspectEffect
  <2>2. run'.status \in ClosedStatuses => run'.status = run.status
    BY <2>1 DEF InspectedStatus
  <2>3. ok => run'.status \notin ClosedStatuses
    <3> SUFFICES ASSUME ok, run.status \in ClosedStatuses
                 PROVE  run'.status = "awaiting_approval"
      BY <2>2
    <3>1. m = manifest /\ m.status \notin {"completed", "abandoned"}
      BY <1>1, <1>4 DEF Eligible
    <3>2. m.status = "awaiting_approval"
      BY <1>1, <1>4, <3>1
    <3> QED
      BY <2>1, <3>2 DEF InspectedStatus
  <2>4. Going(ctx'[p], run', manifest', files')
    BY <2>1, <2>3
  <2> QED
    BY <1>1, <2>1, <2>2, <2>4, OnlyGoing
<1>5. CASE InspectEffect(p) /\ ctx[p].pc # "inspect"
  <2>1. \/ run'.status \notin ClosedStatuses
        \/ manifest'.status = run'.status
    BY <1>1, <1>5 DEF InspectEffect
  <2>2. ctx'[p] = Idle \/ Going(ctx'[p], run', manifest', files')
    <3>1. CASE ctx[p].pc = "interrupt"
      BY <1>1, <1>5, <3>1 DEF InspectEffect
    <3>2. CASE ctx[p].pc = "inspect_manifest"
      BY <1>1, <1>5, <3>2 DEF InspectEffect
    <3>3. CASE ctx[p].pc = "resume_run"
      BY <1>1, <1>5, <3>3 DEF InspectEffect
    <3>4. CASE ctx[p].pc = "resume_manifest"
      <4>1. /\ ctx'[p].pc \in HandledStages \cup {"unsupported"}
            /\ manifest'.status = "resuming"
        BY <1>5, <3>4 DEF InspectEffect
      <4>2. "resuming" \in ActiveStatuses
        BY DEF ActiveStatuses
      <4> QED
        BY <4>1, <4>2 DEF HandledStages
    <3> QED
      BY <1>5, <3>1, <3>2, <3>3, <3>4 DEF InspectEffect
  <2> QED
    BY <2>1, <2>2, IdleGoing, OnlyGoing
<1> QED
  BY <1>2, <1>3, <1>4, <1>5

\* OpenInv holds initially.
LEMMA OpenInit == Init => OpenInv /\ Unverified
BY DEF Init, OpenInv, Unverified, Going, Handling, Admitted, Idle, NoRun, ClosedStatuses,
       EarlyLocs, BeforePolicy, ApprovalLocs, JudgeLocs

\* Every step keeps OpenInv.
LEMMA OpenStep ==
    ASSUME OneCommand
    PROVE  Base /\ JudgedInv /\ AgreementInv /\ Unverified /\ OpenInv /\ [Next]_vars
               => OpenInv'
<1> SUFFICES ASSUME TypeInv, ApprovalInv, SupplyInv, JudgedInv, AgreementInv, Unverified,
                    OpenInv, [Next]_vars
             PROVE  OpenInv'
  BY DEF Base
<1>1. CASE Unseen
  BY <1>1 DEF Unseen, OnlyFiles, OpenInv
<1>2. ASSUME NEW p \in Procs, Effect(p)
      PROVE  OpenInv'
  BY <1>2, OpenHandlers, OpenRunner, OpenVerdict, OpenRest DEF Effect
<1> QED
  BY <1>1, <1>2, Effects
\* A step from a closed run leaves the statuses of both records as they are.
LEMMA ClosedStep ==
    ASSUME TypeInv, ApprovalInv, SupplyInv, JudgedInv, AgreementInv, Unverified, OpenInv,
           NEW p \in Procs, Effect(p),
           run.status \in ClosedStatuses, manifest.status = run.status
    PROVE  run'.status = run.status /\ manifest'.status = manifest.status
<1> USE DEF Comes, OnlyFiles, OnlyRun, OnlyManifest
<1>1. /\ Going(ctx[p], run, manifest, files) /\ Judged(ctx[p], run, files)
      /\ Placed(ctx[p]) /\ Agreeing(ctx[p], run, manifest, files, torn)
      /\ ctx[p].cmd # "verify"
  BY DEF OpenInv, JudgedInv, AgreementInv, SupplyInv, Unverified
<1>2. ~Unfinished(manifest) /\ manifest.status \notin ActiveStatuses
  BY DEF Unfinished, ActiveStatuses, ClosedStatuses
<1>3. ~Handling(ctx[p], files) /\ ctx[p].pc # "interrupt" /\ ~Admitted(ctx[p])
  BY <1>1, <1>2 DEF Going
<1>4. ctx[p].pc \notin WorkLocs /\ ~(ctx[p].pc = "evidence" /\ ctx[p].executed)
  BY <1>1 DEF Judged, AtWork
<1>5. CASE SpecEffect(p) \/ PolicyEffect(p) \/ AnswerEffect(p) \/ RunnerEffect(p)
           \/ VerdictEffect(p)
  <2>1. CASE SpecEffect(p)
    BY <1>4, <2>1 DEF SpecEffect, WorkLocs, EarlyLocs, BeforePolicy
  <2>2. CASE PolicyEffect(p)
    BY <1>4, <2>2 DEF PolicyEffect, WorkLocs, EarlyLocs, BeforePolicy
  <2>3. CASE AnswerEffect(p)
    BY <1>3, <1>4, <2>3 DEF AnswerEffect, WorkLocs, RunnerLocs, Handling, ApprovalLocs
  <2>4. CASE RunnerEffect(p)
    BY <1>4, <2>4 DEF RunnerEffect, WorkLocs, RunnerLocs
  <2>5. CASE VerdictEffect(p)
    BY <1>3, <2>5 DEF VerdictEffect, Handling, JudgeLocs
  <2> QED
    BY <1>5, <2>1, <2>2, <2>3, <2>4, <2>5
<1>6. CASE EvidenceEffect(p) \/ FinalEffect(p) \/ EntryEffect(p)
  BY <1>6 DEF EvidenceEffect, EvidenceOf, FinalEffect, EntryEffect, OnlyMemory
<1>7. CASE CreateEffect(p)
  BY <1>7 DEF CreateEffect, NoRun, ClosedStatuses
<1>8. CASE InspectEffect(p)
  <2>1. ctx[p].pc = "inspect" => ctx[p].manifest = manifest
    BY <1>1, <1>2 DEF Going
  <2>2. ctx[p].pc = "inspect" => run'.status = run.status /\ manifest' = manifest
    <3>1. manifest.status # "awaiting_approval" /\ run.status \in TerminalStatuses
      BY DEF ClosedStatuses, TerminalStatuses
    <3> QED
      BY <1>8, <2>1, <3>1 DEF InspectEffect, InspectedStatus
  <2>3. ctx[p].pc \notin {"interrupt", "resume_run", "resume_manifest"}
    BY <1>3 DEF Admitted
  <2> QED
    BY <1>8, <2>2, <2>3 DEF InspectEffect
<1> QED
  BY <1>5, <1>6, <1>7, <1>8 DEF Effect

\* While commands are given one at a time and none of them is `gdh verify`, no step
\* of a status, of a resume or of the run itself reopens a run that both records
\* call completed or abandoned.
THEOREM ClosedStaysClosed ==
    ASSUME OneCommand, "verify" \notin Commands
    PROVE  Spec => ClosedRunStaysClosed
<1> DEFINE I == Base /\ JudgedInv /\ AgreementInv /\ Unverified /\ OpenInv
<1>1. Init => I
  BY BaseHolds, JudgedInit, AgreementInit, OpenInit
<1>2. I /\ [Next]_vars => I'
  BY BaseHolds, JudgedStep, AgreementStep, UnverifiedStep, OpenStep DEF Base
<1>3. I /\ [Next]_vars
          => [run.status \in {"completed", "abandoned"} /\ manifest.status = run.status
              => run'.status = run.status /\ manifest'.status = manifest.status]_vars
  <2> SUFFICES ASSUME I, [Next]_vars, run.status \in ClosedStatuses,
                      manifest.status = run.status
               PROVE  run'.status = run.status /\ manifest'.status = manifest.status
    BY DEF ClosedStatuses
  <2>1. CASE Unseen
    BY <2>1 DEF Unseen, OnlyFiles
  <2>2. ASSUME NEW p \in Procs, Effect(p)
        PROVE  run'.status = run.status /\ manifest'.status = manifest.status
    BY <2>2, ClosedStep DEF Base
  <2> QED
    BY <2>1, <2>2, Effects DEF Base
<1> HIDE DEF I
<1> QED
  BY <1>1, <1>2, <1>3, PTL DEF Spec, ClosedRunStaysClosed

-----------------------------------------------------------------------------
(* Without `gdh verify`: the evidence of one execution. *)

\* What holds of the only process holds of all.
LEMMA OnlyRepeating ==
    ASSUME OneCommand, NEW p \in Procs,
           Repeating(ctx'[p], run', manifest', stale'), Launching(ctx'[p], run', manifest')
    PROVE  StaleInv'
BY DEF OneCommand, StaleInv

\* Where no evidence is stale, only a launch asks for anything.
LEMMA NothingStale ==
    ASSUME OneCommand, NEW p \in Procs, stale' = {},
           ctx'[p].pc \notin {"runner_manifest", "launch"}
    PROVE  StaleInv'
BY OnlyRepeating DEF Repeating, Launching

\* The handlers keep StaleInv.
LEMMA StaleHandlers ==
    ASSUME TypeInv, ApprovalInv, SupplyInv, StaleInv, OneCommand, NEW p \in Procs,
           \/ SpecEffect(p) \/ PolicyEffect(p) \/ AnswerEffect(p)
           \/ VerdictEffect(p) \/ FinalEffect(p)
    PROVE  StaleInv'
<1> USE DEF OnlyFiles, OnlyRun, OnlyManifest, Comes
<1>1. Repeating(ctx[p], run, manifest, stale) /\ stale' = stale
  BY DEF StaleInv, SpecEffect, PolicyEffect, AnswerEffect, VerdictEffect, FinalEffect
<1>2. ctx[p].pc \notin {"idle", "load", "interrupt", "runner_started", "runner_manifest",
                        "launch", "executing", "evidence", "inspect", "inspect_manifest",
                        "resume_run", "resume_manifest"}
  BY DEF SpecEffect, PolicyEffect, AnswerEffect, VerdictEffect, FinalEffect
<1>3. stale' = {}
  BY <1>1, <1>2 DEF Repeating
<1>4. ctx'[p].pc \notin {"runner_manifest", "launch"}
  <2>1. CASE SpecEffect(p)
    BY <2>1 DEF SpecEffect
  <2>2. CASE PolicyEffect(p)
    BY <2>2, Decided DEF PolicyEffect
  <2>3. CASE AnswerEffect(p)
    BY <2>3 DEF AnswerEffect, AfterAdvance
  <2>4. CASE VerdictEffect(p)
    <3>1. \/ ctx'[p] = Idle
          \/ ctx'[p].pc \in {"verify_manifest", "verifying", "verdict_run",
                            "verdict_manifest", "load", "finalize"}
      <4> HIDE DEF OnlyFiles, OnlyRun, OnlyManifest
      <4> QED
        BY <2>4 DEF VerdictEffect, AfterAdvance
    <3> QED
      BY <3>1 DEF Idle
  <2>5. CASE FinalEffect(p)
    BY <2>5 DEF FinalEffect, Idle
  <2> QED
    BY <2>1, <2>2, <2>3, <2>4, <2>5
<1> QED
  BY <1>3, <1>4, NothingStale

\* The runner keeps StaleInv: what it finds is stale until it is written anew.
LEMMA StaleRunner ==
    ASSUME TypeInv, ApprovalInv, SupplyInv, StaleInv, OneCommand, NEW p \in Procs,
           RunnerEffect(p)
    PROVE  StaleInv'
<1> USE DEF OnlyFiles, OnlyRun, OnlyManifest, Comes
<1>1. /\ Repeating(ctx[p], run, manifest, stale) /\ Launching(ctx[p], run, manifest)
      /\ Placed(ctx[p])
  BY DEF StaleInv, SupplyInv
<1>2. CASE ctx[p].pc \in {"runner_started", "runner_manifest", "launch"}
  <2>1. Repeating(ctx'[p], run', manifest', stale')
    BY <1>1, <1>2 DEF RunnerEffect, Repeating, Launching
  <2>2. Launching(ctx'[p], run', manifest')
    BY <1>1, <1>2 DEF RunnerEffect, Launching
  <2> QED
    BY <2>1, <2>2, OnlyRepeating
<1>3. CASE ctx[p].pc = "executing"
  <2>1. /\ ctx'[p].pc = "evidence" /\ ctx'[p].written = 0 /\ ctx'[p].executed
        /\ run' = run /\ manifest' = manifest /\ stale' = stale
    BY <1>1, <1>3 DEF RunnerEffect, Placed
  <2>2. Repeating(ctx'[p], run', manifest', stale') /\ Launching(ctx'[p], run', manifest')
    BY <1>1, <1>3, <2>1 DEF Repeating, Launching
  <2> QED
    BY <2>2, OnlyRepeating
<1>4. CASE ctx[p].pc \notin {"runner_started", "runner_manifest", "launch", "executing"}
  <2>1. /\ stale' = stale
        /\ ctx[p].pc \in {"completed_manifest", "completed_run", "completed_snapshot",
                          "relapse_run", "relapse_manifest"}
        /\ ctx'[p].pc \notin {"runner_manifest", "launch"}
    BY <1>4 DEF RunnerEffect
  <2>2. stale' = {}
    BY <1>1, <2>1 DEF Repeating
  <2> QED
    BY <2>1, <2>2, NothingStale
<1> QED
  BY <1>2, <1>3, <1>4

\* A write of evidence keeps StaleInv.
LEMMA StaleEvidence ==
    ASSUME TypeInv, ApprovalInv, SupplyInv, StaleInv, OneCommand, NEW p \in Procs,
           EvidenceEffect(p)
    PROVE  StaleInv'
<1>1. Repeating(ctx[p], run, manifest, stale) /\ stale \subseteq RunnerEvidence
  BY DEF StaleInv, TypeInv, TypeOK
<1>2. PICK kind, loc :
          /\ kind \in RunnerEvidence
          /\ kind = EvidenceOrder[ctx[p].written + 1] /\ ctx[p].written \in 0 .. 4
          /\ Comes(p, "evidence", loc) /\ ctx'[p].written = ctx[p].written + 1
          /\ run' = run /\ manifest' = manifest /\ stale' = stale \ {kind}
          /\ \/ loc = "evidence"
             \/ /\ ctx'[p].written = 5
                /\ loc \in {"completed_manifest", "blocked_snapshot",
                            "verification_started", "relapse_run"}
  BY DEF EvidenceEffect, EvidenceOf
<1>3. ASSUME stale # {}
      PROVE  /\ ctx[p].executed
             /\ \A i \in 1 .. ctx'[p].written : EvidenceOrder[i] \notin stale'
  <2>1. ctx[p].executed /\ \A i \in 1 .. ctx[p].written : EvidenceOrder[i] \notin stale
    BY <1>1, <1>2, <1>3 DEF Repeating, Comes
  <2>2. \A i \in 1 .. ctx'[p].written : i \in 1 .. ctx[p].written \/ i = ctx[p].written + 1
    BY <1>2
  <2> QED
    BY <1>2, <2>1, <2>2
<1>4. CASE loc = "evidence"
  <2>1. /\ ctx[p].pc = "evidence" /\ ctx'[p].pc = "evidence"
        /\ ctx'[p].executed = ctx[p].executed
    BY <1>2, <1>4 DEF Comes
  <2>2. Repeating(ctx'[p], run', manifest', stale') /\ Launching(ctx'[p], run', manifest')
    BY <1>1, <1>2, <1>3, <2>1 DEF Repeating, Launching
  <2> QED
    BY <2>2, OnlyRepeating
<1>5. CASE loc # "evidence"
  <2>1. ctx'[p].written = 5 /\ ctx'[p].pc \notin {"runner_manifest", "launch"}
    BY <1>2, <1>5 DEF Comes
  <2>2. \A a \in RunnerEvidence : \E i \in 1 .. 5 : EvidenceOrder[i] = a
    BY DEF RunnerEvidence, EvidenceOrder
  <2>3. stale' = {}
    BY <1>1, <1>2, <1>3, <2>1, <2>2
  <2> QED
    BY <2>1, <2>3, NothingStale
<1> QED
  BY <1>4, <1>5

\* The beginning and the end of a command, inspections and resumes keep StaleInv.
LEMMA StaleRest ==
    ASSUME TypeInv, ApprovalInv, SupplyInv, Unverified, StaleInv, OneCommand,
           "verify" \notin Commands, NEW p \in Procs,
           CreateEffect(p) \/ EntryEffect(p) \/ InspectEffect(p)
    PROVE  StaleInv'
<1> USE DEF OnlyFiles, OnlyRun, OnlyManifest, OnlyMemory, Comes
<1>1. /\ Repeating(ctx[p], run, manifest, stale) /\ Placed(ctx[p])
      /\ ctx[p].cmd # "verify"
  BY DEF StaleInv, SupplyInv, Unverified
<1>2. CASE CreateEffect(p)
  <2>1. stale' = {}
    BY <1>1, <1>2 DEF CreateEffect, Repeating, NoRun
  <2> QED
    BY <1>2, <2>1, NothingStale DEF CreateEffect
<1>3. CASE EntryEffect(p)
  <2>1. run' = run /\ manifest' = manifest /\ stale' = stale
    BY <1>3 DEF EntryEffect
  <2>2. ctx[p].pc # "verify_load"
    BY <1>1, RunTypes DEF Placed, InspectionLocs, Contexts
  <2>3. \/ ctx'[p].pc \in {"idle", "load", "interrupt"}
        \/ ctx'[p].pc = "inspect" /\ ctx'[p].manifest = manifest
    BY <1>3, <2>2 DEF EntryEffect, Idle
  <2>4. Launching(ctx'[p], run', manifest')
    BY <2>3 DEF Launching
  <2>5. Repeating(ctx'[p], run', manifest', stale')
    BY <1>1, <2>1, <2>3 DEF Repeating
  <2> QED
    BY <2>4, <2>5, OnlyRepeating
<1>4. CASE InspectEffect(p)
  <2>1. stale' = stale
    BY <1>4 DEF InspectEffect
  <2>2. /\ ctx'[p].pc \notin {"runner_manifest", "launch", "evidence"}
        /\ ctx[p].pc \in {"interrupt", "inspect", "inspect_manifest", "resume_run",
                          "resume_manifest"}
    BY <1>4 DEF InspectEffect, HandledStages, Idle
  <2>3. CASE stale = {}
    BY <2>1, <2>2, <2>3, NothingStale
  <2>4. CASE stale # {}
    <3>1. /\ run.stage = "runner_started" /\ manifest.stage = "runner_started"
          /\ ctx[p].pc = "inspect" => ctx[p].manifest.stage = "runner_started"
          /\ ctx[p].pc \in {"inspect_manifest", "resume_run", "resume_manifest"}
                 => ctx[p].next = "runner_started"
      BY <1>1, <2>2, <2>4 DEF Repeating
    <3>2. DetermineNextStage(run, ctx[p].manifest, files) = "runner_started"
      BY <3>1 DEF DetermineNextStage
    <3>3. run'.stage = "runner_started" /\ manifest'.stage = "runner_started"
      BY <1>4, <3>1 DEF InspectEffect
    <3>4. \/ ctx'[p].pc \in {"idle", "runner_started"}
          \/ ctx'[p].pc = "inspect" /\ ctx'[p].manifest.stage = "runner_started"
          \/ ctx'[p].pc \in {"inspect_manifest", "resume_run", "resume_manifest"}
             /\ ctx'[p].next = "runner_started"
      BY <1>4, <3>1, <3>2 DEF InspectEffect, HandledStages, Idle
    <3> QED
      BY <2>1, <2>2, <3>3, <3>4, OnlyRepeating DEF Repeating, Launching
  <2> QED
    BY <2>3, <2>4
<1> QED
  BY <1>2, <1>3, <1>4

\* StaleInv holds initially.
LEMMA StaleInit == Init => StaleInv
BY DEF Init, StaleInv, Repeating, Launching, Idle

\* Every step keeps StaleInv.
LEMMA StaleStep ==
    ASSUME OneCommand, "verify" \notin Commands
    PROVE  Base /\ Unverified /\ StaleInv /\ [Next]_vars => StaleInv'
<1> SUFFICES ASSUME TypeInv, ApprovalInv, SupplyInv, Unverified, StaleInv, [Next]_vars
             PROVE  StaleInv'
  BY DEF Base
<1>1. CASE Unseen
  BY <1>1 DEF Unseen, OnlyFiles, StaleInv
<1>2. ASSUME NEW p \in Procs, Effect(p)
      PROVE  StaleInv'
  BY <1>2, StaleHandlers, StaleRunner, StaleEvidence, StaleRest DEF Effect
<1> QED
  BY <1>1, <1>2, Effects

\* While commands are given one at a time and none of them is `gdh verify`, a
\* verification judges what one execution of the runner has left, however many
\* executions before it were killed halfway.
THEOREM EvidenceOfOneExecution ==
    ASSUME OneCommand, "verify" \notin Commands
    PROVE  Spec => []EvidenceIsOfOneExecution
<1>1. Init => Base /\ Unverified /\ StaleInv
  BY BaseHolds, OpenInit, StaleInit
<1>2. Base /\ Unverified /\ StaleInv /\ [Next]_vars => (Base /\ Unverified /\ StaleInv)'
  BY BaseHolds, UnverifiedStep, StaleStep
<1>3. StaleInv => EvidenceIsOfOneExecution
  BY DEF StaleInv, Repeating, EvidenceIsOfOneExecution, At
<1> QED
  BY <1>1, <1>2, <1>3, PTL DEF Spec

-----------------------------------------------------------------------------
(* Where the records lead. *)

\* What holds of the only process holds of all.
LEMMA OnlyLeading ==
    ASSUME OneCommand, NEW p \in Procs,
           files'["resolution"] \in Resolutions \cup {"absent"},
           Led(run', manifest', files'), Leading(ctx'[p], run', manifest', files')
    PROVE  LeadInv'
BY DEF OneCommand, LeadInv

\* A process that is not there asks nothing of the records.
LEMMA IdleLeading == Leading(Idle, run', manifest', files')
BY DEF Leading, Launched, Idle, EarlyLocs, BeforePolicy, AskLocs, ApprovalLocs

\* The handlers of the spec and of the plan keep LeadInv.
LEMMA LeadSpec ==
    ASSUME TypeInv, ApprovalInv, SupplyInv, LeadInv, OneCommand, NEW p \in Procs,
           SpecEffect(p)
    PROVE  LeadInv'
<1> USE DEF OnlyFiles, OnlyRun, OnlyManifest, Comes
<1>1. /\ Asking(run, manifest, files) /\ Evidenced(run, manifest, files)
      /\ Leading(ctx[p], run, manifest, files)
      /\ files["resolution"] \in Resolutions \cup {"absent"}
  BY DEF LeadInv, Led
<1>2. /\ files'["resolution"] = files["resolution"] /\ files'["decision"] = files["decision"]
      /\ "packet" \in Present(files') <=> "packet" \in Present(files)
      /\ HasRunnerEvidence(files) => HasRunnerEvidence(files')
  <2>1. ASSUME NEW f, f = files \/ f = Overlay([spec |-> "present"], files)
                        \/ f = Overlay([plan |-> "present"], files)
        PROVE  /\ f["resolution"] = files["resolution"] /\ f["decision"] = files["decision"]
               /\ "packet" \in Present(f) <=> "packet" \in Present(files)
               /\ HasRunnerEvidence(files) => HasRunnerEvidence(f)
    BY <2>1 DEF Present, Overlay, HasRunnerEvidence, Artifacts, RunnerEvidence
  <2>2. \/ files' = files \/ files' = Overlay([spec |-> "present"], files)
        \/ files' = Overlay([plan |-> "present"], files)
    BY DEF SpecEffect
  <2> QED
    BY <2>1, <2>2
<1>3. ctx[p].pc = "create_manifest" => run.stage = "created"
  BY Somewhere DEF InPlace
<1>4. /\ manifest.checkpoint # "policy_evaluated"
      /\ ctx[p].cmd = "run" => "packet" \notin Present(files)
      /\ ctx[p].pc # "create_manifest" => manifest.pending # NoStage
  BY <1>1 DEF Leading, SpecEffect, EarlyLocs, BeforePolicy
<1>5. /\ run'.stage \in {run.stage, "spec_normalized", "plan_created"}
      /\ manifest'.stage \in {manifest.stage, "created", "spec_normalized", "plan_created"}
      /\ manifest'.checkpoint \in {manifest.checkpoint, NoStage, "spec_normalized",
                                   "plan_created"}
      /\ manifest'.pending \in {manifest.pending, "spec_normalized", "plan_created",
                                "policy_evaluated"}
      /\ manifest'.pending # NoStage
  BY <1>4 DEF SpecEffect, NoStage
<1>6. /\ ctx'[p].cmd = ctx[p].cmd
      /\ ctx'[p].pc \in {"spec_normalized", "spec_run", "spec_manifest", "plan_created",
                         "plan_run", "plan_manifest", "policy_evaluated"}
  BY DEF SpecEffect
<1>7. Asking(run', manifest', files')
  BY <1>1, <1>4, <1>5 DEF Asking, NoStage
<1>8. Evidenced(run', manifest', files')
  BY <1>1, <1>2, <1>5 DEF Evidenced, Judging, NoStage
<1>9. Leading(ctx'[p], run', manifest', files')
  BY <1>2, <1>4, <1>5, <1>6 DEF Leading, Launched, AskLocs, ApprovalLocs, NoStage
<1> QED
  BY <1>1, <1>2, <1>7, <1>8, <1>9, OnlyLeading DEF Led

\* handlePolicyEvaluated keeps LeadInv.
LEMMA LeadPolicy ==
    ASSUME TypeInv, ApprovalInv, SupplyInv, LeadInv, OneCommand, NEW p \in Procs,
           PolicyEffect(p)
    PROVE  LeadInv'
<1> USE DEF OnlyFiles, OnlyRun, OnlyManifest, Comes
<1>1. /\ Asking(run, manifest, files) /\ Evidenced(run, manifest, files)
      /\ Leading(ctx[p], run, manifest, files)
      /\ files["resolution"] \in Resolutions \cup {"absent"}
      /\ Placed(ctx[p])
  BY DEF LeadInv, Led, SupplyInv
<1>2. /\ files'["resolution"] = files["resolution"]
      /\ HasRunnerEvidence(files) => HasRunnerEvidence(files')
      /\ ctx[p].pc # "policy_evaluated" => files'["decision"] = files["decision"]
      /\ ctx[p].pc # "packet" => ("packet" \in Present(files') <=> "packet" \in Present(files))
  <2>1. ASSUME NEW d \in Decisions
        PROVE  LET f == Overlay([preview |-> "present", decision |-> d], files)
               IN  /\ f["resolution"] = files["resolution"]
                   /\ HasRunnerEvidence(files) => HasRunnerEvidence(f)
                   /\ "packet" \in Present(f) <=> "packet" \in Present(files)
    BY DEF Present, Overlay, HasRunnerEvidence, Artifacts, RunnerEvidence
  <2>2. ASSUME NEW k \in Packets
        PROVE  LET f == Overlay([packet |-> k], files)
               IN  /\ f["resolution"] = files["resolution"]
                   /\ HasRunnerEvidence(files) => HasRunnerEvidence(f)
                   /\ f["decision"] = files["decision"]
    BY PacketsAssumption DEF Present, Overlay, HasRunnerEvidence, Artifacts, RunnerEvidence
  <2> QED
    BY <2>1, <2>2 DEF PolicyEffect
<1>3. Asking(run', manifest', files') /\ Evidenced(run', manifest', files')
      /\ Leading(ctx'[p], run', manifest', files')
  <2>1. CASE ctx[p].pc = "policy_evaluated"
    <3>1. /\ run' = run /\ manifest' = manifest /\ ctx'[p].cmd = ctx[p].cmd
          /\ files'["decision"] \in Decisions
          /\ ctx'[p].pc = IF Fresh(p) THEN "policy_running"
                          ELSE AfterPolicy(files'["decision"])
      <4>1. PICK d \in Decisions :
                /\ files' = Overlay([preview |-> "present", decision |-> d], files)
                /\ ctx'[p].pc = IF Fresh(p) THEN "policy_running" ELSE AfterPolicy(d)
        BY <2>1 DEF PolicyEffect
      <4>2. files'["decision"] = d
        BY <4>1 DEF Overlay, Artifacts
      <4> QED
        BY <2>1, <4>1, <4>2 DEF PolicyEffect
    <3>2. /\ manifest.checkpoint # "policy_evaluated" /\ manifest.pending # NoStage
          /\ ctx[p].cmd = "run" => "packet" \notin Present(files')
      BY <1>1, <1>2, <2>1 DEF Leading, EarlyLocs, BeforePolicy
    <3>3. /\ Fresh(p) => ctx'[p].pc = "policy_running" /\ ctx'[p].cmd = "run"
          /\ ~Fresh(p) => /\ ctx'[p].pc \in {"runner_started", "packet", "forbid_run"}
                          /\ ctx'[p].pc = "packet" => files'["decision"] = "prompt"
                          /\ ctx'[p].cmd # "run"
      BY <3>1 DEF AfterPolicy, Decisions, Fresh
    <3>4. Asking(run', manifest', files')
      BY <1>1, <3>1, <3>2 DEF Asking
    <3>5. Evidenced(run', manifest', files')
      BY <1>1, <1>2, <3>1 DEF Evidenced
    <3>6. Leading(ctx'[p], run', manifest', files')
      BY <3>1, <3>2, <3>3
         DEF Leading, Launched, EarlyLocs, BeforePolicy, AskLocs, ApprovalLocs
    <3> QED
      BY <3>4, <3>5, <3>6
  <2>2. CASE ctx[p].pc \in {"policy_running", "policy_run", "policy_manifest"}
    <3>1. /\ manifest.checkpoint # "policy_evaluated" /\ manifest.pending # NoStage
          /\ ctx[p].cmd = "run" /\ "packet" \notin Present(files)
      BY <1>1, <2>2 DEF Leading, EarlyLocs, BeforePolicy
    <3>2. files' = files /\ ctx'[p].cmd = "run"
      BY <2>2, <3>1 DEF PolicyEffect
    <3>3. CASE ctx[p].pc \in {"policy_running", "policy_run"}
      <4>1. /\ manifest' = manifest /\ run'.stage \in {run.stage, "policy_evaluated"}
            /\ ctx'[p].pc \in {"policy_run", "policy_manifest"}
        BY <3>3 DEF PolicyEffect
      <4>2. Asking(run', manifest', files')
        BY <1>1, <3>1, <3>2, <4>1 DEF Asking
      <4>3. Evidenced(run', manifest', files')
        BY <1>1, <3>2, <4>1 DEF Evidenced, Judging
      <4>4. Leading(ctx'[p], run', manifest', files')
        BY <3>1, <3>2, <4>1 DEF Leading, Launched, AskLocs, ApprovalLocs
      <4> QED
        BY <4>2, <4>3, <4>4
    <3>4. CASE ctx[p].pc = "policy_manifest"
      <4>1. /\ run' = run /\ manifest'.stage = "policy_evaluated"
            /\ manifest'.checkpoint = "policy_evaluated"
            /\ manifest'.pending \in {"awaiting_approval", "runner_started"}
            /\ ctx'[p].pc = AfterPolicy(files["decision"])
        BY <3>4 DEF PolicyEffect, PendingAfterPolicy
      <4>2. /\ ctx'[p].pc \in {"runner_started", "packet", "forbid_run"}
            /\ ctx'[p].pc = "packet" => files["decision"] = "prompt"
        BY <3>4, <4>1, Decided DEF AfterPolicy, Decisions
      <4>3. Asking(run', manifest', files')
        BY <3>1, <3>2, <4>1 DEF Asking, BeforePolicy
      <4>4. Evidenced(run', manifest', files')
        BY <1>1, <3>2, <4>1 DEF Evidenced, Judging
      <4>5. Leading(ctx'[p], run', manifest', files')
        BY <3>2, <4>1, <4>2
           DEF Leading, Launched, EarlyLocs, BeforePolicy, AskLocs, ApprovalLocs, NoStage
      <4> QED
        BY <4>3, <4>4, <4>5
    <3> QED
      BY <2>2, <3>3, <3>4
  <2>3. CASE ctx[p].pc \in {"forbid_run", "forbid_manifest"}
    <3>1. /\ files' = files /\ ctx'[p].cmd = ctx[p].cmd
          /\ run'.stage \in {run.stage, "policy_evaluated"}
          /\ manifest'.stage \in {manifest.stage, "policy_evaluated"}
          /\ manifest'.checkpoint = manifest.checkpoint
          /\ manifest'.pending = manifest.pending \/ ctx[p].cmd = "run"
          /\ run'.status \in {run.status, "failed"}
          /\ manifest'.status \in {manifest.status, "failed"}
          /\ ctx'[p].pc \in {"forbid_manifest", "finalize", "load"}
          /\ manifest'.pending \in {manifest.pending, NoStage}
          /\ ctx[p].pc = "forbid_run" => manifest' = manifest
          /\ ctx[p].pc = "forbid_manifest" => run' = run
      BY <2>3 DEF PolicyEffect, Fresh
    <3>2. /\ ctx[p].cmd = "run" => manifest.checkpoint = "policy_evaluated"
          /\ ctx[p].pc = "forbid_run" => manifest.pending # NoStage
      BY <1>1, <2>3 DEF Leading
    <3>3. ctx[p].pc = "forbid_manifest" => run.stage = "policy_evaluated"
      BY Somewhere DEF InPlace
    <3>4. Asking(run', manifest', files')
      BY <1>1, <2>3, <3>1, <3>2, <3>3 DEF Asking, BeforePolicy, NoStage
    <3>5. Evidenced(run', manifest', files')
      BY <1>1, <3>1 DEF Evidenced, Judging, NoStage
    <3>6. Leading(ctx'[p], run', manifest', files')
      BY <3>1, <3>2 DEF Leading, Launched, EarlyLocs, BeforePolicy, AskLocs, ApprovalLocs
    <3> QED
      BY <3>4, <3>5, <3>6
  <2>4. CASE ctx[p].pc \in {"packet", "prompt_run", "prompt_manifest"}
    <3>1. /\ files["decision"] = "prompt" /\ files'["decision"] = "prompt"
          /\ manifest.pending # NoStage
          /\ ctx[p].pc \in {"prompt_run", "prompt_manifest"} =>
                 ctx[p].cmd = "run" /\ manifest.checkpoint = "policy_evaluated"
      <4>1. ctx[p].pc \in ApprovalLocs /\ ctx[p].cmd = "run"
                => manifest.checkpoint = "policy_evaluated"
        BY Somewhere DEF InPlace
      <4> QED
        BY <1>1, <1>2, <2>4, <4>1 DEF Leading, AskLocs, ApprovalLocs
    <3>2. CASE ctx[p].pc = "packet"
      <4>1. /\ run' = run /\ manifest' = manifest /\ ctx'[p].cmd = ctx[p].cmd
            /\ (Fresh(p) /\ ctx'[p].pc = "prompt_run") \/ ctx'[p].pc = "awaiting_approval"
        BY <3>2 DEF PolicyEffect
      <4>2. Asking(run', manifest', files')
        BY <1>1, <3>1, <4>1 DEF Asking
      <4>3. Evidenced(run', manifest', files')
        BY <1>1, <1>2, <4>1 DEF Evidenced
      <4>4. Leading(ctx'[p], run', manifest', files')
        BY <3>1, <4>1 DEF Leading, Launched, EarlyLocs, BeforePolicy, Fresh
      <4> QED
        BY <4>2, <4>3, <4>4
    <3>3. CASE ctx[p].pc \in {"prompt_run", "prompt_manifest"}
      <4>1. /\ files' = files /\ ctx'[p].cmd = ctx[p].cmd
            /\ run'.stage \in {run.stage, "awaiting_approval"}
            /\ manifest'.stage \in {manifest.stage, "awaiting_approval"}
            /\ manifest'.pending \in {manifest.pending, "awaiting_approval"}
            /\ manifest'.checkpoint = manifest.checkpoint
            /\ ctx'[p].pc \in {"prompt_manifest", "awaiting_approval"}
        BY <3>3 DEF PolicyEffect
      <4>2. Asking(run', manifest', files')
        BY <1>1, <3>1, <3>3, <4>1 DEF Asking, BeforePolicy
      <4>3. Evidenced(run', manifest', files')
        BY <1>1, <1>2, <4>1 DEF Evidenced, Judging
      <4>4. Leading(ctx'[p], run', manifest', files')
        BY <3>1, <3>3, <4>1 DEF Leading, Launched, EarlyLocs, BeforePolicy, NoStage
      <4> QED
        BY <4>2, <4>3, <4>4
    <3> QED
      BY <2>4, <3>2, <3>3
  <2> QED
    BY <2>1, <2>2, <2>3, <2>4 DEF PolicyEffect
<1> QED
  BY <1>1, <1>2, <1>3, OnlyLeading DEF Led
\* handleAwaitingApproval keeps LeadInv.
LEMMA LeadAnswer ==
    ASSUME TypeInv, ApprovalInv, SupplyInv, LeadInv, OneCommand, NEW p \in Procs,
           AnswerEffect(p)
    PROVE  LeadInv'
<1> USE DEF OnlyFiles, OnlyRun, OnlyManifest, Comes
<1>1. /\ Asking(run, manifest, files) /\ Evidenced(run, manifest, files)
      /\ Leading(ctx[p], run, manifest, files)
      /\ files["resolution"] \in Resolutions \cup {"absent"}
  BY DEF LeadInv, Led
<1>2. /\ ctx[p].pc \in AskLocs => files["decision"] = "prompt" /\ manifest.pending # NoStage
      /\ ctx[p].pc = "resolved" => files["resolution"] # "absent"
  BY <1>1 DEF Leading
<1>3. /\ ctx[p].pc \in ApprovalLocs /\ ctx[p].cmd = "run"
             => manifest.checkpoint = "policy_evaluated"
      /\ ctx[p].pc = "approve_manifest" => run.stage = "approval_resolved"
      /\ Fresh(p) <=> ctx[p].cmd = "run"
  BY Somewhere DEF InPlace, Fresh
<1>4. CASE ctx[p].pc = "awaiting_approval"
  <2>1. ASSUME NEW answer \in Resolutions
        PROVE  LET f == Overlay([resolution |-> answer], files)
               IN  /\ f["resolution"] = answer /\ f["decision"] = files["decision"]
                   /\ HasRunnerEvidence(files) => HasRunnerEvidence(f)
                   /\ "packet" \in Present(f) <=> "packet" \in Present(files)
    BY DEF Present, Overlay, HasRunnerEvidence, Artifacts, RunnerEvidence, Resolutions
  <2>2. /\ run' = run /\ manifest' = manifest
        /\ ctx'[p].pc \in {"resolved", "finalize", "pause_run"}
        /\ files'["decision"] = files["decision"]
        /\ files'["resolution"] \in Resolutions \cup {"absent"}
        /\ ctx'[p].pc = "resolved" => files'["resolution"] # "absent"
        /\ HasRunnerEvidence(files) => HasRunnerEvidence(files')
        /\ "packet" \in Present(files') <=> "packet" \in Present(files)
    BY <1>1, <1>4, <2>1 DEF AnswerEffect, Resolutions
  <2>3. files["decision"] = "prompt" /\ manifest.pending # NoStage
    BY <1>2, <1>4 DEF AskLocs, ApprovalLocs
  <2>4. Asking(run', manifest', files') /\ Evidenced(run', manifest', files')
    BY <1>1, <2>2, <2>3 DEF Asking, Evidenced
  <2>5. Leading(ctx'[p], run', manifest', files')
    BY <2>2, <2>3 DEF Leading, Launched, EarlyLocs, BeforePolicy
  <2> QED
    BY <2>2, <2>4, <2>5, OnlyLeading DEF Led
<1>5. CASE ctx[p].pc \in {"pause_run", "pause_manifest"}
  <2>1. /\ run'.stage = run.stage /\ manifest'.stage = manifest.stage
        /\ manifest'.pending = manifest.pending
        /\ manifest'.checkpoint = manifest.checkpoint /\ files' = files
        /\ ctx'[p].pc \in {"pause_manifest", "load", "finalize"}
    BY <1>5 DEF AnswerEffect, AfterAdvance
  <2>2. files["decision"] = "prompt" /\ manifest.pending # NoStage
    BY <1>2, <1>5 DEF AskLocs
  <2>3. Asking(run', manifest', files') /\ Evidenced(run', manifest', files')
    BY <1>1, <2>1, <2>2 DEF Asking, Evidenced
  <2>4. Leading(ctx'[p], run', manifest', files')
    BY <2>1, <2>2 DEF Leading, Launched, EarlyLocs, BeforePolicy
  <2> QED
    BY <1>1, <2>1, <2>3, <2>4, OnlyLeading DEF Led
<1>6. CASE ctx[p].pc = "resolved"
  <2>1. /\ run'.stage = "approval_resolved" /\ manifest' = manifest /\ files' = files
        /\ ctx'[p].pc \in {"deny_manifest", "approve_manifest"}
    BY <1>6 DEF AnswerEffect
  <2>2. files["decision"] = "prompt" /\ manifest.pending # NoStage
    BY <1>2, <1>6 DEF AskLocs, ApprovalLocs
  <2>3. Asking(run', manifest', files') /\ Evidenced(run', manifest', files')
    BY <1>1, <2>1, <2>2 DEF Asking, Evidenced, Judging
  <2>4. Leading(ctx'[p], run', manifest', files')
    BY <2>1, <2>2 DEF Leading, Launched, EarlyLocs, BeforePolicy
  <2> QED
    BY <1>1, <2>1, <2>3, <2>4, OnlyLeading DEF Led
<1>7. CASE ctx[p].pc = "deny_manifest"
  <2>1. /\ run' = run /\ files' = files /\ ctx'[p].pc \in {"finalize", "load"}
        /\ manifest'.stage \in {manifest.stage, "approval_resolved"}
        /\ manifest'.checkpoint = manifest.checkpoint
        /\ \/ manifest.checkpoint = "policy_evaluated" /\ manifest'.pending = NoStage
           \/ manifest'.pending = manifest.pending
    BY <1>3, <1>7 DEF AnswerEffect, ApprovalLocs
  <2>2. files["decision"] = "prompt" /\ manifest.pending # NoStage
    BY <1>2, <1>7 DEF AskLocs, ApprovalLocs
  <2>3. Asking(run', manifest', files') /\ Evidenced(run', manifest', files')
    BY <1>1, <2>1, <2>2 DEF Asking, Evidenced, Judging, BeforePolicy, NoStage
  <2>4. Leading(ctx'[p], run', manifest', files')
    BY <2>1 DEF Leading, Launched, EarlyLocs, BeforePolicy, AskLocs, ApprovalLocs
  <2> QED
    BY <1>1, <2>1, <2>3, <2>4, OnlyLeading DEF Led
<1>8. CASE ctx[p].pc = "approve_manifest"
  <2>1. /\ run' = run /\ files' = files /\ ctx'[p].pc = "runner_started"
        /\ manifest'.stage = "approval_resolved" /\ manifest'.pending = "runner_started"
        /\ manifest'.checkpoint = "approval_resolved"
    BY <1>8 DEF AnswerEffect
  <2>2. Asking(run', manifest', files') /\ Evidenced(run', manifest', files')
    BY <1>1, <1>3, <1>8, <2>1 DEF Asking, Evidenced, Judging, NoStage
  <2>3. Leading(ctx'[p], run', manifest', files')
    BY <2>1 DEF Leading, Launched, EarlyLocs, BeforePolicy, AskLocs, ApprovalLocs
  <2> QED
    BY <1>1, <2>1, <2>2, <2>3, OnlyLeading DEF Led
<1> QED
  BY <1>4, <1>5, <1>6, <1>7, <1>8 DEF AnswerEffect

\* The runner keeps LeadInv.
LEMMA LeadRunner ==
    ASSUME TypeInv, ApprovalInv, SupplyInv, LeadInv, OneCommand, NEW p \in Procs,
           RunnerEffect(p)
    PROVE  LeadInv'
<1> USE DEF OnlyFiles, OnlyRun, OnlyManifest, Comes
<1>1. /\ Asking(run, manifest, files) /\ Evidenced(run, manifest, files)
      /\ Leading(ctx[p], run, manifest, files)
      /\ files["resolution"] \in Resolutions \cup {"absent"}
      /\ Placed(ctx[p]) /\ Supplied(ctx[p], files)
  BY DEF LeadInv, Led, SupplyInv
<1>2. files' = files
  BY DEF RunnerEffect
<1>3. CASE ctx[p].pc \in {"runner_started", "runner_manifest", "launch", "executing"}
  <2>1. /\ run'.stage \in {run.stage, "runner_started"}
        /\ manifest'.stage \in {manifest.stage, "runner_started"}
        /\ manifest'.checkpoint = manifest.checkpoint
        /\ \/ manifest'.pending = manifest.pending /\ manifest'.status = manifest.status
           \/ manifest'.pending = "runner_completed"
        /\ run'.stage = "runner_started" \/ run' = run
        /\ run'.status \in {run.status, "in_progress"}
        /\ ctx'[p].pc \in {"runner_manifest", "launch", "executing", "evidence"}
    BY <1>3 DEF RunnerEffect
  <2>2. run'.stage = "runner_started"
    BY <1>1, <1>3 DEF Leading, Launched, RunnerEffect
  <2>3. Asking(run', manifest', files')
    BY <1>1, <1>2, <2>1, <2>2 DEF Asking, BeforePolicy, NoStage
  <2>4. Evidenced(run', manifest', files')
    BY <1>1, <1>2, <2>1, <2>2 DEF Evidenced, Judging
  <2>5. Leading(ctx'[p], run', manifest', files')
    BY <2>1, <2>2 DEF Leading, Launched, EarlyLocs, BeforePolicy, AskLocs, ApprovalLocs
  <2> QED
    BY <1>1, <1>2, <2>3, <2>4, <2>5, OnlyLeading DEF Led
<1>4. CASE ctx[p].pc \in {"completed_manifest", "completed_run", "completed_snapshot"}
  <2>1. HasRunnerEvidence(files)
    BY <1>1, <1>4 DEF Supplied, ExecutedLocs
  <2>2. /\ run'.stage \in {run.stage, "runner_completed"}
        /\ manifest'.stage \in {manifest.stage, "runner_completed"}
        /\ \/ /\ manifest'.checkpoint = manifest.checkpoint
              /\ manifest'.pending = manifest.pending /\ manifest'.status = manifest.status
           \/ /\ manifest'.checkpoint = "runner_completed"
              /\ manifest'.pending \in {"verification_started", "runner_started"}
              /\ ctx[p].pc = "completed_manifest"
        /\ run'.status \in {run.status, "verifying", "interrupted"}
        /\ ctx'[p].pc \in {"completed_run", "completed_snapshot", "verification_started",
                           "finalize"}
    BY <1>4 DEF RunnerEffect
  <2>3. ctx[p].pc = "completed_manifest" =>
            run'.stage = "runner_started" /\ manifest'.stage = "runner_completed"
    BY <1>1 DEF Leading, Launched, RunnerEffect
  <2>4. Asking(run', manifest', files')
    BY <1>1, <1>2, <2>2, <2>3 DEF Asking, NoStage
  <2>5. Evidenced(run', manifest', files')
    BY <1>2, <2>1 DEF Evidenced
  <2>6. Leading(ctx'[p], run', manifest', files')
    BY <2>2 DEF Leading, Launched, EarlyLocs, BeforePolicy, AskLocs, ApprovalLocs
  <2> QED
    BY <1>1, <1>2, <2>4, <2>5, <2>6, OnlyLeading DEF Led
<1>5. CASE ctx[p].pc \in {"relapse_run", "relapse_manifest"}
  <2>1. HasRunnerEvidence(files)
    BY <1>1, <1>5 DEF Supplied, ExecutedLocs
  <2>2. /\ run'.stage \in {run.stage, "runner_started"}
        /\ manifest'.stage \in {manifest.stage, "runner_started"}
        /\ manifest'.checkpoint = manifest.checkpoint
        /\ \/ manifest'.pending = manifest.pending /\ manifest'.status = manifest.status
           \/ manifest'.pending = "runner_started"
        /\ run'.status \in {run.status, "interrupted"}
        /\ ctx'[p].pc \in {"relapse_manifest", "load"}
    BY <1>5 DEF RunnerEffect
  <2>3. Asking(run', manifest', files')
    BY <1>1, <1>2, <2>2 DEF Asking, BeforePolicy, NoStage
  <2>4. Evidenced(run', manifest', files')
    BY <1>2, <2>1 DEF Evidenced
  <2>5. Leading(ctx'[p], run', manifest', files')
    BY <2>2 DEF Leading, Launched, EarlyLocs, BeforePolicy, AskLocs, ApprovalLocs
  <2> QED
    BY <1>1, <1>2, <2>3, <2>4, <2>5, OnlyLeading DEF Led
<1> QED
  BY <1>3, <1>4, <1>5 DEF RunnerEffect

\* A write of evidence keeps LeadInv.
LEMMA LeadEvidence ==
    ASSUME TypeInv, ApprovalInv, SupplyInv, LeadInv, OneCommand, NEW p \in Procs,
           EvidenceEffect(p)
    PROVE  LeadInv'
<1>1. /\ Asking(run, manifest, files) /\ Evidenced(run, manifest, files)
      /\ Leading(ctx[p], run, manifest, files)
      /\ files["resolution"] \in Resolutions \cup {"absent"}
  BY DEF LeadInv, Led
<1>2. /\ run' = run /\ manifest' = manifest
      /\ ctx[p].pc = "evidence" /\ ctx'[p].executed = ctx[p].executed
      /\ \/ ctx'[p].pc \in {"evidence", "blocked_snapshot", "verification_started",
                            "relapse_run"}
         \/ ctx'[p].pc = "completed_manifest" /\ ctx[p].executed
  BY DEF EvidenceEffect, EvidenceOf, Comes
<1>3. /\ files'["resolution"] = files["resolution"] /\ files'["decision"] = files["decision"]
      /\ "packet" \in Present(files') <=> "packet" \in Present(files)
      /\ HasRunnerEvidence(files) => HasRunnerEvidence(files')
  <2>1. PICK kind, value :
            /\ kind \in RunnerEvidence
            /\ value # "absent"
            /\ files' = [files EXCEPT ![kind] = value]
    BY DEF EvidenceEffect, EvidenceOf
  <2>2. files \in FileSets
    BY DEF TypeInv, TypeOK
  <2> QED
    BY <2>1, <2>2 DEF FileSets, Present, HasRunnerEvidence, RunnerEvidence, Artifacts
<1>4. Asking(run', manifest', files') /\ Evidenced(run', manifest', files')
  BY <1>1, <1>2, <1>3 DEF Asking, Evidenced
<1>5. Leading(ctx'[p], run', manifest', files')
  BY <1>1, <1>2 DEF Leading, Launched, EarlyLocs, BeforePolicy, AskLocs, ApprovalLocs
<1> QED
  BY <1>1, <1>3, <1>4, <1>5, OnlyLeading DEF Led

\* The verification keeps LeadInv.
LEMMA LeadVerdict ==
    ASSUME TypeInv, ApprovalInv, SupplyInv, Unverified, AgreementInv, LeadInv, OneCommand,
           NEW p \in Procs, VerdictEffect(p)
    PROVE  LeadInv'
<1> USE DEF OnlyFiles, OnlyRun, OnlyManifest, Comes
<1>1. /\ Asking(run, manifest, files) /\ Evidenced(run, manifest, files)
      /\ files["resolution"] \in Resolutions \cup {"absent"}
      /\ Supplied(ctx[p], files) /\ ctx[p].cmd # "verify"
      /\ Agreeing(ctx[p], run, manifest, files, torn)
  BY DEF LeadInv, Led, SupplyInv, Unverified, AgreementInv
<1>2. HasRunnerEvidence(files)
  BY <1>1 DEF Supplied, VerdictEffect, JudgeLocs
<1>3. /\ files'["resolution"] = files["resolution"] /\ files'["decision"] = files["decision"]
      /\ "packet" \in Present(files') <=> "packet" \in Present(files)
      /\ HasRunnerEvidence(files')
  <2>1. ASSUME NEW verdict \in Verdicts, NEW f,
               f = Overlay([verification |-> verdict], files)
        PROVE  /\ f["resolution"] = files["resolution"]
               /\ f["decision"] = files["decision"]
               /\ "packet" \in Present(f) <=> "packet" \in Present(files)
               /\ HasRunnerEvidence(f)
    BY <1>2, <2>1 DEF Overlay, Present, HasRunnerEvidence, RunnerEvidence, Artifacts
  <2>2. CASE files' = files
    BY <1>2, <2>2
  <2>3. ASSUME NEW verdict \in Verdicts, files' = Overlay([verification |-> verdict], files)
        PROVE  /\ files'["resolution"] = files["resolution"]
               /\ files'["decision"] = files["decision"]
               /\ "packet" \in Present(files') <=> "packet" \in Present(files)
               /\ HasRunnerEvidence(files')
    BY <2>1, <2>3
  <2> QED
    BY <2>2, <2>3 DEF VerdictEffect
<1>4. /\ run'.stage \in {"verification_started", "verification_completed"} \/ run' = run
      /\ run'.status \in {"verifying", "completed", "failed"} \/ run' = run
      /\ ctx'[p].pc \in {"verify_manifest", "verifying", "verdict_run", "verdict_manifest",
                         "finalize", "load"}
  BY <1>1 DEF VerdictEffect, AfterAdvance
<1>5. \/ manifest' = manifest
      \/ /\ manifest'.stage = "verification_started"
         /\ manifest'.pending = "verification_completed"
         /\ manifest'.checkpoint = manifest.checkpoint
      \/ /\ manifest'.stage = "verification_completed" /\ manifest'.pending = NoStage
         /\ manifest'.status \in {"completed", "failed"}
         /\ manifest'.checkpoint \in {"verification_completed", manifest.checkpoint}
         /\ ctx[p].pc = "verdict_manifest" /\ run' = run
  BY <1>1 DEF VerdictEffect
<1>6. ctx[p].pc = "verdict_manifest" =>
          run.stage = "verification_completed" /\ run.status \in {"completed", "failed"}
  BY <1>1 DEF Agreeing, Stands
<1>7. ctx[p].pc = "verify_manifest" => run.stage = "verification_started" /\ run' = run
  BY Somewhere DEF InPlace, VerdictEffect
<1>8. Asking(run', manifest', files')
  BY <1>1, <1>3, <1>4, <1>5, <1>6 DEF Asking, BeforePolicy, NoStage
<1>9. Evidenced(run', manifest', files')
  BY <1>3 DEF Evidenced
<1>10. Leading(ctx'[p], run', manifest', files')
  BY <1>4 DEF Leading, Launched, EarlyLocs, BeforePolicy, AskLocs, ApprovalLocs
<1> QED
  BY <1>1, <1>3, <1>8, <1>9, <1>10, OnlyLeading DEF Led

\* finalizeFreshRun keeps LeadInv.
LEMMA LeadFinal ==
    ASSUME TypeInv, ApprovalInv, SupplyInv, LeadInv, OneCommand, NEW p \in Procs,
           FinalEffect(p)
    PROVE  LeadInv'
<1> USE DEF OnlyFiles, OnlyRun, OnlyManifest, Comes
<1>1. /\ Asking(run, manifest, files) /\ Evidenced(run, manifest, files)
      /\ files["resolution"] \in Resolutions \cup {"absent"}
  BY DEF LeadInv, Led
<1>2. /\ files' = files /\ run'.stage = run.stage /\ run'.status = run.status
      /\ manifest'.stage = manifest.stage /\ manifest'.pending = manifest.pending
      /\ manifest'.checkpoint = manifest.checkpoint
      /\ manifest'.status \in {manifest.status, run.status}
  BY DEF FinalEffect
<1>6. \/ ctx'[p] = Idle
      \/ ctx'[p].pc \in {"final_run", "final_manifest"}
      \/ ctx'[p].pc = "evidence" /\ ctx'[p].executed = FALSE
  <2>1. ctx[p].executed \in BOOLEAN
    BY RunTypes DEF Contexts
  <2> QED
    BY <2>1 DEF FinalEffect
<1>3. Asking(run', manifest', files')
  BY <1>1, <1>2 DEF Asking
<1>4. Evidenced(run', manifest', files')
  BY <1>1, <1>2 DEF Evidenced
<1>5. Leading(ctx'[p], run', manifest', files')
  BY <1>6, IdleLeading
     DEF Leading, Launched, EarlyLocs, BeforePolicy, AskLocs, ApprovalLocs
<1> QED
  BY <1>1, <1>2, <1>3, <1>4, <1>5, OnlyLeading DEF Led

\* Where the two records lead next, by what they led to before.
LEMMA NextIsLed ==
    ASSUME NEW r, NEW m, NEW f, Led(r, m, f),
           m.stage \in Stages, m.pending \in OptionalStage, m.checkpoint \in OptionalStage
    PROVE  LET next == DetermineNextStage(r, m, f)
           IN  /\ IF m.checkpoint = "policy_evaluated" THEN next \notin BeforePolicy
                  ELSE next # "awaiting_approval"
               /\ next = "verification_started" => HasRunnerEvidence(f)
               /\ next = NoStage => m.pending = NoStage /\ m.checkpoint # "policy_evaluated"
<1> DEFINE next == DetermineNextStage(r, m, f)
<1>1. Asking(r, m, f) /\ Evidenced(r, m, f)
  BY DEF Led
<1>2. CASE "runner_started" \in {m.stage, r.stage}
  <2>1. next = "runner_started"
    BY <1>2 DEF DetermineNextStage
  <2> QED
    BY <2>1 DEF BeforePolicy, NoStage
<1>3. CASE /\ "runner_started" \notin {m.stage, r.stage}
           /\ m.pending = "runner_completed" /\ ~HasRunnerEvidence(f)
  <2>1. next = "runner_started"
    BY <1>1, <1>3 DEF DetermineNextStage, Evidenced, Judging
  <2> QED
    BY <2>1 DEF BeforePolicy, NoStage
<1>4. CASE /\ "runner_started" \notin {m.stage, r.stage} /\ m.pending # NoStage
           /\ ~(m.pending = "runner_completed" /\ ~HasRunnerEvidence(f))
  <2>1. next = m.pending
    BY <1>1, <1>4 DEF DetermineNextStage, Evidenced, Judging
  <2> QED
    BY <1>1, <1>4, <2>1 DEF Asking, Evidenced
<1>5. CASE "runner_started" \notin {m.stage, r.stage} /\ m.pending = NoStage
  <2>1. m.checkpoint # "policy_evaluated" => m.status # "awaiting_approval"
    BY <1>1, <1>5 DEF Asking
  <2>2. next = IF m.status = "awaiting_approval" THEN "awaiting_approval"
               ELSE IF m.checkpoint # NoStage THEN StageAfterCheckpoint(m.checkpoint)
               ELSE IF r.stage = "created" THEN "spec_normalized"
               ELSE StageAfterCheckpoint(r.stage)
    BY <1>1, <1>5 DEF DetermineNextStage, Evidenced, Judging, NoStage
  <2>3. CASE m.checkpoint = "policy_evaluated"
    <3>1. next = "awaiting_approval"
      BY <2>2, <2>3 DEF StageAfterCheckpoint, NoStage
    <3> QED
      BY <2>3, <3>1 DEF BeforePolicy, NoStage
  <2>4. CASE m.checkpoint # "policy_evaluated" /\ m.checkpoint # NoStage
    <3>1. next = StageAfterCheckpoint(m.checkpoint) /\ m.checkpoint # "awaiting_approval"
      BY <1>1, <2>1, <2>2, <2>4 DEF Asking
    <3>2. next # "awaiting_approval"
      BY <2>4, <3>1 DEF StageAfterCheckpoint, NoStage
    <3>3. next = "verification_started" => m.checkpoint \in Judging
      BY <3>1 DEF StageAfterCheckpoint, Judging, NoStage
    <3> QED
      BY <1>1, <1>5, <2>4, <3>2, <3>3 DEF Evidenced
  <2>5. CASE m.checkpoint = NoStage
    <3>1. /\ r.stage # "awaiting_approval" /\ r.stage # "policy_evaluated"
          /\ next = IF r.stage = "created" THEN "spec_normalized"
                    ELSE StageAfterCheckpoint(r.stage)
      BY <1>1, <1>5, <2>1, <2>2, <2>5 DEF Asking, NoStage
    <3>2. next # "awaiting_approval"
      BY <3>1 DEF StageAfterCheckpoint, NoStage
    <3>3. next = "verification_started" => r.stage \in Judging
      BY <3>1 DEF StageAfterCheckpoint, Judging, NoStage
    <3> QED
      BY <1>1, <1>5, <2>5, <3>2, <3>3 DEF Evidenced, NoStage
  <2> QED
    BY <2>3, <2>4, <2>5
<1> QED
  BY <1>2, <1>3, <1>4, <1>5

\* The beginning and the end of a command keep LeadInv.
LEMMA LeadEntry ==
    ASSUME TypeInv, ApprovalInv, SupplyInv, LeadInv, OneCommand, NEW p \in Procs,
           CreateEffect(p) \/ EntryEffect(p)
    PROVE  LeadInv'
<1> USE DEF OnlyFiles, OnlyMemory, Comes
<1>1. /\ Led(run, manifest, files) /\ files["resolution"] \in Resolutions \cup {"absent"}
  BY DEF LeadInv
<1>2. CASE CreateEffect(p)
  <2>1. /\ manifest' = NoManifest /\ files' = NoFiles
        /\ run'.status = "created" /\ run'.stage = "created"
        /\ ctx'[p].pc = "create_manifest"
    BY <1>2 DEF CreateEffect
  <2>2. Led(run', manifest', files')
    BY <2>1 DEF Led, Asking, Evidenced, Judging, NoManifest, NoStage
  <2>3. Leading(ctx'[p], run', manifest', files')
    BY <2>1 DEF Leading, Launched, EarlyLocs, BeforePolicy, AskLocs, ApprovalLocs,
                NoManifest, NoFiles, Present, NoStage
  <2> QED
    BY <1>1, <1>2, <2>2, <2>3, OnlyLeading DEF CreateEffect
<1>3. CASE EntryEffect(p)
  <2>1. /\ run' = run /\ manifest' = manifest /\ files' = files
        /\ \/ ctx'[p] = Idle
           \/ ctx'[p].pc \in {"load", "verify_load", "interrupt", "verification_started"}
           \/ ctx'[p].pc = "inspect" /\ ctx'[p].manifest = manifest
    BY <1>3 DEF EntryEffect
  <2>2. Leading(ctx'[p], run', manifest', files')
    BY <1>1, <2>1, IdleLeading
       DEF Leading, Launched, EarlyLocs, BeforePolicy, AskLocs, ApprovalLocs
  <2> QED
    BY <1>1, <2>1, <2>2, OnlyLeading
<1> QED
  BY <1>2, <1>3

\* Inspections and the beginning of a resume keep LeadInv.
LEMMA LeadInspection ==
    ASSUME TypeInv, ApprovalInv, SupplyInv, LeadInv, ApprovalInv', OneCommand,
           NEW p \in Procs, InspectEffect(p)
    PROVE  LeadInv'
<1> USE DEF OnlyRun, OnlyManifest, Comes
<1>1. /\ Asking(run, manifest, files) /\ Evidenced(run, manifest, files)
      /\ Led(run, manifest, files)
      /\ Leading(ctx[p], run, manifest, files)
      /\ files["resolution"] \in Resolutions \cup {"absent"}
      /\ Supplied(ctx[p], files)
  BY DEF LeadInv, Led, SupplyInv
<1>2. files' = files
  BY DEF InspectEffect
<1>3. /\ run \in RunRecords /\ manifest \in Manifests
      /\ ctx[p] \in Contexts /\ ctx[p].manifest \in Manifests
  BY RunTypes, Somewhere
<1>4. CASE ctx[p].pc = "interrupt"
  <2> DEFINE next == DetermineNextStage(run, manifest, files)
             m    == ctx'[p].manifest
  <2>1. /\ run'.status = "interrupted" /\ run'.stage = run.stage /\ manifest' = manifest
        /\ ctx'[p].pc = "inspect"
        /\ m.status = "interrupted" /\ m.stage = run.stage
        /\ m.checkpoint = manifest.checkpoint
        /\ m.pending = IF next = NoStage THEN manifest.stage ELSE next
    BY <1>4 DEF InspectEffect
  <2>2. /\ IF manifest.checkpoint = "policy_evaluated" THEN next \notin BeforePolicy
           ELSE next # "awaiting_approval"
        /\ next = "verification_started" => HasRunnerEvidence(files)
        /\ next = NoStage => manifest.pending = NoStage
                             /\ manifest.checkpoint # "policy_evaluated"
    BY <1>1, <1>3, NextIsLed DEF Manifests
  <2> HIDE DEF next
  <2>3. manifest.stage \in Stages /\ NoStage \notin Stages
    BY <1>3 DEF Manifests, Stages, NoStage
  <2> HIDE DEF m
  <2>4. m.pending # NoStage
    BY <2>1, <2>3
  <2>5. Asking(run', manifest', files') /\ Evidenced(run', manifest', files')
    BY <1>1, <1>2, <2>1 DEF Asking, Evidenced
  <2>6. Asking(run', m, files')
    BY <1>1, <1>2, <2>1, <2>2, <2>4 DEF Asking
  <2>7. Evidenced(run', m, files')
    BY <1>1, <1>2, <2>1, <2>2 DEF Evidenced, Judging
  <2>8. Leading(ctx'[p], run', manifest', files')
    BY <2>1, <2>6, <2>7
       DEF m, Led, Leading, Launched, EarlyLocs, BeforePolicy, AskLocs, ApprovalLocs
  <2> QED
    BY <1>1, <1>2, <2>5, <2>8, OnlyLeading DEF Led
<1>5. CASE ctx[p].pc = "inspect"
  <2> DEFINE m    == ctx[p].manifest
             next == DetermineNextStage(run, m, files)
             n    == InspectedManifest(ctx'[p])
  <2>1. Led(run, m, files) /\ (m.status = "awaiting_approval"
                                  => manifest.status = "awaiting_approval")
    BY <1>1, <1>5 DEF Leading
  <2>2. /\ IF m.checkpoint = "policy_evaluated" THEN next \notin BeforePolicy
           ELSE next # "awaiting_approval"
        /\ next = "verification_started" => HasRunnerEvidence(files)
        /\ next = NoStage => m.pending = NoStage /\ m.checkpoint # "policy_evaluated"
    BY <1>3, <2>1, NextIsLed DEF Manifests
  <2> HIDE DEF next
  <2>3. /\ run'.stage = run.stage /\ manifest' = manifest
        /\ run'.status = "awaiting_approval" =>
               "awaiting_approval" \in {run.status, m.status}
        /\ ctx'[p].pc = "inspect_manifest" /\ ctx'[p].manifest = m /\ ctx'[p].next = next
        /\ ctx'[p].run = run'
    <3>1. \E ok : /\ run'.status = InspectedStatus(run, m, ok)
                  /\ run'.stage = run.stage /\ manifest' = manifest
                  /\ ctx'[p].pc = "inspect_manifest" /\ ctx'[p].manifest = m
                  /\ ctx'[p].next = next
      BY <1>5 DEF InspectEffect, next
    <3>2. ctx'[p].run = run'
      BY <3>1 DEF ApprovalInv, InStep, UnloadedLocs
    <3> QED
      BY <3>1, <3>2 DEF InspectedStatus
  <2>4. /\ n.status = run'.status /\ n.stage = run.stage /\ n.pending = next
        /\ n.checkpoint = m.checkpoint
    <3>1. n = Moved(m, run'.status, run'.stage, next)
      BY <2>3 DEF InspectedManifest
    <3> QED
      BY <1>3, <2>3, <3>1, MovedFields
  <2> HIDE DEF n, m
  <2>5. Asking(run', manifest', files') /\ Evidenced(run', manifest', files')
    BY <1>1, <1>2, <2>1, <2>3 DEF Asking, Evidenced
  <2>6. Asking(run', n, files')
    BY <1>2, <2>1, <2>2, <2>3, <2>4 DEF Led, Asking
  <2>7. Evidenced(run', n, files')
    BY <1>2, <2>1, <2>2, <2>3, <2>4 DEF Led, Evidenced, Judging
  <2>8. Leading(ctx'[p], run', manifest', files')
    BY <2>3, <2>6, <2>7
       DEF n, Led, Leading, Launched, EarlyLocs, BeforePolicy, AskLocs, ApprovalLocs
  <2> QED
    BY <1>1, <1>2, <2>5, <2>8, OnlyLeading DEF Led
<1>6. CASE ctx[p].pc = "inspect_manifest"
  <2> DEFINE n == InspectedManifest(ctx[p])
  <2>1. Led(run, n, files)
    BY <1>1, <1>6 DEF Leading
  <2>2. /\ run' = run /\ ctx[p].run = run
        /\ manifest'.status = run.status /\ manifest'.stage = run.stage
        /\ manifest'.pending = ctx[p].next
        /\ manifest'.checkpoint = ctx[p].manifest.checkpoint
        /\ ctx'[p] = Idle \/ ctx'[p].pc = "resume_run"
    <3>1. ctx[p].run = run
      BY <1>6, OnDisk DEF UnloadedLocs
    <3> QED
      BY <1>6, <3>1 DEF InspectEffect
  <2>3. /\ n.status = run.status /\ n.stage = run.stage /\ n.pending = ctx[p].next
        /\ n.checkpoint = ctx[p].manifest.checkpoint
    BY <1>3, <2>2, MovedFields DEF InspectedManifest
  <2> HIDE DEF n
  <2>4. Led(run', manifest', files')
    BY <1>2, <2>1, <2>2, <2>3 DEF Led, Asking, Evidenced
  <2>5. Leading(ctx'[p], run', manifest', files')
    BY <2>2, IdleLeading
       DEF Leading, Launched, EarlyLocs, BeforePolicy, AskLocs, ApprovalLocs
  <2> QED
    BY <1>1, <1>2, <2>4, <2>5, OnlyLeading
<1>7. CASE ctx[p].pc \in {"resume_run", "resume_manifest"}
  <2>1. /\ manifest.pending = ctx[p].next /\ ctx[p].next # NoStage
        /\ ctx[p].pc = "resume_manifest" => run.stage = ctx[p].next
        /\ ctx[p].cmd = "resume"
        /\ RequiredArtifacts(ctx[p].next, ctx[p].manifest) \subseteq Present(files)
    BY <1>1, <1>7, Somewhere, RunTypes DEF InPlace, Typed, Supplied, Admitted
  <2>2. /\ ctx[p].next \in Judging => HasRunnerEvidence(files)
        /\ ctx[p].next = "awaiting_approval" => "packet" \in Present(files)
    BY <2>1 DEF RequiredArtifacts, Judging, HasRunnerEvidence
  <2>3. /\ run'.stage = ctx[p].next /\ ctx'[p].cmd = "resume"
        /\ run'.status = "resuming" \/ run' = run
        /\ \/ manifest' = manifest
           \/ /\ manifest'.stage = ctx[p].next /\ manifest'.pending = ctx[p].next
              /\ manifest'.checkpoint = manifest.checkpoint
        /\ \/ ctx'[p].pc \in {"resume_manifest", "unsupported"}
           \/ ctx'[p].pc \in HandledStages /\ ctx'[p].pc = ctx[p].next
              /\ manifest'.checkpoint = manifest.checkpoint
              /\ manifest'.pending = ctx[p].next
    BY <1>7, <2>1 DEF InspectEffect
  <2>4. Asking(run', manifest', files')
    BY <1>1, <1>2, <2>1, <2>3 DEF Asking
  <2>5. Evidenced(run', manifest', files')
    BY <1>1, <1>2, <2>2, <2>3 DEF Evidenced, Judging
  <2>6. /\ ctx[p].next \in BeforePolicy => manifest.checkpoint # "policy_evaluated"
        /\ ctx[p].next = "awaiting_approval" => files["decision"] = "prompt"
    BY <1>1, <2>1, <2>2 DEF Asking
  <2>7. Leading(ctx'[p], run', manifest', files')
    BY <1>2, <2>1, <2>3, <2>6
       DEF Leading, Launched, EarlyLocs, BeforePolicy, AskLocs, ApprovalLocs, HandledStages
  <2> QED
    BY <1>1, <1>2, <2>4, <2>5, <2>7, OnlyLeading DEF Led
<1> QED
  BY <1>4, <1>5, <1>6, <1>7 DEF InspectEffect

\* LeadInv holds initially.
LEMMA LeadInit == Init => LeadInv
<1> SUFFICES ASSUME Init
             PROVE  LeadInv
  OBVIOUS
<1>1. /\ run = NoRun /\ manifest = NoManifest /\ files = NoFiles
      /\ \A p \in Procs : ctx[p] = Idle
  BY DEF Init
<1>2. Led(NoRun, NoManifest, NoFiles)
  BY DEF Led, Asking, Evidenced, Judging, NoRun, NoManifest, NoStage
<1>3. Leading(Idle, NoRun, NoManifest, NoFiles)
  BY DEF Leading, Launched, Idle, EarlyLocs, BeforePolicy, AskLocs, ApprovalLocs
<1>4. NoFiles["resolution"] = "absent"
  BY DEF NoFiles, Artifacts
<1> QED
  BY <1>1, <1>2, <1>3, <1>4 DEF LeadInv

\* Every step keeps LeadInv.
LEMMA LeadStep ==
    ASSUME OneCommand, "verify" \notin Commands
    PROVE  Base /\ Unverified /\ AgreementInv /\ LeadInv /\ [Next]_vars => LeadInv'
<1> SUFFICES ASSUME TypeInv, ApprovalInv, SupplyInv, Unverified, AgreementInv, LeadInv,
                    ApprovalInv', [Next]_vars
             PROVE  LeadInv'
  BY BaseHolds DEF Base
<1>1. CASE Unseen
  BY <1>1 DEF Unseen, OnlyFiles, LeadInv
<1>2. ASSUME NEW p \in Procs, Effect(p)
      PROVE  LeadInv'
  BY <1>2, LeadSpec, LeadPolicy, LeadAnswer, LeadRunner, LeadEvidence, LeadVerdict,
     LeadFinal, LeadEntry, LeadInspection DEF Effect
<1> QED
  BY <1>1, <1>2, Effects

-----------------------------------------------------------------------------
(* Without `gdh verify`: what is recorded of an execution. *)

\* What holds of the only process holds of all.
LEMMA OnlyRecording ==
    ASSUME OneCommand, NEW p \in Procs,
           Recording(ctx'[p], run', manifest', files', stale')
    PROVE  RecordInv'
BY DEF OneCommand, RecordInv

\* A process that has executed the runner, or that is not `gdh run`, records
\* nothing unless it executes or writes evidence.
LEMMA NothingRecorded ==
    ASSUME OneCommand, NEW p \in Procs, ctx'[p].cmd # "run" \/ ctx'[p].executed,
           ctx'[p].pc \notin {"executing", "evidence"},
           ctx'[p].pc = "finalize" => ctx'[p].executed
    PROVE  RecordInv'
BY OnlyRecording DEF Recording

\* The handlers before the runner keep RecordInv: they write no evidence.
LEMMA RecordHandlers ==
    ASSUME TypeInv, ApprovalInv, SupplyInv, JudgedInv, RecordInv, OneCommand,
           NEW p \in Procs, SpecEffect(p) \/ PolicyEffect(p) \/ AnswerEffect(p)
    PROVE  RecordInv'
<1> USE DEF OnlyFiles, OnlyRun, OnlyManifest, Comes
<1>1. Recording(ctx[p], run, manifest, files, stale) /\ Judged(ctx[p], run, files)
  BY DEF RecordInv, JudgedInv
<1>2. /\ ctx[p].pc \notin {"executing", "evidence", "blocked_snapshot", "final_run",
                           "final_manifest"}
      /\ ctx'[p].pc \notin {"executing", "evidence"}
      /\ ctx'[p].cmd = ctx[p].cmd /\ ctx'[p].executed = ctx[p].executed
  <2>1. CASE SpecEffect(p)
    BY <2>1 DEF SpecEffect
  <2>2. CASE PolicyEffect(p)
    BY <2>2, Decided DEF PolicyEffect
  <2>3. CASE AnswerEffect(p)
    BY <2>3 DEF AnswerEffect, AfterAdvance
  <2> QED
    BY <2>1, <2>2, <2>3
<1>3. RunnerEvidence \cap Present(files') = RunnerEvidence \cap Present(files)
  <2>1. ASSUME NEW new, NEW f, f = Overlay(new, files), DOMAIN new \cap RunnerEvidence = {}
        PROVE  RunnerEvidence \cap Present(f) = RunnerEvidence \cap Present(files)
    BY <2>1 DEF Overlay, Present
  <2>2. CASE SpecEffect(p)
    BY <2>1, <2>2 DEF SpecEffect, RunnerEvidence
  <2>3. CASE PolicyEffect(p)
    BY <2>1, <2>3 DEF PolicyEffect, RunnerEvidence
  <2>4. CASE AnswerEffect(p)
    BY <2>1, <2>4 DEF AnswerEffect, RunnerEvidence
  <2> QED
    BY <2>2, <2>3, <2>4
<1>4. ctx'[p].pc = "finalize" =>
          run'.status # "abandoned" \/ manifest'.status = "abandoned"
  <2>1. CASE ctx[p].pc \in {"forbid_manifest", "awaiting_approval", "pause_manifest"}
    <3>1. run'.status = run.status \/ ctx'[p].pc # "finalize"
      BY <2>1 DEF SpecEffect, PolicyEffect, AnswerEffect
    <3>2. run.status # "abandoned"
      BY <1>1, <2>1 DEF Judged, AtWork, WorkLocs, ClosedStatuses
    <3> QED
      BY <3>1, <3>2
  <2>2. CASE ctx[p].pc = "deny_manifest"
    BY <2>2 DEF SpecEffect, PolicyEffect, AnswerEffect
  <2>3. CASE ctx[p].pc \notin {"forbid_manifest", "awaiting_approval", "pause_manifest",
                               "deny_manifest"}
    <3>1. CASE SpecEffect(p)
      BY <2>3, <3>1 DEF SpecEffect
    <3>2. CASE PolicyEffect(p)
      BY <2>3, <3>2, Decided DEF PolicyEffect
    <3>3. CASE AnswerEffect(p)
      BY <2>3, <3>3 DEF AnswerEffect
    <3> QED
      BY <3>1, <3>2, <3>3
  <2> QED
    BY <2>1, <2>2, <2>3
<1>5. Recording(ctx'[p], run', manifest', files', stale')
  BY <1>1, <1>2, <1>3, <1>4 DEF Recording
<1> QED
  BY <1>5, OnlyRecording

\* The runner keeps RecordInv: everything that was recorded before is stale.
LEMMA RecordRunner ==
    ASSUME TypeInv, ApprovalInv, SupplyInv, RecordInv, OneCommand,
           NEW p \in Procs, RunnerEffect(p)
    PROVE  RecordInv'
<1> USE DEF OnlyFiles, OnlyRun, OnlyManifest, Comes
<1>1. Recording(ctx[p], run, manifest, files, stale) /\ Placed(ctx[p])
  BY DEF RecordInv, SupplyInv
<1>2. CASE ctx[p].pc \in {"runner_started", "runner_manifest"}
  <2>1. ctx'[p].executed /\ ctx'[p].pc \in {"runner_manifest", "launch"}
    BY <1>1, <1>2 DEF RunnerEffect, Placed
  <2> QED
    BY <2>1, NothingRecorded
<1>3. CASE ctx[p].pc = "launch"
  <2>1. /\ ctx'[p].pc = "executing" /\ ctx'[p].executed
        /\ files' = files /\ stale' = RunnerEvidence \cap Present(files)
    BY <1>1, <1>3 DEF RunnerEffect, Placed
  <2>2. Recording(ctx'[p], run', manifest', files', stale')
    BY <2>1 DEF Recording
  <2> QED
    BY <2>2, OnlyRecording
<1>4. CASE ctx[p].pc = "executing"
  <2>1. /\ ctx'[p].pc = "evidence" /\ ctx'[p].executed /\ ctx'[p].written = 0
        /\ files' = files /\ stale' = stale
    BY <1>1, <1>4 DEF RunnerEffect, Placed
  <2>2. RunnerEvidence \cap Present(files) \subseteq stale
    BY <1>1, <1>4 DEF Recording
  <2>3. \A i \in 1 .. 5 : EvidenceOrder[i] \in RunnerEvidence
    BY DEF EvidenceOrder, RunnerEvidence
  <2>4. Recording(ctx'[p], run', manifest', files', stale')
    BY <2>1, <2>2, <2>3 DEF Recording
  <2> QED
    BY <2>4, OnlyRecording
<1>5. CASE ctx[p].pc \in {"completed_manifest", "completed_run", "completed_snapshot"}
  <2>1. ctx'[p].executed
    BY <1>1, <1>5 DEF RunnerEffect, Placed
  <2>2. ctx'[p].pc \in {"completed_run", "completed_snapshot", "verification_started",
                        "finalize"}
    BY <1>5 DEF RunnerEffect
  <2> QED
    BY <2>1, <2>2, NothingRecorded
<1>6. CASE ctx[p].pc \in {"relapse_run", "relapse_manifest"}
  <2>1. ctx'[p].cmd # "run" /\ ctx'[p].pc \in {"relapse_manifest", "load"}
    BY <1>1, <1>6 DEF RunnerEffect, Placed
  <2> QED
    BY <2>1, NothingRecorded
<1> QED
  BY <1>2, <1>3, <1>4, <1>5, <1>6 DEF RunnerEffect

\* A write of evidence keeps RecordInv: each artifact is written once.
LEMMA RecordEvidence ==
    ASSUME TypeInv, ApprovalInv, SupplyInv, RecordInv, OneCommand,
           NEW p \in Procs, EvidenceEffect(p)
    PROVE  RecordInv'
<1>1. Recording(ctx[p], run, manifest, files, stale) /\ files \in FileSets
  BY DEF RecordInv, TypeInv, TypeOK
<1>2. PICK kind, value, loc :
          /\ kind \in RunnerEvidence
          /\ kind = EvidenceOrder[ctx[p].written + 1] /\ ctx[p].written \in 0 .. 4
          /\ value # "absent"
          /\ Comes(p, "evidence", loc) /\ ctx'[p].written = ctx[p].written + 1
          /\ run' = run /\ manifest' = manifest
          /\ files' = [files EXCEPT ![kind] = value] /\ stale' = stale \ {kind}
          /\ \/ loc = "evidence"
             \/ loc = "blocked_snapshot"
             \/ loc = "completed_manifest" /\ ctx[p].executed
             \/ loc \in {"verification_started", "relapse_run"} /\ ~Fresh(p)
  BY DEF EvidenceEffect, EvidenceOf
<1>3. CASE loc = "evidence"
  <2>1. Present(files') \subseteq Present(files) \cup {kind}
    BY <1>1, <1>2 DEF Present, FileSets
  <2>2. \A i \in ctx[p].written + 2 .. 5 : EvidenceOrder[i] # kind
    BY <1>2 DEF EvidenceOrder
  <2>3. \A i \in ctx[p].written + 1 .. 5 : EvidenceOrder[i] \notin Present(files) \ stale
    BY <1>1, <1>2 DEF Recording, Comes
  <2>4. \A i \in ctx'[p].written + 1 .. 5 : EvidenceOrder[i] \notin Present(files') \ stale'
    <3> SUFFICES ASSUME NEW i \in ctx'[p].written + 1 .. 5
                 PROVE  EvidenceOrder[i] \notin Present(files') \ stale'
      OBVIOUS
    <3>1. i \in ctx[p].written + 2 .. 5 /\ i \in ctx[p].written + 1 .. 5
      BY <1>2
    <3>2. EvidenceOrder[i] # kind /\ EvidenceOrder[i] \notin Present(files) \ stale
      BY <2>2, <2>3, <3>1
    <3> QED
      BY <1>2, <2>1, <3>2
  <2>5. Recording(ctx'[p], run', manifest', files', stale')
    BY <1>1, <1>2, <1>3, <2>4 DEF Recording, Comes
  <2> QED
    BY <2>5, OnlyRecording
<1>4. CASE loc = "blocked_snapshot"
  <2>1. ctx'[p].pc = "blocked_snapshot"
    BY <1>2, <1>4 DEF Comes
  <2> QED
    BY <2>1, OnlyRecording DEF Recording
<1>5. CASE loc \notin {"evidence", "blocked_snapshot"}
  BY <1>2, <1>5, NothingRecorded DEF Comes, Fresh
<1> QED
  BY <1>3, <1>4, <1>5

\* The rest keeps RecordInv: an inspection is not of `gdh run`, a verification of
\* `gdh run` comes after the runner.
LEMMA RecordRest ==
    ASSUME TypeInv, ApprovalInv, SupplyInv, Unverified, RecordInv, OneCommand,
           NEW p \in Procs,
           \/ VerdictEffect(p) \/ FinalEffect(p) \/ CreateEffect(p)
           \/ EntryEffect(p) \/ InspectEffect(p)
    PROVE  RecordInv'
<1> USE DEF OnlyFiles, OnlyRun, OnlyManifest, OnlyMemory, Comes
<1>1. /\ Recording(ctx[p], run, manifest, files, stale) /\ Placed(ctx[p])
      /\ ctx[p].cmd # "verify"
  BY DEF RecordInv, SupplyInv, Unverified
<1>2. Idle.cmd # "run" /\ Idle.pc = "idle"
  BY DEF Idle
<1>3. CASE VerdictEffect(p)
  <2>1. ctx[p].pc \in JudgeLocs
    BY <1>3 DEF VerdictEffect, JudgeLocs
  <2>2. ctx[p].cmd = "run" => ctx[p].executed
    BY <1>1, <2>1 DEF Placed
  <2>3. /\ ctx'[p].cmd = ctx[p].cmd /\ ctx'[p].executed = ctx[p].executed
        /\ \/ ctx'[p].pc \in {"verify_manifest", "verifying", "verdict_run",
                              "verdict_manifest"}
           \/ ctx'[p].pc = AfterAdvance(p)
    BY <1>1, <1>3 DEF VerdictEffect
  <2> QED
    BY <2>2, <2>3, NothingRecorded DEF AfterAdvance, Fresh
<1>4. CASE FinalEffect(p)
  <2>1. CASE ctx[p].pc = "finalize" /\ ctx[p].executed
    BY <1>4, <2>1, NothingRecorded DEF FinalEffect
  <2>2. CASE ctx[p].pc = "finalize" /\ ~ctx[p].executed
    <3>1. ctx[p].cmd = "run"
      BY <2>2, Somewhere DEF InPlace
    <3>2. RunnerEvidence \cap Present(files) = {}
      BY <1>1, <2>2, <3>1 DEF Recording
    <3>3. \A i \in 1 .. 5 : EvidenceOrder[i] \in RunnerEvidence
      BY DEF EvidenceOrder, RunnerEvidence
    <3>4. /\ ctx'[p].pc = "evidence" /\ ctx'[p].written = 0 /\ files' = files
          /\ run' = run /\ manifest' = manifest
      BY <1>4, <2>2 DEF FinalEffect
    <3>5. run.status = "abandoned" => manifest.status = "abandoned"
      BY <1>1, <2>2 DEF Recording
    <3>6. Recording(ctx'[p], run', manifest', files', stale')
      BY <3>2, <3>3, <3>4, <3>5 DEF Recording
    <3> QED
      BY <3>6, OnlyRecording
  <2>3. CASE ctx[p].pc # "finalize"
    <3>1. ctx'[p] = Idle \/ ctx'[p].pc \in {"final_run", "final_manifest"}
      BY <1>4, <2>3 DEF FinalEffect
    <3>2. Recording(ctx'[p], run', manifest', files', stale')
      BY <1>2, <3>1 DEF Recording
    <3> QED
      BY <3>2, OnlyRecording
  <2> QED
    BY <2>1, <2>2, <2>3
<1>5. CASE CreateEffect(p)
  <2>1. ctx'[p].pc = "create_manifest" /\ files' = NoFiles
    BY <1>5 DEF CreateEffect
  <2>2. RunnerEvidence \cap Present(files') = {}
    BY <2>1 DEF NoFiles, Present, RunnerEvidence, Artifacts
  <2>3. Recording(ctx'[p], run', manifest', files', stale')
    BY <2>1, <2>2 DEF Recording
  <2> QED
    BY <2>3, OnlyRecording
<1>6. CASE EntryEffect(p)
  <2>1. ctx'[p].cmd # "run"
    BY <1>1, <1>2, <1>6, CommandsAssumption DEF EntryEffect, Placed, InspectionLocs
  <2>2. ctx'[p].pc \notin {"executing", "evidence", "finalize"}
    BY <1>2, <1>6 DEF EntryEffect
  <2> QED
    BY <2>1, <2>2, NothingRecorded
<1>7. CASE InspectEffect(p)
  <2>1. ctx'[p].cmd # "run"
    BY <1>1, <1>2, <1>7 DEF InspectEffect, Placed, InspectionLocs
  <2>2. ctx'[p].pc \notin {"executing", "evidence", "finalize"}
    BY <1>2, <1>7 DEF InspectEffect, HandledStages
  <2> QED
    BY <2>1, <2>2, NothingRecorded
<1> QED
  BY <1>3, <1>4, <1>5, <1>6, <1>7

\* RecordInv holds initially.
LEMMA RecordInit == Init => RecordInv
BY DEF Init, RecordInv, Recording, Idle

\* Every step keeps RecordInv.
LEMMA RecordStep ==
    ASSUME OneCommand, "verify" \notin Commands
    PROVE  Base /\ Unverified /\ JudgedInv /\ RecordInv /\ [Next]_vars => RecordInv'
<1> SUFFICES ASSUME TypeInv, ApprovalInv, SupplyInv, Unverified, JudgedInv, RecordInv,
                    [Next]_vars
             PROVE  RecordInv'
  BY DEF Base
<1>1. CASE Unseen
  BY <1>1 DEF Unseen, OnlyFiles, RecordInv
<1>2. ASSUME NEW p \in Procs, Effect(p)
      PROVE  RecordInv'
  BY <1>2, RecordHandlers, RecordRunner, RecordEvidence, RecordRest DEF Effect
<1> QED
  BY <1>1, <1>2, Effects

-----------------------------------------------------------------------------
(* Without `gdh verify`: every step is one of GovernedRun, or none. *)

\* How a run has ended, by its two records, before and after a step.
LEMMA Outcomes ==
    /\ run.status \notin ClosedStatuses => Outcome = "open"
    /\ run.status = "completed" =>
           Outcome = IF manifest.status = "completed" THEN "completed" ELSE "completing"
    /\ run.status = "abandoned" =>
           Outcome = IF manifest.status = "abandoned" THEN "abandoned" ELSE "abandoning"
    /\ run'.status \notin ClosedStatuses => Outcome' = "open"
    /\ run'.status = "completed" =>
           Outcome' = IF manifest'.status = "completed" THEN "completed" ELSE "completing"
    /\ run'.status = "abandoned" =>
           Outcome' = IF manifest'.status = "abandoned" THEN "abandoned" ELSE "abandoning"
BY DEF Outcome, ClosedStatuses

\* The only process is the one that may have the runner at work.
LEMMA Working ==
    ASSUME OneCommand, NEW p \in Procs
    PROVE  /\ (\E q \in Procs : At(q, "executing")) <=> ctx[p].pc = "executing"
           /\ (\E q \in Procs : At(q, "executing"))' <=> ctx'[p].pc = "executing"
BY DEF OneCommand, At

\* A step that leaves the artifacts of the promise and the runner alone.
Unnoticed(p) ==
    /\ ctx[p].pc # "executing" /\ ctx'[p].pc # "executing"
    /\ \A a \in RunnerEvidence \cup {"decision", "resolution", "verification"} :
           files'[a] = files[a]
    /\ stale' = stale

\* Nothing but the outcome changes then.
LEMMA OnlyOutcome ==
    ASSUME OneCommand, NEW p \in Procs, Unnoticed(p)
    PROVE  /\ files'["decision"] = files["decision"]
           /\ files'["resolution"] = files["resolution"]
           /\ files'["audit"] = files["audit"]
           /\ files'["verification"] = files["verification"]
           /\ (RunnerEvidence \cap Present(files')) \ stale'
                  = (RunnerEvidence \cap Present(files)) \ stale
           /\ ~ \E q \in Procs : At(q, "executing")
           /\ ~ (\E q \in Procs : At(q, "executing"))'
BY Working DEF Unnoticed, Present, RunnerEvidence

\* What a step promises.
Kept == [Promise!Next]_(Promise!vars)

LEMMA Stutters ==
    ASSUME OneCommand, NEW p \in Procs, Unnoticed(p), Outcome' = Outcome
    PROVE  Kept
<1>1. UNCHANGED Promise!vars
  BY OnlyOutcome DEF Promise!vars
<1> QED
  BY <1>1 DEF Kept

\* A run that comes to its end, or is taken up again.
LEMMA Closes ==
    ASSUME OneCommand, NEW p \in Procs, Unnoticed(p),
           \/ Outcome' = Outcome
           \/ Outcome = "completing" /\ Outcome' \in {"completed", "open"}
           \/ Outcome = "abandoning" /\ Outcome' \in {"abandoned", "open"}
    PROVE  Kept
<1>1. CASE Outcome' = Outcome
  BY <1>1, Stutters
<1>2. CASE \/ Outcome = "completing" /\ Outcome' \in {"completed", "open"}
           \/ Outcome = "abandoning" /\ Outcome' \in {"abandoned", "open"}
  <2>1. Promise!Close
    BY <1>2, OnlyOutcome DEF Promise!Close
  <2> QED
    BY <2>1 DEF Kept, Promise!Next
<1> QED
  BY <1>1, <1>2

\* The invariants that the promise rests on.
Ready == /\ Base /\ Unverified /\ JudgedInv /\ AgreementInv
         /\ OpenInv /\ StaleInv /\ LeadInv /\ RecordInv

\* A handler at work keeps the run open, whatever it writes to the manifest.
LEMMA StaysOpen ==
    ASSUME JudgedInv, NEW p \in Procs, AtWork(ctx[p]),
           run'.status = run.status \/ run'.status \notin ClosedStatuses
    PROVE  Outcome = "open" /\ Outcome' = "open"
BY Outcomes DEF JudgedInv, Judged

\* Before the policy is evaluated, nothing of the promise changes.
LEMMA KeptSpec ==
    ASSUME Ready, OneCommand, NEW p \in Procs, SpecEffect(p)
    PROVE  Kept
<1> USE DEF OnlyFiles, OnlyRun, OnlyManifest, Comes
<1>1. AtWork(ctx[p])
  BY DEF SpecEffect, AtWork, WorkLocs, EarlyLocs, BeforePolicy
<1>2. run'.status = run.status \/ run'.status \notin ClosedStatuses
  BY DEF SpecEffect, ClosedStatuses
<1>3. Unnoticed(p)
  <2>1. /\ stale' = stale /\ ctx[p].pc # "executing" /\ ctx'[p].pc # "executing"
        /\ \/ files' = files \/ files' = Overlay([spec |-> "present"], files)
           \/ files' = Overlay([plan |-> "present"], files)
    BY DEF SpecEffect
  <2> QED
    BY <2>1 DEF Unnoticed, Overlay, RunnerEvidence, Artifacts
<1> QED
  BY <1>1, <1>2, <1>3, StaysOpen, Stutters DEF Ready

\* handlePolicyEvaluated evaluates the policy once.
LEMMA KeptPolicy ==
    ASSUME Ready, OneCommand, NEW p \in Procs, PolicyEffect(p)
    PROVE  Kept
<1> USE DEF OnlyFiles, OnlyRun, OnlyManifest, Comes
<1>1. AtWork(ctx[p]) /\ Base
  BY DEF Ready, PolicyEffect, AtWork, WorkLocs, EarlyLocs, BeforePolicy
<1>2. run'.status = run.status \/ run'.status \notin ClosedStatuses
  BY DEF PolicyEffect, ClosedStatuses
<1>3. Outcome = "open" /\ Outcome' = "open"
  BY <1>1, <1>2, StaysOpen DEF Ready
<1>4. ctx[p].pc # "executing" /\ ctx'[p].pc # "executing" /\ stale' = stale
  BY <1>1, Decided DEF PolicyEffect, Base
<1>5. CASE ctx[p].pc = "policy_evaluated"
  <2>1. PICK d \in Decisions :
            files' = Overlay([preview |-> "present", decision |-> d], files)
    BY <1>5 DEF PolicyEffect
  <2>2. /\ files'["decision"] = d /\ files'["resolution"] = files["resolution"]
        /\ files'["verification"] = files["verification"]
        /\ \A a \in RunnerEvidence : files'[a] = files[a]
    BY <2>1 DEF Overlay, RunnerEvidence, Artifacts
  <2>3. /\ files'["audit"] = files["audit"]
        /\ (RunnerEvidence \cap Present(files')) \ stale'
               = (RunnerEvidence \cap Present(files)) \ stale
    BY <1>4, <2>2 DEF Present, RunnerEvidence
  <2>4. Promise!Evaluate
    BY <1>3, <1>4, <2>2, <2>3, Working DEF Promise!Evaluate, Promise!Open, Decisions
  <2> QED
    BY <2>4 DEF Kept, Promise!Next
<1>6. CASE ctx[p].pc # "policy_evaluated"
  <2>1. files' = files \/ \E k \in Packets : files' = Overlay([packet |-> k], files)
    BY <1>6 DEF PolicyEffect
  <2>2. Unnoticed(p)
    BY <1>4, <2>1 DEF Unnoticed, Overlay, RunnerEvidence, Artifacts
  <2> QED
    BY <1>3, <2>2, Stutters
<1> QED
  BY <1>5, <1>6

\* handleAwaitingApproval asks a run that waits for its answer, and abandons one
\* that was denied.
LEMMA KeptAnswer ==
    ASSUME Ready, OneCommand, NEW p \in Procs, AnswerEffect(p)
    PROVE  Kept
<1> USE DEF OnlyFiles, OnlyRun, OnlyManifest, Comes
<1>1. /\ Leading(ctx[p], run, manifest, files) /\ Going(ctx[p], run, manifest, files)
      /\ Judged(ctx[p], run, files)
      /\ files["resolution"] \in Resolutions \cup {"absent"}
  BY DEF Ready, LeadInv, OpenInv, JudgedInv
<1>2. ctx[p].pc # "executing" /\ ctx'[p].pc # "executing" /\ stale' = stale
  BY DEF AnswerEffect, AfterAdvance
<1>3. CASE ctx[p].pc = "awaiting_approval" /\ files' # files
  <2>1. PICK answer \in Resolutions :
            /\ files["resolution"] = "absent"
            /\ files' = Overlay([resolution |-> answer], files) /\ run' = run
    BY <1>3 DEF AnswerEffect
  <2>2. Outcome = "open" /\ Outcome' = "open"
    BY <1>3, <2>1, StaysOpen DEF Ready, AtWork, WorkLocs
  <2>3. /\ files'["resolution"] = answer /\ files'["decision"] = files["decision"]
        /\ files'["verification"] = files["verification"]
        /\ \A a \in RunnerEvidence : files'[a] = files[a]
    BY <2>1 DEF Overlay, RunnerEvidence, Artifacts
  <2>4. /\ files'["audit"] = files["audit"]
        /\ (RunnerEvidence \cap Present(files')) \ stale'
               = (RunnerEvidence \cap Present(files)) \ stale
    BY <1>2, <2>3 DEF Present, RunnerEvidence
  <2>5. files["decision"] = "prompt"
    BY <1>1, <1>3 DEF Leading, AskLocs, ApprovalLocs
  <2>6. Promise!Answer
    BY <1>2, <2>1, <2>2, <2>3, <2>4, <2>5, Working
       DEF Promise!Answer, Promise!Open, Resolutions
  <2> QED
    BY <2>6 DEF Kept, Promise!Next
<1>4. CASE /\ files' = files
           /\ ctx[p].pc \in {"awaiting_approval", "pause_run", "pause_manifest",
                             "approve_manifest"} \/ ctx'[p].pc = "approve_manifest"
  <2>1. /\ AtWork(ctx[p])
        /\ run'.status = run.status \/ run'.status \notin ClosedStatuses
    BY <1>4 DEF AnswerEffect, AtWork, WorkLocs, RunnerLocs, ClosedStatuses
  <2>2. Unnoticed(p)
    BY <1>2, <1>4 DEF Unnoticed
  <2> QED
    BY <2>1, <2>2, StaysOpen, Stutters DEF Ready
<1>5. CASE ctx[p].pc = "resolved" /\ ctx'[p].pc = "deny_manifest"
  <2>1. /\ run'.status = "abandoned" /\ manifest' = manifest /\ files' = files
        /\ files["resolution"] # "approved"
    BY <1>5 DEF AnswerEffect
  <2>2. files["decision"] = "prompt" /\ files["resolution"] = "denied"
    BY <1>1, <1>5, <2>1 DEF Leading, AskLocs, ApprovalLocs, Resolutions
  <2>3. manifest.status # "abandoned"
    BY <1>1, <1>5 DEF Going, Handling, ApprovalLocs, Unfinished, ActiveStatuses
  <2>4. Outcome = "open" /\ Outcome' = "abandoning"
    BY <1>1, <1>5, <2>1, <2>3, Outcomes DEF Judged, AtWork, WorkLocs
  <2>5. Unnoticed(p)
    BY <1>2, <2>1 DEF Unnoticed
  <2>6. Promise!Close
    BY <2>2, <2>4, <2>5, OnlyOutcome DEF Promise!Close, Promise!Open
  <2> QED
    BY <2>6 DEF Kept, Promise!Next
<1>6. CASE ctx[p].pc = "deny_manifest"
  <2>1. run' = run /\ files' = files /\ manifest'.status = "abandoned"
    BY <1>6 DEF AnswerEffect
  <2>2. run.status = "abandoned" /\ manifest.status # "abandoned"
    BY <1>1, <1>6 DEF Judged, Going, Handling, ApprovalLocs, Unfinished, ActiveStatuses
  <2>3. Outcome = "abandoning" /\ Outcome' = "abandoned"
    BY <2>1, <2>2, Outcomes
  <2>4. Unnoticed(p)
    BY <1>2, <2>1 DEF Unnoticed
  <2> QED
    BY <2>3, <2>4, Closes
<1> QED
  BY <1>3, <1>4, <1>5, <1>6 DEF AnswerEffect

\* handleRunnerStarted launches the runner once it may, and sees it stop.
LEMMA KeptRunner ==
    ASSUME Ready, OneCommand, NEW p \in Procs, RunnerEffect(p)
    PROVE  Kept
<1> USE DEF OnlyFiles, OnlyRun, OnlyManifest, Comes
<1>1. /\ InPlace(ctx[p], run, manifest, files) /\ Supplied(ctx[p], files)
  BY Somewhere DEF Ready, Base, SupplyInv
<1>2. AtWork(ctx[p]) /\ files' = files
  BY DEF RunnerEffect, AtWork, WorkLocs, RunnerLocs
<1>3. run'.status = run.status \/ run'.status \notin ClosedStatuses
  BY DEF RunnerEffect, ClosedStatuses
<1>4. Outcome = "open" /\ Outcome' = "open"
  BY <1>2, <1>3, StaysOpen DEF Ready
<1>5. CASE ctx[p].pc = "launch"
  <2>1. ctx'[p].pc = "executing" /\ stale' = RunnerEvidence \cap Present(files)
    BY <1>5 DEF RunnerEffect
  <2>2. /\ files["decision"] # "absent"
        /\ files["decision"] = "prompt" => files["resolution"] = "approved"
    BY <1>1, <1>5
       DEF InPlace, Supplied, Approved, RunnerLocs, DecidedLocs, Present
  <2>3. (RunnerEvidence \cap Present(files')) \ stale' = {}
    BY <1>2, <2>1
  <2>4. Promise!Launch
    BY <1>2, <1>4, <1>5, <2>1, <2>2, <2>3, Working
       DEF Promise!Launch, Promise!Open, Promise!Allowed
  <2> QED
    BY <2>4 DEF Kept, Promise!Next
<1>6. CASE ctx[p].pc = "executing"
  <2>1. ctx'[p].pc = "evidence" /\ stale' = stale
    BY <1>6 DEF RunnerEffect
  <2>2. Promise!Stop
    BY <1>2, <1>4, <1>6, <2>1, Working DEF Promise!Stop
  <2> QED
    BY <2>2 DEF Kept, Promise!Next
<1>7. CASE ctx[p].pc \notin {"launch", "executing"}
  <2>1. ctx'[p].pc # "executing" /\ stale' = stale
    BY <1>7 DEF RunnerEffect
  <2>2. Unnoticed(p)
    BY <1>2, <1>7, <2>1 DEF Unnoticed
  <2> QED
    BY <1>4, <2>2, Stutters
<1> QED
  BY <1>5, <1>6, <1>7

\* Each artifact is recorded once for an execution, or for having done nothing.
LEMMA KeptEvidence ==
    ASSUME Ready, OneCommand, NEW p \in Procs, EvidenceEffect(p)
    PROVE  Kept
<1>1. /\ Recording(ctx[p], run, manifest, files, stale) /\ Judged(ctx[p], run, files)
      /\ files \in FileSets
  BY DEF Ready, RecordInv, JudgedInv, Base, TypeInv, TypeOK
<1>2. PICK kind, value :
          /\ kind \in RunnerEvidence
          /\ kind = EvidenceOrder[ctx[p].written + 1] /\ ctx[p].written \in 0 .. 4
          /\ value # "absent" /\ (kind = "audit" => value \in AuditResults)
          /\ ctx[p].pc = "evidence" /\ ctx'[p].pc # "executing"
          /\ run' = run /\ manifest' = manifest
          /\ files' = [files EXCEPT ![kind] = value] /\ stale' = stale \ {kind}
  BY DEF EvidenceEffect, EvidenceOf, Comes
<1>3. Outcome \in {"open", "abandoned"} /\ Outcome' = Outcome
  <2>1. Outcome' = Outcome
    BY <1>2 DEF Outcome
  <2>2. CASE ctx[p].executed
    BY <1>1, <1>2, <2>1, <2>2, Outcomes DEF Judged, AtWork
  <2>3. CASE ~ctx[p].executed
    <3>1. /\ run.status # "completed"
          /\ run.status = "abandoned" => manifest.status = "abandoned"
      BY <1>1, <1>2, <2>3 DEF Judged, Recording
    <3> QED
      BY <2>1, <3>1, Outcomes DEF ClosedStatuses
  <2> QED
    BY <2>2, <2>3
<1>4. kind \notin (RunnerEvidence \cap Present(files)) \ stale
  <2>1. ctx[p].written + 1 \in ctx[p].written + 1 .. 5
    BY <1>2
  <2> QED
    BY <1>1, <1>2, <2>1 DEF Recording
<1>5. /\ files'[kind] = value
      /\ \A a \in Artifacts : a # kind => files'[a] = files[a]
  BY <1>1, <1>2 DEF FileSets, RunnerEvidence, Artifacts
<1>6. /\ files'["decision"] = files["decision"]
      /\ files'["resolution"] = files["resolution"]
      /\ files'["verification"] = files["verification"]
      /\ kind # "audit" => files'["audit"] = files["audit"]
      /\ kind = "audit" => files'["audit"] \in AuditResults
  BY <1>2, <1>5 DEF RunnerEvidence, Artifacts
<1>7. (RunnerEvidence \cap Present(files')) \ stale'
          = ((RunnerEvidence \cap Present(files)) \ stale) \cup {kind}
  BY <1>2, <1>5 DEF Present, RunnerEvidence, Artifacts
<1>8. Promise!Record(kind)
  BY <1>2, <1>3, <1>4, <1>6, <1>7, Working DEF Promise!Record, AuditResults
<1> QED
  BY <1>2, <1>8 DEF Kept, Promise!Next

\* The verification judges whole evidence, and completes a run that passed it.
LEMMA KeptVerdict ==
    ASSUME Ready, OneCommand, NEW p \in Procs, VerdictEffect(p)
    PROVE  Kept
<1> USE DEF OnlyFiles, OnlyRun, OnlyManifest, Comes
<1>1. /\ Going(ctx[p], run, manifest, files) /\ Judged(ctx[p], run, files)
      /\ Agreeing(ctx[p], run, manifest, files, torn)
      /\ Supplied(ctx[p], files) /\ Ordered(files)
      /\ Repeating(ctx[p], run, manifest, stale) /\ ctx[p].cmd # "verify"
  BY DEF Ready, OpenInv, JudgedInv, AgreementInv, Base, SupplyInv, StaleInv, Unverified
<1>2. ctx[p].pc \in JudgeLocs
  BY DEF VerdictEffect, JudgeLocs
<1>3. ctx'[p].pc # "executing" /\ stale' = stale /\ ctx[p].pc # "executing"
  BY <1>1 DEF VerdictEffect, AfterAdvance
<1>4. /\ HasRunnerEvidence(files) /\ stale = {}
      /\ files["decision"] # "absent" /\ Unfinished(manifest)
  BY <1>1, <1>2 DEF Supplied, Repeating, Going, Handling, DecidedLocs, JudgeLocs, Present
<1>5. (RunnerEvidence \cap Present(files)) \ stale = RunnerEvidence
  BY <1>4 DEF HasRunnerEvidence
<1>6. manifest.status # "completed"
  BY <1>4 DEF Unfinished, ActiveStatuses
<1>7. CASE ctx[p].pc \in {"verification_started", "verify_manifest"}
  <2>1. /\ files' = files
        /\ run'.status = run.status \/ run'.status \notin ClosedStatuses
    BY <1>1, <1>7 DEF VerdictEffect, ClosedStatuses
  <2>2. AtWork(ctx[p])
    BY <1>1, <1>7 DEF AtWork, WorkLocs
  <2>3. Unnoticed(p)
    BY <1>3, <2>1 DEF Unnoticed
  <2> QED
    BY <2>1, <2>2, <2>3, StaysOpen, Stutters DEF Ready
<1>8. CASE ctx[p].pc = "verifying"
  <2>1. PICK verdict \in Verdicts :
            /\ files' = Overlay([verification |-> verdict], files) /\ run' = run
            /\ verdict = "passed" =>
                   /\ files["audit"] # "breach" /\ files["audit"] # "absent"
                   /\ Approved(files)
    BY <1>8 DEF VerdictEffect
  <2>2. Outcome = "open" /\ Outcome' = "open"
    BY <1>8, <2>1, StaysOpen DEF Ready, AtWork, WorkLocs
  <2>3. /\ files'["verification"] = verdict /\ files'["decision"] = files["decision"]
        /\ files'["resolution"] = files["resolution"]
        /\ \A a \in RunnerEvidence : files'[a] = files[a]
    BY <2>1 DEF Overlay, RunnerEvidence, Artifacts
  <2>4. /\ files'["audit"] = files["audit"]
        /\ (RunnerEvidence \cap Present(files')) \ stale'
               = (RunnerEvidence \cap Present(files)) \ stale
    BY <1>3, <2>3 DEF Present, RunnerEvidence
  <2>5. verdict = "passed" =>
            /\ files["audit"] = "clean"
            /\ files["decision"] = "prompt" => files["resolution"] = "approved"
    BY <1>1, <2>1 DEF Ordered, AuditResults, Approved
  <2>6. Promise!Judge
    BY <1>3, <1>4, <1>5, <2>2, <2>3, <2>4, <2>5, Working
       DEF Promise!Judge, Promise!Open, Promise!Compliant, Promise!Allowed, Verdicts
  <2> QED
    BY <2>6 DEF Kept, Promise!Next
<1>9. CASE ctx[p].pc = "verdict_run"
  <2>1. /\ run'.status = IF files["verification"] = "passed" THEN "completed" ELSE "failed"
        /\ manifest' = manifest /\ files' = files
    BY <1>9 DEF VerdictEffect
  <2>2. Unnoticed(p)
    BY <1>3, <2>1 DEF Unnoticed
  <2>3. CASE files["verification"] # "passed"
    <3>1. AtWork(ctx[p]) /\ run'.status \notin ClosedStatuses
      BY <1>9, <2>1, <2>3 DEF AtWork, WorkLocs, ClosedStatuses
    <3> QED
      BY <2>2, <3>1, StaysOpen, Stutters DEF Ready
  <2>4. CASE files["verification"] = "passed"
    <3>1. Outcome = "open" /\ Outcome' = "completing"
      BY <1>1, <1>6, <1>9, <2>1, <2>4, Outcomes DEF Judged, AtWork, WorkLocs
    <3>2. /\ files["audit"] = "clean"
          /\ files["decision"] = "prompt" => files["resolution"] = "approved"
      BY <1>1, <1>9, <2>4 DEF Judged, Approved
    <3>3. Promise!Close
      BY <1>4, <1>5, <2>2, <2>4, <3>1, <3>2, OnlyOutcome
         DEF Promise!Close, Promise!Open, Promise!Compliant, Promise!Allowed
    <3> QED
      BY <3>3 DEF Kept, Promise!Next
  <2> QED
    BY <2>3, <2>4
<1>10. CASE ctx[p].pc = "verdict_manifest"
  <2>1. /\ manifest'.status = IF files["verification"] = "passed" THEN "completed"
                              ELSE "failed"
        /\ run' = run /\ files' = files
        /\ run.status = IF files["verification"] = "passed" THEN "completed" ELSE "failed"
    BY <1>1, <1>10 DEF VerdictEffect, Agreeing
  <2>2. Unnoticed(p)
    BY <1>3, <2>1 DEF Unnoticed
  <2>3. \/ Outcome' = Outcome
        \/ Outcome = "completing" /\ Outcome' = "completed"
    BY <1>6, <2>1, Outcomes DEF ClosedStatuses
  <2> QED
    BY <2>2, <2>3, Closes
<1> QED
  BY <1>2, <1>7, <1>8, <1>9, <1>10 DEF JudgeLocs

\* A manifest that takes the status of run.json closes the run, or nothing.
LEMMA StatusAgrees ==
    ASSUME run'.status = run.status, manifest'.status = run.status
    PROVE  \/ Outcome' = Outcome
           \/ Outcome = "completing" /\ Outcome' \in {"completed", "open"}
           \/ Outcome = "abandoning" /\ Outcome' \in {"abandoned", "open"}
BY Outcomes DEF ClosedStatuses

\* The beginning and the end of a command close a run, or change nothing of it.
LEMMA KeptEntry ==
    ASSUME Ready, OneCommand, NEW p \in Procs,
           FinalEffect(p) \/ CreateEffect(p) \/ EntryEffect(p)
    PROVE  Kept
<1> USE DEF OnlyFiles, OnlyRun, OnlyManifest, OnlyMemory, Comes
<1>1. Idle.pc = "idle"
  BY DEF Idle
<1>2. CASE FinalEffect(p)
  <2>1. /\ stale' = stale /\ files' = files /\ run'.status = run.status
        /\ ctx[p].pc # "executing" /\ ctx'[p].pc # "executing"
        /\ manifest'.status = manifest.status \/ manifest'.status = run.status
    BY <1>1, <1>2 DEF FinalEffect
  <2>2. Unnoticed(p)
    BY <2>1 DEF Unnoticed
  <2>3. CASE manifest'.status = manifest.status
    BY <2>1, <2>2, <2>3, Stutters DEF Outcome
  <2>4. CASE manifest'.status = run.status
    BY <2>1, <2>2, <2>4, StatusAgrees, Closes
  <2> QED
    BY <2>1, <2>3, <2>4
<1>3. CASE CreateEffect(p)
  <2>1. /\ stale' = stale /\ files' = files
        /\ run.status = "absent" /\ run'.status = "created"
        /\ ctx[p].pc # "executing" /\ ctx'[p].pc # "executing"
    BY <1>1, <1>3 DEF CreateEffect, NoRun
  <2>2. Unnoticed(p)
    BY <2>1 DEF Unnoticed
  <2> QED
    BY <2>1, <2>2, Outcomes, Stutters DEF ClosedStatuses
<1>4. CASE EntryEffect(p)
  <2>1. /\ stale' = stale /\ files' = files /\ run' = run /\ manifest' = manifest
        /\ ctx'[p].pc # "executing"
    BY <1>1, <1>4 DEF EntryEffect
  <2>2. Outcome' = Outcome
    BY <2>1 DEF Outcome
  <2>3. CASE ctx[p].pc = "executing"
    <3>1. Promise!Stop
      BY <2>1, <2>2, <2>3, Working DEF Promise!Stop
    <3> QED
      BY <3>1 DEF Kept, Promise!Next
  <2>4. CASE ctx[p].pc # "executing"
    BY <2>1, <2>2, <2>4, Stutters DEF Unnoticed
  <2> QED
    BY <2>3, <2>4
<1> QED
  BY <1>2, <1>3, <1>4

\* An inspection takes up again a run that was about to close, or closes it; a
\* resume is of a run that is open.
LEMMA KeptInspection ==
    ASSUME Ready, OneCommand, NEW p \in Procs, InspectEffect(p)
    PROVE  Kept
<1> USE DEF OnlyFiles, OnlyRun, OnlyManifest, Comes
<1>1. /\ Going(ctx[p], run, manifest, files)
      /\ run.status \in ClosedStatuses
             => manifest.status = run.status \/ Unfinished(manifest)
      /\ Supplied(ctx[p], files)
  BY DEF Ready, OpenInv, Base, SupplyInv
<1>2. Unnoticed(p)
  <2>1. /\ stale' = stale /\ files' = files
        /\ ctx[p].pc # "executing" /\ ctx'[p].pc # "executing"
    BY DEF InspectEffect, HandledStages, Idle
  <2> QED
    BY <2>1 DEF Unnoticed
<1>3. CASE ctx[p].pc = "interrupt"
  <2>1. run'.status = "interrupted" /\ manifest.status \in ActiveStatuses
    BY <1>1, <1>3 DEF InspectEffect, Going
  <2>2. Outcome' = "open" /\ Outcome \in {"open", "completing", "abandoning"}
    BY <2>1, Outcomes DEF ActiveStatuses, ClosedStatuses
  <2> QED
    BY <1>2, <2>2, Closes
<1>4. CASE ctx[p].pc = "inspect"
  <2>1. PICK ok : /\ run'.status = InspectedStatus(run, ctx[p].manifest, ok)
                  /\ manifest' = manifest
    BY <1>4 DEF InspectEffect
  <2>2. CASE run.status \notin ClosedStatuses
    <3>1. run'.status \notin ClosedStatuses
      BY <2>1, <2>2 DEF InspectedStatus, ClosedStatuses
    <3> QED
      BY <1>2, <2>2, <3>1, Outcomes, Stutters
  <2>3. CASE run.status \in ClosedStatuses
    <3>1. manifest.status \notin ActiveStatuses /\ ctx[p].manifest = manifest
      BY <1>1, <1>4, <2>3 DEF Going
    <3>2. manifest.status = run.status \/ manifest.status = "awaiting_approval"
      BY <1>1, <2>3, <3>1 DEF Unfinished
    <3>3. CASE manifest.status = run.status
      <4>1. run'.status = run.status
        BY <2>1, <2>3, <3>1, <3>3 DEF InspectedStatus, ClosedStatuses, TerminalStatuses
      <4> QED
        BY <1>2, <2>1, <4>1, Stutters DEF Outcome
    <3>4. CASE manifest.status = "awaiting_approval"
      <4>1. run'.status = "awaiting_approval"
        BY <2>1, <3>1, <3>4 DEF InspectedStatus
      <4>2. Outcome' = "open" /\ Outcome \in {"completing", "abandoning"}
        BY <2>3, <3>4, <4>1, Outcomes DEF ClosedStatuses
      <4> QED
        BY <1>2, <4>2, Closes
    <3> QED
      BY <3>2, <3>3, <3>4
  <2> QED
    BY <2>2, <2>3
<1>5. CASE ctx[p].pc = "inspect_manifest"
  <2>1. run'.status = run.status /\ manifest'.status = run.status
    BY <1>5 DEF InspectEffect
  <2> QED
    BY <1>2, <2>1, StatusAgrees, Closes
<1>6. CASE ctx[p].pc \in {"resume_run", "resume_manifest"}
  <2>1. run.status \notin ClosedStatuses
    BY <1>1, <1>6 DEF Going, Admitted
  <2>2. run'.status \notin ClosedStatuses
    BY <1>6, <2>1 DEF InspectEffect, ClosedStatuses
  <2> QED
    BY <1>2, <2>1, <2>2, Outcomes, Stutters
<1> QED
  BY <1>3, <1>4, <1>5, <1>6 DEF InspectEffect

\* What no process does changes nothing.
LEMMA KeptUnseen ==
    ASSUME Unseen
    PROVE  Kept
<1>1. /\ ctx' = ctx /\ files' = files /\ run' = run /\ manifest' = manifest
      /\ stale' = stale
  BY DEF Unseen, OnlyFiles
<1>2. UNCHANGED Promise!vars
  BY <1>1 DEF Promise!vars, Outcome, Present, At
<1> QED
  BY <1>2 DEF Kept

LEMMA KeptStep ==
    ASSUME OneCommand, Ready, [Next]_vars
    PROVE  Kept
<1>1. Unseen \/ \E p \in Procs : Effect(p)
  BY Effects DEF Ready, Base
<1>2. ASSUME NEW p \in Procs, Effect(p)
      PROVE  Kept
  BY <1>2, KeptSpec, KeptPolicy, KeptAnswer, KeptRunner, KeptEvidence, KeptVerdict,
     KeptEntry, KeptInspection DEF Effect
<1> QED
  BY <1>1, <1>2, KeptUnseen

LEMMA ReadyHolds ==
    ASSUME OneCommand, "verify" \notin Commands
    PROVE  /\ Init => Ready
           /\ Ready /\ [Next]_vars => Ready'
<1>1. Init => Ready
  BY BaseHolds, JudgedInit, AgreementInit, OpenInit, StaleInit, LeadInit, RecordInit
     DEF Ready
<1>2. Ready /\ [Next]_vars => Ready'
  BY BaseHolds, JudgedStep, AgreementStep, UnverifiedStep, OpenStep, StaleStep,
     LeadStep, RecordStep DEF Ready, Base
<1> QED
  BY <1>1, <1>2

\* While commands are given one at a time and none of them is `gdh verify`, the
\* lifecycle implements GovernedRun: whatever is interrupted, killed, inspected and
\* resumed, nothing is decided, asked, launched, recorded, judged or closed out of
\* turn.
THEOREM PromiseHolds ==
    ASSUME OneCommand, "verify" \notin Commands
    PROVE  Spec => PromiseKept
<1>1. Init => Promise!Init
  <2> SUFFICES ASSUME Init
               PROVE  Promise!Init
    OBVIOUS
  <2>1. /\ run.status = "absent" /\ stale = {} /\ files = NoFiles
        /\ \A p \in Procs : ctx[p].pc = "idle"
    BY DEF Init, NoRun, Idle
  <2>2. Outcome = "open"
    BY <2>1, Outcomes DEF ClosedStatuses
  <2>3. Present(files) = {}
    BY <2>1 DEF Present, NoFiles
  <2> QED
    BY <2>1, <2>2, <2>3 DEF Promise!Init, At, NoFiles, Artifacts
<1>2. Ready /\ [Next]_vars => [Promise!Next]_(Promise!vars)
  BY KeptStep DEF Kept
<1>3. (Init => Ready) /\ (Ready /\ [Next]_vars => Ready')
  BY ReadyHolds
<1> QED
  BY <1>1, <1>2, <1>3, PTL DEF Spec, PromiseKept, Promise!Spec

-----------------------------------------------------------------------------
(* Without `gdh verify`: which stages a resume is told. *)

\* An artifact that is there is not removed.
LEMMA ArtifactsRemain ==
    ASSUME TypeInv, ApprovalInv, SupplyInv, NEW p \in Procs, Effect(p)
    PROVE  Present(files) \subseteq Present(files')
<1>1. files \in FileSets
  BY RunTypes DEF TypeInv, TypeOK
<1>2. ASSUME NEW a \in Artifacts, NEW v, v # "absent", files' = [files EXCEPT ![a] = v]
      PROVE  Present(files) \subseteq Present(files')
  BY <1>1, <1>2 DEF Present, FileSets
<1>3. ASSUME NEW new, DOMAIN new \subseteq Artifacts,
             \A a \in DOMAIN new : new[a] # "absent", files' = Overlay(new, files)
      PROVE  Present(files) \subseteq Present(files')
  BY <1>3, Written
<1>4. CASE SpecEffect(p)
  BY <1>3, <1>4 DEF SpecEffect, OnlyFiles, OnlyRun, OnlyManifest, Artifacts
<1>5. CASE PolicyEffect(p)
  <2>1. CASE \E k \in Packets : OnlyFiles(Overlay([packet |-> k], files))
    BY <1>3, <2>1, PacketsAssumption DEF OnlyFiles, Artifacts
  <2>2. CASE \E d \in Decisions :
                OnlyFiles(Overlay([preview |-> "present", decision |-> d], files))
    BY <1>3, <2>2 DEF OnlyFiles, Artifacts, Decisions
  <2>3. CASE files' = files
    BY <2>3
  <2> QED
    BY <1>5, <2>1, <2>2, <2>3 DEF PolicyEffect, OnlyRun, OnlyManifest
<1>6. CASE AnswerEffect(p)
  <2>1. CASE \E answer \in Resolutions :
                OnlyFiles(Overlay([resolution |-> answer], files))
    BY <1>3, <2>1 DEF OnlyFiles, Artifacts, Resolutions
  <2>2. CASE files' = files
    BY <2>2
  <2> QED
    BY <1>6, <2>1, <2>2 DEF AnswerEffect, OnlyFiles, OnlyRun, OnlyManifest
<1>7. CASE EvidenceEffect(p)
  BY <1>2, <1>7 DEF EvidenceEffect, EvidenceOf, RunnerEvidence, Artifacts
<1>8. CASE VerdictEffect(p)
  <2>1. CASE \E verdict \in Verdicts :
                OnlyFiles(Overlay([verification |-> verdict], files))
    BY <1>3, <2>1 DEF OnlyFiles, Artifacts, Verdicts
  <2>2. CASE files' = files
    BY <2>2
  <2> QED
    BY <1>8, <2>1, <2>2 DEF VerdictEffect, OnlyRun, OnlyManifest
<1>9. CASE RunnerEffect(p) \/ FinalEffect(p) \/ CreateEffect(p) \/ EntryEffect(p)
           \/ InspectEffect(p)
  BY <1>9 DEF RunnerEffect, FinalEffect, CreateEffect, EntryEffect, InspectEffect,
     OnlyMemory, OnlyFiles, OnlyRun, OnlyManifest
<1> QED
  BY <1>4, <1>5, <1>6, <1>7, <1>8, <1>9 DEF Effect

\* What the runner has left is not removed.
LEMMA EvidenceRemains ==
    ASSUME TypeInv, ApprovalInv, SupplyInv, NEW p \in Procs, Effect(p)
    PROVE  HasRunnerEvidence(files) => HasRunnerEvidence(files')
BY ArtifactsRemain DEF HasRunnerEvidence

\* What holds of the only process holds of all.
LEMMA OnlyServing ==
    ASSUME OneCommand, NEW p \in Procs,
           Serving(run', manifest', files'), Attending(ctx'[p], run', manifest', files')
    PROVE  ServeInv'
BY DEF OneCommand, ServeInv

\* A process that is not there is told nothing.
LEMMA IdleAttending == Attending(Idle, run', manifest', files')
BY DEF Attending, Idle, BusyLocs

\* A stage that can be taken up remains one.
LEMMA ServedRemains ==
    ASSUME NEW stage, Served(stage, files),
           HasRunnerEvidence(files) => HasRunnerEvidence(files')
    PROVE  Served(stage, files')
BY DEF Served

\* The handlers up to the answer keep ServeInv.
LEMMA ServeHandlers ==
    ASSUME Ready, ServeInv, OneCommand, NEW p \in Procs,
           SpecEffect(p) \/ PolicyEffect(p) \/ AnswerEffect(p)
    PROVE  ServeInv'
<1> USE DEF OnlyFiles, OnlyRun, OnlyManifest, Comes
<1>1. /\ TypeInv /\ ApprovalInv /\ SupplyInv
      /\ Serving(run, manifest, files) /\ Attending(ctx[p], run, manifest, files)
      /\ Leading(ctx[p], run, manifest, files) /\ Judged(ctx[p], run, files)
  BY DEF Ready, Base, ServeInv, LeadInv, JudgedInv
<1>2. HasRunnerEvidence(files) => HasRunnerEvidence(files')
  BY <1>1, EvidenceRemains DEF Effect
<1>3. Served(manifest.pending, files) => Served(manifest.pending, files')
  BY <1>2, ServedRemains
<1>4. /\ "failed" \notin ActiveStatuses
      /\ "abandoned" \notin ActiveStatuses /\ "awaiting_approval" \notin ActiveStatuses
  BY DEF ActiveStatuses
<1>5. Served("spec_normalized", files') /\ Served("plan_created", files')
      /\ Served("policy_evaluated", files') /\ Served("awaiting_approval", files')
      /\ Served("runner_started", files') /\ Served(NoStage, files')
  BY DEF Served, HandledStages
<1>6. CASE SpecEffect(p)
  <2>1. ctx[p].pc # "create_manifest" => manifest.pending # NoStage
    BY <1>1, <1>6 DEF SpecEffect, Leading, EarlyLocs, BeforePolicy
  <2>2. \/ manifest' = manifest /\ manifest.pending # NoStage
        \/ /\ manifest'.pending # NoStage /\ manifest'.checkpoint # "created"
           /\ Served(manifest'.pending, files')
    BY <1>5, <1>6, <2>1 DEF SpecEffect, NoStage
  <2>3. Serving(run', manifest', files')
    BY <1>1, <1>3, <2>2 DEF Serving
  <2>4. Attending(ctx'[p], run', manifest', files')
    BY <1>6 DEF SpecEffect, Attending, BusyLocs
  <2> QED
    BY <2>3, <2>4, OnlyServing
<1>7. CASE PolicyEffect(p)
  <2>1. ctx[p].pc # "forbid_manifest" => manifest.pending # NoStage
    BY <1>1, <1>7 DEF PolicyEffect, Leading, EarlyLocs, BeforePolicy, AskLocs, ApprovalLocs
  <2>2. \/ manifest' = manifest /\ manifest.pending # NoStage
        \/ /\ manifest'.pending \in {"awaiting_approval", "runner_started"}
           /\ manifest'.checkpoint \in {manifest.checkpoint, "policy_evaluated"}
        \/ /\ ctx[p].pc = "forbid_manifest" /\ run' = run /\ manifest'.status = "failed"
           /\ manifest'.checkpoint = manifest.checkpoint
           /\ \/ manifest'.pending = NoStage
              \/ manifest'.pending = manifest.pending /\ manifest'.stage = manifest.stage
    BY <1>7, <2>1 DEF PolicyEffect, PendingAfterPolicy
  <2>3. Serving(run', manifest', files')
    BY <1>1, <1>3, <1>4, <1>5, <2>2 DEF Serving, Attending, NoStage
  <2>4. /\ ctx'[p].pc \notin {"inspect", "inspect_manifest", "resume_run",
                              "resume_manifest", "unsupported", "evidence"}
        /\ ctx'[p].pc \in BusyLocs => ctx[p].pc # "forbid_manifest"
        /\ ctx'[p].pc = "forbid_manifest" => run'.status = "failed"
    BY <1>1, <1>7, Decided DEF PolicyEffect, BusyLocs
  <2>5. ctx[p].pc # "forbid_manifest" => manifest'.pending # NoStage
    BY <2>2 DEF NoStage
  <2>6. Attending(ctx'[p], run', manifest', files')
    BY <2>4, <2>5 DEF Attending
  <2> QED
    BY <2>3, <2>6, OnlyServing
<1>8. CASE AnswerEffect(p)
  <2>1. ctx[p].pc \notin {"deny_manifest", "approve_manifest"} => manifest.pending # NoStage
    BY <1>1, <1>8 DEF AnswerEffect, Leading, AskLocs, ApprovalLocs
  <2>2. \/ manifest' = manifest /\ manifest.pending # NoStage
        \/ manifest'.pending = "runner_started" /\ manifest'.checkpoint = "approval_resolved"
        \/ /\ run' = run /\ manifest'.status = "awaiting_approval"
           /\ manifest'.checkpoint = manifest.checkpoint /\ manifest.pending # NoStage
           /\ manifest'.pending = manifest.pending /\ manifest'.stage = manifest.stage
        \/ /\ run' = run /\ run.status = "abandoned" /\ manifest'.status = "abandoned"
           /\ manifest'.checkpoint = manifest.checkpoint
           /\ \/ manifest'.pending = NoStage
              \/ manifest'.pending = manifest.pending /\ manifest'.stage = manifest.stage
    BY <1>1, <1>8, <2>1 DEF AnswerEffect, Judged
  <2>3. Serving(run', manifest', files')
    BY <1>1, <1>3, <1>4, <1>5, <2>2 DEF Serving, NoStage
  <2>4. /\ ctx'[p].pc \notin {"inspect", "inspect_manifest", "resume_run", "forbid_manifest",
                              "resume_manifest", "unsupported", "evidence"}
        /\ ctx'[p].pc \in BusyLocs => manifest'.pending = "runner_started"
    BY <1>8 DEF AnswerEffect, AfterAdvance, BusyLocs
  <2>5. Attending(ctx'[p], run', manifest', files')
    BY <2>4 DEF Attending, NoStage
  <2> QED
    BY <2>3, <2>5, OnlyServing
<1> QED
  BY <1>6, <1>7, <1>8

\* The runner and its evidence keep ServeInv.
LEMMA ServeRunner ==
    ASSUME Ready, ServeInv, OneCommand, NEW p \in Procs,
           RunnerEffect(p) \/ EvidenceEffect(p)
    PROVE  ServeInv'
<1> USE DEF OnlyFiles, OnlyRun, OnlyManifest, Comes
<1>1. /\ TypeInv /\ ApprovalInv /\ SupplyInv /\ Placed(ctx[p])
      /\ Serving(run, manifest, files) /\ Attending(ctx[p], run, manifest, files)
      /\ Agreeing(ctx[p], run, manifest, files, torn)
  BY DEF Ready, Base, ServeInv, SupplyInv, AgreementInv
<1>2. HasRunnerEvidence(files) => HasRunnerEvidence(files')
  BY <1>1, EvidenceRemains DEF Effect
<1>3. Served(manifest.pending, files) => Served(manifest.pending, files')
  BY <1>2, ServedRemains
<1>4. "interrupted" \notin ActiveStatuses
  BY DEF ActiveStatuses
<1>5. Served("verification_started", files') /\ Served("runner_started", files')
  BY DEF Served, HandledStages
<1>6. CASE RunnerEffect(p)
  <2>1. ctx[p].pc \notin {"relapse_run", "relapse_manifest"} => manifest.pending # NoStage
    BY <1>1, <1>6 DEF RunnerEffect, Attending, BusyLocs
  <2>2. /\ run'.status = run.status \/ run'.status = "interrupted" \/ manifest.pending # NoStage
        /\ \/ /\ manifest'.pending = manifest.pending /\ manifest'.stage = manifest.stage
              /\ manifest'.checkpoint = manifest.checkpoint
              /\ manifest'.status = manifest.status
           \/ /\ manifest'.pending = "runner_completed" /\ manifest'.stage = "runner_started"
              /\ manifest'.checkpoint = manifest.checkpoint
           \/ /\ manifest'.pending \in {"verification_started", "runner_started"}
              /\ manifest'.checkpoint \in {manifest.checkpoint, "runner_completed"}
    BY <1>6, <2>1 DEF RunnerEffect
  <2>3. Serving(run', manifest', files')
    BY <1>1, <1>3, <1>4, <1>5, <2>2 DEF Serving, NoStage
  <2>4. /\ ctx'[p].pc \notin {"inspect", "inspect_manifest", "resume_run", "forbid_manifest",
                              "resume_manifest", "unsupported"}
        /\ ctx[p].pc \in {"relapse_run", "relapse_manifest"} =>
               ctx'[p].pc \in {"relapse_manifest", "load"}
    BY <1>6 DEF RunnerEffect
  <2>5. manifest.pending # NoStage => manifest'.pending # NoStage
    BY <2>2 DEF NoStage
  <2>6. Attending(ctx'[p], run', manifest', files')
    BY <2>1, <2>4, <2>5 DEF Attending, BusyLocs
  <2> QED
    BY <2>3, <2>6, OnlyServing
<1>7. CASE EvidenceEffect(p)
  <2>1. /\ run' = run /\ manifest' = manifest /\ ctx[p].pc = "evidence"
        /\ ctx'[p].executed = ctx[p].executed
        /\ ctx'[p].pc \in {"evidence", "completed_manifest", "blocked_snapshot",
                           "verification_started", "relapse_run"}
        /\ ctx'[p].pc = "completed_manifest" => ctx[p].executed
        /\ ctx'[p].pc = "verification_started" => ~Fresh(p)
    BY <1>7 DEF EvidenceEffect, EvidenceOf
  <2>2. ctx[p].cmd \in {"run", "resume"}
    BY <1>1, <2>1, RunTypes DEF Placed, InspectionLocs, JudgeLocs, Contexts
  <2>3. ~Fresh(p) => ctx[p].executed
    BY <1>1, <2>1, <2>2 DEF Placed, Fresh
  <2>4. Serving(run', manifest', files')
    BY <1>1, <1>3, <2>1 DEF Serving
  <2>5. Attending(ctx'[p], run', manifest', files')
    BY <1>1, <2>1, <2>3 DEF Attending, BusyLocs
  <2> QED
    BY <2>4, <2>5, OnlyServing
<1> QED
  BY <1>6, <1>7

\* Verification and the end of a fresh run keep ServeInv.
LEMMA ServeVerdict ==
    ASSUME Ready, ServeInv, OneCommand, NEW p \in Procs,
           VerdictEffect(p) \/ FinalEffect(p)
    PROVE  ServeInv'
<1> USE DEF OnlyFiles, OnlyRun, OnlyManifest, Comes
<1>1. /\ TypeInv /\ ApprovalInv /\ SupplyInv /\ Supplied(ctx[p], files)
      /\ Serving(run, manifest, files) /\ Attending(ctx[p], run, manifest, files)
      /\ Agreeing(ctx[p], run, manifest, files, torn) /\ ctx[p].cmd # "verify"
  BY DEF Ready, Base, ServeInv, SupplyInv, AgreementInv, Unverified
<1>2. HasRunnerEvidence(files) => HasRunnerEvidence(files')
  BY <1>1, EvidenceRemains DEF Effect
<1>3. Served(manifest.pending, files) => Served(manifest.pending, files')
  BY <1>2, ServedRemains
<1>4. "completed" \notin ActiveStatuses /\ "failed" \notin ActiveStatuses
  BY DEF ActiveStatuses
<1>5. \/ ctx'[p] = Idle
      \/ ctx'[p].pc \in {"verify_manifest", "verifying", "verdict_run", "verdict_manifest",
                         "finalize", "load", "final_run", "final_manifest"}
      \/ ctx'[p].pc = "evidence" /\ ctx'[p].executed = FALSE
  <2>1. ctx[p].executed \in BOOLEAN
    BY <1>1, RunTypes DEF Contexts
  <2>2. CASE VerdictEffect(p)
    BY <2>2 DEF VerdictEffect, AfterAdvance
  <2>3. CASE FinalEffect(p)
    BY <2>1, <2>3 DEF FinalEffect
  <2> QED
    BY <2>2, <2>3
<1>6. Attending(ctx'[p], run', manifest', files')
  BY <1>5, IdleAttending DEF Attending, BusyLocs
<1>7. CASE VerdictEffect(p)
  <2>1. ctx[p].pc = "verification_started" => manifest.pending # NoStage
    BY <1>1 DEF Attending, BusyLocs
  <2>2. ctx[p].pc = "verify_manifest" => HasRunnerEvidence(files)
    BY <1>1 DEF Supplied, JudgeLocs
  <2>3. CASE ctx[p].pc = "verify_manifest"
    <3>1. manifest'.pending = "verification_completed"
          /\ manifest'.checkpoint = manifest.checkpoint
      BY <1>7, <2>3 DEF VerdictEffect
    <3> QED
      BY <1>1, <1>2, <1>6, <2>2, <2>3, <3>1, OnlyServing DEF Serving, Served, NoStage
  <2>4. CASE ctx[p].pc = "verdict_manifest"
    <3>1. /\ run'.status \in {"completed", "failed"} /\ manifest'.pending = NoStage
          /\ manifest'.status \in {"completed", "failed"}
          /\ manifest'.checkpoint \in {manifest.checkpoint, "verification_completed"}
      BY <1>1, <1>7, <2>4 DEF VerdictEffect, Agreeing
    <3> QED
      BY <1>1, <1>4, <1>6, <3>1, OnlyServing DEF Serving, Served
  <2>5. CASE ctx[p].pc \notin {"verify_manifest", "verdict_manifest"}
    <3>1. /\ manifest' = manifest
          /\ \/ manifest.pending # NoStage
             \/ run'.status \in {run.status, "completed", "failed"}
      BY <1>1, <1>7, <2>1, <2>5 DEF VerdictEffect
    <3> QED
      BY <1>1, <1>3, <1>4, <1>6, <3>1, OnlyServing DEF Serving
  <2> QED
    BY <2>3, <2>4, <2>5
<1>8. CASE FinalEffect(p)
  <2>1. /\ run'.status = run.status
        /\ manifest'.pending = manifest.pending /\ manifest'.stage = manifest.stage
        /\ manifest'.checkpoint = manifest.checkpoint
        /\ manifest'.status \in {manifest.status, run.status}
    BY <1>8 DEF FinalEffect
  <2>2. ctx[p].pc \in FinalLocs
    BY <1>8 DEF FinalEffect, FinalLocs
  <2>3. manifest.status # "absent"
    BY <1>1, <2>2 DEF Agreeing, Untouched, FinalLocs
  <2> QED
    BY <1>1, <1>3, <1>6, <2>1, <2>3, OnlyServing DEF Serving
<1> QED
  BY <1>7, <1>8

\* The beginning and the end of a command keep ServeInv.
LEMMA ServeEntry ==
    ASSUME Ready, ServeInv, OneCommand, NEW p \in Procs,
           CreateEffect(p) \/ EntryEffect(p)
    PROVE  ServeInv'
<1>1. /\ Placed(ctx[p]) /\ ctx[p].cmd # "verify"
      /\ Serving(run, manifest, files) /\ Attending(ctx[p], run, manifest, files)
      /\ manifest.status = "absent" => manifest = NoManifest
      /\ ctx[p].cmd \in {"none", "run", "status", "resume", "verify"}
  BY RunTypes DEF Ready, Base, ServeInv, SupplyInv, AgreementInv, Unverified, TypeInv,
     TypeOK, Contexts
<1>2. manifest' = manifest /\ files' = files
  BY DEF CreateEffect, EntryEffect, OnlyMemory, OnlyFiles
<1>3. Serving(run', manifest', files')
  <2>1. CASE CreateEffect(p)
    <3>1. manifest.status = "absent"
      BY <2>1 DEF CreateEffect, NoManifest
    <3> QED
      BY <1>1, <1>2, <3>1 DEF Serving
  <2>2. CASE EntryEffect(p)
    BY <1>1, <1>2, <2>2 DEF EntryEffect, OnlyMemory, OnlyFiles
  <2> QED
    BY <2>1, <2>2
<1>4. ctx[p].pc # "verify_load"
  BY <1>1 DEF Placed, InspectionLocs
<1>5. CASE ctx'[p] = Idle
  BY <1>3, <1>5, IdleAttending, OnlyServing
<1>6. CASE ctx'[p].pc \in {"create_manifest", "load", "verify_load", "interrupt"}
  <2>1. Attending(ctx'[p], run', manifest', files')
    BY <1>6 DEF Attending, BusyLocs
  <2> QED
    BY <1>3, <2>1, OnlyServing
<1>7. CASE /\ ctx'[p].pc = "inspect" /\ ctx'[p].manifest = manifest
           /\ manifest # NoManifest /\ run' = run
  <2>1. Attending(ctx'[p], run', manifest', files')
    BY <1>1, <1>2, <1>7 DEF Attending, BusyLocs
  <2> QED
    BY <1>3, <2>1, OnlyServing
<1> QED
  BY <1>4, <1>5, <1>6, <1>7 DEF CreateEffect, EntryEffect, Comes, OnlyMemory, OnlyFiles

\* The stage that an inspection finds can be taken up, or nothing is awaited.
LEMMA NextIsServed ==
    ASSUME NEW r, NEW m, NEW f, Serving(r, m, f), Led(r, m, f),
           r.stage \in Stages, m.stage \in Stages, m.pending \in OptionalStage,
           m.checkpoint \in OptionalStage
    PROVE  /\ Served(DetermineNextStage(r, m, f), f)
           /\ DetermineNextStage(r, m, f) = NoStage => m.pending = NoStage
<1> DEFINE next == DetermineNextStage(r, m, f)
<1>1. Evidenced(r, m, f) /\ (next = NoStage => m.pending = NoStage)
  BY NextIsLed DEF Led
<1>2. Served("runner_started", f) /\ Served("awaiting_approval", f)
      /\ Served("spec_normalized", f)
  BY DEF Served, HandledStages
<1>3. ASSUME NEW stage \in Stages, stage # "created"
      PROVE  Served(StageAfterCheckpoint(stage), f)
  BY <1>3 DEF Served, HandledStages, StageAfterCheckpoint, Stages
<1>4. CASE "runner_started" \in {m.stage, r.stage}
  <2>1. next = "runner_started"
    BY <1>4 DEF DetermineNextStage
  <2> QED
    BY <1>1, <1>2, <2>1
<1>5. CASE "runner_started" \notin {m.stage, r.stage} /\ m.pending # NoStage
  <2>1. m.pending # "runner_completed" /\ Served(m.pending, f)
    BY <1>5 DEF Serving, Served, HandledStages, NoStage
  <2>2. next = m.pending
    BY <1>1, <1>5, <2>1 DEF DetermineNextStage, Evidenced, Judging
  <2> QED
    BY <1>1, <2>1, <2>2
<1>6. CASE "runner_started" \notin {m.stage, r.stage} /\ m.pending = NoStage
  <2>1. next = IF m.status = "awaiting_approval" THEN "awaiting_approval"
               ELSE IF m.checkpoint # NoStage THEN StageAfterCheckpoint(m.checkpoint)
               ELSE IF r.stage = "created" THEN "spec_normalized"
               ELSE StageAfterCheckpoint(r.stage)
    BY <1>1, <1>6 DEF DetermineNextStage, Evidenced, Judging, NoStage
  <2>2. m.checkpoint # NoStage => m.checkpoint \in Stages /\ m.checkpoint # "created"
    BY DEF OptionalStage, Serving
  <2> HIDE DEF next
  <2>3. Served(next, f)
    BY <1>2, <1>3, <2>1, <2>2
  <2> QED
    BY <1>1, <1>6, <2>3 DEF next
<1> QED
  BY <1>4, <1>5, <1>6

\* Inspections and the beginning of a resume keep ServeInv.
LEMMA ServeInspection ==
    ASSUME Ready, ServeInv, OneCommand, NEW p \in Procs, InspectEffect(p)
    PROVE  ServeInv'
<1> USE DEF OnlyRun, OnlyManifest, Comes
<1>1. /\ TypeInv /\ ApprovalInv /\ SupplyInv
      /\ Serving(run, manifest, files) /\ Attending(ctx[p], run, manifest, files)
      /\ Led(run, manifest, files) /\ Leading(ctx[p], run, manifest, files)
      /\ Going(ctx[p], run, manifest, files)
  BY DEF Ready, Base, ServeInv, LeadInv, OpenInv
<1>2. /\ run.stage \in Stages /\ manifest.stage \in Stages
      /\ manifest.pending \in OptionalStage /\ manifest.checkpoint \in OptionalStage
      /\ ctx[p].manifest.stage \in Stages /\ ctx[p].manifest.pending \in OptionalStage
      /\ ctx[p].manifest.checkpoint \in OptionalStage
  BY <1>1, RunTypes DEF TypeInv, TypeOK, RunRecords, Manifests
<1>3. files' = files
  BY DEF InspectEffect
<1>4. /\ "interrupted" \notin ActiveStatuses /\ "resumable" \notin ActiveStatuses
      /\ "awaiting_approval" \notin ActiveStatuses /\ "absent" \notin ActiveStatuses
  BY DEF ActiveStatuses
<1>5. CASE ctx[p].pc = "interrupt"
  <2> DEFINE next == DetermineNextStage(run, manifest, files)
             m    == ctx'[p].manifest
  <2>1. /\ run'.status = "interrupted" /\ manifest' = manifest
        /\ ctx'[p].pc = "inspect" /\ m.status = "interrupted"
        /\ m.checkpoint = manifest.checkpoint
        /\ m.pending = IF next = NoStage THEN manifest.stage ELSE next
    BY <1>5 DEF InspectEffect
  <2>2. manifest.pending # NoStage
    BY <1>1, <1>4, <1>5 DEF Going, Serving
  <2>3. Served(next, files) /\ next # NoStage
    BY <1>1, <1>2, <2>2, NextIsServed
  <2> HIDE DEF next
  <2>4. m.pending = next
    BY <2>1, <2>3
  <2>5. Serving(run', manifest', files')
    BY <1>1, <1>3, <2>1, <2>2 DEF Serving
  <2>6. Serving(run', m, files') /\ m.status # "absent"
    BY <1>1, <1>3, <2>1, <2>3, <2>4 DEF Serving
  <2>7. Attending(ctx'[p], run', manifest', files')
    BY <2>1, <2>6 DEF Attending, BusyLocs
  <2> QED
    BY <2>5, <2>7, OnlyServing
<1>6. CASE ctx[p].pc = "inspect"
  <2> DEFINE m    == ctx[p].manifest
             next == DetermineNextStage(run, m, files)
             ok   == Eligible(run, m, files, Present(files), head)
  <2>1. /\ run'.status = InspectedStatus(run, m, ok) /\ manifest' = manifest
        /\ ctx'[p].pc = "inspect_manifest" /\ ctx'[p].manifest = m /\ ctx'[p].next = next
    BY <1>6 DEF InspectEffect
  <2>2. /\ Serving(run, m, files) /\ m.status # "absent" /\ Led(run, m, files)
    BY <1>1, <1>6 DEF Attending, Leading
  <2>3. Served(next, files) /\ (next = NoStage => m.pending = NoStage)
    BY <1>2, <2>2, NextIsServed
  <2> HIDE DEF next, ok
  <2>4. run'.status \in {"awaiting_approval", "resumable", run.status}
    BY <2>1 DEF InspectedStatus
  <2>5. Serving(run', manifest', files')
    BY <1>1, <1>3, <1>4, <2>1, <2>4 DEF Serving
  <2>6. /\ m.checkpoint # "created"
        /\ next = NoStage => run'.status \notin ActiveStatuses
    BY <1>4, <2>2, <2>3, <2>4 DEF Serving
  <2> HIDE DEF m
  <2>7. Attending(ctx'[p], run', manifest', files')
    BY <1>3, <2>1, <2>3, <2>6 DEF Attending, BusyLocs
  <2> QED
    BY <2>5, <2>7, OnlyServing
<1>7. CASE ctx[p].pc = "inspect_manifest"
  <2>1. /\ run' = run /\ manifest'.status = run.status /\ manifest'.pending = ctx[p].next
        /\ manifest'.checkpoint = ctx[p].manifest.checkpoint
        /\ \/ ctx'[p] = Idle
           \/ ctx'[p].pc = "resume_run" /\ ctx'[p].next = ctx[p].next
    BY <1>7 DEF InspectEffect
  <2>2. /\ Served(ctx[p].next, files) /\ ctx[p].manifest.checkpoint # "created"
        /\ ctx[p].next = NoStage => run.status \notin ActiveStatuses
    BY <1>1, <1>7 DEF Attending
  <2>3. Serving(run', manifest', files')
    BY <1>3, <2>1, <2>2 DEF Serving
  <2>4. Attending(ctx'[p], run', manifest', files')
    BY <1>3, <2>1, <2>2, IdleAttending DEF Attending, BusyLocs
  <2> QED
    BY <2>3, <2>4, OnlyServing
<1>8. CASE ctx[p].pc \in {"resume_run", "resume_manifest"}
  <2>1. /\ ctx[p].next # NoStage /\ manifest.pending = ctx[p].next
        /\ Served(ctx[p].next, files)
    BY <1>1, <1>8, Somewhere, RunTypes DEF Typed, InPlace, Attending
  <2>2. /\ \/ manifest' = manifest
           \/ manifest'.pending = ctx[p].next /\ manifest'.checkpoint = manifest.checkpoint
        /\ ctx'[p].next = ctx[p].next
        /\ ctx'[p].pc = IF ctx[p].pc = "resume_run" THEN "resume_manifest"
                        ELSE IF ctx[p].next \in HandledStages THEN ctx[p].next
                        ELSE "unsupported"
    BY <1>8 DEF InspectEffect
  <2>3. Serving(run', manifest', files')
    BY <1>1, <1>3, <2>1, <2>2 DEF Serving
  <2>4. manifest'.pending # NoStage
    BY <2>1, <2>2
  <2>5. Attending(ctx'[p], run', manifest', files')
    BY <1>3, <2>1, <2>2, <2>4 DEF Attending, BusyLocs, HandledStages
  <2> QED
    BY <2>3, <2>5, OnlyServing
<1> QED
  BY <1>5, <1>6, <1>7, <1>8 DEF InspectEffect

\* ServeInv holds initially.
LEMMA ServeInit == Init => ServeInv
BY DEF Init, ServeInv, Serving, Served, Attending, BusyLocs, Idle, NoManifest, NoStage

\* Every step keeps ServeInv.
LEMMA ServeStep ==
    ASSUME OneCommand
    PROVE  Ready /\ ServeInv /\ [Next]_vars => ServeInv'
<1> SUFFICES ASSUME Ready, ServeInv, [Next]_vars
             PROVE  ServeInv'
  OBVIOUS
<1>1. CASE Unseen
  BY <1>1 DEF Unseen, OnlyFiles, ServeInv
<1>2. ASSUME NEW p \in Procs, Effect(p)
      PROVE  ServeInv'
  BY <1>2, ServeHandlers, ServeRunner, ServeVerdict, ServeEntry, ServeInspection
     DEF Effect
<1> QED
  BY <1>1, <1>2, Effects DEF Ready, Base

\* While commands are given one at a time and none of them is `gdh verify`, what an
\* inspection calls eligible is taken up, but for a verification that was killed.
THEOREM ResumeServed ==
    ASSUME OneCommand, "verify" \notin Commands
    PROVE  Spec => []EligibleResumeIsServed
<1>1. Init => Ready /\ ServeInv
  BY ReadyHolds, ServeInit
<1>2. Ready /\ ServeInv /\ [Next]_vars => (Ready /\ ServeInv)'
  BY ReadyHolds, ServeStep
<1>3. Ready /\ ServeInv => EligibleResumeIsServed
  <2> SUFFICES ASSUME Ready, ServeInv, NEW p \in Procs, ctx[p].pc = "unsupported"
               PROVE  /\ ctx[p].next = "verification_completed"
                      /\ HasRunnerEvidence(files)
                      /\ stale = {}
    BY DEF EligibleResumeIsServed, At
  <2>1. Attending(ctx[p], run, manifest, files)
        /\ Repeating(ctx[p], run, manifest, stale)
    BY DEF ServeInv, Ready, StaleInv
  <2> QED
    BY <2>1 DEF Attending, Served, Repeating
<1> QED
  BY <1>1, <1>2, <1>3, PTL DEF Spec

-----------------------------------------------------------------------------
(* Without `gdh verify`: a run that waits can be taken up again. *)

\* What is known of the process at work, when the records are as they are.
LEMMA Paused ==
    ASSUME Ready, ServeInv, DenialInv, PauseInv, NEW p \in Procs
    PROVE  /\ TypeInv /\ ApprovalInv /\ SupplyInv
           /\ Placed(ctx[p]) /\ Supplied(ctx[p], files) /\ ctx[p].cmd # "verify"
           /\ Judged(ctx[p], run, files)
           /\ Agreeing(ctx[p], run, manifest, files, torn)
           /\ Going(ctx[p], run, manifest, files)
           /\ Leading(ctx[p], run, manifest, files)
           /\ Attending(ctx[p], run, manifest, files)
           /\ Undenied(ctx[p], manifest)
           /\ Pausable(run, manifest, files) /\ Standing(run, manifest)
           /\ Pausing(ctx[p], run, manifest, files)
           /\ InPlace(ctx[p], run, manifest, files)
BY DEF Ready, Base, SupplyInv, Unverified, JudgedInv, AgreementInv, OpenInv, LeadInv,
       ServeInv, DenialInv, PauseInv, ApprovalInv

\* What holds of the only process holds of all.
LEMMA OnlyPausing ==
    ASSUME OneCommand, NEW p \in Procs,
           Pausable(run', manifest', files'), Standing(run', manifest'),
           Pausing(ctx'[p], run', manifest', files')
    PROVE  PauseInv'
BY DEF OneCommand, PauseInv

\* A process that is not there keeps nothing from being resumed.
LEMMA IdlePausing == Pausing(Idle, run', manifest', files')
BY DEF Pausing, Idle, ActiveLocs, FailedLocs, FinalLocs, AskLocs, ApprovalLocs, EarlyLocs,
       BeforePolicy, JudgeLocs, Launched, Admitted

\* The handlers of the spec and of the plan keep PauseInv.
LEMMA PauseSpec ==
    ASSUME Ready, ServeInv, DenialInv, PauseInv, OneCommand, NEW p \in Procs, SpecEffect(p)
    PROVE  PauseInv'
<1> USE DEF OnlyFiles, OnlyRun, OnlyManifest, Comes
<1>1. Standing(run, manifest) /\ Pausing(ctx[p], run, manifest, files)
  BY Paused
<1>2. /\ ctx[p].pc \in EarlyLocs
      /\ ctx'[p].pc \in EarlyLocs \ {"create_manifest", "policy_running", "policy_run",
                                     "policy_manifest"}
  BY DEF SpecEffect, EarlyLocs, BeforePolicy
<1>3. run.verification # "failed" /\ run'.verification = run.verification
  BY <1>1, <1>2 DEF SpecEffect, Pausing, FailedLocs, InspectionLocs, JudgeLocs, EarlyLocs,
     BeforePolicy
<1>4. ctx[p].pc # "create_manifest" =>
          manifest.status \in ActiveStatuses /\ manifest.approval # "denied"
  BY <1>1, <1>2 DEF Pausing, ActiveLocs, Standing, ActiveStatuses
<1>5. manifest'.status \in ActiveStatuses /\ manifest'.approval # "denied"
  BY <1>4 DEF SpecEffect, ActiveStatuses
<1>6. Pausable(run', manifest', files') /\ Standing(run', manifest')
  BY <1>3, <1>5 DEF Pausable, Standing, ActiveStatuses
<1>7. Pausing(ctx'[p], run', manifest', files')
  BY <1>2, <1>3, <1>5 DEF Pausing, EarlyLocs, BeforePolicy, AskLocs, ApprovalLocs,
     FinalLocs, Launched
<1> QED
  BY <1>6, <1>7, OnlyPausing

\* handlePolicyEvaluated keeps PauseInv.
LEMMA PausePolicy ==
    ASSUME Ready, ServeInv, DenialInv, PauseInv, OneCommand, NEW p \in Procs, PolicyEffect(p)
    PROVE  PauseInv'
<1> USE DEF OnlyFiles, OnlyRun, OnlyManifest, Comes
<1>1. /\ TypeInv /\ ApprovalInv /\ SupplyInv
      /\ Standing(run, manifest) /\ Pausing(ctx[p], run, manifest, files)
      /\ Leading(ctx[p], run, manifest, files) /\ Attending(ctx[p], run, manifest, files)
      /\ InPlace(ctx[p], run, manifest, files) /\ Supplied(ctx[p], files)
  BY Paused
<1>2. ctx[p].pc \in {"policy_evaluated", "policy_running", "policy_run", "policy_manifest",
                     "forbid_run", "forbid_manifest", "packet", "prompt_run",
                     "prompt_manifest"}
  BY DEF PolicyEffect
<1>3. /\ manifest.status \in ActiveStatuses /\ manifest.approval # "denied"
      /\ run.verification # "failed" /\ run'.verification = run.verification
  BY <1>1, <1>2 DEF PolicyEffect, Pausing, Standing, ActiveLocs, EarlyLocs, BeforePolicy,
     ActiveStatuses, FailedLocs, InspectionLocs, JudgeLocs
<1>4. ctx[p].pc \notin {"forbid_run", "forbid_manifest"} =>
          {run.stage, manifest.stage} \cap Running = {}
  BY <1>1, <1>2 DEF InPlace, Early, EarlyLocs, BeforePolicy, Pausing, AskLocs, ApprovalLocs
<1>5. CASE ctx[p].pc \notin {"forbid_manifest", "prompt_manifest"}
  <2>1. /\ manifest'.status \in ActiveStatuses /\ manifest'.approval # "denied"
        /\ run'.verification # "failed"
    BY <1>3, <1>5 DEF PolicyEffect
  <2>2. Pausable(run', manifest', files') /\ Standing(run', manifest')
    BY <2>1 DEF Pausable, Standing, ActiveStatuses
  <2>3. /\ ctx'[p].pc \in {"policy_running", "policy_run", "policy_manifest", "packet",
                           "forbid_run", "runner_started", "forbid_manifest", "prompt_run",
                           "prompt_manifest", "awaiting_approval"}
        /\ ctx'[p].pc = "awaiting_approval" => ctx'[p].cmd # "run"
    BY <1>1, <1>5, Decided DEF PolicyEffect, Fresh
  <2>4. ctx'[p].pc \in AskLocs => ctx[p].pc \notin {"forbid_run", "forbid_manifest"}
    BY DEF PolicyEffect, AskLocs, ApprovalLocs
  <2>5. ctx'[p].pc \in AskLocs => {run'.stage, manifest'.stage} \cap Running = {}
    BY <1>4, <1>5, <2>4 DEF PolicyEffect, Running
  <2>6. Pausing(ctx'[p], run', manifest', files')
    BY <2>1, <2>3, <2>5 DEF Pausing, FinalLocs, Launched
  <2> QED
    BY <2>2, <2>6, OnlyPausing
<1>6. CASE ctx[p].pc = "forbid_manifest"
  <2>1. /\ run' = run /\ run.status = "failed" /\ manifest'.status = "failed"
        /\ manifest'.approval # "denied" /\ run'.verification # "failed"
        /\ ctx'[p].pc \in {"finalize", "load"}
    BY <1>1, <1>3, <1>6 DEF PolicyEffect, Attending
  <2>2. Pausable(run', manifest', files') /\ Standing(run', manifest')
    BY <2>1 DEF Pausable, Standing
  <2>3. Pausing(ctx'[p], run', manifest', files')
    BY <2>1 DEF Pausing, ActiveLocs, EarlyLocs, BeforePolicy, JudgeLocs, AskLocs,
       ApprovalLocs, FinalLocs, Launched
  <2> QED
    BY <2>2, <2>3, OnlyPausing
<1>7. CASE ctx[p].pc = "prompt_manifest"
  <2>1. /\ manifest'.status = "awaiting_approval" /\ manifest'.stage = "awaiting_approval"
        /\ manifest'.pending = "awaiting_approval" /\ manifest'.approval = "pending"
        /\ run' = run /\ files' = files
        /\ ctx'[p].pc = "awaiting_approval" /\ ctx'[p].cmd = ctx[p].cmd
    BY <1>7 DEF PolicyEffect
  <2>2. ctx[p].cmd = "run" /\ {"decision", "packet"} \subseteq Present(files)
    BY <1>1, <1>7 DEF Leading, Supplied, DecidedLocs, ApprovalLocs
  <2>3. Pausable(run', manifest', files')
    BY <1>4, <1>7, <2>1, <2>2 DEF Pausable, Running
  <2>4. Standing(run', manifest')
    BY <1>3, <2>1 DEF Standing
  <2>5. Pausing(ctx'[p], run', manifest', files')
    BY <1>3, <1>4, <1>7, <2>1, <2>2 DEF Pausing, ActiveLocs, EarlyLocs, BeforePolicy,
       JudgeLocs, FinalLocs, Launched, Running
  <2> QED
    BY <2>3, <2>4, <2>5, OnlyPausing
<1> QED
  BY <1>5, <1>6, <1>7

\* handleAwaitingApproval keeps PauseInv.
LEMMA PauseAnswer ==
    ASSUME Ready, ServeInv, DenialInv, PauseInv, OneCommand, NEW p \in Procs, AnswerEffect(p)
    PROVE  PauseInv'
<1> USE DEF OnlyFiles, OnlyRun, OnlyManifest, Comes
<1>1. /\ TypeInv /\ ApprovalInv /\ SupplyInv /\ Placed(ctx[p])
      /\ Pausable(run, manifest, files) /\ Standing(run, manifest)
      /\ Pausing(ctx[p], run, manifest, files) /\ Judged(ctx[p], run, files)
      /\ Going(ctx[p], run, manifest, files)
      /\ InPlace(ctx[p], run, manifest, files) /\ Supplied(ctx[p], files)
  BY Paused
<1>2. /\ ctx[p].pc \in {"awaiting_approval", "pause_run", "pause_manifest", "resolved",
                        "deny_manifest", "approve_manifest"}
      /\ run'.verification = run.verification
  BY DEF AnswerEffect
<1>3. run.verification # "failed"
  BY <1>1, <1>2 DEF Pausing, FailedLocs, InspectionLocs, JudgeLocs
<1>4. ctx[p].pc # "approve_manifest" => {run.stage, manifest.stage} \cap Running = {}
  BY <1>1, <1>2 DEF Pausing, AskLocs, ApprovalLocs
<1>5. Present(files) \subseteq Present(files')
  BY <1>1, ArtifactsRemain DEF Effect
<1>6. "awaiting_approval" \notin ActiveStatuses /\ "abandoned" \notin ActiveStatuses
  BY DEF ActiveStatuses
<1>7. CASE ctx[p].pc = "awaiting_approval"
  <2>1. /\ run' = run /\ manifest' = manifest /\ ctx'[p].cmd = ctx[p].cmd
        /\ \/ ctx'[p].pc = "resolved"
           \/ ctx'[p].pc = "finalize" /\ ctx[p].cmd = "run"
           \/ ctx'[p].pc = "pause_run" /\ ctx[p].cmd # "run"
    BY <1>7 DEF AnswerEffect, Fresh
  <2>2. Pausable(run', manifest', files') /\ Standing(run', manifest')
    BY <1>1, <1>5, <2>1 DEF Pausable
  <2>3. /\ ctx[p].cmd # "run" =>
               /\ manifest.status \in ActiveStatuses
               /\ manifest.pending \in BeforePolicy \cup {"awaiting_approval"}
        /\ ctx[p].cmd = "run" => manifest.status = "awaiting_approval"
        /\ "packet" \in Present(files')
    BY <1>1, <1>5, <1>7 DEF Pausing, InPlace, Supplied, ApprovalLocs
  <2>4. Pausing(ctx'[p], run', manifest', files')
    BY <1>3, <1>4, <1>7, <2>1, <2>3 DEF Pausing, ActiveLocs, EarlyLocs, BeforePolicy,
       JudgeLocs, FinalLocs, Launched
  <2> QED
    BY <2>2, <2>4, OnlyPausing
<1>8. CASE ctx[p].pc = "pause_run"
  <2>1. /\ run'.status = "awaiting_approval" /\ run'.stage = run.stage
        /\ manifest' = manifest /\ files' = files /\ ctx'[p].pc = "pause_manifest"
    BY <1>8 DEF AnswerEffect
  <2>2. /\ manifest.status \in ActiveStatuses
        /\ manifest.pending \in BeforePolicy \cup {"awaiting_approval"}
        /\ "packet" \in Present(files)
    BY <1>1, <1>8 DEF Pausing, ActiveLocs
  <2>3. Pausable(run', manifest', files') /\ Standing(run', manifest')
    BY <1>1, <1>2, <1>3, <1>6, <2>1, <2>2 DEF Pausable, Standing
  <2>4. Pausing(ctx'[p], run', manifest', files')
    BY <1>2, <1>3, <1>4, <1>8, <2>1, <2>2 DEF Pausing, FinalLocs, Launched
  <2> QED
    BY <2>3, <2>4, OnlyPausing
<1>9. CASE ctx[p].pc = "pause_manifest"
  <2>1. /\ manifest'.status = "awaiting_approval" /\ manifest'.stage = manifest.stage
        /\ manifest'.pending = manifest.pending /\ manifest'.approval = "pending"
        /\ run' = run /\ files' = files /\ ctx'[p].pc \in {"finalize", "load"}
    BY <1>9 DEF AnswerEffect, AfterAdvance
  <2>2. /\ manifest.pending \in BeforePolicy \cup {"awaiting_approval"}
        /\ {"decision", "packet"} \subseteq Present(files)
    BY <1>1, <1>9 DEF Pausing, Supplied, DecidedLocs
  <2>3. Pausable(run', manifest', files') /\ Standing(run', manifest')
    BY <1>3, <1>4, <1>9, <2>1, <2>2 DEF Pausable, Standing
  <2>4. Pausing(ctx'[p], run', manifest', files')
    BY <1>3, <2>1 DEF Pausing, ActiveLocs, EarlyLocs, BeforePolicy, JudgeLocs, AskLocs,
       ApprovalLocs, FinalLocs, Launched
  <2> QED
    BY <2>3, <2>4, OnlyPausing
<1>10. CASE ctx[p].pc = "resolved"
  <2>1. /\ manifest' = manifest /\ files' = files /\ run'.stage = "approval_resolved"
        /\ \/ run'.status = "abandoned" /\ ctx'[p].pc = "deny_manifest"
           \/ run'.status = "in_progress" /\ ctx'[p].pc = "approve_manifest"
    BY <1>10 DEF AnswerEffect
  <2>2. manifest.approval # "denied"
    BY <1>1, <1>6, <1>10 DEF Going, Handling, ApprovalLocs, Unfinished, Standing
  <2>3. Pausable(run', manifest', files') /\ Standing(run', manifest')
    BY <1>1, <1>2, <1>3, <1>4, <1>10, <2>1, <2>2 DEF Pausable, Standing, Running
  <2>4. Pausing(ctx'[p], run', manifest', files')
    BY <1>2, <1>3, <1>4, <1>10, <2>1 DEF Pausing, ActiveLocs, EarlyLocs, BeforePolicy,
       JudgeLocs, AskLocs, ApprovalLocs, FinalLocs, Launched, Running
  <2> QED
    BY <2>3, <2>4, OnlyPausing
<1>11. CASE ctx[p].pc = "deny_manifest"
  <2>1. /\ run' = run /\ run.status = "abandoned" /\ manifest'.status = "abandoned"
        /\ ctx'[p].pc \in {"finalize", "load"}
    BY <1>1, <1>11 DEF AnswerEffect, Judged
  <2>2. Pausable(run', manifest', files') /\ Standing(run', manifest')
    BY <1>3, <2>1 DEF Pausable, Standing
  <2>3. Pausing(ctx'[p], run', manifest', files')
    BY <1>3, <2>1 DEF Pausing, ActiveLocs, EarlyLocs, BeforePolicy, JudgeLocs, AskLocs,
       ApprovalLocs, FinalLocs, Launched
  <2> QED
    BY <2>2, <2>3, OnlyPausing
<1>12. CASE ctx[p].pc = "approve_manifest"
  <2>1. /\ run' = run /\ manifest'.status = "in_progress" /\ manifest'.approval = "approved"
        /\ ctx'[p].pc = "runner_started"
    BY <1>12 DEF AnswerEffect
  <2>2. Pausable(run', manifest', files') /\ Standing(run', manifest')
    BY <1>3, <2>1 DEF Pausable, Standing, ActiveStatuses
  <2>3. Pausing(ctx'[p], run', manifest', files')
    BY <1>3, <2>1 DEF Pausing, ActiveStatuses, AskLocs, ApprovalLocs, FinalLocs, Launched
  <2> QED
    BY <2>2, <2>3, OnlyPausing
<1> QED
  BY <1>2, <1>7, <1>8, <1>9, <1>10, <1>11, <1>12

\* The runner keeps PauseInv.
LEMMA PauseRunner ==
    ASSUME Ready, ServeInv, DenialInv, PauseInv, OneCommand, NEW p \in Procs, RunnerEffect(p)
    PROVE  PauseInv'
<1> USE DEF OnlyFiles, OnlyRun, OnlyManifest, Comes
<1>1. /\ Placed(ctx[p]) /\ ctx[p].cmd # "verify"
      /\ Standing(run, manifest) /\ Pausing(ctx[p], run, manifest, files)
  BY Paused
<1>2. /\ ctx[p].pc \in {"runner_started", "runner_manifest", "launch", "executing",
                        "completed_manifest", "completed_run", "completed_snapshot",
                        "relapse_run", "relapse_manifest"}
      /\ run'.verification = run.verification /\ files' = files
      /\ manifest'.approval = manifest.approval
  BY DEF RunnerEffect
<1>3. run.verification # "failed"
  BY <1>1, <1>2 DEF Pausing, FailedLocs, InspectionLocs, JudgeLocs
<1>4. /\ ctx[p].pc \notin {"completed_run", "completed_snapshot"}
             => manifest.status \in ActiveStatuses
      /\ ctx[p].pc \in {"completed_run", "completed_snapshot"} =>
             /\ manifest.status \notin {"awaiting_approval", "abandoned"}
             /\ files["result"] = "completed" => manifest.status \in ActiveStatuses
  BY <1>1, <1>2 DEF Pausing, ActiveLocs
<1>5. manifest'.approval # "denied"
  BY <1>1, <1>2, <1>4 DEF Standing, ActiveStatuses
<1>6. /\ manifest'.status \notin {"awaiting_approval", "abandoned"}
      /\ ctx'[p].pc \notin {"completed_run", "completed_snapshot", "finalize", "load",
                            "verification_started"}
             => manifest'.status \in ActiveStatuses
      /\ ctx'[p].pc \in {"completed_run", "completed_snapshot", "verification_started"}
             /\ files["result"] = "completed" => manifest'.status \in ActiveStatuses
      /\ ctx'[p].pc = "verification_started" => files["result"] = "completed"
  BY <1>2, <1>4 DEF RunnerEffect, ActiveStatuses
<1>7. /\ ctx[p].pc # "relapse_run" => ctx'[p].pc # "relapse_manifest"
      /\ run'.status = "awaiting_approval" =>
             /\ manifest'.status \in ActiveStatuses
             /\ ctx'[p].pc \notin {"runner_manifest", "launch", "executing", "evidence",
                                   "completed_manifest", "completed_snapshot",
                                   "relapse_manifest", "finalize"}
  BY <1>1, <1>2, <1>4 DEF RunnerEffect, Pausing, Launched, ActiveStatuses
<1>8. Pausable(run', manifest', files') /\ Standing(run', manifest')
  BY <1>2, <1>3, <1>5, <1>6, <1>7 DEF Pausable, Standing
<1>9. /\ ctx'[p].pc \in {"runner_manifest", "launch", "executing", "evidence",
                         "completed_run", "completed_snapshot", "relapse_manifest",
                         "finalize", "load", "verification_started"}
      /\ ctx'[p].cmd = ctx[p].cmd
  BY DEF RunnerEffect
<1>10. Pausing(ctx'[p], run', manifest', files')
  BY <1>2, <1>3, <1>6, <1>7, <1>9 DEF Pausing, ActiveLocs, EarlyLocs, BeforePolicy,
     JudgeLocs, AskLocs, ApprovalLocs, FinalLocs, Launched
<1> QED
  BY <1>8, <1>10, OnlyPausing

\* The evidence of an execution keeps PauseInv.
LEMMA PauseEvidence ==
    ASSUME Ready, ServeInv, DenialInv, PauseInv, OneCommand, NEW p \in Procs,
           EvidenceEffect(p)
    PROVE  PauseInv'
<1>1. /\ TypeInv /\ ApprovalInv /\ SupplyInv /\ Placed(ctx[p]) /\ ctx[p].cmd # "verify"
      /\ Pausable(run, manifest, files) /\ Standing(run, manifest)
      /\ Pausing(ctx[p], run, manifest, files)
  BY Paused
<1>2. /\ run' = run /\ manifest' = manifest /\ ctx[p].pc = "evidence"
      /\ ctx'[p].executed = ctx[p].executed /\ ctx'[p].cmd = ctx[p].cmd
      /\ ctx'[p].pc \in {"evidence", "completed_manifest", "blocked_snapshot",
                         "verification_started", "relapse_run"}
      /\ ctx'[p].pc = "completed_manifest" => ctx[p].executed
      /\ ctx'[p].pc \in {"verification_started", "relapse_run"} => ctx[p].cmd # "run"
  BY DEF EvidenceEffect, EvidenceOf, Comes, Fresh
<1>3. ctx[p].cmd # "run" => ctx[p].executed
  <2>1. ctx[p].cmd \in {"none", "run", "status", "resume", "verify"}
    BY <1>1, RunTypes DEF Contexts
  <2> QED
    BY <1>1, <1>2, <2>1 DEF Placed, InspectionLocs
<1>4. /\ ctx[p].executed =>
             manifest.status \in ActiveStatuses /\ run.status # "awaiting_approval"
      /\ run.status = "awaiting_approval" => manifest.status = "awaiting_approval"
      /\ run.verification # "failed"
  BY <1>1, <1>2 DEF Pausing, Launched, FailedLocs, InspectionLocs, JudgeLocs
<1>5. Present(files) \subseteq Present(files')
  BY <1>1, ArtifactsRemain DEF Effect
<1>6. Pausable(run', manifest', files') /\ Standing(run', manifest')
  BY <1>1, <1>2, <1>5 DEF Pausable
<1>7. Pausing(ctx'[p], run', manifest', files')
  BY <1>2, <1>3, <1>4 DEF Pausing, ActiveLocs, EarlyLocs, BeforePolicy, JudgeLocs, AskLocs,
     ApprovalLocs, FinalLocs, Launched
<1> QED
  BY <1>6, <1>7, OnlyPausing

\* Verification keeps PauseInv.
LEMMA PauseVerdict ==
    ASSUME Ready, ServeInv, DenialInv, PauseInv, OneCommand, NEW p \in Procs, VerdictEffect(p)
    PROVE  PauseInv'
<1> USE DEF OnlyFiles, OnlyRun, OnlyManifest, Comes
<1>1. /\ Placed(ctx[p]) /\ ctx[p].cmd # "verify"
      /\ Standing(run, manifest) /\ Pausing(ctx[p], run, manifest, files)
      /\ Agreeing(ctx[p], run, manifest, files, torn)
  BY Paused
<1>2. /\ ctx[p].pc \in JudgeLocs /\ manifest'.approval = manifest.approval
      /\ ctx'[p].cmd = ctx[p].cmd /\ ctx'[p].executed = ctx[p].executed
      /\ ctx'[p].pc \in {"verify_manifest", "verifying", "verdict_run", "verdict_manifest",
                         "finalize", "load"}
      /\ ctx'[p].pc = "finalize" => ctx[p].cmd = "run"
  BY <1>1 DEF VerdictEffect, JudgeLocs, AfterAdvance, Fresh
<1>3. manifest.status \in ActiveStatuses /\ manifest.approval # "denied"
  BY <1>1, <1>2 DEF Pausing, ActiveLocs, Standing, ActiveStatuses
<1>4. ctx'[p].pc = "finalize" => ctx'[p].executed
  BY <1>1, <1>2 DEF Placed
<1>5. CASE ctx[p].pc # "verdict_manifest"
  <2>1. /\ manifest'.status \in ActiveStatuses
        /\ ctx'[p].pc \in JudgeLocs \ {"verification_started"}
        /\ \/ run' = run
           \/ run'.stage \in VerdictStages /\ run'.status # "awaiting_approval"
    BY <1>1, <1>3, <1>5 DEF VerdictEffect, VerdictStages, JudgeLocs, ActiveStatuses
  <2>2. Pausable(run', manifest', files') /\ Standing(run', manifest')
    BY <1>1, <1>2, <1>3, <2>1 DEF Pausable, Standing, ActiveStatuses
  <2>3. Pausing(ctx'[p], run', manifest', files')
    BY <2>1 DEF Pausing, JudgeLocs, AskLocs, ApprovalLocs, FinalLocs, Launched, FailedLocs,
       Admitted
  <2> QED
    BY <2>2, <2>3, OnlyPausing
<1>6. CASE ctx[p].pc = "verdict_manifest"
  <2>1. /\ run' = run /\ run.status \in {"completed", "failed"}
        /\ manifest'.status \in {"completed", "failed"}
        /\ manifest'.stage = "verification_completed"
        /\ ctx'[p].pc \in {"finalize", "load"}
    BY <1>1, <1>6 DEF VerdictEffect, Agreeing, AfterAdvance
  <2>2. Pausable(run', manifest', files') /\ Standing(run', manifest')
    BY <1>1, <1>2, <1>3, <2>1 DEF Pausable, Standing, VerdictStages
  <2>3. Pausing(ctx'[p], run', manifest', files')
    BY <1>4, <2>1 DEF Pausing, ActiveLocs, EarlyLocs, BeforePolicy, JudgeLocs, AskLocs,
       ApprovalLocs, FinalLocs, Launched, FailedLocs, InspectionLocs, Admitted
  <2> QED
    BY <2>2, <2>3, OnlyPausing
<1> QED
  BY <1>5, <1>6

\* The end of a fresh run keeps PauseInv.
LEMMA PauseFinal ==
    ASSUME Ready, ServeInv, DenialInv, PauseInv, OneCommand, NEW p \in Procs, FinalEffect(p)
    PROVE  PauseInv'
<1> USE DEF OnlyFiles, OnlyRun, OnlyManifest, Comes
<1>1. /\ Pausable(run, manifest, files) /\ Standing(run, manifest)
      /\ Pausing(ctx[p], run, manifest, files)
      /\ Agreeing(ctx[p], run, manifest, files, torn)
  BY Paused
<1>2. /\ ctx[p].pc \in FinalLocs /\ files' = files
      /\ run'.status = run.status /\ run'.stage = run.stage
      /\ run'.verification = run.verification
      /\ manifest'.stage = manifest.stage /\ manifest'.pending = manifest.pending
      /\ manifest'.approval = manifest.approval
      /\ \/ manifest'.status = manifest.status
         \/ manifest'.status = run.status /\ ctx'[p] = Idle
      /\ \/ ctx'[p] = Idle
         \/ ctx'[p].pc \in {"final_run", "final_manifest"} /\ manifest'.status = manifest.status
         \/ /\ ctx'[p].pc = "evidence" /\ ~ctx'[p].executed
            /\ ctx[p].pc = "finalize" /\ ~ctx[p].executed
            /\ manifest'.status = manifest.status
  BY DEF FinalEffect, FinalLocs
<1>3. /\ run.status = "awaiting_approval" => manifest.status = "awaiting_approval"
      /\ run.verification = "failed" =>
             /\ ctx[p].pc # "blocked_snapshot"
             /\ ctx[p].pc = "finalize" => ctx[p].executed
             /\ manifest.stage \in VerdictStages
  BY <1>1, <1>2 DEF Pausing, FailedLocs, InspectionLocs, JudgeLocs, Standing, Agreeing, Ending,
     SamePlace
<1>4. Pausable(run', manifest', files') /\ Standing(run', manifest')
  BY <1>1, <1>2, <1>3 DEF Pausable, Standing
<1>5. Pausing(ctx'[p], run', manifest', files')
  <2>1. CASE ctx'[p] = Idle
    BY <2>1, IdlePausing
  <2>2. CASE ctx'[p] # Idle
    BY <1>2, <1>3, <2>2 DEF Pausing, ActiveLocs, EarlyLocs, BeforePolicy, JudgeLocs, AskLocs,
       ApprovalLocs, FinalLocs, Launched, FailedLocs, Admitted
  <2> QED
    BY <2>1, <2>2
<1> QED
  BY <1>4, <1>5, OnlyPausing

\* The beginning and the end of a command keep PauseInv.
LEMMA PauseEntry ==
    ASSUME Ready, ServeInv, DenialInv, PauseInv, OneCommand, "verify" \notin Commands,
           NEW p \in Procs, CreateEffect(p) \/ EntryEffect(p)
    PROVE  PauseInv'
<1>1. /\ Placed(ctx[p]) /\ ctx[p].cmd # "verify" /\ TypeInv
      /\ Pausable(run, manifest, files) /\ Standing(run, manifest)
      /\ Pausing(ctx[p], run, manifest, files)
  BY Paused
<1>2. ctx[p].pc # "verify_load"
  <2>1. ctx[p].cmd \in {"none", "run", "status", "resume", "verify"}
    BY <1>1, RunTypes DEF Contexts
  <2> QED
    BY <1>1, <2>1 DEF Placed, InspectionLocs
<1>3. CASE CreateEffect(p)
  <2>1. /\ run'.status = "created" /\ run'.verification = "not_run"
        /\ manifest'.status = "absent" /\ manifest'.approval = "not_required"
        /\ ctx'[p].pc = "create_manifest"
    BY <1>3 DEF CreateEffect, NoManifest
  <2>2. Pausable(run', manifest', files') /\ Standing(run', manifest')
    BY <2>1 DEF Pausable, Standing
  <2>3. Pausing(ctx'[p], run', manifest', files')
    BY <2>1 DEF Pausing, ActiveLocs, EarlyLocs, BeforePolicy, JudgeLocs, AskLocs,
       ApprovalLocs, FinalLocs, Launched
  <2> QED
    BY <2>2, <2>3, OnlyPausing
<1>4. CASE EntryEffect(p)
  <2>1. run' = run /\ manifest' = manifest /\ files' = files
    BY <1>4 DEF EntryEffect, OnlyMemory, OnlyFiles
  <2>2. Pausable(run', manifest', files') /\ Standing(run', manifest')
    BY <1>1, <2>1
  <2>3. \/ ctx'[p] = Idle
        \/ ctx'[p].pc \in {"load", "interrupt"}
        \/ /\ ctx'[p].pc = "inspect" /\ ctx'[p].manifest = manifest
           /\ manifest.status \notin ActiveStatuses
    BY <1>2, <1>4 DEF EntryEffect, Comes
  <2>4. CASE ctx'[p] = Idle
    BY <2>2, <2>4, IdlePausing, OnlyPausing
  <2>5. CASE ctx'[p].pc \in {"load", "interrupt"}
    <3>1. Pausing(ctx'[p], run', manifest', files')
      BY <2>5 DEF Pausing, ActiveLocs, EarlyLocs, BeforePolicy, JudgeLocs, AskLocs,
         ApprovalLocs, FinalLocs, Launched, FailedLocs, InspectionLocs, Admitted
    <3> QED
      BY <2>2, <3>1, OnlyPausing
  <2>6. CASE /\ ctx'[p].pc = "inspect" /\ ctx'[p].manifest = manifest
             /\ manifest.status \notin ActiveStatuses
    <3>1. run.verification = "failed" => manifest.stage \in VerdictStages
      BY <1>1, <2>6 DEF Standing
    <3>2. Pausing(ctx'[p], run', manifest', files')
      BY <2>1, <2>6, <3>1 DEF Pausing, ActiveLocs, EarlyLocs, BeforePolicy, JudgeLocs,
         AskLocs, ApprovalLocs, FinalLocs, Launched, FailedLocs, InspectionLocs, Admitted
    <3> QED
      BY <2>2, <3>2, OnlyPausing
  <2> QED
    BY <2>3, <2>4, <2>5, <2>6
<1> QED
  BY <1>3, <1>4

\* What a waiting run awaits is the next stage.
LEMMA NextIsPausable ==
    ASSUME NEW r, NEW m, NEW f, Pausable(r, m, f), m.status = "awaiting_approval"
    PROVE  /\ DetermineNextStage(r, m, f) = m.pending
           /\ m.pending # NoStage
<1>1. /\ r.stage \notin Running /\ m.stage \notin Running
      /\ m.pending \in BeforePolicy \cup {"awaiting_approval"}
  BY DEF Pausable
<1> QED
  BY <1>1 DEF DetermineNextStage, Running, BeforePolicy, NoStage

\* A verification that failed is repeated or nothing is.
LEMMA NextAfterFailure ==
    ASSUME NEW r, NEW m, NEW f, NEW onDisk, NEW h, Led(r, m, f),
           r.verification = "failed", r.stage \in VerdictStages, m.stage \in VerdictStages,
           Eligible(r, m, f, onDisk, h)
    PROVE  DetermineNextStage(r, m, f) = "verification_started"
<1>1. m.pending = "verification_started"
  BY DEF Eligible
<1>2. HasRunnerEvidence(f)
  BY <1>1 DEF Led, Evidenced
<1> QED
  BY <1>1, <1>2 DEF DetermineNextStage, VerdictStages, NoStage

\* Inspections and the beginning of a resume keep PauseInv.
LEMMA PauseInspection ==
    ASSUME Ready, ServeInv, DenialInv, PauseInv, ApprovalInv', OneCommand,
           NEW p \in Procs, InspectEffect(p)
    PROVE  PauseInv'
<1> USE DEF OnlyRun, OnlyManifest, Comes
<1>1. /\ TypeInv /\ ApprovalInv /\ SupplyInv /\ ctx[p].cmd # "verify"
      /\ Pausable(run, manifest, files) /\ Standing(run, manifest)
      /\ Pausing(ctx[p], run, manifest, files) /\ Undenied(ctx[p], manifest)
      /\ Going(ctx[p], run, manifest, files) /\ Leading(ctx[p], run, manifest, files)
      /\ InPlace(ctx[p], run, manifest, files)
      /\ Agreeing(ctx[p], run, manifest, files, torn)
  BY Paused
<1>2. files' = files /\ run'.verification = run.verification
  BY DEF InspectEffect
<1>3. /\ "awaiting_approval" \notin ActiveStatuses /\ "resuming" \in ActiveStatuses
      /\ "abandoned" \notin ActiveStatuses
  BY DEF ActiveStatuses
<1>4. CASE ctx[p].pc = "interrupt"
  <2>1. /\ run'.status = "interrupted" /\ run'.stage = run.stage /\ manifest' = manifest
        /\ ctx'[p].pc = "inspect" /\ ctx'[p].manifest.status = "interrupted"
        /\ ctx'[p].manifest.stage = run.stage
    BY <1>4 DEF InspectEffect
  <2>2. manifest.status \in ActiveStatuses
    BY <1>1, <1>4 DEF Going
  <2>3. Pausable(run', manifest', files') /\ Standing(run', manifest')
    BY <1>1, <1>2, <1>3, <2>1, <2>2 DEF Pausable, Standing
  <2>4. run'.verification = "failed" => ctx'[p].manifest.stage \in VerdictStages
    BY <1>1, <1>2, <2>1 DEF Standing
  <2>5. Pausing(ctx'[p], run', manifest', files')
    BY <2>1, <2>4 DEF Pausing, ActiveLocs, EarlyLocs, BeforePolicy, JudgeLocs, AskLocs,
       ApprovalLocs, FinalLocs, Launched, FailedLocs, InspectionLocs, Admitted
  <2> QED
    BY <2>3, <2>5, OnlyPausing
<1>5. CASE ctx[p].pc = "inspect"
  <2> DEFINE m    == ctx[p].manifest
             next == DetermineNextStage(run, m, files)
             ok   == Eligible(run, m, files, Present(files), head)
  <2>1. /\ run'.status = InspectedStatus(run, m, ok) /\ run'.stage = run.stage
        /\ manifest' = manifest /\ ctx'[p].pc = "inspect_manifest"
        /\ ctx'[p].manifest = m /\ ctx'[p].next = next /\ ctx'[p].eligible = ok
    BY <1>5 DEF InspectEffect
  <2>2. /\ manifest.status \in ActiveStatuses =>
               run.status = "interrupted" /\ m.status = "interrupted"
        /\ manifest.status \notin ActiveStatuses => m = manifest
        /\ m.approval = manifest.approval /\ Led(run, m, files)
        /\ run.verification = "failed" => m.stage \in VerdictStages
    BY <1>1, <1>5 DEF Pausing, Going, Undenied, Leading
  <2>3. ok => m.approval # "denied"
    BY DEF Eligible
  <2>4. ok /\ run.verification = "failed" => next = "verification_started"
    BY <1>1, <2>2, NextAfterFailure DEF Standing
  <2>5. manifest.status = "awaiting_approval" => next = manifest.pending
    BY <1>1, <1>3, <2>2, NextIsPausable
  <2> HIDE DEF next, ok
  <2>6. run'.status = "awaiting_approval" => manifest.status = "awaiting_approval"
    BY <1>1, <1>3, <2>1, <2>2 DEF InspectedStatus, Standing
  <2>7. run.status = "abandoned" /\ manifest.status = "abandoned" /\ ~ok
            => run'.status = "abandoned"
    BY <1>3, <2>1, <2>2 DEF InspectedStatus
  <2>8. Pausable(run', manifest', files')
    BY <1>1, <1>2, <2>1 DEF Pausable
  <2>9. Standing(run', manifest')
    BY <1>1, <1>2, <2>1, <2>2, <2>3, <2>6, <2>7 DEF Standing
  <2>10. ctx'[p].run = run'
    <3>1. InStep(ctx'[p], run', manifest', files')
      BY DEF ApprovalInv
    <3> QED
      BY <2>1, <3>1 DEF InStep, UnloadedLocs
  <2>11. run'.status = "awaiting_approval" =>
             Pausable(run', InspectedManifest(ctx'[p]), files')
    BY <1>1, <1>2, <2>1, <2>5, <2>6, <2>10 DEF Pausable, InspectedManifest, Moved
  <2>12. /\ run'.verification = "failed" /\ Admitted(ctx'[p])
                => ctx'[p].next = "verification_started"
    BY <1>2, <2>1, <2>4 DEF Admitted
  <2> HIDE DEF m
  <2>13. Pausing(ctx'[p], run', manifest', files')
    BY <2>1, <2>11, <2>12 DEF Pausing, ActiveLocs, EarlyLocs, BeforePolicy, JudgeLocs,
       AskLocs, ApprovalLocs, FinalLocs, Launched, FailedLocs, InspectionLocs
  <2> QED
    BY <2>8, <2>9, <2>13, OnlyPausing
<1>6. CASE ctx[p].pc = "inspect_manifest"
  <2>1. /\ run' = run /\ manifest'.status = run.status /\ manifest'.stage = run.stage
        /\ manifest'.pending = ctx[p].next
        /\ manifest'.approval = ctx[p].manifest.approval
        /\ \/ ctx'[p] = Idle
           \/ /\ ctx'[p].pc = "resume_run" /\ ctx'[p].next = ctx[p].next
              /\ ctx[p].eligible
    BY <1>6 DEF InspectEffect
  <2>2. ctx[p].run = run /\ ctx[p].manifest \in Manifests
    BY <1>1, <1>6, RunTypes, OnDisk DEF UnloadedLocs
  <2>3. Pausable(run', manifest', files')
    <3>1. CASE run.status = "awaiting_approval"
      <4>1. Pausable(run, InspectedManifest(ctx[p]), files)
        BY <1>1, <1>6, <3>1 DEF Pausing
      <4>2. /\ InspectedManifest(ctx[p]).status = run.status
            /\ InspectedManifest(ctx[p]).stage = run.stage
            /\ InspectedManifest(ctx[p]).pending = ctx[p].next
        BY <2>2, MovedFields DEF InspectedManifest
      <4> QED
        BY <1>2, <2>1, <4>1, <4>2 DEF Pausable
    <3>2. CASE run.status # "awaiting_approval"
      BY <2>1, <3>2 DEF Pausable
    <3> QED
      BY <3>1, <3>2
  <2>4. manifest'.approval = manifest.approval
    BY <1>1, <1>6, <2>1 DEF Undenied
  <2>5. Standing(run', manifest')
    BY <1>1, <1>2, <2>1, <2>4 DEF Standing
  <2>6. CASE ctx'[p] = Idle
    BY <2>3, <2>5, <2>6, IdlePausing, OnlyPausing
  <2>7. CASE /\ ctx'[p].pc = "resume_run" /\ ctx'[p].next = ctx[p].next
             /\ ctx[p].eligible
    <3>1. run.verification = "failed" => ctx[p].next = "verification_started"
      BY <1>1, <1>6, <2>7 DEF Pausing, Admitted
    <3>2. Pausing(ctx'[p], run', manifest', files')
      BY <2>1, <2>7, <3>1 DEF Pausing, ActiveLocs, EarlyLocs, BeforePolicy, JudgeLocs,
         AskLocs, ApprovalLocs, FinalLocs, Launched, FailedLocs, InspectionLocs
    <3> QED
      BY <2>3, <2>5, <3>2, OnlyPausing
  <2> QED
    BY <2>1, <2>6, <2>7
<1>7. CASE ctx[p].pc = "resume_run"
  <2>1. /\ run'.status = "resuming" /\ run'.stage = ctx[p].next /\ manifest' = manifest
        /\ ctx'[p].pc = "resume_manifest" /\ ctx'[p].next = ctx[p].next
    BY <1>7 DEF InspectEffect
  <2>2. /\ manifest.pending = ctx[p].next /\ run.status \notin ClosedStatuses
        /\ run.verification = "failed" => ctx[p].next = "verification_started"
    BY <1>1, <1>7 DEF InPlace, Going, Admitted, Pausing
  <2>3. Pausable(run', manifest', files')
    BY <1>1, <1>2, <2>1, <2>2 DEF Pausable, Running, BeforePolicy
  <2>4. Standing(run', manifest')
    BY <1>1, <1>2, <2>1, <2>2 DEF Standing, ClosedStatuses, VerdictStages
  <2>5. Pausing(ctx'[p], run', manifest', files')
    BY <1>2, <2>1, <2>2 DEF Pausing, ActiveLocs, EarlyLocs, BeforePolicy, JudgeLocs,
       AskLocs, ApprovalLocs, FinalLocs, Launched, FailedLocs, InspectionLocs
  <2> QED
    BY <2>3, <2>4, <2>5, OnlyPausing
<1>8. CASE ctx[p].pc = "resume_manifest"
  <2>1. /\ run' = run /\ manifest'.status = "resuming" /\ manifest'.stage = ctx[p].next
        /\ manifest'.pending = ctx[p].next /\ manifest'.approval = manifest.approval
        /\ ctx'[p].pc = IF ctx[p].next \in HandledStages THEN ctx[p].next ELSE "unsupported"
        /\ ctx'[p].cmd = ctx[p].cmd
    BY <1>8 DEF InspectEffect
  <2>2. /\ ctx[p].cmd = "resume" /\ run.stage = ctx[p].next
        /\ run.status \notin ClosedStatuses
        /\ run.verification = "failed" => ctx[p].next = "verification_started"
    BY <1>1, <1>8 DEF InPlace, Going, Admitted, Pausing
  <2>3. manifest'.approval # "denied"
    BY <1>1, <2>1, <2>2 DEF Standing, ClosedStatuses
  <2>4. Pausable(run', manifest', files') /\ Standing(run', manifest')
    BY <1>1, <1>3, <2>1, <2>2, <2>3 DEF Pausable, Standing
  <2>5. Pausing(ctx'[p], run', manifest', files')
    BY <1>3, <2>1, <2>2 DEF Pausing, ActiveLocs, EarlyLocs, BeforePolicy, JudgeLocs,
       AskLocs, ApprovalLocs, FinalLocs, Launched, FailedLocs, InspectionLocs, Admitted,
       HandledStages, Running
  <2> QED
    BY <2>4, <2>5, OnlyPausing
<1> QED
  BY <1>4, <1>5, <1>6, <1>7, <1>8 DEF InspectEffect

\* PauseInv holds initially.
LEMMA PauseInit == Init => PauseInv
BY IdlePausing DEF Init, PauseInv, Pausable, Standing, NoManifest, NoRun, Pausing, Idle,
   ActiveLocs, FailedLocs, FinalLocs, AskLocs, ApprovalLocs, EarlyLocs, BeforePolicy,
   JudgeLocs, Launched, Admitted

\* Every step keeps PauseInv.
LEMMA PauseStep ==
    ASSUME OneCommand, "verify" \notin Commands
    PROVE  Ready /\ ServeInv /\ DenialInv /\ PauseInv /\ [Next]_vars => PauseInv'
<1> SUFFICES ASSUME Ready, ServeInv, DenialInv, PauseInv, ApprovalInv', [Next]_vars
             PROVE  PauseInv'
  BY BaseHolds DEF Ready, Base
<1>1. CASE Unseen
  BY <1>1 DEF Unseen, OnlyFiles, PauseInv
<1>2. ASSUME NEW p \in Procs, Effect(p)
      PROVE  PauseInv'
  BY <1>2, PauseSpec, PausePolicy, PauseAnswer, PauseRunner, PauseEvidence, PauseVerdict,
     PauseFinal, PauseEntry, PauseInspection DEF Effect
<1> QED
  BY <1>1, <1>2, Effects DEF Ready, Base

\* While commands are given one at a time and none of them is `gdh verify`, a run
\* whose manifest waits for the human can be taken up again as long as HEAD stays
\* where the manifest saw it: no death between two writes and no inspection or
\* resume costs it an artifact, a stage or its standing.
THEOREM PauseIsResumable ==
    ASSUME OneCommand, "verify" \notin Commands
    PROVE  Spec => []PausedRunIsResumable
<1> DEFINE Inv == Ready /\ ServeInv /\ DenialInv /\ PauseInv
<1>1. Init => Inv
  BY ReadyHolds, BaseHolds, ServeInit, DenialInit, PauseInit
<1>2. Inv /\ [Next]_vars => Inv'
  BY ReadyHolds, ServeStep, DenialStep, PauseStep DEF Ready
<1>3. Inv => PausedRunIsResumable
  <2> SUFFICES ASSUME Ready, ServeInv, DenialInv, PauseInv,
                      manifest.status = "awaiting_approval", manifest.head = head
               PROVE  Eligible(run, manifest, files, Present(files), head)
    BY DEF PausedRunIsResumable
  <2> DEFINE next == DetermineNextStage(run, manifest, files)
  <2>1. Pausable(run, manifest, files) /\ Standing(run, manifest) /\ Ordered(files)
    BY DEF PauseInv, Ready, Base, SupplyInv
  <2>2. next = manifest.pending /\ manifest.pending # NoStage
    BY <2>1, NextIsPausable
  <2>3. /\ manifest.pending \in BeforePolicy \cup {"awaiting_approval"}
        /\ {"spec", "plan", "decision", "packet"} \subseteq Present(files)
    BY <2>1 DEF Pausable, Ordered, Present
  <2>4. RequiredArtifacts(manifest.pending, manifest) \subseteq Present(files)
    BY <2>3 DEF RequiredArtifacts, BeforePolicy
  <2>5. manifest.approval # "denied" /\ run.verification # "failed"
    BY <2>1 DEF Standing
  <2> HIDE DEF next
  <2> QED
    BY <2>2, <2>4, <2>5 DEF Eligible, ContinuityHolds, next
<1> QED
  BY <1>1, <1>2, <1>3, PTL DEF Spec

=============================================================================
