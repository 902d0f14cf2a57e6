--------------------------- MODULE ApprovalProofs ---------------------------
(***************************************************************************)
(* A prompted run never reaches its runner unapproved, as long as commands *)
(* are given one at a time: for every set of packets and commands, every   *)
(* number of moves of HEAD, and a process killed between any two writes.   *)
(***************************************************************************)
EXTENDS RunLifecycleProofs

USE DEF NoStage

\* A context after a write, or a step that writes nothing, that leads to `loc`.
RunSet(c, r, loc) == [c EXCEPT !.run = r, !.pc = loc]
ManifestSet(c, m, loc) == [c EXCEPT !.manifest = m, !.pc = loc]
MemSet(c, new, loc) == [c EXCEPT !.mem = Overlay(new, c.mem), !.pc = loc]
PcSet(c, loc) == [c EXCEPT !.pc = loc]

\* A step of the only process keeps ApprovalInv if its new context fits what it
\* leaves on disk.
LEMMA OnlyStep ==
    ASSUME TypeInv, OneCommand, NEW p \in Procs, NEW c,
           ctx' = [ctx EXCEPT ![p] = c], run'.status # "absent",
           Gated(run', manifest', files'),
           InStep(c, run', manifest', files'), InPlace(c, run', manifest', files')
    PROVE  ApprovalInv'
BY DEF OneCommand, ApprovalInv, Unborn, TypeInv, TypeOK

\* What a process that is somewhere knows.
LEMMA Somewhere ==
    ASSUME TypeInv, ApprovalInv, NEW p \in Procs
    PROVE  /\ ctx[p] \in Contexts /\ ctx \in [Procs -> Contexts]
           /\ run \in RunRecords /\ manifest \in Manifests /\ files \in FileSets
           /\ InStep(ctx[p], run, manifest, files)
           /\ InPlace(ctx[p], run, manifest, files)
           /\ Gated(run, manifest, files)
           /\ ctx[p].pc # "idle" => run.status # "absent"
BY DEF ApprovalInv, Unborn, Idle, TypeInv, TypeOK

\* WriteRun by the only process.
LEMMA OnlyWriteRun ==
    ASSUME TypeInv, ApprovalInv, OneCommand, NEW p \in Procs, NEW r, NEW loc,
           loc \notin UnloadedLocs, ctx[p].pc \notin UnloadedLocs \cup DetachedLocs,
           WriteRun(p, r, loc), r.status # "absent", Gated(r, manifest, files),
           InPlace(RunSet(ctx[p], r, loc), r, manifest, files)
    PROVE  ApprovalInv'
<1> DEFINE c == RunSet(ctx[p], r, loc)
<1>1. ctx' = [ctx EXCEPT ![p] = c]
  BY Somewhere DEF WriteRun, RunSet
<1>2. InStep(c, r, manifest, files)
  BY Somewhere DEF RunSet, InStep, Contexts
<1> QED
  BY <1>1, <1>2, OnlyStep DEF WriteRun

\* WriteManifest by the only process.
LEMMA OnlyWriteManifest ==
    ASSUME TypeInv, ApprovalInv, OneCommand, NEW p \in Procs, NEW m, NEW loc,
           loc \notin DetachedLocs, ctx[p].pc \notin UnloadedLocs,
           WriteManifest(p, m, loc), Gated(run, m, files),
           InPlace(ManifestSet(ctx[p], m, loc), run, m, files)
    PROVE  ApprovalInv'
<1> DEFINE c == ManifestSet(ctx[p], m, loc)
<1>1. ctx' = [ctx EXCEPT ![p] = c]
  BY Somewhere DEF WriteManifest, ManifestSet
<1>2. InStep(c, run, m, files)
  BY Somewhere DEF ManifestSet, InStep, Contexts
<1>3. run.status # "absent"
  BY Somewhere DEF UnloadedLocs
<1> QED
  BY <1>1, <1>2, <1>3, OnlyStep DEF WriteManifest

\* WriteFiles by the only process.
LEMMA OnlyWriteFiles ==
    ASSUME TypeInv, ApprovalInv, OneCommand, NEW p \in Procs, NEW new, NEW loc,
           loc \notin UnloadedLocs \cup DetachedLocs,
           ctx[p].pc \notin UnloadedLocs \cup DetachedLocs,
           WriteFiles(p, new, loc), Gated(run, manifest, Overlay(new, files)),
           InPlace(MemSet(ctx[p], new, loc), run, manifest, Overlay(new, files))
    PROVE  ApprovalInv'
<1> DEFINE c == MemSet(ctx[p], new, loc)
<1>1. ctx' = [ctx EXCEPT ![p] = c]
  BY Somewhere DEF WriteFiles, MemSet
<1>2. InStep(c, run, manifest, Overlay(new, files))
  BY Somewhere DEF MemSet, InStep, Contexts, Overlay, Artifacts
<1>3. run.status # "absent"
  BY Somewhere DEF UnloadedLocs
<1> QED
  BY <1>1, <1>2, <1>3, OnlyStep DEF WriteFiles

\* GoTo by the only process.
LEMMA OnlyGoTo ==
    ASSUME TypeInv, ApprovalInv, OneCommand, NEW p \in Procs, NEW loc,
           loc \notin UnloadedLocs \cup DetachedLocs,
           ctx[p].pc \notin UnloadedLocs \cup DetachedLocs, GoTo(p, loc),
           InPlace(PcSet(ctx[p], loc), run, manifest, files)
    PROVE  ApprovalInv'
<1> DEFINE c == PcSet(ctx[p], loc)
<1>1. ctx' = [ctx EXCEPT ![p] = c]
  BY Somewhere DEF GoTo, PcSet
<1>2. InStep(c, run, manifest, files)
  BY Somewhere DEF PcSet, InStep, Contexts
<1>3. run.status # "absent"
  BY Somewhere DEF UnloadedLocs
<1> QED
  BY <1>1, <1>2, <1>3, Somewhere, OnlyStep DEF GoTo

\* The only process ends, or is killed.
LEMMA OnlyEnd ==
    ASSUME TypeInv, ApprovalInv, OneCommand, NEW p \in Procs,
           ctx' = [ctx EXCEPT ![p] = Idle], run' = run, run.status # "absent",
           Gated(run, manifest', files), files' = files
    PROVE  ApprovalInv'
<1>1. InStep(Idle, run, manifest', files) /\ InPlace(Idle, run, manifest', files)
  BY DEF InStep, InPlace, Idle, UnloadedLocs, EarlyLocs, BeforePolicy, ApprovalLocs,
         RunnerLocs
<1> QED
  BY <1>1, OnlyStep

-----------------------------------------------------------------------------

\* The handlers of the spec and of the plan keep ApprovalInv.
LEMMA ApprovalSpec ==
    ASSUME TypeInv, ApprovalInv, OneCommand, NEW p \in Procs
    PROVE  /\ CreateManifest(p) => ApprovalInv'
           /\ NormalizeSpec(p) => ApprovalInv'
           /\ SpecRun(p) => ApprovalInv'
           /\ SpecManifest(p) => ApprovalInv'
           /\ CreatePlan(p) => ApprovalInv'
           /\ PlanRun(p) => ApprovalInv'
           /\ PlanManifest(p) => ApprovalInv'
<1> USE DEF UnloadedLocs, DetachedLocs, EarlyLocs, ApprovalLocs, RunnerLocs,
            BeforePolicy, Running, AfterApproval, At
<1>1. CASE CreateManifest(p)
  <2> DEFINE m == ctx[p].manifest
  <2>1. Gated(run, m, files) /\ Early(run, m) /\ m.pending \in BeforePolicy
    BY <1>1, Somewhere
       DEF Gated, Coherent, Early, InPlace, InStep, CreateManifest, Moved, Manifests
  <2> HIDE DEF m
  <2>2. InPlace(ManifestSet(ctx[p], m, "spec_normalized"), run, m, files)
    BY <2>1, Somewhere DEF ManifestSet, InPlace, Contexts, Early
  <2> QED
    BY <1>1, <2>1, <2>2, OnlyWriteManifest DEF m, CreateManifest
<1>2. CASE NormalizeSpec(p)
  <2> DEFINE new == [spec |-> "present"]
             loc == IF Fresh(p) THEN "spec_run" ELSE "plan_created"
  <2>1. /\ Gated(run, manifest, Overlay(new, files))
        /\ Early(run, manifest)
        /\ ctx[p].cmd # "run" => manifest.pending \in BeforePolicy
    BY <1>2, Somewhere
       DEF Gated, Coherent, Early, InPlace, InStep, NormalizeSpec, Overlay,
           Artifacts
  <2>2. InPlace(MemSet(ctx[p], new, loc), run, manifest, Overlay(new, files))
    BY <1>2, <2>1, Somewhere
       DEF MemSet, InPlace, Contexts, Early, NormalizeSpec, Fresh
  <2> QED
    BY <1>2, <2>1, <2>2, OnlyWriteFiles DEF NormalizeSpec
<1>3. CASE SpecRun(p)
  <2> DEFINE r == Moved(ctx[p].run, "planning", "spec_normalized", "plan_created")
  <2>1. Gated(r, manifest, files) /\ r.status # "absent" /\ Early(r, manifest)
    BY <1>3, Somewhere
       DEF Gated, Coherent, Early, InPlace, InStep, SpecRun, Moved, RunRecords
  <2> HIDE DEF r
  <2>2. InPlace(RunSet(ctx[p], r, "spec_manifest"), r, manifest, files)
    BY <2>1, Somewhere DEF RunSet, InPlace, Contexts, Early
  <2> QED
    BY <1>3, <2>1, <2>2, OnlyWriteRun DEF r, SpecRun
<1>4. CASE SpecManifest(p)
  <2> DEFINE m == Checkpointed(Moved(ctx[p].manifest, ctx[p].manifest.status,
                                     "spec_normalized", "plan_created"), "spec_normalized")
  <2>1. Gated(run, m, files) /\ Early(run, m) /\ m.pending \in BeforePolicy
    BY <1>4, Somewhere
       DEF Gated, Coherent, Early, InPlace, InStep, SpecManifest, Moved, Manifests,
           Checkpointed
  <2> HIDE DEF m
  <2>2. InPlace(ManifestSet(ctx[p], m, "plan_created"), run, m, files)
    BY <2>1, Somewhere DEF ManifestSet, InPlace, Contexts, Early
  <2> QED
    BY <1>4, <2>1, <2>2, OnlyWriteManifest DEF m, SpecManifest
<1>5. CASE CreatePlan(p)
  <2> DEFINE new == [plan |-> "present"]
             loc == IF Fresh(p) THEN "plan_run" ELSE "policy_evaluated"
  <2>1. /\ Gated(run, manifest, Overlay(new, files))
        /\ Early(run, manifest)
        /\ ctx[p].cmd # "run" => manifest.pending \in BeforePolicy
    BY <1>5, Somewhere
       DEF Gated, Coherent, Early, InPlace, InStep, CreatePlan, Overlay, Artifacts
  <2>2. InPlace(MemSet(ctx[p], new, loc), run, manifest, Overlay(new, files))
    BY <1>5, <2>1, Somewhere DEF MemSet, InPlace, Contexts, Early, CreatePlan, Fresh
  <2> QED
    BY <1>5, <2>1, <2>2, OnlyWriteFiles DEF CreatePlan
<1>6. CASE PlanRun(p)
  <2> DEFINE r == Moved(ctx[p].run, ctx[p].run.status, "plan_created", "policy_evaluated")
  <2>1. Gated(r, manifest, files) /\ r.status # "absent" /\ Early(r, manifest)
    BY <1>6, Somewhere
       DEF Gated, Coherent, Early, InPlace, InStep, PlanRun, Moved, RunRecords
  <2> HIDE DEF r
  <2>2. InPlace(RunSet(ctx[p], r, "plan_manifest"), r, manifest, files)
    BY <2>1, Somewhere DEF RunSet, InPlace, Contexts, Early
  <2> QED
    BY <1>6, <2>1, <2>2, OnlyWriteRun DEF r, PlanRun
<1>7. CASE PlanManifest(p)
  <2> DEFINE m == Checkpointed(Moved(ctx[p].manifest, ctx[p].manifest.status,
                                     "plan_created", "policy_evaluated"), "plan_created")
  <2>1. Gated(run, m, files) /\ Early(run, m) /\ m.pending \in BeforePolicy
    BY <1>7, Somewhere
       DEF Gated, Coherent, Early, InPlace, InStep, PlanManifest, Moved, Manifests,
           Checkpointed
  <2> HIDE DEF m
  <2>2. InPlace(ManifestSet(ctx[p], m, "policy_evaluated"), run, m, files)
    BY <2>1, Somewhere DEF ManifestSet, InPlace, Contexts, Early
  <2> QED
    BY <1>7, <2>1, <2>2, OnlyWriteManifest DEF m, PlanManifest
<1> QED
  BY <1>1, <1>2, <1>3, <1>4, <1>5, <1>6, <1>7

\* handlePolicyEvaluated keeps ApprovalInv: only a decision that is not prompt goes on
\* to the runner.
LEMMA ApprovalPolicy ==
    ASSUME TypeInv, ApprovalInv, OneCommand, NEW p \in Procs
    PROVE  /\ EvaluatePolicy(p) => ApprovalInv'
           /\ PolicyRunning(p) => ApprovalInv'
           /\ PolicyRun(p) => ApprovalInv'
           /\ PolicyManifest(p) => ApprovalInv'
           /\ ForbidRun(p) => ApprovalInv'
           /\ ForbidManifest(p) => ApprovalInv'
           /\ RequestApproval(p) => ApprovalInv'
           /\ PromptRun(p) => ApprovalInv'
           /\ PromptManifest(p) => ApprovalInv'
<1> USE DEF UnloadedLocs, DetachedLocs, EarlyLocs, ApprovalLocs, RunnerLocs,
            BeforePolicy, Running, AfterApproval, At
<1>1. CASE EvaluatePolicy(p)
  <2>1. PICK d \in Decisions :
            WriteFiles(p, [preview |-> "present", decision |-> d],
                       IF Fresh(p) THEN "policy_running" ELSE AfterPolicy(d))
    BY <1>1 DEF EvaluatePolicy
  <2> DEFINE new == [preview |-> "present", decision |-> d]
             loc == IF Fresh(p) THEN "policy_running" ELSE AfterPolicy(d)
             f   == Overlay(new, files)
  <2>2. Early(run, manifest) /\ Gated(run, manifest, f)
    BY <1>1, Somewhere DEF EvaluatePolicy, InPlace, Gated
  <2>3. ~Fresh(p) => manifest.pending \in BeforePolicy
    BY <1>1, Somewhere DEF EvaluatePolicy, InPlace, Fresh
  <2>4. f["decision"] = d
    BY DEF Overlay, Artifacts
  <2>5. d # "prompt" => Approved(f)
    BY <2>4 DEF Approved
  <2>6. loc \in {"policy_running", "runner_started", "packet", "forbid_run"}
        /\ (loc = "policy_running" <=> Fresh(p))
        /\ (loc = "runner_started" => d # "prompt")
    BY DEF AfterPolicy, Decisions
  <2> HIDE DEF f, loc, new
  <2>7. InPlace(MemSet(ctx[p], new, loc), run, manifest, f)
    BY <2>2, <2>3, <2>5, <2>6, Somewhere DEF MemSet, InPlace, Contexts, Early, Fresh
  <2>8. WriteFiles(p, new, loc)
    BY <2>1 DEF new, loc
  <2> QED
    BY <1>1, <2>2, <2>6, <2>7, <2>8, OnlyWriteFiles DEF f, EvaluatePolicy
<1>2. CASE PolicyRunning(p)
  <2> DEFINE r == [ctx[p].run EXCEPT !.status = "running"]
  <2>1. Gated(r, manifest, files) /\ r.status # "absent" /\ Early(r, manifest)
    BY <1>2, Somewhere
       DEF Gated, Coherent, Early, InPlace, InStep, PolicyRunning, Moved, RunRecords
  <2> HIDE DEF r
  <2>2. InPlace(RunSet(ctx[p], r, "policy_run"), r, manifest, files)
    BY <2>1, Somewhere DEF RunSet, InPlace, Contexts, Early
  <2>3. WriteRun(p, r, "policy_run")
    BY <1>2 DEF r, PolicyRunning
  <2> QED
    BY <1>2, <2>1, <2>3, <2>2, OnlyWriteRun DEF PolicyRunning
<1>3. CASE PolicyRun(p)
  <2> DEFINE r == Moved(ctx[p].run, ctx[p].run.status, "policy_evaluated",
                        PendingAfterPolicy(ctx[p].mem["decision"]))
  <2>1. Gated(r, manifest, files) /\ r.status # "absent" /\ Early(r, manifest)
    BY <1>3, Somewhere
       DEF Gated, Coherent, Early, InPlace, InStep, PolicyRun, Moved, RunRecords
  <2> HIDE DEF r
  <2>2. InPlace(RunSet(ctx[p], r, "policy_manifest"), r, manifest, files)
    BY <2>1, Somewhere DEF RunSet, InPlace, Contexts, Early
  <2> QED
    BY <1>3, <2>1, <2>2, OnlyWriteRun DEF r, PolicyRun
<1>4. CASE PolicyManifest(p)
  <2> DEFINE d == ctx[p].mem["decision"]
             m == Checkpointed(Moved(ctx[p].manifest, ctx[p].manifest.status,
                                     "policy_evaluated", PendingAfterPolicy(d)),
                               "policy_evaluated")
             loc == AfterPolicy(d)
  <2>1. d \in Decisions /\ d = files["decision"]
    BY <1>4, RunTypes, Somewhere DEF Typed, PolicyManifest, InStep
  <2>2. /\ m.stage = "policy_evaluated" /\ m.checkpoint = "policy_evaluated"
        /\ m.pending = PendingAfterPolicy(d)
    BY RunTypes DEF Manifests, Moved, Checkpointed
  <2>3. Early(run, manifest)
    BY <1>4, Somewhere DEF PolicyManifest, InPlace
  <2>4. d # "prompt" => Approved(files)
    BY <2>1 DEF Approved
  <2>5. d = "prompt" => m.pending = "awaiting_approval"
    BY <2>2 DEF PendingAfterPolicy
  <2>6. /\ loc \in {"runner_started", "packet", "forbid_run"}
        /\ loc = "packet" <=> d = "prompt"
    BY <2>1 DEF AfterPolicy, Decisions
  <2> HIDE DEF d, m, loc
  <2>7. Gated(run, m, files)
    BY <2>2, <2>3, <2>4, <2>5 DEF Gated, Coherent, Early
  <2>8. InPlace(ManifestSet(ctx[p], m, loc), run, m, files)
    BY <2>2, <2>4, <2>5, <2>6, Somewhere DEF ManifestSet, InPlace, Contexts
  <2> QED
    BY <1>4, <2>6, <2>7, <2>8, OnlyWriteManifest DEF d, m, loc, PolicyManifest
<1>5. CASE ForbidRun(p)
  <2> DEFINE r == Moved(ctx[p].run, "failed", "policy_evaluated", NoStage)
  <2>1. /\ Gated(r, manifest, files)
        /\ r.status # "absent"
        /\ r.stage = "policy_evaluated"
        /\ manifest.checkpoint \notin AfterApproval
    BY <1>5, Somewhere
       DEF Gated, Coherent, Early, InPlace, InStep, ForbidRun, Moved, RunRecords
  <2> HIDE DEF r
  <2>2. InPlace(RunSet(ctx[p], r, "forbid_manifest"), r, manifest, files)
    BY <2>1, Somewhere DEF RunSet, InPlace, Contexts
  <2> QED
    BY <1>5, <2>1, <2>2, OnlyWriteRun DEF r, ForbidRun
<1>6. CASE ForbidManifest(p)
  <2> DEFINE m == IF Fresh(p)
                  THEN Moved(ctx[p].manifest, "failed", "policy_evaluated", NoStage)
                  ELSE [ctx[p].manifest EXCEPT !.status = "failed"]
             loc == AfterAdvance(p)
  <2>1. Gated(run, m, files)
    BY <1>6, Somewhere
       DEF Gated, Coherent, Early, InPlace, InStep, ForbidManifest, Moved,
           Manifests, Fresh
  <2> HIDE DEF m
  <2>2. InPlace(ManifestSet(ctx[p], m, loc), run, m, files)
    BY <1>6, <2>1, Somewhere DEF ManifestSet, InPlace, Contexts, AfterAdvance, Fresh
  <2>3. WriteManifest(p, m, loc)
    BY <1>6 DEF m, ForbidManifest
  <2> QED
    BY <1>6, <2>1, <2>3, <2>2, OnlyWriteManifest DEF ForbidManifest, AfterAdvance
<1>7. CASE RequestApproval(p)
  <2>1. PICK k \in Packets :
            WriteFiles(p, [packet |-> k],
                       IF Fresh(p) THEN "prompt_run" ELSE "awaiting_approval")
    BY <1>7 DEF RequestApproval
  <2> DEFINE new == [packet |-> k]
             loc == IF Fresh(p) THEN "prompt_run" ELSE "awaiting_approval"
  <2>2. Gated(run, manifest, Overlay(new, files))
    BY Somewhere DEF Gated, Approved, Overlay, Artifacts
  <2>3. InPlace(MemSet(ctx[p], new, loc), run, manifest, Overlay(new, files))
    BY <1>7, Somewhere DEF MemSet, InPlace, Contexts, RequestApproval
  <2> QED
    BY <1>7, <2>1, <2>2, <2>3, OnlyWriteFiles DEF RequestApproval
<1>8. CASE PromptRun(p)
  <2> DEFINE r == Moved(ctx[p].run, "awaiting_approval", "awaiting_approval",
                        "awaiting_approval")
  <2>1. Gated(r, manifest, files) /\ r.status # "absent"
    BY <1>8, Somewhere
       DEF Gated, Coherent, Early, InPlace, InStep, PromptRun, Moved, RunRecords
  <2> HIDE DEF r
  <2>2. InPlace(RunSet(ctx[p], r, "prompt_manifest"), r, manifest, files)
    BY <1>8, <2>1, Somewhere DEF RunSet, InPlace, Contexts, PromptRun
  <2> QED
    BY <1>8, <2>1, <2>2, OnlyWriteRun DEF r, PromptRun
<1>9. CASE PromptManifest(p)
  <2> DEFINE m == [Moved(ctx[p].manifest, "awaiting_approval", "awaiting_approval",
                         "awaiting_approval") EXCEPT !.approval = "pending"]
  <2>1. /\ Gated(run, m, files)
        /\ m.checkpoint = manifest.checkpoint
        /\ m.pending = "awaiting_approval"
    BY <1>9, Somewhere
       DEF Gated, Coherent, Early, InPlace, InStep, PromptManifest, Moved, Manifests
  <2> HIDE DEF m
  <2>2. InPlace(ManifestSet(ctx[p], m, "awaiting_approval"), run, m, files)
    BY <1>9, <2>1, Somewhere DEF ManifestSet, InPlace, Contexts, PromptManifest
  <2>3. WriteManifest(p, m, "awaiting_approval")
    BY <1>9 DEF m, PromptManifest
  <2> QED
    BY <1>9, <2>1, <2>3, <2>2, OnlyWriteManifest DEF PromptManifest
<1> QED
  BY <1>1, <1>2, <1>3, <1>4, <1>5, <1>6, <1>7, <1>8, <1>9

\* handleAwaitingApproval keeps ApprovalInv: only an approval goes on to the runner.
LEMMA ApprovalAnswer ==
    ASSUME TypeInv, ApprovalInv, OneCommand, NEW p \in Procs
    PROVE  /\ AskHuman(p) => ApprovalInv'
           /\ NobodyToAsk(p) => ApprovalInv'
           /\ ReuseResolution(p) => ApprovalInv'
           /\ PauseRun(p) => ApprovalInv'
           /\ PauseManifest(p) => ApprovalInv'
           /\ DenyRun(p) => ApprovalInv'
           /\ DenyManifest(p) => ApprovalInv'
           /\ ApproveRun(p) => ApprovalInv'
           /\ ApproveManifest(p) => ApprovalInv'
<1> USE DEF UnloadedLocs, DetachedLocs, EarlyLocs, ApprovalLocs, RunnerLocs,
            BeforePolicy, Running, AfterApproval, At
<1>1. CASE AskHuman(p)
  <2>1. PICK answer \in Resolutions :
            WriteFiles(p, [resolution |-> answer], "resolved")
    BY <1>1 DEF AskHuman
  <2> DEFINE new == [resolution |-> answer]
  <2>2. files["resolution"] = "absent"
    BY <1>1, Somewhere DEF AskHuman, InStep
  <2>3. Gated(run, manifest, Overlay(new, files))
    BY <2>2, Somewhere DEF Gated, Approved, Overlay, Artifacts
  <2>4. InPlace(MemSet(ctx[p], new, "resolved"), run, manifest, Overlay(new, files))
    BY <1>1, Somewhere DEF MemSet, InPlace, Contexts, AskHuman
  <2> QED
    BY <1>1, <2>1, <2>3, <2>4, OnlyWriteFiles DEF AskHuman
<1>2. CASE NobodyToAsk(p)
  <2> DEFINE loc == IF Fresh(p) THEN "finalize" ELSE "pause_run"
  <2>1. InPlace(PcSet(ctx[p], loc), run, manifest, files)
    BY Somewhere DEF PcSet, InPlace, Contexts, Fresh
  <2> QED
    BY <1>2, <2>1, OnlyGoTo DEF NobodyToAsk
<1>3. CASE ReuseResolution(p)
  <2>1. InPlace(PcSet(ctx[p], "resolved"), run, manifest, files)
    BY <1>3, Somewhere DEF PcSet, InPlace, Contexts, ReuseResolution
  <2> QED
    BY <1>3, <2>1, OnlyGoTo DEF ReuseResolution
<1>4. CASE PauseRun(p)
  <2> DEFINE r == [ctx[p].run EXCEPT !.status = "awaiting_approval"]
  <2>1. Gated(r, manifest, files) /\ r.status # "absent"
    BY <1>4, Somewhere
       DEF Gated, Coherent, Early, InPlace, InStep, PauseRun, Moved, RunRecords
  <2> HIDE DEF r
  <2>2. InPlace(RunSet(ctx[p], r, "pause_manifest"), r, manifest, files)
    BY <2>1, Somewhere DEF RunSet, InPlace, Contexts
  <2>3. WriteRun(p, r, "pause_manifest")
    BY <1>4 DEF r, PauseRun
  <2> QED
    BY <1>4, <2>1, <2>3, <2>2, OnlyWriteRun DEF PauseRun
<1>5. CASE PauseManifest(p)
  <2> DEFINE m == [ctx[p].manifest EXCEPT !.status = "awaiting_approval",
                                      !.approval = "pending"]
             loc == AfterAdvance(p)
  <2>1. Gated(run, m, files)
    BY <1>5, Somewhere
       DEF Gated, Coherent, Early, InPlace, InStep, PauseManifest, Moved, Manifests
  <2> HIDE DEF m
  <2>2. InPlace(ManifestSet(ctx[p], m, loc), run, m, files)
    BY <1>5, <2>1, Somewhere DEF ManifestSet, InPlace, Contexts, AfterAdvance, Fresh
  <2>3. WriteManifest(p, m, loc)
    BY <1>5 DEF m, PauseManifest
  <2> QED
    BY <1>5, <2>1, <2>3, <2>2, OnlyWriteManifest DEF PauseManifest, AfterAdvance
<1>6. CASE DenyRun(p)
  <2> DEFINE r == Moved(ctx[p].run, "abandoned", "approval_resolved", NoStage)
  <2>1. Gated(r, manifest, files) /\ r.status # "absent"
    BY <1>6, Somewhere
       DEF Gated, Coherent, Early, InPlace, InStep, DenyRun, Moved, RunRecords
  <2> HIDE DEF r
  <2>2. InPlace(RunSet(ctx[p], r, "deny_manifest"), r, manifest, files)
    BY <1>6, <2>1, Somewhere DEF RunSet, InPlace, Contexts, DenyRun
  <2> QED
    BY <1>6, <2>1, <2>2, OnlyWriteRun DEF r, DenyRun
<1>7. CASE DenyManifest(p)
  <2> DEFINE m == IF Fresh(p)
                  THEN Moved([ctx[p].manifest EXCEPT !.approval = "denied"], "abandoned",
                             "approval_resolved", NoStage)
                  ELSE [ctx[p].manifest EXCEPT !.approval = "denied", !.status = "abandoned"]
             loc == AfterAdvance(p)
  <2>1. Gated(run, m, files)
    BY <1>7, Somewhere
       DEF Gated, Coherent, Early, InPlace, InStep, DenyManifest, Moved, Manifests,
           Fresh
  <2> HIDE DEF m
  <2>2. InPlace(ManifestSet(ctx[p], m, loc), run, m, files)
    BY <1>7, <2>1, Somewhere DEF ManifestSet, InPlace, Contexts, AfterAdvance, Fresh
  <2>3. WriteManifest(p, m, loc)
    BY <1>7 DEF m, DenyManifest
  <2> QED
    BY <1>7, <2>1, <2>3, <2>2, OnlyWriteManifest DEF DenyManifest, AfterAdvance
<1>8. CASE ApproveRun(p)
  <2> DEFINE r == Moved(ctx[p].run, "in_progress", "approval_resolved", "runner_started")
  <2>1. /\ Gated(r, manifest, files)
        /\ r.status # "absent"
        /\ Approved(files)
        /\ r.stage = "approval_resolved"
    BY <1>8, Somewhere
       DEF Gated, Coherent, Early, InPlace, InStep, ApproveRun, Moved, RunRecords,
           Approved
  <2> HIDE DEF r
  <2>2. InPlace(RunSet(ctx[p], r, "approve_manifest"), r, manifest, files)
    BY <2>1, Somewhere DEF RunSet, InPlace, Contexts
  <2> QED
    BY <1>8, <2>1, <2>2, OnlyWriteRun DEF r, ApproveRun
<1>9. CASE ApproveManifest(p)
  <2> DEFINE m == [Checkpointed(Moved(ctx[p].manifest, "in_progress", "approval_resolved",
                                      "runner_started"), "approval_resolved")
                      EXCEPT !.approval = "approved"]
  <2>1. Gated(run, m, files) /\ Approved(files) /\ m.pending = "runner_started"
    BY <1>9, Somewhere
       DEF Gated, Coherent, Early, InPlace, InStep, ApproveManifest, Moved,
           Manifests, Checkpointed
  <2> HIDE DEF m
  <2>2. InPlace(ManifestSet(ctx[p], m, "runner_started"), run, m, files)
    BY <2>1, Somewhere DEF ManifestSet, InPlace, Contexts
  <2>3. WriteManifest(p, m, "runner_started")
    BY <1>9 DEF m, ApproveManifest
  <2> QED
    BY <1>9, <2>1, <2>3, <2>2, OnlyWriteManifest DEF ApproveManifest
<1> QED
  BY <1>1, <1>2, <1>3, <1>4, <1>5, <1>6, <1>7, <1>8, <1>9

\* Evidence is neither the decision nor the resolution.
LEMMA EvidenceApart ==
    ASSUME NEW f \in FileSets, NEW kind \in RunnerEvidence, NEW value
    PROVE  LET g == [f EXCEPT ![kind] = value]
           IN  g["decision"] = f["decision"] /\ g["resolution"] = f["resolution"]
BY DEF FileSets, Artifacts, RunnerEvidence

\* handleRunnerStarted keeps ApprovalInv.
LEMMA ApprovalRunner ==
    ASSUME TypeInv, ApprovalInv, OneCommand, NEW p \in Procs
    PROVE  /\ RunnerRun(p) => ApprovalInv'
           /\ RunnerManifest(p) => ApprovalInv'
           /\ LaunchRunner(p) => ApprovalInv'
           /\ RunnerReturns(p) => ApprovalInv'
           /\ PersistEvidence(p) => ApprovalInv'
           /\ CompletedManifest(p) => ApprovalInv'
           /\ CompletedRun(p) => ApprovalInv'
           /\ CompletedSnapshot(p) => ApprovalInv'
           /\ RelapseRun(p) => ApprovalInv'
           /\ RelapseManifest(p) => ApprovalInv'
<1> USE DEF UnloadedLocs, DetachedLocs, EarlyLocs, ApprovalLocs, RunnerLocs,
            BeforePolicy, Running, AfterApproval, At
<1>1. CASE RunnerRun(p)
  <2> DEFINE r == Moved(ctx[p].run, "in_progress", "runner_started", "runner_completed")
             c == [ctx[p] EXCEPT !.run = r, !.executed = TRUE, !.pc = "runner_manifest"]
  <2>1. Approved(files) /\ Gated(r, manifest, files) /\ r.status # "absent"
    BY <1>1, Somewhere DEF RunnerRun, InStep, InPlace, Gated, Coherent, Moved, RunRecords
  <2>2. ctx' = [ctx EXCEPT ![p] = c] /\ run' = r /\ UNCHANGED <<manifest, files>>
    BY <1>1, Somewhere DEF RunnerRun
  <2> HIDE DEF r
  <2>3. InStep(c, r, manifest, files)
    BY <1>1, Somewhere DEF RunnerRun, InStep, Contexts
  <2>4. InPlace(c, r, manifest, files)
    BY <2>1, Somewhere DEF InPlace, Contexts
  <2> HIDE DEF c
  <2> QED
    BY <2>1, <2>2, <2>3, <2>4, OnlyStep
<1>2. CASE RunnerManifest(p)
  <2> DEFINE m == Moved(ctx[p].manifest, "in_progress", "runner_started", "runner_completed")
  <2>1. Gated(run, m, files) /\ Approved(files)
    BY <1>2, Somewhere
       DEF Gated, Coherent, Early, InPlace, InStep, RunnerManifest, Moved, Manifests
  <2> HIDE DEF m
  <2>2. InPlace(ManifestSet(ctx[p], m, "launch"), run, m, files)
    BY <2>1, Somewhere DEF ManifestSet, InPlace, Contexts
  <2> QED
    BY <1>2, <2>1, <2>2, OnlyWriteManifest DEF m, RunnerManifest
<1>3. CASE LaunchRunner(p)
  <2>1. InPlace(PcSet(ctx[p], "executing"), run, manifest, files)
    BY <1>3, Somewhere DEF PcSet, InPlace, Contexts, LaunchRunner
  <2> QED
    BY <1>3, <2>1, OnlyGoTo DEF LaunchRunner
<1>4. CASE RunnerReturns(p)
  <2>1. PICK result \in RunnerResults :
            ctx' = [ctx EXCEPT ![p].mem["result"] = result, ![p].written = 0,
                               ![p].pc = "evidence"]
    BY <1>4 DEF RunnerReturns
  <2> DEFINE mem == [ctx[p].mem EXCEPT !["result"] = result]
             c == [ctx[p] EXCEPT !.mem = mem, !.written = 0, !.pc = "evidence"]
  <2>2. mem["decision"] = ctx[p].mem["decision"]
        /\ mem["resolution"] = ctx[p].mem["resolution"]
    BY RunTypes, EvidenceApart DEF RunnerEvidence
  <2>3. ctx' = [ctx EXCEPT ![p] = c]
    BY <2>1, Somewhere DEF Contexts
  <2> HIDE DEF mem
  <2>4. InStep(c, run, manifest, files)
    BY <1>4, <2>2, Somewhere DEF RunnerReturns, InStep, Contexts
  <2>5. InPlace(c, run, manifest, files)
    BY <1>4, Somewhere DEF RunnerReturns, InPlace, Contexts
  <2>6. UNCHANGED <<run, manifest, files>> /\ run.status # "absent"
    BY <1>4, Somewhere DEF RunnerReturns
  <2> HIDE DEF c
  <2> QED
    BY <2>3, <2>4, <2>5, <2>6, Somewhere, OnlyStep
<1>5. CASE PersistEvidence(p)
  <2> DEFINE n    == ctx[p].written + 1
             kind == EvidenceOrder[n]
             loc  == IF n = Len(EvidenceOrder) THEN AfterEvidence(p) ELSE "evidence"
  <2>1. n \in 1 .. Len(EvidenceOrder)
    BY <1>5, RunTypes, EvidenceLen DEF PersistEvidence, Typed, Contexts
  <2>2. kind \in RunnerEvidence
    BY <2>1, EvidenceLen DEF EvidenceOrder, RunnerEvidence
  <2>3. PICK value :
            /\ files' = [files EXCEPT ![kind] = value]
            /\ ctx' = [ctx EXCEPT ![p].mem[kind] = value, ![p].written = n, ![p].pc = loc]
    BY <1>5 DEF PersistEvidence
  <2> HIDE DEF kind, n
  <2> DEFINE mem == [ctx[p].mem EXCEPT ![kind] = value]
             g == [files EXCEPT ![kind] = value]
             c == [ctx[p] EXCEPT !.mem = mem, !.written = n, !.pc = loc]
  <2>4. /\ mem["decision"] = ctx[p].mem["decision"]
        /\ mem["resolution"] = ctx[p].mem["resolution"]
        /\ g["decision"] = files["decision"] /\ g["resolution"] = files["resolution"]
    BY ZenonT(30), <2>2, RunTypes, Somewhere, EvidenceApart
  <2>5. ctx' = [ctx EXCEPT ![p] = c] /\ files' = g
    BY <2>3, Somewhere DEF Contexts
  <2>6. /\ loc \in {"evidence", "completed_manifest", "blocked_snapshot",
                    "verification_started", "relapse_run"}
        /\ loc = "completed_manifest" => ctx[p].cmd = "run" /\ ctx[p].executed
        /\ loc = "relapse_run" => ctx[p].cmd # "run"
    BY DEF AfterEvidence, Fresh
  <2> HIDE DEF mem, g, loc
  <2>7. InStep(c, run, manifest, g)
    BY <1>5, <2>4, <2>6, Somewhere DEF PersistEvidence, InStep, Contexts
  <2>8. InPlace(c, run, manifest, g)
    BY <1>5, <2>4, <2>6, Somewhere DEF PersistEvidence, InPlace, Approved, Contexts
  <2>9. Gated(run, manifest, g)
    BY <2>4, Somewhere DEF Gated, Approved
  <2>10. UNCHANGED <<run, manifest>> /\ run.status # "absent"
    BY <1>5, Somewhere DEF PersistEvidence
  <2> HIDE DEF c
  <2> QED
    BY <2>5, <2>7, <2>8, <2>9, <2>10, OnlyStep
<1>6. CASE CompletedManifest(p)
  <2> DEFINE m == Checkpointed(Moved(ctx[p].manifest, ExecutionStatus(p), "runner_completed",
                                     ExecutionPending(p)), "runner_completed")
  <2>1. Gated(run, m, files) /\ Approved(files) /\ ctx[p].cmd = "run"
    BY <1>6, Somewhere
       DEF Gated, Coherent, Early, InPlace, InStep, CompletedManifest, Moved,
           Manifests, Checkpointed
  <2> HIDE DEF m
  <2>2. InPlace(ManifestSet(ctx[p], m, "completed_run"), run, m, files)
    BY <2>1, Somewhere DEF ManifestSet, InPlace, Contexts
  <2> QED
    BY <1>6, <2>1, <2>2, OnlyWriteManifest DEF m, CompletedManifest
<1>7. CASE CompletedRun(p)
  <2> DEFINE r == Moved(ctx[p].run, ExecutionStatus(p), "runner_completed",
                        ExecutionPending(p))
  <2>1. /\ Gated(r, manifest, files)
        /\ r.status # "absent"
        /\ Approved(files)
        /\ ctx[p].cmd = "run"
    BY <1>7, Somewhere
       DEF Gated, Coherent, Early, InPlace, InStep, CompletedRun, Moved, RunRecords,
           ExecutionStatus
  <2> HIDE DEF r
  <2>2. InPlace(RunSet(ctx[p], r, "completed_snapshot"), r, manifest, files)
    BY <2>1, Somewhere DEF RunSet, InPlace, Contexts
  <2> QED
    BY <1>7, <2>1, <2>2, OnlyWriteRun DEF r, CompletedRun
<1>8. CASE CompletedSnapshot(p)
  <2> DEFINE m == [ctx[p].manifest EXCEPT !.head = head]
             loc == IF ctx[p].mem["result"] = "completed"
                           THEN "verification_started" ELSE "finalize"
  <2>1. Gated(run, m, files) /\ Approved(files) /\ ctx[p].cmd = "run"
    BY <1>8, Somewhere
       DEF Gated, Coherent, Early, InPlace, InStep, CompletedSnapshot, Moved,
           Manifests
  <2> HIDE DEF m
  <2>2. InPlace(ManifestSet(ctx[p], m, loc), run, m, files)
    BY <2>1, Somewhere DEF ManifestSet, InPlace, Contexts
  <2>3. WriteManifest(p, m, loc)
    BY <1>8 DEF m, CompletedSnapshot
  <2> QED
    BY <1>8, <2>1, <2>3, <2>2, OnlyWriteManifest DEF CompletedSnapshot
<1>9. CASE RelapseRun(p)
  <2> DEFINE r == Moved(ctx[p].run, "interrupted", "runner_started", "runner_started")
  <2>1. Gated(r, manifest, files) /\ r.status # "absent" /\ Approved(files)
    BY <1>9, Somewhere
       DEF Gated, Coherent, Early, InPlace, InStep, RelapseRun, Moved, RunRecords
  <2> HIDE DEF r
  <2>2. InPlace(RunSet(ctx[p], r, "relapse_manifest"), r, manifest, files)
    BY <2>1, Somewhere DEF RunSet, InPlace, Contexts
  <2> QED
    BY <1>9, <2>1, <2>2, OnlyWriteRun DEF r, RelapseRun
<1>10. CASE RelapseManifest(p)
  <2> DEFINE m == Moved(ctx[p].manifest, "interrupted", "runner_started", "runner_started")
  <2>1. Gated(run, m, files) /\ Approved(files)
    BY <1>10, Somewhere
       DEF Gated, Coherent, Early, InPlace, InStep, RelapseManifest, Moved,
           Manifests
  <2> HIDE DEF m
  <2>2. InPlace(ManifestSet(ctx[p], m, "load"), run, m, files)
    BY <2>1, Somewhere DEF ManifestSet, InPlace, Contexts
  <2> QED
    BY <1>10, <2>1, <2>2, OnlyWriteManifest DEF m, RelapseManifest
<1> QED
  BY <1>1, <1>2, <1>3, <1>4, <1>5, <1>6, <1>7, <1>8, <1>9, <1>10

\* Verification and the finalization of a fresh run keep ApprovalInv.
LEMMA ApprovalVerification ==
    ASSUME TypeInv, ApprovalInv, OneCommand, NEW p \in Procs
    PROVE  /\ VerificationRun(p) => ApprovalInv'
           /\ VerificationManifest(p) => ApprovalInv'
           /\ RunVerification(p) => ApprovalInv'
           /\ VerdictRun(p) => ApprovalInv'
           /\ VerdictManifest(p) => ApprovalInv'
           /\ Finalize(p) => ApprovalInv'
           /\ BlockedSnapshot(p) => ApprovalInv'
           /\ FinalRun(p) => ApprovalInv'
           /\ FinalManifest(p) => ApprovalInv'
<1> USE DEF UnloadedLocs, DetachedLocs, EarlyLocs, ApprovalLocs, RunnerLocs,
            BeforePolicy, Running, AfterApproval, At
<1>1. CASE VerificationRun(p)
  <2> DEFINE r == IF ctx[p].cmd = "verify" THEN [ctx[p].run EXCEPT !.status = "verifying"]
                  ELSE Moved(ctx[p].run, "verifying", "verification_started",
                             "verification_completed")
             loc == IF Fresh(p) THEN "verify_manifest" ELSE "verifying"
  <2>1. /\ Gated(r, manifest, files)
        /\ r.status # "absent"
        /\ Fresh(p) => r.stage = "verification_started"
    BY <1>1, Somewhere
       DEF Gated, Coherent, Early, InPlace, InStep, VerificationRun, Moved,
           RunRecords, Fresh
  <2> HIDE DEF r
  <2>2. InPlace(RunSet(ctx[p], r, loc), r, manifest, files)
    BY <1>1, <2>1, Somewhere DEF RunSet, InPlace, Contexts, Fresh
  <2>3. WriteRun(p, r, loc)
    BY <1>1 DEF r, VerificationRun
  <2> QED
    BY <1>1, <2>1, <2>3, <2>2, OnlyWriteRun DEF VerificationRun
<1>2. CASE VerificationManifest(p)
  <2> DEFINE m == Moved(ctx[p].manifest, "verifying", "verification_started",
                        "verification_completed")
  <2>1. Gated(run, m, files)
    BY <1>2, Somewhere
       DEF Gated, Coherent, Early, InPlace, InStep, VerificationManifest, Moved,
           Manifests
  <2> HIDE DEF m
  <2>2. InPlace(ManifestSet(ctx[p], m, "verifying"), run, m, files)
    BY <2>1, Somewhere DEF ManifestSet, InPlace, Contexts
  <2> QED
    BY <1>2, <2>1, <2>2, OnlyWriteManifest DEF m, VerificationManifest
<1>3. CASE RunVerification(p)
  <2>1. PICK v \in Verdicts : WriteFiles(p, [verification |-> v], "verdict_run")
    BY <1>3 DEF RunVerification, Verdicts
  <2> DEFINE new == [verification |-> v]
  <2>2. Gated(run, manifest, Overlay(new, files))
    BY Somewhere DEF Gated, Approved, Overlay, Artifacts
  <2>3. InPlace(MemSet(ctx[p], new, "verdict_run"), run, manifest, Overlay(new, files))
    BY Somewhere DEF MemSet, InPlace, Contexts
  <2> QED
    BY <1>3, <2>1, <2>2, <2>3, OnlyWriteFiles DEF RunVerification
<1>4. CASE VerdictRun(p)
  <2> DEFINE r == [Moved(ctx[p].run, FinalStatus(p), "verification_completed", NoStage)
                      EXCEPT !.verification = ctx[p].mem["verification"]]
  <2>1. /\ Gated(r, manifest, files)
        /\ r.status # "absent"
        /\ r.stage = "verification_completed"
    BY <1>4, Somewhere
       DEF Gated, Coherent, Early, InPlace, InStep, VerdictRun, Moved, RunRecords,
           FinalStatus
  <2> HIDE DEF r
  <2>2. InPlace(RunSet(ctx[p], r, "verdict_manifest"), r, manifest, files)
    BY <2>1, Somewhere DEF RunSet, InPlace, Contexts
  <2>3. WriteRun(p, r, "verdict_manifest")
    BY <1>4 DEF r, VerdictRun
  <2> QED
    BY <1>4, <2>1, <2>3, <2>2, OnlyWriteRun DEF VerdictRun
<1>5. CASE VerdictManifest(p)
  <2> DEFINE m == Moved(ctx[p].manifest, FinalStatus(p), "verification_completed", NoStage)
             w == IF Fresh(p) THEN Checkpointed(m, "verification_completed") ELSE m
  <2>1. Gated(run, m, files) /\ Gated(run, w, files)
    BY <1>5, Somewhere
       DEF Gated, Coherent, Early, InPlace, InStep, VerdictManifest, Moved, Checkpointed,
           Manifests
  <2>2. CASE ctx[p].cmd = "verify"
    <3>1. run.status # "absent"
      BY <1>5, Somewhere DEF VerdictManifest
    <3> QED
      BY <1>5, <2>1, <2>2, <3>1, OnlyEnd DEF VerdictManifest
  <2>3. CASE ctx[p].cmd # "verify"
    <3> DEFINE loc == AfterAdvance(p)
    <3>1. InPlace(ManifestSet(ctx[p], w, loc), run, w, files)
      BY Somewhere DEF ManifestSet, InPlace, Contexts, AfterAdvance, Fresh
    <3>2. WriteManifest(p, w, loc)
      BY <1>5, <2>3 DEF VerdictManifest
    <3>3. loc \notin DetachedLocs /\ ctx[p].pc \notin UnloadedLocs
      BY <1>5 DEF AfterAdvance, VerdictManifest
    <3> HIDE DEF w, loc, m
    <3> QED
      BY <2>1, <3>1, <3>2, <3>3, OnlyWriteManifest
  <2> QED
    BY <2>2, <2>3
<1>6. CASE Finalize(p)
  <2> DEFINE mem == [ctx[p].mem EXCEPT !["result"] = "blocked"]
             c == IF ctx[p].executed THEN [ctx[p] EXCEPT !.pc = "final_run"]
                  ELSE [ctx[p] EXCEPT !.mem = mem, !.written = 0, !.pc = "evidence"]
  <2>1. mem["decision"] = ctx[p].mem["decision"]
        /\ mem["resolution"] = ctx[p].mem["resolution"]
    BY RunTypes, EvidenceApart DEF RunnerEvidence
  <2>2. ctx' = [ctx EXCEPT ![p] = c]
    <3>1. CASE ctx[p].executed
      BY <1>6, <3>1, Somewhere DEF Finalize
    <3>2. CASE ~ctx[p].executed
      BY <1>6, <3>2, Somewhere DEF Finalize, Contexts
    <3> QED
      BY <3>1, <3>2
  <2> HIDE DEF mem
  <2>3. InStep(c, run, manifest, files)
    BY <1>6, <2>1, Somewhere DEF Finalize, InStep, Contexts
  <2>4. InPlace(c, run, manifest, files)
    BY <1>6, Somewhere DEF Finalize, InPlace, Contexts
  <2>5. UNCHANGED <<run, manifest, files>> /\ run.status # "absent"
    BY <1>6, Somewhere DEF Finalize
  <2> HIDE DEF c
  <2> QED
    BY <2>2, <2>3, <2>4, <2>5, Somewhere, OnlyStep
<1>7. CASE BlockedSnapshot(p)
  <2> DEFINE m == [ctx[p].manifest EXCEPT !.head = head]
  <2>1. Gated(run, m, files)
    BY <1>7, Somewhere
       DEF Gated, Coherent, Early, InPlace, InStep, BlockedSnapshot, Moved,
           Manifests
  <2> HIDE DEF m
  <2>2. InPlace(ManifestSet(ctx[p], m, "final_run"), run, m, files)
    BY <2>1, Somewhere DEF ManifestSet, InPlace, Contexts
  <2>3. WriteManifest(p, m, "final_run")
    BY <1>7 DEF m, BlockedSnapshot
  <2> QED
    BY <1>7, <2>1, <2>3, <2>2, OnlyWriteManifest DEF BlockedSnapshot
<1>8. CASE FinalRun(p)
  <2> DEFINE r == ctx[p].run
  <2>1. Gated(r, manifest, files) /\ r.status # "absent"
    BY <1>8, Somewhere
       DEF Gated, Coherent, Early, InPlace, InStep, FinalRun, Moved, RunRecords
  <2> HIDE DEF r
  <2>2. InPlace(RunSet(ctx[p], r, "final_manifest"), r, manifest, files)
    BY <2>1, Somewhere DEF RunSet, InPlace, Contexts
  <2> QED
    BY <1>8, <2>1, <2>2, OnlyWriteRun DEF r, FinalRun
<1>9. CASE FinalManifest(p)
  <2>1. Gated(run, manifest', files)
    BY <1>9, Somewhere DEF Gated, Coherent, Early, InStep, FinalManifest, Manifests
  <2>2. run.status # "absent"
    BY <1>9, Somewhere DEF FinalManifest
  <2> QED
    BY <1>9, <2>1, <2>2, OnlyEnd DEF FinalManifest
<1> QED
  BY <1>1, <1>2, <1>3, <1>4, <1>5, <1>6, <1>7, <1>8, <1>9

-----------------------------------------------------------------------------
(* Inspection. *)

\* Records that do not lead to the runner do not name it as the next stage.
LEMMA NextIsEarly ==
    ASSUME NEW r \in RunRecords, NEW m \in Manifests, NEW f, Early(r, m)
    PROVE  DetermineNextStage(r, m, f) \notin Running
<1>1. m.checkpoint \in OptionalStage /\ r.stage \in Stages /\ m.pending \in OptionalStage
  BY DEF RunRecords, Manifests
<1>2. StageAfterCheckpoint(m.checkpoint) \notin Running
  <2>1. m.checkpoint # "runner_completed" => StageAfterCheckpoint(m.checkpoint) \notin Running
    BY <1>1 DEF StageAfterCheckpoint, Running, AfterApproval, OptionalStage, Stages, Early
  <2>2. StageAfterCheckpoint("runner_completed") = "verification_started"
    BY DEF StageAfterCheckpoint
  <2> QED
    BY <2>1, <2>2 DEF Running
<1>3. m.pending = NoStage /\ m.checkpoint = NoStage
          => StageAfterCheckpoint(r.stage) \notin Running
  BY <1>1 DEF StageAfterCheckpoint, Running, BeforePolicy, Stages, Early
<1> QED
  BY <1>1, <1>2, <1>3 DEF DetermineNextStage, Early, Running

\* Nor do they lead to an evaluation past an approval.
LEMMA NextIsCoherent ==
    ASSUME NEW r \in RunRecords, NEW m \in Manifests, NEW f, Coherent(r, m),
           DetermineNextStage(r, m, f) \in BeforePolicy
    PROVE  m.checkpoint \notin AfterApproval
<1>1. m.checkpoint \in OptionalStage
  BY DEF Manifests
<1>2. m.checkpoint \in AfterApproval => StageAfterCheckpoint(m.checkpoint) \notin BeforePolicy
  BY <1>1 DEF StageAfterCheckpoint, AfterApproval, BeforePolicy
<1> QED
  BY <1>1, <1>2 DEF DetermineNextStage, Coherent, BeforePolicy, AfterApproval

\* A resolved approval that no checkpoint names stays pending.
LEMMA NextAfterResolved ==
    ASSUME NEW r \in RunRecords, NEW m \in Manifests, NEW f, Early(r, m),
           r.stage = "approval_resolved", m.checkpoint = NoStage
    PROVE  DetermineNextStage(r, m, f) = m.pending /\ m.pending # NoStage
BY DEF DetermineNextStage, Early, Running, BeforePolicy

\* What inspection puts in place of the manifest, for a stage or, if there is
\* none, for the stage the manifest had.
LEMMA InspectionGated ==
    ASSUME NEW r \in RunRecords, NEW m \in Manifests, NEW f, NEW g, NEW status,
           Gated(r, m, f), NEW pending,
           LET next == DetermineNextStage(r, m, g)
           IN  \/ pending = next
               \/ next = NoStage /\ pending = m.stage
    PROVE  Gated(r, Moved(m, status, r.stage, pending), f)
<1> DEFINE next == DetermineNextStage(r, m, g)
           n == Moved(m, status, r.stage, pending)
<1>1. n.stage = r.stage /\ n.pending = pending /\ n.checkpoint = m.checkpoint
  BY DEF Moved, Manifests
<1>2. Coherent(r, m)
  BY DEF Gated
<1>3. Coherent(r, n)
  BY <1>1, <1>2, NextIsCoherent DEF Coherent
<1>4. Early(r, m) => Early(r, n)
  <2> SUFFICES ASSUME Early(r, m)
               PROVE  Early(r, n)
    OBVIOUS
  <2>1. pending \notin Running
    BY NextIsEarly DEF Early
  <2>2. r.stage = "approval_resolved" /\ m.checkpoint = NoStage
            => pending \in BeforePolicy \cup {"awaiting_approval", "approval_resolved"}
    BY NextAfterResolved DEF Early
  <2> QED
    BY <1>1, <2>1, <2>2 DEF Early
<1> QED
  BY <1>3, <1>4 DEF Gated

\* Creation, inspection, resume, verify and the death of a process keep ApprovalInv.
LEMMA ApprovalInspection ==
    ASSUME TypeInv, ApprovalInv, OneCommand, NEW p \in Procs
    PROVE  /\ CreateRun(p) => ApprovalInv'
           /\ \A cmd \in Commands : Invoke(p, cmd) => ApprovalInv'
           /\ Load(p) => ApprovalInv'
           /\ Interrupt(p) => ApprovalInv'
           /\ Inspect(p) => ApprovalInv'
           /\ InspectManifest(p) => ApprovalInv'
           /\ ResumeRun(p) => ApprovalInv'
           /\ ResumeManifest(p) => ApprovalInv'
           /\ Unsupported(p) => ApprovalInv'
           /\ VerifyLoad(p) => ApprovalInv'
           /\ Crash(p) => ApprovalInv'
<1> USE DEF UnloadedLocs, DetachedLocs, EarlyLocs, ApprovalLocs, RunnerLocs,
            BeforePolicy, Running, AfterApproval, At
<1>1. CASE CreateRun(p)
  <2> DEFINE r == Moved(NoRun, "created", "created", "spec_normalized")
             m == [Moved(NoManifest, "created", "created", "spec_normalized")
                       EXCEPT !.head = head]
             c == [Idle EXCEPT !.cmd = "run", !.run = r, !.manifest = m,
                               !.pc = "create_manifest"]
  <2>1. manifest = NoManifest /\ files = NoFiles
    BY <1>1 DEF CreateRun, NoRun, ApprovalInv, Unborn
  <2>2. /\ r.stage = "created" /\ r.status = "created"
        /\ m.stage = "created" /\ m.pending = "spec_normalized" /\ m.checkpoint = NoStage
    BY DEF Moved, NoRun, NoManifest
  <2>3. ctx' = [ctx EXCEPT ![p] = c] /\ run' = r /\ UNCHANGED <<manifest, files>>
    BY <1>1 DEF CreateRun
  <2> HIDE DEF r, m
  <2>4. Early(r, NoManifest) /\ Gated(r, NoManifest, NoFiles)
    BY <2>2 DEF Early, Gated, Coherent, NoManifest
  <2>5. InStep(c, r, NoManifest, NoFiles)
    BY DEF InStep, Idle, NoFiles, Artifacts
  <2>6. InPlace(c, r, NoManifest, NoFiles)
    BY <2>2, <2>4 DEF InPlace, Idle
  <2> HIDE DEF c
  <2> QED
    BY <2>1, <2>2, <2>3, <2>4, <2>5, <2>6, OnlyStep
<1>2. ASSUME NEW cmd \in Commands, Invoke(p, cmd)
      PROVE  ApprovalInv'
  <2> DEFINE c == [Idle EXCEPT !.cmd = cmd,
                       !.pc = IF cmd = "verify" THEN "verify_load" ELSE "load"]
  <2>1. InStep(c, run, manifest, files) /\ InPlace(c, run, manifest, files)
    BY DEF InStep, InPlace, Idle
  <2>2. run.status # "absent" /\ UNCHANGED <<run, manifest, files>>
    BY <1>2 DEF Invoke, ApprovalInv, Unborn
  <2>3. ctx' = [ctx EXCEPT ![p] = c]
    BY <1>2 DEF Invoke
  <2> HIDE DEF c
  <2> QED
    BY <2>1, <2>2, <2>3, Somewhere, OnlyStep
<1>3. CASE Load(p)
  <2> DEFINE loc == IF manifest.status \in ActiveStatuses THEN "interrupt" ELSE "inspect"
             c == [ctx[p] EXCEPT !.run = run, !.manifest = manifest, !.mem = files,
                                 !.pc = loc]
  <2>1. InStep(c, run, manifest, files) /\ InPlace(c, run, manifest, files)
    BY Somewhere DEF InStep, InPlace, Contexts
  <2>2. UNCHANGED <<run, manifest, files>>
    BY <1>3 DEF Load
  <2>3. ctx' = [ctx EXCEPT ![p] = c] \/ ctx' = [ctx EXCEPT ![p] = Idle]
    BY <1>3, Somewhere DEF Load
  <2>4. run.status # "absent"
    <3>1. ctx[p] # Idle
      BY <1>3 DEF Load, Idle
    <3> QED
      BY <3>1 DEF ApprovalInv, Unborn
  <2> HIDE DEF c
  <2> QED
    BY <2>1, <2>2, <2>3, <2>4, Somewhere, OnlyStep, OnlyEnd
<1>4. CASE Interrupt(p)
  <2> DEFINE r    == ctx[p].run
             m    == ctx[p].manifest
             next == DetermineNextStage(r, m, ctx[p].mem)
             r2   == Moved(r, "interrupted", r.stage, IF next = NoStage THEN r.stage ELSE next)
             m2   == Moved(m, "interrupted", r.stage, IF next = NoStage THEN m.stage ELSE next)
             c    == [ctx[p] EXCEPT !.run = r2, !.manifest = m2, !.pc = "inspect"]
  <2>1. r = run /\ m = manifest
    BY <1>4, Somewhere DEF Interrupt, InStep
  <2>2. ctx' = [ctx EXCEPT ![p] = c] /\ run' = r2 /\ UNCHANGED <<manifest, files>>
    BY <1>4, Somewhere DEF Interrupt
  <2>3. r2.stage = r.stage /\ r2.status = "interrupted"
    BY RunTypes DEF Moved, RunRecords
  <2>4. Gated(run, m2, files)
    BY <2>1, Somewhere, InspectionGated
  <2> HIDE DEF r2, m2
  <2>5. Gated(r2, m2, files) /\ Gated(r2, manifest, files)
    BY <2>1, <2>3, <2>4, Somewhere DEF Gated, Coherent, Early
  <2>6. InStep(c, r2, manifest, files)
    BY <1>4, Somewhere DEF Interrupt, InStep, Contexts
  <2>7. InPlace(c, r2, manifest, files)
    BY <2>5, Somewhere DEF InPlace, Contexts
  <2> HIDE DEF c
  <2> QED
    BY <2>2, <2>3, <2>5, <2>6, <2>7, OnlyStep
<1>5. CASE Inspect(p)
  <2> DEFINE r    == ctx[p].run
             m    == ctx[p].manifest
             ok   == Eligible(r, m, ctx[p].mem, Present(files), head)
             next == DetermineNextStage(r, m, ctx[p].mem)
             r2   == Moved(r, InspectedStatus(r, m, ok), r.stage, next)
             c    == [ctx[p] EXCEPT !.run = r2, !.eligible = ok, !.next = next,
                                    !.pc = "inspect_manifest"]
  <2>1. r = run /\ run.status # "absent" /\ m \in Manifests /\ Gated(run, m, files)
    BY <1>5, RunTypes, Somewhere DEF Inspect, InStep, InPlace
  <2>2. r2.stage = r.stage /\ r2.pending = next /\ r2.status = InspectedStatus(r, m, ok)
    BY RunTypes DEF Moved, RunRecords
  <2>3. r2.status # "absent"
    BY <2>1, <2>2 DEF InspectedStatus
  <2>4. ctx' = [ctx EXCEPT ![p] = c] /\ run' = r2 /\ UNCHANGED <<manifest, files>>
    BY <1>5, <2>2, Somewhere DEF Inspect
  <2>5. Gated(run, Moved(m, r2.status, r.stage, next), files)
    BY <2>1, Somewhere, InspectionGated
  <2> HIDE DEF r2, ok, next
  <2>6. InspectedManifest(c) = Moved(m, r2.status, r.stage, next)
    BY <2>2, Somewhere DEF InspectedManifest, Contexts
  <2>7. Gated(r2, InspectedManifest(c), files) /\ Gated(r2, manifest, files)
    BY <2>1, <2>2, <2>5, <2>6, Somewhere DEF Gated, Coherent, Early
  <2>8. InStep(c, r2, manifest, files)
    BY <1>5, Somewhere DEF Inspect, InStep, Contexts
  <2>9. InPlace(c, r2, manifest, files)
    <3>1. c.pc = "inspect_manifest"
      BY Somewhere DEF Contexts
    <3> HIDE DEF c
    <3> QED
      BY <2>7, <3>1 DEF InPlace
  <2> HIDE DEF c
  <2> QED
    BY <2>3, <2>4, <2>7, <2>8, <2>9, OnlyStep
<1>6. CASE InspectManifest(p)
  <2> DEFINE m == InspectedManifest(ctx[p])
             c == [ctx[p] EXCEPT !.manifest = m, !.pc = "resume_run"]
  <2>1. Gated(run, m, files) /\ run.status # "absent"
    BY <1>6, Somewhere DEF InspectManifest, InPlace
  <2>2. m.pending = ctx[p].next
    BY RunTypes DEF InspectedManifest, Moved, Manifests
  <2>3. manifest' = m /\ UNCHANGED <<run, files>>
    BY <1>6 DEF InspectManifest, InspectedManifest
  <2>4. \/ ctx[p].cmd = "resume" /\ ctx' = [ctx EXCEPT ![p] = c]
        \/ ctx' = [ctx EXCEPT ![p] = Idle]
    BY <1>6, Somewhere DEF InspectManifest, InspectedManifest
  <2> HIDE DEF m
  <2>5. InStep(c, run, m, files)
    BY <1>6, Somewhere DEF InspectManifest, InStep, Contexts
  <2>6. ctx[p].cmd = "resume" => InPlace(c, run, m, files)
    BY <2>2, Somewhere DEF InPlace, Contexts
  <2> HIDE DEF c
  <2> QED
    BY <2>1, <2>3, <2>4, <2>5, <2>6, OnlyStep, OnlyEnd
<1>7. CASE ResumeRun(p)
  <2> DEFINE r == Moved(ctx[p].run, "resuming", ctx[p].next, ctx[p].next)
  <2>1. /\ r.stage = ctx[p].next /\ r.status = "resuming"
        /\ manifest.pending = ctx[p].next /\ ctx[p].cmd = "resume"
    BY <1>7, RunTypes, Somewhere DEF ResumeRun, InPlace, Moved, RunRecords
  <2>2. Gated(r, manifest, files)
    BY <2>1, Somewhere DEF Gated, Coherent, Early
  <2> HIDE DEF r
  <2>3. InPlace(RunSet(ctx[p], r, "resume_manifest"), r, manifest, files)
    BY <2>1, Somewhere DEF RunSet, InPlace, Contexts
  <2> QED
    BY <1>7, <2>1, <2>2, <2>3, OnlyWriteRun DEF r, ResumeRun
<1>8. CASE ResumeManifest(p)
  <2> DEFINE next == ctx[p].next
             m    == Moved(ctx[p].manifest, "resuming", next, next)
             loc  == IF next \in HandledStages THEN next ELSE "unsupported"
             c    == [ctx[p] EXCEPT !.manifest = m, !.resumed = TRUE, !.pc = loc]
  <2>1. /\ ctx[p].manifest = manifest /\ manifest.pending = next /\ run.stage = next
        /\ ctx[p].cmd = "resume" /\ run.status # "absent"
    BY <1>8, Somewhere DEF ResumeManifest, InStep, InPlace
  <2>2. m.stage = next /\ m.pending = next /\ m.checkpoint = manifest.checkpoint
    BY <2>1, Somewhere DEF Moved, Manifests
  <2>3. ctx' = [ctx EXCEPT ![p] = c] /\ manifest' = m /\ UNCHANGED <<run, files>>
    BY <1>8, Somewhere DEF ResumeManifest
  <2>4. loc = next \/ loc = "unsupported"
    OBVIOUS
  <2>5. loc \in HandledStages \cup {"unsupported"}
    OBVIOUS
  <2> HIDE DEF m, loc
  <2>6. Gated(run, m, files)
    BY <2>1, <2>2, Somewhere DEF Gated, Coherent, Early
  <2>7. loc \in BeforePolicy => Early(run, m) /\ m.pending \in BeforePolicy
    BY <2>1, <2>2, <2>4, Somewhere DEF Gated, Coherent, Early
  <2>8. loc = "runner_started" => Approved(files)
    BY <2>1, <2>4, Somewhere DEF Gated, Early
  <2>9. loc = "awaiting_approval" => m.pending = "awaiting_approval"
    BY <2>2, <2>4
  <2>10. InStep(c, run, m, files)
    BY <1>8, <2>5, Somewhere DEF ResumeManifest, InStep, Contexts, HandledStages
  <2>11. InPlace(c, run, m, files)
    BY <2>1, <2>5, <2>7, <2>8, <2>9, Somewhere DEF InPlace, Contexts, HandledStages
  <2> HIDE DEF c
  <2> QED
    BY <2>1, <2>3, <2>6, <2>10, <2>11, OnlyStep
<1>9. CASE Unsupported(p)
  <2>1. run.status # "absent"
    BY <1>9, Somewhere DEF Unsupported
  <2> QED
    BY <1>9, <2>1, Somewhere, OnlyEnd DEF Unsupported
<1>10. CASE VerifyLoad(p)
  <2> DEFINE c == [ctx[p] EXCEPT !.run = run, !.manifest = manifest, !.mem = files,
                                 !.pc = "verification_started"]
  <2>1. InStep(c, run, manifest, files) /\ InPlace(c, run, manifest, files)
    BY Somewhere DEF InStep, InPlace, Contexts
  <2>2. ctx' = [ctx EXCEPT ![p] = c] \/ ctx' = [ctx EXCEPT ![p] = Idle]
    BY <1>10, Somewhere DEF VerifyLoad
  <2>3. UNCHANGED <<run, manifest, files>>
    BY <1>10 DEF VerifyLoad
  <2>4. run.status # "absent"
    BY <1>10 DEF VerifyLoad, Idle, ApprovalInv, Unborn
  <2> HIDE DEF c
  <2> QED
    BY <2>1, <2>2, <2>3, <2>4, Somewhere, OnlyStep, OnlyEnd
<1>11. CASE Crash(p)
  <2>1. run.status # "absent"
    BY <1>11 DEF Crash, Idle, ApprovalInv, Unborn
  <2> QED
    BY <1>11, <2>1, Somewhere, OnlyEnd DEF Crash
<1> QED
  BY <1>1, <1>2, <1>3, <1>4, <1>5, <1>6, <1>7, <1>8, <1>9, <1>10, <1>11

\* ApprovalInv holds initially.
LEMMA ApprovalInit == Init => ApprovalInv
<1> SUFFICES ASSUME Init
             PROVE  ApprovalInv
  OBVIOUS
<1>1. Gated(run, manifest, files)
  BY DEF Init, Gated, Coherent, Approved, NoRun, NoManifest, NoFiles, Artifacts, BeforePolicy
<1>2. InStep(Idle, run, manifest, files) /\ InPlace(Idle, run, manifest, files)
  BY DEF InStep, InPlace, Idle, UnloadedLocs, EarlyLocs, BeforePolicy, ApprovalLocs,
         RunnerLocs
<1> QED
  BY <1>1, <1>2 DEF Init, ApprovalInv, Unborn

\* ApprovalInv is inductive relative to TypeInv, for one command at a time.
LEMMA ApprovalStep ==
    ASSUME OneCommand
    PROVE  TypeInv /\ ApprovalInv /\ [Next]_vars => ApprovalInv'
<1> SUFFICES ASSUME TypeInv, ApprovalInv, [Next]_vars
             PROVE  ApprovalInv'
  OBVIOUS
<1>1. CASE UNCHANGED vars
  BY <1>1 DEF vars, ApprovalInv, Unborn
<1>2. CASE HeadMoves
  BY <1>2 DEF HeadMoves, ApprovalInv, Unborn
<1>3. ASSUME NEW p \in Procs,
             \/ CreateRun(p) \/ (\E cmd \in Commands : Invoke(p, cmd))
             \/ OwnStep(p) \/ AwaitedStep(p) \/ Crash(p)
      PROVE  ApprovalInv'
  BY <1>3, ApprovalSpec, ApprovalPolicy, ApprovalAnswer, ApprovalRunner,
     ApprovalVerification, ApprovalInspection
     DEF OwnStep, AwaitedStep
<1> QED
  BY <1>1, <1>2, <1>3 DEF Next

\* The invariant implies the property.
LEMMA ApprovalInvImplies == TypeInv /\ ApprovalInv => PromptIsApproved
BY DEF TypeInv, TypeOK, ApprovalInv, PromptIsApproved, InStep, InPlace, Approved,
       RunnerLocs, UnloadedLocs

\* While commands are given one at a time, the runner of a prompted run is never
\* at work before a human approved it, whatever packets, policies, moves of HEAD,
\* inspections, resumes, verifications and deaths of the process came before.
THEOREM PromptApproved ==
    ASSUME OneCommand
    PROVE  Spec => []PromptIsApproved
<1>1. Init => TypeInv /\ ApprovalInv
  BY TypeInit, ApprovalInit
<1>2. TypeInv /\ ApprovalInv /\ [Next]_vars => (TypeInv /\ ApprovalInv)'
  BY TypeStep, ApprovalStep
<1> QED
  BY <1>1, <1>2, ApprovalInvImplies, PTL DEF Spec

=============================================================================
