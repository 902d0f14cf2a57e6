------------------------- MODULE RunLifecycleProofs -------------------------
(***************************************************************************)
(* What holds of the run lifecycle for every set of processes, packets and *)
(* commands and every number of moves of HEAD.                             *)
(***************************************************************************)
EXTENDS RunInvariants, TLAPS

\* An execution writes five artifacts as its evidence.
LEMMA EvidenceLen == Len(EvidenceOrder) = 5
BY DEF EvidenceOrder

\* The context of a process that is not there has its type.
LEMMA IdleType == Idle \in Contexts /\ Typed(Idle)
BY PacketsAssumption, MaxHeadAssumption, EvidenceLen
   DEF Idle, Contexts, Typed, NoRun, NoManifest, NoFiles, RunRecords, Manifests,
       FileSets, FileValues, Locations, OptionalStage, Stages, Statuses, NoStage,
       ApprovalStatuses, VerificationStatuses, Heads, PacketValues, Artifacts, EvidenceOrder

\* The records and artifacts of a run that does not exist yet have their types.
LEMMA NothingTypes ==
    /\ NoRun \in RunRecords /\ NoManifest \in Manifests /\ NoFiles \in FileSets
    /\ NoFiles["packet"] \in PacketValues /\ 0 \in Heads
BY MaxHeadAssumption
   DEF NoRun, NoManifest, NoFiles, RunRecords, Manifests, FileSets, FileValues,
       NoStage, OptionalStage, Stages, Statuses, ApprovalStatuses,
       VerificationStatuses, Heads, PacketValues, Artifacts

\* A step that gives one process a new context keeps the types.
LEMMA ContextStep ==
    ASSUME TypeInv, NEW p \in Procs, NEW c \in Contexts, Typed(c),
           ctx' = [ctx EXCEPT ![p] = c],
           run' \in RunRecords, manifest' \in Manifests, files' \in FileSets,
           files'["packet"] \in PacketValues, head' \in Heads,
           torn' \in BOOLEAN, stale' \in SUBSET RunnerEvidence,
           answered' \in Packets \cup {"absent"}
    PROVE  TypeInv'
BY DEF TypeInv, TypeOK

\* Writing a run record keeps the types (persistRunStatus).
LEMMA WriteRunStep ==
    ASSUME TypeInv, NEW p \in Procs, NEW r \in RunRecords, NEW loc \in Locations,
           Typed([ctx[p] EXCEPT !.run = r, !.pc = loc]),
           WriteRun(p, r, loc), UNCHANGED others
    PROVE  TypeInv'
<1>1. ctx' = [ctx EXCEPT ![p] = [ctx[p] EXCEPT !.run = r, !.pc = loc]]
  BY DEF WriteRun, TypeInv, TypeOK
<1>2. [ctx[p] EXCEPT !.run = r, !.pc = loc] \in Contexts
  BY DEF TypeInv, TypeOK, Contexts
<1> QED
  BY <1>1, <1>2, ContextStep DEF TypeInv, TypeOK, WriteRun, others

\* Writing a manifest keeps the types (persistSessionManifest).
LEMMA WriteManifestStep ==
    ASSUME TypeInv, NEW p \in Procs, NEW m \in Manifests, NEW loc \in Locations,
           Typed([ctx[p] EXCEPT !.manifest = m, !.pc = loc]),
           WriteManifest(p, m, loc), UNCHANGED others
    PROVE  TypeInv'
<1>1. ctx' = [ctx EXCEPT ![p] = [ctx[p] EXCEPT !.manifest = m, !.pc = loc]]
  BY DEF WriteManifest, TypeInv, TypeOK
<1>2. [ctx[p] EXCEPT !.manifest = m, !.pc = loc] \in Contexts
  BY DEF TypeInv, TypeOK, Contexts
<1> QED
  BY <1>1, <1>2, ContextStep DEF TypeInv, TypeOK, WriteManifest, others

\* Going on without writing keeps the types.
LEMMA GoToStep ==
    ASSUME TypeInv, NEW p \in Procs, NEW loc \in Locations,
           Typed([ctx[p] EXCEPT !.pc = loc]), GoTo(p, loc),
           head' \in Heads, torn' \in BOOLEAN, stale' \in SUBSET RunnerEvidence,
           answered' \in Packets \cup {"absent"}
    PROVE  TypeInv'
<1>1. ctx' = [ctx EXCEPT ![p] = [ctx[p] EXCEPT !.pc = loc]]
  BY DEF GoTo, TypeInv, TypeOK
<1>2. [ctx[p] EXCEPT !.pc = loc] \in Contexts
  BY DEF TypeInv, TypeOK, Contexts
<1> QED
  BY <1>1, <1>2, ContextStep DEF TypeInv, TypeOK, GoTo

\* Artifacts laid over others.
LEMMA OverlayType ==
    ASSUME NEW f \in FileSets, NEW new, DOMAIN new \subseteq Artifacts,
           \A a \in DOMAIN new : new[a] \in FileValues
    PROVE  Overlay(new, f) \in FileSets
BY DEF Overlay, FileSets

\* Writing artifacts keeps the types (writeTextArtifact).
LEMMA WriteFilesStep ==
    ASSUME TypeInv, NEW p \in Procs, NEW new, NEW loc \in Locations,
           DOMAIN new \subseteq Artifacts,
           \A a \in DOMAIN new : new[a] \in FileValues,
           "packet" \in DOMAIN new => new["packet"] \in PacketValues,
           Typed([ctx[p] EXCEPT !.mem = Overlay(new, ctx[p].mem), !.pc = loc]),
           WriteFiles(p, new, loc),
           UNCHANGED <<head, torn, stale>>, answered' \in Packets \cup {"absent"}
    PROVE  TypeInv'
<1>1. ctx' = [ctx EXCEPT ![p] = [ctx[p] EXCEPT !.mem = Overlay(new, ctx[p].mem),
                                               !.pc = loc]]
  BY DEF WriteFiles, TypeInv, TypeOK
<1>2. [ctx[p] EXCEPT !.mem = Overlay(new, ctx[p].mem), !.pc = loc] \in Contexts
  BY OverlayType DEF TypeInv, TypeOK, Contexts
<1>3. files' \in FileSets /\ files'["packet"] \in PacketValues
  BY OverlayType DEF TypeInv, TypeOK, WriteFiles, Overlay, Artifacts
<1> QED
  BY <1>1, <1>2, <1>3, ContextStep DEF TypeInv, TypeOK, WriteFiles

\* The process ends, or is killed.
LEMMA EndStep ==
    ASSUME TypeInv, NEW p \in Procs, ctx' = [ctx EXCEPT ![p] = Idle],
           run' = run, manifest' \in Manifests, files' = files, head' = head,
           torn' \in BOOLEAN, stale' = stale, answered' = answered
    PROVE  TypeInv'
BY IdleType, ContextStep DEF TypeInv, TypeOK

-----------------------------------------------------------------------------
(* The records that are written have their types. *)

USE DEF NoStage

\* What TypeInv says of the context of one process.
LEMMA RunTypes ==
    ASSUME TypeInv, NEW p \in Procs
    PROVE  /\ ctx[p] \in Contexts /\ ctx[p].run \in RunRecords
           /\ ctx[p].manifest \in Manifests /\ ctx[p].mem \in FileSets
           /\ Typed(ctx[p])
BY DEF TypeInv, TypeOK, Contexts

\* A run record moved to a stage is a run record (updateRunStage).
LEMMA MovedRun ==
    ASSUME NEW r \in RunRecords, NEW status \in Statuses, NEW stage \in Stages,
           NEW pending \in OptionalStage
    PROVE  Moved(r, status, stage, pending) \in RunRecords
BY DEF Moved, RunRecords

\* A manifest moved to a stage is a manifest.
LEMMA MovedManifest ==
    ASSUME NEW m \in Manifests, NEW status \in Statuses, NEW stage \in Stages,
           NEW pending \in OptionalStage
    PROVE  Moved(m, status, stage, pending) \in Manifests
BY DEF Moved, Manifests

\* A manifest with another checkpoint is a manifest.
LEMMA CheckpointedType ==
    ASSUME NEW m \in Manifests, NEW stage \in Stages
    PROVE  Checkpointed(m, stage) \in Manifests
BY DEF Checkpointed, Manifests, OptionalStage

\* A manifest with another status, approval or HEAD is a manifest.
LEMMA ManifestFields ==
    ASSUME NEW m \in Manifests
    PROVE  /\ \A status \in Statuses : [m EXCEPT !.status = status] \in Manifests
           /\ \A approval \in ApprovalStatuses :
                  [m EXCEPT !.approval = approval] \in Manifests
           /\ \A h \in Heads : [m EXCEPT !.head = h] \in Manifests
BY DEF Manifests

\* The places of which Typed says nothing.
PlainLocs == Locations \ {"evidence", "policy_running", "policy_run",
                          "policy_manifest", "verdict_run", "inspect_manifest",
                          "resume_run", "resume_manifest"}

\* WriteRunStep for the places of which Typed says nothing.
LEMMA PlainRun ==
    ASSUME TypeInv, NEW p \in Procs, NEW r \in RunRecords, NEW loc \in PlainLocs,
           WriteRun(p, r, loc), UNCHANGED others
    PROVE  TypeInv'
<1>1. Typed([ctx[p] EXCEPT !.run = r, !.pc = loc])
  BY RunTypes DEF Typed, PlainLocs, Contexts
<1> QED
  BY <1>1, WriteRunStep DEF PlainLocs

\* WriteManifestStep for those places.
LEMMA PlainManifest ==
    ASSUME TypeInv, NEW p \in Procs, NEW m \in Manifests, NEW loc \in PlainLocs,
           WriteManifest(p, m, loc), UNCHANGED others
    PROVE  TypeInv'
<1>1. Typed([ctx[p] EXCEPT !.manifest = m, !.pc = loc])
  BY RunTypes DEF Typed, PlainLocs, Contexts
<1> QED
  BY <1>1, WriteManifestStep DEF PlainLocs

\* GoToStep for those places.
LEMMA PlainGoTo ==
    ASSUME TypeInv, NEW p \in Procs, NEW loc \in PlainLocs, GoTo(p, loc),
           UNCHANGED others
    PROVE  TypeInv'
<1>1. Typed([ctx[p] EXCEPT !.pc = loc])
  BY RunTypes DEF Typed, PlainLocs, Contexts
<1> QED
  BY <1>1, GoToStep DEF PlainLocs, TypeInv, TypeOK, others

\* WriteFilesStep for those places.
LEMMA PlainFiles ==
    ASSUME TypeInv, NEW p \in Procs, NEW new, NEW loc \in PlainLocs,
           DOMAIN new \subseteq Artifacts,
           \A a \in DOMAIN new : new[a] \in FileValues,
           "packet" \in DOMAIN new => new["packet"] \in PacketValues,
           WriteFiles(p, new, loc),
           UNCHANGED <<head, torn, stale>>, answered' \in Packets \cup {"absent"}
    PROVE  TypeInv'
<1>1. Typed([ctx[p] EXCEPT !.mem = Overlay(new, ctx[p].mem), !.pc = loc])
  BY RunTypes DEF Typed, PlainLocs, Contexts, Overlay, Artifacts
<1> QED
  BY <1>1, WriteFilesStep DEF PlainLocs

-----------------------------------------------------------------------------
\* The handlers of the spec and of the plan keep the types.
LEMMA TypeSpec ==
    ASSUME TypeInv, NEW p \in Procs
    PROVE  /\ CreateManifest(p) => TypeInv'
           /\ NormalizeSpec(p) => TypeInv'
           /\ SpecRun(p) => TypeInv'
           /\ SpecManifest(p) => TypeInv'
           /\ CreatePlan(p) => TypeInv'
           /\ PlanRun(p) => TypeInv'
           /\ PlanManifest(p) => TypeInv'
<1> USE DEF Locations, HandledStages, PlainLocs
<1>0. ctx[p] \in Contexts /\ ctx[p].run.status \in Statuses
      /\ ctx[p].manifest.status \in Statuses
  BY RunTypes DEF RunRecords, Manifests
<1>1. CreateManifest(p) => TypeInv'
  BY RunTypes, PlainManifest DEF CreateManifest
<1>2. NormalizeSpec(p) => TypeInv'
  BY PlainFiles DEF NormalizeSpec, Artifacts, FileValues, TypeInv, TypeOK, others
<1>3. SpecRun(p) => TypeInv'
  BY <1>0, RunTypes, MovedRun, PlainRun DEF SpecRun, Statuses, Stages, OptionalStage
<1>4. SpecManifest(p) => TypeInv'
  BY <1>0, RunTypes, MovedManifest, CheckpointedType, PlainManifest
     DEF SpecManifest, Stages, OptionalStage
<1>5. CreatePlan(p) => TypeInv'
  BY PlainFiles DEF CreatePlan, Artifacts, FileValues, TypeInv, TypeOK, others
<1>6. PlanRun(p) => TypeInv'
  BY <1>0, RunTypes, MovedRun, PlainRun DEF PlanRun, Stages, OptionalStage
<1>7. PlanManifest(p) => TypeInv'
  BY <1>0, RunTypes, MovedManifest, CheckpointedType, PlainManifest
     DEF PlanManifest, Stages, OptionalStage
<1> QED
  BY <1>1, <1>2, <1>3, <1>4, <1>5, <1>6, <1>7

\* handlePolicyEvaluated keeps the types.
LEMMA TypePolicy ==
    ASSUME TypeInv, NEW p \in Procs
    PROVE  /\ EvaluatePolicy(p) => TypeInv'
           /\ PolicyRunning(p) => TypeInv'
           /\ PolicyRun(p) => TypeInv'
           /\ PolicyManifest(p) => TypeInv'
           /\ ForbidRun(p) => TypeInv'
           /\ ForbidManifest(p) => TypeInv'
           /\ RequestApproval(p) => TypeInv'
           /\ PromptRun(p) => TypeInv'
           /\ PromptManifest(p) => TypeInv'
<1> USE DEF Locations, HandledStages, PlainLocs
<1>0. ctx[p] \in Contexts /\ ctx[p].run.status \in Statuses
      /\ ctx[p].manifest.status \in Statuses
  BY RunTypes DEF RunRecords, Manifests
<1>1. CASE EvaluatePolicy(p)
  <2>1. PICK d \in Decisions :
            WriteFiles(p, [preview |-> "present", decision |-> d],
                       IF Fresh(p) THEN "policy_running" ELSE AfterPolicy(d))
    BY <1>1 DEF EvaluatePolicy
  <2> DEFINE new == [preview |-> "present", decision |-> d]
             loc == IF Fresh(p) THEN "policy_running" ELSE AfterPolicy(d)
  <2>2. loc \in Locations
    BY DEF AfterPolicy, Decisions
  <2>3. DOMAIN new \subseteq Artifacts /\ (\A a \in DOMAIN new : new[a] \in FileValues)
        /\ "packet" \notin DOMAIN new
    BY DEF Artifacts, FileValues
  <2>4. Typed([ctx[p] EXCEPT !.mem = Overlay(new, ctx[p].mem), !.pc = loc])
    BY <1>0, RunTypes DEF Typed, Contexts, Overlay, Artifacts, AfterPolicy, Decisions
  <2> QED
    BY ZenonT(30), <1>1, <2>1, <2>2, <2>3, <2>4, WriteFilesStep
       DEF EvaluatePolicy, others, TypeInv, TypeOK
<1>2. CASE PolicyRunning(p)
  <2> DEFINE r == [ctx[p].run EXCEPT !.status = "running"]
  <2>1. r \in RunRecords
    BY <1>0, RunTypes DEF RunRecords, Statuses
  <2>2. Typed([ctx[p] EXCEPT !.run = r, !.pc = "policy_run"])
    BY <1>0, <1>2, RunTypes DEF Typed, Contexts, PolicyRunning, At
  <2> QED
    BY <1>2, <2>1, <2>2, WriteRunStep DEF PolicyRunning
<1>3. CASE PolicyRun(p)
  <2> DEFINE r == Moved(ctx[p].run, ctx[p].run.status, "policy_evaluated",
                        PendingAfterPolicy(ctx[p].mem["decision"]))
  <2>1. r \in RunRecords
    BY <1>0, RunTypes, MovedRun DEF Stages, OptionalStage, PendingAfterPolicy
  <2>2. Typed([ctx[p] EXCEPT !.run = r, !.pc = "policy_manifest"])
    BY <1>0, <1>3, RunTypes DEF Typed, Contexts, PolicyRun, At
  <2> QED
    BY <1>3, <2>1, <2>2, WriteRunStep DEF PolicyRun
<1>4. CASE PolicyManifest(p)
  <2> DEFINE d == ctx[p].mem["decision"]
             m == Checkpointed(Moved(ctx[p].manifest, ctx[p].manifest.status,
                                     "policy_evaluated", PendingAfterPolicy(d)),
                               "policy_evaluated")
  <2>1. m \in Manifests
    BY <1>0, RunTypes, MovedManifest, CheckpointedType
       DEF Stages, OptionalStage, PendingAfterPolicy
  <2>2. AfterPolicy(d) \in PlainLocs
    BY <1>4, RunTypes DEF Typed, PolicyManifest, At, AfterPolicy, Decisions
  <2> QED
    BY <1>4, <2>1, <2>2, PlainManifest DEF PolicyManifest
<1>5. CASE ForbidRun(p)
  BY <1>5, RunTypes, MovedRun, PlainRun DEF ForbidRun, Statuses, Stages, OptionalStage
<1>6. CASE ForbidManifest(p)
  <2> DEFINE m == IF Fresh(p)
                  THEN Moved(ctx[p].manifest, "failed", "policy_evaluated", NoStage)
                  ELSE [ctx[p].manifest EXCEPT !.status = "failed"]
  <2>1. m \in Manifests
    BY RunTypes, MovedManifest, ManifestFields DEF Statuses, Stages, OptionalStage
  <2> QED
    BY <1>6, <2>1, PlainManifest DEF ForbidManifest, AfterAdvance
<1>7. CASE RequestApproval(p)
  <2>1. PICK k \in Packets :
            WriteFiles(p, [packet |-> k],
                       IF Fresh(p) THEN "prompt_run" ELSE "awaiting_approval")
    BY <1>7 DEF RequestApproval
  <2> QED
    BY <1>7, <2>1, PlainFiles
       DEF RequestApproval, Artifacts, FileValues, PacketValues, others, TypeInv, TypeOK
<1>8. CASE PromptRun(p)
  BY <1>8, RunTypes, MovedRun, PlainRun DEF PromptRun, Statuses, Stages, OptionalStage
<1>9. CASE PromptManifest(p)
  <2> DEFINE d == Moved(ctx[p].manifest, "awaiting_approval", "awaiting_approval",
                        "awaiting_approval")
  <2>1. d \in Manifests
    BY RunTypes, MovedManifest DEF Statuses, Stages, OptionalStage
  <2>2. [d EXCEPT !.approval = "pending"] \in Manifests
    BY <2>1, ManifestFields DEF ApprovalStatuses
  <2> QED
    BY <1>9, <2>2, PlainManifest DEF PromptManifest
<1> QED
  BY <1>1, <1>2, <1>3, <1>4, <1>5, <1>6, <1>7, <1>8, <1>9

\* handleAwaitingApproval keeps the types.
LEMMA TypeApproval ==
    ASSUME TypeInv, NEW p \in Procs
    PROVE  /\ AskHuman(p) => TypeInv'
           /\ NobodyToAsk(p) => TypeInv'
           /\ ReuseResolution(p) => TypeInv'
           /\ PauseRun(p) => TypeInv'
           /\ PauseManifest(p) => TypeInv'
           /\ DenyRun(p) => TypeInv'
           /\ DenyManifest(p) => TypeInv'
           /\ ApproveRun(p) => TypeInv'
           /\ ApproveManifest(p) => TypeInv'
<1> USE DEF Locations, HandledStages, PlainLocs
<1>1. CASE AskHuman(p)
  <2>1. PICK answer \in Resolutions :
            WriteFiles(p, [resolution |-> answer], "resolved")
    BY <1>1 DEF AskHuman
  <2>2. answered' \in Packets \cup {"absent"}
    BY <1>1, RunTypes DEF AskHuman, Typed, PacketValues
  <2> QED
    BY <1>1, <2>1, <2>2, PlainFiles DEF AskHuman, Artifacts, FileValues
<1>2. CASE NobodyToAsk(p)
  BY <1>2, PlainGoTo DEF NobodyToAsk
<1>3. CASE ReuseResolution(p)
  BY <1>3, PlainGoTo DEF ReuseResolution
<1>4. CASE PauseRun(p)
  <2>1. [ctx[p].run EXCEPT !.status = "awaiting_approval"] \in RunRecords
    BY RunTypes DEF RunRecords, Statuses
  <2> QED
    BY <1>4, <2>1, PlainRun DEF PauseRun
<1>5. CASE PauseManifest(p)
  <2>1. [ctx[p].manifest EXCEPT !.status = "awaiting_approval",
                                !.approval = "pending"] \in Manifests
    BY RunTypes DEF Manifests, Statuses, ApprovalStatuses
  <2> QED
    BY <1>5, <2>1, PlainManifest DEF PauseManifest, AfterAdvance
<1>6. CASE DenyRun(p)
  BY <1>6, RunTypes, MovedRun, PlainRun DEF DenyRun, Statuses, Stages, OptionalStage
<1>7. CASE DenyManifest(p)
  <2> DEFINE d == [ctx[p].manifest EXCEPT !.approval = "denied"]
             m == IF Fresh(p) THEN Moved(d, "abandoned", "approval_resolved", NoStage)
                  ELSE [d EXCEPT !.status = "abandoned"]
  <2>1. d \in Manifests
    BY RunTypes DEF Manifests, ApprovalStatuses
  <2>2. m \in Manifests
    BY <2>1, MovedManifest, ManifestFields DEF Statuses, Stages, OptionalStage
  <2> QED
    BY <1>7, <2>2, PlainManifest DEF DenyManifest, AfterAdvance
<1>8. CASE ApproveRun(p)
  BY <1>8, RunTypes, MovedRun, PlainRun DEF ApproveRun, Statuses, Stages, OptionalStage
<1>9. CASE ApproveManifest(p)
  <2> DEFINE c == Checkpointed(Moved(ctx[p].manifest, "in_progress",
                                     "approval_resolved", "runner_started"),
                               "approval_resolved")
             m == [c EXCEPT !.approval = "approved"]
  <2>1. c \in Manifests
    BY RunTypes, MovedManifest, CheckpointedType DEF Statuses, Stages, OptionalStage
  <2>2. m \in Manifests
    BY <2>1 DEF Manifests, ApprovalStatuses
  <2> QED
    BY <1>9, <2>2, PlainManifest DEF ApproveManifest
<1> QED
  BY <1>1, <1>2, <1>3, <1>4, <1>5, <1>6, <1>7, <1>8, <1>9

\* A context with other artifacts in memory.
LEMMA MemoryWritten ==
    ASSUME NEW c \in Contexts, NEW m \in FileSets, NEW n \in 0 .. Len(EvidenceOrder),
           NEW loc \in Locations
    PROVE  [c EXCEPT !.mem = m, !.written = n, !.pc = loc] \in Contexts
BY DEF Contexts

\* handleRunnerStarted keeps the types.
LEMMA TypeRunner ==
    ASSUME TypeInv, NEW p \in Procs
    PROVE  /\ RunnerRun(p) => TypeInv'
           /\ RunnerManifest(p) => TypeInv'
           /\ LaunchRunner(p) => TypeInv'
           /\ RunnerReturns(p) => TypeInv'
           /\ PersistEvidence(p) => TypeInv'
           /\ CompletedManifest(p) => TypeInv'
           /\ CompletedRun(p) => TypeInv'
           /\ CompletedSnapshot(p) => TypeInv'
           /\ RelapseRun(p) => TypeInv'
           /\ RelapseManifest(p) => TypeInv'
<1> USE DEF Locations, HandledStages, PlainLocs
<1>0. ctx[p] \in Contexts
  BY RunTypes
<1>1. CASE RunnerRun(p)
  <2> DEFINE r == Moved(ctx[p].run, "in_progress", "runner_started", "runner_completed")
             c == [ctx[p] EXCEPT !.run = r, !.executed = TRUE, !.pc = "runner_manifest"]
  <2>1. r \in RunRecords
    BY RunTypes, MovedRun DEF Statuses, Stages, OptionalStage
  <2> HIDE DEF r
  <2>2. c \in Contexts
    BY <1>0, <2>1 DEF Contexts
  <2>4. Typed(c)
    BY <1>0, RunTypes DEF Contexts, Typed
  <2>3. ctx' = [ctx EXCEPT ![p] = c] /\ run' = r
    BY <1>1 DEF r, RunnerRun, TypeInv, TypeOK
  <2> QED
    BY <1>1, <2>1, <2>2, <2>3, <2>4, ContextStep DEF RunnerRun, others, TypeInv, TypeOK
<1>2. CASE RunnerManifest(p)
  BY <1>2, RunTypes, MovedManifest, PlainManifest
     DEF RunnerManifest, Statuses, Stages, OptionalStage
<1>3. CASE LaunchRunner(p)
  <2>1. Typed([ctx[p] EXCEPT !.pc = "executing"])
    BY <1>0, RunTypes DEF Typed, Contexts
  <2> QED
    BY <1>3, <2>1, GoToStep DEF LaunchRunner, TypeInv, TypeOK
<1>4. CASE RunnerReturns(p)
  <2>1. PICK result \in RunnerResults :
            ctx' = [ctx EXCEPT ![p].mem["result"] = result, ![p].written = 0,
                               ![p].pc = "evidence"]
    BY <1>4 DEF RunnerReturns
  <2> DEFINE mem == [ctx[p].mem EXCEPT !["result"] = result]
             c == [ctx[p] EXCEPT !.mem = mem, !.written = 0, !.pc = "evidence"]
  <2>2. mem \in FileSets
    BY RunTypes DEF FileSets, FileValues
  <2>3. mem["packet"] = ctx[p].mem["packet"]
    BY RunTypes DEF FileSets, Artifacts
  <2> HIDE DEF mem
  <2>4. c \in Contexts
    <3>1. 0 \in 0 .. Len(EvidenceOrder)
      BY EvidenceLen
    <3>2. "evidence" \in Locations
      OBVIOUS
    <3> HIDE DEF Locations
    <3> QED
      BY <1>0, <2>2, <3>1, <3>2, MemoryWritten
  <2>6. Typed(c)
    BY <1>0, <2>3, RunTypes, EvidenceLen DEF Contexts, Typed
  <2>5. ctx' = [ctx EXCEPT ![p] = c]
    BY <2>1, <1>0 DEF mem, TypeInv, TypeOK, Contexts
  <2> QED
    BY <1>4, <2>4, <2>5, <2>6, ContextStep DEF RunnerReturns, others, TypeInv, TypeOK
<1>5. CASE PersistEvidence(p)
  <2> DEFINE n    == ctx[p].written + 1
             kind == EvidenceOrder[n]
             loc  == IF n = Len(EvidenceOrder) THEN AfterEvidence(p) ELSE "evidence"
  <2>1. n \in 1 .. Len(EvidenceOrder) /\ n \in 0 .. Len(EvidenceOrder)
    BY <1>0, <1>5, RunTypes, EvidenceLen DEF PersistEvidence, At, Typed, Contexts
  <2>2. kind \in RunnerEvidence
    BY <2>1, EvidenceLen DEF EvidenceOrder, RunnerEvidence
  <2>3. PICK value :
            /\ value \in (CASE kind = "result" -> {ctx[p].mem["result"]}
                            [] kind = "audit"  -> AuditResults
                            [] OTHER           -> {"present"})
            /\ files' = [files EXCEPT ![kind] = value]
            /\ ctx' = [ctx EXCEPT ![p].mem[kind] = value, ![p].written = n,
                                  ![p].pc = loc]
            /\ stale' = stale \ {kind}
    BY <1>5 DEF PersistEvidence
  <2>4. ctx[p].mem["result"] \in FileValues
    BY RunTypes DEF FileSets, Artifacts
  <2>5. value \in FileValues
    BY <2>3, <2>4 DEF FileValues
  <2> DEFINE mem == [ctx[p].mem EXCEPT ![kind] = value]
             c == [ctx[p] EXCEPT !.mem = mem, !.written = n, !.pc = loc]
  <2> HIDE DEF n, kind
  <2>6. mem \in FileSets /\ mem["packet"] = ctx[p].mem["packet"]
    BY <2>2, <2>5, RunTypes DEF FileSets, Artifacts, RunnerEvidence
  <2>7. files' \in FileSets /\ files'["packet"] \in PacketValues
    BY <2>2, <2>3, <2>5 DEF FileSets, Artifacts, RunnerEvidence, TypeInv, TypeOK
  <2>8. loc \in Locations /\ (loc = "evidence" => n < Len(EvidenceOrder))
        /\ (loc # "evidence" => loc \in PlainLocs)
    BY <2>1, EvidenceLen DEF AfterEvidence
  <2> HIDE DEF mem, loc
  <2>9. c \in Contexts
    BY <1>0, <2>1, <2>6, <2>8, MemoryWritten
  <2>11. Typed(c)
    BY <1>0, <2>1, <2>6, <2>8, RunTypes DEF Contexts, Typed, PlainLocs
  <2>10. ctx' = [ctx EXCEPT ![p] = c]
    BY <2>3, <1>0 DEF mem, loc, TypeInv, TypeOK, Contexts
  <2> QED
    BY <1>5, <2>3, <2>7, <2>9, <2>10, <2>11, ContextStep
       DEF PersistEvidence, TypeInv, TypeOK
<1>6. CASE CompletedManifest(p)
  BY <1>6, RunTypes, MovedManifest, CheckpointedType, PlainManifest
     DEF CompletedManifest, ExecutionStatus, ExecutionPending,
         Statuses, Stages, OptionalStage
<1>7. CASE CompletedRun(p)
  BY <1>7, RunTypes, MovedRun, PlainRun
     DEF CompletedRun, ExecutionStatus, ExecutionPending, Statuses, Stages, OptionalStage
<1>8. CASE CompletedSnapshot(p)
  BY <1>8, RunTypes, ManifestFields, PlainManifest DEF CompletedSnapshot, TypeInv, TypeOK
<1>9. CASE RelapseRun(p)
  BY <1>9, RunTypes, MovedRun, PlainRun DEF RelapseRun, Statuses, Stages, OptionalStage
<1>10. CASE RelapseManifest(p)
  BY <1>10, RunTypes, MovedManifest, PlainManifest
     DEF RelapseManifest, Statuses, Stages, OptionalStage
<1> QED
  BY <1>1, <1>2, <1>3, <1>4, <1>5, <1>6, <1>7, <1>8, <1>9, <1>10

\* Verification and the finalization of a fresh run keep the types.
LEMMA TypeVerification ==
    ASSUME TypeInv, NEW p \in Procs
    PROVE  /\ VerificationRun(p) => TypeInv'
           /\ VerificationManifest(p) => TypeInv'
           /\ RunVerification(p) => TypeInv'
           /\ VerdictRun(p) => TypeInv'
           /\ VerdictManifest(p) => TypeInv'
           /\ Finalize(p) => TypeInv'
           /\ BlockedSnapshot(p) => TypeInv'
           /\ FinalRun(p) => TypeInv'
           /\ FinalManifest(p) => TypeInv'
<1> USE DEF Locations, HandledStages, PlainLocs
<1>0. ctx[p] \in Contexts
  BY RunTypes
<1>1. CASE VerificationRun(p)
  <2> DEFINE r == IF ctx[p].cmd = "verify"
                  THEN [ctx[p].run EXCEPT !.status = "verifying"]
                  ELSE Moved(ctx[p].run, "verifying", "verification_started",
                             "verification_completed")
  <2>1. [ctx[p].run EXCEPT !.status = "verifying"] \in RunRecords
    BY RunTypes DEF RunRecords, Statuses
  <2>2. r \in RunRecords
    BY <2>1, RunTypes, MovedRun DEF Statuses, Stages, OptionalStage
  <2> QED
    BY <1>1, <2>2, PlainRun DEF VerificationRun
<1>2. CASE VerificationManifest(p)
  BY <1>2, RunTypes, MovedManifest, PlainManifest
     DEF VerificationManifest, Statuses, Stages, OptionalStage
<1>3. CASE RunVerification(p)
  <2>1. PICK v \in Verdicts : WriteFiles(p, [verification |-> v], "verdict_run")
    BY <1>3 DEF RunVerification, Verdicts
  <2> DEFINE new == [verification |-> v]
  <2>2. DOMAIN new \subseteq Artifacts /\ (\A a \in DOMAIN new : new[a] \in FileValues)
        /\ "packet" \notin DOMAIN new
    BY DEF Artifacts, FileValues
  <2>3. Typed([ctx[p] EXCEPT !.mem = Overlay(new, ctx[p].mem), !.pc = "verdict_run"])
    BY <1>0, RunTypes DEF Typed, Contexts, Overlay, Artifacts
  <2> QED
    BY <1>3, <2>1, <2>2, <2>3, WriteFilesStep
       DEF RunVerification, others, TypeInv, TypeOK
<1>4. CASE VerdictRun(p)
  <2> DEFINE r == Moved(ctx[p].run, FinalStatus(p), "verification_completed", NoStage)
             v == ctx[p].mem["verification"]
  <2>1. r \in RunRecords
    BY RunTypes, MovedRun DEF FinalStatus, Statuses, Stages, OptionalStage
  <2>2. v \in VerificationStatuses
    BY <1>4, RunTypes DEF VerdictRun, At, Typed, Verdicts, VerificationStatuses
  <2>3. [r EXCEPT !.verification = v] \in RunRecords
    BY <2>1, <2>2 DEF RunRecords
  <2> QED
    BY <1>4, <2>3, PlainRun DEF VerdictRun
<1>5. CASE VerdictManifest(p)
  <2> DEFINE m == Moved(ctx[p].manifest, FinalStatus(p), "verification_completed",
                        NoStage)
             w == IF Fresh(p) THEN Checkpointed(m, "verification_completed") ELSE m
  <2>1. m \in Manifests
    BY RunTypes, MovedManifest DEF FinalStatus, Statuses, Stages, OptionalStage
  <2>2. w \in Manifests
    BY <2>1, CheckpointedType DEF Stages
  <2>3. CASE ctx[p].cmd = "verify"
    BY <1>5, <2>1, <2>3, EndStep DEF VerdictManifest
  <2>4. CASE ctx[p].cmd # "verify"
    BY <1>5, <2>2, <2>4, PlainManifest DEF VerdictManifest, AfterAdvance, others
  <2> QED
    BY <2>3, <2>4
<1>6. CASE Finalize(p)
  <2>1. CASE ctx[p].executed
    <3>1. GoTo(p, "final_run") /\ UNCHANGED others
      BY <1>6, <2>1 DEF Finalize, GoTo, others
    <3> QED
      BY <3>1, PlainGoTo
  <2>2. CASE ~ctx[p].executed
    <3> DEFINE mem == [ctx[p].mem EXCEPT !["result"] = "blocked"]
               c == [ctx[p] EXCEPT !.mem = mem, !.written = 0, !.pc = "evidence"]
    <3>1. mem \in FileSets
      BY RunTypes DEF FileSets, FileValues, RunnerResults
    <3>2. mem["packet"] = ctx[p].mem["packet"]
      BY RunTypes DEF FileSets, Artifacts
    <3> HIDE DEF mem
    <3>3. c \in Contexts
      <4>1. 0 \in 0 .. Len(EvidenceOrder)
        BY EvidenceLen
      <4>2. "evidence" \in Locations
        OBVIOUS
      <4> HIDE DEF Locations
      <4> QED
        BY <1>0, <3>1, <4>1, <4>2, MemoryWritten
    <3>4. Typed(c)
      BY <1>0, <3>2, RunTypes, EvidenceLen DEF Contexts, Typed
    <3>5. ctx' = [ctx EXCEPT ![p] = c]
      BY <1>6, <2>2, <1>0 DEF mem, Finalize, TypeInv, TypeOK, Contexts
    <3> QED
      BY <1>6, <3>3, <3>4, <3>5, ContextStep DEF Finalize, others, TypeInv, TypeOK
  <2> QED
    BY <2>1, <2>2
<1>7. CASE BlockedSnapshot(p)
  BY <1>7, RunTypes, ManifestFields, PlainManifest DEF BlockedSnapshot, TypeInv, TypeOK
<1>8. CASE FinalRun(p)
  BY <1>8, RunTypes, PlainRun DEF FinalRun
<1>9. CASE FinalManifest(p)
  <2>1. [ctx[p].manifest EXCEPT !.status = ctx[p].run.status] \in Manifests
    BY RunTypes, ManifestFields DEF RunRecords
  <2> QED
    BY <1>9, <2>1, EndStep DEF FinalManifest, others, TypeInv, TypeOK
<1> QED
  BY <1>1, <1>2, <1>3, <1>4, <1>5, <1>6, <1>7, <1>8, <1>9

-----------------------------------------------------------------------------
(* Inspection. *)

\* determineNextStage gives a stage or none.
LEMMA NextStageType ==
    ASSUME NEW r \in RunRecords, NEW m \in Manifests, NEW f \in FileSets
    PROVE  DetermineNextStage(r, m, f) \in OptionalStage
<1>1. \A stage \in Stages : StageAfterCheckpoint(stage) \in OptionalStage
  BY DEF StageAfterCheckpoint, Stages, OptionalStage
<1>2. m.pending \in OptionalStage /\ m.checkpoint \in OptionalStage /\ r.stage \in Stages
  BY DEF RunRecords, Manifests
<1>3. m.checkpoint # NoStage => m.checkpoint \in Stages
  BY <1>2 DEF OptionalStage
<1> QED
  BY <1>1, <1>2, <1>3 DEF DetermineNextStage, OptionalStage, Stages

\* Inspection gives a run one of its statuses.
LEMMA InspectedStatusType ==
    ASSUME NEW r \in RunRecords, NEW m \in Manifests, NEW eligible
    PROVE  InspectedStatus(r, m, eligible) \in Statuses
BY DEF InspectedStatus, RunRecords, Statuses

\* Creation, inspection, resume, verify and the death of a process keep the types.
LEMMA TypeInspection ==
    ASSUME TypeInv, NEW p \in Procs
    PROVE  /\ CreateRun(p) => TypeInv'
           /\ \A cmd \in Commands : Invoke(p, cmd) => TypeInv'
           /\ Load(p) => TypeInv'
           /\ Interrupt(p) => TypeInv'
           /\ Inspect(p) => TypeInv'
           /\ InspectManifest(p) => TypeInv'
           /\ ResumeRun(p) => TypeInv'
           /\ ResumeManifest(p) => TypeInv'
           /\ Unsupported(p) => TypeInv'
           /\ VerifyLoad(p) => TypeInv'
           /\ Crash(p) => TypeInv'
<1>0. /\ ctx[p] \in Contexts /\ run \in RunRecords /\ manifest \in Manifests
      /\ files \in FileSets /\ files["packet"] \in PacketValues /\ head \in Heads
      /\ ctx \in [Procs -> Contexts]
  BY RunTypes DEF TypeInv, TypeOK
<1>1. CASE CreateRun(p)
  <2> DEFINE r == Moved(NoRun, "created", "created", "spec_normalized")
             n == Moved(NoManifest, "created", "created", "spec_normalized")
             m == [n EXCEPT !.head = head]
             c == [Idle EXCEPT !.cmd = "run", !.run = r, !.manifest = m,
                               !.pc = "create_manifest"]
  <2>1. r \in RunRecords
    BY NothingTypes, MovedRun DEF Statuses, Stages, OptionalStage
  <2>2. n \in Manifests
    BY NothingTypes, MovedManifest DEF Statuses, Stages, OptionalStage
  <2>3. m \in Manifests
    BY <1>0, <2>2, ManifestFields
  <2> HIDE DEF r, m
  <2>4. c \in Contexts
    BY <2>1, <2>3, IdleType DEF Contexts, Locations
  <2>5. Typed(c)
    BY IdleType, EvidenceLen DEF Typed, Idle
  <2> QED
    BY <1>0, <1>1, <2>1, <2>4, <2>5, ContextStep DEF r, m, CreateRun, others, TypeInv, TypeOK
<1>2. ASSUME NEW cmd \in Commands, Invoke(p, cmd)
      PROVE  TypeInv'
  <2> DEFINE c == [Idle EXCEPT !.cmd = cmd,
                       !.pc = IF cmd = "verify" THEN "verify_load" ELSE "load"]
  <2>1. c \in Contexts
    BY ZenonT(30), IdleType, CommandsAssumption DEF Contexts, Locations
  <2>2. Typed(c)
    BY IdleType DEF Typed, Idle
  <2> QED
    BY <1>0, <1>2, <2>1, <2>2, ContextStep DEF Invoke, others, TypeInv, TypeOK
<1>3. CASE Load(p)
  <2> DEFINE loc == IF manifest.status \in ActiveStatuses THEN "interrupt" ELSE "inspect"
             c == [ctx[p] EXCEPT !.run = run, !.manifest = manifest, !.mem = files,
                                 !.pc = loc]
  <2>1. c \in Contexts
    BY <1>0 DEF Contexts, Locations
  <2>2. Typed(c)
    BY <1>0 DEF Typed, Contexts
  <2>3. CASE manifest = NoManifest
    BY <1>0, <1>3, <2>3, EndStep DEF Load, others, TypeInv, TypeOK
  <2>4. CASE manifest # NoManifest
    <3>1. ctx' = [ctx EXCEPT ![p] = c]
      BY <1>0, <1>3, <2>4 DEF Load
    <3> QED
      BY <1>0, <1>3, <2>1, <2>2, <3>1, ContextStep DEF Load, others, TypeInv, TypeOK
  <2> QED
    BY <2>3, <2>4
<1>4. CASE Interrupt(p)
  <2> DEFINE r    == ctx[p].run
             m    == ctx[p].manifest
             next == DetermineNextStage(r, m, ctx[p].mem)
             r2   == Moved(r, "interrupted", r.stage, IF next = NoStage THEN r.stage ELSE next)
             m2   == Moved(m, "interrupted", r.stage, IF next = NoStage THEN m.stage ELSE next)
             c    == [ctx[p] EXCEPT !.run = r2, !.manifest = m2, !.pc = "inspect"]
  <2>1. next \in OptionalStage
    BY RunTypes, NextStageType
  <2>2. r.stage \in Stages /\ m.stage \in Stages
    BY RunTypes DEF RunRecords, Manifests
  <2> HIDE DEF next
  <2>3. r2 \in RunRecords
    BY <2>1, <2>2, RunTypes, MovedRun DEF Statuses, OptionalStage
  <2>4. m2 \in Manifests
    BY <2>1, <2>2, RunTypes, MovedManifest DEF Statuses, OptionalStage
  <2>5. ctx' = [ctx EXCEPT ![p] = c] /\ run' = r2
    BY <1>0, <1>4 DEF Interrupt, next
  <2> HIDE DEF r2, m2
  <2>6. c \in Contexts
    BY <1>0, <2>3, <2>4 DEF Contexts, Locations
  <2>7. Typed(c)
    BY <1>0, RunTypes DEF Typed, Contexts
  <2> QED
    BY <1>0, <1>4, <2>3, <2>5, <2>6, <2>7, ContextStep DEF Interrupt, others, TypeInv, TypeOK
<1>5. CASE Inspect(p)
  <2> DEFINE r    == ctx[p].run
             m    == ctx[p].manifest
             ok   == Eligible(r, m, ctx[p].mem, Present(files), head)
             next == DetermineNextStage(r, m, ctx[p].mem)
             r2   == Moved(r, InspectedStatus(r, m, ok), r.stage, next)
             c    == [ctx[p] EXCEPT !.run = r2, !.eligible = ok, !.next = next,
                                    !.pc = "inspect_manifest"]
  <2>1. next \in OptionalStage
    BY RunTypes, NextStageType
  <2>2. r.stage \in Stages
    BY RunTypes DEF RunRecords
  <2>3. ok \in BOOLEAN /\ (ok => next # NoStage)
    BY DEF Eligible
  <2>4. r2 \in RunRecords /\ r2.pending = next
    BY <2>1, <2>2, RunTypes, MovedRun, InspectedStatusType DEF Moved, RunRecords
  <2>5. ctx' = [ctx EXCEPT ![p] = c] /\ run' = r2
    BY <1>0, <1>5, <2>4 DEF Inspect
  <2> HIDE DEF r2, ok, next
  <2>6. c \in Contexts
    BY ZenonT(30), <1>0, <2>1, <2>3, <2>4 DEF Contexts, Locations
  <2>7. Typed(c)
    BY <1>0, <2>3, RunTypes DEF Typed, Contexts
  <2> QED
    BY <1>0, <1>5, <2>4, <2>5, <2>6, <2>7, ContextStep DEF Inspect, others, TypeInv, TypeOK
<1>6. CASE InspectManifest(p)
  <2> DEFINE m == Moved(ctx[p].manifest, ctx[p].run.status, ctx[p].run.stage, ctx[p].next)
             c == [ctx[p] EXCEPT !.manifest = m, !.pc = "resume_run"]
  <2>1. m \in Manifests
    BY <1>0, RunTypes, MovedManifest DEF RunRecords, Contexts
  <2>2. manifest' = m /\ torn' = FALSE /\ UNCHANGED <<run, files, head, stale, answered>>
    BY <1>6 DEF InspectManifest
  <2>3. \/ ctx[p].eligible /\ ctx' = [ctx EXCEPT ![p] = c]
        \/ ctx' = [ctx EXCEPT ![p] = Idle]
    BY <1>0, <1>6 DEF InspectManifest
  <2> HIDE DEF m
  <2>4. c \in Contexts
    BY <1>0, <2>1 DEF Contexts, Locations
  <2>5. ctx[p].eligible => Typed(c)
    BY <1>0, <1>6, RunTypes DEF Typed, Contexts, InspectManifest, At
  <2> QED
    BY <1>0, <2>1, <2>2, <2>3, <2>4, <2>5, ContextStep, EndStep DEF TypeInv, TypeOK
<1>7. CASE ResumeRun(p)
  <2> DEFINE r == Moved(ctx[p].run, "resuming", ctx[p].next, ctx[p].next)
  <2>1. ctx[p].next \in Stages /\ ctx[p].next \in OptionalStage
    BY <1>0, <1>7, RunTypes DEF ResumeRun, At, Typed, Contexts, OptionalStage
  <2>2. r \in RunRecords
    BY <2>1, RunTypes, MovedRun DEF Statuses
  <2> HIDE DEF r
  <2>3. Typed([ctx[p] EXCEPT !.run = r, !.pc = "resume_manifest"])
    BY <1>0, <1>7, RunTypes DEF Typed, Contexts, ResumeRun, At
  <2> QED
    BY <1>7, <2>2, <2>3, WriteRunStep DEF r, ResumeRun, Locations
<1>8. CASE ResumeManifest(p)
  <2> DEFINE next == ctx[p].next
             m    == Moved(ctx[p].manifest, "resuming", next, next)
             loc  == IF next \in HandledStages THEN next ELSE "unsupported"
             c    == [ctx[p] EXCEPT !.manifest = m, !.resumed = TRUE, !.pc = loc]
  <2>1. next \in Stages /\ next \in OptionalStage
    BY <1>0, <1>8, RunTypes DEF ResumeManifest, At, Typed, Contexts, OptionalStage
  <2>2. m \in Manifests
    BY <2>1, RunTypes, MovedManifest DEF Statuses
  <2>3. loc \in PlainLocs
    BY DEF PlainLocs, Locations, HandledStages
  <2>4. ctx' = [ctx EXCEPT ![p] = c] /\ manifest' = m
    BY <1>0, <1>8 DEF ResumeManifest
  <2> HIDE DEF m, loc
  <2>5. c \in Contexts
    BY <1>0, <2>2, <2>3 DEF Contexts, PlainLocs
  <2>6. Typed(c)
    BY <1>0, <2>3, RunTypes DEF Typed, Contexts, PlainLocs
  <2> QED
    BY <1>0, <1>8, <2>2, <2>4, <2>5, <2>6, ContextStep
       DEF ResumeManifest, others, TypeInv, TypeOK
<1>9. CASE Unsupported(p)
  BY <1>0, <1>9, EndStep DEF Unsupported, others, TypeInv, TypeOK
<1>10. CASE VerifyLoad(p)
  <2> DEFINE c == [ctx[p] EXCEPT !.run = run, !.manifest = manifest, !.mem = files,
                                 !.pc = "verification_started"]
  <2>1. c \in Contexts
    BY <1>0 DEF Contexts, Locations, HandledStages
  <2>2. Typed(c)
    BY <1>0 DEF Typed, Contexts
  <2>3. ctx' = [ctx EXCEPT ![p] = c] \/ ctx' = [ctx EXCEPT ![p] = Idle]
    BY <1>0, <1>10 DEF VerifyLoad
  <2>4. UNCHANGED <<run, manifest, files, head, torn, stale, answered>>
    BY <1>10 DEF VerifyLoad, others
  <2> QED
    BY <1>0, <2>1, <2>2, <2>3, <2>4, ContextStep, EndStep DEF TypeInv, TypeOK
<1>11. CASE Crash(p)
  BY <1>0, <1>11, EndStep DEF Crash, TypeInv, TypeOK
<1> QED
  BY <1>1, <1>2, <1>3, <1>4, <1>5, <1>6, <1>7, <1>8, <1>9, <1>10, <1>11

\* The initial state has the types.
LEMMA TypeInit == Init => TypeInv
<1> SUFFICES ASSUME Init
             PROVE  TypeInv
  OBVIOUS
<1> QED
  BY NothingTypes, IdleType DEF Init, TypeInv, TypeOK

\* TypeInv is inductive.
LEMMA TypeStep == TypeInv /\ [Next]_vars => TypeInv'
<1> SUFFICES ASSUME TypeInv, [Next]_vars
             PROVE  TypeInv'
  OBVIOUS
<1>1. CASE UNCHANGED vars
  BY <1>1 DEF vars, TypeInv, TypeOK, Typed
<1>2. CASE HeadMoves
  BY <1>2, MaxHeadAssumption DEF HeadMoves, Heads, TypeInv, TypeOK
<1>3. ASSUME NEW p \in Procs,
             \/ CreateRun(p) \/ (\E cmd \in Commands : Invoke(p, cmd))
             \/ OwnStep(p) \/ AwaitedStep(p) \/ Crash(p)
      PROVE  TypeInv'
  BY <1>3, TypeSpec, TypePolicy, TypeApproval, TypeRunner, TypeVerification, TypeInspection
     DEF OwnStep, AwaitedStep
<1> QED
  BY <1>1, <1>2, <1>3 DEF Next

\* Every variable always has its type, for any number of processes that give any
\* commands, are killed anywhere and interleave in any way: no handler ever
\* stores a missing stage, decision or verdict in a record.
THEOREM TypeCorrect == Spec => []TypeOK
<1>1. TypeInv => TypeOK
  BY DEF TypeInv
<1> QED
  BY <1>1, TypeInit, TypeStep, PTL DEF Spec

=============================================================================
