----------------------------- MODULE Optimizer -----------------------------
(***************************************************************************)
(* `gdh optimize run` and `gdh optimize decide` (apps/cli/src/optimize.ts) *)
(* beside `gdh benchmark run` and `gdh benchmark compare`.                 *)
(*                                                                         *)
(* A candidate is audited against the surface of gdh.optimize.json, copied *)
(* with the benchmark's inputs into a temporary workspace, benchmarked     *)
(* there, and kept or rejected on the evidence; `decide` takes the         *)
(* decision again from what the first command left on disk.  `optimize     *)
(* compare` only shows the two records and is left out.                    *)
(***************************************************************************)
EXTENDS Benchmark

CONSTANTS
    Opts,         \* optimization runs, which also name their workspaces
    Paths,        \* paths a candidate may want to change
    Configs,      \* contents gdh.optimize.json may have
    Overlapping   \* whether a command may be given while another one runs

ASSUME OptsAssumption == Opts = Workspaces
ASSUME OverlappingAssumption == Overlapping \in BOOLEAN

VARIABLES
    config,   \* gdh.optimize.json of the repository
    opts,     \* opts[o]: the process of optimization run o and its directory
    redo      \* the process of `gdh optimize decide`

optVars == <<config, opts, redo>>
vars == <<baseline, jobs, cmp, torn, config, opts, redo>>

\* A surface is the set of paths its patterns match.
Surfaces == SUBSET Paths

\* gdh.optimize.json: the surfaces together, and the decision rules.
Config == [surface : Surfaces, protected : SUBSET MetricNames,
           improve : BOOLEAN, minimum : (0 .. Unit) \X {Unit}]

ASSUME ConfigsAssumption == (\A conf \in Configs : conf \in Config) /\ Configs # {}

NoConfig == [surface |-> {}, protected |-> {}, improve |-> FALSE, minimum |-> <<0, Unit>>]

Decisions == {"none", "keep", "reject"}

\* optimization.run.json, and whether it names the comparison and regression files.
OptStatuses == {"absent", "running", "blocked", "completed", "failed"}

NewOpt == [pc |-> "new", config |-> NoConfig, audit |-> "none", status |-> "absent",
           linked |-> FALSE, report |-> NoReport, regression |-> "none",
           decision |-> "none", workspace |-> FALSE]

OptRecords ==
    [pc : {"new", "begin", "reject", "blocked", "prepare", "apply", "benchmark",
           "decide", "finish", "cleanup", "ended", "gone"},
     config : Configs \cup {NoConfig}, audit : {"none", "clean", "blocked"},
     status : OptStatuses, linked : BOOLEAN,
     report : Reports \cup {NoReport}, regression : Verdicts, decision : Decisions,
     workspace : BOOLEAN]

OptIsLive(o) == opts[o].pc \notin {"new", "ended", "gone"}

NoRedo == [pc |-> "idle", opt |-> "none", decision |-> "none", status |-> "absent"]

Redos == [pc : {"decision", "record"}, opt : Opts, decision : {"keep", "reject"},
          status : {"blocked", "completed", "failed"}] \cup {NoRedo}

\* No command is at work.
AllIdle ==
    /\ \A b \in Runs : ~JobIsLive(b)
    /\ \A o \in Opts : ~OptIsLive(o)
    /\ cmp = NoComparison
    /\ redo = NoRedo

CommandMayStart == Overlapping \/ AllIdle

-----------------------------------------------------------------------------
(* createDecisionRecord. *)

\* Mutant: what regressed is left to the regression result.
KeepUnprotected(conf, audit, report, regression) ==
    /\ audit = "clean"
    /\ report # NoReport /\ regression = "passed"
    /\ conf.improve => Exceeds(Score(report.lhs), Score(report.rhs), conf.minimum)

\* Any reason beside the clean audit's own rejects: a blocked path, no persisted
\* comparison, a regression, a protected metric, no improvement.
Keep(conf, audit, report, regression) ==
    /\ audit = "clean"
    /\ report # NoReport /\ regression = "passed"
    /\ LowerMetrics(report.lhs, report.rhs, conf.protected) = {}
    /\ conf.improve => Exceeds(Score(report.lhs), Score(report.rhs), conf.minimum)

Decision(conf, audit, report, regression) ==
    IF Keep(conf, audit, report, regression) THEN "keep" ELSE "reject"

-----------------------------------------------------------------------------
(* runOptimizationCandidate. *)

OptGoTo(o, loc) ==
    /\ opts' = [opts EXCEPT ![o].pc = loc]
    /\ UNCHANGED <<config, redo, baseline, jobs, cmp, torn>>

\* The files of a candidate manifest; it has at least one.
Candidates == SUBSET Paths \ {{}}

Audit(candidate, conf) == IF candidate \subseteq conf.surface THEN "clean" ELSE "blocked"

\* persistCandidateArtifacts: the config, the candidate and the audit.  Without
\* a record, which comes next, no command reads them.
StartOptimize(o) ==
    /\ opts[o].pc = "new"
    /\ \E candidate \in Candidates :
          opts' = [opts EXCEPT ![o] = [NewOpt EXCEPT
                      !.pc = "begin", !.config = config,
                      !.audit = Audit(candidate, config)]]
    /\ UNCHANGED <<config, redo, baseline, jobs, cmp, torn>>

RecordOptimize(o) ==
    /\ opts[o].pc = "begin"
    /\ opts' = [opts EXCEPT ![o].status = "running",
                   ![o].pc = IF opts[o].audit = "blocked" THEN "reject" ELSE "prepare"]
    /\ UNCHANGED <<config, redo, baseline, jobs, cmp, torn>>

\* A candidate that leaves the surface is rejected without a benchmark.
RejectBlocked(o) ==
    /\ opts[o].pc = "reject"
    /\ opts' = [opts EXCEPT ![o].pc = "blocked",
                   ![o].decision = Decision(opts[o].config, "blocked", NoReport, "none")]
    /\ UNCHANGED <<config, redo, baseline, jobs, cmp, torn>>

RecordBlocked(o) ==
    /\ opts[o].pc = "blocked"
    /\ opts' = [opts EXCEPT ![o].pc = "ended", ![o].status = "blocked"]
    /\ UNCHANGED <<config, redo, baseline, jobs, cmp, torn>>

\* The benchmarks directory, with the baseline in it, is always among the copy
\* roots.
CopiedBaseline == baseline["main"]

\* The copy into the workspace, outside the try: what throws half way leaves the
\* directory behind.
PrepareWorkspace(o) ==
    /\ opts[o].pc = "prepare"
    /\ \E loc \in {"apply", "gone"} :
          opts' = [opts EXCEPT ![o].pc = loc, ![o].workspace = TRUE]
    /\ baseline' = [baseline EXCEPT ![o] = CopiedBaseline]
    /\ UNCHANGED <<config, redo, jobs, cmp, torn>>

\* The candidate's files are written and the benchmark begins, or one of the two
\* throws (a payload that is gone, an unknown target).
ApplyCandidate(o) ==
    /\ opts[o].pc = "apply"
    /\ \/ \E target \in Targets :
             /\ jobs' = [jobs EXCEPT ![o] = Begun(target)]
             /\ opts' = [opts EXCEPT ![o].pc = "benchmark"]
       \/ /\ opts' = [opts EXCEPT ![o].pc = "cleanup"]
          /\ UNCHANGED jobs
    /\ UNCHANGED <<config, redo, baseline, cmp, torn>>

\* Mutant: the workspace is only cleaned up after a decision.
OptimizeThrewWithoutFinally(o) ==
    /\ \/ opts[o].pc = "benchmark" /\ jobs[o].pc \in {"gone", "ended"}
       \/ opts[o].pc \in {"decide", "finish"}
    /\ OptGoTo(o, "ended")

\* The benchmark throws, or what follows it in the try: the copies, the decision's
\* files, the record.
OptimizeThrew(o) ==
    /\ \/ opts[o].pc = "benchmark" /\ jobs[o].pc \in {"gone", "ended"}
       \/ opts[o].pc \in {"decide", "finish"}
    /\ OptGoTo(o, "cleanup")

\* copyBenchmarkArtifacts: the benchmark's directory and the baseline it used.
CopyEvidence(o) ==
    /\ opts[o].pc = "benchmark"
    /\ jobs[o].pc = "ended"
    /\ opts' = [opts EXCEPT ![o].pc = "decide", ![o].report = jobs[o].report,
                            ![o].regression = jobs[o].regression]
    /\ UNCHANGED <<config, redo, baseline, jobs, cmp, torn>>

DecideCandidate(o) ==
    /\ opts[o].pc = "decide"
    /\ opts' = [opts EXCEPT ![o].pc = "finish",
                   ![o].decision = Decision(opts[o].config, opts[o].audit,
                                            jobs[o].report, jobs[o].regression)]
    /\ UNCHANGED <<config, redo, baseline, jobs, cmp, torn>>

FinishOptimize(o) ==
    /\ opts[o].pc = "finish"
    /\ opts' = [opts EXCEPT ![o].pc = "cleanup",
                   ![o].linked = opts[o].report # NoReport,
                   ![o].status = IF opts[o].decision = "keep" THEN "completed" ELSE "failed"]
    /\ UNCHANGED <<config, redo, baseline, jobs, cmp, torn>>

\* The finally: the workspace goes, with the benchmark run and the baseline in it.
CleanUp(o) ==
    /\ opts[o].pc = "cleanup"
    /\ opts' = [opts EXCEPT ![o].pc = "ended", ![o].workspace = FALSE]
    /\ jobs' = [jobs EXCEPT ![o] = NewJob]
    /\ baseline' = [baseline EXCEPT ![o] = Unset]
    /\ UNCHANGED <<config, redo, cmp, torn>>

OptimizeStep(o) ==
    \/ RecordOptimize(o) \/ RejectBlocked(o) \/ RecordBlocked(o)
    \/ PrepareWorkspace(o) \/ ApplyCandidate(o)
    \/ OptimizeThrew(o) \/ CopyEvidence(o)
    \/ DecideCandidate(o) \/ FinishOptimize(o) \/ CleanUp(o)

\* Nobody reads a workspace that is left behind.
KillOptimize(o) ==
    /\ OptIsLive(o)
    /\ opts' = [opts EXCEPT ![o].pc = "gone"]
    /\ jobs' = [jobs EXCEPT ![o] = NewJob]
    /\ baseline' = [baseline EXCEPT ![o] = Unset]
    /\ torn' = TRUE
    /\ UNCHANGED <<config, redo, cmp>>

-----------------------------------------------------------------------------
(* decideOptimizationRunId. *)

HasRecord(o) == opts[o].status # "absent"

\* What is decided: the evidence is found by the paths in the run's record.
DecideAgain(o, conf) ==
    Decision(conf, opts[o].audit,
             IF opts[o].linked THEN opts[o].report ELSE NoReport,
             IF opts[o].linked THEN opts[o].regression ELSE "none")

BeginDecide(o, decision, status) ==
    /\ redo = NoRedo
    /\ HasRecord(o)
    /\ redo' = [pc |-> "decision", opt |-> o, decision |-> decision, status |-> status]
    /\ UNCHANGED <<config, opts, baseline, jobs, cmp, torn>>

StatusAfter(o, decision) ==
    IF decision = "keep" THEN "completed"
    ELSE IF opts[o].status = "blocked" THEN "blocked" ELSE "failed"

\* Mutant: the rules are those of gdh.optimize.json as it is now.
StartDecideLive(o) ==
    BeginDecide(o, DecideAgain(o, config), StatusAfter(o, DecideAgain(o, config)))

\* Mutant: a rejection leaves the status alone, and so a killed run "running".
StartDecideKeepingStatus(o) ==
    LET decision == DecideAgain(o, opts[o].config)
    IN  BeginDecide(o, decision, IF decision = "keep" THEN "completed" ELSE opts[o].status)

\* The rules, the audit and the evidence are those of the run's directory.
StartDecide(o) ==
    LET decision == DecideAgain(o, opts[o].config)
    IN  BeginDecide(o, decision, StatusAfter(o, decision))

RedoDecision ==
    /\ redo.pc = "decision"
    /\ opts' = [opts EXCEPT ![redo.opt].decision = redo.decision]
    /\ redo' = [redo EXCEPT !.pc = "record"]
    /\ UNCHANGED <<config, baseline, jobs, cmp, torn>>

RedoRecord ==
    /\ redo.pc = "record"
    /\ opts' = [opts EXCEPT ![redo.opt].status = redo.status]
    /\ redo' = NoRedo
    /\ UNCHANGED <<config, baseline, jobs, cmp, torn>>

KillDecide ==
    /\ redo # NoRedo
    /\ redo' = NoRedo
    /\ torn' = TRUE
    /\ UNCHANGED <<config, opts, baseline, jobs, cmp>>

-----------------------------------------------------------------------------

\* Someone edits gdh.optimize.json (external).
EditConfig ==
    /\ config' \in Configs \ {config}
    /\ UNCHANGED <<opts, redo, baseline, jobs, cmp, torn>>

Init == BenchInit /\ config \in Configs /\ opts = [o \in Opts |-> NewOpt] /\ redo = NoRedo

\* Steps of the processes that are alive.
ProcessStep ==
    \/ \E p \in Places : JobStep(p) /\ UNCHANGED optVars
    \/ \E o \in Opts : OptimizeStep(o)
    \/ CompareStep /\ UNCHANGED optVars
    \/ RedoDecision \/ RedoRecord

Next ==
    \/ ProcessStep
    \/ /\ CommandMayStart
       /\ \/ \E b \in Runs, target \in Targets : StartRun(b, target) /\ UNCHANGED optVars
          \/ \E b \in Runs : StartCompare(b) /\ UNCHANGED optVars
          \/ \E o \in Opts : StartOptimize(o) \/ StartDecide(o)
    \/ \E b \in Runs : (KillRun(b) \/ RefreshBaseline(b)) /\ UNCHANGED optVars
    \/ KillCompare /\ UNCHANGED optVars
    \/ \E o \in Opts : KillOptimize(o)
    \/ KillDecide
    \/ EditConfig

Spec == Init /\ [][Next]_vars

=============================================================================
