------------------------ MODULE OptimizerProperties ------------------------
(***************************************************************************)
(* What the benchmark gate and the optimizer promise.                      *)
(***************************************************************************)
EXTENDS Optimizer

\* Type correctness of the benchmark and optimization state.
TypeOK ==
    /\ baseline \in [Repositories -> BaselineValues]
    /\ jobs \in [Places -> Jobs]
    /\ cmp \in Comparisons
    /\ torn \in BOOLEAN
    /\ config \in Configs
    /\ opts \in [Opts -> OptRecords]
    /\ redo \in Redos

\* The cases that pass in run `b` and not in run `a`.
Lost(a, b) ==
    {c \in Cases : b.results[c].status = "passed" /\ a.results[c].status # "passed"}

\* An optimization that ends on "keep", whoever decided it last (the command or
\* a later `gdh optimize decide`), rests on evidence that is on disk: the audit
\* is clean, no case that passed on the baseline is lost, no protected metric
\* that both sides measured is lower, and the score is better by what the
\* config asks (createDecisionRecord over the files of the run).
KeptIsImprovement ==
    \A o \in Opts :
       opts[o].decision = "keep" =>
          LET new == opts[o].report.lhs
              old == opts[o].report.rhs
          IN  /\ opts[o].audit = "clean"
              /\ opts[o].report # NoReport
              /\ FailOnNew => Lost(new, old) = {}
              /\ \A c \in Cases, m \in opts[o].config.protected :
                    LET a == new.results[c].metrics
                        b == old.results[c].metrics
                    IN  m \in DOMAIN a \cap DOMAIN b => a[m].score >= b[m].score
              /\ opts[o].config.improve =>
                    Exceeds(Score(new), Score(old), opts[o].config.minimum)

\* What docs/operations/bounded-optimization.md says of a kept candidate: no
\* protected metric regresses.  Here a protected metric that the candidate no
\* longer has, because its case now errors, has regressed.
ProtectedMetricsHold ==
    \A o \in Opts :
       opts[o].decision = "keep" =>
          LET new == opts[o].report.lhs
              old == opts[o].report.rhs
          IN  \A c \in Cases, m \in opts[o].config.protected :
                 HasMetric(old, c, m) =>
                    /\ HasMetric(new, c, m)
                    /\ new.results[c].metrics[m].score >= old.results[c].metrics[m].score

\* A benchmark command exits 0 only on a run in which every case passed, and
\* for a suite with a baseline only if no case the baseline passed is gone
\* from the run and the score has not dropped by more than the threshold
\* (runTarget: the exit code is computed beside the regression result).
GateHolds ==
    [][\A p \in Places :
          jobs'[p].exit = "0" /\ jobs[p].exit # "0" =>
             LET j == jobs'[p]
             IN  /\ j.record.status = "completed"
                 /\ j.report # NoReport =>
                      /\ FailOnNew => Lost(j.record, j.report.rhs) = {}
                      /\ ~Exceeds(Score(j.report.rhs), Score(j.record), MaxDrop)]_vars

\* With no command at work and none ever killed, the report and the regression
\* result beside a benchmark record are those of the record: the commands
\* that write the three files one after the other (persistComparisonArtifacts,
\* then persistBenchmarkRun) leave them in agreement.
EvidenceIsOfTheRecord ==
    AllIdle /\ ~torn =>
       \A b \in Runs :
          LET j == jobs[b]
          IN  j.report # NoReport =>
                 /\ j.report.lhs = j.record
                 /\ j.regression = Regression(j.report.lhs, j.report.rhs)

\* A finished benchmark record is never changed: a comparison writes it back,
\* but only with another summary (compareRunArtifacts).
FinishedRunsAreKept ==
    [][\A b \in Runs :
          jobs[b].record.status \in {"completed", "failed"} =>
             jobs'[b].record = jobs[b].record]_vars

\* Once an optimization run has ended with a verdict, deciding it again gives
\* the same one, whatever became of gdh.optimize.json and of the baseline in
\* the meantime: `decide` reads the config, the audit and the evidence that
\* the run kept (decideOptimizationRunId).
VerdictIsFinal ==
    [][\A o \in Opts :
          opts[o].status \in {"blocked", "completed", "failed"} =>
             /\ opts'[o].decision = opts[o].decision
             /\ opts'[o].status = opts[o].status]_vars

\* No temporary workspace outlives the command that made it, unless the command
\* was killed or the copy into it failed (the finally of
\* runOptimizationCandidate).
WorkspaceIsReclaimed ==
    \A o \in Opts : opts[o].workspace => OptIsLive(o) \/ opts[o].pc = "gone"

=============================================================================
