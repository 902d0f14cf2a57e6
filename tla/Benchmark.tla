----------------------------- MODULE Benchmark -----------------------------
(***************************************************************************)
(* `gdh benchmark run` and `gdh benchmark compare`                         *)
(* (packages/evals/src/service.ts, workspace.ts, session).                 *)
(*                                                                         *)
(* A benchmark run is a process of its own with a directory of its own.    *)
(* The service also runs inside the temporary workspace of an optimization *)
(* (module Optimizer), where only the repository, and so the baseline, is  *)
(* another: Places has both kinds of runs.                                 *)
(***************************************************************************)
EXTENDS Evals

CONSTANTS
    Runs,          \* benchmark runs of the repository
    Workspaces,    \* benchmark runs in a workspace, named by the workspace
    Observations,  \* what an executed case may look like
    Baselines      \* bound: the baselines the suite may start with

ASSUME ObservationsAssumption == \A obs \in Observations : obs \in Observation
ASSUME PlacesAssumption == Runs \cap Workspaces = {} /\ "main" \notin Workspaces

VARIABLES
    baseline,  \* baseline[r]: the baseline artifact of the suite in repository r
    jobs,      \* jobs[p]: the process of run p and the files it writes
    cmp,       \* the process of `gdh benchmark compare`
    torn       \* history: a command was killed

benchVars == <<baseline, jobs, cmp, torn>>

Places == Runs \cup Workspaces

Repositories == {"main"} \cup Workspaces

RepositoryOf(p) == IF p \in Workspaces THEN p ELSE "main"

\* The suite names no baseline, or one whose file cannot be read (NoRecord).
Unset == [status |-> "unset", results |-> Empty]

BaselineValues == Records \cup {NoRecord, Unset}

ASSUME BaselinesAssumption == \A record \in Baselines : record \in BaselineValues

\* comparison.report.json, with what its entries are computed from.
Reports == [lhs : Records, rhs : Records]

NoReport == [lhs |-> NoRecord, rhs |-> NoRecord]

Verdicts == {"none", "passed", "failed"}

\* `pc` is "gone" once the process was killed or has thrown, `exit` the exit
\* code of one that ended.
NewJob == [pc |-> "new", target |-> Suite, done |-> Empty, rhs |-> NoRecord,
           record |-> NoRecord, report |-> NoReport, regression |-> "none",
           exit |-> "none"]

\* A job that compares has read what it compares with.
Jobs == {job \in [pc : {"new", "cases", "report", "regression", "record", "ended", "gone"},
                  target : Targets, done : Results, rhs : Records \cup {NoRecord},
                  record : Records \cup {NoRecord}, report : Reports \cup {NoReport},
                  regression : Verdicts, exit : {"none", "0", "1"}] :
            job.pc \in {"report", "regression"} => job.rhs # NoRecord}

JobIsLive(p) == jobs[p].pc \notin {"new", "ended", "gone"}

\* The process of run `p` has thrown: what it wrote stays as it is.
Thrown(p) == [jobs[p] EXCEPT !.pc = "gone", !.done = Empty, !.rhs = NoRecord]

-----------------------------------------------------------------------------
(* createBenchmarkTargetService.runTarget. *)

Begun(target) == [NewJob EXCEPT !.pc = "cases", !.target = target, !.record = Running]

RemainingCases(p) == TargetCases(jobs[p].target) \ Executed(jobs[p].done)

\* executeBenchmarkCase: the case gives a result, whatever becomes of the
\* governed run.
CaseOutcomes(c) == {CaseResult(c, obs) : obs \in Observations} \cup {Errored}

RunCase(p) ==
    /\ jobs[p].pc = "cases"
    /\ RemainingCases(p) # {}
    /\ \E result \in CaseOutcomes(Min(RemainingCases(p))) :
          jobs' = [jobs EXCEPT ![p].done[Min(RemainingCases(p))] = result]
    /\ UNCHANGED <<baseline, cmp, torn>>

\* Preparing the workspace of a case is outside the try: what fails there ends
\* the run, whose record stays "running".
PrepareCaseThrows(p) ==
    /\ jobs[p].pc = "cases"
    /\ RemainingCases(p) # {}
    /\ jobs' = [jobs EXCEPT ![p] = Thrown(p)]
    /\ UNCHANGED <<baseline, cmp, torn>>

\* The baseline is read after the last case; only a suite is compared with it.
LoadBaseline(p) ==
    /\ jobs[p].pc = "cases"
    /\ RemainingCases(p) = {}
    /\ LET rhs == baseline[RepositoryOf(p)]
       IN  jobs' = [jobs EXCEPT ![p] =
               IF jobs[p].target # Suite \/ rhs = Unset
               THEN [@ EXCEPT !.pc = "record"]
               ELSE IF rhs = NoRecord THEN Thrown(p)
               ELSE [@ EXCEPT !.pc = "report", !.rhs = rhs]]
    /\ UNCHANGED <<baseline, cmp, torn>>

PersistReport(p) ==
    /\ jobs[p].pc = "report"
    /\ jobs' = [jobs EXCEPT ![p].pc = "regression",
                    ![p].report = [lhs |-> Finished(jobs[p].done), rhs |-> jobs[p].rhs]]
    /\ UNCHANGED <<baseline, cmp, torn>>

PersistRegression(p) ==
    /\ jobs[p].pc = "regression"
    /\ jobs' = [jobs EXCEPT ![p].pc = "record",
                    ![p].regression = Regression(Finished(jobs[p].done), jobs[p].rhs)]
    /\ UNCHANGED <<baseline, cmp, torn>>

\* Mutant: the exit code does not look at the regression result.
PersistRunIgnoringRegression(p) ==
    /\ jobs[p].pc = "record"
    /\ LET run == Finished(jobs[p].done)
       IN  jobs' = [jobs EXCEPT ![p] =
               [@ EXCEPT !.pc = "ended", !.record = run, !.done = Empty, !.rhs = NoRecord,
                         !.exit = IF run.status = "completed" THEN "0" ELSE "1"]]
    /\ UNCHANGED <<baseline, cmp, torn>>

PersistRun(p) ==
    /\ jobs[p].pc = "record"
    /\ LET run == Finished(jobs[p].done)
           ok  == /\ run.status = "completed"
                  /\ jobs[p].rhs # NoRecord => Regression(run, jobs[p].rhs) = "passed"
       IN  jobs' = [jobs EXCEPT ![p] =
               [@ EXCEPT !.pc = "ended", !.record = run, !.done = Empty, !.rhs = NoRecord,
                         !.exit = IF ok THEN "0" ELSE "1"]]
    /\ UNCHANGED <<baseline, cmp, torn>>

JobStep(p) ==
    \/ RunCase(p) \/ PrepareCaseThrows(p) \/ LoadBaseline(p)
    \/ PersistReport(p) \/ PersistRegression(p) \/ PersistRun(p)

StartRun(b, target) ==
    /\ jobs[b].pc = "new"
    /\ jobs' = [jobs EXCEPT ![b] = Begun(target)]
    /\ UNCHANGED <<baseline, cmp, torn>>

KillRun(b) ==
    /\ JobIsLive(b)
    /\ jobs' = [jobs EXCEPT ![b] = Thrown(b)]
    /\ torn' = TRUE
    /\ UNCHANGED <<baseline, cmp>>

-----------------------------------------------------------------------------
(* compareRunArtifacts: any recorded run, even one that never finished, is    *)
(* judged against the baseline or another run, and written back.              *)

NoComparison == [pc |-> "idle", run |-> "none", lhs |-> NoRecord, rhs |-> NoRecord]

Comparisons == [pc : {"report", "regression", "record"}, run : Runs,
                lhs : Records, rhs : Records] \cup {NoComparison}

\* With the baseline only if the run is of the suite or of a case that names it.
RecordsToCompareWith(b) ==
    (IF jobs[b].target \in {Suite} \cup Members THEN {baseline["main"]} ELSE {})
        \cup {jobs[r].record : r \in Runs}

StartCompare(b) ==
    /\ cmp = NoComparison
    /\ jobs[b].record # NoRecord
    /\ \E rhs \in RecordsToCompareWith(b) \ {NoRecord, Unset} :
          cmp' = [pc |-> "report", run |-> b, lhs |-> jobs[b].record, rhs |-> rhs]
    /\ UNCHANGED <<baseline, jobs, torn>>

\* Mutant: the report swaps the two sides.
CompareReportSwapped ==
    /\ cmp.pc = "report"
    /\ jobs' = [jobs EXCEPT ![cmp.run].report = [lhs |-> cmp.rhs, rhs |-> cmp.lhs]]
    /\ cmp' = [cmp EXCEPT !.pc = "regression"]
    /\ UNCHANGED <<baseline, torn>>

CompareReport ==
    /\ cmp.pc = "report"
    /\ jobs' = [jobs EXCEPT ![cmp.run].report = [lhs |-> cmp.lhs, rhs |-> cmp.rhs]]
    /\ cmp' = [cmp EXCEPT !.pc = "regression"]
    /\ UNCHANGED <<baseline, torn>>

CompareRegression ==
    /\ cmp.pc = "regression"
    /\ jobs' = [jobs EXCEPT ![cmp.run].regression = Regression(cmp.lhs, cmp.rhs)]
    /\ cmp' = [cmp EXCEPT !.pc = "record"]
    /\ UNCHANGED <<baseline, torn>>

\* Mutant: a comparison that finds a regression fails the run it compares.
CompareRecordFailing ==
    /\ cmp.pc = "record"
    /\ jobs' = [jobs EXCEPT ![cmp.run].record =
                   IF Regression(cmp.lhs, cmp.rhs) = "passed" THEN cmp.lhs
                   ELSE [cmp.lhs EXCEPT !.status = "failed"]]
    /\ cmp' = NoComparison
    /\ UNCHANGED <<baseline, torn>>

\* Only the summary of the record changes.
CompareRecord ==
    /\ cmp.pc = "record"
    /\ jobs' = [jobs EXCEPT ![cmp.run].record = cmp.lhs]
    /\ cmp' = NoComparison
    /\ UNCHANGED <<baseline, torn>>

CompareStep == CompareReport \/ CompareRegression \/ CompareRecord

KillCompare ==
    /\ cmp # NoComparison
    /\ cmp' = NoComparison
    /\ torn' = TRUE
    /\ UNCHANGED <<baseline, jobs>>

-----------------------------------------------------------------------------

\* Someone makes a finished run of the suite the baseline (external).
RefreshBaseline(b) ==
    /\ jobs[b].target = Suite
    /\ jobs[b].record.status \in {"completed", "failed"}
    /\ baseline' = [baseline EXCEPT !["main"] = jobs[b].record]
    /\ UNCHANGED <<jobs, cmp, torn>>

BenchInit ==
    /\ \E start \in Baselines :
          baseline = [r \in Repositories |-> IF r = "main" THEN start ELSE Unset]
    /\ jobs = [p \in Places |-> NewJob]
    /\ cmp = NoComparison
    /\ torn = FALSE

=============================================================================
