-------------------------- MODULE BenchmarkProofs --------------------------
(***************************************************************************)
(* The records of a benchmark run, its comparison and its exit code agree, *)
(* for any catalog, any thresholds and any number of runs, as long as      *)
(* commands are given one at a time.                                       *)
(***************************************************************************)
EXTENDS OptimizerProofs

\* What the files of a run say, by how far its process is.
JobIn(p) ==
    LET j == jobs[p]
    IN  /\ j.pc = "new" => j.record = NoRecord
        /\ JobIsLive(p) => j.record.status = "running"
        /\ j.pc \in {"new", "cases", "report"} => j.report = NoReport
        /\ j.pc = "regression" => j.report = [lhs |-> Finished(j.done), rhs |-> j.rhs]
        /\ j.pc = "record" /\ j.report # NoReport =>
              /\ j.report = [lhs |-> Finished(j.done), rhs |-> j.rhs]
              /\ j.regression = Regression(j.report.lhs, j.report.rhs)

\* A comparison works on a run that is over, and on its record as it is.
CmpInv ==
    cmp # NoComparison =>
       /\ \A b \in Runs : ~JobIsLive(b)
       /\ jobs[cmp.run].pc # "new"
       /\ jobs[cmp.run].record = cmp.lhs

Agree(j) ==
    j.report # NoReport =>
       /\ j.report.lhs = j.record
       /\ j.regression = Regression(j.report.lhs, j.report.rhs)

\* A comparison has written the report, but not yet the record.
HalfWritten(b) == cmp # NoComparison /\ cmp.run = b /\ cmp.pc # "report"

Agreeing(b) ==
    jobs[b].pc \in {"ended", "gone"} =>
       IF HalfWritten(b)
       THEN /\ jobs[b].report = [lhs |-> cmp.lhs, rhs |-> cmp.rhs]
            /\ cmp.pc = "record" => jobs[b].regression = Regression(cmp.lhs, cmp.rhs)
       ELSE Agree(jobs[b])

BenchInv ==
    /\ TypeOK
    /\ \A p \in Places : JobIn(p)
    /\ CmpInv
    /\ ~torn => \A b \in Runs : Agreeing(b)

\* What FinishedRunsAreKept and GateHolds say of a step.
FinishedKept ==
    \A b \in Runs :
       jobs[b].record.status \in {"completed", "failed"} =>
          jobs'[b].record = jobs[b].record

GateKept ==
    \A p \in Places :
       jobs'[p].exit = "0" /\ jobs[p].exit # "0" =>
          LET j == jobs'[p]
          IN  /\ j.record.status = "completed"
              /\ j.report # NoReport =>
                   /\ FailOnNew => Lost(j.record, j.report.rhs) = {}
                   /\ ~Exceeds(Score(j.report.rhs), Score(j.record), MaxDrop)

Held == BenchInv' /\ FinishedKept /\ GateKept

\* A step that leaves the benchmark runs and the comparison alone.
LEMMA NothingHeld ==
    ASSUME BenchInv, TypeOK', jobs' = jobs, cmp' = cmp, torn' = torn
    PROVE  Held
PROOF
<1>1. (\A p \in Places : JobIn(p)') /\ CmpInv'
  BY DEF BenchInv, JobIn, JobIsLive, CmpInv
<1>2. ~torn' => \A b \in Runs : Agreeing(b)'
  BY DEF BenchInv, Agreeing, HalfWritten, Agree
<1> QED
  BY <1>1, <1>2 DEF BenchInv, Held, FinishedKept, GateKept

\* A step of one run that no comparison is at work on.
LEMMA OneRunHeld ==
    ASSUME BenchInv, TypeOK', NEW p \in Places,
           jobs' = [jobs EXCEPT ![p] = jobs'[p]],
           cmp' = cmp, torn' = torn \/ torn' = TRUE,
           p \in Runs => cmp = NoComparison,
           JobIn(p)',
           p \in Runs /\ ~torn' /\ jobs'[p].pc \in {"ended", "gone"} => Agree(jobs'[p])
    PROVE  BenchInv'
PROOF
<1>1. \A q \in Places \ {p} : jobs'[q] = jobs[q]
  BY DEF BenchInv, TypeOK
<1>2. \A q \in Places : JobIn(q)'
  BY <1>1 DEF BenchInv, JobIn, JobIsLive
<1>3. CmpInv'
  <2> SUFFICES ASSUME cmp # NoComparison PROVE CmpInv'
    BY DEF CmpInv
  <2>1. p \notin Runs /\ cmp.run \in Runs /\ Runs \subseteq Places
    BY DEF BenchInv, TypeOK, Comparisons, Places
  <2> QED
    BY <1>1, <2>1 DEF BenchInv, CmpInv, JobIsLive
<1>4. ASSUME ~torn', NEW b \in Runs PROVE Agreeing(b)'
  <2>1. ~torn /\ Agreeing(b)
    BY <1>4 DEF BenchInv
  <2>2. CASE b = p
    BY <1>4, <2>2 DEF Agreeing, HalfWritten
  <2>3. CASE b # p
    <3>1. jobs'[b] = jobs[b]
      BY <1>1, <2>3 DEF Places
    <3> QED
      BY <2>1, <3>1 DEF Agreeing, HalfWritten, Agree
  <2> QED
    BY <2>2, <2>3
<1> QED
  BY <1>2, <1>3, <1>4 DEF BenchInv

\* What a run that passes the gate has shown.
LEMMA PassedTheGate ==
    ASSUME NEW lhs, NEW rhs, Regression(lhs, rhs) = "passed"
    PROVE  /\ FailOnNew => Lost(lhs, rhs) = {}
           /\ ~Exceeds(Score(rhs), Score(lhs), MaxDrop)
  BY PassedLosesNothing DEF Regression

\* The steps of a run's process that do not end it with an exit code.
LEMMA JobGoesOn ==
    ASSUME BenchInv, NEW p \in Places,
           \/ RunCase(p) \/ PrepareCaseThrows(p) \/ LoadBaseline(p)
           \/ PersistReport(p) \/ PersistRegression(p)
    PROVE  /\ JobIn(p)'
           /\ jobs'[p].exit = jobs[p].exit /\ jobs'[p].record = jobs[p].record
           /\ jobs'[p].pc \in {"ended", "gone"} => Agree(jobs'[p])
PROOF
<1>1. jobs[p] \in Jobs /\ jobs \in [Places -> Jobs] /\ JobIn(p)
  BY DEF BenchInv, TypeOK
<1>2. CASE RunCase(p)
  <2>1. \E c, r : jobs' = [jobs EXCEPT ![p] = [jobs[p] EXCEPT !.done[c] = r]]
    BY <1>2 DEF RunCase
  <2>2. \E d : jobs'[p] = [jobs[p] EXCEPT !.done = d]
    BY <1>1, <2>1
  <2>3. jobs[p].pc = "cases"
    BY <1>2 DEF RunCase
  <2> QED
    BY <1>1, <2>2, <2>3 DEF Jobs, JobIn, JobIsLive
<1>3. CASE PrepareCaseThrows(p)
  <2>1. jobs'[p] = Thrown(p) /\ jobs[p].pc = "cases"
    BY <1>1, <1>3 DEF PrepareCaseThrows
  <2> QED
    BY <1>1, <2>1 DEF Thrown, Jobs, JobIn, JobIsLive, Agree
<1>4. CASE LoadBaseline(p)
  <2>1. \E rhs : jobs'[p] \in {[jobs[p] EXCEPT !.pc = "record"], Thrown(p),
                            [jobs[p] EXCEPT !.pc = "report", !.rhs = rhs]}
    <3> DEFINE rhs == baseline[RepositoryOf(p)]
    <3>1. \E j \in {[jobs[p] EXCEPT !.pc = "record"], Thrown(p),
                    [jobs[p] EXCEPT !.pc = "report", !.rhs = rhs]} :
             jobs' = [jobs EXCEPT ![p] = j]
      BY <1>4 DEF LoadBaseline
    <3> HIDE DEF rhs
    <3> QED
      BY <1>1, <3>1
  <2>2. jobs[p].pc = "cases"
    BY <1>4 DEF LoadBaseline
  <2> QED
    BY <1>1, <2>1, <2>2 DEF Thrown, Jobs, JobIn, JobIsLive, Agree
<1>5. CASE PersistReport(p)
  <2> DEFINE report == [lhs |-> Finished(jobs[p].done), rhs |-> jobs[p].rhs]
  <2>1. jobs[p].pc = "report" /\ jobs' = [jobs EXCEPT ![p] =
           [jobs[p] EXCEPT !.pc = "regression", !.report = report]]
    BY <1>5 DEF PersistReport
  <2> HIDE DEF report
  <2>2. jobs'[p] = [jobs[p] EXCEPT !.pc = "regression", !.report = report]
    BY <1>1, <2>1
  <2>3. /\ jobs'[p].pc = "regression" /\ jobs'[p].report = report
        /\ jobs'[p].done = jobs[p].done /\ jobs'[p].rhs = jobs[p].rhs
        /\ jobs'[p].exit = jobs[p].exit /\ jobs'[p].record = jobs[p].record
    BY <1>1, <2>2 DEF Jobs
  <2> QED
    BY <1>1, <2>1, <2>3 DEF JobIn, JobIsLive, report
<1>6. CASE PersistRegression(p)
  <2> DEFINE verdict == Regression(Finished(jobs[p].done), jobs[p].rhs)
  <2>1. jobs[p].pc = "regression" /\ jobs' = [jobs EXCEPT ![p] =
           [jobs[p] EXCEPT !.pc = "record", !.regression = verdict]]
    BY <1>6 DEF PersistRegression
  <2>2. jobs[p].report.lhs = Finished(jobs[p].done) /\ jobs[p].report.rhs = jobs[p].rhs
    BY <1>1, <2>1 DEF JobIn
  <2>3. jobs[p].report = [lhs |-> Finished(jobs[p].done), rhs |-> jobs[p].rhs]
    BY <1>1, <2>1 DEF JobIn
  <2>4. verdict = Regression(jobs[p].report.lhs, jobs[p].report.rhs)
    BY <2>2
  <2> HIDE DEF verdict
  <2>5. jobs'[p] = [jobs[p] EXCEPT !.pc = "record", !.regression = verdict]
    BY <1>1, <2>1
  <2>6. /\ jobs'[p].pc = "record" /\ jobs'[p].report = jobs[p].report
        /\ jobs'[p].regression = verdict
        /\ jobs'[p].done = jobs[p].done /\ jobs'[p].rhs = jobs[p].rhs
        /\ jobs'[p].exit = jobs[p].exit /\ jobs'[p].record = jobs[p].record
    BY <1>1, <2>5 DEF Jobs
  <2> QED
    BY <1>1, <2>1, <2>3, <2>4, <2>6 DEF JobIn, JobIsLive
<1> QED
  BY <1>2, <1>3, <1>4, <1>5, <1>6

LEMMA JobEnds ==
    ASSUME BenchInv, NEW p \in Places, PersistRun(p)
    PROVE  /\ JobIn(p)' /\ Agree(jobs'[p])
           /\ jobs'[p].exit = "0" =>
                 /\ jobs'[p].record.status = "completed"
                 /\ jobs'[p].report # NoReport =>
                      /\ FailOnNew => Lost(jobs'[p].record, jobs'[p].report.rhs) = {}
                      /\ ~Exceeds(Score(jobs'[p].report.rhs), Score(jobs'[p].record), MaxDrop)
PROOF
<1> DEFINE run == Finished(jobs[p].done)
           ok  == /\ run.status = "completed"
                  /\ jobs[p].rhs # NoRecord => Regression(run, jobs[p].rhs) = "passed"
<1>1. jobs[p] \in Jobs /\ jobs \in [Places -> Jobs] /\ JobIn(p)
  BY DEF BenchInv, TypeOK
<1>2. jobs[p].pc = "record" /\ jobs' = [jobs EXCEPT ![p] =
         [jobs[p] EXCEPT !.pc = "ended", !.record = run, !.done = Empty, !.rhs = NoRecord,
                         !.exit = IF ok THEN "0" ELSE "1"]]
  BY DEF PersistRun
<1>3. jobs[p].report # NoReport =>
        /\ jobs[p].report.lhs = run /\ jobs[p].report.rhs = jobs[p].rhs
        /\ jobs[p].regression = Regression(run, jobs[p].rhs)
        /\ jobs[p].rhs # NoRecord
  <2> SUFFICES ASSUME jobs[p].report # NoReport
               PROVE  /\ jobs[p].report.lhs = run /\ jobs[p].report.rhs = jobs[p].rhs
                      /\ jobs[p].regression = Regression(run, jobs[p].rhs)
                      /\ jobs[p].rhs # NoRecord
    OBVIOUS
  <2>1. /\ jobs[p].report = [lhs |-> run, rhs |-> jobs[p].rhs]
        /\ jobs[p].regression = Regression(jobs[p].report.lhs, jobs[p].report.rhs)
    BY <1>1, <1>2 DEF JobIn
  <2> HIDE DEF run
  <2>2. jobs[p].report.lhs = run /\ jobs[p].report.rhs = jobs[p].rhs
    BY <2>1
  <2>3. jobs[p].report \in Reports
    BY <1>1 DEF Jobs
  <2>4. NoRecord \notin Records
    BY DEF NoRecord, Records
  <2> QED
    BY <2>1, <2>2, <2>3, <2>4 DEF Reports
<1>4. ok /\ jobs[p].rhs # NoRecord =>
        /\ FailOnNew => Lost(run, jobs[p].rhs) = {}
        /\ ~Exceeds(Score(jobs[p].rhs), Score(run), MaxDrop)
  BY PassedTheGate
<1>5. ok => run.status = "completed"
  OBVIOUS
<1> HIDE DEF run, ok
<1>6. jobs'[p] = [jobs[p] EXCEPT !.pc = "ended", !.record = run, !.done = Empty,
                                 !.rhs = NoRecord, !.exit = IF ok THEN "0" ELSE "1"]
  BY <1>1, <1>2
<1>7. /\ jobs'[p].pc = "ended" /\ jobs'[p].record = run
      /\ jobs'[p].exit = IF ok THEN "0" ELSE "1"
      /\ jobs'[p].report = jobs[p].report /\ jobs'[p].regression = jobs[p].regression
  BY <1>1, <1>6 DEF Jobs
<1>8. JobIn(p)'
  BY <1>7 DEF JobIn, JobIsLive
<1>9. Agree(jobs'[p])
  BY <1>3, <1>7 DEF Agree
<1> QED
  BY <1>3, <1>4, <1>5, <1>7, <1>8, <1>9

\* A step of a process of a run.
LEMMA JobStepHeld ==
    ASSUME BenchInv, TypeOK', NEW p \in Places, JobStep(p), UNCHANGED optVars
    PROVE  Held
PROOF
<1>1. /\ \E j : jobs' = [jobs EXCEPT ![p] = j]
      /\ cmp' = cmp /\ torn' = torn /\ JobIsLive(p)
  BY DEF JobStep, RunCase, PrepareCaseThrows, LoadBaseline, PersistReport,
     PersistRegression, PersistRun, JobIsLive
<1>2. jobs' = [jobs EXCEPT ![p] = jobs'[p]] /\ (\A q \in Places \ {p} : jobs'[q] = jobs[q])
  BY <1>1 DEF BenchInv, TypeOK
<1>3. p \in Runs => cmp = NoComparison
  BY <1>1 DEF BenchInv, CmpInv
<1>4. jobs[p].record.status = "running"
  BY <1>1 DEF BenchInv, JobIn
<1>5. FinishedKept
  BY <1>2, <1>4 DEF FinishedKept, Places
<1>6. CASE PersistRun(p)
  <2>1. BenchInv'
    BY <1>1, <1>2, <1>3, <1>6, JobEnds, OneRunHeld
  <2>2. GateKept
    BY <1>2, <1>6, JobEnds DEF GateKept
  <2> QED
    BY <1>5, <2>1, <2>2 DEF Held
<1>7. CASE ~PersistRun(p)
  <2>0. \/ RunCase(p) \/ PrepareCaseThrows(p) \/ LoadBaseline(p)
        \/ PersistReport(p) \/ PersistRegression(p)
    BY <1>7 DEF JobStep
  <2>1. BenchInv'
    BY <1>1, <1>2, <1>3, <2>0, JobGoesOn, OneRunHeld
  <2>2. GateKept
    BY <1>2, <2>0, JobGoesOn DEF GateKept
  <2> QED
    BY <1>5, <2>1, <2>2 DEF Held
<1> QED
  BY <1>6, <1>7

\* A run begins, anew, or is killed.
LEMMA RunCommandHeld ==
    ASSUME BenchInv, TypeOK', ~Overlapping, NEW b \in Runs,
           \/ CommandMayStart /\ \E target \in Targets : StartRun(b, target)
           \/ KillRun(b)
    PROVE  Held
PROOF
<1>1. b \in Places /\ jobs \in [Places -> Jobs] /\ JobIn(b)
  BY DEF BenchInv, TypeOK, Places
<1>2. CASE CommandMayStart /\ \E target \in Targets : StartRun(b, target)
  <2>1. PICK target \in Targets : StartRun(b, target)
    BY <1>2
  <2>2. cmp = NoComparison
    BY <1>2 DEF CommandMayStart, AllIdle
  <2>3. /\ jobs'[b] = Begun(target) /\ jobs' = [jobs EXCEPT ![b] = jobs'[b]]
        /\ jobs[b].pc = "new" /\ cmp' = cmp /\ torn' = torn
    BY <1>1, <2>1 DEF StartRun
  <2>4. /\ jobs'[b].pc = "cases" /\ jobs'[b].record = Running
        /\ jobs'[b].report = NoReport /\ jobs'[b].exit = "none"
    BY <2>3 DEF Begun, NewJob
  <2>5. JobIn(b)'
    BY <2>4 DEF JobIn, JobIsLive, Running
  <2>6. jobs[b].record.status = "absent"
    BY <1>1, <2>3 DEF JobIn, NoRecord
  <2>7. BenchInv'
    BY <1>1, <2>2, <2>3, <2>4, <2>5, OneRunHeld
  <2>8. \A q \in Places \ {b} : jobs'[q] = jobs[q]
    BY <1>1, <2>3
  <2> QED
    BY <2>4, <2>6, <2>7, <2>8 DEF Held, FinishedKept, GateKept, Places
<1>3. CASE KillRun(b)
  <2>1. /\ jobs'[b] = Thrown(b) /\ jobs' = [jobs EXCEPT ![b] = jobs'[b]]
        /\ JobIsLive(b) /\ cmp' = cmp /\ torn' = TRUE
    BY <1>1, <1>3 DEF KillRun
  <2>2. /\ jobs'[b].pc = "gone" /\ jobs'[b].record = jobs[b].record
        /\ jobs'[b].exit = jobs[b].exit
    BY <1>1, <2>1 DEF Thrown, Jobs
  <2>3. cmp = NoComparison
    BY <2>1 DEF BenchInv, CmpInv
  <2>4. JobIn(b)'
    BY <2>2 DEF JobIn, JobIsLive
  <2>5. BenchInv'
    BY <1>1, <2>1, <2>3, <2>4, OneRunHeld
  <2>6. \A q \in Places \ {b} : jobs'[q] = jobs[q]
    BY <1>1, <2>1
  <2> QED
    BY <2>2, <2>5, <2>6 DEF Held, FinishedKept, GateKept, Places
<1> QED
  BY <1>2, <1>3

\* The commands of the optimizer work on the runs in workspaces.
LEMMA OptimizeHeld ==
    ASSUME BenchInv, TypeOK', NEW o \in Opts,
           StartOptimize(o) \/ OptimizeStep(o) \/ KillOptimize(o)
    PROVE  Held
PROOF
<1>1. /\ o \in Places /\ o \notin Runs /\ jobs \in [Places -> Jobs] /\ JobIn(o)
  BY OptsAssumption, PlacesAssumption DEF BenchInv, TypeOK, Places
<1>2. /\ cmp' = cmp /\ (torn' = torn \/ torn' = TRUE)
      /\ \/ jobs' = jobs
         \/ \E j \in {Begun(target) : target \in Targets} \cup {NewJob} :
               jobs' = [jobs EXCEPT ![o] = j]
  BY DEF StartOptimize, OptimizeStep, KillOptimize, RecordOptimize, RejectBlocked,
     RecordBlocked, PrepareWorkspace, ApplyCandidate, OptimizeThrew, CopyEvidence,
     DecideCandidate, FinishOptimize, CleanUp, OptGoTo
<1>3. CASE jobs' = jobs
  <2>1. jobs' = [jobs EXCEPT ![o] = jobs'[o]] /\ JobIn(o)'
    BY <1>1, <1>3 DEF JobIn, JobIsLive
  <2> QED
    BY <1>1, <1>2, <1>3, <2>1, OneRunHeld DEF Held, FinishedKept, GateKept
<1>4. ASSUME NEW j \in {Begun(target) : target \in Targets} \cup {NewJob},
             jobs' = [jobs EXCEPT ![o] = j]
      PROVE  Held
  <2>1. /\ jobs'[o] = j /\ jobs' = [jobs EXCEPT ![o] = jobs'[o]]
        /\ \A q \in Places \ {o} : jobs'[q] = jobs[q]
    BY <1>1, <1>4
  <2>2. /\ j.report = NoReport /\ j.exit = "none"
        /\ \/ j.pc = "new" /\ j.record = NoRecord
           \/ j.pc = "cases" /\ j.record = Running
    <3>1. CASE j = NewJob
      BY <3>1 DEF NewJob
    <3>2. ASSUME NEW target \in Targets, j = Begun(target)
          PROVE  /\ j.report = NoReport /\ j.exit = "none"
                 /\ j.pc = "cases" /\ j.record = Running
      BY <3>2 DEF Begun, NewJob
    <3> QED
      BY <1>4, <3>1, <3>2
  <2>3. JobIn(o)'
    BY <2>1, <2>2 DEF JobIn, JobIsLive, Running
  <2>4. BenchInv'
    BY <1>1, <1>2, <2>1, <2>3, OneRunHeld
  <2> QED
    BY <1>1, <2>1, <2>2, <2>4 DEF Held, FinishedKept, GateKept, Places
<1> QED
  BY <1>2, <1>3, <1>4

\* A comparison begins when nothing else is at work, or is killed.
LEMMA CompareCommandHeld ==
    ASSUME BenchInv, TypeOK', ~Overlapping,
           \/ CommandMayStart /\ \E b \in Runs : StartCompare(b)
           \/ KillCompare
    PROVE  Held
PROOF
<1>1. CASE CommandMayStart /\ \E b \in Runs : StartCompare(b)
  <2>1. PICK b \in Runs : StartCompare(b)
    BY <1>1
  <2>2. PICK rhs : cmp' = [pc |-> "report", run |-> b, lhs |-> jobs[b].record, rhs |-> rhs]
    BY <2>1 DEF StartCompare
  <2>3. cmp'.pc = "report" /\ cmp'.run = b /\ cmp'.lhs = jobs[b].record
    BY <2>2
  <2>4. /\ \A r \in Runs : ~JobIsLive(r)
        /\ cmp = NoComparison /\ jobs' = jobs /\ torn' = torn /\ jobs[b].record # NoRecord
    BY <1>1, <2>1 DEF CommandMayStart, AllIdle, StartCompare
  <2>5. jobs[b].pc # "new"
    BY <2>4 DEF BenchInv, JobIn, Places
  <2>6. (\A p \in Places : JobIn(p)') /\ CmpInv'
    BY <2>3, <2>4, <2>5 DEF BenchInv, JobIn, JobIsLive, CmpInv
  <2>7. ~torn' => \A r \in Runs : Agreeing(r)'
    BY <2>3, <2>4 DEF BenchInv, Agreeing, HalfWritten, Agree
  <2> QED
    BY <2>4, <2>6, <2>7 DEF Held, BenchInv, FinishedKept, GateKept
<1>2. CASE KillCompare
  <2>1. jobs' = jobs /\ cmp' = NoComparison /\ torn' = TRUE
    BY <1>2 DEF KillCompare
  <2> QED
    BY <2>1 DEF Held, BenchInv, JobIn, JobIsLive, CmpInv, FinishedKept, GateKept
<1> QED
  BY <1>1, <1>2

\* The three writes of a comparison.
LEMMA CompareHeld ==
    ASSUME BenchInv, TypeOK', CompareStep
    PROVE  Held
PROOF
<1>0. cmp # NoComparison /\ cmp \in Comparisons
  BY DEF CompareStep, CompareReport, CompareRegression, CompareRecord, NoComparison,
     BenchInv, TypeOK
<1> PICK b \in Runs : cmp.run = b
  BY <1>0 DEF Comparisons
<1>1. /\ b \in Places /\ jobs \in [Places -> Jobs] /\ jobs[b] \in Jobs /\ torn' = torn
  BY DEF BenchInv, TypeOK, Places, CompareStep, CompareReport, CompareRegression,
     CompareRecord
<1>2. /\ \A r \in Runs : ~JobIsLive(r)
      /\ jobs[b].pc \in {"ended", "gone"} /\ jobs[b].record = cmp.lhs
  BY <1>0, <1>1 DEF BenchInv, CmpInv, JobIsLive
<1>3. /\ \A q \in Places \ {b} : jobs'[q] = jobs[q]
      /\ jobs'[b].pc = jobs[b].pc /\ jobs'[b].exit = jobs[b].exit
      /\ jobs'[b].record = jobs[b].record
  BY <1>1, <1>2 DEF CompareStep, CompareReport, CompareRegression, CompareRecord, Jobs
<1>4. \A p \in Places : JobIn(p)'
  <2> SUFFICES ASSUME NEW p \in Places PROVE JobIn(p)'
    OBVIOUS
  <2>1. CASE p = b
    BY <1>2, <1>3, <2>1 DEF JobIn, JobIsLive
  <2>2. CASE p # b
    BY <1>3, <2>2 DEF BenchInv, JobIn, JobIsLive
  <2> QED
    BY <2>1, <2>2
<1>5. \/ cmp' = NoComparison
      \/ cmp'.run = b /\ cmp'.lhs = cmp.lhs /\ cmp'.rhs = cmp.rhs
  BY <1>0 DEF CompareStep, CompareReport, CompareRegression, CompareRecord, Comparisons,
     NoComparison
<1>6. CmpInv'
  BY <1>2, <1>3, <1>5 DEF CmpInv, JobIsLive, Places
<1>7. FinishedKept /\ GateKept
  BY <1>3 DEF FinishedKept, GateKept, Places
<1>8. ASSUME ~torn', NEW r \in Runs PROVE Agreeing(r)'
  <2>1. Agreeing(r)
    BY <1>1, <1>8 DEF BenchInv
  <2>2. CASE r # b
    BY <1>3, <1>5, <2>1, <2>2 DEF Agreeing, HalfWritten, Agree, Places
  <2>3. CASE r = b /\ CompareReport
    <3>1. /\ cmp'.pc = "regression"
          /\ jobs'[b].report = [lhs |-> cmp.lhs, rhs |-> cmp.rhs]
      BY <1>0, <1>1, <2>3 DEF CompareReport, Jobs, Comparisons, NoComparison
    <3> QED
      BY <1>5, <2>3, <3>1 DEF Agreeing, HalfWritten, NoComparison
  <2>4. CASE r = b /\ CompareRegression
    <3> DEFINE verdict == Regression(cmp.lhs, cmp.rhs)
    <3>1. /\ cmp.pc = "regression" /\ cmp' = [cmp EXCEPT !.pc = "record"]
          /\ jobs' = [jobs EXCEPT ![b].regression = verdict]
      BY <2>4 DEF CompareRegression
    <3>2. verdict = Regression(cmp.lhs, cmp.rhs)
      OBVIOUS
    <3> HIDE DEF verdict
    <3>3. jobs'[b].regression = verdict /\ jobs'[b].report = jobs[b].report
      BY <1>1, <3>1 DEF Jobs
    <3>4. jobs[b].report = [lhs |-> cmp.lhs, rhs |-> cmp.rhs]
      BY <1>0, <1>2, <2>1, <2>4, <3>1 DEF Agreeing, HalfWritten
    <3>5. cmp'.pc = "record"
      BY <1>0, <3>1 DEF Comparisons, NoComparison
    <3> QED
      BY <1>5, <2>4, <3>2, <3>3, <3>4, <3>5 DEF Agreeing, HalfWritten, NoComparison
  <2>5. CASE r = b /\ CompareRecord
    <3>1. cmp.pc = "record" /\ cmp' = NoComparison
      BY <2>5 DEF CompareRecord
    <3>2. /\ jobs'[b].report = jobs[b].report
          /\ jobs'[b].regression = jobs[b].regression
      BY <1>1, <2>5 DEF CompareRecord, Jobs
    <3>3. /\ jobs[b].report = [lhs |-> cmp.lhs, rhs |-> cmp.rhs]
          /\ jobs[b].regression = Regression(cmp.lhs, cmp.rhs)
      BY <1>0, <1>2, <2>1, <2>5, <3>1 DEF Agreeing, HalfWritten
    <3>4. Agree(jobs'[b])
      <4>1. jobs[b].report.lhs = cmp.lhs /\ jobs[b].report.rhs = cmp.rhs
        BY <3>3
      <4> QED
        BY <1>2, <1>3, <3>2, <3>3, <4>1 DEF Agree
    <3> QED
      BY <2>5, <3>1, <3>4 DEF Agreeing, HalfWritten
  <2> QED
    BY <2>2, <2>3, <2>4, <2>5 DEF CompareStep
<1> QED
  BY <1>4, <1>6, <1>7, <1>8 DEF Held, BenchInv

LEMMA BenchStep ==
    ASSUME ~Overlapping, BenchInv, [Next]_vars
    PROVE  Held
PROOF
<1>1. TypeOK'
  BY TypeStep DEF BenchInv
<1>2. CASE jobs' = jobs /\ cmp' = cmp /\ torn' = torn
  BY <1>1, <1>2, NothingHeld
<1>3. ASSUME KillDecide
      PROVE  Held
  <2>1. jobs' = jobs /\ cmp' = cmp /\ torn' = TRUE
    BY <1>3 DEF KillDecide
  <2> QED
    BY <1>1, <2>1 DEF Held, BenchInv, JobIn, JobIsLive, CmpInv, FinishedKept, GateKept
<1>4. CASE Next
  <2>1. \/ \E b \in Runs : RefreshBaseline(b)
        \/ \E o \in Opts : StartDecide(o)
        \/ RedoDecision \/ RedoRecord \/ EditConfig
        => jobs' = jobs /\ cmp' = cmp /\ torn' = torn
    BY DEF RefreshBaseline, StartDecide, BeginDecide, RedoDecision, RedoRecord, EditConfig
  <2> QED
    BY <1>1, <1>2, <1>3, <1>4, <2>1, NextCases, JobStepHeld, RunCommandHeld,
       OptimizeHeld, CompareCommandHeld, CompareHeld, Zenon
<1> QED
  BY <1>2, <1>4 DEF vars

LEMMA BenchInitial == Init => BenchInv
PROOF
<1> SUFFICES ASSUME Init PROVE BenchInv
  OBVIOUS
<1>1. /\ \A p \in Places : jobs[p] = NewJob
      /\ cmp = NoComparison
  BY DEF Init, BenchInit
<1>2. \A p \in Places : JobIn(p)
  BY <1>1 DEF JobIn, JobIsLive, NewJob
<1>3. \A b \in Runs : Agreeing(b)
  BY <1>1 DEF Agreeing, NewJob, Places
<1> QED
  BY <1>1, <1>2, <1>3, InitType DEF BenchInv, CmpInv

\* With one command at a time, for any number of runs: when no command is at
\* work and none was killed, a report and a regression result are those of the
\* record beside them, however often it was compared with whatever.
THEOREM EvidenceAgrees == ~Overlapping => (Spec => []EvidenceIsOfTheRecord)
PROOF
<1> SUFFICES ASSUME ~Overlapping PROVE Spec => []EvidenceIsOfTheRecord
  OBVIOUS
<1>1. BenchInv /\ [Next]_vars => BenchInv'
  BY BenchStep DEF Held
<1>2. BenchInv => EvidenceIsOfTheRecord
  <2> SUFFICES ASSUME BenchInv, AllIdle, ~torn, NEW b \in Runs, jobs[b].report # NoReport
               PROVE  /\ jobs[b].report.lhs = jobs[b].record
                      /\ jobs[b].regression =
                            Regression(jobs[b].report.lhs, jobs[b].report.rhs)
    BY DEF EvidenceIsOfTheRecord
  <2>1. cmp = NoComparison /\ jobs[b].pc \in {"new", "ended", "gone"}
    BY DEF AllIdle, JobIsLive
  <2>2. jobs[b].pc # "new"
    BY DEF BenchInv, JobIn, Places
  <2> QED
    BY <2>1, <2>2 DEF BenchInv, Agreeing, HalfWritten, Agree
<1> QED
  BY <1>1, <1>2, BenchInitial, PTL DEF Spec

\* With one command at a time, for any number of runs: nothing changes the
\* record of a benchmark run that has finished.
THEOREM FinishedIsKept == ~Overlapping => (Spec => FinishedRunsAreKept)
PROOF
<1> SUFFICES ASSUME ~Overlapping PROVE Spec => FinishedRunsAreKept
  OBVIOUS
<1>1. BenchInv /\ [Next]_vars => BenchInv' /\ [FinishedKept]_vars
  BY BenchStep DEF Held
<1> QED
  BY <1>1, BenchInitial, PTL DEF Spec, FinishedRunsAreKept, FinishedKept

\* With one command at a time, for any catalog, thresholds and baseline: a
\* benchmark command that exits 0 has passed every case, and has lost nothing
\* against the baseline that its thresholds forbid.
THEOREM GateIsKept == ~Overlapping => (Spec => GateHolds)
PROOF
<1> SUFFICES ASSUME ~Overlapping PROVE Spec => GateHolds
  OBVIOUS
<1>1. BenchInv /\ [Next]_vars => BenchInv' /\ [GateKept]_vars
  BY BenchStep DEF Held
<1> QED
  BY <1>1, BenchInitial, PTL DEF Spec, GateHolds, GateKept

=============================================================================
