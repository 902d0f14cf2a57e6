-------------------------- MODULE OptimizerProofs --------------------------
(***************************************************************************)
(* Type correctness of the benchmark and optimization commands, and what a *)
(* kept candidate and a recorded verdict stand for, for any catalog, any   *)
(* thresholds and any number of runs.                                      *)
(***************************************************************************)
EXTENDS OptimizerProperties, FiniteSetTheorems, TLAPS

(* The operators of Evals have the types the records ask for. *)

LEMMA UnmetCount ==
    ASSUME NEW S \in SUBSET {"decision", "approval"}
    PROVE  Cardinality(S) \in 0 .. 2 /\ (Cardinality(S) = 0 <=> S = {})
PROOF
<1>1. {"decision", "approval"} = {} \cup {"decision"} \cup {"approval"}
  OBVIOUS
<1>2. IsFiniteSet({"decision"}) /\ Cardinality({"decision"}) = 1
  BY FS_Singleton
<1>3. /\ IsFiniteSet({"decision", "approval"})
      /\ Cardinality({"decision", "approval"}) = 2
  <2>1. {"decision"} \cup {"approval"} = {"decision", "approval"} /\ "approval" \notin {"decision"}
    OBVIOUS
  <2> QED
    BY <1>2, <2>1, FS_AddElement
<1>4. IsFiniteSet(S) /\ Cardinality(S) \in Nat /\ Cardinality(S) <= 2
  BY <1>3, FS_Subset, FS_CardinalityType
<1>5. Cardinality(S) = 0 <=> S = {}
  BY <1>4, FS_EmptySet, Zenon
<1>6. Cardinality(S) \in 0 .. 2
  BY <1>4
<1> QED
  BY <1>5, <1>6

LEMMA PolicyMetricType ==
    ASSUME NEW c \in Cases, NEW obs
    PROVE  PolicyMetric(c, obs) \in [passed : BOOLEAN, score : Nat]
PROOF
<1> DEFINE unmet == {x \in Expects[c] : ~obs[x]}
<1>1. Expects[c] \in SUBSET {"decision", "approval"} /\ unmet \in SUBSET {"decision", "approval"}
  BY ExpectsAssumption
<1>2. Cardinality(unmet) \in 0 .. 2
  BY <1>1, UnmetCount
<1>3. Cardinality(Expects[c]) \in 0 .. 2 /\ (Expects[c] # {} => Cardinality(Expects[c]) > 0)
  BY <1>1, UnmetCount
<1> DEFINE met == (2 - Cardinality(unmet)) * Unit
<1>4. met \in Nat
  <2>1. 2 - Cardinality(unmet) \in 0 .. 2
    BY <1>2
  <2> HIDE DEF unmet
  <2> QED
    BY <2>1, UnitAssumption
<1>5. Expects[c] # {} => met \div Cardinality(Expects[c]) \in Nat
  <2> HIDE DEF met
  <2> QED
    BY <1>3, <1>4
<1> HIDE DEF met
<1>6. (IF Expects[c] = {} THEN Unit ELSE met \div Cardinality(Expects[c])) \in Nat
  BY <1>5, UnitAssumption
<1> QED
  BY <1>6 DEF PolicyMetric, met

LEMMA CaseMetricsType ==
    ASSUME NEW c \in Cases, NEW obs \in Observation
    PROVE  CaseMetrics(c, obs) \in [MetricNames -> [passed : BOOLEAN, score : Nat]]
PROOF
<1>1. /\ SuccessMetric(obs) \in [passed : BOOLEAN, score : Nat]
      /\ VerificationMetric(obs) \in [passed : BOOLEAN, score : Nat]
      /\ PacketMetric(obs) \in [passed : BOOLEAN, score : Nat]
      /\ ArtifactMetric(obs) \in [passed : BOOLEAN, score : Nat]
  BY UnitAssumption DEF Observation, SuccessMetric, VerificationMetric, PacketMetric,
     ArtifactMetric, AllOrNothing, Share
<1> QED
  BY <1>1, PolicyMetricType DEF CaseMetrics, MetricNames

LEMMA ErroredType == Errored \in CaseResults
  BY UnitAssumption DEF Errored, CaseResults, Metric, AllOrNothing

LEMMA CaseResultType ==
    ASSUME NEW c \in Cases, NEW obs \in Observation
    PROVE  CaseResult(c, obs) \in CaseResults
PROOF
<1> DEFINE metrics == CaseMetrics(c, obs)
<1>1. metrics \in [MetricNames -> [passed : BOOLEAN, score : Nat]]
  BY CaseMetricsType
<1>2. CASE \E m \in MetricNames : metrics[m].score > Unit
  BY <1>2, ErroredType DEF CaseResult
<1>3. CASE ~ \E m \in MetricNames : metrics[m].score > Unit
  <2> HIDE DEF metrics
  <2>1. \A m \in MetricNames : metrics[m] \in Metric
    BY <1>1, <1>3, UnitAssumption DEF Metric
  <2>2. metrics \in [MetricNames -> Metric]
    BY <1>1, <2>1
  <2> QED
    BY <1>3, <2>2 DEF CaseResult, CaseResults, metrics
<1> QED
  BY <1>2, <1>3

LEMMA OutcomesType ==
    ASSUME NEW c \in Cases
    PROVE  CaseOutcomes(c) \subseteq CaseResults
  BY CaseResultType, ErroredType, ObservationsAssumption DEF CaseOutcomes

LEMMA EmptyType == Empty \in Results /\ Running \in Records
  BY DEF Empty, Results, Running, Records

LEMMA FinishedType ==
    ASSUME NEW results \in Results
    PROVE  Finished(results) \in Records /\ Finished(results).status \in {"completed", "failed"}
  BY DEF Finished, Records

LEMMA RegressionType ==
    ASSUME NEW lhs, NEW rhs
    PROVE  Regression(lhs, rhs) \in {"passed", "failed"}
  BY DEF Regression

LEMMA DecisionType ==
    ASSUME NEW conf, NEW audit, NEW report, NEW regression
    PROVE  Decision(conf, audit, report, regression) \in {"keep", "reject"}
  BY DEF Decision

-----------------------------------------------------------------------------
(* Type correctness. *)

LEMMA NewTypes ==
    /\ NewJob \in Jobs
    /\ NewOpt \in OptRecords
    /\ NoConfig \in Configs \cup {NoConfig}
    /\ Unset \in BaselineValues
  BY EmptyType DEF NewJob, Jobs, NewOpt, OptRecords, BaselineValues, Targets, Suite,
     Verdicts, OptStatuses, Decisions

LEMMA BegunType ==
    ASSUME NEW target \in Targets
    PROVE  Begun(target) \in Jobs
  BY EmptyType DEF Begun, NewJob, Jobs, Verdicts

LEMMA ThrownType ==
    ASSUME TypeOK, NEW p \in Places
    PROVE  Thrown(p) \in Jobs
  BY EmptyType DEF TypeOK, Thrown, Jobs

LEMMA InitType == Init => TypeOK
PROOF
<1> SUFFICES ASSUME Init PROVE TypeOK
  OBVIOUS
<1>1. baseline \in [Repositories -> BaselineValues]
  BY NewTypes, BaselinesAssumption DEF Init, BenchInit
<1>2. /\ jobs \in [Places -> Jobs] /\ opts \in [Opts -> OptRecords]
  BY NewTypes DEF Init, BenchInit
<1>3. cmp \in Comparisons /\ torn \in BOOLEAN /\ config \in Configs /\ redo \in Redos
  BY DEF Init, BenchInit, Comparisons, Redos
<1> QED
  BY <1>1, <1>2, <1>3 DEF TypeOK

LEMMA JobStepType ==
    ASSUME TypeOK, NEW p \in Places, JobStep(p), UNCHANGED optVars
    PROVE  TypeOK'
PROOF
<1>1. jobs[p] \in Jobs /\ jobs[p].done \in Results
  BY DEF TypeOK, Jobs
<1>2. UNCHANGED <<baseline, cmp, torn, config, opts, redo>>
  BY DEF JobStep, RunCase, PrepareCaseThrows, LoadBaseline, PersistReport,
     PersistRegression, PersistRun, optVars
<1>3. \E j \in Jobs : jobs' = [jobs EXCEPT ![p] = j]
  <2>1. CASE RunCase(p)
    <3> DEFINE c == Min(RemainingCases(p))
    <3>1. PICK result \in CaseOutcomes(c) : jobs' = [jobs EXCEPT ![p].done[c] = result]
      BY <2>1 DEF RunCase
    <3> DEFINE j == [jobs[p] EXCEPT !.done[c] = result]
    <3>2. [jobs[p].done EXCEPT ![c] = result] \in Results
      <4>1. CASE c \in Cases
        BY <1>1, <4>1, OutcomesType DEF Results
      <4>2. CASE c \notin Cases
        <5> HIDE DEF c
        <5> QED
          BY <1>1, <4>2 DEF Results
      <4> QED
        BY <4>1, <4>2
    <3>3. j \in Jobs
      <4> HIDE DEF c
      <4> QED
        BY <1>1, <2>1, <3>2 DEF Jobs, RunCase
    <3>4. jobs' = [jobs EXCEPT ![p] = j]
      BY <3>1
    <3> QED
      BY <3>3, <3>4
  <2>2. CASE PrepareCaseThrows(p)
    BY <2>2, ThrownType DEF PrepareCaseThrows
  <2>3. CASE LoadBaseline(p)
    <3> DEFINE rhs == baseline[RepositoryOf(p)]
    <3>1. rhs \in BaselineValues
      BY DEF TypeOK, RepositoryOf, Repositories, Places
    <3>2. CASE jobs[p].target # Suite \/ rhs = Unset
      <4>1. [jobs[p] EXCEPT !.pc = "record"] \in Jobs
        BY <1>1 DEF Jobs
      <4> QED
        BY <2>3, <3>2, <4>1 DEF LoadBaseline
    <3>3. CASE ~(jobs[p].target # Suite \/ rhs = Unset) /\ rhs = NoRecord
      BY <2>3, <3>3, ThrownType DEF LoadBaseline
    <3>4. CASE ~(jobs[p].target # Suite \/ rhs = Unset) /\ rhs # NoRecord
      <4>1. rhs \in Records /\ rhs # NoRecord
        BY <3>1, <3>4 DEF BaselineValues, Unset
      <4> DEFINE j == [jobs[p] EXCEPT !.pc = "report", !.rhs = rhs]
      <4>2. jobs' = [jobs EXCEPT ![p] = j]
        BY <2>3, <3>4 DEF LoadBaseline
      <4>3. j \in Jobs
        <5> HIDE DEF rhs
        <5> QED
          BY <1>1, <4>1 DEF Jobs
      <4> QED
        BY <4>2, <4>3
    <3> QED
      BY <3>2, <3>3, <3>4
  <2>4. CASE PersistReport(p)
    <3> DEFINE report == [lhs |-> Finished(jobs[p].done), rhs |-> jobs[p].rhs]
    <3> DEFINE j == [jobs[p] EXCEPT !.pc = "regression", !.report = report]
    <3>1. jobs' = [jobs EXCEPT ![p] = j]
      BY <2>4 DEF PersistReport
    <3>2. j \in Jobs
      <4>1. report \in Reports
        BY <1>1, <2>4, FinishedType DEF Jobs, Reports, PersistReport
      <4> HIDE DEF report
      <4> QED
        BY <1>1, <2>4, <4>1 DEF Jobs, PersistReport
    <3> QED
      BY <3>1, <3>2
  <2>5. CASE PersistRegression(p)
    <3> DEFINE verdict == Regression(Finished(jobs[p].done), jobs[p].rhs)
    <3> DEFINE j == [jobs[p] EXCEPT !.pc = "record", !.regression = verdict]
    <3>1. jobs' = [jobs EXCEPT ![p] = j]
      BY <2>5 DEF PersistRegression
    <3>2. verdict \in Verdicts
      BY RegressionType DEF Verdicts
    <3>3. j \in Jobs
      <4> HIDE DEF verdict
      <4> QED
        BY <1>1, <3>2 DEF Jobs
    <3> QED
      BY <3>1, <3>3
  <2>6. CASE PersistRun(p)
    <3>1. PICK x \in {"0", "1"} :
             jobs' = [jobs EXCEPT ![p] =
                [@ EXCEPT !.pc = "ended", !.record = Finished(jobs[p].done), !.done = Empty,
                          !.rhs = NoRecord, !.exit = x]]
      BY <2>6 DEF PersistRun
    <3> DEFINE run == Finished(jobs[p].done)
    <3> DEFINE j == [jobs[p] EXCEPT !.pc = "ended", !.record = run, !.done = Empty,
                                    !.rhs = NoRecord, !.exit = x]
    <3>2. jobs' = [jobs EXCEPT ![p] = j]
      BY <3>1
    <3>3. run \in Records
      BY <1>1, FinishedType
    <3>4. j \in Jobs
      <4> HIDE DEF run
      <4> QED
        BY <1>1, <3>3, EmptyType DEF Jobs
    <3> QED
      BY <3>2, <3>4
  <2> QED
    BY <2>1, <2>2, <2>3, <2>4, <2>5, <2>6 DEF JobStep
<1> QED
  BY <1>2, <1>3 DEF TypeOK

\* The commands of the benchmark.
LEMMA BenchCommandType ==
    ASSUME TypeOK, NEW b \in Runs, UNCHANGED optVars,
           (\E target \in Targets : StartRun(b, target)) \/ StartCompare(b)
              \/ KillRun(b) \/ RefreshBaseline(b)
    PROVE  TypeOK'
PROOF
<1>1. b \in Places /\ jobs[b] \in Jobs
  BY DEF TypeOK, Places
<1>2. ASSUME NEW target \in Targets, StartRun(b, target)
      PROVE  TypeOK'
  BY <1>2, BegunType DEF TypeOK, StartRun, optVars
<1>3. CASE StartCompare(b)
  <2>1. PICK rhs \in RecordsToCompareWith(b) \ {NoRecord, Unset} :
           cmp' = [pc |-> "report", run |-> b, lhs |-> jobs[b].record, rhs |-> rhs]
    BY <1>3 DEF StartCompare
  <2>2. jobs[b].record \in Records
    BY <1>1, <1>3 DEF StartCompare, Jobs
  <2>3. rhs \in Records
    BY DEF RecordsToCompareWith, TypeOK, Jobs, Places, Repositories, BaselineValues
  <2>4. cmp' \in Comparisons
    BY <2>1, <2>2, <2>3 DEF Comparisons
  <2> QED
    BY <1>3, <2>4 DEF TypeOK, StartCompare, optVars
<1>4. CASE KillRun(b)
  BY <1>1, <1>4, ThrownType DEF TypeOK, KillRun, optVars
<1>5. CASE RefreshBaseline(b)
  <2>1. jobs[b].record \in BaselineValues
    BY <1>1 DEF Jobs, BaselineValues
  <2> QED
    BY <1>5, <2>1 DEF TypeOK, RefreshBaseline, optVars
<1> QED
  BY <1>2, <1>3, <1>4, <1>5

LEMMA CompareType ==
    ASSUME TypeOK, CompareStep \/ KillCompare, UNCHANGED optVars
    PROVE  TypeOK'
PROOF
<1>1. CASE KillCompare
  BY <1>1 DEF TypeOK, KillCompare, Comparisons, optVars
<1>2. CASE CompareStep
  <2>1. cmp # NoComparison
    BY <1>2 DEF CompareStep, CompareReport, CompareRegression, CompareRecord, NoComparison
  <2>2. /\ cmp.run \in Runs /\ cmp.lhs \in Records /\ cmp.rhs \in Records
        /\ cmp.run \in Places /\ jobs[cmp.run] \in Jobs
    BY <2>1 DEF TypeOK, Comparisons, Places
  <2>3. CASE CompareReport
    <3>1. [lhs |-> cmp.lhs, rhs |-> cmp.rhs] \in Reports
      BY <2>2 DEF Reports
    <3>2. [jobs[cmp.run] EXCEPT !.report = [lhs |-> cmp.lhs, rhs |-> cmp.rhs]] \in Jobs
      BY <2>2, <3>1 DEF Jobs
    <3>3. cmp' \in Comparisons
      BY <2>1, <2>3 DEF CompareReport, TypeOK, Comparisons
    <3> QED
      BY <2>2, <2>3, <3>2, <3>3 DEF TypeOK, CompareReport, optVars
  <2>4. CASE CompareRegression
    <3>1. [jobs[cmp.run] EXCEPT !.regression = Regression(cmp.lhs, cmp.rhs)] \in Jobs
      BY <2>2, RegressionType DEF Jobs, Verdicts
    <3>2. cmp' \in Comparisons
      BY <2>1, <2>4 DEF CompareRegression, TypeOK, Comparisons
    <3> QED
      BY <2>2, <2>4, <3>1, <3>2 DEF TypeOK, CompareRegression, optVars
  <2>5. CASE CompareRecord
    <3>1. [jobs[cmp.run] EXCEPT !.record = cmp.lhs] \in Jobs
      BY <2>2 DEF Jobs
    <3>2. cmp' \in Comparisons
      BY <2>5 DEF CompareRecord, Comparisons
    <3> QED
      BY <2>2, <2>5, <3>1, <3>2 DEF TypeOK, CompareRecord, optVars
  <2> QED
    BY <1>2, <2>3, <2>4, <2>5 DEF CompareStep
<1> QED
  BY <1>1, <1>2

LEMMA OptimizeType ==
    ASSUME TypeOK, NEW o \in Opts, StartOptimize(o) \/ OptimizeStep(o) \/ KillOptimize(o)
    PROVE  TypeOK'
PROOF
<1>1. /\ opts[o] \in OptRecords /\ o \in Places /\ jobs[o] \in Jobs
      /\ o \in Repositories /\ "main" \in Repositories
      /\ opts[o].config \in Configs \cup {NoConfig}
  BY OptsAssumption DEF TypeOK, Places, Repositories, OptRecords
<1>2. CASE StartOptimize(o)
  <2>1. PICK candidate \in Candidates :
           opts' = [opts EXCEPT ![o] = [NewOpt EXCEPT !.pc = "begin", !.config = config,
                                                      !.audit = Audit(candidate, config)]]
    BY <1>2 DEF StartOptimize
  <2>2. Audit(candidate, config) \in {"clean", "blocked"} /\ config \in Configs
    BY DEF Audit, TypeOK
  <2>3. [NewOpt EXCEPT !.pc = "begin", !.config = config, !.audit = Audit(candidate, config)]
           \in OptRecords
    BY <2>2, NewTypes DEF OptRecords
  <2> QED
    BY <1>2, <2>1, <2>3 DEF TypeOK, StartOptimize
<1>3. CASE RecordOptimize(o)
  BY <1>1, <1>3 DEF RecordOptimize, TypeOK, OptRecords, OptStatuses
<1>4. CASE RejectBlocked(o)
  <2> DEFINE d == Decision(opts[o].config, "blocked", NoReport, "none")
  <2>1. d \in {"keep", "reject"}
    BY DecisionType
  <2>2. opts' = [opts EXCEPT ![o] = [@ EXCEPT !.pc = "blocked", !.decision = d]]
    BY <1>4 DEF RejectBlocked
  <2> HIDE DEF d
  <2>3. [opts[o] EXCEPT !.pc = "blocked", !.decision = d] \in OptRecords
    BY <1>1, <2>1 DEF OptRecords, Decisions
  <2> QED
    BY <1>4, <2>2, <2>3 DEF RejectBlocked, TypeOK
<1>5. CASE RecordBlocked(o)
  BY <1>1, <1>5 DEF RecordBlocked, TypeOK, OptRecords, OptStatuses
<1>6. CASE PrepareWorkspace(o)
  <2>1. opts' \in [Opts -> OptRecords]
    <3>1. PICK loc \in {"apply", "gone"} :
             opts' = [opts EXCEPT ![o] = [@ EXCEPT !.pc = loc, !.workspace = TRUE]]
      BY <1>6 DEF PrepareWorkspace
    <3>2. [opts[o] EXCEPT !.pc = loc, !.workspace = TRUE] \in OptRecords
      BY <1>1 DEF OptRecords
    <3> QED
      BY <3>1, <3>2 DEF TypeOK
  <2>2. baseline' \in [Repositories -> BaselineValues]
    BY <1>1, <1>6 DEF PrepareWorkspace, CopiedBaseline, TypeOK
  <2> QED
    BY <1>6, <2>1, <2>2 DEF PrepareWorkspace, TypeOK
<1>7. CASE ApplyCandidate(o)
  <2>1. opts' \in [Opts -> OptRecords]
    BY <1>1, <1>7 DEF ApplyCandidate, TypeOK, OptRecords
  <2>2. jobs' \in [Places -> Jobs]
    BY <1>1, <1>7, BegunType DEF ApplyCandidate, TypeOK
  <2> QED
    BY <1>7, <2>1, <2>2 DEF ApplyCandidate, TypeOK
<1>8. CASE OptimizeThrew(o)
  BY <1>1, <1>8 DEF OptimizeThrew, OptGoTo, TypeOK, OptRecords
<1>9. CASE CopyEvidence(o)
  BY <1>1, <1>9 DEF CopyEvidence, TypeOK, OptRecords, Jobs
<1>10. CASE DecideCandidate(o)
  <2> DEFINE d == Decision(opts[o].config, opts[o].audit, jobs[o].report, jobs[o].regression)
  <2>1. d \in {"keep", "reject"}
    BY DecisionType
  <2>2. opts' = [opts EXCEPT ![o] = [@ EXCEPT !.pc = "finish", !.decision = d]]
    BY <1>10 DEF DecideCandidate
  <2> HIDE DEF d
  <2>3. [opts[o] EXCEPT !.pc = "finish", !.decision = d] \in OptRecords
    BY <1>1, <2>1 DEF OptRecords, Decisions
  <2> QED
    BY <1>10, <2>2, <2>3 DEF DecideCandidate, TypeOK
<1>11. CASE FinishOptimize(o)
  BY <1>1, <1>11 DEF FinishOptimize, TypeOK, OptRecords, OptStatuses
<1>12. CASE CleanUp(o)
  <2>1. opts' \in [Opts -> OptRecords]
    BY <1>1, <1>12 DEF CleanUp, TypeOK, OptRecords
  <2>2. jobs' \in [Places -> Jobs] /\ baseline' \in [Repositories -> BaselineValues]
    BY <1>1, <1>12, NewTypes DEF CleanUp, TypeOK
  <2> QED
    BY <1>12, <2>1, <2>2 DEF CleanUp, TypeOK
<1>13. CASE KillOptimize(o)
  <2>1. opts' \in [Opts -> OptRecords]
    BY <1>1, <1>13 DEF KillOptimize, TypeOK, OptRecords
  <2>2. jobs' \in [Places -> Jobs] /\ baseline' \in [Repositories -> BaselineValues]
    BY <1>1, <1>13, NewTypes DEF KillOptimize, TypeOK
  <2> QED
    BY <1>13, <2>1, <2>2 DEF KillOptimize, TypeOK
<1> QED
  BY <1>2, <1>3, <1>4, <1>5, <1>6, <1>7, <1>8, <1>9, <1>10, <1>11, <1>12, <1>13 DEF OptimizeStep

LEMMA DecideType ==
    ASSUME TypeOK, (\E o \in Opts : StartDecide(o)) \/ RedoDecision \/ RedoRecord \/ KillDecide
    PROVE  TypeOK'
PROOF
<1>1. ASSUME NEW o \in Opts, StartDecide(o)
      PROVE  TypeOK'
  <2> DEFINE d == DecideAgain(o, opts[o].config)
  <2>1. d \in {"keep", "reject"}
    BY DecisionType DEF DecideAgain
  <2>2. BeginDecide(o, d, StatusAfter(o, d))
    BY <1>1 DEF StartDecide
  <2> HIDE DEF d
  <2>3. StatusAfter(o, d) \in {"blocked", "completed", "failed"}
    BY DEF StatusAfter
  <2> QED
    BY <2>1, <2>2, <2>3 DEF BeginDecide, TypeOK, Redos
<1>2. CASE RedoDecision \/ RedoRecord
  <2>1. redo # NoRedo
    BY <1>2 DEF RedoDecision, RedoRecord, NoRedo
  <2>2. /\ redo.opt \in Opts /\ redo.decision \in Decisions /\ redo.status \in OptStatuses
        /\ opts[redo.opt] \in OptRecords
    BY <2>1 DEF TypeOK, Redos, Decisions, OptStatuses
  <2>3. opts' \in [Opts -> OptRecords]
    BY <1>2, <2>2 DEF RedoDecision, RedoRecord, TypeOK, OptRecords
  <2>4. redo' \in Redos
    BY <1>2, <2>1 DEF RedoDecision, RedoRecord, TypeOK, Redos
  <2> QED
    BY <1>2, <2>3, <2>4 DEF RedoDecision, RedoRecord, TypeOK
<1>3. CASE KillDecide
  BY <1>3 DEF KillDecide, TypeOK, Redos
<1> QED
  BY <1>1, <1>2, <1>3

\* The steps of Next, by the command that takes them.
LEMMA NextCases ==
    ASSUME Next
    PROVE  \/ \E p \in Places : JobStep(p) /\ UNCHANGED optVars
           \/ \E b \in Runs : /\ \/ CommandMayStart /\ \E target \in Targets : StartRun(b, target)
                                 \/ CommandMayStart /\ StartCompare(b)
                                 \/ KillRun(b)
                                 \/ RefreshBaseline(b)
                              /\ UNCHANGED optVars
           \/ (CompareStep \/ KillCompare) /\ UNCHANGED optVars
           \/ \E o \in Opts : \/ CommandMayStart /\ StartOptimize(o)
                              \/ OptimizeStep(o)
                              \/ KillOptimize(o)
           \/ CommandMayStart /\ \E o \in Opts : StartDecide(o)
           \/ RedoDecision \/ RedoRecord \/ KillDecide
           \/ EditConfig
  BY Zenon DEF Next, ProcessStep

LEMMA TypeStep == TypeOK /\ [Next]_vars => TypeOK'
PROOF
<1> SUFFICES ASSUME TypeOK, [Next]_vars PROVE TypeOK'
  OBVIOUS
<1>1. CASE UNCHANGED vars
  BY <1>1 DEF vars, TypeOK
<1>2. CASE EditConfig
  BY <1>2 DEF EditConfig, TypeOK
<1>3. CASE Next
  BY <1>2, <1>3, NextCases, JobStepType, BenchCommandType, CompareType, OptimizeType,
     DecideType, Zenon
<1> QED
  BY <1>1, <1>3

\* Type correctness of the benchmark and optimization state, for any catalog,
\* any thresholds and any number of runs: in particular no record, report or
\* decision is written from something that is not there.
THEOREM TypeCorrect == Spec => []TypeOK
  BY InitType, TypeStep, PTL DEF Spec

-----------------------------------------------------------------------------
(* A kept candidate is an improvement.                                       *)
(*                                                                           *)
(* The decision is taken from what the benchmark left in the workspace, and  *)
(* later again from the copies: the inductive invariant follows the report   *)
(* and its regression result from the one to the other, and says when a run  *)
(* can have a decision, or be about to get one, at all.                      *)

\* A regression result is the one of the report beside it.
Sound(report, regression) ==
    report # NoReport => regression = Regression(report.lhs, report.rhs)

JobEvidence(p) ==
    /\ jobs[p].pc \in {"new", "cases", "report"} => jobs[p].report = NoReport
    /\ jobs[p].pc = "regression" =>
          jobs[p].report = [lhs |-> Finished(jobs[p].done), rhs |-> jobs[p].rhs]
    /\ jobs[p].pc \in {"record", "ended"} => Sound(jobs[p].report, jobs[p].regression)

OptEvidence(o) ==
    /\ Sound(opts[o].report, opts[o].regression)
    /\ opts[o].linked => opts[o].pc \in {"cleanup", "ended", "gone"}
    /\ opts[o].pc = "decide" => /\ jobs[o].pc = "ended"
                                /\ opts[o].report = jobs[o].report
                                /\ opts[o].regression = jobs[o].regression
    /\ opts[o].decision = "keep" =>
          /\ opts[o].pc \in {"finish", "cleanup", "ended", "gone"}
          /\ Keep(opts[o].config, opts[o].audit, opts[o].report, opts[o].regression)

RedoEvidence ==
    redo.decision = "keep" =>
       /\ redo.opt \in Opts
       /\ opts[redo.opt].linked
       /\ LET r == opts[redo.opt]
          IN  Keep(r.config, r.audit, r.report, r.regression)

KeptInv ==
    /\ TypeOK
    /\ \A o \in Opts : JobEvidence(o) /\ OptEvidence(o)
    /\ RedoEvidence

LEMMA KeptInit == Init => KeptInv
PROOF
<1> SUFFICES ASSUME Init PROVE KeptInv
  OBVIOUS
<1>1. \A o \in Opts : jobs[o] = NewJob /\ opts[o] = NewOpt
  BY OptsAssumption DEF Init, BenchInit, Places
<1>2. \A o \in Opts : JobEvidence(o) /\ OptEvidence(o)
  BY <1>1 DEF JobEvidence, OptEvidence, Sound, NewJob, NewOpt
<1>3. RedoEvidence
  BY DEF Init, RedoEvidence, NoRedo
<1> QED
  BY <1>2, <1>3, InitType DEF KeptInv

\* A step that leaves a run, its workspace and the decide command alone.
LEMMA OptFrame ==
    ASSUME NEW o \in Opts, OptEvidence(o), opts'[o] = opts[o],
           opts[o].pc = "decide" => jobs'[o] = jobs[o]
    PROVE  OptEvidence(o)'
  BY DEF OptEvidence, Sound, Keep

LEMMA JobFrame ==
    ASSUME NEW o \in Opts, JobEvidence(o), jobs'[o] = jobs[o]
    PROVE  JobEvidence(o)'
  BY DEF JobEvidence, Sound

LEMMA RedoFrame ==
    ASSUME RedoEvidence, redo' = redo,
           redo.opt \in Opts /\ opts[redo.opt].linked =>
              /\ opts'[redo.opt].linked
              /\ opts'[redo.opt].config = opts[redo.opt].config
              /\ opts'[redo.opt].audit = opts[redo.opt].audit
              /\ opts'[redo.opt].report = opts[redo.opt].report
              /\ opts'[redo.opt].regression = opts[redo.opt].regression
    PROVE  RedoEvidence'
  BY DEF RedoEvidence, Keep

LEMMA JobStepEvidence ==
    ASSUME KeptInv, NEW p \in Places, JobStep(p), UNCHANGED optVars
    PROVE  \A o \in Opts : JobEvidence(o)' /\ OptEvidence(o)'
PROOF
<1> SUFFICES ASSUME NEW o \in Opts PROVE JobEvidence(o)' /\ OptEvidence(o)'
  OBVIOUS
<1>1. JobEvidence(o) /\ OptEvidence(o) /\ o \in Places /\ jobs \in [Places -> Jobs]
  BY OptsAssumption DEF KeptInv, TypeOK, Places
<1>2. \E j : jobs' = [jobs EXCEPT ![p] = j]
  BY DEF JobStep, RunCase, PrepareCaseThrows, LoadBaseline, PersistReport, PersistRegression,
     PersistRun
<1>3. jobs[p].pc \in {"cases", "report", "regression", "record"}
  BY DEF JobStep, RunCase, PrepareCaseThrows, LoadBaseline, PersistReport, PersistRegression,
     PersistRun
<1>4. opts[o].pc = "decide" => jobs'[o] = jobs[o]
  BY <1>1, <1>2, <1>3 DEF OptEvidence
<1>5. OptEvidence(o)'
  BY <1>1, <1>4, OptFrame DEF optVars
<1>6. CASE o # p
  BY <1>1, <1>2, <1>5, <1>6, JobFrame
<1>7. ASSUME o = p
      PROVE  JobEvidence(o)'
  <2>0. jobs[p] \in Jobs /\ jobs' = [jobs EXCEPT ![p] = jobs'[p]]
    BY <1>1, <1>2, <1>7
  <2>1. CASE RunCase(p)
    BY <1>1, <1>7, <2>0, <2>1 DEF RunCase, JobEvidence, Sound, Jobs
  <2>2. CASE PrepareCaseThrows(p)
    BY <1>1, <1>7, <2>0, <2>2 DEF PrepareCaseThrows, Thrown, JobEvidence, Jobs
  <2>3. CASE LoadBaseline(p)
    <3>1. \E rhs : jobs'[p] \in {[jobs[p] EXCEPT !.pc = "record"], Thrown(p),
                              [jobs[p] EXCEPT !.pc = "report", !.rhs = rhs]}
      <4> DEFINE rhs == baseline[RepositoryOf(p)]
      <4>1. \E j \in {[jobs[p] EXCEPT !.pc = "record"], Thrown(p),
                     [jobs[p] EXCEPT !.pc = "report", !.rhs = rhs]} :
               jobs' = [jobs EXCEPT ![p] = j]
        BY <2>3 DEF LoadBaseline
      <4> HIDE DEF rhs
      <4> QED
        BY <1>1, <4>1
    <3>2. /\ jobs'[p].pc \in {"record", "report", "gone"}
          /\ jobs[p].pc = "cases" /\ jobs'[p].report = jobs[p].report
          /\ jobs'[p].regression = jobs[p].regression
      <4>1. jobs[p].pc = "cases"
        BY <2>3 DEF LoadBaseline
      <4> QED
        BY <2>0, <3>1, <4>1 DEF Thrown, Jobs
    <3> QED
      BY <1>1, <1>7, <3>2 DEF JobEvidence, Sound
  <2>4. CASE PersistReport(p)
    BY <1>1, <1>7, <2>0, <2>4 DEF PersistReport, JobEvidence, Sound, Jobs
  <2>5. CASE PersistRegression(p)
    <3>1. /\ jobs[p].pc = "regression" /\ jobs'[p].pc = "record"
          /\ jobs'[p].report = jobs[p].report
          /\ jobs'[p].regression = Regression(Finished(jobs[p].done), jobs[p].rhs)
      <4> DEFINE verdict == Regression(Finished(jobs[p].done), jobs[p].rhs)
      <4>1. jobs' = [jobs EXCEPT ![p] = [jobs[p] EXCEPT !.pc = "record",
                                                        !.regression = verdict]]
        BY <2>5 DEF PersistRegression
      <4> HIDE DEF verdict
      <4>2. jobs'[p] = [jobs[p] EXCEPT !.pc = "record", !.regression = verdict]
        BY <1>1, <4>1
      <4>3. jobs'[p].regression = verdict
        BY <2>0, <4>2 DEF Jobs
      <4>4. jobs'[p].pc = "record" /\ jobs'[p].report = jobs[p].report
        BY <2>0, <4>2 DEF Jobs
      <4>5. jobs[p].pc = "regression"
        BY <2>5 DEF PersistRegression
      <4> QED
        BY <4>3, <4>4, <4>5 DEF verdict
    <3> QED
      BY <1>1, <1>7, <3>1 DEF JobEvidence, Sound
  <2>6. CASE PersistRun(p)
    <3>1. /\ jobs[p].pc = "record" /\ jobs'[p].pc = "ended"
          /\ jobs'[p].report = jobs[p].report /\ jobs'[p].regression = jobs[p].regression
      <4>1. PICK run, x :
               jobs' = [jobs EXCEPT ![p] =
                  [jobs[p] EXCEPT !.pc = "ended", !.record = run, !.done = Empty,
                                  !.rhs = NoRecord, !.exit = x]]
        BY <2>6 DEF PersistRun
      <4>2. jobs'[p] = [jobs[p] EXCEPT !.pc = "ended", !.record = run, !.done = Empty,
                                       !.rhs = NoRecord, !.exit = x]
        BY <1>1, <4>1
      <4>3. jobs[p].pc = "record"
        BY <2>6 DEF PersistRun
      <4> QED
        BY <2>0, <4>2, <4>3 DEF Jobs
    <3> QED
      BY <1>1, <1>7, <3>1 DEF JobEvidence, Sound
  <2> QED
    BY <2>1, <2>2, <2>3, <2>4, <2>5, <2>6 DEF JobStep
<1> QED
  BY <1>5, <1>6, <1>7

\* A run of the repository is not that of a workspace.
LEMMA BenchCommandEvidence ==
    ASSUME KeptInv, NEW b \in Runs, UNCHANGED optVars,
           jobs' = [jobs EXCEPT ![b] = jobs'[b]]
    PROVE  \A o \in Opts : JobEvidence(o)' /\ OptEvidence(o)'
PROOF
<1> SUFFICES ASSUME NEW o \in Opts PROVE JobEvidence(o)' /\ OptEvidence(o)'
  OBVIOUS
<1>1. JobEvidence(o) /\ OptEvidence(o)
  BY DEF KeptInv
<1>2. jobs'[o] = jobs[o]
  BY PlacesAssumption, OptsAssumption DEF KeptInv, TypeOK, Places
<1> QED
  BY <1>1, <1>2, OptFrame, JobFrame DEF optVars

\* A step of the commands other than `optimize run` that leaves what runs in a
\* workspace alone.
LEMMA BenchStepEvidence ==
    ASSUME KeptInv, TypeOK',
           \/ \E p \in Places : JobStep(p)
           \/ \E b \in Runs : \/ \E target \in Targets : StartRun(b, target)
                              \/ StartCompare(b) \/ KillRun(b) \/ RefreshBaseline(b)
           \/ CompareStep \/ KillCompare,
           UNCHANGED optVars
    PROVE  KeptInv'
PROOF
<1>1. RedoEvidence'
  BY RedoFrame DEF KeptInv, optVars
<1>2. CASE jobs' = jobs
  BY <1>1, <1>2, OptFrame, JobFrame DEF KeptInv, optVars
<1>3. CASE \E p \in Places : JobStep(p)
  BY <1>1, <1>3, JobStepEvidence DEF KeptInv
<1>4. ASSUME NEW b \in Runs, (\E target \in Targets : StartRun(b, target)) \/ KillRun(b)
      PROVE  KeptInv'
  <2>1. jobs' = [jobs EXCEPT ![b] = jobs'[b]]
    BY <1>4 DEF StartRun, KillRun, KeptInv, TypeOK, Places
  <2> QED
    BY <1>1, <2>1, BenchCommandEvidence DEF KeptInv
<1>5. CASE CompareStep
  <2>1. cmp # NoComparison
    BY <1>5 DEF CompareStep, CompareReport, CompareRegression, CompareRecord, NoComparison
  <2>2. cmp.run \in Runs
    BY <2>1 DEF KeptInv, TypeOK, Comparisons
  <2>3. \E j : jobs' = [jobs EXCEPT ![cmp.run] = j]
    BY <1>5 DEF CompareStep, CompareReport, CompareRegression, CompareRecord
  <2>4. jobs' = [jobs EXCEPT ![cmp.run] = jobs'[cmp.run]]
    BY <2>2, <2>3 DEF KeptInv, TypeOK, Places
  <2> QED
    BY <1>1, <2>2, <2>4, BenchCommandEvidence DEF KeptInv
<1> QED
  BY <1>2, <1>3, <1>4, <1>5 DEF StartCompare, RefreshBaseline, KillCompare

LEMMA OptimizeEvidence ==
    ASSUME KeptInv, TypeOK', NEW o \in Opts,
           StartOptimize(o) \/ OptimizeStep(o) \/ KillOptimize(o)
    PROVE  KeptInv'
PROOF
<1>1. /\ JobEvidence(o) /\ OptEvidence(o) /\ opts[o] \in OptRecords
      /\ opts \in [Opts -> OptRecords] /\ jobs \in [Places -> Jobs]
      /\ o \in Places
  BY OptsAssumption DEF KeptInv, TypeOK, Places
<1>2. /\ \E r : opts' = [opts EXCEPT ![o] = r]
      /\ \E j : jobs' = [jobs EXCEPT ![o] = j]
      /\ redo' = redo
  <2>1. jobs = [jobs EXCEPT ![o] = jobs[o]]
    BY <1>1
  <2> QED
    BY <2>1 DEF StartOptimize, OptimizeStep, KillOptimize, RecordOptimize, RejectBlocked,
       RecordBlocked, PrepareWorkspace, ApplyCandidate, OptimizeThrew, CopyEvidence,
       DecideCandidate, FinishOptimize, CleanUp, OptGoTo
<1>3. \A x \in Opts \ {o} : JobEvidence(x)' /\ OptEvidence(x)'
  <2>1. SUFFICES ASSUME NEW x \in Opts \ {o} PROVE JobEvidence(x)' /\ OptEvidence(x)'
    OBVIOUS
  <2>2. opts'[x] = opts[x] /\ jobs'[x] = jobs[x]
    BY <1>1, <1>2
  <2> QED
    BY <2>2, OptFrame, JobFrame DEF KeptInv
<1> SUFFICES JobEvidence(o)' /\ OptEvidence(o)' /\ (opts[o].linked =>
               /\ opts'[o].linked
               /\ opts'[o].config = opts[o].config /\ opts'[o].audit = opts[o].audit
               /\ opts'[o].report = opts[o].report
               /\ opts'[o].regression = opts[o].regression)
  <2>1. \A x \in Opts : JobEvidence(x)' /\ OptEvidence(x)'
    BY <1>3
  <2>2. RedoEvidence'
    BY <1>1, <1>2, RedoFrame DEF KeptInv
  <2> QED
    BY <2>1, <2>2 DEF KeptInv
<1>4. CASE StartOptimize(o)
  <2>1. PICK candidate \in Candidates :
           opts' = [opts EXCEPT ![o] = [NewOpt EXCEPT !.pc = "begin", !.config = config,
                                           !.audit = Audit(candidate, config)]]
    BY <1>4 DEF StartOptimize
  <2>2. jobs' = jobs /\ opts[o].pc = "new"
    BY <1>4 DEF StartOptimize
  <2>3. opts'[o] = [NewOpt EXCEPT !.pc = "begin", !.config = config,
                                  !.audit = Audit(candidate, config)]
    BY <1>1, <2>1
  <2>4. /\ opts'[o].pc = "begin" /\ opts'[o].report = NoReport /\ opts'[o].linked = FALSE
        /\ opts'[o].decision = "none"
    BY <2>3 DEF NewOpt
  <2> QED
    BY <1>1, <2>2, <2>4 DEF OptEvidence, JobEvidence, Sound
<1>5. CASE \/ RecordOptimize(o) \/ RecordBlocked(o) \/ PrepareWorkspace(o)
           \/ OptimizeThrew(o)
  <2>1. /\ jobs' = jobs
        /\ \/ opts[o].pc \in {"begin", "blocked", "prepare", "benchmark"}
           \/ opts[o].pc \in {"decide", "finish"} /\ opts'[o].pc = "cleanup"
        /\ opts'[o].pc \in {"reject", "prepare", "ended", "apply", "gone", "cleanup"}
        /\ opts'[o].config = opts[o].config /\ opts'[o].audit = opts[o].audit
        /\ opts'[o].report = opts[o].report /\ opts'[o].regression = opts[o].regression
        /\ opts'[o].linked = opts[o].linked /\ opts'[o].decision = opts[o].decision
    BY <1>1, <1>5 DEF RecordOptimize, RecordBlocked, PrepareWorkspace, OptimizeThrew,
       OptGoTo, OptRecords
  <2> QED
    BY <1>1, <2>1 DEF OptEvidence, JobEvidence, Sound
<1>6. CASE RejectBlocked(o)
  <2>1. Decision(opts[o].config, "blocked", NoReport, "none") = "reject"
    BY DEF Decision, Keep
  <2>2. /\ jobs' = jobs
        /\ opts[o].pc = "reject" /\ opts'[o].pc = "blocked" /\ opts'[o].decision = "reject"
        /\ opts'[o].report = opts[o].report /\ opts'[o].regression = opts[o].regression
        /\ opts'[o].linked = opts[o].linked
    BY <1>1, <1>6, <2>1 DEF RejectBlocked, OptRecords
  <2> QED
    BY <1>1, <2>2 DEF OptEvidence, JobEvidence, Sound
<1>7. CASE ApplyCandidate(o)
  <2>1. /\ opts[o].pc = "apply" /\ opts'[o].pc \in {"benchmark", "cleanup"}
        /\ opts'[o].report = opts[o].report /\ opts'[o].regression = opts[o].regression
        /\ opts'[o].linked = opts[o].linked /\ opts'[o].decision = opts[o].decision
    BY <1>1, <1>7 DEF ApplyCandidate, OptRecords
  <2>2. jobs' = jobs \/ \E target \in Targets : jobs'[o] = Begun(target)
    BY <1>1, <1>7 DEF ApplyCandidate
  <2>3. JobEvidence(o)'
    BY <1>1, <2>2 DEF JobEvidence, Sound, Begun, NewJob
  <2> QED
    BY <1>1, <2>1, <2>3 DEF OptEvidence, Sound
<1>8. CASE CopyEvidence(o)
  <2>1. /\ jobs' = jobs /\ jobs[o].pc = "ended"
        /\ opts[o].pc = "benchmark" /\ opts'[o].pc = "decide"
        /\ opts'[o].report = jobs[o].report /\ opts'[o].regression = jobs[o].regression
        /\ opts'[o].linked = opts[o].linked /\ opts'[o].decision = opts[o].decision
    BY <1>1, <1>8 DEF CopyEvidence, OptRecords
  <2> QED
    BY <1>1, <2>1 DEF OptEvidence, JobEvidence, Sound
<1>9. CASE DecideCandidate(o)
  <2> DEFINE verdict == Decision(opts[o].config, opts[o].audit, jobs[o].report,
                                 jobs[o].regression)
  <2>1. verdict = "keep" => Keep(opts[o].config, opts[o].audit, jobs[o].report,
                                 jobs[o].regression)
    BY DEF Decision
  <2>2. opts' = [opts EXCEPT ![o].pc = "finish", ![o].decision = verdict]
    BY <1>9 DEF DecideCandidate
  <2>3. jobs' = jobs /\ opts[o].pc = "decide"
    BY <1>9 DEF DecideCandidate
  <2> HIDE DEF verdict
  <2>4. /\ opts'[o].pc = "finish" /\ opts'[o].decision = verdict
        /\ opts'[o].report = opts[o].report /\ opts'[o].regression = opts[o].regression
        /\ opts'[o].linked = opts[o].linked
        /\ opts'[o].config = opts[o].config /\ opts'[o].audit = opts[o].audit
    BY <1>1, <2>2 DEF OptRecords
  <2> QED
    BY <1>1, <2>1, <2>3, <2>4 DEF OptEvidence, JobEvidence, Sound
<1>10. CASE FinishOptimize(o)
  <2>1. /\ jobs' = jobs
        /\ opts[o].pc = "finish" /\ opts'[o].pc = "cleanup"
        /\ opts'[o].decision = opts[o].decision
        /\ opts'[o].report = opts[o].report /\ opts'[o].regression = opts[o].regression
        /\ opts'[o].config = opts[o].config /\ opts'[o].audit = opts[o].audit
    BY <1>1, <1>10 DEF FinishOptimize, OptRecords
  <2> QED
    BY <1>1, <2>1 DEF OptEvidence, JobEvidence, Sound
<1>11. CASE CleanUp(o) \/ KillOptimize(o)
  <2>1. /\ jobs'[o] = NewJob
        /\ opts[o].pc = "cleanup" \/ opts'[o].pc = "gone"
        /\ opts'[o].pc \in {"ended", "gone"}
        /\ opts'[o].decision = opts[o].decision /\ opts'[o].linked = opts[o].linked
        /\ opts'[o].report = opts[o].report /\ opts'[o].regression = opts[o].regression
        /\ opts'[o].config = opts[o].config /\ opts'[o].audit = opts[o].audit
    BY <1>1, <1>11 DEF CleanUp, KillOptimize, OptRecords
  <2> QED
    BY <1>1, <2>1 DEF OptEvidence, JobEvidence, Sound, NewJob
<1> QED
  BY <1>4, <1>5, <1>6, <1>7, <1>8, <1>9, <1>10, <1>11 DEF OptimizeStep

LEMMA DecideEvidence ==
    ASSUME KeptInv, TypeOK',
           \/ \E o \in Opts : StartDecide(o)
           \/ RedoDecision \/ RedoRecord \/ KillDecide
    PROVE  KeptInv'
PROOF
<1>1. CASE \E o \in Opts : StartDecide(o)
  <2> PICK o \in Opts : StartDecide(o)
    BY <1>1
  <2> DEFINE verdict == DecideAgain(o, opts[o].config)
  <2>1. verdict = "keep" =>
          /\ opts[o].linked
          /\ Keep(opts[o].config, opts[o].audit, opts[o].report, opts[o].regression)
    BY DEF DecideAgain, Decision, Keep
  <2>2. opts' = opts /\ jobs' = jobs /\ redo'.opt = o /\ redo'.decision = verdict
    BY DEF StartDecide, BeginDecide
  <2>3. \A x \in Opts : JobEvidence(x)' /\ OptEvidence(x)'
    BY <2>2, OptFrame, JobFrame DEF KeptInv
  <2> HIDE DEF verdict
  <2>4. RedoEvidence'
    BY <2>1, <2>2 DEF RedoEvidence
  <2> QED
    BY <2>3, <2>4 DEF KeptInv
<1>2. CASE RedoDecision \/ RedoRecord
  <2>0. redo # NoRedo /\ redo \in Redos
    BY <1>2 DEF RedoDecision, RedoRecord, NoRedo, KeptInv, TypeOK
  <2> PICK o \in Opts : redo.opt = o
    BY <2>0 DEF Redos
  <2>1. /\ jobs' = jobs
        /\ redo'.decision = "keep" => redo'.decision = redo.decision /\ redo'.opt = o
    BY <1>2, <2>0 DEF RedoDecision, RedoRecord, NoRedo, Redos
  <2>2. opts \in [Opts -> OptRecords] /\ opts[o] \in OptRecords
    BY DEF KeptInv, TypeOK
  <2>3. /\ \A x \in Opts \ {o} : opts'[x] = opts[x]
        /\ opts'[o].pc = opts[o].pc /\ opts'[o].linked = opts[o].linked
        /\ opts'[o].config = opts[o].config /\ opts'[o].audit = opts[o].audit
        /\ opts'[o].report = opts[o].report /\ opts'[o].regression = opts[o].regression
        /\ opts'[o].decision \in {opts[o].decision, redo.decision}
    BY <1>2, <2>2 DEF RedoDecision, RedoRecord, OptRecords
  <2>4. \A x \in Opts \ {o} : JobEvidence(x)' /\ OptEvidence(x)'
    BY <2>1, <2>3, OptFrame, JobFrame DEF KeptInv
  <2>5. JobEvidence(o)' /\ OptEvidence(o)'
    <3>1. JobEvidence(o) /\ OptEvidence(o) /\ RedoEvidence
      BY <2>2 DEF KeptInv
    <3>2. redo.decision = "keep" =>
            /\ opts[o].pc \in {"cleanup", "ended", "gone"}
            /\ Keep(opts[o].config, opts[o].audit, opts[o].report, opts[o].regression)
      BY <3>1 DEF RedoEvidence, OptEvidence
    <3>3. JobEvidence(o)'
      BY <2>1, <3>1 DEF JobEvidence, Sound
    <3> QED
      BY <2>1, <2>3, <3>1, <3>2, <3>3 DEF OptEvidence, Sound
  <2>6. RedoEvidence'
    <3>1. RedoEvidence
      BY DEF KeptInv
    <3> QED
      BY <2>1, <2>2, <2>3, <3>1 DEF RedoEvidence
  <2> QED
    BY <2>4, <2>5, <2>6 DEF KeptInv
<1>3. CASE KillDecide
  <2>1. opts' = opts /\ jobs' = jobs /\ redo' = NoRedo
    BY <1>3 DEF KillDecide
  <2>2. \A x \in Opts : JobEvidence(x)' /\ OptEvidence(x)'
    BY <2>1, OptFrame, JobFrame DEF KeptInv
  <2>3. RedoEvidence'
    BY <2>1 DEF RedoEvidence, NoRedo
  <2> QED
    BY <2>2, <2>3 DEF KeptInv
<1> QED
  BY <1>1, <1>2, <1>3

LEMMA KeptStep == KeptInv /\ [Next]_vars => KeptInv'
PROOF
<1> SUFFICES ASSUME KeptInv, [Next]_vars PROVE KeptInv'
  OBVIOUS
<1>1. TypeOK'
  BY TypeStep DEF KeptInv
<1>2. CASE opts' = opts /\ jobs' = jobs /\ redo' = redo
  <2>1. \A x \in Opts : JobEvidence(x)' /\ OptEvidence(x)'
    BY <1>2, OptFrame, JobFrame DEF KeptInv
  <2>2. RedoEvidence'
    BY <1>2, RedoFrame DEF KeptInv
  <2> QED
    BY <1>1, <2>1, <2>2 DEF KeptInv
<1>3. CASE Next
  <2>1. CASE EditConfig
    BY <1>2, <2>1 DEF EditConfig
  <2> QED
    BY <1>1, <1>3, <2>1, NextCases, BenchStepEvidence, OptimizeEvidence, DecideEvidence, Zenon
<1> QED
  BY <1>2, <1>3 DEF vars

\* A regression result "passed" says that no passing case is lost.
LEMMA PassedLosesNothing ==
    ASSUME NEW lhs, NEW rhs, Regression(lhs, rhs) = "passed"
    PROVE  FailOnNew => Lost(lhs, rhs) = {}
  BY DEF Regression, Lost, NewlyFailing

\* No measured metric of a protected name is lower: scores are numbers.
LEMMA NothingLower ==
    ASSUME NEW lhs \in Records, NEW rhs \in Records, NEW names,
           LowerMetrics(lhs, rhs, names) = {},
           NEW c \in Cases, NEW m \in names,
           HasMetric(lhs, c, m), HasMetric(rhs, c, m)
    PROVE  lhs.results[c].metrics[m].score >= rhs.results[c].metrics[m].score
PROOF
<1>1. \A r \in Records : HasMetric(r, c, m) => r.results[c].metrics[m].score \in Int
  <2> SUFFICES ASSUME NEW r \in Records, HasMetric(r, c, m)
               PROVE  r.results[c].metrics[m].score \in Int
    OBVIOUS
  <2>1. r.results[c] \in CaseResults \cup {NotRun}
    BY DEF Records, Results
  <2>2. DOMAIN NotRun.metrics = {}
    BY DEF NotRun
  <2>3. r.results[c] \in CaseResults
    BY <2>1, <2>2 DEF HasMetric
  <2>4. r.results[c].metrics[m] \in Metric
    BY <2>3 DEF CaseResults, HasMetric
  <2> QED
    BY <2>4, UnitAssumption DEF Metric
<1>2. ~(lhs.results[c].metrics[m].score < rhs.results[c].metrics[m].score)
  <2>1. <<c, m>> \in Cases \X names /\ <<c, m>>[1] = c /\ <<c, m>>[2] = m
    OBVIOUS
  <2> QED
    BY <2>1 DEF LowerMetrics
<1> QED
  BY <1>1, <1>2

LEMMA KeptInvImplies == KeptInv => KeptIsImprovement
PROOF
<1> SUFFICES ASSUME KeptInv, NEW o \in Opts, opts[o].decision = "keep"
             PROVE  LET new == opts[o].report.lhs
                        old == opts[o].report.rhs
                    IN  /\ opts[o].audit = "clean"
                        /\ opts[o].report # NoReport
                        /\ FailOnNew => Lost(new, old) = {}
                        /\ \A c \in Cases, m \in opts[o].config.protected :
                              LET a == new.results[c].metrics
                                  b == old.results[c].metrics
                              IN  m \in DOMAIN a \cap DOMAIN b => a[m].score >= b[m].score
                        /\ opts[o].config.improve =>
                              Exceeds(Score(new), Score(old), opts[o].config.minimum)
  BY DEF KeptIsImprovement
<1> DEFINE new == opts[o].report.lhs
           old == opts[o].report.rhs
<1>1. /\ Keep(opts[o].config, opts[o].audit, opts[o].report, opts[o].regression)
      /\ Sound(opts[o].report, opts[o].regression)
  BY DEF KeptInv, OptEvidence
<1>2. /\ opts[o].audit = "clean" /\ opts[o].report # NoReport
      /\ Regression(new, old) = "passed"
      /\ LowerMetrics(new, old, opts[o].config.protected) = {}
      /\ opts[o].config.improve => Exceeds(Score(new), Score(old), opts[o].config.minimum)
  BY <1>1 DEF Keep, Sound
<1>3. new \in Records /\ old \in Records
  <2>1. opts[o].report \in Reports \cup {NoReport}
    BY DEF KeptInv, TypeOK, OptRecords
  <2> QED
    BY <1>2, <2>1 DEF Reports
<1>4. \A c \in Cases, m \in opts[o].config.protected :
         HasMetric(new, c, m) /\ HasMetric(old, c, m) =>
            new.results[c].metrics[m].score >= old.results[c].metrics[m].score
  BY <1>2, <1>3, NothingLower
<1>5. FailOnNew => Lost(new, old) = {}
  BY <1>2, PassedLosesNothing
<1> QED
  BY <1>2, <1>4, <1>5 DEF HasMetric

\* Whatever the catalog, the thresholds and the configs, for any number of runs
\* and with any number of commands at work at the same time: a candidate that
\* ends as kept, by the command or by a later decision, has its evidence on
\* disk, loses no passing case, lowers no protected metric that both runs
\* measured, and improves the score by what its config asks.
THEOREM KeptImprovement == Spec => []KeptIsImprovement
  BY KeptInit, KeptStep, KeptInvImplies, PTL DEF Spec

-----------------------------------------------------------------------------
(* Workspaces, and verdicts that stay.                                       *)

\* A workspace is there between its preparation and its removal.
WorkspaceInv ==
    \A o \in Opts :
       opts[o].workspace =>
          opts[o].pc \notin {"new", "begin", "reject", "blocked", "prepare", "ended"}

\* Which steps change what of an optimization run.
LEMMA OptSteps ==
    ASSUME TypeOK, [Next]_vars
    PROVE  \/ opts' = opts
           \/ \E o \in Opts : /\ StartOptimize(o) \/ OptimizeStep(o) \/ KillOptimize(o)
                              /\ \A x \in Opts \ {o} : opts'[x] = opts[x]
           \/ /\ RedoDecision \/ RedoRecord
              /\ \A o \in Opts : /\ opts'[o].pc = opts[o].pc
                                 /\ opts'[o].workspace = opts[o].workspace
PROOF
<1>1. CASE RedoDecision \/ RedoRecord
  <2>1. /\ opts \in [Opts -> OptRecords]
        /\ \E d, s : \/ opts' = [opts EXCEPT ![redo.opt].decision = d]
                     \/ opts' = [opts EXCEPT ![redo.opt].status = s]
    BY <1>1 DEF TypeOK, RedoDecision, RedoRecord
  <2> QED
    BY <1>1, <2>1 DEF OptRecords
<1>2. ASSUME NEW o \in Opts, StartOptimize(o) \/ OptimizeStep(o) \/ KillOptimize(o)
      PROVE  \A x \in Opts \ {o} : opts'[x] = opts[x]
  <2>1. /\ opts \in [Opts -> OptRecords]
        /\ \E r : opts' = [opts EXCEPT ![o] = r]
    BY ZenonT(30), <1>2
       DEF TypeOK, StartOptimize, OptimizeStep, KillOptimize, RecordOptimize,
       RejectBlocked, RecordBlocked, PrepareWorkspace, ApplyCandidate, OptimizeThrew,
       CopyEvidence, DecideCandidate, FinishOptimize, CleanUp, OptGoTo
  <2> QED
    BY <2>1
<1>3. CASE UNCHANGED vars
  BY <1>3 DEF vars
<1>4. ASSUME Next PROVE \/ \E o \in Opts : StartOptimize(o) \/ OptimizeStep(o) \/ KillOptimize(o)
                        \/ RedoDecision \/ RedoRecord \/ opts' = opts
  <2>1. (KillDecide \/ EditConfig) => opts' = opts
    BY DEF KillDecide, EditConfig
  <2>2. (\E o \in Opts : StartDecide(o)) => opts' = opts
    BY DEF StartDecide, BeginDecide
  <2>3. UNCHANGED optVars => opts' = opts
    BY DEF optVars
  <2> QED
    BY <1>4, <2>1, <2>2, <2>3, NextCases, Zenon
<1> QED
  BY <1>1, <1>2, <1>3, <1>4, Zenon

LEMMA WorkspaceStep == TypeOK /\ WorkspaceInv /\ [Next]_vars => WorkspaceInv'
PROOF
<1> SUFFICES ASSUME TypeOK, WorkspaceInv, [Next]_vars PROVE WorkspaceInv'
  OBVIOUS
<1>1. ASSUME NEW o \in Opts, StartOptimize(o) \/ OptimizeStep(o) \/ KillOptimize(o),
             \A x \in Opts \ {o} : opts'[x] = opts[x]
      PROVE  WorkspaceInv'
  <2>1. opts[o] \in OptRecords /\ opts \in [Opts -> OptRecords]
    BY DEF TypeOK
  <2> SUFFICES opts'[o].workspace => opts'[o].pc \notin
                  {"new", "begin", "reject", "blocked", "prepare", "ended"}
    BY <1>1 DEF WorkspaceInv
  <2>2. CASE StartOptimize(o)
    BY <2>1, <2>2 DEF StartOptimize, NewOpt
  <2>3. CASE RecordOptimize(o) \/ RejectBlocked(o) \/ RecordBlocked(o)
    BY <2>1, <2>3 DEF RecordOptimize, RejectBlocked, RecordBlocked, WorkspaceInv, OptRecords
  <2>4. CASE PrepareWorkspace(o)
    BY <2>1, <2>4 DEF PrepareWorkspace, OptRecords
  <2>5. CASE ApplyCandidate(o) \/ OptimizeThrew(o) \/ CopyEvidence(o)
    BY <2>1, <2>5 DEF ApplyCandidate, OptimizeThrew, CopyEvidence, OptGoTo, OptRecords
  <2>6. CASE DecideCandidate(o) \/ FinishOptimize(o) \/ CleanUp(o) \/ KillOptimize(o)
    BY <2>1, <2>6 DEF DecideCandidate, FinishOptimize, CleanUp, KillOptimize, OptRecords
  <2> QED
    BY <1>1, <2>2, <2>3, <2>4, <2>5, <2>6 DEF OptimizeStep
<1> QED
  BY <1>1, OptSteps DEF WorkspaceInv

\* However the commands interleave: a workspace that outlives its command was
\* left by one that was killed, or by a copy that failed.
THEOREM WorkspaceReclaimed == Spec => []WorkspaceIsReclaimed
PROOF
<1>1. Init => WorkspaceInv
  BY DEF Init, WorkspaceInv, NewOpt
<1>2. WorkspaceInv => WorkspaceIsReclaimed
  BY DEF WorkspaceInv, WorkspaceIsReclaimed, OptIsLive
<1> QED
  BY <1>1, <1>2, InitType, TypeStep, WorkspaceStep, PTL DEF Spec

FinalStatuses == {"blocked", "completed", "failed"}

\* A final status goes with the decision that `decide` would take again, and
\* with the status that it would write.
OptFinal(o) ==
    /\ opts[o].pc = "new" => opts[o].status = "absent"
    /\ opts[o].pc \in {"reject", "blocked"} => opts[o].audit = "blocked"
    /\ opts[o].pc = "blocked" => opts[o].decision = "reject"
    /\ opts[o].pc = "finish" =>
          opts[o].decision = Decision(opts[o].config, opts[o].audit, opts[o].report,
                                      opts[o].regression)
    /\ opts[o].pc \notin {"cleanup", "ended", "gone"} => opts[o].status \notin FinalStatuses
    /\ opts[o].status \in FinalStatuses =>
          /\ opts[o].decision = DecideAgain(o, opts[o].config)
          /\ opts[o].status = StatusAfter(o, opts[o].decision)

\* While `decide` is at work no optimization is, and it writes what it would
\* decide again.
RedoFinal ==
    redo # NoRedo =>
       /\ \A o \in Opts : ~OptIsLive(o)
       /\ HasRecord(redo.opt)
       /\ redo.decision = DecideAgain(redo.opt, opts[redo.opt].config)
       /\ redo.status = StatusAfter(redo.opt, redo.decision)
       /\ redo.pc = "record" => opts[redo.opt].decision = redo.decision

FinalInv == KeptInv /\ (\A o \in Opts : OptFinal(o)) /\ RedoFinal

\* What VerdictIsFinal says of a step.
VerdictKept ==
    \A o \in Opts :
       opts[o].status \in FinalStatuses =>
          /\ opts'[o].decision = opts[o].decision
          /\ opts'[o].status = opts[o].status

LEMMA OptFinalFrame ==
    ASSUME NEW o \in Opts, OptFinal(o), opts'[o] = opts[o]
    PROVE  OptFinal(o)'
  BY DEF OptFinal, DecideAgain, StatusAfter

LEMMA Rejected ==
    ASSUME NEW conf, NEW audit, NEW report, NEW regression,
           audit = "blocked" \/ report = NoReport
    PROVE  Decision(conf, audit, report, regression) = "reject"
  BY DEF Decision, Keep

LEMMA OptimizeFinal ==
    ASSUME FinalInv, KeptInv', ~Overlapping, NEW o \in Opts,
           \/ CommandMayStart /\ StartOptimize(o)
           \/ OptimizeStep(o) \/ KillOptimize(o)
    PROVE  FinalInv' /\ VerdictKept
PROOF
<1>1. /\ OptFinal(o) /\ OptEvidence(o) /\ opts[o] \in OptRecords
      /\ opts \in [Opts -> OptRecords]
  BY DEF FinalInv, KeptInv, TypeOK
<1>2. redo = NoRedo
  <2>1. CASE CommandMayStart
    BY <2>1 DEF CommandMayStart, AllIdle
  <2>2. CASE OptimizeStep(o) \/ KillOptimize(o)
    <3>1. OptIsLive(o)
      BY <2>2 DEF OptimizeStep, KillOptimize, RecordOptimize, RejectBlocked, RecordBlocked,
         PrepareWorkspace, ApplyCandidate, OptimizeThrew, CopyEvidence, DecideCandidate,
         FinishOptimize, CleanUp, OptIsLive
    <3> QED
      BY <3>1 DEF FinalInv, RedoFinal
  <2> QED
    BY <2>1, <2>2
<1>3. /\ redo' = redo
      /\ \E r : opts' = [opts EXCEPT ![o] = r]
  BY DEF StartOptimize, OptimizeStep, KillOptimize, RecordOptimize,
     RejectBlocked, RecordBlocked, PrepareWorkspace, ApplyCandidate, OptimizeThrew,
     CopyEvidence, DecideCandidate, FinishOptimize, CleanUp, OptGoTo
<1>4. \A x \in Opts \ {o} : opts'[x] = opts[x] /\ OptFinal(x)'
  BY <1>1, <1>3, OptFinalFrame DEF FinalInv
<1> SUFFICES /\ OptFinal(o)'
             /\ opts[o].status \in FinalStatuses =>
                   opts'[o].decision = opts[o].decision /\ opts'[o].status = opts[o].status
  BY <1>2, <1>3, <1>4 DEF FinalInv, RedoFinal, VerdictKept
<1> USE DEF FinalStatuses
<1>5. CASE StartOptimize(o)
  <2>1. opts[o].pc = "new" /\ opts'[o].pc = "begin" /\ opts'[o].status = "absent"
    BY ZenonT(30), <1>1, <1>5 DEF StartOptimize, NewOpt
  <2> QED
    BY <1>1, <2>1 DEF OptFinal
<1>6. CASE RecordOptimize(o)
  <2>1. /\ opts[o].pc = "begin" /\ opts'[o].status = "running"
        /\ opts'[o].pc \in {"reject", "prepare"}
        /\ opts'[o].pc = "reject" => opts'[o].audit = "blocked"
    BY <1>1, <1>6 DEF RecordOptimize, OptRecords
  <2> QED
    BY <1>1, <2>1 DEF OptFinal
<1>7. CASE RejectBlocked(o)
  <2>1. Decision(opts[o].config, "blocked", NoReport, "none") = "reject"
    BY Rejected
  <2>2. /\ opts[o].pc = "reject" /\ opts'[o].pc = "blocked" /\ opts'[o].decision = "reject"
        /\ opts'[o].audit = opts[o].audit /\ opts'[o].status = opts[o].status
    BY <1>1, <1>7, <2>1 DEF RejectBlocked, OptRecords
  <2> QED
    BY <1>1, <2>2 DEF OptFinal
<1>8. CASE RecordBlocked(o)
  <2>1. /\ opts[o].pc = "blocked" /\ opts'[o].pc = "ended" /\ opts'[o].status = "blocked"
        /\ opts'[o].decision = opts[o].decision /\ opts'[o].audit = opts[o].audit
    BY <1>1, <1>8 DEF RecordBlocked, OptRecords
  <2>2. opts[o].audit = "blocked" /\ opts[o].decision = "reject"
        /\ opts[o].status \notin FinalStatuses
    BY <1>1, <2>1 DEF OptFinal
  <2>3. DecideAgain(o, opts[o].config)' = "reject"
    BY <2>1, <2>2, Rejected DEF DecideAgain
  <2> QED
    BY <2>1, <2>2, <2>3 DEF OptFinal, StatusAfter
<1>9. CASE \/ PrepareWorkspace(o) \/ ApplyCandidate(o) \/ OptimizeThrew(o)
           \/ CopyEvidence(o)
  <2>1. /\ opts[o].pc \in {"prepare", "apply", "benchmark", "decide", "finish"}
        /\ opts'[o].pc \in {"apply", "gone", "benchmark", "cleanup", "decide"}
        /\ opts'[o].status = opts[o].status
    BY <1>1, <1>9 DEF PrepareWorkspace, ApplyCandidate, OptimizeThrew, CopyEvidence,
       OptGoTo, OptRecords
  <2> QED
    BY <1>1, <2>1 DEF OptFinal
<1>10. CASE DecideCandidate(o)
  <2> DEFINE verdict == Decision(opts[o].config, opts[o].audit, jobs[o].report,
                                 jobs[o].regression)
  <2>1. opts[o].pc = "decide" /\ opts' = [opts EXCEPT ![o].pc = "finish",
                                                      ![o].decision = verdict]
    BY <1>10 DEF DecideCandidate
  <2>2. opts[o].report = jobs[o].report /\ opts[o].regression = jobs[o].regression
    BY <1>1, <2>1 DEF OptEvidence
  <2>3. verdict = Decision(opts[o].config, opts[o].audit, opts[o].report,
                           opts[o].regression)
    BY <2>2
  <2> HIDE DEF verdict
  <2>4. /\ opts'[o].pc = "finish" /\ opts'[o].decision = verdict
        /\ opts'[o].config = opts[o].config /\ opts'[o].audit = opts[o].audit
        /\ opts'[o].report = opts[o].report /\ opts'[o].regression = opts[o].regression
        /\ opts'[o].status = opts[o].status
    BY <1>1, <2>1 DEF OptRecords
  <2> QED
    BY <1>1, <2>1, <2>3, <2>4 DEF OptFinal
<1>11. CASE FinishOptimize(o)
  <2>1. /\ opts[o].pc = "finish" /\ opts'[o].pc = "cleanup"
        /\ opts'[o].linked = (opts[o].report # NoReport)
        /\ opts'[o].decision = opts[o].decision
        /\ opts'[o].status = IF opts[o].decision = "keep" THEN "completed" ELSE "failed"
        /\ opts'[o].config = opts[o].config /\ opts'[o].audit = opts[o].audit
        /\ opts'[o].report = opts[o].report /\ opts'[o].regression = opts[o].regression
    BY <1>1, <1>11 DEF FinishOptimize, OptRecords
  <2>2. /\ opts[o].status \notin FinalStatuses
        /\ opts[o].decision = Decision(opts[o].config, opts[o].audit, opts[o].report,
                                       opts[o].regression)
    BY <1>1, <2>1 DEF OptFinal
  <2>3. opts'[o].decision = DecideAgain(o, opts[o].config)'
    <3>1. CASE opts[o].report = NoReport
      BY <2>1, <2>2, <3>1, Rejected DEF DecideAgain
    <3>2. CASE opts[o].report # NoReport
      BY <2>1, <2>2, <3>2 DEF DecideAgain
    <3> QED
      BY <3>1, <3>2
  <2>4. opts'[o].status = StatusAfter(o, opts[o].decision)'
    BY <2>1 DEF StatusAfter
  <2> QED
    BY <2>1, <2>2, <2>3, <2>4 DEF OptFinal
<1>12. CASE CleanUp(o) \/ KillOptimize(o)
  <2>1. /\ opts'[o].pc \in {"ended", "gone"}
        /\ opts'[o].linked = opts[o].linked /\ opts'[o].decision = opts[o].decision
        /\ opts'[o].status = opts[o].status
        /\ opts'[o].config = opts[o].config /\ opts'[o].audit = opts[o].audit
        /\ opts'[o].report = opts[o].report /\ opts'[o].regression = opts[o].regression
    BY <1>1, <1>12 DEF CleanUp, KillOptimize, OptRecords
  <2> QED
    BY <1>1, <2>1 DEF OptFinal, DecideAgain, StatusAfter
<1> QED
  BY <1>5, <1>6, <1>7, <1>8, <1>9, <1>10, <1>11, <1>12 DEF OptimizeStep

LEMMA DecideFinal ==
    ASSUME FinalInv, KeptInv', ~Overlapping,
           \/ CommandMayStart /\ \E o \in Opts : StartDecide(o)
           \/ RedoDecision \/ RedoRecord \/ KillDecide
    PROVE  FinalInv' /\ VerdictKept
PROOF
<1>1. CASE CommandMayStart /\ \E o \in Opts : StartDecide(o)
  <2> PICK o \in Opts : StartDecide(o)
    BY <1>1
  <2>1. \A x \in Opts : ~OptIsLive(x)
    BY <1>1 DEF CommandMayStart, AllIdle
  <2>2. opts' = opts /\ HasRecord(o)
    BY DEF StartDecide, BeginDecide
  <2>3. \A x \in Opts : OptFinal(x)'
    BY <2>2, OptFinalFrame DEF FinalInv
  <2> DEFINE verdict == DecideAgain(o, opts[o].config)
  <2>4. redo' = [pc |-> "decision", opt |-> o, decision |-> verdict,
                 status |-> StatusAfter(o, verdict)]
    BY DEF StartDecide, BeginDecide
  <2>5. /\ DecideAgain(o, opts[o].config)' = verdict
        /\ StatusAfter(o, verdict)' = StatusAfter(o, verdict)
    BY <2>2 DEF DecideAgain, StatusAfter
  <2> HIDE DEF verdict
  <2>6. /\ redo'.pc = "decision" /\ redo'.opt = o /\ redo'.decision = verdict
        /\ redo'.status = StatusAfter(o, verdict)
    BY <2>4
  <2>7. RedoFinal'
    BY <2>1, <2>2, <2>5, <2>6 DEF RedoFinal, OptIsLive, HasRecord, StatusAfter
  <2> QED
    BY <2>2, <2>3, <2>7 DEF FinalInv, VerdictKept
<1>2. ASSUME RedoDecision \/ RedoRecord
      PROVE  FinalInv' /\ VerdictKept
  <2>0. redo # NoRedo /\ redo \in Redos
    BY <1>2 DEF RedoDecision, RedoRecord, NoRedo, FinalInv, KeptInv, TypeOK
  <2> PICK o \in Opts : redo.opt = o
    BY <2>0 DEF Redos
  <2>1. opts \in [Opts -> OptRecords] /\ opts[o] \in OptRecords /\ OptFinal(o)
    BY DEF FinalInv, KeptInv, TypeOK
  <2>2. /\ \A x \in Opts : ~OptIsLive(x)
        /\ HasRecord(o)
        /\ redo.decision = DecideAgain(o, opts[o].config)
        /\ redo.status = StatusAfter(o, redo.decision)
        /\ redo.pc = "record" => opts[o].decision = redo.decision
    BY <2>0 DEF FinalInv, RedoFinal
  <2>3. opts[o].pc \in {"ended", "gone"}
    BY <2>1, <2>2 DEF OptFinal, OptIsLive, HasRecord
  <2>4. /\ \A x \in Opts \ {o} : opts'[x] = opts[x]
        /\ opts'[o].pc = opts[o].pc /\ opts'[o].linked = opts[o].linked
        /\ opts'[o].config = opts[o].config /\ opts'[o].audit = opts[o].audit
        /\ opts'[o].report = opts[o].report /\ opts'[o].regression = opts[o].regression
    BY <1>2, <2>1 DEF RedoDecision, RedoRecord, OptRecords
  <2>5. \A x \in Opts \ {o} : OptFinal(x)'
    BY <2>4, OptFinalFrame DEF FinalInv
  <2>6. DecideAgain(o, opts[o].config)' = DecideAgain(o, opts[o].config)
    BY <2>4 DEF DecideAgain
  <2>7. \A x \in Opts : ~OptIsLive(x)'
    BY <2>2, <2>4 DEF OptIsLive
  <2>8. CASE RedoDecision
    <3>1. /\ redo.pc = "decision" /\ redo' = [redo EXCEPT !.pc = "record"]
          /\ opts' = [opts EXCEPT ![o].decision = redo.decision]
      BY <2>8 DEF RedoDecision
    <3>2. /\ opts'[o].decision = redo.decision /\ opts'[o].status = opts[o].status
          /\ redo'.pc = "record" /\ redo'.opt = o /\ redo'.decision = redo.decision
          /\ redo'.status = redo.status
      BY <2>0, <2>1, <3>1, <2>8 DEF OptRecords, Redos, NoRedo
    <3>3. OptFinal(o)'
      BY <2>1, <2>2, <2>3, <2>4, <2>6, <3>2 DEF OptFinal, StatusAfter
    <3>4. RedoFinal'
      BY <2>2, <2>6, <2>7, <3>2 DEF RedoFinal, StatusAfter, HasRecord
    <3>5. opts[o].status \in FinalStatuses => opts'[o].decision = opts[o].decision
      BY <2>1, <2>2, <3>2 DEF OptFinal
    <3> QED
      BY <2>4, <2>5, <3>2, <3>3, <3>4, <3>5 DEF FinalInv, VerdictKept
  <2>9. CASE RedoRecord
    <3>1. /\ redo.pc = "record" /\ redo' = NoRedo
          /\ opts' = [opts EXCEPT ![o].status = redo.status]
      BY <2>9 DEF RedoRecord
    <3>2. opts'[o].status = redo.status /\ opts'[o].decision = opts[o].decision
      BY <2>1, <3>1 DEF OptRecords
    <3>3. opts[o].decision = redo.decision
      BY <2>2, <3>1
    <3>4. OptFinal(o)'
      BY <2>1, <2>2, <2>3, <2>4, <2>6, <3>2, <3>3 DEF OptFinal, StatusAfter
    <3>5. opts[o].status \in FinalStatuses => opts'[o].status = opts[o].status
      BY <2>1, <2>2, <3>2, <3>3 DEF OptFinal
    <3> QED
      BY <2>4, <2>5, <3>1, <3>2, <3>4, <3>5 DEF FinalInv, VerdictKept, RedoFinal
  <2> QED
    BY <1>2, <2>8, <2>9
<1>3. CASE KillDecide
  <2>1. opts' = opts /\ redo' = NoRedo
    BY <1>3 DEF KillDecide
  <2> QED
    BY <2>1, OptFinalFrame DEF FinalInv, RedoFinal, VerdictKept
<1> QED
  BY <1>1, <1>2, <1>3

LEMMA FinalStep ==
    ASSUME ~Overlapping, FinalInv, [Next]_vars
    PROVE  FinalInv' /\ VerdictKept
PROOF
<1>1. KeptInv'
  BY KeptStep DEF FinalInv
<1>2. CASE opts' = opts /\ redo' = redo
  <2>1. \A o \in Opts : OptFinal(o)'
    BY <1>2, OptFinalFrame DEF FinalInv
  <2>2. RedoFinal'
    BY <1>2 DEF FinalInv, RedoFinal, OptIsLive, HasRecord, DecideAgain, StatusAfter
  <2> QED
    BY <1>1, <1>2, <2>1, <2>2 DEF FinalInv, VerdictKept
<1>3. CASE Next
  <2>1. UNCHANGED optVars \/ EditConfig => opts' = opts /\ redo' = redo
    BY DEF optVars, EditConfig
  <2> QED
    BY <1>1, <1>2, <1>3, <2>1, NextCases, OptimizeFinal, DecideFinal, Zenon
<1> QED
  BY <1>2, <1>3 DEF vars

\* With one command at a time, for any number of runs and whoever edits the
\* config or the baseline: an optimization run that ended keeps its verdict
\* through any number of further decisions, killed or not.
THEOREM VerdictFinal == ~Overlapping => (Spec => VerdictIsFinal)
PROOF
<1> SUFFICES ASSUME ~Overlapping PROVE Spec => VerdictIsFinal
  OBVIOUS
<1>1. Init => FinalInv
  BY KeptInit DEF Init, FinalInv, OptFinal, RedoFinal, NewOpt, FinalStatuses
<1>2. FinalInv /\ [Next]_vars => FinalInv' /\ [VerdictKept]_vars
  BY FinalStep
<1> QED
  BY <1>1, <1>2, PTL DEF Spec, VerdictIsFinal, VerdictKept, FinalStatuses

=============================================================================
