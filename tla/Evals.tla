------------------------------- MODULE Evals -------------------------------
(***************************************************************************)
(* Scoring and comparison of benchmark runs (packages/evals/src/scoring.ts *)
(* and comparison.ts, over the catalog of packages/benchmark-cases).       *)
(*                                                                         *)
(* A governed run that a case executes is seen only through what the five  *)
(* metrics ask of it: which expectations it met, and which share of the    *)
(* packet checks and of the required artifacts it has.  Scores of a metric *)
(* are counted in units of 1/Unit; the score of a run is a fraction        *)
(* <<numerator, denominator>>, so that no comparison is rounded.           *)
(***************************************************************************)
EXTENDS Integers, Sequences, FiniteSets, FiniteSetsExt

CONSTANTS
    Cases,      \* benchmark cases of the catalog, numbered in the order of their ids
    Members,    \* the cases that name the suite in their suiteIds
    Listed,     \* the caseIds of the suite; {}: it lists none
    Expects,    \* Expects[c]: which of the two policy expectations case c states
    Weight,     \* Weight[c][m]: weights of the case, defaults filled in
    Unit,       \* a metric's full score
    Required,   \* thresholds.requiredMetrics
    MaxDrop,    \* thresholds.maxOverallScoreDrop, a fraction
    FailOnNew   \* thresholds.failOnNewlyFailingCases

MetricNames == {"success", "policy", "verification", "packet", "artifacts"}

Fraction(f) == f[1] \in Nat /\ f[2] \in Nat \ {0}

ASSUME CasesAssumption == Cases \subseteq Nat /\ IsFiniteSet(Cases)
ASSUME SuiteAssumption == Members \subseteq Cases /\ Listed \subseteq Cases
ASSUME ExpectsAssumption == Expects \in [Cases -> SUBSET {"decision", "approval"}]
ASSUME WeightAssumption == Weight \in [Cases -> [MetricNames -> Nat]]
ASSUME UnitAssumption == Unit \in Nat /\ Unit > 0 /\ Unit % 2 = 0
ASSUME ThresholdAssumption ==
    Required \subseteq MetricNames /\ Fraction(MaxDrop) /\ FailOnNew \in BOOLEAN

\* What the metrics ask of a governed run: for the status, the policy decision,
\* the approval state and the verification status whether they are the ones the
\* case states (TRUE where it states none), and two shares.
Observation ==
    [status : BOOLEAN, decision : BOOLEAN, approval : BOOLEAN,
     verification : BOOLEAN, packet : 0 .. Unit, artifacts : 0 .. Unit]

-----------------------------------------------------------------------------
(* The catalog. *)

\* The cases of the suite: a listed case that does not name the suite in its
\* own suiteIds is dropped without an error.
SuiteCases == IF Listed = {} THEN Members ELSE Members \cap Listed

\* What `gdh benchmark run` can be given.
Targets == {0} \cup Cases
Suite == 0
TargetCases(target) == IF target = Suite THEN SuiteCases ELSE {target}

\* loadBenchmarkCatalog throws for a suite without cases.
ASSUME CatalogAssumption == SuiteCases # {} /\ 0 \notin Cases

-----------------------------------------------------------------------------
(* Metrics of one case. *)

AllOrNothing(met) == [passed |-> met, score |-> IF met THEN Unit ELSE 0]
Share(part) == [passed |-> part = Unit, score |-> part]

SuccessMetric(obs) == AllOrNothing(obs.status)
VerificationMetric(obs) == AllOrNothing(obs.verification)
PacketMetric(obs) == Share(obs.packet)
ArtifactMetric(obs) == Share(obs.artifacts)

\* What is not expected counts as satisfied, but not as an expectation: with one
\* of the two expectations stated the quotient can be 2.
PolicyMetric(c, obs) ==
    LET unmet == {x \in Expects[c] : ~obs[x]}
    IN  [passed |-> unmet = {},
         score  |-> IF Expects[c] = {} THEN Unit
                    ELSE ((2 - Cardinality(unmet)) * Unit) \div Cardinality(Expects[c])]

CaseMetrics(c, obs) ==
    [m \in MetricNames |->
        CASE m = "success"      -> SuccessMetric(obs)
          [] m = "policy"       -> PolicyMetric(c, obs)
          [] m = "verification" -> VerificationMetric(obs)
          [] m = "packet"       -> PacketMetric(obs)
          [] m = "artifacts"    -> ArtifactMetric(obs)]

\* The catch of executeBenchmarkCase: only the success metric is recorded.
Errored == [status |-> "error", metrics |-> [m \in {"success"} |-> AllOrNothing(FALSE)]]

\* BenchmarkMetricSchema rejects a score above 1, which makes the case an error.
\* A metric of weight 0 cannot fail a case.
CaseResult(c, obs) ==
    LET metrics == CaseMetrics(c, obs)
    IN  IF \E m \in MetricNames : metrics[m].score > Unit
        THEN Errored
        ELSE [status  |-> IF \A m \in MetricNames : metrics[m].passed \/ Weight[c][m] = 0
                          THEN "passed" ELSE "failed",
              metrics |-> metrics]

Metric == [passed : BOOLEAN, score : 0 .. Unit]

CaseResults == [status : {"passed", "failed", "error"},
                metrics : [MetricNames -> Metric] \cup [{"success"} -> Metric]]

-----------------------------------------------------------------------------
(* Runs. *)

\* A case the run does not have.
NotRun == [status |-> "missing", metrics |-> <<>>]

Results == [Cases -> CaseResults \cup {NotRun}]

Empty == [c \in Cases |-> NotRun]

Executed(results) == {c \in Cases : results[c] # NotRun}

\* benchmark.run.json.  Its score follows from its status and results.
Records == [status : {"running", "completed", "failed"}, results : Results]

NoRecord == [status |-> "absent", results |-> Empty]

Running == [status |-> "running", results |-> Empty]

\* The run that has all its results.
Finished(results) ==
    [status  |-> IF \A c \in Executed(results) : results[c].status = "passed"
                 THEN "completed" ELSE "failed",
     results |-> results]

\* aggregateRunScore: each metric is averaged, score and weight, over the cases
\* that have it; a case that errored has only the success metric.
RunScore(results) ==
    LET Having(m)  == {c \in Cases : m \in DOMAIN results[c].metrics}
        present    == {m \in MetricNames : Having(m) # {}}
        WeightSum(m) == MapThenSumSet(LAMBDA c : Weight[c][m], Having(m))
        ScoreSum(m)  == MapThenSumSet(LAMBDA c : results[c].metrics[m].score, Having(m))
        common     == FoldSet(LAMBDA m, acc : acc * Cardinality(Having(m)), 1, present)
        Factor(m)  == common \div Cardinality(Having(m))
        earned == MapThenSumSet(LAMBDA m : WeightSum(m) * ScoreSum(m) * Factor(m) * Factor(m),
                                present)
        total  == MapThenSumSet(LAMBDA m : WeightSum(m) * Factor(m) * common * Unit, present)
    IN  IF total = 0 THEN <<1, 1>> ELSE <<earned, total>>

Score(record) == IF record.status = "running" THEN <<0, 1>> ELSE RunScore(record.results)

\* a exceeds b by more than d.
Exceeds(a, b, d) == (a[1] * b[2] - b[1] * a[2]) * d[2] > d[1] * a[2] * b[2]

-----------------------------------------------------------------------------
(* comparison.ts: lhs is judged against rhs. *)

HasMetric(record, c, m) == m \in DOMAIN record.results[c].metrics

NewlyFailing(lhs, rhs) ==
    {c \in Cases : lhs.results[c].status # "passed" /\ rhs.results[c].status = "passed"}

\* A metric the lhs lacks is not among the failures, whatever the rhs has.
RequiredFailures(lhs, rhs) ==
    {cm \in Cases \X Required :
        LET c == cm[1]  m == cm[2]
        IN  /\ HasMetric(lhs, c, m) /\ ~lhs.results[c].metrics[m].passed
            /\ HasMetric(rhs, c, m) => rhs.results[c].metrics[m].passed}

\* detectRegressions.
Regression(lhs, rhs) ==
    IF \/ Exceeds(Score(rhs), Score(lhs), MaxDrop)
       \/ FailOnNew /\ NewlyFailing(lhs, rhs) # {}
       \/ RequiredFailures(lhs, rhs) # {}
    THEN "failed" ELSE "passed"

\* The comparison status "regressed" of a metric: both sides have it.
LowerMetrics(lhs, rhs, names) ==
    {cm \in Cases \X names :
        LET c == cm[1]  m == cm[2]
        IN  /\ HasMetric(lhs, c, m) /\ HasMetric(rhs, c, m)
            /\ lhs.results[c].metrics[m].score < rhs.results[c].metrics[m].score}

=============================================================================
