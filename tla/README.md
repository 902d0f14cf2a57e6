# TLA+ models of the governed delivery harness

GDH takes a spec, makes a plan, asks a policy whether the plan may be carried
out, asks a human where the policy says so, lets a coding agent (the runner)
carry it out in a Git repository, verifies what it did, and publishes the
result on GitHub. Everything it knows about a run is in files under
`runs/<run id>/`; the commands are short-lived processes that read those
files, do one thing and write them back. This directory holds TLA+ models of
that program, the configurations with which TLC checks them, and theorems
about them that TLAPS proves.

## 1. The system

### Components, their state and their operations

| Component | Source | State | Operations |
|---|---|---|---|
| Run lifecycle | `apps/cli/src/services/run-lifecycle/` | `run.json`, `session.manifest.json`, the artifacts, checkpoints, progress and session files of one run | `gdh run` (create, advance, finalize), `gdh status` (inspect), `gdh resume` (inspect, advance, inspect), `gdh verify` |
| Domain records | `packages/domain` | the schemas of those files, `updateRunStage` | record constructors and parsers |
| Policy engine | `packages/policy-engine` | none: a policy pack read from disk per command | `evaluateSpec` (decision for an impact preview), `auditRun` (what the runner touched against the pack), approval packets |
| Runner adapter | `packages/runner-codex` | a child process | `execute`: spawn, collect output, classify the result |
| Verification | `packages/verification` | none | nine checks over the artifacts, `decideRunCompletion` |
| Review packets | `packages/review-packets` | none | render a review packet from the artifacts |
| Artifact store | `packages/artifact-store` | the run directory | write and load artifacts, events; dashboard and failure taxonomy as views |
| GitHub sync | `apps/cli/src/services/github-sync` | the `github` field of `run.json`, GitHub itself | status, draft pull request, packet sync, comment sync, iteration requests, issue ingestion |
| GitHub adapter | `packages/github-adapter` | none | REST calls |
| Evaluation harness | `packages/evals`, `packages/benchmark-cases` | the record, report and regression result of each benchmark run; the baseline of a suite | run a suite or a case, score it, compare it with the baseline or with another run |
| Optimizer | `apps/cli/src/optimize.ts` | `gdh.optimize.json`, a directory per optimization, a temporary workspace | audit a candidate, benchmark it in a workspace, keep or reject it, decide again |
| Command line | `apps/cli/src/program.ts` | none | argument parsing, one entry point per command |
| API and web | `apps/api`, `apps/web` | none | read-only views |

### How they interact

There is no daemon, no lock and no transaction. `gdh run` calls the lifecycle
service in one process; the service calls the policy engine, the approval
resolver (a prompt on the terminal, or nothing), the runner adapter, the
verification and the artifact store by plain function calls, and writes
`run.json` and the manifest between them. `gdh status`, `gdh resume`,
`gdh verify` and the `gdh pr` commands are later processes that learn
everything from those files. So the components interact through the files, and
what can go wrong goes wrong between two writes: because the process was
killed there, or because a second process was started meanwhile.

### What is hard

- **Two records, two writes.** Every transition writes `run.json` and the
  manifest one after the other, in an order that differs by transition
  (`commit.ts`, `transition-engine.ts`). `determineNextStage`
  (`inspection.ts:143-190`) has to make sense of any torn pair.
- **Inspection writes.** `gdh status` is not read-only: it interrupts an active
  run, recomputes the pending stage and writes status, stage and pending stage
  to both records (`inspection.ts:511-749`). What one inspection writes, the
  next one reads.
- **No ownership.** An active status is taken to mean that the process which
  wrote it is gone.
- **Gates in two places.** `requiredArtifactsForNextStage` says what a resume
  needs; each handler says again what it needs.
- **Waiting without a limit.** The human, the runner and the verification
  commands may take for ever.
- **Calls that cannot be taken back.** Publishing a run is a row of calls to git
  and to GitHub with a write of `run.json` between some of them; a command
  killed between a call and the write has done what nobody recorded.
- **A shared work tree.** `gdh pr create` commits from the operator's own work
  tree and index, which other runs, killed commands and the operator use too.
- **Reuse after re-evaluation.** A resume may evaluate the policy again over
  artifacts (a resolution, a packet) of an earlier evaluation.
- **Verdicts about files that change.** A benchmark, its baseline, the
  optimizer's rules and the evidence copied out of a workspace are read at
  different times; `optimize decide` takes a decision again when all of them
  may have changed, and the workspace has to go whatever throws.

`PROJECT.json` lists these as hazards, each at its line.

### What makes each component correct

- *Lifecycle*: no prompted run reaches the runner unapproved; a denied or closed
  run stays so; completed means verified; a paused run can be resumed; the two
  records agree when nobody was killed; commands end.
- *Policy engine*: the strictest matching rule decides; what the evaluation
  forbids the audit reports; an audit never approves what was not approved.
- *GitHub sync*: one open pull request per run, whatever fails, and the recorded
  one is kept; what is committed for a run is of that run, and its pull request
  holds it; a recorded iteration request is on disk, has the input it names, and
  is not forgotten.
- *Evaluation harness*: exit code 0 means that nothing is lost against the
  baseline; the report and the regression result are of the record they lie
  beside; a comparison changes no finished run.
- *Optimizer*: what is kept is an improvement and stays inside the surface; a
  decision taken again is the same; the workspace is reclaimed.

## 2. The modules

| Module | What it is |
|---|---|
| `RunState` | The two records and the artifacts of a run, and the pure functions of `inspection.ts` on them |
| `RunLifecycle` | The four commands as processes: variables, one action per write, `Init`, `Next`, `Spec`, `FairSpec` |
| `RunProperties` | The properties of the lifecycle |
| `RunInvariants` | The inductive invariants: `TypeInv`, `ApprovalInv`, `SupplyInv`, `JudgedInv`, `DenialInv`, `AgreementInv`, `OpenInv`, `StaleInv`, `LeadInv`, `RecordInv`, `ServeInv`, `PauseInv` |
| `GovernedRun` | An abstract run, without commands, records or crashes |
| `RunRefinement` | The mapping by which `RunLifecycle` implements `GovernedRun` |
| `MCRunLifecycle` | The instance for TLC |
| `RunLifecycleProofs` | `Spec => []TypeOK` |
| `ApprovalProofs` | `OneCommand => (Spec => []PromptIsApproved)` |
| `VerdictProofs` | Eight properties of `RunProperties` and the refinement of `GovernedRun` |
| `PolicyEngine` | The preview, the matching of rules, the evaluation and the audit, as operators |
| `PolicyRun` | A governed run as the policy engine sees it, and its properties |
| `MCPolicyRun` | The instance for TLC |
| `PolicyProofs` | `TypeOK` and five theorems about every policy pack |
| `GithubSync` | `gdh pr create` and `gdh pr sync-packet`, with the work tree, the local branches, GitHub and their users |
| `Delivery` | An abstract delivery, without work tree, commits or failing commands |
| `DeliveryRefinement` | The mapping by which `GithubSync` implements `Delivery` |
| `MCGithubSync` | The instance for TLC |
| `GithubProofs` | `TypeOK`, four theorems about the delivery of any runs and the refinement of `Delivery` |
| `IterationRequests` | `gdh pr comments` and `gdh pr iterate`, with the people who comment |
| `MCIterationRequests` | The instance for TLC |
| `IterationProofs` | `TypeOK` and three theorems about any comments |
| `Evals` | Metrics, scores, comparison and regression, as operators |
| `Benchmark` | `gdh benchmark run` and `gdh benchmark compare`, one action per write |
| `Optimizer` | `gdh optimize run` and `gdh optimize decide` beside them; `Init`, `Next`, `Spec` |
| `OptimizerProperties` | The properties of both |
| `MCOptimizer` | The instance for TLC |
| `OptimizerProofs` | `TypeOK` and three theorems about optimizations |
| `BenchmarkProofs` | Three theorems about benchmark runs |

### RunState and RunLifecycle

`run`, `manifest` and `files` are what is on disk; `head` is Git HEAD of the
repository; `ctx[p]` is the memory of process `p`: its copies of the two
records and of the artifacts (`LifecycleContext` in `types.ts`), its command,
and its place `pc`. Three history variables (`torn`, `stale`, `answered`) are
read by properties only.

An action is one write that a later command can tell apart, with everything
the code computes for it. The name of a place is the write that comes next or
the stage whose handler is entered. Artifacts written together and read
together are one write where no guard of the program can see the difference;
the five artifacts that prove an execution (`EvidenceOrder`) are written one at
a time, because `determineNextStage` reads which of them exist.

| Actions | Code |
|---|---|
| `CreateRun`, `CreateManifest` | `createFreshRunContext` (`transition-engine.ts:2502-2681`) |
| `NormalizeSpec` ... `PlanManifest` | `handleSpecNormalized`, `handlePlanCreated` |
| `EvaluatePolicy` ... `PromptManifest` | `handlePolicyEvaluated` |
| `AskHuman` ... `ApproveManifest` | `handleAwaitingApproval` |
| `RunnerRun` ... `RelapseManifest` | `handleRunnerStarted` |
| `VerificationRun` ... `VerdictManifest` | `completeVerificationTransition`, `rerunVerificationForExistingRun`, `packages/verification` |
| `Finalize` ... `FinalManifest` | `finalizeFreshRun` |
| `Invoke`, `Load` ... `Unsupported` | `service.ts`, `inspection.ts`, `advanceLifecycle` |
| `VerifyLoad` | `loadRunContext` (`context.ts`) |
| `Crash`, `HeadMoves` | the environment |

`Crash` stands for a killed process and for any error the command does not
handle: both leave the files as they are.

### PolicyEngine and PolicyRun

`PolicyEngine` has one operator per function of `preview.ts`, `matching.ts` and
`audit.ts`. What these do to texts is abstracted to what decisions depend on:
`Covers[g]` is the set of paths that glob `g` matches, `Prefix` says for which
globs `globsOverlap` holds, a rule's prefixes and patterns are the commands
they match, `Kind` is the classification of `shared.ts`, and a rule's
`context` says whether its task classes and risk hints, if it has any, match
the run. All of these are constants without relation to each other, because
the code relates them by regular expressions only. The order of
`compareMatchResults` among rules of the same decision chooses the reason that
is recorded and not the decision, so a set of decisions stands for the sorted
list.

`PolicyRun` takes one run through `evaluateSpec`, the human's answer, what the
runner does, and `auditRun`. The pack is a file, read by both, so `EditPack`
may replace it in between by one of `EditedPacks`; `evaluated` remembers the
pack of the evaluation.
`RunLifecycle` leaves the decision and the verdict free, `PolicyRun` computes
them and leaves the interruptions out; the two share the decisions, the
resolutions and the audit's results.

### GithubSync and IterationRequests

A commit is a snapshot of the files, and a branch the sequence of commits that
led to its tip, so that `git merge-base --is-ancestor` and a push without force
both ask for a prefix. `tree`, `index`, `cur` and `local` are the operator's
repository, `remote` and `prs` are GitHub, `record` is the `github` field of
each run's `run.json`, and `stored` is the HEAD in the run's workspace
snapshot. `ctx[p]` is the memory of a command. There is one action per call to
git or GitHub and one per write of `run.json`:

| Actions | Code |
|---|---|
| `CreateDraftPr` | `evaluateDraftPrEligibility`, `listIgnoredDraftPrContinuityReasons`, the choice of the branch |
| `PrepareBranch`, `CheckoutBranch` | `prepareBranchForRun`: the checks, then the checkout |
| `RecordBranch`, `RecordCommit`, `RecordPullRequest` | the three calls of `persistGithub` in `createDraftPr` |
| `StagePaths`, `CommitStaged`, `NothingStaged`, `Push` | `git.ts` |
| `EnsureBranch`, `RequestPullRequest` | `packages/github-adapter` |
| `SyncPacket`, `RecordPublication` | `syncPacket` |
| `VerifyRun`, `EditFile`, `SwitchBranch`, `CommitOwnFile`, `BaseMoves`, `ClosePullRequest` | the runs, the operator and GitHub's users |

`Fail(p)` is a call that was refused, a call that failed, and a process that was
killed; because it may come before or after any other action, so does a call
that had its effect and whose answer was lost. Three things are assumed of the
operator: git is used between commands and not during them (files are edited at
any time), the files committed by hand are no run's, and `--branch` is given
only while no branch is recorded. Without the last, two pull requests are what
was asked for.

`IterationRequests` is one run whose pull request is recorded. `thread` is the
conversation on GitHub, `fetched` is `pr-comments.json`, `requests` and
`inputs` are the `.json` and the `.md` files under `github/iteration-requests`,
and `recorded` is `iterationRequestPaths`. The id of a request is made of the
comment and of its text, so an edited comment is another request.

### Evals, Benchmark and Optimizer

`Evals` has the five metrics of `scoring.ts`, the weighted score of a run and
the comparison of `comparison.ts`. Scores are fractions and nothing is rounded.
Of the governed run that a case executes it keeps what the metrics ask: which
expectations were met, and which share of the packet and of the artifacts there
is. A metric whose score the schema rejects, an errored case that has the
success metric alone, and a metric that one side lacks are all there, because
the regressions depend on them.

`Benchmark` and `Optimizer` are the commands. `jobs[p]` is the process of a
benchmark run and the files of its directory, `cmp` a comparison, `opts[o]` an
optimization with its directory, `redo` a renewed decision. An optimization
benchmarks its candidate in a temporary copy of the repository, so a workspace
is a place for a benchmark run too, with a baseline of its own.

| Actions | Code |
|---|---|
| `StartRun`, `RunCase`, `PrepareCaseThrows`, `LoadBaseline`, `PersistReport`, `PersistRegression`, `PersistRun` | `runTarget` (`packages/evals/src/service.ts`) |
| `StartCompare`, `CompareReport`, `CompareRegression`, `CompareRecord` | `compareRunArtifacts` |
| `StartOptimize` ... `RecordBlocked` | `runOptimizationCandidate` up to the audit's verdict |
| `PrepareWorkspace`, `ApplyCandidate`, `OptimizeThrew`, `CopyEvidence`, `DecideCandidate`, `FinishOptimize`, `CleanUp` | the rest of it, with its `finally` |
| `StartDecide`, `RedoDecision`, `RedoRecord` | `decideOptimizationRunId` |
| `KillRun`, `KillCompare`, `KillOptimize`, `KillDecide`, `RefreshBaseline`, `EditConfig` | the environment |

A candidate is the set of paths it changes, and a surface the set of paths its
patterns match. What a candidate does to the outcome of the benchmark is free,
but it leaves the baseline in its workspace alone. `optimize compare` only
shows records.

### GovernedRun and RunRefinement

`GovernedRun` says what somebody who reads the directory of a run may rely on:
no work before a decision and, for a prompted run, an approval; an answer given
once; each artifact of an execution recorded once for it; a verdict over whole
evidence, passed only if the evidence speaks for the run; an end that is
followed by nothing. It has seven variables and seven actions, and no commands,
records, checkpoints, inspections or crashes.

`RunRefinement` maps the files to it. Artifacts of an earlier execution
(`stale`) do not count as evidence, and a run is closed when both records say
so: between the two writes it is `completing` or `abandoning`, and a crash there
may open it again. Every write of the handlers and of the inspection is a step
of `GovernedRun` or changes nothing in it. `gdh verify` is left out, because it
may judge a closed run again and so reopen it; and `forbid` is no obstacle to
`Launch`, because of `forbid_resumed` below.

### Delivery and DeliveryRefinement

`Delivery` says what a reader of `run.json` and of GitHub may rely on: the branch
of a run is on record before GitHub has it, and keeps its name; a pull request
shows the run it is for and is the only open one of its branch; the number on
record is that of the last pull request of the run, for good, and nothing more
is named, published or requested for a run that has one. It has five variables and
five actions, and no work tree, commits, pushes or failing commands.

`DeliveryRefinement` reads the variables off `record`, `remote` and `prs`. What a
pull request shows is the set of runs whose files, those that no other run
changed, all differ from the base in it. Creating the branch on GitHub and
pushing to it are both `Publish`, `ClosePullRequest` is `Close`; checkouts,
commits, failures and what the operator does in the work tree are stutters.

## 3. The runs

One process means one command at a time: a new one is given when the last has
ended or was killed. Two processes are two commands at once.

| Run | Asks | Bounds | States |
|---|---|---|---|
| `lifecycle_safety` | Do approvals, denials and verdicts hold, and do the records agree, under every command and every crash? | 1 process, 1 packet, HEAD fixed | 3.5 million |
| `pause_resume` | Can a paused run be resumed, is what is eligible served, does a closed run stay closed, does verification judge one execution, is `GovernedRun` implemented? | 1 process, `status` and `resume`, HEAD moves once | 1.3 million |
| `liveness` | Does every command end, or wait for somebody? | 1 process, `status` and `resume`, fair | 0.4 million |
| `policy_safety` | What may an allowed run rely on, and what does its audit find? | every pack of up to two of 35 rules with every fallback, 4 specs, 2 paths, 2 globs, 2 commands, the pack edited at any time | 0.5 million |
| `github_publish` | Does each run get one pull request with its change and nothing else, is it kept, is `Delivery` implemented? | 1 process, 2 symmetric runs of one issue that change a file each and one both, 4 paths, 2 branches, 1 edit, 1 move of the base, 2 pull requests | 1.0 million |
| `iteration_requests` | Are requests recorded, complete and kept? | 1 process, 2 comments, 2 instructions | 0.8 million |
| `optimizer` | Is what is kept an improvement, is the gate a gate, does what has ended stay? | one command at a time; 1 benchmark run, 1 optimization; 3 cases, of which the suite has 2; 3 outcomes of a case; 3 baselines to begin with, 2 configs, 2 paths | 1.5 million |

No bound limits how many commands are given or how often a process is killed:
the state of a run is finite, and TLC exhausts it. One packet is enough where
packets are not compared; `stale_approval` has two. HEAD matters only as equal
to the one recorded or not, and it never returns to an earlier value, so one
move produces both cases. Two processes show every pairwise interleaving, which
is what `two_runners` is about. Deadlock is checked in
every run of the lifecycle: a command can always be given. A governed run of
`PolicyRun` ends when it is stopped or audited.

Two rules are enough for the packs because a decision is the strictest of the
matching rules and the exemptions ask for one rule on a file and one, or none,
on a command; the rules are chosen so that each kind of condition is met alone
and with another, by a rule on either side. The theorems of `PolicyProofs`
hold for all packs.

For the delivery, two runs are what it takes to leave something behind for
another: they share an issue, and so a branch name, and change one file both and
a file each, so that each must show a change of its own. The fourth file is the
operator's. The two runs are symmetric, each with its file. Two branches are the
derived one and one given by name. One edit, one move of the base and two pull requests bound counters that only grow;
each of the hazards listed for `createDraftPr` needs one of each, or two pull
requests. A command can be given at any time in `iteration_requests`, and in
`github_publish` until nothing is eligible, so deadlock is checked in both. The
theorems of `GithubProofs` and `IterationProofs` have none of these bounds.

In `optimizer` one case states both policy expectations and the other none, the
third has left the suite and lives on in a baseline. The outcomes of a case are
a perfect one, one that misses the approval (half of the policy score), and one
that misses the status and half of the artifacts; a case may also throw. The
baselines to begin with are one from before the suite changed, an unreadable one
and none, and any finished run of the suite, with failed cases or without, may
become the baseline. The configs differ in the surface, the protected metrics and whether an improvement
is asked for. A benchmark run and an optimization start once each and are
compared and decided any number of times. The theorems of `OptimizerProofs` and
`BenchmarkProofs` have none of these bounds.

Five runs check what a comment, a document or an instruction written into the
records says and the code does not keep; TLC finds a behaviour for each:

| Run | The behaviour |
|---|---|
| `forbid_resumed` | A forbid decision is recorded with the pending stage `runner_started`; killed before the final manifest, the run is resumed into the runner |
| `stale_approval` | A resume evaluates again, writes a new packet, and reuses the resolution of the old one |
| `two_runners` | A resume of a run that is alive starts a second runner |
| `base_advanced` | Others push to the base; `ensureBranch` creates the run's branch at GitHub's base, and the push of the local one is refused, at every retry |
| `protected_lost` | A candidate makes a case throw; the case keeps the success metric alone, a protected metric that is gone is no regression, and the candidate is kept |

### Why some properties are checked without some commands

`gdh verify` looks at no status. Killed after it wrote `verifying` to
`run.json` of a paused or a completed run, it leaves that run ineligible or
reopened, so `PausedRunIsResumable`, `ClosedRunStaysClosed`,
`EligibleResumeIsServed` and `PromiseKept` are checked for inspections and
resumes. `CompletedIsVerified` and `HandlersFindTheirInputs` assume that two
resumes do not run at once: each process writes whole records from its memory,
and `two_runners` shows what follows.

`EligibleResumeIsServed` has one exception, and says exactly which: a run killed
during its first verification is pending `verification_completed`, for which
`advanceLifecycle` has no handler, so an eligible resume is refused. The property
says that nothing else is, and that the evidence of such a run is whole and of
one execution, so `gdh verify` can take it up.

`optimizer` gives one command at a time. With two, a comparison may write back
the record of a run that finishes meanwhile, and `VerdictIsFinal` may fail
between two decisions; `TypeOK`, `KeptIsImprovement` and `WorkspaceIsReclaimed`
are proved for overlapping commands as well.

`OnlyChangedBy` restricts `PullRequestCarriesTheRun` to files that one run alone
changed. Of a file that two runs change, the work tree holds the later content
alone: publishing the first run then commits the content of the second, and the
pull request of the second need not show that change. TLC finds this without
the restriction where the one run changes a file of the other's and none of its
own; no document says what should happen. Where each run has a file of its own,
as in `github_publish`, the checks of `PrepareBranch` refuse the first
publication as long as the changes of both are in the work tree.

### Fairness

`FairSpec` has weak fairness of `OwnStep(p)`: a process that is alive and has
something of its own to do is scheduled by the operating system. Nothing is
assumed about `AskHuman`, `RunnerReturns` and `RunVerification`, because the
code sets no time limit on the human, the runner (`runner-codex/src/index.ts:516`)
or a verification command; `CommandsEnd` says that a command ends *or* waits
for one of these. Nothing is assumed about crashes either.

## 4. The proofs

`TypeCorrect` holds for every value of the constants. `TypeOK` is not
inductive: the handlers write values they hold in memory, as a stage or a
status, and `TypeOK` alone would let `next` be `NoStage` where a stage
is written, or the sixth of five artifacts be written. `TypeInv` adds what each
place may rely on (`Typed`).

`PromptApproved` assumes `OneCommand`; with two commands at once a process may
rewrite the decision under another. `PromptIsApproved` is not inductive, for
two reasons. What the process at `launch` holds is what it loaded or wrote, so
memory and disk must agree (`InStep`), at each place as far as the handler has
got (`InPlace`). And a process enters the runner because the records on disk
told a resume to, so the invariant has to say which records may stand beside an
unapproved prompt: those that lead a resume to an early stage (`Early`), and
that stay so when an inspection rewrites them (`Coherent`). `ApprovalInv` is
the conjunction. The proof has one lemma per action; the lemmas about
`DetermineNextStage` and `Eligible` carry the inspection.

`VerdictProofs` assumes `OneCommand` too, and adds one conjunct for each question,
all of them on top of `TypeInv`, `ApprovalInv` and `SupplyInv`:

- `InputsAreFound` needs `SupplyInv`: artifacts appear in the order in which the
  handlers write them (`Ordered`), what a process holds is what is on disk
  (`Held`), and the stage that an inspection chooses has what
  `RequiredArtifacts` asks for (`Supplied`).
- `CompletionVerified` needs `JudgedInv`: where a handler is at work, `run.json`
  does not call the run closed, so "completed" is only ever written beside a
  verdict.
- `DenialStands` needs `DenialInv`: an inspection never loses the denial, and no
  place from which the runner can be entered is reached with it.
- `RecordsAgree` needs `AgreementInv`: at each place between the two writes of a
  checkpoint, the record already written has what the other is about to get. It
  also assumes that there is a process, because the argument is about what it holds.

The last five also assume `"verify" \notin Commands`, as the run `pause_resume`
does: `gdh verify` judges a run again at any time and may reopen it.

- `ClosedStaysClosed` needs `OpenInv`: a run that one record calls closed and the
  other does not is on its way to being closed, or was killed on it.
- `EvidenceOfOneExecution` needs `StaleInv`: files of an earlier execution are
  left only while both records lead to the stage that repeats it.
- `PromiseHolds` is the refinement: the initial states map to initial states, and
  every step of the lifecycle to a step of `GovernedRun` or to a stutter. The
  mapping reads the records, the files and the places of the processes, so the
  proof needs nearly all of the above and two more: which records lead to the
  approval and to the verification (`LeadInv`), and what the handlers read from
  them is what was decided, asked and recorded (`RecordInv`). `Ready` is the
  conjunction. `GovernedRun` promises safety only, so nothing is lost by
  proving the steps alone.
- `ResumeServed` needs `ServeInv` beside `Ready`: the manifest awaits only stages
  that have a handler, or a verdict whose evidence is whole, and a run whose
  manifest awaits nothing is not at work, so that the interruption of a run
  never invents a stage.
- `PauseIsResumable` needs `PauseInv` beside `Ready`, `ServeInv` and `DenialInv`.
  Eligibility looks at both records and at the files, so the invariant says what
  the manifest of a waiting run may await and what is then on disk (`Pausable`),
  what may stand in `run.json` beside it (`Standing`: no denial, no failed
  verdict), and how far each handler has come in writing either (`Pausing`). An
  inspection of a run that does not wait must not make it wait with a stage that
  cannot be entered: `NextIsPausable` and `NextAfterFailure` follow
  `DetermineNextStage` there. With it the property holds between any two writes,
  and not only when no command is at work.

`PolicyProofs` proves every safety property of `policy_safety` for all packs,
specs and texts. The inductive invariant `PolicyInv` says that the decision is
the evaluation of the preview of the spec (`DecisionIsOfTheSpec`) and that the
audit is the audit of the final evidence (`AuditIsOfTheEvidence`); nothing in
the properties themselves says where the decision or the verdict came from, so
they are not inductive. What is left is about the operators:
`AllowedWriteIsExplicit` and `AllowedEvaluation` for allowed runs,
`MoreEvidenceMoreDecisions` (observed commands are never disregarded) for the
monotonicity of the audit, and `NamedIsPredicted` with `StrictestIsMonotone`
for runs that do what they announced.

`GithubProofs` holds for any runs, files, branches and bounds. `TypeInv` adds to
`TypeOK` what each place relies on (`Placed`: a run, a branch, the number of a
pull request that exists) and that the base exists on GitHub; it is inductive for
any number of commands, and `MemoryTypes` carries it through each of their steps.
The other five theorems assume `OneCommand`, and each adds one conjunct:

- `RecordedIsKept`: the memory of a command is what is on disk (`HoldsTheRecord`),
  and a creation holds no pull request, so no write of a whole record loses one.
- `OnePerRun`: a creation works on the recorded branch, or on a new one while
  none is recorded (`HoldsTheBranch`); the head of a pull request is the branch
  recorded for its run (`HeadsAreRecorded`); GitHub takes one open pull request
  for a head (`HeadsAreTaken`).
- `CommitOfTheRun`: from the checks of `PrepareBranch` to the commit, nothing
  outside the run is staged (`StagedIsOfTheRun`). A checkout in between could
  change the index, and `CheckoutKeepsStage` shows that it does not.
- `CarriesTheRun`: a file that one run alone changed has the base's content or shows
  the change. What HEAD has changed is changed in the index, and that in the work
  tree (`Grown`); no local branch has the change before the recorded one
  has it (`CommittedFirst`), and the change of a verified run stays in the work
  tree until then (`Survives`). `Carries` follows it through the index and the
  commit to the push, as far as the one creation has got.
- `DeliveryHolds` is the refinement of `Delivery`. It needs all of the above, and
  that a branch is on GitHub before a pull request is asked for and that the number
  about to be recorded is the last one and of the same run (`Delivering`). The
  proof has one lemma for the steps of a creation (`CreateIsDelivered`), one for
  closing a pull request, and one for every other step.

With two commands `RecordedPullRequestIsKept` fails: each writes the record it
began with.

`IterationProofs` needs for the files only the order of the writes (`FilesInv`),
with any number of commands, and for `RequestsAreNotForgotten` that a command's
copy of the recorded paths is current (`CopyIsCurrent`), so one command.

`OptimizerProofs` holds for any suite, weights, thresholds, baselines, configs
and number of runs, and all but its last theorem for overlapping commands.

- `KeptImprovement`: a decision is taken from what the benchmark left in the
  workspace and again from the copies of it. `KeptInv` follows the report and its
  regression result from the one to the other (`Sound`: a result is the one of
  the report beside it), and says when a run can have a decision at all.
- `WorkspaceReclaimed`: `WorkspaceInv` names the places at which a workspace
  exists.
- `VerdictFinal` needs one command at a time: a final status goes with the
  decision that `decide` would take again (`OptFinal`), and a decision that is
  being taken again is that one (`RedoFinal`), so that nothing is left to
  `gdh.optimize.json` or to the baseline.

`BenchmarkProofs` assumes one command at a time. `BenchInv` says that what a
process holds belongs to its place (`JobIn`), that a comparison holds the record
on disk (`CmpInv`), and that the files of a finished run agree (`Agreeing`).

Liveness is out of the prover's reach, and `CommandsEnd` rests on TLC. Every safety
property and every action property of a passing run is stated by a theorem.

## 5. What is abstracted, and what is not modelled

- Contents of specs, plans, previews and diffs; ids, timestamps, sessions,
  progress snapshots and events, which no guard of the lifecycle reads.
- One `writeFile` is atomic here. Node truncates and then writes, so a kill
  inside it can leave an empty record, which no later command can load.
- In the lifecycle, policy evaluation may give any decision and the audit any
  verdict; `PolicyRun` has the two in detail.
- One run in the lifecycle; runs share nothing but the repository, whose HEAD
  moves freely there and is modelled in `GithubSync`.
- In `GithubSync` the inspection that each command begins with gives the command
  its copy of `run.json`, the session manifest is not read, and a publication
  that follows an edit publishes the edited files: no document forbids it.
- In `Optimizer` the cleanup of a workspace does not itself fail, and what a copy
  of the evidence leaves when it throws half way is not told apart, because the
  record does not name it and nothing reads it. In `Evals` one threshold policy
  holds for all cases of a suite, and scores are not rounded.

Parts without a module, and why:

| Part | Why |
|---|---|
| Issue ingestion, GitHub configuration, comments that gdh writes | Issue ingestion happens before there is a run; the comment is a rendering of the packet, and no guard reads it |
| Live mode of a benchmark case, parsing of cases and suites, intake catalog | Another way to prepare a workspace, and the reading of data files; `Evals` has which cases a suite has |
| `benchmark show`, `optimize compare` | They only read |
| Runner process, verification commands and claims | Child processes whose results are free choices in `RunLifecycle`; see the plan |
| Review packets, prompts, shared text | They render texts from artifacts and keep no state |
| Dashboard, failure taxonomy, API and web views | Read-only views of the run directory |
| Argument parsing and output of the command line | No state; the entry points are the actions `Invoke` |

## 6. The plan

The lifecycle came first because every other part reads or writes its records,
the policy engine second because it decides what the lifecycle gates, the GitHub
delivery third because its effects cannot be taken back, then the benchmark
gate, the optimizer that rests on it, and the abstract run. What is left:

1. **`RunnerProcess`** (`runner-codex`): child process, streams, exit and final
   message in any order, the child that goes on working when `gdh` is killed; the
   classification of the result as an operator. With it the verification
   commands, which are child processes too. `RunLifecycle` takes each of the
   results that the classification can give, so what a run relies on is covered,
   and where a result comes from is not.
2. **`GithubComposition`**: `GithubSync` beside the inspection of
   `RunLifecycle`, because `gdh pr` begins with `status` and every `status`
   writes whole records; two GitHub commands at once. The two machines have
   1.0 and 3.5 million states, so a composition needs both cut down first.
3. **`PolicyRun` as the refinement** of the decision and the audit of
   `GovernedRun`.

Behaviours that the models reach and no run reports by itself: an execution that
is repeated because the manifest of `runner_completed` is written before
`run.json`; a policy checkpoint that names a packet not yet written; an
inspection after a failed verification that makes the next one call the run
resumable; a forbidden command that changes no file and is recorded as drift.

A theorem that is left: the refinement with `gdh verify` as well, if `GovernedRun`
is given a second judgement.
