----------------------------- MODULE GithubSync -----------------------------
(***************************************************************************)
(* `gdh pr create` and `gdh pr sync-packet`: a verified run is committed    *)
(* to a branch of the operator's repository, pushed, and put up as a draft  *)
(* pull request.  The operator goes on editing, GitHub has other users, and *)
(* a command may fail or be killed between any two of its calls.            *)
(*                                                                         *)
(* A commit is a snapshot of the paths, a branch the sequence of commits    *)
(* that led to it, so "is an ancestor of" is "is a prefix of".  The status  *)
(* inspection every command begins with is modelled in RunLifecycle; here   *)
(* it gives the command its copy of run.json.                               *)
(***************************************************************************)
EXTENDS Naturals, Sequences, FiniteSets, SequencesExt

CONSTANTS
    Procs,            \* gdh commands at one time
    Runs,
    Paths,
    Changed,          \* [Runs -> SUBSET Paths], the files a run changes
    Branches,         \* names of delivery branches
    Base,             \* the base branch
    Derived,          \* [Runs -> Branches], deriveBranchName; equal for runs of one issue
    MaxEdits,         \* bound: edits of the operator
    MaxBaseMoves,     \* bound: commits others add to the base branch
    MaxPullRequests   \* bound: pull requests in all

ASSUME GithubAssumption ==
    /\ Changed \in [Runs -> SUBSET Paths]
    /\ Derived \in [Runs -> Branches]
    /\ Base \notin Branches /\ "none" \notin Branches
    /\ {"base", "operator"} \cap Runs = {}
    /\ MaxEdits \in Nat /\ MaxBaseMoves \in Nat /\ MaxPullRequests \in Nat

VARIABLES
    tree,    \* the work tree
    index,   \* what is staged
    cur,     \* the branch that is checked out
    local,   \* [branch -> commits], <<>> where there is no such branch
    remote,  \* the same on GitHub
    prs,     \* the pull requests, by number
    record,  \* [Runs -> the github block of run.json]
    stored,  \* [Runs -> HEAD in the run's workspace snapshot], <<>> until it is verified
    ctx,     \* [Procs -> the command and its memory]
    edits    \* number of edits so far

gitVars == <<tree, index, cur, local>>
vars == <<tree, index, cur, local, remote, prs, record, stored, ctx, edits>>

AllBranches == Branches \cup {Base}
Contents == Runs \cup {"base", "operator"}
Snapshots == [Paths -> Contents]

\* Files of the operator's that no run changes.
OwnPaths == Paths \ UNION {Changed[r] : r \in Runs}

NoBranch == "none"
NoPullRequest == 0
NoRecord == [branch |-> NoBranch, pr |-> NoPullRequest]
Idle == [pc |-> "idle", run |-> "none", mem |-> NoRecord, branch |-> NoBranch,
         exists |-> FALSE, pr |-> NoPullRequest]

Exists(branches, b) == branches[b] # <<>>
Tip(branches, b) == branches[b][Len(branches[b])]

\* git status: the paths that differ from HEAD, staged or not.
Dirty == {f \in Paths : \/ tree[f] # Tip(local, cur)[f]
                        \/ index[f] # Tip(local, cur)[f]}

Init ==
    LET start == [f \in Paths |-> "base"]
        first == [b \in AllBranches |-> IF b = Base THEN <<start>> ELSE <<>>]
    IN  /\ tree = start
        /\ index = start
        /\ cur = Base
        /\ local = first
        /\ remote = first
        /\ prs = <<>>
        /\ record = [r \in Runs |-> NoRecord]
        /\ stored = [r \in Runs |-> <<>>]
        /\ ctx = [p \in Procs |-> Idle]
        /\ edits = 0

At(p, pc) == ctx[p].pc = pc
AtRest == \A p \in Procs : At(p, "idle")
Goto(p, pc) == ctx' = [ctx EXCEPT ![p].pc = pc]
End(p) == ctx' = [ctx EXCEPT ![p] = Idle]

\* persistGithubState: the whole run.json is written from memory.
Persist(p, block) == record' = [record EXCEPT ![ctx[p].run] = block]

-----------------------------------------------------------------------------
(* gdh pr create *)

\* Mutant: a run that has a pull request gets another.
EligibleForDraftPrAgain(r) ==
    /\ stored[r] # <<>>
    /\ IsPrefix(stored[r], local[cur])
    /\ Changed[r] # {}

\* evaluateDraftPrEligibility with the continuity of the inspection: HEAD may
\* have moved forward since the run, not elsewhere.
EligibleForDraftPr(r) ==
    /\ stored[r] # <<>>
    /\ IsPrefix(stored[r], local[cur])
    /\ record[r].pr = NoPullRequest
    /\ Changed[r] # {}

\* Mutant: the recorded name is not looked at.
BranchNameAnew(r, option) == IF option # NoBranch THEN option ELSE Derived[r]

\* The --branch option, else the recorded name, else the derived one.
BranchName(r, option) ==
    IF option # NoBranch THEN option
    ELSE IF record[r].branch # NoBranch THEN record[r].branch
    ELSE Derived[r]

\* An operator names a branch only while none is recorded: who renames it half
\* way asks for a second pull request.
CreateDraftPr(p, r, option) ==
    /\ At(p, "idle")
    /\ EligibleForDraftPr(r)
    /\ option # NoBranch => record[r].branch = NoBranch
    /\ ctx' = [ctx EXCEPT ![p] =
                 [Idle EXCEPT !.pc = "prepare", !.run = r, !.mem = record[r],
                              !.branch = BranchName(r, option)]]
    /\ UNCHANGED <<gitVars, remote, prs, record, stored, edits>>

\* Mutant: changes outside the run are no obstacle.
PrepareBranchAnyway(p) ==
    LET b == ctx[p].branch
    IN  /\ At(p, "prepare")
        /\ cur # b /\ Dirty # {} => ~Exists(local, b)
        /\ ctx' = [ctx EXCEPT ![p].pc = IF cur = b THEN "record_branch" ELSE "checkout",
                              ![p].exists = cur # b /\ Exists(local, b)]
        /\ UNCHANGED <<gitVars, remote, prs, record, stored, edits>>

\* prepareBranchForRun up to its checkout.  It refuses changes outside the run,
\* and to take changes along to a branch that exists.
PrepareBranch(p) ==
    LET b == ctx[p].branch
    IN  /\ At(p, "prepare")
        /\ Dirty \subseteq Changed[ctx[p].run]
        /\ cur # b /\ Dirty # {} => ~Exists(local, b)
        /\ ctx' = [ctx EXCEPT ![p].pc = IF cur = b THEN "record_branch" ELSE "checkout",
                              ![p].exists = cur # b /\ Exists(local, b)]
        /\ UNCHANGED <<gitVars, remote, prs, record, stored, edits>>

\* git checkout: uncommitted changes come along, or forbid it where the two
\* branches differ.
GitCheckout(b) ==
    /\ Exists(local, b)
    /\ \A f \in Dirty : Tip(local, b)[f] = Tip(local, cur)[f]
    /\ cur' = b
    /\ tree' = [f \in Paths |-> IF f \in Dirty THEN tree[f] ELSE Tip(local, b)[f]]
    /\ index' = [f \in Paths |-> IF f \in Dirty THEN index[f] ELSE Tip(local, b)[f]]
    /\ UNCHANGED local

\* git checkout -b
GitCreateBranch(b) ==
    /\ ~Exists(local, b)
    /\ cur' = b
    /\ local' = [local EXCEPT ![b] = local[cur]]
    /\ UNCHANGED <<tree, index>>

CheckoutBranch(p) ==
    /\ At(p, "checkout")
    /\ IF ctx[p].exists THEN GitCheckout(ctx[p].branch) ELSE GitCreateBranch(ctx[p].branch)
    /\ ctx' = [ctx EXCEPT ![p].pc = "record_branch", ![p].exists = FALSE]
    /\ UNCHANGED <<remote, prs, record, stored, edits>>

\* Mutant: the branch is kept in memory until the pull request is recorded.
RecordBranchLater(p) ==
    LET block == [ctx[p].mem EXCEPT !.branch = ctx[p].branch]
    IN  /\ At(p, "record_branch")
        /\ ctx' = [ctx EXCEPT ![p].pc = "stage", ![p].mem = block]
        /\ UNCHANGED <<gitVars, remote, prs, record, stored, edits>>

RecordBranch(p) ==
    LET block == [ctx[p].mem EXCEPT !.branch = ctx[p].branch]
    IN  /\ At(p, "record_branch")
        /\ Persist(p, block)
        /\ ctx' = [ctx EXCEPT ![p].pc = "stage", ![p].mem = block]
        /\ UNCHANGED <<gitVars, remote, prs, stored, edits>>

StagePaths(p) ==
    /\ At(p, "stage")
    /\ index' = [f \in Paths |-> IF f \in Changed[ctx[p].run] THEN tree[f] ELSE index[f]]
    /\ Goto(p, "commit")
    /\ UNCHANGED <<tree, cur, local, remote, prs, record, stored, edits>>

HasStagedChanges == index # Tip(local, cur)

\* hasStagedChanges and commitStagedChanges: the whole index, whoever staged it.
CommitStaged(p) ==
    /\ At(p, "commit")
    /\ HasStagedChanges
    /\ local' = [local EXCEPT ![cur] = Append(@, index)]
    /\ Goto(p, "record_commit")
    /\ UNCHANGED <<tree, index, cur, remote, prs, record, stored, edits>>

NothingStaged(p) ==
    /\ At(p, "commit")
    /\ ~HasStagedChanges
    /\ Goto(p, "ensure")
    /\ UNCHANGED <<gitVars, remote, prs, record, stored, edits>>

\* The commit's hash in run.json is read by nobody.
RecordCommit(p) ==
    /\ At(p, "record_commit")
    /\ Persist(p, ctx[p].mem)
    /\ Goto(p, "ensure")
    /\ UNCHANGED <<gitVars, remote, prs, stored, edits>>

\* ensureBranch: a branch GitHub does not know is created at GitHub's base.
EnsureBranch(p) ==
    /\ At(p, "ensure")
    /\ remote' = IF Exists(remote, ctx[p].branch) THEN remote
                 ELSE [remote EXCEPT ![ctx[p].branch] = remote[Base]]
    /\ Goto(p, "push")
    /\ UNCHANGED <<gitVars, prs, record, stored, edits>>

\* pushBranchToOrigin, without force.
Push(p) ==
    LET b == ctx[p].branch
    IN  /\ At(p, "push")
        /\ IsPrefix(remote[b], local[b])
        /\ remote' = [remote EXCEPT ![b] = local[b]]
        /\ Goto(p, "request")
        /\ UNCHANGED <<gitVars, prs, record, stored, edits>>

\* Mutant: the number is counted before the pull request is there.
RequestPullRequestCountingAhead(p) ==
    LET b == ctx[p].branch
    IN  /\ At(p, "request")
        /\ Len(prs) < MaxPullRequests
        /\ ctx' = [ctx EXCEPT ![p].pc = "record_pr", ![p].pr = Len(prs) + 1]
        /\ UNCHANGED <<gitVars, remote, prs, record, stored, edits>>

\* Mutant: where GitHub has a pull request of the branch, that one is taken.
RequestPullRequestAdopting(p) ==
    LET b == ctx[p].branch
        taken == {n \in DOMAIN prs : prs[n].open /\ prs[n].head = b}
    IN  /\ At(p, "request")
        /\ \/ /\ taken = {}
              /\ Len(prs) < MaxPullRequests
              /\ ~IsPrefix(remote[b], remote[Base])
              /\ prs' = Append(prs, [run |-> ctx[p].run, head |-> b, tip |-> remote[b],
                                     open |-> TRUE])
              /\ ctx' = [ctx EXCEPT ![p].pc = "record_pr", ![p].pr = Len(prs')]
           \/ /\ UNCHANGED prs
              /\ \E n \in taken : ctx' = [ctx EXCEPT ![p].pc = "record_pr", ![p].pr = n]
        /\ UNCHANGED <<gitVars, remote, record, stored, edits>>

\* createDraftPullRequest.  GitHub refuses a second open pull request for one
\* head, and one without commits.
RequestPullRequest(p) ==
    LET b == ctx[p].branch
    IN  /\ At(p, "request")
        /\ Len(prs) < MaxPullRequests
        /\ \A n \in DOMAIN prs : prs[n].open => prs[n].head # b
        /\ ~IsPrefix(remote[b], remote[Base])
        /\ prs' = Append(prs, [run |-> ctx[p].run, head |-> b, tip |-> remote[b],
                               open |-> TRUE])
        /\ ctx' = [ctx EXCEPT ![p].pc = "record_pr", ![p].pr = Len(prs')]
        /\ UNCHANGED <<gitVars, remote, record, stored, edits>>

RecordPullRequest(p) ==
    /\ At(p, "record_pr")
    /\ Persist(p, [ctx[p].mem EXCEPT !.pr = ctx[p].pr])
    /\ End(p)
    /\ UNCHANGED <<gitVars, remote, prs, stored, edits>>

-----------------------------------------------------------------------------
(* gdh pr sync-packet: the body is replaced and a supplemental comment added;   *)
(* both are renderings of the review packet, which is not modelled.              *)

SyncPacket(p, r) ==
    /\ At(p, "idle")
    /\ record[r].pr # NoPullRequest
    /\ ctx' = [ctx EXCEPT ![p] = [Idle EXCEPT !.pc = "record_publication", !.run = r,
                                              !.mem = record[r]]]
    /\ UNCHANGED <<gitVars, remote, prs, record, stored, edits>>

\* The pull request that GitHub returns has the number it was asked for.
RecordPublication(p) ==
    /\ At(p, "record_publication")
    /\ Persist(p, ctx[p].mem)
    /\ End(p)
    /\ UNCHANGED <<gitVars, remote, prs, stored, edits>>

-----------------------------------------------------------------------------
(* The rest of the world *)

\* A call fails or is refused, or the process is killed, before or after the
\* call had its effect.
Fail(p) ==
    /\ ~At(p, "idle")
    /\ End(p)
    /\ UNCHANGED <<gitVars, remote, prs, record, stored, edits>>

\* A run is carried out in the work tree, verified, and ready for publication.
VerifyRun(r) ==
    /\ AtRest
    /\ stored[r] = <<>>
    /\ tree' = [f \in Paths |-> IF f \in Changed[r] THEN r ELSE tree[f]]
    /\ stored' = [stored EXCEPT ![r] = local[cur]]
    /\ UNCHANGED <<index, cur, local, remote, prs, record, ctx, edits>>

\* The operator edits at any time, and uses git while no command runs.
EditFile(f) ==
    /\ edits < MaxEdits
    /\ tree[f] # "operator"
    /\ tree' = [tree EXCEPT ![f] = "operator"]
    /\ edits' = edits + 1
    /\ UNCHANGED <<index, cur, local, remote, prs, record, stored, ctx>>

SwitchBranch(b) ==
    /\ AtRest
    /\ b # cur
    /\ GitCheckout(b)
    /\ UNCHANGED <<remote, prs, record, stored, ctx, edits>>

CommitOwnFile(f) ==
    /\ AtRest
    /\ tree[f] # Tip(local, cur)[f]
    /\ local' = [local EXCEPT ![cur] = Append(@, [Tip(local, cur) EXCEPT ![f] = tree[f]])]
    /\ index' = [index EXCEPT ![f] = tree[f]]
    /\ UNCHANGED <<tree, cur, remote, prs, record, stored, ctx, edits>>

BaseMoves(f) ==
    /\ Len(remote[Base]) <= MaxBaseMoves
    /\ remote' = [remote EXCEPT ![Base] =
                    Append(@, [Tip(remote, Base) EXCEPT ![f] = "operator"])]
    /\ UNCHANGED <<gitVars, prs, record, stored, ctx, edits>>

ClosePullRequest(n) ==
    /\ prs[n].open
    /\ prs' = [prs EXCEPT ![n].open = FALSE]
    /\ UNCHANGED <<gitVars, remote, record, stored, ctx, edits>>

-----------------------------------------------------------------------------

Create(p) ==
    \/ \E r \in Runs, option \in Branches \cup {NoBranch} : CreateDraftPr(p, r, option)
    \/ PrepareBranch(p)
    \/ CheckoutBranch(p)
    \/ RecordBranch(p)
    \/ StagePaths(p)
    \/ CommitStaged(p)
    \/ NothingStaged(p)
    \/ RecordCommit(p)
    \/ EnsureBranch(p)
    \/ Push(p)
    \/ RequestPullRequest(p)
    \/ RecordPullRequest(p)

Sync(p) ==
    \/ \E r \in Runs : SyncPacket(p, r)
    \/ RecordPublication(p)

World ==
    \/ \E r \in Runs : VerifyRun(r)
    \/ \E f \in Paths : EditFile(f)
    \/ \E b \in AllBranches : SwitchBranch(b)
    \/ \E f \in OwnPaths : CommitOwnFile(f)
    \/ \E f \in OwnPaths : BaseMoves(f)
    \/ \E n \in DOMAIN prs : ClosePullRequest(n)

Next == \/ \E p \in Procs : Create(p) \/ Sync(p) \/ Fail(p)
        \/ World

Spec == Init /\ [][Next]_vars

-----------------------------------------------------------------------------
(* Properties *)

Histories == Seq(Snapshots)
Blocks == [branch : Branches \cup {NoBranch}, pr : Nat]
Places == {"idle", "prepare", "checkout", "record_branch", "stage", "commit",
           "record_commit", "ensure", "push", "request", "record_pr",
           "record_publication"}

\* Every variable has its type.
TypeOK ==
    /\ tree \in Snapshots
    /\ index \in Snapshots
    /\ cur \in AllBranches
    /\ local \in [AllBranches -> Histories] /\ Exists(local, cur)
    /\ remote \in [AllBranches -> Histories]
    /\ prs \in Seq([run : Runs, head : Branches, tip : Histories,
                    open : BOOLEAN])
    /\ record \in [Runs -> Blocks]
    /\ \A r \in Runs : record[r].pr \in DOMAIN prs \cup {NoPullRequest}
    /\ stored \in [Runs -> Histories]
    /\ ctx \in [Procs -> [pc : Places, run : Runs \cup {"none"}, mem : Blocks,
                          branch : Branches \cup {NoBranch}, exists : BOOLEAN, pr : Nat]]
    /\ edits \in 0..MaxEdits

OnlyChangedBy(r) == Changed[r] \ UNION {Changed[q] : q \in Runs \ {r}}

\* A pull request holds the run it was requested for: no file that this run alone
\* changed is at its base content there.  What was staged, committed, checked out or pushed
\* by an earlier attempt, or left behind by another run, does not let a packet be
\* put up beside a branch without the change it describes (createDraftPr).
PullRequestCarriesTheRun ==
    \A n \in DOMAIN prs : \A f \in OnlyChangedBy(prs[n].run) :
        prs[n].tip[Len(prs[n].tip)][f] # "base"

\* However often a creation was killed and given again, a run has no two open
\* pull requests: the name of its branch is on disk before anything is pushed.
OnePullRequestPerRun ==
    \A m, n \in DOMAIN prs :
        prs[m].open /\ prs[n].open /\ prs[m].run = prs[n].run => m = n

\* A commit made for a run changes only files of that run, whatever other runs,
\* killed commands or the operator left in the index and the work tree.
CommitIsOfTheRun ==
    [][ \A p \in Procs : CommitStaged(p) =>
          \A f \in Paths \ Changed[ctx[p].run] :
              Tip(local', cur)[f] = Tip(local, cur)[f] ]_vars

\* Once a pull request is recorded for a run, that one stays recorded: neither a
\* later creation nor a packet sync replaces or forgets it.
RecordedPullRequestIsKept ==
    [][ \A r \in Runs : record[r].pr # NoPullRequest => record'[r].pr = record[r].pr ]_vars

-----------------------------------------------------------------------------
(* What the documentation says and the code does not keep *)

\* documentation.md says "PR publication can proceed after the base branch
\* advances": what ensureBranch leaves on GitHub can be pushed to.
PublicationCanProceed ==
    \A p \in Procs :
        At(p, "push") => IsPrefix(remote[ctx[p].branch], local[ctx[p].branch])

=============================================================================
