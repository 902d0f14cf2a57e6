---------------------------- MODULE GithubProofs ----------------------------
(***************************************************************************)
(* For any runs, branches, files and commands: the types of GithubSync, and *)
(* with one gdh command at a time that a recorded pull request stays        *)
(* recorded, that a run has one open pull request, that what is committed   *)
(* for a run is of that run, and that the pull request recorded for a run   *)
(* shows every change that the run alone made, whatever fails; and that     *)
(* GithubSync implements Delivery.                                          *)
(***************************************************************************)
EXTENDS DeliveryRefinement, TLAPS

Requests == [run : Runs, head : Branches, tip : Histories, open : BOOLEAN]
Memories == [pc : Places, run : Runs \cup {"none"}, mem : Blocks,
             branch : Branches \cup {NoBranch}, exists : BOOLEAN, pr : Nat]
Numbers == DOMAIN prs \cup {NoPullRequest}

\* What the handlers rely on at their places: a run, a branch unless the packet
\* is synchronized, and the number of a pull request that is there.
Placed(p) ==
    /\ ctx[p].mem.pr \in Numbers
    /\ ~At(p, "idle") => ctx[p].run \in Runs
    /\ ~At(p, "idle") /\ ~At(p, "record_publication") => ctx[p].branch \in Branches
    /\ At(p, "record_pr") => ctx[p].pr \in DOMAIN prs

TypeInv == TypeOK /\ Exists(remote, Base) /\ \A p \in Procs : Placed(p)

-----------------------------------------------------------------------------

LEMMA TypeInvInit == Init => TypeInv
  <1> SUFFICES ASSUME Init PROVE TypeInv
    OBVIOUS
  <1> DEFINE start == [f \in Paths |-> "base"]
  <1>1. start \in Snapshots
    BY DEF Snapshots, Contents
  <1>2. <<start>> \in Histories /\ <<>> \in Histories /\ <<start>> # <<>>
    BY <1>1 DEF Histories
  <1>3. prs = <<>> /\ prs \in Seq(Requests)
    BY DEF Init
  <1>4. local \in [AllBranches -> Histories] /\ Exists(local, cur) /\ cur \in AllBranches
    BY <1>2 DEF Init, AllBranches, Exists
  <1>5. remote \in [AllBranches -> Histories] /\ stored \in [Runs -> Histories]
    BY <1>2 DEF Init
  <1>6. /\ record \in [Runs -> Blocks]
        /\ \A r \in Runs : record[r].pr \in Numbers
    BY DEF Init, NoRecord, Blocks, NoBranch, NoPullRequest, Numbers
  <1>7. NoRecord \in Blocks /\ Idle \in Memories
    BY DEF Idle, NoRecord, Blocks, Memories, Places, NoBranch, NoPullRequest
  <1>8. ctx \in [Procs -> Memories]
    BY <1>7 DEF Init
  <1>9. \A p \in Procs : Placed(p)
    BY DEF Init, Placed, At, Idle, NoRecord, Numbers, NoPullRequest
  <1>10. tree \in Snapshots /\ index \in Snapshots /\ edits \in 0..MaxEdits
    BY <1>1, GithubAssumption DEF Init
  <1>11. TypeOK
    BY <1>3, <1>4, <1>5, <1>6, <1>8, <1>10 DEF TypeOK, Requests, Memories, Numbers
  <1>12. Exists(remote, Base)
    BY <1>2 DEF Init, AllBranches, Exists
  <1> QED
    BY <1>9, <1>11, <1>12 DEF TypeInv

\* The commit a branch ends in.
LEMMA TipIsSnapshot ==
    ASSUME NEW branches \in [AllBranches -> Histories], NEW b \in AllBranches,
           Exists(branches, b)
    PROVE  Tip(branches, b) \in Snapshots
  BY DEF Exists, Tip, Histories

\* What git and the operator do to the work tree, and GitHub's users to the base.
LEMMA CheckoutTypes ==
    ASSUME TypeOK, NEW b \in AllBranches, GitCheckout(b) \/ GitCreateBranch(b)
    PROVE  /\ tree' \in Snapshots /\ index' \in Snapshots /\ cur' \in AllBranches
           /\ local' \in [AllBranches -> Histories] /\ Exists(local, cur)'
  <1>1. CASE GitCheckout(b)
    <2>1. Tip(local, b) \in Snapshots
      BY <1>1, TipIsSnapshot DEF GitCheckout, TypeOK
    <2> QED
      BY <1>1, <2>1 DEF GitCheckout, TypeOK, Snapshots, Exists
  <1>2. CASE GitCreateBranch(b)
    BY <1>2 DEF GitCreateBranch, TypeOK, Exists
  <1> QED
    BY <1>1, <1>2

\* A commit makes a history longer by the snapshot it ends with.
LEMMA AppendedHistory ==
    ASSUME NEW history \in Histories, NEW snapshot \in Snapshots
    PROVE  LET h == Append(history, snapshot)
           IN  h \in Histories /\ h # <<>> /\ h[Len(h)] = snapshot
  <1> DEFINE h == Append(history, snapshot)
  <1>1. history \in Seq(Snapshots)
    BY DEF Histories
  <1>2. h \in Seq(Snapshots) /\ Len(h) = Len(history) + 1
    BY <1>1
  <1>3. h[Len(h)] = snapshot
    BY <1>1
  <1>4. Len(history) \in Nat /\ Len(<<>>) = 0
    BY <1>1
  <1>5. h # <<>>
    BY <1>2, <1>4
  <1> QED
    BY <1>2, <1>3, <1>5 DEF Histories

LEMMA CommitTypes ==
    ASSUME TypeOK, NEW snapshot \in Snapshots,
           local' = [local EXCEPT ![cur] = Append(@, snapshot)], cur' = cur
    PROVE  local' \in [AllBranches -> Histories] /\ Exists(local, cur)'
  <1>1. local[cur] \in Histories
    BY DEF TypeOK
  <1>2. Append(local[cur], snapshot) \in Histories /\ Append(local[cur], snapshot) # <<>>
    BY <1>1, AppendedHistory
  <1> QED
    BY <1>2 DEF TypeOK, Exists

-----------------------------------------------------------------------------
(* Steps of a command: what becomes of its memory *)

\* What the memory of a command may be, given the pull requests there are.
MemoryOK(m, numbers) ==
    /\ m \in Memories
    /\ m.mem.pr \in numbers \cup {NoPullRequest}
    /\ m.pc # "idle" => m.run \in Runs
    /\ m.pc # "idle" /\ m.pc # "record_publication" => m.branch \in Branches
    /\ m.pc = "record_pr" => m.pr \in numbers

\* A command that ends forgets everything.
LEMMA IdleIsOK == \A numbers : MemoryOK(Idle, numbers)
  BY DEF Idle, NoRecord, Blocks, Memories, Places, NoBranch, NoPullRequest, MemoryOK

\* One command's memory changes, and pull requests are never taken away.
LEMMA MemoryTypes ==
    ASSUME TypeInv, NEW p \in Procs, NEW m, MemoryOK(m, DOMAIN prs'),
           ctx' = [ctx EXCEPT ![p] = m], DOMAIN prs \subseteq DOMAIN prs'
    PROVE  ctx' \in [Procs -> Memories] /\ \A q \in Procs : Placed(q)'
  <1>1. ctx' \in [Procs -> Memories]
    BY DEF TypeInv, TypeOK, Memories, MemoryOK
  <1>2. ASSUME NEW q \in Procs PROVE Placed(q)'
    <2>1. CASE q = p
      BY <2>1 DEF TypeInv, TypeOK, Memories, MemoryOK, Placed, Numbers, At
    <2>2. CASE q # p
      BY <2>2 DEF TypeInv, TypeOK, Placed, Numbers, At
    <2> QED
      BY <2>1, <2>2
  <1> QED
    BY <1>1, <1>2

\* A command goes on to its next place, and needs nothing new there.
LEMMA GotoTypes ==
    ASSUME TypeInv, NEW p \in Procs, ~At(p, "idle"), ~At(p, "record_publication"),
           NEW pc \in Places, pc # "record_pr", Goto(p, pc), UNCHANGED prs
    PROVE  ctx' \in [Procs -> Memories] /\ \A q \in Procs : Placed(q)'
  <1> DEFINE m == [ctx[p] EXCEPT !.pc = pc]
  <1>1. MemoryOK(m, DOMAIN prs')
    BY DEF TypeInv, TypeOK, Placed, Numbers, At, MemoryOK, Memories
  <1>2. ctx' = [ctx EXCEPT ![p] = m]
    BY DEF Goto, TypeInv, TypeOK
  <1> HIDE DEF m
  <1> QED
    BY <1>1, <1>2, MemoryTypes

LEMMA EndTypes ==
    ASSUME TypeInv, NEW p \in Procs, End(p), UNCHANGED prs
    PROVE  ctx' \in [Procs -> Memories] /\ \A q \in Procs : Placed(q)'
  BY IdleIsOK, MemoryTypes DEF End

\* run.json is written with a block whose pull request is there.
LEMMA PersistTypes ==
    ASSUME TypeInv, NEW p \in Procs, ~At(p, "idle"), UNCHANGED prs,
           NEW block \in Blocks, block.pr \in Numbers, Persist(p, block)
    PROVE  /\ record' \in [Runs -> Blocks]
           /\ \A r \in Runs : record'[r].pr \in (DOMAIN prs \cup {NoPullRequest})'
  BY DEF TypeInv, TypeOK, Placed, Persist, Numbers

\* What a command leaves alone keeps its type.
LEMMA CommandTypes ==
    ASSUME TypeInv, UNCHANGED <<tree, index, stored, edits>>,
           cur' \in AllBranches, local' \in [AllBranches -> Histories], Exists(local, cur)',
           remote' \in [AllBranches -> Histories], Exists(remote, Base)',
           UNCHANGED prs, record' \in [Runs -> Blocks],
           \A r \in Runs : record'[r].pr \in (DOMAIN prs \cup {NoPullRequest})',
           ctx' \in [Procs -> Memories], \A q \in Procs : Placed(q)'
    PROVE  TypeInv'
  BY DEF TypeInv, TypeOK, Memories

-----------------------------------------------------------------------------
(* Every step keeps the types *)

\* The branch a command works on, the base branch and the one checked out are
\* branches.
LEMMA CreateTypes ==
    ASSUME TypeInv, NEW p \in Procs, Create(p)
    PROVE  TypeInv'
  <1> USE DEF gitVars
  <1>1. ASSUME NEW r \in Runs, NEW option \in Branches \cup {NoBranch},
               CreateDraftPr(p, r, option)
        PROVE  TypeInv'
    <2> DEFINE m == [Idle EXCEPT !.pc = "prepare", !.run = r, !.mem = record[r],
                                 !.branch = BranchName(r, option)]
    <2>1. record[r] \in Blocks /\ record[r].pr \in Numbers
      BY DEF TypeInv, TypeOK, Numbers
    <2>2. BranchName(r, option) \in Branches
      BY <2>1, GithubAssumption DEF BranchName, Blocks
    <2>3. MemoryOK(m, DOMAIN prs')
      BY <1>1, <2>1, <2>2
         DEF CreateDraftPr, MemoryOK, Memories, Places, Idle, Numbers, NoPullRequest
    <2>4. ctx' = [ctx EXCEPT ![p] = m]
      BY <1>1 DEF CreateDraftPr
    <2> HIDE DEF m
    <2>5. ctx' \in [Procs -> Memories] /\ \A q \in Procs : Placed(q)'
      BY <1>1, <2>3, <2>4, MemoryTypes DEF CreateDraftPr
    <2> QED
      BY <1>1, <2>5, CommandTypes DEF CreateDraftPr, TypeInv, TypeOK, Exists
  <1>2. ASSUME PrepareBranch(p) PROVE TypeInv'
    <2> DEFINE b == ctx[p].branch
               e == cur # b /\ Exists(local, b)
               m == [ctx[p] EXCEPT !.pc = IF cur = b THEN "record_branch" ELSE "checkout",
                                   !.exists = e]
    <2>1. e \in BOOLEAN
      OBVIOUS
    <2>2. ctx' = [ctx EXCEPT ![p] = m]
      BY <1>2 DEF PrepareBranch, TypeInv, TypeOK
    <2> HIDE DEF e
    <2>3. MemoryOK(m, DOMAIN prs')
      BY <1>2, <2>1
         DEF PrepareBranch, TypeInv, TypeOK, Placed, Numbers, At, MemoryOK, Memories, Places
    <2> HIDE DEF m
    <2>4. ctx' \in [Procs -> Memories] /\ \A q \in Procs : Placed(q)'
      BY <1>2, <2>2, <2>3, MemoryTypes DEF PrepareBranch
    <2> QED
      BY <1>2, <2>4, CommandTypes DEF PrepareBranch, TypeInv, TypeOK, Exists
  <1>3. ASSUME CheckoutBranch(p) PROVE TypeInv'
    <2> DEFINE m == [ctx[p] EXCEPT !.pc = "record_branch", !.exists = FALSE]
    <2>1. ctx' = [ctx EXCEPT ![p] = m]
      BY <1>3 DEF CheckoutBranch, TypeInv, TypeOK
    <2>2. MemoryOK(m, DOMAIN prs') /\ ctx[p].branch \in Branches
      BY <1>3
         DEF CheckoutBranch, TypeInv, TypeOK, Placed, Numbers, At, MemoryOK, Memories, Places
    <2> HIDE DEF m
    <2>3. ctx' \in [Procs -> Memories] /\ \A q \in Procs : Placed(q)'
      BY <1>3, <2>1, <2>2, MemoryTypes DEF CheckoutBranch
    <2>4. /\ tree' \in Snapshots /\ index' \in Snapshots /\ cur' \in AllBranches
          /\ local' \in [AllBranches -> Histories] /\ Exists(local, cur)'
      BY <1>3, <2>2, CheckoutTypes DEF CheckoutBranch, AllBranches, TypeInv
    <2> QED
      BY <1>3, <2>3, <2>4 DEF CheckoutBranch, TypeInv, TypeOK, Memories
  <1>4. ASSUME RecordBranch(p) PROVE TypeInv'
    <2> DEFINE block == [ctx[p].mem EXCEPT !.branch = ctx[p].branch]
               m == [ctx[p] EXCEPT !.pc = "stage", !.mem = block]
    <2>1. ctx' = [ctx EXCEPT ![p] = m]
      BY <1>4 DEF RecordBranch, TypeInv, TypeOK
    <2>2. block \in Blocks /\ block.pr \in Numbers
      BY <1>4 DEF RecordBranch, TypeInv, TypeOK, Placed, Numbers, At, Memories, Blocks
    <2>3. Persist(p, block) /\ ~At(p, "idle")
      BY <1>4 DEF RecordBranch, At
    <2> HIDE DEF block
    <2>4. MemoryOK(m, DOMAIN prs')
      BY <1>4, <2>2
         DEF RecordBranch, TypeInv, TypeOK, Placed, Numbers, At, MemoryOK, Memories, Places
    <2> HIDE DEF m
    <2>5. ctx' \in [Procs -> Memories] /\ \A q \in Procs : Placed(q)'
      BY <1>4, <2>1, <2>4, MemoryTypes DEF RecordBranch
    <2>6. /\ record' \in [Runs -> Blocks]
          /\ \A r \in Runs : record'[r].pr \in (DOMAIN prs \cup {NoPullRequest})'
      BY <1>4, <2>2, <2>3, PersistTypes DEF RecordBranch
    <2> QED
      BY <1>4, <2>5, <2>6, CommandTypes DEF RecordBranch, TypeInv, TypeOK, Exists
  <1>5. ASSUME StagePaths(p) PROVE TypeInv'
    <2>1. index' \in Snapshots
      BY <1>5 DEF StagePaths, TypeInv, TypeOK, Snapshots
    <2>2. ctx' \in [Procs -> Memories] /\ \A q \in Procs : Placed(q)'
      BY <1>5, GotoTypes DEF StagePaths, At, Places
    <2> QED
      BY <1>5, <2>1, <2>2 DEF StagePaths, TypeInv, TypeOK, Memories, Exists
  <1>6. ASSUME CommitStaged(p) PROVE TypeInv'
    <2>1. local' \in [AllBranches -> Histories] /\ Exists(local, cur)'
      BY <1>6, CommitTypes DEF CommitStaged, TypeInv, TypeOK
    <2>2. ctx' \in [Procs -> Memories] /\ \A q \in Procs : Placed(q)'
      BY <1>6, GotoTypes DEF CommitStaged, At, Places
    <2> QED
      BY <1>6, <2>1, <2>2, CommandTypes DEF CommitStaged, TypeInv, TypeOK
  <1>7. ASSUME NothingStaged(p) PROVE TypeInv'
    <2>1. ctx' \in [Procs -> Memories] /\ \A q \in Procs : Placed(q)'
      BY <1>7, GotoTypes DEF NothingStaged, At, Places
    <2> QED
      BY <1>7, <2>1, CommandTypes DEF NothingStaged, TypeInv, TypeOK, Exists
  <1>8. ASSUME RecordCommit(p) PROVE TypeInv'
    <2>1. ctx[p].mem \in Blocks /\ ctx[p].mem.pr \in Numbers
      BY DEF TypeInv, TypeOK, Placed
    <2>2. /\ record' \in [Runs -> Blocks]
          /\ \A r \in Runs : record'[r].pr \in (DOMAIN prs \cup {NoPullRequest})'
      BY <1>8, <2>1, PersistTypes DEF RecordCommit, At
    <2>3. ctx' \in [Procs -> Memories] /\ \A q \in Procs : Placed(q)'
      BY <1>8, GotoTypes DEF RecordCommit, At, Places
    <2> QED
      BY <1>8, <2>2, <2>3, CommandTypes DEF RecordCommit, TypeInv, TypeOK, Exists
  <1>9. ASSUME EnsureBranch(p) \/ Push(p) PROVE TypeInv'
    <2>1. ctx[p].branch \in AllBranches /\ Base \in AllBranches
      BY <1>9 DEF EnsureBranch, Push, TypeInv, Placed, At, AllBranches
    <2>2. remote' \in [AllBranches -> Histories] /\ Exists(remote, Base)'
      BY <1>9, <2>1, GithubAssumption
         DEF EnsureBranch, Push, TypeInv, TypeOK, Placed, At, Exists
    <2>3. ctx' \in [Procs -> Memories] /\ \A q \in Procs : Placed(q)'
      BY <1>9, GotoTypes DEF EnsureBranch, Push, At, Places
    <2> QED
      BY <1>9, <2>2, <2>3, CommandTypes DEF EnsureBranch, Push, TypeInv, TypeOK, Exists
  <1>10. ASSUME RequestPullRequest(p) PROVE TypeInv'
    <2> DEFINE request == [run |-> ctx[p].run, head |-> ctx[p].branch,
                           tip |-> remote[ctx[p].branch], open |-> TRUE]
               m == [ctx[p] EXCEPT !.pc = "record_pr", !.pr = Len(prs')]
    <2>1. ctx[p].branch \in Branches /\ ctx[p].branch \in AllBranches /\ ctx[p].run \in Runs
      BY <1>10 DEF RequestPullRequest, TypeInv, Placed, At, AllBranches
    <2>2. remote[ctx[p].branch] \in Histories
      BY <2>1 DEF TypeInv, TypeOK
    <2>3. request \in Requests
      BY <2>1, <2>2 DEF Requests
    <2>4. prs \in Seq(Requests) /\ prs' = Append(prs, request)
      BY <1>10 DEF RequestPullRequest, TypeInv, TypeOK, Requests
    <2> HIDE DEF request
    <2>5. /\ prs' \in Seq(Requests)
          /\ DOMAIN prs \subseteq DOMAIN prs'
          /\ Len(prs') \in Nat /\ Len(prs') \in DOMAIN prs'
      BY <2>3, <2>4
    <2>6. ctx' = [ctx EXCEPT ![p] = m]
      BY <1>10 DEF RequestPullRequest, TypeInv, TypeOK
    <2>7. MemoryOK(m, DOMAIN prs')
      BY ZenonT(30), <2>1, <2>5
         DEF TypeInv, TypeOK, Placed, Numbers, MemoryOK, Memories, Places
    <2> HIDE DEF m
    <2>8. ctx' \in [Procs -> Memories] /\ \A q \in Procs : Placed(q)'
      BY <2>5, <2>6, <2>7, MemoryTypes
    <2> QED
      BY <1>10, <2>5, <2>8 DEF RequestPullRequest, TypeInv, TypeOK, Requests, Memories, Exists
  <1>11. ASSUME RecordPullRequest(p) PROVE TypeInv'
    <2> DEFINE block == [ctx[p].mem EXCEPT !.pr = ctx[p].pr]
    <2>1. block \in Blocks /\ block.pr \in Numbers
      BY ZenonT(30), <1>11
         DEF RecordPullRequest, TypeInv, TypeOK, Placed, Numbers, At, Blocks
    <2>2. Persist(p, block) /\ ~At(p, "idle")
      BY <1>11 DEF RecordPullRequest, At
    <2> HIDE DEF block
    <2>3. /\ record' \in [Runs -> Blocks]
          /\ \A r \in Runs : record'[r].pr \in (DOMAIN prs \cup {NoPullRequest})'
      BY <1>11, <2>1, <2>2, PersistTypes DEF RecordPullRequest
    <2>4. ctx' \in [Procs -> Memories] /\ \A q \in Procs : Placed(q)'
      BY <1>11, EndTypes DEF RecordPullRequest
    <2> QED
      BY <1>11, <2>3, <2>4, CommandTypes DEF RecordPullRequest, TypeInv, TypeOK, Exists
  <1> QED
    BY <1>1, <1>2, <1>3, <1>4, <1>5, <1>6, <1>7, <1>8, <1>9, <1>10, <1>11 DEF Create

LEMMA SyncTypes ==
    ASSUME TypeInv, NEW p \in Procs, Sync(p) \/ Fail(p)
    PROVE  TypeInv'
  <1> USE DEF gitVars
  <1>1. ASSUME NEW r \in Runs, SyncPacket(p, r) PROVE TypeInv'
    <2> DEFINE m == [Idle EXCEPT !.pc = "record_publication", !.run = r, !.mem = record[r]]
    <2>1. record[r] \in Blocks /\ record[r].pr \in Numbers
      BY DEF TypeInv, TypeOK, Numbers
    <2>2. MemoryOK(m, DOMAIN prs')
      BY <1>1, <2>1
         DEF SyncPacket, MemoryOK, Memories, Places, Idle, Numbers, NoPullRequest, NoBranch
    <2>3. ctx' = [ctx EXCEPT ![p] = m]
      BY <1>1 DEF SyncPacket
    <2> HIDE DEF m
    <2>4. ctx' \in [Procs -> Memories] /\ \A q \in Procs : Placed(q)'
      BY <1>1, <2>2, <2>3, MemoryTypes DEF SyncPacket
    <2> QED
      BY <1>1, <2>4, CommandTypes DEF SyncPacket, TypeInv, TypeOK, Exists
  <1>2. ASSUME RecordPublication(p) PROVE TypeInv'
    <2>1. ctx[p].mem \in Blocks /\ ctx[p].mem.pr \in Numbers
      BY DEF TypeInv, TypeOK, Placed
    <2>2. /\ record' \in [Runs -> Blocks]
          /\ \A r \in Runs : record'[r].pr \in (DOMAIN prs \cup {NoPullRequest})'
      BY <1>2, <2>1, PersistTypes DEF RecordPublication, At
    <2>3. ctx' \in [Procs -> Memories] /\ \A q \in Procs : Placed(q)'
      BY <1>2, EndTypes DEF RecordPublication
    <2> QED
      BY <1>2, <2>2, <2>3, CommandTypes DEF RecordPublication, TypeInv, TypeOK, Exists
  <1>3. ASSUME Fail(p) PROVE TypeInv'
    <2>1. ctx' \in [Procs -> Memories] /\ \A q \in Procs : Placed(q)'
      BY <1>3, EndTypes DEF Fail
    <2> QED
      BY <1>3, <2>1, CommandTypes DEF Fail, TypeInv, TypeOK, Exists
  <1> QED
    BY <1>1, <1>2, <1>3 DEF Sync

\* The operator and GitHub's users touch no record and no command.
LEMMA WorldTypes ==
    ASSUME TypeInv, World
    PROVE  TypeInv'
  <1> USE DEF gitVars
  <1>0. UNCHANGED <<record, ctx>>
    BY DEF World, VerifyRun, EditFile, SwitchBranch, CommitOwnFile, BaseMoves,
           ClosePullRequest
  <1>1. ASSUME NEW r \in Runs, VerifyRun(r) PROVE TypeInv'
    <2>1. tree' \in Snapshots
      BY <1>1 DEF VerifyRun, TypeInv, TypeOK, Snapshots, Contents
    <2>2. stored' \in [Runs -> Histories]
      BY <1>1 DEF VerifyRun, TypeInv, TypeOK
    <2> QED
      BY <1>1, <2>1, <2>2
         DEF VerifyRun, TypeInv, TypeOK, Memories, Placed, Numbers, At, Exists
  <1>2. ASSUME NEW f \in Paths, EditFile(f) PROVE TypeInv'
    <2>1. tree' \in Snapshots /\ edits' \in 0..MaxEdits
      BY <1>2, GithubAssumption DEF EditFile, TypeInv, TypeOK, Snapshots, Contents
    <2> QED
      BY <1>2, <2>1 DEF EditFile, TypeInv, TypeOK, Memories, Placed, Numbers, At, Exists
  <1>3. ASSUME NEW b \in AllBranches, SwitchBranch(b) PROVE TypeInv'
    <2>1. /\ tree' \in Snapshots /\ index' \in Snapshots /\ cur' \in AllBranches
          /\ local' \in [AllBranches -> Histories] /\ Exists(local, cur)'
      BY <1>3, CheckoutTypes DEF SwitchBranch, TypeInv
    <2> QED
      BY <1>3, <2>1 DEF SwitchBranch, TypeInv, TypeOK, Memories, Placed, Numbers, At
  <1>4. ASSUME NEW f \in OwnPaths, CommitOwnFile(f) PROVE TypeInv'
    <2> DEFINE commit == [Tip(local, cur) EXCEPT ![f] = tree[f]]
    <2>1. Tip(local, cur) \in Snapshots /\ tree[f] \in Contents /\ f \in Paths
      BY TipIsSnapshot DEF TypeInv, TypeOK, Snapshots, OwnPaths
    <2>2. commit \in Snapshots /\ index' \in Snapshots
      BY <1>4, <2>1 DEF CommitOwnFile, TypeInv, TypeOK, Snapshots
    <2>3. local' \in [AllBranches -> Histories] /\ Exists(local, cur)'
      BY <1>4, <2>2, CommitTypes DEF CommitOwnFile, TypeInv
    <2> QED
      BY <1>4, <2>2, <2>3 DEF CommitOwnFile, TypeInv, TypeOK, Memories, Placed, Numbers, At
  <1>5. ASSUME NEW f \in OwnPaths, BaseMoves(f) PROVE TypeInv'
    <2> DEFINE commit == [Tip(remote, Base) EXCEPT ![f] = "operator"]
    <2>1. remote[Base] \in Histories /\ Tip(remote, Base) \in Snapshots
      BY TipIsSnapshot DEF TypeInv, TypeOK, AllBranches
    <2>2. commit \in Snapshots
      BY <2>1 DEF Snapshots, Contents, OwnPaths
    <2> HIDE DEF commit
    <2>3. Append(remote[Base], commit) \in Histories /\ Append(remote[Base], commit) # <<>>
      BY <2>1, <2>2, AppendedHistory
    <2>4. remote' = [remote EXCEPT ![Base] = Append(remote[Base], commit)]
      BY <1>5 DEF BaseMoves, commit
    <2>5. remote' \in [AllBranches -> Histories] /\ Exists(remote, Base)'
      BY <2>3, <2>4 DEF TypeInv, TypeOK, AllBranches, Exists
    <2> QED
      BY <1>5, <2>5 DEF BaseMoves, TypeInv, TypeOK, Memories, Placed, Numbers, At, Exists
  <1>6. ASSUME NEW n \in DOMAIN prs, ClosePullRequest(n) PROVE TypeInv'
    <2>1. prs \in Seq(Requests)
      BY DEF TypeInv, TypeOK, Requests
    <2>2. prs \in [1..Len(prs) -> Requests] /\ Len(prs) \in Nat
      BY <2>1
    <2>3. prs' \in [1..Len(prs) -> Requests]
      BY <1>6, <2>2 DEF ClosePullRequest, Requests
    <2>4. prs' \in Seq(Requests) /\ DOMAIN prs' = DOMAIN prs
      BY <2>2, <2>3
    <2> QED
      BY <1>6, <2>4
         DEF ClosePullRequest, TypeInv, TypeOK, Requests, Memories, Placed, Numbers, At, Exists
  <1> QED
    BY <1>1, <1>2, <1>3, <1>4, <1>5, <1>6 DEF World

LEMMA TypeInvStep == TypeInv /\ [Next]_vars => TypeInv'
  <1>1. ASSUME TypeInv, UNCHANGED vars PROVE TypeInv'
    BY <1>1 DEF TypeInv, TypeOK, Memories, Placed, Numbers, At, Exists, vars, gitVars
  <1> QED
    BY <1>1, CreateTypes, SyncTypes, WorldTypes DEF Next

\* Whatever the runs, branches and files, and however many commands are at work:
\* every variable has its type, and every recorded pull request is there.
THEOREM TypeCorrect == Spec => []TypeOK
  <1>1. TypeInv /\ [Next]_vars => TypeInv'
    BY TypeInvStep
  <1>2. TypeInv => TypeOK
    BY DEF TypeInv
  <1> QED
    BY <1>1, <1>2, TypeInvInit, PTL DEF Spec

-----------------------------------------------------------------------------
(* With one command at a time a recorded pull request stays recorded *)

OneCommand == \A p, q \in Procs : p = q

\* A command at work holds what is on disk about its run; a creation holds that
\* no pull request is recorded.
HoldsTheRecord(p) ==
    ~At(p, "idle") =>
        /\ ctx[p].mem = record[ctx[p].run]
        /\ ~At(p, "record_publication") => ctx[p].mem.pr = NoPullRequest

RecordInv == TypeInv /\ \A p \in Procs : HoldsTheRecord(p)

Kept == \A r \in Runs : record[r].pr # NoPullRequest => record'[r].pr = record[r].pr

\* What RecordInv adds to the types, after a step.
Held == \A p \in Procs : HoldsTheRecord(p)'

LEMMA RecordInvInit == Init => RecordInv
  BY TypeInvInit DEF Init, RecordInv, HoldsTheRecord, At, Idle

LEMMA CreateKeeps ==
    ASSUME OneCommand, RecordInv, NEW p \in Procs, Create(p)
    PROVE  Held /\ Kept
  <1> USE DEF HoldsTheRecord, At, Kept, Held, Memories
  <1>0. \A q \in Procs : q = p
    BY DEF OneCommand
  <1>1. /\ record \in [Runs -> Blocks] /\ ctx \in [Procs -> Memories]
        /\ ~At(p, "idle") => ctx[p].run \in Runs
        /\ HoldsTheRecord(p)
    BY DEF RecordInv, TypeInv, TypeOK, Placed
  <1>2. ASSUME NEW r \in Runs, NEW option \in Branches \cup {NoBranch},
               CreateDraftPr(p, r, option)
        PROVE  Held /\ Kept
    BY <1>0, <1>1, <1>2 DEF CreateDraftPr, EligibleForDraftPr, Idle
  <1>3. ASSUME PrepareBranch(p) \/ CheckoutBranch(p) \/ StagePaths(p) \/ CommitStaged(p)
               \/ NothingStaged(p) \/ EnsureBranch(p) \/ Push(p) \/ RequestPullRequest(p)
        PROVE  Held /\ Kept
    <2>1. record' = record
      BY <1>3 DEF PrepareBranch, CheckoutBranch, StagePaths, CommitStaged, NothingStaged,
                  EnsureBranch, Push, RequestPullRequest
    <2>2. /\ ctx[p].pc \notin {"idle", "record_publication"}
          /\ ctx'[p].run = ctx[p].run /\ ctx'[p].mem = ctx[p].mem
      BY <1>1, <1>3
         DEF PrepareBranch, CheckoutBranch, StagePaths, CommitStaged, NothingStaged,
             EnsureBranch, Push, RequestPullRequest, Goto
    <2> QED
      BY <1>0, <1>1, <2>1, <2>2
  <1>4. ASSUME RecordBranch(p) PROVE Held /\ Kept
    BY <1>0, <1>1, <1>4 DEF RecordBranch, Persist, Blocks
  <1>5. ASSUME RecordCommit(p) PROVE Held /\ Kept
    BY <1>0, <1>1, <1>5 DEF RecordCommit, Persist, Goto
  <1>6. ASSUME RecordPullRequest(p) PROVE Held /\ Kept
    BY <1>0, <1>1, <1>6 DEF RecordPullRequest, Persist, End, Idle, Blocks
  <1> QED
    BY <1>2, <1>3, <1>4, <1>5, <1>6 DEF Create

LEMMA SyncKeeps ==
    ASSUME OneCommand, RecordInv, NEW p \in Procs, Sync(p) \/ Fail(p)
    PROVE  Held /\ Kept
  <1> USE DEF HoldsTheRecord, At, Kept, Held, Memories
  <1>0. \A q \in Procs : q = p
    BY DEF OneCommand
  <1>1. /\ record \in [Runs -> Blocks] /\ ctx \in [Procs -> Memories]
        /\ ~At(p, "idle") => ctx[p].run \in Runs
        /\ HoldsTheRecord(p)
    BY DEF RecordInv, TypeInv, TypeOK, Placed
  <1>2. ASSUME NEW r \in Runs, SyncPacket(p, r) PROVE Held /\ Kept
    BY <1>0, <1>1, <1>2 DEF SyncPacket, Idle
  <1>3. ASSUME RecordPublication(p) \/ Fail(p) PROVE Held /\ Kept
    BY <1>0, <1>1, <1>3 DEF RecordPublication, Fail, Persist, End, Idle
  <1> QED
    BY <1>2, <1>3 DEF Sync

LEMMA WorldKeeps ==
    ASSUME RecordInv, World \/ UNCHANGED vars
    PROVE  Held /\ Kept
  <1>1. UNCHANGED <<record, ctx>>
    BY DEF World, vars, VerifyRun, EditFile, SwitchBranch, CommitOwnFile, BaseMoves,
           ClosePullRequest
  <1> QED
    BY <1>1 DEF RecordInv, HoldsTheRecord, At, Kept, Held

\* Once recorded, a pull request is neither replaced nor forgotten, whatever fails:
\* every write of run.json comes from a memory that holds the number on disk.
THEOREM RecordedIsKept == OneCommand => (Spec => RecordedPullRequestIsKept)
  <1> SUFFICES ASSUME OneCommand PROVE Spec => RecordedPullRequestIsKept
    OBVIOUS
  <1>1. RecordInv /\ [Next]_vars => Held /\ Kept
    BY CreateKeeps, SyncKeeps, WorldKeeps DEF Next
  <1>2. RecordInv /\ [Next]_vars => RecordInv' /\ [Kept]_vars
    BY <1>1, TypeInvStep DEF RecordInv, Held
  <1> QED
    BY <1>2, RecordInvInit, PTL DEF Spec, RecordedPullRequestIsKept, Kept

-----------------------------------------------------------------------------
(* With one command at a time a run has one open pull request *)

\* From the write of the branch on, a creation works on the branch on disk; before
\* it, it works on that one or none is on disk.
HoldsTheBranch(p) ==
    ~At(p, "idle") /\ ~At(p, "record_publication") =>
        \/ ctx[p].branch = record[ctx[p].run].branch
        \/ /\ ctx[p].pc \in {"prepare", "checkout", "record_branch"}
           /\ record[ctx[p].run].branch = NoBranch

\* The head of a run's pull request is the branch recorded for the run, and GitHub
\* has one open pull request for a head.
HeadsAreRecorded == \A n \in DOMAIN prs : prs[n].head = record[prs[n].run].branch
HeadsAreTaken ==
    \A m, n \in DOMAIN prs :
        prs[m].open /\ prs[n].open /\ prs[m].head = prs[n].head => m = n

BranchFacts == (\A p \in Procs : HoldsTheBranch(p)) /\ HeadsAreRecorded /\ HeadsAreTaken

BranchInv == RecordInv /\ BranchFacts

LEMMA BranchInvInit == Init => BranchInv
  BY RecordInvInit DEF Init, BranchInv, BranchFacts, HoldsTheBranch, HeadsAreRecorded,
                       HeadsAreTaken, At, Idle

LEMMA RequestTypes ==
    ASSUME TypeInv
    PROVE  /\ prs \in [1..Len(prs) -> Requests]
           /\ \A n \in DOMAIN prs : prs[n].run \in Runs /\ prs[n].head \in Branches
  <1>1. prs \in Seq(Requests)
    BY DEF TypeInv, TypeOK, Requests
  <1>2. prs \in [1..Len(prs) -> Requests]
    BY <1>1
  <1> QED
    BY <1>2 DEF Requests

\* Steps that write no branch and request nothing.
LEMMA SameBranches ==
    ASSUME BranchInv, prs' = prs,
           \A r \in Runs : record'[r].branch = record[r].branch
    PROVE  HeadsAreRecorded' /\ HeadsAreTaken'
  BY RequestTypes DEF BranchInv, BranchFacts, HeadsAreRecorded, HeadsAreTaken, RecordInv

LEMMA CreateKeepsBranch ==
    ASSUME OneCommand, BranchInv, NEW p \in Procs, Create(p)
    PROVE  BranchFacts'
  <1> USE DEF HoldsTheBranch, HoldsTheRecord, At, Memories, BranchFacts
  <1>0. \A q \in Procs : q = p
    BY DEF OneCommand
  <1>1. /\ record \in [Runs -> Blocks] /\ ctx \in [Procs -> Memories]
        /\ prs \in Seq(Requests)
        /\ ~At(p, "idle") => ctx[p].run \in Runs
        /\ ~At(p, "idle") /\ ~At(p, "record_publication") => ctx[p].branch \in Branches
        /\ HoldsTheRecord(p) /\ HoldsTheBranch(p)
    BY DEF BranchInv, RecordInv, TypeInv, TypeOK, Placed, Requests
  <1>2. ASSUME NEW r \in Runs, NEW option \in Branches \cup {NoBranch},
               CreateDraftPr(p, r, option)
        PROVE  BranchFacts'
    <2>1. prs' = prs /\ record' = record
      BY <1>2 DEF CreateDraftPr
    <2>2. record[r].branch # NoBranch => BranchName(r, option) = record[r].branch
      BY <1>2 DEF CreateDraftPr, BranchName
    <2> QED
      BY <1>0, <1>1, <1>2, <2>1, <2>2, SameBranches DEF CreateDraftPr, Idle
  <1>3. ASSUME PrepareBranch(p) \/ CheckoutBranch(p) PROVE BranchFacts'
    <2>1. prs' = prs /\ record' = record
      BY <1>3 DEF PrepareBranch, CheckoutBranch
    <2>2. /\ ctx[p].pc \in {"prepare", "checkout"}
          /\ ctx'[p].pc \in {"checkout", "record_branch"}
          /\ ctx'[p].run = ctx[p].run /\ ctx'[p].branch = ctx[p].branch
      BY <1>1, <1>3 DEF PrepareBranch, CheckoutBranch
    <2> QED
      BY <1>0, <1>1, <2>1, <2>2, SameBranches
  <1>4. ASSUME RecordBranch(p) PROVE BranchFacts'
    <2>1. \A r \in Runs : r = ctx[p].run \/ record'[r] = record[r]
      BY <1>1, <1>4 DEF RecordBranch, Persist
    <2>2. /\ record'[ctx[p].run].branch = ctx[p].branch
          /\ ctx'[p].run = ctx[p].run /\ ctx'[p].branch = ctx[p].branch
      BY <1>1, <1>4 DEF RecordBranch, Persist, Blocks
    <2>3. ASSUME NEW n \in DOMAIN prs
          PROVE  prs[n].head = record'[prs[n].run].branch
      <3>1. prs[n].head \in Branches /\ prs[n].run \in Runs
        BY RequestTypes DEF BranchInv, RecordInv
      <3>2. prs[n].head = record[prs[n].run].branch
        BY DEF BranchInv, HeadsAreRecorded
      <3>3. prs[n].run = ctx[p].run => ctx[p].branch = record[ctx[p].run].branch
        BY <1>1, <1>4, <3>1, <3>2, GithubAssumption DEF RecordBranch, NoBranch
      <3> QED
        BY <2>1, <2>2, <3>1, <3>2, <3>3
    <2>4. prs' = prs
      BY <1>4 DEF RecordBranch
    <2>5. HeadsAreRecorded' /\ HeadsAreTaken'
      BY <2>3, <2>4 DEF BranchInv, HeadsAreRecorded, HeadsAreTaken
    <2> QED
      BY <1>0, <2>2, <2>5
  <1>5. ASSUME StagePaths(p) \/ CommitStaged(p) \/ NothingStaged(p) \/ RecordCommit(p)
               \/ EnsureBranch(p) \/ Push(p)
        PROVE  BranchFacts'
    <2>1. prs' = prs /\ record' = record
      BY <1>1, <1>5
         DEF StagePaths, CommitStaged, NothingStaged, RecordCommit, EnsureBranch, Push, Persist
    <2>2. /\ ctx[p].pc \in {"stage", "commit", "record_commit", "ensure", "push"}
          /\ ctx'[p].run = ctx[p].run /\ ctx'[p].branch = ctx[p].branch
      BY <1>1, <1>5
         DEF StagePaths, CommitStaged, NothingStaged, RecordCommit, EnsureBranch, Push, Goto
    <2> QED
      BY <1>0, <1>1, <2>1, <2>2, SameBranches
  <1>6. ASSUME RequestPullRequest(p) PROVE BranchFacts'
    <2> DEFINE request == [run |-> ctx[p].run, head |-> ctx[p].branch,
                           tip |-> remote[ctx[p].branch], open |-> TRUE]
    <2>1. record' = record /\ prs' = Append(prs, request)
      BY <1>6 DEF RequestPullRequest
    <2>2. /\ ctx'[p].run = ctx[p].run /\ ctx'[p].branch = ctx[p].branch
          /\ ctx[p].branch = record[ctx[p].run].branch
      BY <1>1, <1>6 DEF RequestPullRequest
    <2>3. \A n \in DOMAIN prs : prs[n].open => prs[n].head # request.head
      BY <1>6 DEF RequestPullRequest
    <2>4. request.run = ctx[p].run /\ request.head = ctx[p].branch
      OBVIOUS
    <2> HIDE DEF request
    <2>5. /\ DOMAIN prs' = DOMAIN prs \cup {Len(prs) + 1}
          /\ \A n \in DOMAIN prs : prs'[n] = prs[n]
          /\ prs'[Len(prs) + 1] = request
      BY <1>1, <2>1
    <2>6. HeadsAreRecorded'
      BY <2>1, <2>2, <2>4, <2>5 DEF BranchInv, HeadsAreRecorded
    <2>7. HeadsAreTaken'
      BY <2>3, <2>5 DEF BranchInv, HeadsAreTaken
    <2> QED
      BY <1>0, <2>1, <2>2, <2>6, <2>7
  <1>7. ASSUME RecordPullRequest(p) PROVE BranchFacts'
    <2>1. prs' = prs /\ \A r \in Runs : record'[r].branch = record[r].branch
      BY <1>1, <1>7 DEF RecordPullRequest, Persist, Blocks
    <2> QED
      BY <1>0, <1>1, <1>7, <2>1, SameBranches DEF RecordPullRequest, End, Idle
  <1> QED
    BY <1>2, <1>3, <1>4, <1>5, <1>6, <1>7 DEF Create

LEMMA SyncKeepsBranch ==
    ASSUME OneCommand, BranchInv, NEW p \in Procs, Sync(p) \/ Fail(p)
    PROVE  BranchFacts'
  <1> USE DEF HoldsTheBranch, HoldsTheRecord, At, Memories, BranchFacts
  <1>0. \A q \in Procs : q = p
    BY DEF OneCommand
  <1>1. /\ record \in [Runs -> Blocks] /\ ctx \in [Procs -> Memories]
        /\ ~At(p, "idle") => ctx[p].run \in Runs
        /\ HoldsTheRecord(p)
    BY DEF BranchInv, RecordInv, TypeInv, TypeOK, Placed
  <1>2. ASSUME NEW r \in Runs, SyncPacket(p, r) PROVE BranchFacts'
    BY <1>0, <1>1, <1>2, SameBranches DEF SyncPacket, Idle
  <1>3. ASSUME RecordPublication(p) \/ Fail(p) PROVE BranchFacts'
    BY <1>0, <1>1, <1>3, SameBranches DEF RecordPublication, Fail, Persist, End, Idle
  <1> QED
    BY <1>2, <1>3 DEF Sync

LEMMA WorldKeepsBranch ==
    ASSUME BranchInv, World \/ UNCHANGED vars
    PROVE  BranchFacts'
  <1>1. UNCHANGED <<record, ctx>>
    BY DEF World, vars, VerifyRun, EditFile, SwitchBranch, CommitOwnFile, BaseMoves,
           ClosePullRequest
  <1>2. \A p \in Procs : HoldsTheBranch(p)'
    BY <1>1 DEF BranchInv, BranchFacts, HoldsTheBranch, At
  <1> DEFINE SameRequests ==
        /\ DOMAIN prs' = DOMAIN prs
        /\ \A n \in DOMAIN prs : /\ prs'[n].head = prs[n].head
                                 /\ prs'[n].run = prs[n].run
                                 /\ prs'[n].open => prs[n].open
  <1>3. SameRequests
    <2>1. CASE prs' = prs
      BY <2>1
    <2>2. ASSUME NEW k \in DOMAIN prs, ClosePullRequest(k)
          PROVE  SameRequests
      <3>1. prs \in [1..Len(prs) -> Requests]
        BY RequestTypes DEF BranchInv, RecordInv
      <3> QED
        BY <2>2, <3>1 DEF ClosePullRequest, Requests
    <2> QED
      BY <2>1, <2>2 DEF World, vars, VerifyRun, EditFile, SwitchBranch, CommitOwnFile,
                        BaseMoves
  <1>4. HeadsAreRecorded' /\ HeadsAreTaken'
    BY <1>1, <1>3 DEF BranchInv, BranchFacts, HeadsAreRecorded, HeadsAreTaken
  <1> QED
    BY <1>2, <1>4 DEF BranchFacts

\* However often a creation fails, is killed and is given again, a run has no two
\* open pull requests: every attempt works on the branch that is on disk, and
\* GitHub takes one open pull request for a branch.
THEOREM OnePerRun == OneCommand => (Spec => []OnePullRequestPerRun)
  <1> SUFFICES ASSUME OneCommand PROVE Spec => []OnePullRequestPerRun
    OBVIOUS
  <1>1. BranchInv /\ [Next]_vars => RecordInv'
    BY CreateKeeps, SyncKeeps, WorldKeeps, TypeInvStep DEF Next, BranchInv, RecordInv, Held
  <1>2. BranchInv /\ [Next]_vars => BranchFacts'
    BY CreateKeepsBranch, SyncKeepsBranch, WorldKeepsBranch DEF Next
  <1>3. BranchInv /\ [Next]_vars => BranchInv'
    BY <1>1, <1>2 DEF BranchInv
  <1>4. BranchInv => OnePullRequestPerRun
    BY DEF BranchInv, BranchFacts, HeadsAreRecorded, HeadsAreTaken, OnePullRequestPerRun
  <1> QED
    BY <1>3, <1>4, BranchInvInit, PTL DEF Spec

-----------------------------------------------------------------------------
(* With one command at a time a commit is of its run *)

\* Up to the commit, nothing outside the run is staged.
StagedIsOfTheRun(p) ==
    ctx[p].pc \in {"checkout", "record_branch", "stage", "commit"} =>
        \A f \in Paths \ Changed[ctx[p].run] : index[f] = Tip(local, cur)[f]

StageInv == TypeInv /\ \A p \in Procs : StagedIsOfTheRun(p)
Staged == \A p \in Procs : StagedIsOfTheRun(p)'

LEMMA StageInvInit == Init => StageInv
  BY TypeInvInit DEF Init, StageInv, StagedIsOfTheRun, Idle

LEMMA CheckoutKeepsStage ==
    ASSUME TypeInv, NEW b \in AllBranches, GitCheckout(b) \/ GitCreateBranch(b),
           NEW f \in Paths, index[f] = Tip(local, cur)[f]
    PROVE  index'[f] = Tip(local, cur)'[f]
  <1>1. CASE GitCheckout(b)
    BY <1>1 DEF GitCheckout, Tip
  <1>2. CASE GitCreateBranch(b)
    <2>1. local'[b] = local[cur] /\ cur' = b /\ index' = index
      BY <1>2 DEF GitCreateBranch, TypeInv, TypeOK
    <2> QED
      BY <2>1 DEF Tip
  <1> QED
    BY <1>1, <1>2

LEMMA CreateKeepsStage ==
    ASSUME OneCommand, StageInv, NEW p \in Procs, Create(p)
    PROVE  Staged
  <1> USE DEF StagedIsOfTheRun, Staged, At
  <1>0. \A q \in Procs : q = p
    BY DEF OneCommand
  <1>1. /\ ctx \in [Procs -> Memories] /\ StagedIsOfTheRun(p)
        /\ ~At(p, "idle") /\ ~At(p, "record_publication") => ctx[p].branch \in Branches
    BY DEF StageInv, TypeInv, TypeOK, Memories, Placed
  <1>2. ASSUME NEW r \in Runs, NEW option \in Branches \cup {NoBranch},
               CreateDraftPr(p, r, option)
        PROVE  Staged
    <2>1. ctx'[p].pc = "prepare"
      BY <1>1, <1>2 DEF CreateDraftPr, Idle
    <2> QED
      BY <1>0, <2>1
  <1>3. ASSUME PrepareBranch(p) PROVE Staged
    <2>1. UNCHANGED <<index, local, cur>> /\ ctx'[p].run = ctx[p].run
      BY <1>1, <1>3 DEF PrepareBranch, Memories, gitVars
    <2>2. \A f \in Paths \ Changed[ctx[p].run] : index[f] = Tip(local, cur)[f]
      BY <1>3 DEF PrepareBranch, Dirty
    <2> QED
      BY <1>0, <2>1, <2>2 DEF Tip
  <1>4. ASSUME CheckoutBranch(p) PROVE Staged
    <2>1. ctx'[p].run = ctx[p].run /\ ctx[p].branch \in AllBranches
      BY <1>1, <1>4 DEF CheckoutBranch, Memories, AllBranches
    <2>2. \A f \in Paths \ Changed[ctx[p].run] : index[f] = Tip(local, cur)[f]
      BY <1>1, <1>4 DEF CheckoutBranch
    <2>3. GitCheckout(ctx[p].branch) \/ GitCreateBranch(ctx[p].branch)
      BY <1>4 DEF CheckoutBranch
    <2> QED
      BY <1>0, <2>1, <2>2, <2>3, CheckoutKeepsStage DEF StageInv
  <1>5. ASSUME RecordBranch(p) PROVE Staged
    <2>1. /\ UNCHANGED <<index, local, cur>> /\ ctx'[p].run = ctx[p].run
          /\ ctx[p].pc = "record_branch"
      BY <1>1, <1>5 DEF RecordBranch, Memories, gitVars
    <2> QED
      BY <1>0, <1>1, <2>1 DEF Tip
  <1>6. ASSUME StagePaths(p) PROVE Staged
    <2>1. UNCHANGED <<local, cur>> /\ ctx'[p].run = ctx[p].run /\ ctx[p].pc = "stage"
      BY <1>1, <1>6 DEF StagePaths, Goto, Memories
    <2>2. \A f \in Paths \ Changed[ctx[p].run] : index'[f] = index[f]
      BY <1>6 DEF StagePaths
    <2> QED
      BY <1>0, <1>1, <2>1, <2>2 DEF Tip
  <1>7. ASSUME \/ CommitStaged(p) \/ NothingStaged(p) \/ RecordCommit(p) \/ EnsureBranch(p)
               \/ Push(p) \/ RequestPullRequest(p) \/ RecordPullRequest(p)
        PROVE  Staged
    <2>1. ctx'[p].pc \in {"record_commit", "ensure", "push", "request", "record_pr", "idle"}
      BY <1>1, <1>7
         DEF CommitStaged, NothingStaged, RecordCommit, EnsureBranch, Push,
             RequestPullRequest, RecordPullRequest, Goto, End, Idle, Memories
    <2> QED
      BY <1>0, <2>1
  <1> QED
    BY <1>2, <1>3, <1>4, <1>5, <1>6, <1>7 DEF Create

LEMMA SyncKeepsStage ==
    ASSUME OneCommand, StageInv, NEW p \in Procs, Sync(p) \/ Fail(p)
    PROVE  Staged
  <1>1. ctx \in [Procs -> Memories]
    BY DEF StageInv, TypeInv, TypeOK, Memories
  <1>2. ctx'[p].pc \in {"idle", "record_publication"}
    <2>1. ASSUME NEW r \in Runs, SyncPacket(p, r) PROVE ctx'[p].pc = "record_publication"
      BY <1>1, <2>1 DEF SyncPacket, Idle
    <2>2. ASSUME RecordPublication(p) \/ Fail(p) PROVE ctx'[p].pc = "idle"
      BY <1>1, <2>2 DEF RecordPublication, Fail, End, Idle
    <2> QED
      BY <2>1, <2>2 DEF Sync
  <1> QED
    BY <1>2 DEF OneCommand, Staged, StagedIsOfTheRun

\* The operator uses git only while no command runs.
LEMMA WorldKeepsStage ==
    ASSUME StageInv, World \/ UNCHANGED vars
    PROVE  Staged
  <1> USE DEF StageInv, StagedIsOfTheRun, Staged
  <1>1. CASE UNCHANGED <<index, local, cur, ctx>>
    BY <1>1 DEF Tip
  <1>2. CASE AtRest /\ UNCHANGED ctx
    BY <1>2 DEF AtRest, At
  <1>3. \/ UNCHANGED <<index, local, cur, ctx>>
        \/ AtRest /\ UNCHANGED ctx
    BY DEF World, vars, gitVars, VerifyRun, EditFile, SwitchBranch, CommitOwnFile, BaseMoves,
           ClosePullRequest
  <1> QED
    BY <1>1, <1>2, <1>3

OfTheRun ==
    \A p \in Procs : CommitStaged(p) =>
        \A f \in Paths \ Changed[ctx[p].run] : Tip(local', cur)[f] = Tip(local, cur)[f]

LEMMA CommitKeepsOthers == StageInv => OfTheRun
  <1> SUFFICES ASSUME StageInv, NEW p \in Procs, CommitStaged(p),
                      NEW f \in Paths \ Changed[ctx[p].run]
               PROVE  Tip(local', cur)[f] = Tip(local, cur)[f]
    BY DEF OfTheRun
  <1>1. local[cur] \in Histories /\ index \in Snapshots
    BY DEF StageInv, TypeInv, TypeOK
  <1>2. local'[cur] = Append(local[cur], index)
    BY DEF CommitStaged, StageInv, TypeInv, TypeOK
  <1>3. Tip(local', cur) = index
    BY <1>1, <1>2, AppendedHistory DEF Tip
  <1>4. index[f] = Tip(local, cur)[f]
    BY DEF StageInv, StagedIsOfTheRun, CommitStaged, At
  <1> QED
    BY <1>3, <1>4

\* What other runs, killed commands and the operator left in the index and the work
\* tree gets into no commit of a run, although a commit takes all that is staged and
\* the operator edits while the command runs.
THEOREM CommitOfTheRun == OneCommand => (Spec => CommitIsOfTheRun)
  <1> SUFFICES ASSUME OneCommand PROVE Spec => CommitIsOfTheRun
    OBVIOUS
  <1>1. StageInv /\ [Next]_vars => Staged
    BY CreateKeepsStage, SyncKeepsStage, WorldKeepsStage DEF Next
  <1>2. StageInv /\ [Next]_vars => StageInv' /\ [OfTheRun]_vars
    BY <1>1, TypeInvStep, CommitKeepsOthers DEF StageInv, Staged
  <1> QED
    BY <1>2, StageInvInit, PTL DEF Spec, CommitIsOfTheRun, OfTheRun

-----------------------------------------------------------------------------
(* With one command at a time a pull request carries its run *)

\* The last commit of the branch has another content of `f` than the base.
Changes(branches, b, f) == Exists(branches, b) /\ Tip(branches, b)[f] # "base"

\* Once `f` left its base content in HEAD it has left it in the index, and once in
\* the index also in the work tree: only a checkout takes a change away.
Grown(f) ==
    /\ Tip(local, cur)[f] # "base" => index[f] # "base"
    /\ index[f] # "base" => tree[f] # "base"

\* The branch recorded for the run has its change of `f`.
Committed(r, f) ==
    record[r].branch # NoBranch /\ Changes(local, record[r].branch, f)

\* No branch has the run's change before the recorded one has it, and a verified
\* run's change is in the work tree until that branch has it.
CommittedFirst(r, f) == \A b \in AllBranches : Changes(local, b, f) => Committed(r, f)
Survives(r, f) == stored[r] # <<>> => tree[f] # "base" \/ Committed(r, f)

Followed(r, f) == CommittedFirst(r, f) /\ Survives(r, f)

\* Where the run's change of `f` is at each place of a creation.
CarriesFile(p, f) ==
    LET b == ctx[p].branch
    IN  /\ ctx[p].pc \in {"record_branch", "stage"} => tree[f] # "base"
        /\ ctx[p].pc = "commit" => index[f] # "base"
        /\ ctx[p].pc \in {"record_commit", "ensure", "push"} => Changes(local, b, f)
        /\ ctx[p].pc = "request" => Changes(remote, b, f)

\* A creation is on the branch it works on from the checkout to the push.
OnItsBranch(p) ==
    LET b == ctx[p].branch
    IN  /\ ctx[p].pc \in {"prepare", "checkout", "record_branch", "stage"}
               => stored[ctx[p].run] # <<>>
        /\ At(p, "checkout") => (ctx[p].exists <=> Exists(local, b))
        /\ ctx[p].pc \in {"record_branch", "stage", "commit"} => cur = b

Carries(p) ==
    /\ OnItsBranch(p)
    /\ ~At(p, "idle") /\ ~At(p, "record_publication") =>
           \A f \in OnlyChangedBy(ctx[p].run) : CarriesFile(p, f)

GrownFacts == \A f \in Paths : Grown(f)
FollowedFacts == \A r \in Runs : \A f \in OnlyChangedBy(r) : Followed(r, f)
CarryFacts == GrownFacts /\ FollowedFacts /\ \A p \in Procs : Carries(p)

CarryInv == BranchInv /\ StageInv /\ CarryFacts /\ PullRequestCarriesTheRun

LEMMA CarryInvInit == Init => CarryInv
  <1> SUFFICES ASSUME Init PROVE CarryInv
    OBVIOUS
  <1>1. BranchInv /\ StageInv
    BY BranchInvInit, StageInvInit
  <1>2. \A b \in AllBranches, f \in Paths : ~Changes(local, b, f)
    BY DEF Init, Changes, Exists, Tip
  <1>3. \A f \in Paths : Tip(local, cur)[f] = "base" /\ index[f] = "base"
    BY DEF Init, Tip, AllBranches
  <1>4. \A r \in Runs : OnlyChangedBy(r) \subseteq Paths /\ stored[r] = <<>>
    BY GithubAssumption DEF OnlyChangedBy, Init
  <1>5. GrownFacts /\ FollowedFacts
    BY <1>2, <1>3, <1>4 DEF GrownFacts, FollowedFacts, Grown, Followed, CommittedFirst, Survives
  <1>6. \A p \in Procs : Carries(p)
    BY DEF Init, Idle, Carries, OnItsBranch, At
  <1>7. PullRequestCarriesTheRun
    BY DEF Init, PullRequestCarriesTheRun
  <1> QED
    BY <1>1, <1>5, <1>6, <1>7 DEF CarryInv, CarryFacts

LEMMA OnlyChangedIsPath == \A r \in Runs : OnlyChangedBy(r) \subseteq Changed[r] /\ Changed[r] \subseteq Paths
  BY GithubAssumption DEF OnlyChangedBy

\* A file that one run alone changes is no other run's, and not the operator's own.
LEMMA OnlyItsRun ==
    ASSUME NEW r \in Runs, NEW f \in OnlyChangedBy(r)
    PROVE  f \notin OwnPaths /\ \A q \in Runs : f \in Changed[q] => q = r
  BY DEF OnlyChangedBy, OwnPaths

\* Steps that leave git alone, and change the branch of a run only where none was
\* recorded.
LEMMA SameGit ==
    ASSUME CarryInv, UNCHANGED <<gitVars, stored>>,
           \A r \in Runs : record'[r].branch # record[r].branch => record[r].branch = NoBranch
    PROVE  GrownFacts' /\ FollowedFacts'
  <1>1. GrownFacts'
    BY DEF CarryInv, CarryFacts, GrownFacts, Grown, Tip, gitVars
  <1>2. ASSUME NEW r \in Runs, NEW f \in OnlyChangedBy(r) PROVE Followed(r, f)'
    <2>1. Followed(r, f)
      BY DEF CarryInv, CarryFacts, FollowedFacts
    <2>2. \A b : Changes(local, b, f)' <=> Changes(local, b, f)
      BY DEF Changes, Exists, Tip, gitVars
    <2>3. Committed(r, f) => Committed(r, f)'
      BY <2>2 DEF Committed
    <2> QED
      BY <2>1, <2>2, <2>3 DEF Followed, CommittedFirst, Survives, gitVars
  <1> QED
    BY <1>1, <1>2 DEF FollowedFacts

\* The work tree is edited: no content becomes that of the base.
LEMMA TreeGrows ==
    ASSUME CarryInv, UNCHANGED <<index, cur, local, record>>,
           \A f \in Paths : tree'[f] = tree[f] \/ tree'[f] # "base",
           \A r \in Runs : stored'[r] # <<>> =>
               stored[r] # <<>> \/ \A f \in Changed[r] : tree'[f] # "base"
    PROVE  GrownFacts' /\ FollowedFacts'
  <1>1. GrownFacts'
    BY DEF CarryInv, CarryFacts, GrownFacts, Grown, Tip
  <1>2. ASSUME NEW r \in Runs, NEW f \in OnlyChangedBy(r) PROVE Followed(r, f)'
    <2>1. Followed(r, f) /\ f \in Paths /\ f \in Changed[r]
      BY OnlyChangedIsPath DEF CarryInv, CarryFacts, FollowedFacts
    <2>2. \A b : Changes(local, b, f)' <=> Changes(local, b, f)
      BY DEF Changes, Exists, Tip
    <2>3. Committed(r, f)' <=> Committed(r, f)
      BY <2>2 DEF Committed
    <2> QED
      BY <2>1, <2>2, <2>3 DEF Followed, CommittedFirst, Survives
  <1> QED
    BY <1>1, <1>2 DEF FollowedFacts

\* A checkout takes along what is not committed, and finds the rest on the branch.
LEMMA CheckoutFollows ==
    ASSUME CarryInv, UNCHANGED <<record, stored>>, NEW c \in AllBranches,
           GitCheckout(c) \/ GitCreateBranch(c)
    PROVE  GrownFacts' /\ FollowedFacts'
  <1>0. /\ local \in [AllBranches -> Histories] /\ cur \in AllBranches
        /\ Exists(local, cur) /\ tree \in Snapshots /\ index \in Snapshots
    BY DEF CarryInv, StageInv, TypeInv, TypeOK
  <1>1. CASE GitCheckout(c)
    <2> USE <1>1 DEF GitCheckout
    <2>1. ASSUME NEW f \in Paths PROVE Grown(f)'
      <3>1. Grown(f)
        BY DEF CarryInv, CarryFacts, GrownFacts
      <3> QED
        BY <3>1 DEF Grown, Dirty, Tip
    <2>2. ASSUME NEW r \in Runs, NEW f \in OnlyChangedBy(r) PROVE Followed(r, f)'
      <3>1. Followed(r, f) /\ f \in Paths
        BY OnlyChangedIsPath DEF CarryInv, CarryFacts, FollowedFacts
      <3>2. \A b : Changes(local, b, f)' <=> Changes(local, b, f)
        BY DEF Changes, Exists, Tip
      <3>3. Committed(r, f)' <=> Committed(r, f)
        BY <3>2 DEF Committed
      <3>4. tree[f] # "base" => tree'[f] # "base" \/ Committed(r, f)
        <4>1. f \in Dirty => tree'[f] = tree[f]
          BY <3>1
        <4>2. f \notin Dirty => tree[f] = Tip(local, cur)[f]
          BY <3>1 DEF Dirty
        <4> QED
          BY <1>0, <3>1, <4>1, <4>2 DEF Followed, CommittedFirst, Changes
      <3> QED
        BY <3>1, <3>2, <3>3, <3>4 DEF Followed, CommittedFirst, Survives
    <2> QED
      BY <2>1, <2>2 DEF GrownFacts, FollowedFacts
  <1>2. CASE GitCreateBranch(c)
    <2>1. /\ local'[c] = local[cur] /\ \A b \in AllBranches \ {c} : local'[b] = local[b]
          /\ UNCHANGED <<tree, index>> /\ cur' = c /\ ~Exists(local, c)
      BY <1>0, <1>2 DEF GitCreateBranch
    <2>2. Tip(local, cur)' = Tip(local, cur)
      BY <2>1 DEF Tip
    <2>3. GrownFacts'
      BY <2>1, <2>2 DEF CarryInv, CarryFacts, GrownFacts, Grown
    <2>4. ASSUME NEW r \in Runs, NEW f \in OnlyChangedBy(r) PROVE Followed(r, f)'
      <3>1. Followed(r, f) /\ record[r].branch \in Branches \cup {NoBranch}
        BY DEF CarryInv, CarryFacts, FollowedFacts, StageInv, TypeInv, TypeOK, Blocks
      <3>2. \A b \in AllBranches : Changes(local, b, f) => Changes(local, b, f)'
        BY <2>1 DEF Changes, Exists, Tip
      <3>3. ASSUME NEW b \in AllBranches, Changes(local, b, f)'
            PROVE  Changes(local, b, f) \/ Changes(local, cur, f)
        BY <1>0, <2>1, <3>3 DEF Changes, Exists, Tip
      <3>4. Committed(r, f) => Committed(r, f)'
        BY <3>1, <3>2 DEF Committed, AllBranches
      <3> QED
        BY <1>0, <2>1, <3>1, <3>3, <3>4 DEF Followed, CommittedFirst, Survives
    <2> QED
      BY <2>3, <2>4 DEF FollowedFacts
  <1> QED
    BY <1>1, <1>2

\* A commit on the branch that is checked out leaves the other branches alone.
LEMMA ChangesByCommit ==
    ASSUME TypeInv, NEW snapshot \in Snapshots,
           local' = [local EXCEPT ![cur] = Append(@, snapshot)]
    PROVE  /\ Tip(local', cur) = snapshot /\ Exists(local', cur)
           /\ \A b \in AllBranches \ {cur} : local'[b] = local[b]
           /\ \A b \in AllBranches, f \in Paths :
                 Changes(local', b, f) <=> IF b = cur THEN snapshot[f] # "base"
                                           ELSE Changes(local, b, f)
  <1>1. local \in [AllBranches -> Histories] /\ cur \in AllBranches
    BY DEF TypeInv, TypeOK
  <1>2. local[cur] \in Histories /\ local'[cur] = Append(local[cur], snapshot)
    BY <1>1
  <1>3. Append(local[cur], snapshot) \in Histories /\ Append(local[cur], snapshot) # <<>>
    BY <1>2, AppendedHistory
  <1>4. Tip(local', cur) = snapshot /\ Exists(local', cur)
    BY <1>2, <1>3, AppendedHistory DEF Tip, Exists
  <1>5. \A b \in AllBranches \ {cur} : local'[b] = local[b]
    BY <1>1
  <1> QED
    BY <1>4, <1>5 DEF Changes, Exists, Tip

\* What a commit holds of a run's own file is what the branch had, or the run's
\* change on the branch recorded for it.
LEMMA CommitFollows ==
    ASSUME CarryInv, UNCHANGED <<tree, record, stored, cur>>, NEW snapshot \in Snapshots,
           local' = [local EXCEPT ![cur] = Append(@, snapshot)],
           \A f \in Paths : snapshot[f] \in {index'[f], Tip(local, cur)[f]},
           \A f \in Paths : index'[f] = index[f] \/ index'[f] = tree[f],
           \A r \in Runs : \A f \in OnlyChangedBy(r) :
               \/ snapshot[f] = Tip(local, cur)[f]
               \/ snapshot[f] # "base" /\ cur = record[r].branch /\ cur # NoBranch
    PROVE  GrownFacts' /\ FollowedFacts'
  <1>1. TypeInv /\ cur \in AllBranches /\ Exists(local, cur)
    BY DEF CarryInv, StageInv, TypeInv, TypeOK
  <1>2. Tip(local, cur)' = snapshot
    BY <1>1, ChangesByCommit
  <1>3. GrownFacts'
    BY <1>2 DEF CarryInv, CarryFacts, GrownFacts, Grown
  <1>4. ASSUME NEW r \in Runs, NEW f \in OnlyChangedBy(r) PROVE Followed(r, f)'
    <2>1. Followed(r, f) /\ f \in Paths /\ record[r].branch \in Branches \cup {NoBranch}
      BY OnlyChangedIsPath
         DEF CarryInv, CarryFacts, FollowedFacts, StageInv, TypeInv, TypeOK, Blocks
    <2>2. \A b \in AllBranches :
             Changes(local, b, f)' <=> IF b = cur THEN snapshot[f] # "base"
                                       ELSE Changes(local, b, f)
      BY ZenonT(30), <1>1, <2>1, ChangesByCommit DEF Changes, Exists, Tip
    <2>3. snapshot[f] = Tip(local, cur)[f] =>
             \A b \in AllBranches : Changes(local, b, f)' <=> Changes(local, b, f)
      BY <1>1, <2>2 DEF Changes
    <2>4. CASE snapshot[f] = Tip(local, cur)[f]
      BY <2>1, <2>3, <2>4 DEF Followed, CommittedFirst, Survives, Committed, AllBranches
    <2>5. CASE snapshot[f] # "base" /\ cur = record[r].branch /\ cur # NoBranch
      <3>1. Committed(r, f)'
        BY <1>1, <2>2, <2>5 DEF Committed
      <3> QED
        BY <3>1 DEF Followed, CommittedFirst, Survives
    <2> QED
      BY <2>4, <2>5
  <1> QED
    BY <1>3, <1>4 DEF FollowedFacts

LEMMA CreateFollows ==
    ASSUME OneCommand, CarryInv, NEW p \in Procs, Create(p)
    PROVE  GrownFacts' /\ FollowedFacts'
  <1>1. /\ ctx \in [Procs -> Memories] /\ record \in [Runs -> Blocks]
        /\ TypeInv /\ cur \in AllBranches /\ Exists(local, cur)
        /\ tree \in Snapshots /\ index \in Snapshots
        /\ ~At(p, "idle") => ctx[p].run \in Runs
        /\ ~At(p, "idle") /\ ~At(p, "record_publication") => ctx[p].branch \in Branches
        /\ HoldsTheBranch(p) /\ Carries(p)
    BY DEF CarryInv, CarryFacts, StageInv, BranchInv, BranchFacts, TypeInv, TypeOK, Placed,
           Memories
  <1>2. ASSUME \/ \E r \in Runs, option \in Branches \cup {NoBranch} :
                      CreateDraftPr(p, r, option)
               \/ PrepareBranch(p) \/ NothingStaged(p) \/ EnsureBranch(p) \/ Push(p)
               \/ RequestPullRequest(p)
        PROVE  GrownFacts' /\ FollowedFacts'
    <2>1. UNCHANGED <<gitVars, stored, record>>
      BY <1>2 DEF CreateDraftPr, PrepareBranch, NothingStaged, EnsureBranch, Push,
                  RequestPullRequest
    <2> QED
      BY <2>1, SameGit
  <1>3. ASSUME RecordBranch(p) \/ RecordCommit(p) \/ RecordPullRequest(p)
        PROVE  GrownFacts' /\ FollowedFacts'
    <2>1. UNCHANGED <<gitVars, stored>>
      BY <1>3 DEF RecordBranch, RecordCommit, RecordPullRequest
    <2>2. HoldsTheRecord(p)
      BY DEF CarryInv, BranchInv, RecordInv
    <2>3. \A r \in Runs : record'[r].branch # record[r].branch => record[r].branch = NoBranch
      BY <1>1, <1>3, <2>2
         DEF RecordBranch, RecordCommit, RecordPullRequest, Persist, HoldsTheBranch,
             HoldsTheRecord, At, Blocks
    <2> QED
      BY <2>1, <2>3, SameGit
  <1>4. ASSUME CheckoutBranch(p) PROVE GrownFacts' /\ FollowedFacts'
    <2>1. ctx[p].branch \in AllBranches
      BY <1>1, <1>4 DEF CheckoutBranch, At, AllBranches
    <2>2. GitCheckout(ctx[p].branch) \/ GitCreateBranch(ctx[p].branch)
      BY <1>4 DEF CheckoutBranch
    <2> QED
      BY <1>4, <2>1, <2>2, CheckoutFollows DEF CheckoutBranch
  <1>5. ASSUME StagePaths(p) PROVE GrownFacts' /\ FollowedFacts'
    <2>1. UNCHANGED <<tree, local, cur, record, stored>>
      BY <1>5 DEF StagePaths
    <2>2. GrownFacts'
      BY <1>5, <2>1 DEF StagePaths, CarryInv, CarryFacts, GrownFacts, Grown, Tip
    <2>3. FollowedFacts'
      BY <2>1 DEF CarryInv, CarryFacts, FollowedFacts, Followed, CommittedFirst, Survives,
                  Committed, Changes, Exists, Tip
    <2> QED
      BY <2>2, <2>3
  <1>6. ASSUME CommitStaged(p) PROVE GrownFacts' /\ FollowedFacts'
    <2>1. UNCHANGED <<tree, index, record, stored, cur>>
      BY <1>6 DEF CommitStaged
    <2>2. local' = [local EXCEPT ![cur] = Append(@, index)]
      BY <1>6 DEF CommitStaged
    <2>3. ctx[p].run \in Runs /\ cur = record[ctx[p].run].branch /\ cur # NoBranch
      BY <1>1, <1>6, GithubAssumption
         DEF CommitStaged, At, HoldsTheBranch, Carries, OnItsBranch, NoBranch
    <2>4. ASSUME NEW r \in Runs, NEW f \in OnlyChangedBy(r)
          PROVE  \/ index[f] = Tip(local, cur)[f]
                 \/ index[f] # "base" /\ cur = record[r].branch /\ cur # NoBranch
      <3>1. CASE f \in Changed[ctx[p].run]
        <4>1. ctx[p].run = r
          BY <2>3, <3>1, OnlyItsRun
        <4>2. index[f] # "base"
          BY <1>1, <1>6, <4>1 DEF CommitStaged, At, Carries, CarriesFile
        <4> QED
          BY <2>3, <4>1, <4>2
      <3>2. CASE f \notin Changed[ctx[p].run]
        BY <1>6, <3>2, OnlyChangedIsPath
           DEF CommitStaged, At, CarryInv, StageInv, StagedIsOfTheRun
      <3> QED
        BY <3>1, <3>2
    <2> QED
      BY <1>1, <2>1, <2>2, <2>4, CommitFollows
  <1> QED
    BY <1>2, <1>3, <1>4, <1>5, <1>6 DEF Create

LEMMA SyncFollows ==
    ASSUME CarryInv, NEW p \in Procs, Sync(p) \/ Fail(p)
    PROVE  GrownFacts' /\ FollowedFacts'
  <1>1. UNCHANGED <<gitVars, stored>>
    BY DEF Sync, SyncPacket, RecordPublication, Fail
  <1>2. HoldsTheRecord(p) /\ record \in [Runs -> Blocks]
    BY DEF CarryInv, BranchInv, RecordInv, TypeInv, TypeOK
  <1>3. record' = record
    <2>1. CASE RecordPublication(p)
      BY <1>2, <2>1 DEF RecordPublication, Persist, HoldsTheRecord, At
    <2> QED
      BY <2>1 DEF Sync, SyncPacket, Fail
  <1> QED
    BY <1>1, <1>3, SameGit

LEMMA WorldFollows ==
    ASSUME CarryInv, World \/ UNCHANGED vars
    PROVE  GrownFacts' /\ FollowedFacts'
  <1>1. /\ TypeInv /\ cur \in AllBranches /\ Exists(local, cur)
        /\ local \in [AllBranches -> Histories] /\ stored \in [Runs -> Histories]
        /\ tree \in Snapshots /\ index \in Snapshots
    BY DEF CarryInv, StageInv, TypeInv, TypeOK
  <1>2. CASE \/ \E f \in OwnPaths : BaseMoves(f)
             \/ \E n \in DOMAIN prs : ClosePullRequest(n)
             \/ UNCHANGED vars
    <2>1. UNCHANGED <<gitVars, stored, record>>
      BY <1>2 DEF BaseMoves, ClosePullRequest, vars, gitVars
    <2> QED
      BY <2>1, SameGit
  <1>3. ASSUME NEW r \in Runs, VerifyRun(r) PROVE GrownFacts' /\ FollowedFacts'
    <2>1. UNCHANGED <<index, cur, local, record>>
      BY <1>3 DEF VerifyRun
    <2>2. \A f \in Paths : tree'[f] = tree[f] \/ tree'[f] # "base"
      BY <1>1, <1>3, GithubAssumption DEF VerifyRun
    <2>3. \A q \in Runs : stored'[q] # <<>> =>
             stored[q] # <<>> \/ \A f \in Changed[q] : tree'[f] # "base"
      BY <1>1, <1>3, OnlyChangedIsPath, GithubAssumption DEF VerifyRun
    <2> QED
      BY <2>1, <2>2, <2>3, TreeGrows
  <1>4. ASSUME NEW f \in Paths, EditFile(f) PROVE GrownFacts' /\ FollowedFacts'
    <2>1. UNCHANGED <<index, cur, local, record, stored>>
      BY <1>4 DEF EditFile
    <2>2. \A g \in Paths : tree'[g] = tree[g] \/ tree'[g] # "base"
      BY <1>1, <1>4 DEF EditFile, Snapshots
    <2> QED
      BY <2>1, <2>2, TreeGrows
  <1>5. ASSUME NEW b \in AllBranches, SwitchBranch(b) PROVE GrownFacts' /\ FollowedFacts'
    BY <1>5, CheckoutFollows DEF SwitchBranch
  <1>6. ASSUME NEW f \in OwnPaths, CommitOwnFile(f) PROVE GrownFacts' /\ FollowedFacts'
    <2> DEFINE commit == [Tip(local, cur) EXCEPT ![f] = tree[f]]
    <2>1. Tip(local, cur) \in Snapshots /\ f \in Paths
      BY <1>1, TipIsSnapshot DEF OwnPaths
    <2>2. commit \in Snapshots /\ \A g \in Paths \ {f} : commit[g] = Tip(local, cur)[g]
      BY <1>1, <2>1 DEF Snapshots
    <2>3. commit[f] = tree[f]
      BY <2>1 DEF Snapshots
    <2>4. UNCHANGED <<tree, record, stored, cur>> /\ index' = [index EXCEPT ![f] = tree[f]]
          /\ local' = [local EXCEPT ![cur] = Append(@, commit)]
      BY <1>6 DEF CommitOwnFile
    <2> HIDE DEF commit
    <2>5. \A r \in Runs : \A g \in OnlyChangedBy(r) : commit[g] = Tip(local, cur)[g]
      BY <1>6, <2>2, OnlyItsRun, OnlyChangedIsPath
    <2>6. \A g \in Paths : index'[g] = index[g] \/ index'[g] = tree[g]
      BY <1>1, <2>4 DEF Snapshots
    <2>7. index'[f] = tree[f]
      BY <1>1, <2>1, <2>4 DEF Snapshots
    <2>8. \A g \in Paths : commit[g] \in {index'[g], Tip(local, cur)[g]}
      BY <2>2, <2>3, <2>7
    <2> QED
      BY <2>2, <2>4, <2>5, <2>6, <2>8, CommitFollows
  <1> QED
    BY <1>2, <1>3, <1>4, <1>5, <1>6 DEF World

\* A creation that comes to the branch recorded for its run, or to a new one, has
\* the run's change in the work tree there.
LEMMA ChangeComesAlong ==
    ASSUME CarryInv, NEW p \in Procs, CheckoutBranch(p), NEW f \in OnlyChangedBy(ctx[p].run)
    PROVE  tree'[f] # "base"
  <1> DEFINE r == ctx[p].run
             b == ctx[p].branch
  <1>1. /\ ctx[p].pc = "checkout" /\ r \in Runs /\ b \in Branches
        /\ f \in Paths /\ cur \in AllBranches /\ Exists(local, cur)
    BY OnlyChangedIsPath
       DEF CheckoutBranch, At, CarryInv, StageInv, TypeInv, TypeOK, Placed
  <1>2. /\ Grown(f) /\ CommittedFirst(r, f) /\ Survives(r, f)
        /\ stored[r] # <<>> /\ (ctx[p].exists <=> Exists(local, b))
    BY <1>1 DEF CarryInv, CarryFacts, GrownFacts, FollowedFacts, Followed, Carries,
                OnItsBranch, At
  <1>3. record[r].branch # NoBranch => b = record[r].branch
    BY <1>1 DEF CarryInv, BranchInv, BranchFacts, HoldsTheBranch, At
  <1>4. Committed(r, f) => Changes(local, b, f)
    BY <1>3 DEF Committed
  <1>5. CASE GitCreateBranch(b)
    BY <1>2, <1>4, <1>5 DEF GitCreateBranch, Survives, Changes
  <1>6. CASE GitCheckout(b)
    <2>1. CASE f \in Dirty
      <3>1. tree'[f] = tree[f] /\ Tip(local, b)[f] = Tip(local, cur)[f]
        BY <1>1, <1>6, <2>1 DEF GitCheckout
      <3> QED
        BY <1>2, <1>4, <3>1 DEF Survives, Changes, Grown
    <2>2. CASE f \notin Dirty
      <3>1. tree'[f] = Tip(local, b)[f] /\ tree[f] = Tip(local, cur)[f]
        BY <1>1, <1>6, <2>2 DEF GitCheckout, Dirty
      <3>2. tree[f] # "base" => Committed(r, f)
        BY <1>1, <1>2, <3>1 DEF CommittedFirst, Changes
      <3> QED
        BY <1>2, <1>4, <3>1, <3>2 DEF Survives, Changes
    <2> QED
      BY <2>1, <2>2
  <1> QED
    BY <1>5, <1>6 DEF CheckoutBranch

LEMMA CreateCarries ==
    ASSUME OneCommand, CarryInv, NEW p \in Procs, Create(p)
    PROVE  (\A q \in Procs : Carries(q)') /\ PullRequestCarriesTheRun'
  <1> USE DEF At, Memories
  <1> DEFINE r == ctx[p].run
             b == ctx[p].branch
  <1>0. \A q \in Procs : q = p
    BY DEF OneCommand
  <1>1. /\ ctx \in [Procs -> Memories] /\ TypeInv
        /\ cur \in AllBranches /\ Exists(local, cur)
        /\ index \in Snapshots /\ tree \in Snapshots
        /\ remote \in [AllBranches -> Histories]
        /\ prs \in Seq(Requests)
        /\ ~At(p, "idle") => r \in Runs
        /\ ~At(p, "idle") /\ ~At(p, "record_publication") => b \in Branches /\ b \in AllBranches
        /\ Carries(p) /\ PullRequestCarriesTheRun
    BY DEF CarryInv, CarryFacts, StageInv, TypeInv, TypeOK, Placed, Requests, AllBranches
  <1>2. prs' = prs => PullRequestCarriesTheRun'
    BY <1>1 DEF PullRequestCarriesTheRun
  <1>3. ASSUME NEW s \in Runs, NEW option \in Branches \cup {NoBranch},
               CreateDraftPr(p, s, option)
        PROVE  Carries(p)' /\ prs' = prs
    BY <1>1, <1>3 DEF CreateDraftPr, EligibleForDraftPr, Idle, Carries, CarriesFile,
                      OnItsBranch
  <1>4. ASSUME PrepareBranch(p) PROVE Carries(p)' /\ prs' = prs
    <2>1. /\ UNCHANGED <<gitVars, stored, remote, prs, record>> /\ r \in Runs
          /\ ctx[p].pc = "prepare" /\ stored[r] # <<>>
          /\ ctx'[p].run = r /\ ctx'[p].branch = b
          /\ IF cur = b THEN ctx'[p].pc = "record_branch"
             ELSE ctx'[p].pc = "checkout" /\ (ctx'[p].exists <=> Exists(local, b))
      BY <1>1, <1>4 DEF PrepareBranch, Carries, OnItsBranch
    <2>2. ASSUME NEW f \in OnlyChangedBy(r), cur = b PROVE tree[f] # "base"
      <3>1. Grown(f) /\ Survives(r, f)
        BY <2>1, OnlyChangedIsPath
           DEF CarryInv, CarryFacts, GrownFacts, FollowedFacts, Followed
      <3>2. Committed(r, f) => Changes(local, b, f)
        BY <2>1 DEF CarryInv, BranchInv, BranchFacts, HoldsTheBranch, Committed
      <3> QED
        BY <2>1, <2>2, <3>1, <3>2 DEF Survives, Grown, Changes
    <2> QED
      BY <2>1, <2>2 DEF Carries, CarriesFile, OnItsBranch, gitVars, Exists
  <1>5. ASSUME CheckoutBranch(p) PROVE Carries(p)' /\ prs' = prs
    <2>1. /\ UNCHANGED <<stored, prs>> /\ r \in Runs /\ stored[r] # <<>>
          /\ ctx'[p].run = r /\ ctx'[p].branch = b /\ ctx'[p].pc = "record_branch"
          /\ cur' = b
      BY <1>1, <1>5
         DEF CheckoutBranch, GitCheckout, GitCreateBranch, Carries, OnItsBranch
    <2>2. \A f \in OnlyChangedBy(r) : tree'[f] # "base"
      BY <1>5, ChangeComesAlong
    <2> QED
      BY <2>1, <2>2 DEF Carries, CarriesFile, OnItsBranch
  <1>6. ASSUME RecordBranch(p) PROVE Carries(p)' /\ prs' = prs
    <2>1. /\ UNCHANGED <<gitVars, stored, prs>> /\ ctx[p].pc = "record_branch"
          /\ ctx'[p].run = r /\ ctx'[p].branch = b /\ ctx'[p].pc = "stage"
      BY <1>1, <1>6 DEF RecordBranch
    <2> QED
      BY <1>1, <2>1 DEF Carries, CarriesFile, OnItsBranch, gitVars
  <1>7. ASSUME StagePaths(p) PROVE Carries(p)' /\ prs' = prs
    <2>1. /\ UNCHANGED <<tree, cur, local, stored, prs>> /\ ctx[p].pc = "stage"
          /\ ctx'[p].run = r /\ ctx'[p].branch = b /\ ctx'[p].pc = "commit" /\ r \in Runs
          /\ \A f \in Paths : f \in Changed[r] => index'[f] = tree[f]
      BY <1>1, <1>7 DEF StagePaths, Goto
    <2>2. \A f \in OnlyChangedBy(r) : index'[f] = tree[f]
      BY <2>1, OnlyChangedIsPath
    <2> QED
      BY <1>1, <2>1, <2>2 DEF Carries, CarriesFile, OnItsBranch
  <1>8. ASSUME CommitStaged(p) PROVE Carries(p)' /\ prs' = prs
    <2>1. /\ prs' = prs /\ cur = b /\ r \in Runs
          /\ ctx'[p].run = r /\ ctx'[p].branch = b /\ ctx'[p].pc = "record_commit"
          /\ local' = [local EXCEPT ![cur] = Append(@, index)]
          /\ \A f \in OnlyChangedBy(r) : index[f] # "base"
      BY <1>1, <1>8 DEF CommitStaged, Goto, Carries, CarriesFile, OnItsBranch
    <2>2. \A f \in OnlyChangedBy(r) : Changes(local', b, f)
      BY <1>1, <2>1, ChangesByCommit, OnlyChangedIsPath
    <2> QED
      BY <2>1, <2>2 DEF Carries, CarriesFile, OnItsBranch, Changes, Exists, Tip
  <1>9. ASSUME NothingStaged(p) PROVE Carries(p)' /\ prs' = prs
    <2>1. /\ UNCHANGED <<gitVars, stored, prs>> /\ cur = b /\ index = Tip(local, cur)
          /\ ctx'[p].run = r /\ ctx'[p].branch = b /\ ctx'[p].pc = "ensure"
          /\ \A f \in OnlyChangedBy(r) : index[f] # "base"
      BY <1>1, <1>9
         DEF NothingStaged, HasStagedChanges, Goto, Carries, CarriesFile, OnItsBranch
    <2> QED
      BY <1>1, <2>1 DEF Carries, CarriesFile, OnItsBranch, Changes, Exists, Tip, gitVars
  <1>10. ASSUME RecordCommit(p) \/ EnsureBranch(p) PROVE Carries(p)' /\ prs' = prs
    <2>1. /\ UNCHANGED <<gitVars, stored, prs>>
          /\ ctx[p].pc \in {"record_commit", "ensure"} /\ ctx'[p].pc \in {"ensure", "push"}
          /\ ctx'[p].run = r /\ ctx'[p].branch = b
      BY <1>1, <1>10 DEF RecordCommit, EnsureBranch, Goto
    <2> QED
      BY <1>1, <2>1 DEF Carries, CarriesFile, OnItsBranch, Changes, Exists, Tip, gitVars
  <1>11. ASSUME Push(p) PROVE Carries(p)' /\ prs' = prs
    <2>1. /\ UNCHANGED <<gitVars, stored, prs>> /\ remote'[b] = local[b]
          /\ ctx[p].pc = "push" /\ ctx'[p].pc = "request"
          /\ ctx'[p].run = r /\ ctx'[p].branch = b
      BY <1>1, <1>11 DEF Push, Goto
    <2> QED
      BY <1>1, <2>1 DEF Carries, CarriesFile, OnItsBranch, Changes, Exists, Tip
  <1>12. ASSUME RequestPullRequest(p) PROVE Carries(p)' /\ PullRequestCarriesTheRun'
    <2> DEFINE request == [run |-> r, head |-> b, tip |-> remote[b], open |-> TRUE]
    <2>1. prs' = Append(prs, request) /\ ctx'[p].pc = "record_pr" /\ ctx[p].pc = "request"
      BY <1>1, <1>12 DEF RequestPullRequest
    <2>2. request.run = r /\ request.tip = remote[b]
      OBVIOUS
    <2>3. \A f \in OnlyChangedBy(r) : remote[b][Len(remote[b])][f] # "base"
      BY <1>1, <2>1 DEF Carries, CarriesFile, Changes, Tip
    <2> HIDE DEF request
    <2>4. /\ DOMAIN prs' = DOMAIN prs \cup {Len(prs) + 1}
          /\ \A n \in DOMAIN prs : prs'[n] = prs[n]
          /\ prs'[Len(prs) + 1] = request
      BY <1>1, <2>1
    <2>5. PullRequestCarriesTheRun'
      BY <1>1, <2>2, <2>3, <2>4 DEF PullRequestCarriesTheRun
    <2>6. Carries(p)'
      BY <2>1 DEF Carries, CarriesFile, OnItsBranch
    <2> QED
      BY <2>5, <2>6
  <1>13. ASSUME RecordPullRequest(p) PROVE Carries(p)' /\ prs' = prs
    BY <1>1, <1>13 DEF RecordPullRequest, End, Idle, Carries, OnItsBranch
  <1> QED
    BY <1>0, <1>2, <1>3, <1>4, <1>5, <1>6, <1>7, <1>8, <1>9, <1>10, <1>11, <1>12, <1>13
       DEF Create

LEMMA SyncCarries ==
    ASSUME OneCommand, CarryInv, NEW p \in Procs, Sync(p) \/ Fail(p)
    PROVE  (\A q \in Procs : Carries(q)') /\ PullRequestCarriesTheRun'
  <1>1. \A q \in Procs : q = p
    BY DEF OneCommand
  <1>2. ctx \in [Procs -> Memories] /\ PullRequestCarriesTheRun
    BY DEF CarryInv, StageInv, TypeInv, TypeOK, Memories
  <1>3. prs' = prs
    BY DEF Sync, SyncPacket, RecordPublication, Fail
  <1>4. ctx'[p].pc \in {"idle", "record_publication"}
    <2>1. ASSUME NEW r \in Runs, SyncPacket(p, r) PROVE ctx'[p].pc = "record_publication"
      BY <1>2, <2>1 DEF SyncPacket, Idle
    <2>2. ASSUME RecordPublication(p) \/ Fail(p) PROVE ctx'[p].pc = "idle"
      BY <1>2, <2>2 DEF RecordPublication, Fail, End, Idle
    <2> QED
      BY <2>1, <2>2 DEF Sync
  <1> QED
    BY <1>1, <1>2, <1>3, <1>4 DEF Carries, OnItsBranch, At, PullRequestCarriesTheRun

\* While a command is at work the operator edits files, the base branch moves and
\* pull requests are closed; nobody else uses git or the branches of the runs.
LEMMA WorldCarries ==
    ASSUME CarryInv, World \/ UNCHANGED vars
    PROVE  (\A q \in Procs : Carries(q)') /\ PullRequestCarriesTheRun'
  <1>1. /\ TypeInv /\ PullRequestCarriesTheRun /\ tree \in Snapshots
        /\ remote \in [AllBranches -> Histories]
    BY DEF CarryInv, StageInv, TypeInv, TypeOK
  <1>2. UNCHANGED ctx
    BY DEF World, vars, VerifyRun, EditFile, SwitchBranch, CommitOwnFile, BaseMoves,
           ClosePullRequest
  <1>3. PullRequestCarriesTheRun'
    <2>1. CASE prs' = prs
      BY <1>1, <2>1 DEF PullRequestCarriesTheRun
    <2>2. ASSUME NEW k \in DOMAIN prs, ClosePullRequest(k) PROVE PullRequestCarriesTheRun'
      <3>1. prs \in [1..Len(prs) -> Requests]
        BY <1>1, RequestTypes
      <3>2. /\ DOMAIN prs' = DOMAIN prs
            /\ \A n \in DOMAIN prs : prs'[n].run = prs[n].run /\ prs'[n].tip = prs[n].tip
        BY <2>2, <3>1 DEF ClosePullRequest, Requests
      <3> QED
        BY <1>1, <3>2 DEF PullRequestCarriesTheRun
    <2> QED
      BY <2>1, <2>2 DEF World, vars, VerifyRun, EditFile, SwitchBranch, CommitOwnFile,
                        BaseMoves
  <1>4. \/ AtRest
        \/ /\ UNCHANGED <<index, cur, local, stored>>
           /\ \A f \in Paths : tree'[f] = tree[f] \/ tree'[f] # "base"
           /\ \A b \in Branches : remote'[b] = remote[b]
    <2>1. CASE World /\ ~AtRest /\ UNCHANGED tree
      <3>1. \A b \in Branches : remote'[b] = remote[b]
        BY <1>1, <2>1, GithubAssumption
           DEF World, VerifyRun, EditFile, SwitchBranch, CommitOwnFile, BaseMoves,
               ClosePullRequest, AllBranches
      <3>2. UNCHANGED <<index, cur, local, stored>>
        BY <2>1 DEF World, VerifyRun, EditFile, SwitchBranch, CommitOwnFile, BaseMoves,
                    ClosePullRequest, gitVars
      <3> QED
        BY <2>1, <3>1, <3>2
    <2>2. ASSUME NEW f \in Paths, EditFile(f)
          PROVE  /\ UNCHANGED <<index, cur, local, stored, remote>>
                 /\ \A g \in Paths : tree'[g] = tree[g] \/ tree'[g] # "base"
      BY <1>1, <2>2 DEF EditFile, Snapshots
    <2>3. UNCHANGED tree \/ AtRest \/ \E f \in Paths : EditFile(f)
      BY DEF World, vars, gitVars, VerifyRun, SwitchBranch, CommitOwnFile, BaseMoves,
             ClosePullRequest
    <2> QED
      BY <2>1, <2>2, <2>3 DEF vars
  <1>5. ASSUME NEW p \in Procs PROVE Carries(p)'
    <2>1. Carries(p)
      BY DEF CarryInv, CarryFacts
    <2>2. CASE AtRest
      BY <1>2, <2>2 DEF AtRest, At, Carries, OnItsBranch
    <2>3. CASE /\ UNCHANGED <<index, cur, local, stored>>
               /\ \A f \in Paths : tree'[f] = tree[f] \/ tree'[f] # "base"
               /\ \A b \in Branches : remote'[b] = remote[b]
      <3>1. OnItsBranch(p)'
        BY <1>2, <2>1, <2>3 DEF Carries, OnItsBranch, At, Exists
      <3>2. ASSUME ~At(p, "idle"), ~At(p, "record_publication"),
                   NEW f \in OnlyChangedBy(ctx[p].run)
            PROVE  CarriesFile(p, f)'
        <4>1. ctx[p].branch \in Branches /\ f \in Paths
          BY <1>1, <3>2, OnlyChangedIsPath DEF TypeInv, Placed
        <4> QED
          BY <1>2, <2>1, <2>3, <3>2, <4>1 DEF Carries, CarriesFile, Changes, Exists, Tip
      <3> QED
        BY <1>2, <3>1, <3>2 DEF Carries, At
    <2> QED
      BY <1>4, <2>2, <2>3
  <1> QED
    BY <1>3, <1>5

LEMMA CarryInvStep ==
    ASSUME OneCommand
    PROVE  CarryInv /\ [Next]_vars => CarryInv'
  <1>1. CarryInv /\ [Next]_vars => BranchInv'
    BY CreateKeeps, SyncKeeps, WorldKeeps, CreateKeepsBranch, SyncKeepsBranch,
       WorldKeepsBranch, TypeInvStep
       DEF Next, CarryInv, BranchInv, RecordInv, Held
  <1>2. CarryInv /\ [Next]_vars => StageInv'
    BY CreateKeepsStage, SyncKeepsStage, WorldKeepsStage, TypeInvStep
       DEF Next, CarryInv, StageInv, Staged
  <1>3. CarryInv /\ [Next]_vars => GrownFacts' /\ FollowedFacts'
    BY CreateFollows, SyncFollows, WorldFollows DEF Next
  <1>4. CarryInv /\ [Next]_vars => (\A q \in Procs : Carries(q)') /\ PullRequestCarriesTheRun'
    BY CreateCarries, SyncCarries, WorldCarries DEF Next
  <1> QED
    BY <1>1, <1>2, <1>3, <1>4 DEF CarryInv, CarryFacts

\* Whatever was staged, committed, checked out or pushed by attempts that were killed,
\* or left behind by other runs and the operator: no pull request is put up beside a
\* branch without the change that it describes.
THEOREM CarriesTheRun == OneCommand => (Spec => []PullRequestCarriesTheRun)
  <1> SUFFICES ASSUME OneCommand PROVE Spec => []PullRequestCarriesTheRun
    OBVIOUS
  <1>1. CarryInv => PullRequestCarriesTheRun
    BY DEF CarryInv
  <1> QED
    BY <1>1, CarryInvStep, CarryInvInit, PTL DEF Spec

-----------------------------------------------------------------------------
(* With one command at a time the delivery implements Delivery *)

\* What a creation pushes to is on GitHub, and the number it is about to record is
\* that of the last pull request, which is its run's.
Delivering(p) ==
    /\ ctx[p].pc \in {"push", "request"} => Exists(remote, ctx[p].branch)
    /\ At(p, "record_pr") =>
          /\ ctx[p].pr = Len(prs) /\ Len(prs) \in DOMAIN prs
          /\ prs[Len(prs)].run = ctx[p].run

DeliveryInv == CarryInv /\ \A p \in Procs : Delivering(p)

\* A branch that extends one with commits has commits.
LEMMA PrefixOfHistory ==
    ASSUME NEW h \in Histories, NEW g \in Histories, h # <<>>, IsPrefix(h, g)
    PROVE  g # <<>>
  <1>1. Len(h) <= Len(g)
    BY DEF IsPrefix
  <1>2. h \in Seq(Snapshots) /\ g \in Seq(Snapshots)
    BY DEF Histories
  <1>3. Len(h) > 0
    BY <1>2
  <1> QED
    BY <1>1, <1>2, <1>3

\* A commit on the base branch creates no branch.
LEMMA BaseKeepsBranches ==
    ASSUME TypeInv, NEW f \in OwnPaths, BaseMoves(f)
    PROVE  \A b \in AllBranches : Exists(remote', b) <=> Exists(remote, b)
  <1> DEFINE commit == [Tip(remote, Base) EXCEPT ![f] = "operator"]
  <1>1. remote[Base] \in Histories /\ Tip(remote, Base) \in Snapshots
    BY TipIsSnapshot DEF TypeInv, TypeOK, AllBranches
  <1>2. commit \in Snapshots
    BY <1>1 DEF Snapshots, Contents, OwnPaths
  <1> HIDE DEF commit
  <1>3. Append(remote[Base], commit) # <<>>
    BY <1>1, <1>2, AppendedHistory
  <1>4. remote' = [remote EXCEPT ![Base] = Append(remote[Base], commit)]
    BY DEF BaseMoves, commit
  <1>5. remote \in [AllBranches -> Histories] /\ Exists(remote, Base)
    BY DEF TypeInv, TypeOK
  <1> QED
    BY <1>3, <1>4, <1>5 DEF Exists

LEMMA CreateDelivers ==
    ASSUME OneCommand, DeliveryInv, NEW p \in Procs, Create(p)
    PROVE  \A q \in Procs : Delivering(q)'
  <1> USE DEF At, Memories
  <1> DEFINE b == ctx[p].branch
  <1>0. \A q \in Procs : q = p
    BY DEF OneCommand
  <1>1. /\ ctx \in [Procs -> Memories] /\ remote \in [AllBranches -> Histories]
        /\ local \in [AllBranches -> Histories]
        /\ prs \in Seq(Requests) /\ Exists(remote, Base)
        /\ ~At(p, "idle") /\ ~At(p, "record_publication") => b \in AllBranches
        /\ Delivering(p)
    BY DEF DeliveryInv, CarryInv, StageInv, TypeInv, TypeOK, Placed, Requests, AllBranches
  <1>2. ASSUME NEW r \in Runs, NEW option \in Branches \cup {NoBranch},
               CreateDraftPr(p, r, option)
        PROVE  Delivering(p)'
    BY <1>1, <1>2 DEF CreateDraftPr, Idle, Delivering
  <1>3. ASSUME PrepareBranch(p) \/ CheckoutBranch(p) \/ RecordBranch(p) \/ StagePaths(p)
               \/ CommitStaged(p) \/ NothingStaged(p) \/ RecordCommit(p)
        PROVE  Delivering(p)'
    BY <1>1, <1>3 DEF PrepareBranch, CheckoutBranch, RecordBranch, StagePaths, CommitStaged,
                      NothingStaged, RecordCommit, Goto, Delivering
  <1>4. ASSUME EnsureBranch(p) PROVE Delivering(p)'
    <2>1. ctx'[p].pc = "push" /\ ctx'[p].branch = b
      BY <1>1, <1>4 DEF EnsureBranch, Goto
    <2>2. Exists(remote', b)
      BY <1>1, <1>4 DEF EnsureBranch, Exists, AllBranches
    <2> QED
      BY <2>1, <2>2 DEF Delivering, Exists
  <1>5. ASSUME Push(p) PROVE Delivering(p)'
    <2>1. /\ ctx'[p].pc = "request" /\ ctx'[p].branch = b /\ remote'[b] = local[b]
          /\ IsPrefix(remote[b], local[b])
      BY <1>1, <1>5 DEF Push, Goto
    <2>2. Exists(remote, b) /\ local[b] \in Histories /\ remote[b] \in Histories
      BY <1>1, <1>5 DEF Push, Delivering
    <2>3. Exists(local, b)
      BY <2>1, <2>2, PrefixOfHistory DEF Exists
    <2> QED
      BY <2>1, <2>3 DEF Delivering, Exists
  <1>6. ASSUME RequestPullRequest(p) PROVE Delivering(p)'
    <2> DEFINE request == [run |-> ctx[p].run, head |-> b, tip |-> remote[b], open |-> TRUE]
    <2>1. /\ prs' = Append(prs, request) /\ ctx'[p].pc = "record_pr"
          /\ ctx'[p].pr = Len(prs') /\ ctx'[p].run = ctx[p].run
      BY <1>1, <1>6 DEF RequestPullRequest
    <2>2. request.run = ctx[p].run
      OBVIOUS
    <2> HIDE DEF request
    <2>3. Len(prs') = Len(prs) + 1 /\ Len(prs') \in DOMAIN prs' /\ prs'[Len(prs')] = request
      BY <1>1, <2>1
    <2> QED
      BY <2>1, <2>2, <2>3 DEF Delivering
  <1>7. ASSUME RecordPullRequest(p) PROVE Delivering(p)'
    BY <1>1, <1>7 DEF RecordPullRequest, End, Idle, Delivering
  <1> QED
    BY <1>0, <1>2, <1>3, <1>4, <1>5, <1>6, <1>7 DEF Create

LEMMA OthersDeliver ==
    ASSUME OneCommand, DeliveryInv,
           World \/ UNCHANGED vars \/ \E p \in Procs : Sync(p) \/ Fail(p)
    PROVE  \A q \in Procs : Delivering(q)'
  <1> USE DEF At, Memories
  <1>1. /\ ctx \in [Procs -> Memories] /\ remote \in [AllBranches -> Histories]
        /\ prs \in [1..Len(prs) -> Requests] /\ Len(prs) \in Nat
        /\ \A q \in Procs : Delivering(q)
    BY RequestTypes DEF DeliveryInv, CarryInv, StageInv, TypeInv, TypeOK, Requests
  <1>2. ASSUME NEW p \in Procs, Sync(p) \/ Fail(p) PROVE Delivering(p)'
    <2>1. ctx'[p].pc \in {"idle", "record_publication"}
      <3>1. CASE \E r \in Runs : SyncPacket(p, r)
        BY <1>1, <3>1 DEF SyncPacket, Idle
      <3>2. CASE RecordPublication(p) \/ Fail(p)
        BY <1>1, <3>2 DEF RecordPublication, Fail, End, Idle
      <3> QED
        BY <1>2, <3>1, <3>2 DEF Sync
    <2> QED
      BY <2>1 DEF Delivering
  <1>3. ASSUME NEW r \in Runs, VerifyRun(r) PROVE \A q \in Procs : Delivering(q)'
    BY <1>1, <1>3 DEF VerifyRun, Delivering
  <1>4. ASSUME NEW f \in Paths, EditFile(f) PROVE \A q \in Procs : Delivering(q)'
    BY <1>1, <1>4 DEF EditFile, Delivering
  <1>5. ASSUME NEW b \in AllBranches, SwitchBranch(b) PROVE \A q \in Procs : Delivering(q)'
    BY <1>1, <1>5 DEF SwitchBranch, Delivering
  <1>6. ASSUME NEW f \in OwnPaths, CommitOwnFile(f) PROVE \A q \in Procs : Delivering(q)'
    BY <1>1, <1>6 DEF CommitOwnFile, Delivering
  <1>7. ASSUME NEW f \in OwnPaths, BaseMoves(f) PROVE \A q \in Procs : Delivering(q)'
    <2>1. \A b \in AllBranches : Exists(remote', b) <=> Exists(remote, b)
      BY <1>7, BaseKeepsBranches DEF DeliveryInv, CarryInv, StageInv
    <2>2. UNCHANGED <<ctx, prs>>
      BY <1>7 DEF BaseMoves
    <2>3. ASSUME NEW q \in Procs, ctx[q].pc \in {"push", "request"}
          PROVE  ctx[q].branch \in AllBranches
      BY <2>3 DEF DeliveryInv, CarryInv, StageInv, TypeInv, Placed, AllBranches
    <2> QED
      BY <1>1, <2>1, <2>2, <2>3 DEF Delivering, Exists
  <1>8. ASSUME NEW n \in DOMAIN prs, ClosePullRequest(n)
        PROVE  \A q \in Procs : Delivering(q)'
    <2>1. prs' = [prs EXCEPT ![n].open = FALSE] /\ UNCHANGED <<ctx, remote>>
      BY <1>8 DEF ClosePullRequest
    <2>2. /\ prs' \in [1..Len(prs) -> Requests] /\ DOMAIN prs' = DOMAIN prs
          /\ \A m \in DOMAIN prs : prs'[m].run = prs[m].run
      BY <1>1, <2>1 DEF Requests
    <2>3. Len(prs') = Len(prs)
      BY <1>1, <2>2
    <2> QED
      BY <1>1, <2>1, <2>2, <2>3 DEF Delivering
  <1>9. ASSUME UNCHANGED vars PROVE \A q \in Procs : Delivering(q)'
    BY <1>1, <1>9 DEF vars, gitVars, Delivering
  <1> QED
    BY <1>2, <1>3, <1>4, <1>5, <1>6, <1>7, <1>8, <1>9 DEF World, OneCommand

Delivered == [Promise!Next]_(Promise!vars)

\* Steps that change neither a record nor a pull request, nor which branches GitHub
\* has.
LEMMA Undelivered ==
    ASSUME record' = record, prs' = prs,
           \A b \in Branches : Exists(remote', b) <=> Exists(remote, b)
    PROVE  Delivered
  <1>1. UNCHANGED <<Named, Linked, Requested, Open>>
    BY DEF Named, Linked, Requested, Open, Seen, Shown
  <1>2. UNCHANGED Published
    BY DEF Published, Exists
  <1> QED
    BY <1>1, <1>2 DEF Delivered, Promise!vars

LEMMA SequenceOf ==
    ASSUME NEW S, NEW n \in Nat, NEW s \in [1..n -> S]
    PROVE  s \in Seq(S) /\ Len(s) = n
  OBVIOUS

LEMMA OneLonger ==
    ASSUME NEW S, NEW s \in Seq(S), NEW e \in S, NEW t \in [1..(Len(s) + 1) -> S],
           \A n \in 1..Len(s) : t[n] = s[n], t[Len(s) + 1] = e
    PROVE  t = Append(s, e)
  <1> DEFINE u == Append(s, e)
  <1>1. u \in Seq(S) /\ Len(u) = Len(s) + 1 /\ Len(s) \in Nat
    OBVIOUS
  <1>2. \A n \in 1..(Len(s) + 1) : t[n] = u[n]
    OBVIOUS
  <1> HIDE DEF u
  <1>3. u \in [1..Len(u) -> S]
    BY <1>1
  <1>4. u = t
    BY <1>1, <1>2, <1>3
  <1> QED
    BY <1>4 DEF u

AbstractRequests == [run : Runs, head : Branches, shown : SUBSET Runs]

LEMMA SeenTypes ==
    ASSUME NEW pr \in Requests
    PROVE  /\ Seen(pr) \in AbstractRequests
           /\ Seen(pr).run = pr.run /\ Seen(pr).head = pr.head
  <1>1. Shown(pr.tip) \subseteq Runs
    BY DEF Shown
  <1>2. pr.run \in Runs /\ pr.head \in Branches
    BY DEF Requests
  <1> QED
    BY <1>1, <1>2 DEF Seen, AbstractRequests

\* The abstract pull requests are as many as there are, and each is about its own.
LEMMA SeenRequests ==
    ASSUME NEW q \in Seq(Requests)
    PROVE  LET s == [n \in DOMAIN q |-> Seen(q[n])]
           IN  /\ s \in Seq(AbstractRequests) /\ s \in [1..Len(q) -> AbstractRequests]
               /\ Len(s) = Len(q) /\ DOMAIN s = DOMAIN q
               /\ \A n \in DOMAIN q : s[n].run = q[n].run /\ s[n].head = q[n].head
  <1> DEFINE s == [n \in DOMAIN q |-> Seen(q[n])]
  <1>1. DOMAIN q = 1..Len(q) /\ Len(q) \in Nat /\ \A n \in DOMAIN q : q[n] \in Requests
    OBVIOUS
  <1>2. DOMAIN s = DOMAIN q /\ \A n \in DOMAIN q : s[n] = Seen(q[n])
    OBVIOUS
  <1>3. s \in [1..Len(q) -> AbstractRequests]
    BY <1>1, SeenTypes
  <1> HIDE DEF s
  <1>4. s \in Seq(AbstractRequests) /\ Len(s) = Len(q)
    BY <1>1, <1>3, SequenceOf
  <1>5. \A n \in DOMAIN q : s[n].run = q[n].run /\ s[n].head = q[n].head
    BY <1>1, <1>2, SeenTypes
  <1> QED
    BY <1>2, <1>3, <1>4, <1>5 DEF s

LEMMA RequestedTypes ==
    ASSUME prs \in Seq(Requests)
    PROVE  /\ Requested \in Seq(AbstractRequests)
           /\ Len(Requested) = Len(prs) /\ DOMAIN Requested = DOMAIN prs
           /\ \A n \in DOMAIN prs : /\ Requested[n].run = prs[n].run
                                    /\ Requested[n].head = prs[n].head
  BY SeenRequests DEF Requested

LEMMA CreateIsDelivered ==
    ASSUME OneCommand, DeliveryInv, NEW p \in Procs, Create(p)
    PROVE  Delivered
  <1> USE DEF At, Memories
  <1> DEFINE r == ctx[p].run
             b == ctx[p].branch
  <1>1. /\ ctx \in [Procs -> Memories] /\ remote \in [AllBranches -> Histories]
        /\ local \in [AllBranches -> Histories] /\ record \in [Runs -> Blocks]
        /\ prs \in Seq(Requests) /\ TypeInv
        /\ ~At(p, "idle") => r \in Runs
        /\ ~At(p, "idle") /\ ~At(p, "record_publication") => b \in Branches /\ b \in AllBranches
        /\ Delivering(p) /\ Carries(p) /\ HoldsTheRecord(p) /\ HoldsTheBranch(p)
    BY DEF DeliveryInv, CarryInv, CarryFacts, BranchInv, BranchFacts, RecordInv, TypeInv,
           TypeOK, Placed, Requests, AllBranches
  <1>2. ASSUME (\E q \in Runs, option \in Branches \cup {NoBranch} : CreateDraftPr(p, q, option))
               \/ PrepareBranch(p) \/ CheckoutBranch(p) \/ StagePaths(p)
               \/ CommitStaged(p) \/ NothingStaged(p) \/ RecordCommit(p)
        PROVE  Delivered
    <2>1. UNCHANGED <<prs, remote, record>>
      BY <1>1, <1>2
         DEF CreateDraftPr, PrepareBranch, CheckoutBranch, StagePaths, CommitStaged,
             NothingStaged, RecordCommit, Persist, HoldsTheRecord
    <2> QED
      BY <2>1, Undelivered
  <1>3. ASSUME RecordBranch(p) PROVE Delivered
    <2>1. /\ record' = [record EXCEPT ![r] = [ctx[p].mem EXCEPT !.branch = b]]
          /\ ctx[p].mem = record[r] /\ record[r].pr = NoPullRequest
          /\ r \in Runs /\ b \in Branches /\ UNCHANGED <<prs, remote>>
      BY <1>1, <1>3 DEF RecordBranch, Persist, HoldsTheRecord
    <2>2. CASE record[r].branch = NoBranch
      <3>1. Named' = [Named EXCEPT ![r] = b]
        BY <1>1, <2>1 DEF Named, Blocks
      <3>2. UNCHANGED <<Published, Requested, Open, Linked>>
        BY <1>1, <2>1 DEF Published, Requested, Open, Seen, Shown, Linked, Blocks
      <3>3. Named[r] = NoBranch /\ Linked[r] = 0
        BY <2>1, <2>2 DEF Named, Linked, NoPullRequest
      <3>4. Promise!Name(r, b)
        BY <3>1, <3>2, <3>3 DEF Promise!Name, Promise!Pending
      <3> QED
        BY <2>1, <3>4 DEF Delivered, Promise!Next
    <2>3. CASE record[r].branch = b
      <3>1. record' = record
        BY <1>1, <2>1, <2>3 DEF Blocks
      <3> QED
        BY <2>1, <3>1, Undelivered
    <2> QED
      BY <1>1, <1>3, <2>2, <2>3 DEF RecordBranch, HoldsTheBranch
  <1>4. ASSUME EnsureBranch(p) \/ Push(p), Exists(remote', b) PROVE Delivered
    <2>1. /\ b = record[r].branch /\ record[r].pr = NoPullRequest /\ r \in Runs
          /\ b \in Branches /\ UNCHANGED <<prs, record>>
      BY <1>1, <1>4 DEF EnsureBranch, Push, HoldsTheBranch, HoldsTheRecord
    <2>2. \A c \in Branches : c # b => remote'[c] = remote[c]
      BY <1>1, <1>4 DEF EnsureBranch, Push, AllBranches
    <2>3. Exists(remote, b) \/ Published' = Published \cup {b}
      BY <1>4, <2>1, <2>2 DEF Published, Exists
    <2>4. CASE Exists(remote, b)
      BY <1>4, <2>1, <2>2, <2>4, Undelivered DEF Exists
    <2>5. CASE Published' = Published \cup {b}
      <3>1. UNCHANGED <<Named, Requested, Open, Linked>>
        BY <2>1 DEF Named, Requested, Open, Seen, Shown, Linked
      <3>2. Named[r] = b /\ Linked[r] = 0
        BY <2>1 DEF Named, Linked, NoPullRequest
      <3>3. b # NoBranch
        BY <2>1, GithubAssumption DEF NoBranch
      <3>4. Promise!Publish(r)
        BY <2>5, <3>1, <3>2, <3>3 DEF Promise!Publish, Promise!Pending
      <3> QED
        BY <2>1, <3>4 DEF Delivered, Promise!Next
    <2> QED
      BY <2>3, <2>4, <2>5
  <1>5. ASSUME EnsureBranch(p) PROVE Delivered
    BY <1>1, <1>4, <1>5 DEF EnsureBranch, DeliveryInv, CarryInv, StageInv, TypeInv, Exists
  <1>6. ASSUME Push(p) PROVE Delivered
    <2>1. Exists(remote', b)
      BY <1>1, <1>6, PrefixOfHistory DEF Push, Delivering, Exists
    <2> QED
      BY <1>4, <1>6, <2>1
  <1>7. ASSUME RequestPullRequest(p) PROVE Delivered
    <2> DEFINE request == [run |-> r, head |-> b, tip |-> remote[b], open |-> TRUE]
               shown == Shown(remote[b])
               new == [run |-> r, head |-> b, shown |-> shown]
    <2>1. /\ b = record[r].branch /\ record[r].pr = NoPullRequest /\ r \in Runs
          /\ b \in Branches /\ UNCHANGED <<remote, record>> /\ prs' = Append(prs, request)
          /\ ctx[p].pc = "request" /\ Exists(remote, b)
          /\ \A n \in DOMAIN prs : prs[n].open => prs[n].head # b
      BY <1>1, <1>7 DEF RequestPullRequest, HoldsTheBranch, HoldsTheRecord, Delivering
    <2>2. r \in shown /\ shown \subseteq Runs
      BY <1>1, <2>1 DEF Shown, OwnChange, Carries, CarriesFile, Changes, Tip
    <2>3. request.run = r /\ request.head = b /\ request.tip = remote[b] /\ request.open
      OBVIOUS
    <2>4. new \in AbstractRequests
      BY <2>1, <2>2 DEF AbstractRequests
    <2> HIDE DEF request, shown
    <2>5. /\ DOMAIN prs' = 1..(Len(prs) + 1) /\ DOMAIN prs = 1..Len(prs) /\ Len(prs) \in Nat
          /\ \A n \in DOMAIN prs : prs'[n] = prs[n]
          /\ prs'[Len(prs) + 1] = request
      BY <1>1, <2>1
    <2>6. Requested' = Append(Requested, new)
      <3> DEFINE s == [n \in DOMAIN prs |-> Seen(prs[n])]
                 t == [n \in DOMAIN prs' |-> Seen(prs'[n])]
      <3>1. request \in Requests /\ Seen(request) = new
        BY <1>1, <2>1, <2>3 DEF Requests, Seen, request, shown
      <3>2. prs' \in Seq(Requests) /\ Len(prs') = Len(prs) + 1
        BY <1>1, <2>1, <3>1
      <3>3. Requested = s /\ Requested' = t
        BY DEF Requested, Seen, Shown
      <3>4. /\ s \in Seq(AbstractRequests) /\ Len(s) = Len(prs)
            /\ t \in [1..(Len(prs) + 1) -> AbstractRequests]
        <4>1. s \in Seq(AbstractRequests) /\ Len(s) = Len(prs)
          BY <1>1, SeenRequests
        <4>2. t \in [1..Len(prs') -> AbstractRequests]
          BY <3>2, SeenRequests
        <4> QED
          BY <3>2, <4>1, <4>2
      <3>5. /\ \A n \in 1..(Len(prs) + 1) : t[n] = Seen(prs'[n])
            /\ \A n \in 1..Len(prs) : s[n] = Seen(prs[n])
        BY <2>5
      <3>6. new \in AbstractRequests
        BY <3>1, SeenTypes
      <3> HIDE DEF s, t, new
      <3>7. (\A n \in 1..Len(prs) : t[n] = s[n]) /\ t[Len(prs) + 1] = new
        BY <2>5, <3>1, <3>5
      <3> QED
        BY <3>3, <3>4, <3>6, <3>7, OneLonger
    <2>7. UNCHANGED <<Named, Published, Linked>>
      BY <2>1 DEF Named, Published, Linked
    <2>8. Named[r] = b /\ b \in Published /\ Linked[r] = 0
      BY <2>1 DEF Named, Published, Linked, NoPullRequest
    <2>9. \A n \in Open : Requested[n].head # Named[r]
      BY <1>1, <2>1, <2>8, RequestedTypes DEF Open
    <2>10. Open' = Open \cup {Len(Requested) + 1}
      BY <1>1, <2>3, <2>5, RequestedTypes DEF Open
    <2>11. Promise!Request(r, shown)
      BY <2>6, <2>7, <2>8, <2>9, <2>10 DEF Promise!Request, Promise!Pending
    <2> QED
      BY <2>1, <2>2, <2>11 DEF Delivered, Promise!Next
  <1>8. ASSUME RecordPullRequest(p) PROVE Delivered
    <2> DEFINE n == ctx[p].pr
    <2>1. /\ record' = [record EXCEPT ![r] = [ctx[p].mem EXCEPT !.pr = n]]
          /\ ctx[p].mem = record[r] /\ record[r].pr = NoPullRequest
          /\ r \in Runs /\ UNCHANGED <<prs, remote>>
          /\ n = Len(prs) /\ n \in DOMAIN prs /\ prs[n].run = r
      BY <1>1, <1>8 DEF RecordPullRequest, Persist, HoldsTheRecord, Delivering
    <2>2. Linked' = [Linked EXCEPT ![r] = n]
      BY <1>1, <2>1 DEF Linked, Blocks
    <2>3. UNCHANGED <<Named, Published, Requested, Open>>
      BY <1>1, <2>1 DEF Named, Published, Requested, Open, Seen, Shown, Blocks
    <2>4. Linked[r] = 0
      BY <2>1 DEF Linked, NoPullRequest
    <2>5. n \in DOMAIN Requested /\ Requested[n].run = r
      BY <1>1, <2>1, RequestedTypes
    <2>6. \A m \in DOMAIN Requested : m <= n
      BY <1>1, <2>1, RequestedTypes
    <2>7. Promise!Link(r, n)
      BY <2>2, <2>3, <2>4, <2>5, <2>6 DEF Promise!Link, Promise!Pending
    <2> QED
      BY <2>1, <2>5, <2>7 DEF Delivered, Promise!Next
  <1> QED
    BY <1>2, <1>3, <1>5, <1>6, <1>7, <1>8 DEF Create

LEMMA CloseIsDelivered ==
    ASSUME DeliveryInv, NEW n \in DOMAIN prs, ClosePullRequest(n)
    PROVE  Delivered
  <1>1. /\ prs' = [prs EXCEPT ![n].open = FALSE] /\ prs[n].open
        /\ UNCHANGED <<record, remote>>
    BY DEF ClosePullRequest
  <1>2. prs \in [1..Len(prs) -> Requests]
    BY RequestTypes DEF DeliveryInv, CarryInv, StageInv
  <1>3. /\ DOMAIN prs' = DOMAIN prs /\ prs'[n].open = FALSE
        /\ \A m \in DOMAIN prs : /\ prs'[m].run = prs[m].run /\ prs'[m].head = prs[m].head
                                 /\ prs'[m].tip = prs[m].tip
                                 /\ m # n => prs'[m].open = prs[m].open
    BY <1>1, <1>2 DEF Requests
  <1>4. UNCHANGED Requested
    BY <1>3 DEF Requested, Seen, Shown
  <1>5. UNCHANGED <<Named, Published, Linked>>
    BY <1>1 DEF Named, Published, Linked
  <1>6. n \in Open /\ Open' = Open \ {n}
    BY <1>1, <1>3 DEF Open
  <1>7. Promise!Close(n)
    BY <1>4, <1>5, <1>6 DEF Promise!Close
  <1> QED
    BY <1>6, <1>7 DEF Delivered, Promise!Next

LEMMA OthersAreDelivered ==
    ASSUME DeliveryInv, World \/ UNCHANGED vars \/ \E p \in Procs : Sync(p) \/ Fail(p)
    PROVE  Delivered
  <1>1. ASSUME NEW p \in Procs, Sync(p) \/ Fail(p) PROVE Delivered
    <2>1. record \in [Runs -> Blocks] /\ HoldsTheRecord(p) /\ TypeInv
      BY DEF DeliveryInv, CarryInv, BranchInv, RecordInv, TypeInv, TypeOK
    <2>2. UNCHANGED <<prs, remote, record>>
      <3>1. CASE (\E r \in Runs : SyncPacket(p, r)) \/ Fail(p)
        BY <3>1 DEF SyncPacket, Fail
      <3>2. CASE RecordPublication(p)
        <4>1. UNCHANGED <<prs, remote>> /\ Persist(p, ctx[p].mem)
          BY <3>2 DEF RecordPublication
        <4>2. ctx[p].mem = record[ctx[p].run]
          BY <2>1, <3>2 DEF RecordPublication, HoldsTheRecord, At
        <4> QED
          BY <2>1, <4>1, <4>2 DEF Persist
      <3> QED
        BY <1>1, <3>1, <3>2 DEF Sync
    <2> QED
      BY <2>2, Undelivered
  <1>2. ASSUME NEW f \in OwnPaths, BaseMoves(f) PROVE Delivered
    <2>1. TypeInv /\ UNCHANGED <<prs, record>>
      BY <1>2 DEF BaseMoves, DeliveryInv, CarryInv, StageInv
    <2> QED
      BY <1>2, <2>1, BaseKeepsBranches, Undelivered DEF AllBranches
  <1>3. ASSUME \/ \E r \in Runs : VerifyRun(r)
               \/ \E f \in Paths : EditFile(f)
               \/ \E b \in AllBranches : SwitchBranch(b)
               \/ \E f \in OwnPaths : CommitOwnFile(f)
               \/ UNCHANGED vars
        PROVE  Delivered
    <2>1. UNCHANGED <<prs, remote, record>>
      BY <1>3 DEF VerifyRun, EditFile, SwitchBranch, CommitOwnFile, vars
    <2> QED
      BY <2>1, Undelivered
  <1> QED
    BY <1>1, <1>2, <1>3, CloseIsDelivered DEF World

\* Whatever fails between two calls of a command, and whatever the operator and
\* others do meanwhile, run.json and GitHub show a behaviour of Delivery: a branch is
\* on record before GitHub has it and keeps its name, a pull request shows its run and
\* is the only open one of its branch, and the number on record stays.
THEOREM DeliveryHolds == OneCommand => (Spec => DeliveryKept)
  <1> SUFFICES ASSUME OneCommand PROVE Spec => DeliveryKept
    OBVIOUS
  <1>1. Init => DeliveryInv
    BY CarryInvInit DEF DeliveryInv, Delivering, Init, Idle, At
  <1>2. DeliveryInv /\ [Next]_vars => DeliveryInv'
    BY CarryInvStep, CreateDelivers, OthersDeliver DEF DeliveryInv, Next
  <1>3. DeliveryInv /\ [Next]_vars => [Promise!Next]_(Promise!vars)
    BY CreateIsDelivered, OthersAreDelivered DEF Delivered, Next
  <1>4. Init => Promise!Init
    BY GithubAssumption
       DEF Init, Promise!Init, Named, Published, Requested, Open, Linked, Exists, NoRecord,
           NoPullRequest, AllBranches
  <1> QED
    BY <1>1, <1>2, <1>3, <1>4, PTL DEF Spec, DeliveryKept, Promise!Spec

=============================================================================
