-------------------------- MODULE IterationRequests --------------------------
(***************************************************************************)
(* `gdh pr comments` and `gdh pr iterate` for one run whose pull request is *)
(* recorded: comments that begin with the command prefix become iteration   *)
(* requests among the run's artifacts, and the latest one becomes the input *)
(* of a follow-up run.  People post, edit and delete comments meanwhile,    *)
(* and a command may fail or be killed between any two of its writes.       *)
(***************************************************************************)
EXTENDS Naturals, FiniteSets

CONSTANTS
    Procs,         \* gdh commands at one time
    NumComments,   \* comments that can be posted, in the order GitHub lists them
    Instructions   \* what a comment may ask for

ASSUME CommentsAssumption ==
    NumComments \in Nat /\ {"absent", "plain", "deleted"} \cap Instructions = {}

Comments == 1..NumComments

\* A comment is not there yet, has no command prefix, asks for something, or is gone.
Texts == Instructions \cup {"absent", "plain", "deleted"}

\* createGithubIterationRequestRecord: the id is made of the run, the comment, the
\* instruction and the time the comment was created, which editing leaves alone.
\* The names of the artifacts are made of the id.
RequestIds == Comments \X Instructions
RequestId(c, text) == <<c, text>>

VARIABLES
    thread,    \* [Comments -> Texts], the comments on GitHub
    fetched,   \* pr-comments.json, a thread or <<>>
    requests,  \* [RequestIds -> absent | listed | linked], the .json files
    inputs,    \* the .md files, by id
    recorded,  \* iterationRequestPaths in run.json, by id
    ctx        \* [Procs -> the command and its memory]

vars == <<thread, fetched, requests, inputs, recorded, ctx>>

Idle == [pc |-> "idle", cmd |-> "none", mem |-> {}, todo |-> {}, found |-> {}]

\* Mutant: the command prefix is not looked for.
RequestsOfAnyComment(comments) ==
    {RequestId(c, comments[c]) : c \in {d \in DOMAIN comments : comments[d] # "absent"}}

\* extractIterationInstruction, for each of a list of comments.
RequestsOf(comments) ==
    {RequestId(c, comments[c]) : c \in {d \in DOMAIN comments : comments[d] \in Instructions}}

\* The last comment of a list that asks for something.
LatestRequests(comments) ==
    {id \in RequestsOf(comments) : \A other \in RequestsOf(comments) : other[1] <= id[1]}

Init ==
    /\ thread = [c \in Comments |-> "absent"]
    /\ fetched = <<>>
    /\ requests = [id \in RequestIds |-> "absent"]
    /\ inputs = {}
    /\ recorded = {}
    /\ ctx = [p \in Procs |-> Idle]

At(p, pc) == ctx[p].pc = pc
End(p) == ctx' = [ctx EXCEPT ![p] = Idle]
Goto(p, pc) == ctx' = [ctx EXCEPT ![p].pc = pc]

-----------------------------------------------------------------------------
(* gdh pr comments *)

\* Both commands begin with syncComments, which takes its copy of run.json.
Invoke(p, cmd) ==
    /\ At(p, "idle")
    /\ ctx' = [ctx EXCEPT ![p] = [Idle EXCEPT !.pc = "fetch", !.cmd = cmd, !.mem = recorded]]
    /\ UNCHANGED <<thread, fetched, requests, inputs, recorded>>

FetchComments(p) ==
    /\ At(p, "fetch")
    /\ fetched' = thread
    /\ ctx' = [ctx EXCEPT ![p].pc = "write_requests", ![p].found = RequestsOf(thread),
                          ![p].todo = RequestsOf(thread)]
    /\ UNCHANGED <<thread, requests, inputs, recorded>>

\* One file per request, in the order of the comments.
WriteRequest(p) ==
    /\ At(p, "write_requests")
    /\ \E id \in ctx[p].todo :
        /\ \A other \in ctx[p].todo : id[1] <= other[1]
        /\ requests' = [requests EXCEPT ![id] = "listed"]
        /\ ctx' = [ctx EXCEPT ![p].todo = @ \ {id}]
    /\ UNCHANGED <<thread, fetched, inputs, recorded>>

\* Mutant: the paths of the last synchronization only.
RecordFoundOnly(p) ==
    /\ At(p, "write_requests")
    /\ ctx[p].todo = {}
    /\ recorded' = ctx[p].found
    /\ IF ctx[p].cmd = "iterate" THEN Goto(p, "iterate") ELSE End(p)
    /\ UNCHANGED <<thread, fetched, requests, inputs>>

\* Mutant: run.json is written before the files it names.
RecordBeforeWriting(p) ==
    /\ At(p, "write_requests")
    /\ recorded' = ctx[p].mem \cup ctx[p].found
    /\ IF ctx[p].todo # {} THEN UNCHANGED ctx
       ELSE IF ctx[p].cmd = "iterate" THEN Goto(p, "iterate") ELSE End(p)
    /\ UNCHANGED <<thread, fetched, requests, inputs>>

\* persistGithub, over the paths that were recorded when the command began.
RecordRequests(p) ==
    /\ At(p, "write_requests")
    /\ ctx[p].todo = {}
    /\ recorded' = ctx[p].mem \cup ctx[p].found
    /\ IF ctx[p].cmd = "iterate" THEN Goto(p, "iterate") ELSE End(p)
    /\ UNCHANGED <<thread, fetched, requests, inputs>>

-----------------------------------------------------------------------------
(* gdh pr iterate, after the synchronization *)

\* run.json and pr-comments.json are read again; without a request the command
\* is blocked.
ChooseLatest(p) ==
    /\ At(p, "iterate")
    /\ LET latest == LatestRequests(fetched)
       IN  IF latest = {} THEN End(p)
           ELSE ctx' = [ctx EXCEPT ![p].pc = "write_input", ![p].mem = recorded,
                                   ![p].found = latest]
    /\ UNCHANGED <<thread, fetched, requests, inputs, recorded>>

\* Mutant: the input is forgotten.
WriteInputNever(p) ==
    /\ At(p, "write_input")
    /\ Goto(p, "write_linked")
    /\ UNCHANGED <<thread, fetched, requests, inputs, recorded>>

WriteInput(p) ==
    /\ At(p, "write_input")
    /\ inputs' = inputs \cup ctx[p].found
    /\ Goto(p, "write_linked")
    /\ UNCHANGED <<thread, fetched, requests, recorded>>

\* The same file as before, now with normalizedInputPath.
WriteLinkedRequest(p) ==
    /\ At(p, "write_linked")
    /\ requests' = [id \in RequestIds |-> IF id \in ctx[p].found THEN "linked" ELSE requests[id]]
    /\ Goto(p, "record_linked")
    /\ UNCHANGED <<thread, fetched, inputs, recorded>>

RecordLinkedRequest(p) ==
    /\ At(p, "record_linked")
    /\ recorded' = ctx[p].mem \cup ctx[p].found
    /\ End(p)
    /\ UNCHANGED <<thread, fetched, requests, inputs>>

-----------------------------------------------------------------------------
(* The rest of the world *)

Fail(p) ==
    /\ ~At(p, "idle")
    /\ End(p)
    /\ UNCHANGED <<thread, fetched, requests, inputs, recorded>>

\* A comment is posted after the others, and edited or deleted while it is there.
WriteComment(c, text) ==
    /\ text \notin {thread[c], "absent"}
    /\ IF thread[c] = "absent"
       THEN text # "deleted" /\ \A d \in 1..(c - 1) : thread[d] # "absent"
       ELSE thread[c] # "deleted"
    /\ thread' = [thread EXCEPT ![c] = text]
    /\ UNCHANGED <<fetched, requests, inputs, recorded, ctx>>

Step(p) ==
    \/ \E cmd \in {"comments", "iterate"} : Invoke(p, cmd)
    \/ FetchComments(p)
    \/ WriteRequest(p)
    \/ RecordRequests(p)
    \/ ChooseLatest(p)
    \/ WriteInput(p)
    \/ WriteLinkedRequest(p)
    \/ RecordLinkedRequest(p)
    \/ Fail(p)

Next == \/ \E p \in Procs : Step(p)
        \/ \E c \in Comments, text \in Texts : WriteComment(c, text)

Spec == Init /\ [][Next]_vars

-----------------------------------------------------------------------------
(* Properties *)

Places == {"idle", "fetch", "write_requests", "iterate", "write_input", "write_linked",
           "record_linked"}

\* Every variable has its type.
TypeOK ==
    /\ thread \in [Comments -> Texts]
    /\ fetched = <<>> \/ fetched \in [Comments -> Texts]
    /\ requests \in [RequestIds -> {"absent", "listed", "linked"}]
    /\ inputs \subseteq RequestIds
    /\ recorded \subseteq RequestIds
    /\ ctx \in [Procs -> [pc : Places, cmd : {"none", "comments", "iterate"},
                          mem : SUBSET RequestIds, todo : SUBSET RequestIds,
                          found : SUBSET RequestIds]]

\* Every request that run.json names is among the artifacts, however often a
\* synchronization failed half way and whatever became of the comment since.
RecordedRequestsExist == \A id \in recorded : requests[id] # "absent"

\* A request that says where its input is, has that input: an iteration that was
\* killed leaves no request a follow-up run would look in vain for.
LinkedRequestHasInput == \A id \in RequestIds : requests[id] = "linked" => id \in inputs

\* A request once recorded stays recorded when its comment is edited or deleted,
\* so a follow-up run can cite it (syncComments unites the paths).
RequestsAreNotForgotten == [][recorded \subseteq recorded']_vars

=============================================================================
