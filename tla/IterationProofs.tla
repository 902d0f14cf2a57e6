--------------------------- MODULE IterationProofs ---------------------------
(***************************************************************************)
(* Theorems about IterationRequests, for any number of comments and         *)
(* instructions and, but for the last one, any number of commands at once.  *)
(***************************************************************************)
EXTENDS IterationRequests, TLAPS

\* The requests that have a file.
Written == {id \in RequestIds : requests[id] # "absent"}

\* What a command holds is what it read or wrote: its copy of run.json names
\* files that are there, and what it has passed over has been written.
HeldIsWritten(p) ==
    /\ ctx[p].mem \subseteq Written
    /\ At(p, "write_requests") => ctx[p].found \ ctx[p].todo \subseteq Written
    /\ At(p, "write_linked") \/ At(p, "record_linked") => ctx[p].found \subseteq inputs
    /\ At(p, "record_linked") => ctx[p].found \subseteq Written

FilesInv ==
    /\ TypeOK
    /\ RecordedRequestsExist
    /\ LinkedRequestHasInput
    /\ \A p \in Procs : HeldIsWritten(p)

-----------------------------------------------------------------------------

\* Whatever the comments say, their requests have ids.
LEMMA RequestsHaveIds ==
    ASSUME NEW comments \in {<<>>} \cup [Comments -> Texts]
    PROVE  /\ RequestsOf(comments) \subseteq RequestIds
           /\ LatestRequests(comments) \subseteq RequestIds
  <1>1. DOMAIN comments \subseteq Comments
    BY SMT
  <1>2. RequestsOf(comments) \subseteq RequestIds
    BY <1>1 DEF RequestsOf, RequestIds, RequestId
  <1> QED
    BY <1>2 DEF LatestRequests

LEMMA FilesInvInit == Init => FilesInv
  BY CommentsAssumption
     DEF Init, FilesInv, TypeOK, RecordedRequestsExist, LinkedRequestHasInput,
         HeldIsWritten, At, Idle, Texts, Places, RequestIds

\* Type correctness is inductive by itself.
LEMMA TypeStep == TypeOK /\ [Next]_vars => TypeOK'
  <1> SUFFICES ASSUME TypeOK, [Next]_vars PROVE TypeOK'
    OBVIOUS
  <1> USE DEF TypeOK, Places
  <1>1. ASSUME NEW p \in Procs, NEW cmd \in {"comments", "iterate"}, Invoke(p, cmd)
        PROVE  TypeOK'
    BY <1>1 DEF Invoke, Idle
  <1>2. ASSUME NEW p \in Procs, FetchComments(p) PROVE TypeOK'
    <2>1. RequestsOf(thread) \subseteq RequestIds
      BY RequestsHaveIds
    <2>2. ctx' = [ctx EXCEPT ![p] = [@ EXCEPT !.pc = "write_requests",
                                              !.found = RequestsOf(thread),
                                              !.todo = RequestsOf(thread)]]
      BY <1>2 DEF FetchComments
    <2> QED
      BY <1>2, <2>1, <2>2 DEF FetchComments
  <1>3. ASSUME NEW p \in Procs, WriteRequest(p) PROVE TypeOK'
    BY <1>3 DEF WriteRequest
  <1>4. ASSUME NEW p \in Procs, RecordRequests(p) PROVE TypeOK'
    BY <1>4 DEF RecordRequests, Goto, End, Idle
  <1>5. ASSUME NEW p \in Procs, ChooseLatest(p) PROVE TypeOK'
    <2>1. LatestRequests(fetched) \subseteq RequestIds
      BY RequestsHaveIds
    <2> QED
      BY <1>5, <2>1 DEF ChooseLatest, End, Idle
  <1>6. ASSUME NEW p \in Procs, WriteInput(p) PROVE TypeOK'
    BY <1>6 DEF WriteInput, Goto
  <1>7. ASSUME NEW p \in Procs, WriteLinkedRequest(p) PROVE TypeOK'
    BY <1>7 DEF WriteLinkedRequest, Goto
  <1>8. ASSUME NEW p \in Procs, RecordLinkedRequest(p) PROVE TypeOK'
    BY <1>8 DEF RecordLinkedRequest, End, Idle
  <1>9. ASSUME NEW p \in Procs, Fail(p) PROVE TypeOK'
    BY <1>9 DEF Fail, End, Idle
  <1>10. ASSUME NEW c \in Comments, NEW text \in Texts, WriteComment(c, text)
         PROVE  TypeOK'
    BY <1>10 DEF WriteComment
  <1>11. ASSUME UNCHANGED vars PROVE TypeOK'
    BY <1>11 DEF vars
  <1> QED
    BY <1>1, <1>2, <1>3, <1>4, <1>5, <1>6, <1>7, <1>8, <1>9, <1>10, <1>11 DEF Next, Step

\* Files and inputs are only ever added.
LEMMA FilesStay ==
    TypeOK /\ [Next]_vars => Written \subseteq Written' /\ inputs \subseteq inputs'
  BY DEF TypeOK, Next, Step, vars, Written, Invoke, FetchComments, WriteRequest,
         RecordRequests, ChooseLatest, WriteInput, WriteLinkedRequest,
         RecordLinkedRequest, Fail, WriteComment

\* A command other than the one that moves still holds only what is written.
LEMMA OthersHold ==
    ASSUME FilesInv, [Next]_vars, NEW q \in Procs, ctx'[q] = ctx[q]
    PROVE  HeldIsWritten(q)'
  BY FilesStay DEF FilesInv, HeldIsWritten, At

\* A step that moves command p, if the command keeps its hold and what is
\* recorded and linked is right, keeps the invariant.
LEMMA OneMoves ==
    ASSUME FilesInv, [Next]_vars, NEW p \in Procs,
           \A q \in Procs \ {p} : ctx'[q] = ctx[q],
           RecordedRequestsExist', LinkedRequestHasInput', HeldIsWritten(p)'
    PROVE  FilesInv'
  <1>1. TypeOK'
    BY TypeStep DEF FilesInv
  <1>2. \A q \in Procs : HeldIsWritten(q)'
    BY OthersHold
  <1> QED
    BY <1>1, <1>2 DEF FilesInv

LEMMA FilesInvStep == FilesInv /\ [Next]_vars => FilesInv'
  <1> SUFFICES ASSUME FilesInv, [Next]_vars PROVE FilesInv'
    OBVIOUS
  <1>t. TypeOK
    BY DEF FilesInv
  <1>m. Written \subseteq Written' /\ inputs \subseteq inputs'
    BY <1>t, FilesStay
  <1>r. ASSUME UNCHANGED <<recorded, requests>> PROVE RecordedRequestsExist'
    BY <1>r DEF FilesInv, RecordedRequestsExist
  <1>l. ASSUME UNCHANGED requests PROVE LinkedRequestHasInput'
    BY <1>l, <1>m DEF FilesInv, LinkedRequestHasInput
  <1>1. ASSUME NEW p \in Procs, NEW cmd \in {"comments", "iterate"}, Invoke(p, cmd)
        PROVE  FilesInv'
    <2>1. HeldIsWritten(p)'
      BY <1>1, <1>t DEF Invoke, HeldIsWritten, At, Idle, FilesInv, RecordedRequestsExist,
                        Written, TypeOK
    <2> QED
      BY <1>1, <1>r, <1>l, <1>t, <2>1, OneMoves DEF Invoke, TypeOK
  <1>2. ASSUME NEW p \in Procs, FetchComments(p) PROVE FilesInv'
    <2>1. HeldIsWritten(p)'
      BY <1>2, <1>t DEF FetchComments, HeldIsWritten, At, FilesInv, Written, TypeOK
    <2> QED
      BY <1>2, <1>r, <1>l, <1>t, <2>1, OneMoves DEF FetchComments, TypeOK
  <1>3. ASSUME NEW p \in Procs, WriteRequest(p) PROVE FilesInv'
    <2>1. HeldIsWritten(p)'
      BY <1>3, <1>t DEF WriteRequest, HeldIsWritten, At, FilesInv, Written, TypeOK
    <2>2. RecordedRequestsExist' /\ LinkedRequestHasInput'
      BY <1>3, <1>t DEF WriteRequest, FilesInv, RecordedRequestsExist,
                        LinkedRequestHasInput, TypeOK
    <2> QED
      BY <1>3, <1>t, <2>1, <2>2, OneMoves DEF WriteRequest, TypeOK
  <1>4. ASSUME NEW p \in Procs, RecordRequests(p) PROVE FilesInv'
    <2>1. HeldIsWritten(p)'
      BY <1>4, <1>t DEF RecordRequests, Goto, End, Idle, HeldIsWritten, At, FilesInv,
                        Written, TypeOK
    <2>2. RecordedRequestsExist'
      BY <1>4, <1>t DEF RecordRequests, FilesInv, HeldIsWritten, At,
                        RecordedRequestsExist, Written
    <2> QED
      BY <1>4, <1>l, <1>t, <2>1, <2>2, OneMoves DEF RecordRequests, Goto, End, TypeOK
  <1>5. ASSUME NEW p \in Procs, ChooseLatest(p) PROVE FilesInv'
    <2>1. HeldIsWritten(p)'
      BY <1>5, <1>t DEF ChooseLatest, End, Idle, HeldIsWritten, At, FilesInv,
                        RecordedRequestsExist, Written, TypeOK
    <2> QED
      BY <1>5, <1>r, <1>l, <1>t, <2>1, OneMoves DEF ChooseLatest, End, TypeOK
  <1>6. ASSUME NEW p \in Procs, WriteInput(p) PROVE FilesInv'
    <2>1. HeldIsWritten(p)'
      BY <1>6, <1>t DEF WriteInput, Goto, HeldIsWritten, At, FilesInv, Written, TypeOK
    <2> QED
      BY <1>6, <1>r, <1>l, <1>t, <2>1, OneMoves DEF WriteInput, Goto, TypeOK
  <1>7. ASSUME NEW p \in Procs, WriteLinkedRequest(p) PROVE FilesInv'
    <2>1. HeldIsWritten(p)'
      BY <1>7, <1>t DEF WriteLinkedRequest, Goto, HeldIsWritten, At, FilesInv, Written,
                        TypeOK
    <2>2. RecordedRequestsExist' /\ LinkedRequestHasInput'
      BY <1>7, <1>t DEF WriteLinkedRequest, FilesInv, HeldIsWritten, At,
                        RecordedRequestsExist, LinkedRequestHasInput, TypeOK
    <2> QED
      BY <1>7, <1>t, <2>1, <2>2, OneMoves DEF WriteLinkedRequest, Goto, TypeOK
  <1>8. ASSUME NEW p \in Procs, RecordLinkedRequest(p) PROVE FilesInv'
    <2>1. HeldIsWritten(p)'
      BY <1>8, <1>t DEF RecordLinkedRequest, End, Idle, HeldIsWritten, At, FilesInv,
                        Written, TypeOK
    <2>2. RecordedRequestsExist'
      BY <1>8, <1>t DEF RecordLinkedRequest, FilesInv, HeldIsWritten, At,
                        RecordedRequestsExist, Written
    <2> QED
      BY <1>8, <1>l, <1>t, <2>1, <2>2, OneMoves DEF RecordLinkedRequest, End, TypeOK
  <1>9. ASSUME NEW p \in Procs, Fail(p) PROVE FilesInv'
    <2>1. HeldIsWritten(p)'
      BY <1>9, <1>t DEF Fail, End, Idle, HeldIsWritten, At, FilesInv, Written, TypeOK
    <2> QED
      BY <1>9, <1>r, <1>l, <1>t, <2>1, OneMoves DEF Fail, End, TypeOK
  <1>10. ASSUME NEW c \in Comments, NEW text \in Texts, WriteComment(c, text)
         PROVE  FilesInv'
    BY <1>10, <1>t, <1>r, <1>l, TypeStep, OthersHold DEF WriteComment, FilesInv
  <1>11. ASSUME UNCHANGED vars PROVE FilesInv'
    BY <1>11, <1>t, <1>r, <1>l, TypeStep, OthersHold DEF vars, FilesInv
  <1> QED
    BY <1>1, <1>2, <1>3, <1>4, <1>5, <1>6, <1>7, <1>8, <1>9, <1>10, <1>11 DEF Next, Step

LEMMA FilesInvHolds == Spec => []FilesInv
  BY FilesInvInit, FilesInvStep, PTL DEF Spec

\* Type correctness of the comments, the artifacts and run.json, with any number
\* of commands at once.
THEOREM TypeCorrect == Spec => []TypeOK
  BY FilesInvHolds, PTL DEF FilesInv

\* Every request that run.json names is among the artifacts, with any number of
\* commands at once, each of which may fail anywhere.
THEOREM RequestsExist == Spec => []RecordedRequestsExist
  BY FilesInvHolds, PTL DEF FilesInv

\* A request that names its input has it: WriteInput comes before
\* WriteLinkedRequest in materializeIteration.
THEOREM LinkedHasInput == Spec => []LinkedRequestHasInput
  BY FilesInvHolds, PTL DEF FilesInv

-----------------------------------------------------------------------------

OneCommand == \A p, q \in Procs : p = q

\* While a command may still write run.json, its copy is what is there.
CopyIsCurrent ==
    \A p \in Procs : ~At(p, "idle") /\ ~At(p, "iterate") => ctx[p].mem = recorded

RecordInv == TypeOK /\ CopyIsCurrent

LEMMA RecordInvStep ==
    ASSUME OneCommand
    PROVE  RecordInv /\ [Next]_vars => RecordInv' /\ recorded \subseteq recorded'
  <1> SUFFICES ASSUME RecordInv, [Next]_vars
               PROVE  RecordInv' /\ recorded \subseteq recorded'
    OBVIOUS
  <1>1. TypeOK'
    BY TypeStep DEF RecordInv
  <1> USE DEF RecordInv, CopyIsCurrent, TypeOK, At
  <1>2. ASSUME NEW p \in Procs, Step(p)
        PROVE  CopyIsCurrent' /\ recorded \subseteq recorded'
    <2>1. \A q \in Procs : q = p
      BY OneCommand DEF OneCommand
    <2>2. ASSUME NEW cmd \in {"comments", "iterate"}, Invoke(p, cmd)
          PROVE  CopyIsCurrent' /\ recorded \subseteq recorded'
      BY <2>1, <2>2 DEF Invoke, Idle
    <2>3. ASSUME FetchComments(p) \/ WriteRequest(p) \/ WriteInput(p) \/ WriteLinkedRequest(p)
          PROVE  CopyIsCurrent' /\ recorded \subseteq recorded'
      BY <2>1, <2>3 DEF FetchComments, WriteRequest, WriteInput, WriteLinkedRequest, Goto
    <2>4. ASSUME RecordRequests(p) \/ RecordLinkedRequest(p)
          PROVE  CopyIsCurrent' /\ recorded \subseteq recorded'
      BY <2>1, <2>4 DEF RecordRequests, RecordLinkedRequest, Goto, End, Idle
    <2>5. ASSUME ChooseLatest(p) \/ Fail(p)
          PROVE  CopyIsCurrent' /\ recorded \subseteq recorded'
      BY <2>1, <2>5 DEF ChooseLatest, Fail, End, Idle
    <2> QED
      BY <1>2, <2>2, <2>3, <2>4, <2>5 DEF Step
  <1>3. ASSUME NEW c \in Comments, NEW text \in Texts, WriteComment(c, text)
        PROVE  CopyIsCurrent' /\ recorded \subseteq recorded'
    BY <1>3 DEF WriteComment
  <1>4. ASSUME UNCHANGED vars PROVE CopyIsCurrent' /\ recorded \subseteq recorded'
    BY <1>4 DEF vars
  <1> QED
    BY <1>1, <1>2, <1>3, <1>4 DEF Next

\* With one command at a time no recorded request is ever forgotten, however
\* comments are edited or deleted and wherever commands fail.
THEOREM NothingForgotten == OneCommand => (Spec => RequestsAreNotForgotten)
  <1> SUFFICES ASSUME OneCommand PROVE Spec => RequestsAreNotForgotten
    OBVIOUS
  <1>1. Init => RecordInv
    BY FilesInvInit DEF Init, FilesInv, RecordInv, CopyIsCurrent, At, Idle
  <1>2. RecordInv /\ [Next]_vars => RecordInv' /\ [recorded \subseteq recorded']_vars
    BY RecordInvStep DEF vars
  <1> QED
    BY <1>1, <1>2, PTL DEF Spec, RequestsAreNotForgotten

=============================================================================
