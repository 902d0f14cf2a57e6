------------------------------ MODULE Delivery ------------------------------
(***************************************************************************)
(* What the delivery of runs promises to whoever reads their run.json and  *)
(* the repository on GitHub: the branch of a run is on record before       *)
(* GitHub has it and keeps its name, a pull request shows the run it is    *)
(* for and is the only open one of its branch, and the number on record is *)
(* that of the last pull request of the run, for good.  It knows of no     *)
(* work tree, commits, pushes or failing commands: DeliveryRefinement      *)
(* shows that `gdh pr create` and `gdh pr sync-packet`, failing between    *)
(* any two of their calls, implement it.                                   *)
(***************************************************************************)
EXTENDS Naturals, Sequences

CONSTANTS Runs, Branches, NoBranch

VARIABLES
    named,      \* [Runs -> the branch on record, or NoBranch]
    published,  \* the branches GitHub has
    requests,   \* the pull requests, by number: for which run, of which branch, and
                \* which runs they showed when they were made
    open,       \* the numbers of those that are open
    linked      \* [Runs -> the number on record, or 0]

vars == <<named, published, requests, open, linked>>

Init ==
    /\ named = [r \in Runs |-> NoBranch]
    /\ published = {}
    /\ requests = <<>>
    /\ open = {}
    /\ linked = [r \in Runs |-> 0]

\* A run that has no pull request on record may still be named, published and
\* requested.
Pending(r) == linked[r] = 0

Name(r, b) ==
    /\ Pending(r)
    /\ named[r] = NoBranch
    /\ named' = [named EXCEPT ![r] = b]
    /\ UNCHANGED <<published, requests, open, linked>>

Publish(r) ==
    /\ Pending(r)
    /\ named[r] # NoBranch
    /\ published' = published \cup {named[r]}
    /\ UNCHANGED <<named, requests, open, linked>>

Request(r, shown) ==
    /\ Pending(r)
    /\ named[r] \in published
    /\ \A n \in open : requests[n].head # named[r]
    /\ requests' = Append(requests, [run |-> r, head |-> named[r], shown |-> shown])
    /\ open' = open \cup {Len(requests) + 1}
    /\ UNCHANGED <<named, published, linked>>

Link(r, n) ==
    /\ Pending(r)
    /\ requests[n].run = r
    /\ \A m \in DOMAIN requests : requests[m].run = r => m <= n
    /\ linked' = [linked EXCEPT ![r] = n]
    /\ UNCHANGED <<named, published, requests, open>>

\* By anybody, at any time.
Close(n) ==
    /\ open' = open \ {n}
    /\ UNCHANGED <<named, published, requests, linked>>

Next ==
    \/ \E r \in Runs :
          \/ \E b \in Branches : Name(r, b)
          \/ Publish(r)
          \/ \E shown \in SUBSET Runs : r \in shown /\ Request(r, shown)
          \/ \E n \in DOMAIN requests : Link(r, n)
    \/ \E n \in open : Close(n)

Spec == Init /\ [][Next]_vars

=============================================================================
