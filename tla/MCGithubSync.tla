---------------------------- MODULE MCGithubSync ----------------------------
(* The instance of the GitHub delivery that TLC checks. *)
EXTENDS DeliveryRefinement, TLC

CONSTANTS r1, r2, f1, f2  \* model values: two runs, and the file each alone changes

MCProcs == {"p1"}
MCOneRun == {r1}
MCRuns == {r1, r2}
MCPaths == {f1, f2, "both", "own"}
MCOnePath == {f1, "own"}
MCChangedByOne == [r \in MCOneRun |-> {f1}]
MCBranches == {"issue", "other"}

\* Two runs of one issue, and so of one branch, that change a file each and one both.
MCChanged == (r1 :> {f1, "both"}) @@ (r2 :> {f2, "both"})
MCDerived == [r \in MCRuns |-> "issue"]
MCDerivedByOne == [r \in MCOneRun |-> "issue"]

\* The runs are interchangeable, each with the file that it alone changes.
Interchange ==
    {p \in Permutations({r1, r2, f1, f2}) :
        \A r \in Runs : p[r] \in Runs /\ OwnChange[p[r]] = {p[f] : f \in OwnChange[r]}}

=============================================================================
