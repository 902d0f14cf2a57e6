---------------------------- MODULE MCOptimizer ----------------------------
(* A suite of two cases, of which the first states both policy expectations *)
(* and the second none; a third case is no longer in the suite.             *)
EXTENDS OptimizerProperties

CONSTANTS b1, o1

MCCases == {1, 2, 3}
MCMembers == {1, 2}
MCExpects == [c \in MCCases |-> IF c = 1 THEN {"decision", "approval"} ELSE {}]
MCNone == {}
MCWeight == [c \in MCCases |-> [m \in MetricNames |-> 1]]
MCRequired == {"success"}
MCMaxDrop == <<0, 1>>
MCRuns == {b1}
MCOpts == {o1}
MCPaths == {"in", "out"}

MCPerfect == [status |-> TRUE, decision |-> TRUE, approval |-> TRUE,
              verification |-> TRUE, packet |-> 2, artifacts |-> 2]
MCObservations ==
    {MCPerfect, [MCPerfect EXCEPT !.approval = FALSE],
     [MCPerfect EXCEPT !.status = FALSE, !.artifacts = 1]}

\* A baseline from when the suite had the third case and not the second, one that
\* cannot be read, and none.
MCWithThird == [c \in MCCases |-> IF c = 2 THEN NotRun ELSE CaseResult(c, MCPerfect)]
MCBaselines == {NoRecord, Unset, Finished(MCWithThird)}

MCConfigs ==
    {[surface |-> {"in"}, protected |-> {"policy"}, improve |-> TRUE, minimum |-> <<0, 2>>],
     [surface |-> MCPaths, protected |-> {}, improve |-> FALSE, minimum |-> <<0, 2>>]}

=============================================================================
