---------------------------- MODULE GovernedRun ----------------------------
(***************************************************************************)
(* What a governed run promises to whoever reads its directory: a policy   *)
(* decision before the runner works, an answer where one is asked for,     *)
(* evidence of one execution before a verdict, a passed verdict before the *)
(* run completes, and nothing after that.  It knows of no commands,        *)
(* records, checkpoints or crashes: RunRefinement shows that the lifecycle *)
(* of `gdh run`, `gdh status` and `gdh resume`, killed between any two     *)
(* writes, implements it.                                                  *)
(***************************************************************************)
CONSTANT Evidence   \* the artifacts of an execution; "audit" is one of them

VARIABLES
    decision,  \* the policy decision on record
    answer,    \* the answer of the human on record
    working,   \* whether the runner is at work
    evidence,  \* what is recorded of the last execution
    audit,     \* the policy audit on record
    verdict,   \* the verification result on record
    outcome    \* how the run has ended, if it has

vars == <<decision, answer, working, evidence, audit, verdict, outcome>>

Init ==
    /\ decision = "absent" /\ answer = "absent" /\ working = FALSE
    /\ evidence = {} /\ audit = "absent" /\ verdict = "absent"
    /\ outcome = "open"

\* The run is not closed, nor about to be, and waits for no runner.
Open == outcome = "open" /\ ~working

\* The runner may work.  A forbidden run is not excluded: see ForbidStops.
Allowed == decision # "absent" /\ (decision = "prompt" => answer = "approved")

\* The evidence is whole and speaks for the run.
Compliant == evidence = Evidence /\ audit = "clean" /\ Allowed

\* A policy may be evaluated again before the runner works again.
Evaluate ==
    /\ Open
    /\ decision' \in {"allow", "prompt", "forbid"}
    /\ UNCHANGED <<answer, working, evidence, audit, verdict, outcome>>

\* An answer is given once, to a run that asks for it.
Answer ==
    /\ Open /\ decision = "prompt" /\ answer = "absent"
    /\ answer' \in {"approved", "denied"}
    /\ UNCHANGED <<decision, working, evidence, audit, verdict, outcome>>

Launch ==
    /\ Open /\ Allowed
    /\ working' = TRUE /\ evidence' = {}
    /\ UNCHANGED <<decision, answer, audit, verdict, outcome>>

\* It returns, or the command that waits for it is killed.
Stop ==
    /\ working
    /\ working' = FALSE
    /\ UNCHANGED <<decision, answer, evidence, audit, verdict, outcome>>

\* Each artifact is recorded once for an execution.  A run that ends without
\* one, abandoned or not, gets the evidence of having done nothing.
Record(artifact) ==
    /\ ~working /\ outcome \in {"open", "abandoned"}
    /\ artifact \notin evidence
    /\ evidence' = evidence \cup {artifact}
    /\ IF artifact = "audit" THEN audit' \in {"clean", "breach"} ELSE audit' = audit
    /\ UNCHANGED <<decision, answer, working, verdict, outcome>>

Judge ==
    /\ Open /\ evidence = Evidence
    /\ verdict' \in (IF Compliant THEN {"passed", "failed"} ELSE {"failed"})
    /\ UNCHANGED <<decision, answer, working, evidence, audit, outcome>>

\* A run that is about to close may still be taken up again, after a crash.
Close ==
    /\ \/ Open /\ verdict = "passed" /\ Compliant /\ outcome' = "completing"
       \/ Open /\ decision = "prompt" /\ answer = "denied" /\ outcome' = "abandoning"
       \/ outcome = "completing" /\ outcome' \in {"completed", "open"}
       \/ outcome = "abandoning" /\ outcome' \in {"abandoned", "open"}
    /\ UNCHANGED <<decision, answer, working, evidence, audit, verdict>>

Next ==
    \/ Evaluate \/ Answer \/ Launch \/ Stop \/ Judge \/ Close
    \/ \E artifact \in Evidence : Record(artifact)

Spec == Init /\ [][Next]_vars

=============================================================================
