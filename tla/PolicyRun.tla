----------------------------- MODULE PolicyRun -----------------------------
(***************************************************************************)
(* One governed run as the policy engine sees it: its spec is previewed    *)
(* and evaluated, a human may be asked, the runner changes files and runs  *)
(* commands, and what it did is audited.  The policy pack is a file that   *)
(* evaluateSpec and auditRun each read, so it may be edited in between.    *)
(*                                                                         *)
(* How a run is interrupted and resumed is the matter of RunLifecycle.     *)
(***************************************************************************)
EXTENDS PolicyEngine

CONSTANT EditedPacks  \* the packs that an edit during a run may leave on disk

ASSUME EditedPacksAssumption == EditedPacks \subseteq Packs

VARIABLES
    spec,        \* the normalized spec
    pack,        \* the policy pack on disk
    phase,       \* how far the run has got
    preview,     \* impact-preview.json
    decision,    \* the decision in policy.decision.json
    resolution,  \* the resolution in approval-resolution.json
    changed,     \* the paths in changed-files.json
    executed,    \* the commands in commands-executed.json
    audit,       \* the status in policy-audit.json
    evaluated    \* history: the pack the decision was taken from

vars == <<spec, pack, phase, preview, decision, resolution, changed, executed,
          audit, evaluated>>

NoPreview == [files |-> {}, commands |-> {}]
NoPack == [rules |-> {}, fallback |-> "prompt"]

Init ==
    /\ spec \in Specs
    /\ pack \in Packs
    /\ phase = "created"
    /\ preview = NoPreview
    /\ decision = "none"
    /\ resolution = "none"
    /\ changed = {}
    /\ executed = {}
    /\ audit = "none"
    /\ evaluated = NoPack

\* evaluateSpec, and what the lifecycle makes of its decision.
EvaluateSpec ==
    /\ phase = "created"
    /\ preview' = ImpactPreview(spec)
    /\ decision' = EvaluatePolicy(pack, preview')
    /\ evaluated' = pack
    /\ phase' = CASE decision' = "allow"  -> "running"
                  [] decision' = "prompt" -> "awaiting_approval"
                  [] decision' = "forbid" -> "stopped"
    /\ UNCHANGED <<spec, pack, resolution, changed, executed, audit>>

\* Mutant: the answer is taken for the next phase.
ResolveKeepingAnswer(answer) ==
    /\ phase = "awaiting_approval"
    /\ resolution' = answer
    /\ phase' = IF answer = "approved" THEN "running" ELSE answer
    /\ UNCHANGED <<spec, pack, preview, decision, changed, executed, audit, evaluated>>

\* The human answers the approval packet.
Resolve(answer) ==
    /\ phase = "awaiting_approval"
    /\ resolution' = answer
    /\ phase' = IF answer = "approved" THEN "running" ELSE "stopped"
    /\ UNCHANGED <<spec, pack, preview, decision, changed, executed, audit, evaluated>>

\* The runner changes a file or runs a command: the policy engine learns of it
\* from the workspace diff and the command capture, afterwards.
ChangePath(p) ==
    /\ phase = "running"
    /\ changed' = changed \cup {p}
    /\ UNCHANGED <<spec, pack, phase, preview, decision, resolution, executed, audit,
                   evaluated>>

RunCommand(c) ==
    /\ phase = "running"
    /\ executed' = executed \cup {c}
    /\ UNCHANGED <<spec, pack, phase, preview, decision, resolution, changed, audit,
                   evaluated>>

\* auditRun reads the pack again.  (A run that is stopped or left waiting is
\* audited too, over no evidence; that audit is left out.)
AuditRun ==
    /\ phase = "running"
    /\ audit' = PolicyAudit(pack, preview, resolution, changed, executed)
    /\ phase' = "audited"
    /\ UNCHANGED <<spec, pack, preview, decision, resolution, changed, executed,
                   evaluated>>

EditPack ==
    /\ phase \in {"awaiting_approval", "running"}
    /\ pack' \in EditedPacks
    /\ UNCHANGED <<spec, phase, preview, decision, resolution, changed, executed, audit,
                   evaluated>>

Next ==
    \/ EvaluateSpec
    \/ \E answer \in {"approved", "denied"} : Resolve(answer)
    \/ \E p \in Paths : ChangePath(p)
    \/ \E c \in Commands : RunCommand(c)
    \/ AuditRun
    \/ EditPack

Spec == Init /\ [][Next]_vars

-----------------------------------------------------------------------------
(* Properties *)

Hints == {FileHint(p) : p \in Paths} \cup {GlobHint(g) : g \in Globs}
CommandHints == {CommandHint(c, s) : c \in Commands,
                                     s \in {"spec_text", "heuristic", "observed"}}

\* Every variable has its type.
TypeOK ==
    /\ spec \in Specs
    /\ pack \in PackTypes
    /\ phase \in {"created", "awaiting_approval", "running", "stopped", "audited"}
    /\ preview \in [files : SUBSET Hints, commands : SUBSET CommandHints]
    /\ decision \in Decisions \cup {"none"}
    /\ resolution \in {"none", "approved", "denied"}
    /\ changed \subseteq Paths
    /\ executed \subseteq Commands
    /\ audit \in {"none", "clean", "scope_drift", "policy_breach"}
    /\ evaluated \in PackTypes

\* A run that is carried out without asking has, for every file it is predicted
\* to write, a rule that says so and none that says otherwise: neither the
\* fallback decision nor a rule about something else lets a write through
\* (buildPathCandidateDecision, evaluatePolicy).
AllowIsExplicit ==
    decision = "allow" =>
        \A hint \in preview.files :
            /\ \E r \in FileRules(evaluated, hint) : r.decision = "allow"
            /\ \A r \in FileRules(evaluated, hint) : r.decision = "allow"

\* The same for commands, except that nothing need be said about a command where
\* the fallback allows it, or that was only guessed.
AllowedCommandsAreUncontested ==
    decision = "allow" =>
        \A hint \in preview.commands :
            /\ \A r \in CommandRules(evaluated, hint) : r.decision = "allow"
            /\ CommandRules(evaluated, hint) = {} =>
                  evaluated.fallback = "allow" \/ hint.source = "heuristic"

\* A changed path which the policy pack, evaluated on that path alone, forbids
\* makes the audit a breach, whatever else was done and whatever was approved:
\* path globs, action kinds, task class and fallback all count.
ForbiddenChangeIsBreach ==
    audit \in {"clean", "scope_drift"} =>
        \A p \in changed : FileDecision(pack, FileHint(p)) # "forbid"

\* Evidence that is missing, as when the command capture is partial, can hide a
\* breach but never make one: whatever part of what the runner did had been
\* captured, the audit of that part finds a breach only where this audit does.
PartialEvidenceNeverAccuses ==
    audit \in {"clean", "scope_drift"} =>
        \A c \in SUBSET changed, e \in SUBSET executed :
            PolicyAudit(pack, preview, resolution, c, e) # "policy_breach"

\* A run that kept to the files and commands its spec names, and was audited
\* with the pack it was evaluated with, is not judged more strictly on what it
\* did than on what it was predicted to do: what was disregarded as a guess in
\* the first evaluation does not come back in the second.
DoingLessIsNoStricter ==
    audit # "none" /\ evaluated = pack /\ changed \cup executed # {}
    /\ changed \subseteq spec.paths /\ executed \subseteq spec.commands =>
        Strictest({decision, EvaluatePolicy(pack, ObservedPreview(changed, executed))})
            = decision

=============================================================================
