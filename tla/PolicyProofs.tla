---------------------------- MODULE PolicyProofs ----------------------------
(***************************************************************************)
(* Proofs about the policy engine, for every policy pack and every spec:   *)
(* what an allowed run may rely on, and what the audit finds.              *)
(***************************************************************************)
EXTENDS PolicyRun, TLAPS

\* A winning decision is a decision.
LEMMA WinningIsDecision ==
    ASSUME NEW pk \in PackTypes, NEW rules \in SUBSET pk.rules
    PROVE  /\ Winning(rules, pk.fallback) \in Decisions
           /\ DecisionsOf(rules) \subseteq Decisions
  BY DEF Winning, DecisionsOf, Strictest, PackTypes, Rules, Decisions

\* Every file and every command is decided.
LEMMA HintsAreDecided ==
    ASSUME NEW pk \in PackTypes, NEW hint
    PROVE  /\ FileDecision(pk, hint) \in Decisions
           /\ CommandDecision(pk, hint) \in Decisions
  <1>1. FileRules(pk, hint) \in SUBSET pk.rules /\ CommandRules(pk, hint) \in SUBSET pk.rules
    BY DEF FileRules, CommandRules
  <1>2. Winning(FileRules(pk, hint), pk.fallback) \in Decisions
    BY <1>1, WinningIsDecision
  <1>3. Winning(CommandRules(pk, hint), pk.fallback) \in Decisions
    BY <1>1, WinningIsDecision
  <1> QED
    BY <1>2, <1>3 DEF FileDecision, CommandDecision, Decisions

\* The decisions that an evaluation looks at are decisions.
LEMMA RelevantAreDecisions ==
    ASSUME NEW pk \in PackTypes, NEW pv
    PROVE  RelevantDecisions(pk, pv) \subseteq Decisions
  BY HintsAreDecided DEF RelevantDecisions

\* The evaluation is a decision.
LEMMA EvaluationIsDecision ==
    ASSUME NEW pk \in PackTypes, NEW pv
    PROVE  EvaluatePolicy(pk, pv) \in Decisions
  <1>1. pk.fallback \in Decisions
    BY DEF PackTypes
  <1> QED
    BY <1>1, RelevantAreDecisions DEF EvaluatePolicy, Strictest, Decisions

\* An allowed write has a rule that says so, and no rule that says otherwise.
LEMMA AllowedWriteIsExplicit ==
    ASSUME NEW pk \in PackTypes, NEW hint, hint.kind \in WriteKinds,
           FileDecision(pk, hint) = "allow"
    PROVE  /\ \E r \in FileRules(pk, hint) : r.decision = "allow"
           /\ \A r \in FileRules(pk, hint) : r.decision = "allow"
  <1> DEFINE rules == FileRules(pk, hint)
  <1>1. ~UncoveredWrite(pk, hint) /\ Winning(rules, pk.fallback) = "allow"
    BY DEF FileDecision
  <1>2. "allow" \in DecisionsOf(rules)
    BY <1>1 DEF UncoveredWrite
  <1>3. rules # {}
    BY <1>2 DEF DecisionsOf
  <1>4. Strictest(DecisionsOf(rules)) = "allow"
    BY <1>1, <1>3 DEF Winning
  <1>5. "forbid" \notin DecisionsOf(rules) /\ "prompt" \notin DecisionsOf(rules)
    BY <1>4 DEF Strictest
  <1>6. DecisionsOf(rules) \subseteq Decisions
    BY WinningIsDecision DEF FileRules
  <1> QED
    BY <1>2, <1>5, <1>6 DEF DecisionsOf, Decisions

\* An evaluation that allows, allows each file and each command it looks at.
LEMMA AllowedEvaluation ==
    ASSUME NEW pk \in PackTypes, NEW pv, EvaluatePolicy(pk, pv) = "allow"
    PROVE  \A d \in RelevantDecisions(pk, pv) : d = "allow"
  BY RelevantAreDecisions DEF EvaluatePolicy, Strictest, Decisions

-----------------------------------------------------------------------------
(* The inductive invariant *)

\* Once evaluated, the preview is of the spec and the decision of the preview
\* and of the pack it was taken from.
DecisionIsOfTheSpec ==
    /\ phase = "created" => decision = "none"
    /\ phase # "created" =>
          /\ preview = ImpactPreview(spec)
          /\ decision = EvaluatePolicy(evaluated, preview)

\* The audit is of what the run ended with.
AuditIsOfTheEvidence ==
    audit # "none" =>
        /\ phase = "audited"
        /\ audit = PolicyAudit(pack, preview, resolution, changed, executed)

PolicyInv == TypeOK /\ DecisionIsOfTheSpec /\ AuditIsOfTheEvidence

\* The preview consists of hints.
LEMMA PreviewType ==
    ASSUME NEW s \in SpecTexts
    PROVE  ImpactPreview(s) \in [files : SUBSET Hints, commands : SUBSET CommandHints]
  BY DEF ImpactPreview, SpecTexts, Hints, CommandHints

\* The audit has one of three results.
LEMMA AuditType ==
    ASSUME NEW pk, NEW pv, NEW res, NEW c, NEW e
    PROVE  PolicyAudit(pk, pv, res, c, e) \in {"clean", "scope_drift", "policy_breach"}
  BY DEF PolicyAudit

\* A run starts with nothing decided.
LEMMA PolicyInvInit == Init => PolicyInv
  BY PacksAssumption
     DEF Init, PolicyInv, TypeOK, DecisionIsOfTheSpec, AuditIsOfTheEvidence, NoPreview,
         NoPack, PackTypes, Rules, Decisions, Hints, CommandHints

\* Every step keeps the invariant.
LEMMA PolicyInvStep == PolicyInv /\ [Next]_vars => PolicyInv'
  <1> SUFFICES ASSUME PolicyInv, [Next]_vars PROVE PolicyInv'
    OBVIOUS
  <1> USE DEF PolicyInv
  <1>1. ASSUME EvaluateSpec PROVE PolicyInv'
    <2>1. /\ preview' \in [files : SUBSET Hints, commands : SUBSET CommandHints]
          /\ decision' \in Decisions
      BY <1>1, PreviewType, EvaluationIsDecision, SpecsAssumption DEF EvaluateSpec, TypeOK
    <2>2. phase' \in {"running", "awaiting_approval", "stopped"}
      BY <1>1, <2>1 DEF EvaluateSpec, Decisions
    <2>3. TypeOK'
      BY <1>1, <2>1, <2>2 DEF EvaluateSpec, TypeOK
    <2>4. DecisionIsOfTheSpec'
      BY <1>1, <2>2 DEF EvaluateSpec, DecisionIsOfTheSpec
    <2>5. AuditIsOfTheEvidence'
      BY <1>1 DEF EvaluateSpec, AuditIsOfTheEvidence
    <2> QED
      BY <2>3, <2>4, <2>5
  <1>2. ASSUME NEW answer \in {"approved", "denied"}, Resolve(answer) PROVE PolicyInv'
    BY <1>2 DEF Resolve, TypeOK, DecisionIsOfTheSpec, AuditIsOfTheEvidence
  <1>3. ASSUME NEW p \in Paths, ChangePath(p) PROVE PolicyInv'
    BY <1>3 DEF ChangePath, TypeOK, DecisionIsOfTheSpec, AuditIsOfTheEvidence
  <1>4. ASSUME NEW c \in Commands, RunCommand(c) PROVE PolicyInv'
    BY <1>4 DEF RunCommand, TypeOK, DecisionIsOfTheSpec, AuditIsOfTheEvidence
  <1>5. ASSUME AuditRun PROVE PolicyInv'
    BY <1>5, AuditType DEF AuditRun, TypeOK, DecisionIsOfTheSpec, AuditIsOfTheEvidence
  <1>6. ASSUME EditPack PROVE PolicyInv'
    BY <1>6, PacksAssumption, EditedPacksAssumption
       DEF EditPack, TypeOK, DecisionIsOfTheSpec, AuditIsOfTheEvidence
  <1>7. ASSUME UNCHANGED vars PROVE PolicyInv'
    BY <1>7 DEF vars, TypeOK, DecisionIsOfTheSpec, AuditIsOfTheEvidence
  <1> QED
    BY <1>1, <1>2, <1>3, <1>4, <1>5, <1>6, <1>7 DEF Next

\* The invariant holds throughout.
LEMMA PolicyInvHolds == Spec => []PolicyInv
  BY PolicyInvInit, PolicyInvStep, PTL DEF Spec

-----------------------------------------------------------------------------
(* Allowed runs *)

\* Every variable of a governed run keeps its type, whatever the pack says.
THEOREM PolicyTypeCorrect == Spec => []TypeOK
  <1>1. PolicyInv => TypeOK
    BY DEF PolicyInv
  <1> QED
    BY <1>1, PolicyInvHolds, PTL

\* The preview says of every file that it is written.
LEMMA PreviewedFilesAreWrites ==
    ASSUME NEW s \in SpecTexts, NEW hint \in ImpactPreview(s).files
    PROVE  hint.kind \in WriteKinds
  BY KindAssumption DEF ImpactPreview, FileHint, GlobHint, SpecTexts

\* An allowed run has an explicit allow, and nothing else, for every file of its
\* preview.
THEOREM AllowExplicit == Spec => []AllowIsExplicit
  <1>1. PolicyInv => AllowIsExplicit
    <2> SUFFICES ASSUME PolicyInv, decision = "allow", NEW hint \in preview.files
                 PROVE  /\ \E r \in FileRules(evaluated, hint) : r.decision = "allow"
                        /\ \A r \in FileRules(evaluated, hint) : r.decision = "allow"
      BY DEF AllowIsExplicit
    <2>1. spec \in SpecTexts /\ evaluated \in PackTypes
      BY SpecsAssumption DEF PolicyInv, TypeOK
    <2>2. preview = ImpactPreview(spec) /\ EvaluatePolicy(evaluated, preview) = "allow"
      BY DEF PolicyInv, DecisionIsOfTheSpec
    <2>3. hint.kind \in WriteKinds
      BY <2>1, <2>2, PreviewedFilesAreWrites
    <2>4. FileDecision(evaluated, hint) = "allow"
      BY <2>1, <2>2, AllowedEvaluation DEF RelevantDecisions
    <2> QED
      BY <2>1, <2>3, <2>4, AllowedWriteIsExplicit
  <1> QED
    BY <1>1, PolicyInvHolds, PTL

\* No rule contests a command of an allowed run; one without a rule is allowed by
\* the fallback, or was only guessed.
THEOREM AllowedCommands == Spec => []AllowedCommandsAreUncontested
  <1>1. PolicyInv => AllowedCommandsAreUncontested
    <2> SUFFICES ASSUME PolicyInv, decision = "allow", NEW hint \in preview.commands
                 PROVE  /\ \A r \in CommandRules(evaluated, hint) : r.decision = "allow"
                        /\ CommandRules(evaluated, hint) = {} =>
                              evaluated.fallback = "allow" \/ hint.source = "heuristic"
      BY DEF AllowedCommandsAreUncontested
    <2> DEFINE rules == CommandRules(evaluated, hint)
    <2>1. CASE Disregarded(evaluated, preview, hint)
      BY <2>1 DEF Disregarded
    <2>2. CASE ~Disregarded(evaluated, preview, hint)
      <3>1. evaluated \in PackTypes /\ EvaluatePolicy(evaluated, preview) = "allow"
        BY DEF PolicyInv, TypeOK, DecisionIsOfTheSpec
      <3>2. CommandDecision(evaluated, hint) = "allow"
        BY <2>2, <3>1, AllowedEvaluation DEF RelevantDecisions
      <3>3. rules = {} => evaluated.fallback = "allow"
        BY <3>2 DEF CommandDecision, Winning
      <3>4. rules # {} => "forbid" \notin DecisionsOf(rules) /\ "prompt" \notin DecisionsOf(rules)
        BY <3>2 DEF CommandDecision, Winning, Strictest
      <3>5. DecisionsOf(rules) \subseteq Decisions
        BY <3>1, WinningIsDecision DEF CommandRules
      <3> QED
        BY <3>3, <3>4, <3>5 DEF DecisionsOf, Decisions
    <2> QED
      BY <2>1, <2>2
  <1> QED
    BY <1>1, PolicyInvHolds, PTL

-----------------------------------------------------------------------------
(* The audit *)

\* A forbidden change makes the evidence as a whole evaluate to forbid.
LEMMA ForbiddenEvidence ==
    ASSUME NEW pk, NEW c, NEW e, NEW p \in c, FileDecision(pk, FileHint(p)) = "forbid"
    PROVE  EvaluatePolicy(pk, ObservedPreview(c, e)) = "forbid"
  <1>1. "forbid" \in RelevantDecisions(pk, ObservedPreview(c, e))
    BY DEF RelevantDecisions, ObservedPreview
  <1> QED
    BY <1>1 DEF EvaluatePolicy, Strictest

\* Whatever the approval, an audit that finds no breach was shown no forbidden
\* change.
THEOREM ForbiddenBreach == Spec => []ForbiddenChangeIsBreach
  <1>1. PolicyInv => ForbiddenChangeIsBreach
    <2> SUFFICES ASSUME PolicyInv, audit \in {"clean", "scope_drift"}, NEW p \in changed,
                        FileDecision(pack, FileHint(p)) = "forbid"
                 PROVE  FALSE
      BY DEF ForbiddenChangeIsBreach
    <2>1. EvaluatePolicy(pack, ObservedPreview(changed, executed)) = "forbid"
      BY ForbiddenEvidence
    <2>2. ForbiddenPaths(pack, changed, executed) # {}
      BY <2>1 DEF ForbiddenPaths
    <2>3. PolicyAudit(pack, preview, resolution, changed, executed) = "policy_breach"
      BY <2>2 DEF PolicyAudit
    <2> QED
      BY <2>3 DEF PolicyInv, AuditIsOfTheEvidence
  <1> QED
    BY <1>1, PolicyInvHolds, PTL

\* Observed commands are never disregarded, so more evidence is more decisions.
LEMMA MoreEvidenceMoreDecisions ==
    ASSUME NEW pk, NEW c1, NEW e1, NEW c2 \in SUBSET c1, NEW e2 \in SUBSET e1
    PROVE  RelevantDecisions(pk, ObservedPreview(c2, e2)) \subseteq
           RelevantDecisions(pk, ObservedPreview(c1, e1))
  <1>1. \A c, e, hint : hint \in ObservedPreview(c, e).commands =>
            ~Disregarded(pk, ObservedPreview(c, e), hint)
    BY DEF ObservedPreview, CommandHint, Disregarded
  <1>2. \A c, e : RelevantDecisions(pk, ObservedPreview(c, e)) =
            {FileDecision(pk, FileHint(p)) : p \in c} \cup
            {CommandDecision(pk, CommandHint(x, "observed")) : x \in e}
    BY <1>1 DEF RelevantDecisions, ObservedPreview
  <1> QED
    BY <1>2

\* Files that are forbidden on part of the evidence are forbidden on all of it.
LEMMA MoreEvidenceMoreForbidden ==
    ASSUME NEW pk, NEW c1, NEW e1, NEW c2 \in SUBSET c1, NEW e2 \in SUBSET e1,
           ForbiddenPaths(pk, c2, e2) # {}
    PROVE  ForbiddenPaths(pk, c1, e1) # {}
  <1>1. CASE EvaluatePolicy(pk, ObservedPreview(c2, e2)) = "forbid"
    <2>1. c2 # {}
      BY <1>1 DEF ForbiddenPaths
    <2>2. RelevantDecisions(pk, ObservedPreview(c2, e2)) # {}
      BY <2>1 DEF RelevantDecisions, ObservedPreview
    <2>3. "forbid" \in RelevantDecisions(pk, ObservedPreview(c2, e2))
      BY <1>1, <2>2 DEF EvaluatePolicy, Strictest
    <2>4. "forbid" \in RelevantDecisions(pk, ObservedPreview(c1, e1))
      BY <2>3, MoreEvidenceMoreDecisions
    <2>5. EvaluatePolicy(pk, ObservedPreview(c1, e1)) = "forbid"
      BY <2>4 DEF EvaluatePolicy, Strictest
    <2> QED
      BY <2>1, <2>5 DEF ForbiddenPaths
  <1>2. CASE EvaluatePolicy(pk, ObservedPreview(c2, e2)) # "forbid"
    BY <1>2 DEF ForbiddenPaths, TouchedPaths
  <1> QED
    BY <1>1, <1>2

\* A breach that part of the evidence shows, all of it shows.
LEMMA BreachIsMonotone ==
    ASSUME NEW pk, NEW pv, NEW res, NEW c1, NEW e1, NEW c2 \in SUBSET c1,
           NEW e2 \in SUBSET e1, PolicyAudit(pk, pv, res, c2, e2) = "policy_breach"
    PROVE  PolicyAudit(pk, pv, res, c1, e1) = "policy_breach"
  <1>1. \A d : /\ TouchedPaths(pk, d, c2) \subseteq TouchedPaths(pk, d, c1)
               /\ TouchedCommands(pk, d, e2) \subseteq TouchedCommands(pk, d, e1)
    BY DEF TouchedPaths, TouchedCommands
  <1>2. CASE ForbiddenPaths(pk, c2, e2) # {}
    BY <1>2, MoreEvidenceMoreForbidden DEF PolicyAudit
  <1>3. CASE TouchedCommands(pk, "forbid", e2) # {}
    BY <1>1, <1>3 DEF PolicyAudit
  <1>4. CASE Unapproved(pk, res, c2, e2)
    <2>1. Unapproved(pk, res, c1, e1)
      BY <1>1, <1>4 DEF Unapproved
    <2> QED
      BY <2>1 DEF PolicyAudit
  <1>5. CASE ApprovedScopeDrift(pk, pv, res, c2, e2)
    <2>1. ApprovedScopeDrift(pk, pv, res, c1, e1)
      BY <1>1, <1>5 DEF ApprovedScopeDrift
    <2> QED
      BY <2>1 DEF PolicyAudit
  <1> QED
    BY <1>2, <1>3, <1>4, <1>5 DEF PolicyAudit

\* A partial capture of what the runner did can hide a breach, never make one.
THEOREM PartialEvidence == Spec => []PartialEvidenceNeverAccuses
  <1>1. PolicyInv => PartialEvidenceNeverAccuses
    BY BreachIsMonotone
       DEF PolicyInv, AuditIsOfTheEvidence, PartialEvidenceNeverAccuses
  <1> QED
    BY <1>1, PolicyInvHolds, PTL

-----------------------------------------------------------------------------
(* Doing less than predicted *)

\* The strictest of fewer decisions is no stricter.
LEMMA StrictestIsMonotone ==
    ASSUME NEW A \in SUBSET Decisions, NEW B \in SUBSET A, B # {}
    PROVE  Strictest({Strictest(A), Strictest(B)}) = Strictest(A)
  BY DEF Strictest, Decisions

\* What a run did of what its spec names was decided on before.
LEMMA NamedIsPredicted ==
    ASSUME NEW pk, NEW s \in SpecTexts, NEW c \in SUBSET s.paths, NEW e \in SUBSET s.commands
    PROVE  RelevantDecisions(pk, ObservedPreview(c, e)) \subseteq
           RelevantDecisions(pk, ImpactPreview(s))
  <1> DEFINE pv == ImpactPreview(s)
             ob == ObservedPreview(c, e)
  <1>1. ASSUME NEW hint \in ob.files
        PROVE  FileDecision(pk, hint) \in RelevantDecisions(pk, pv)
    <2>1. hint \in pv.files
      BY <1>1 DEF ObservedPreview, ImpactPreview
    <2> QED
      BY <2>1 DEF RelevantDecisions
  <1>2. ASSUME NEW hint \in ob.commands
        PROVE  CommandDecision(pk, hint) \in RelevantDecisions(pk, pv)
    <2>1. PICK x \in e : hint = CommandHint(x, "observed")
      BY <1>2 DEF ObservedPreview
    <2> DEFINE named == CommandHint(x, "spec_text")
    <2>2. named \in pv.commands /\ ~Disregarded(pk, pv, named)
      BY <2>1 DEF ImpactPreview, Disregarded, CommandHint
    <2>3. CommandDecision(pk, named) \in RelevantDecisions(pk, pv)
      BY <2>2 DEF RelevantDecisions
    <2>4. named.target = hint.target /\ named.kind = hint.kind
      BY <2>1 DEF CommandHint
    <2>5. CommandRules(pk, named) = CommandRules(pk, hint)
      BY <2>4 DEF CommandRules, MatchesCommand, MatchesContext
    <2> QED
      BY <2>3, <2>5 DEF CommandDecision
  <1> QED
    BY <1>1, <1>2 DEF RelevantDecisions

\* A run that kept to what its spec names is not judged more strictly afterwards
\* than before.
THEOREM DoingLess == Spec => []DoingLessIsNoStricter
  <1>1. PolicyInv => DoingLessIsNoStricter
    <2> DEFINE ob == ObservedPreview(changed, executed)
    <2> SUFFICES ASSUME PolicyInv, audit # "none", evaluated = pack,
                        changed \cup executed # {},
                        changed \subseteq spec.paths, executed \subseteq spec.commands
                 PROVE  Strictest({decision, EvaluatePolicy(pack, ob)}) = decision
      BY DEF DoingLessIsNoStricter
    <2> DEFINE before == RelevantDecisions(pack, ImpactPreview(spec))
               after  == RelevantDecisions(pack, ob)
    <2>1. spec \in SpecTexts /\ pack \in PackTypes
      BY SpecsAssumption DEF PolicyInv, TypeOK
    <2>2. after \subseteq before
      BY <2>1, NamedIsPredicted
    <2>3. after # {}
      <3>1. \A hint \in ob.commands : ~Disregarded(pack, ob, hint)
        BY DEF ObservedPreview, CommandHint, Disregarded
      <3>2. ob.files # {} \/ ob.commands # {}
        BY DEF ObservedPreview
      <3> QED
        BY <3>1, <3>2 DEF RelevantDecisions
    <2>4. decision = Strictest(before) /\ EvaluatePolicy(pack, ob) = Strictest(after)
      <3>1. decision = EvaluatePolicy(pack, ImpactPreview(spec))
        BY DEF PolicyInv, DecisionIsOfTheSpec, AuditIsOfTheEvidence
      <3> QED
        BY <2>2, <2>3, <3>1 DEF EvaluatePolicy
    <2>5. before \subseteq Decisions
      BY <2>1, RelevantAreDecisions
    <2> QED
      BY <2>2, <2>3, <2>4, <2>5, StrictestIsMonotone
  <1> QED
    BY <1>1, PolicyInvHolds, PTL

=============================================================================
