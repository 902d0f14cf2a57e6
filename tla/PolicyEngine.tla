---------------------------- MODULE PolicyEngine ----------------------------
(***************************************************************************)
(* The policy engine (packages/policy-engine): the impact preview of a     *)
(* spec, its evaluation against a policy pack, and the audit of what the   *)
(* runner did, as one governed run goes through them.                      *)
(*                                                                         *)
(* A path is told apart by the globs that match it, a command by the       *)
(* prefixes and patterns that match it, and both by the action kind their  *)
(* text is classified as.                                                  *)
(***************************************************************************)
CONSTANTS
    Paths,     \* the files of the repository
    Globs,     \* the path patterns that rules and task-class hints use
    Commands,  \* the commands that specs, hints and runners use
    Covers,    \* Covers[g]: the paths that glob g matches (picomatch)
    Prefix,    \* <<g, h>>: one's static prefix starts the other's, or is empty
               \* (which globs that match the same path may fail: "./a/**", "a/**")
    Kind,      \* the action kind of a path, a glob or a command, by its text
    Packs,     \* the policy packs that may be on disk
    Specs      \* the specs that may be given

WriteKinds == {"write", "config_change", "secrets_touch"}
CommandKinds == {"command", "git_remote", "network"}
ActionKinds == WriteKinds \cup CommandKinds \cup {"read", "unknown"}

Decisions == {"allow", "prompt", "forbid"}

\* A rule, as loading.ts normalizes it: a condition that is not given is empty.
\* `prefixes` and `patterns` are the commands they match.  `context` says
\* whether the rule's task classes and risk hints, if it has any, match the run.
Rules == [decision : Decisions, paths : SUBSET Globs, prefixes : SUBSET Commands,
          patterns : SUBSET Commands, kinds : SUBSET ActionKinds,
          context : {"none", "matches", "fails"}]

PackTypes == [rules : SUBSET Rules, fallback : Decisions]

\* What the preview finds in a spec: paths and commands named in its text, and
\* the hints of its task class.
SpecTexts == [paths : SUBSET Paths, commands : SUBSET Commands,
              globHints : SUBSET Globs, commandHints : SUBSET Commands]

ASSUME CoversAssumption == Covers \in [Globs -> SUBSET Paths]
ASSUME KindAssumption ==
    /\ Kind \in [Paths \cup Globs \cup Commands -> ActionKinds]
    /\ \A t \in Paths \cup Globs : Kind[t] \in WriteKinds
    /\ \A c \in Commands : Kind[c] \in CommandKinds
ASSUME PrefixAssumption == Prefix \subseteq Globs \X Globs
ASSUME PacksAssumption == Packs \subseteq PackTypes
ASSUME SpecsAssumption == Specs \subseteq SpecTexts

-----------------------------------------------------------------------------
(* preview.ts *)

FileHint(path) == [target |-> path, isGlob |-> FALSE, kind |-> Kind[path]]
GlobHint(glob) == [target |-> glob, isGlob |-> TRUE, kind |-> Kind[glob]]
CommandHint(c, source) == [target |-> c, kind |-> Kind[c], source |-> source]

\* The hints of the task class stand in for what the text does not name.
ImpactPreview(spec) ==
    [files    |-> IF spec.paths # {} THEN {FileHint(p) : p \in spec.paths}
                  ELSE {GlobHint(g) : g \in spec.globHints},
     commands |-> IF spec.commands # {}
                  THEN {CommandHint(c, "spec_text") : c \in spec.commands}
                  ELSE {CommandHint(c, "heuristic") : c \in spec.commandHints}]

-----------------------------------------------------------------------------
(* matching.ts *)

\* The strictest of some decisions: the first in compareMatchResults' order.
Strictest(decisions) ==
    IF "forbid" \in decisions THEN "forbid"
    ELSE IF "prompt" \in decisions THEN "prompt"
    ELSE "allow"

KindMatches(kind, rule) ==
    \/ rule.kinds = {}
    \/ kind \in rule.kinds
    \/ kind \in {"config_change", "secrets_touch"} /\ "write" \in rule.kinds

HintMatchesGlob(hint, glob) ==
    IF hint.isGlob THEN <<hint.target, glob>> \in Prefix
    ELSE hint.target \in Covers[glob]

HasCommandCondition(rule) == rule.prefixes # {} \/ rule.patterns # {}

\* A rule that states no condition matches nothing.
StatesCondition(rule) ==
    \/ rule.paths # {}
    \/ HasCommandCondition(rule)
    \/ rule.kinds # {}
    \/ rule.context # "none"

MatchesCommonDimensions(rule, kind) ==
    StatesCondition(rule) /\ rule.context # "fails" /\ KindMatches(kind, rule)

MatchesFile(rule, hint) ==
    /\ ~HasCommandCondition(rule)
    /\ MatchesCommonDimensions(rule, hint.kind)
    /\ rule.paths # {} => \E g \in rule.paths : HintMatchesGlob(hint, g)

MatchesCommand(rule, hint) ==
    /\ rule.paths = {}
    /\ MatchesCommonDimensions(rule, hint.kind)
    /\ rule.prefixes # {} => hint.target \in rule.prefixes
    /\ rule.patterns # {} => hint.target \in rule.patterns

\* A rule without path and command conditions: matched on either surface, with
\* the decision its match on that surface has anyway.
MatchesContext(rule, hint) ==
    /\ rule.paths = {} /\ ~HasCommandCondition(rule)
    /\ MatchesCommonDimensions(rule, hint.kind)

FileRules(pack, hint) ==
    {r \in pack.rules : MatchesFile(r, hint) \/ MatchesContext(r, hint)}

CommandRules(pack, hint) ==
    {r \in pack.rules : MatchesCommand(r, hint) \/ MatchesContext(r, hint)}

DecisionsOf(rules) == {r.decision : r \in rules}

\* The decision of the winning rule, or the fallback where no rule matches.
Winning(rules, fallback) ==
    IF rules = {} THEN fallback ELSE Strictest(DecisionsOf(rules))

\* Mutant: nothing said about a write is as good as an allow.
UncoveredWriteIgnored(pack, hint) == FALSE

\* A write that would be allowed only because nothing is said about it.
UncoveredWrite(pack, hint) ==
    LET rules == FileRules(pack, hint)
    IN  /\ hint.kind \in WriteKinds
        /\ Winning(rules, pack.fallback) = "allow"
        /\ "allow" \notin DecisionsOf(rules)

FileDecision(pack, hint) ==
    IF UncoveredWrite(pack, hint) THEN "prompt"
    ELSE Winning(FileRules(pack, hint), pack.fallback)

CommandDecision(pack, hint) == Winning(CommandRules(pack, hint), pack.fallback)

AllWritesExplicitlyAllowed(pack, preview) ==
    /\ preview.files # {}
    /\ \A hint \in preview.files :
          FileRules(pack, hint) # {} /\ FileDecision(pack, hint) = "allow"

\* Mutant: a guessed command that a rule prompts is disregarded too.
DisregardedByRuleToo(pack, preview, hint) ==
    /\ hint.source = "heuristic"
    /\ CommandDecision(pack, hint) = "prompt"
    /\ AllWritesExplicitlyAllowed(pack, preview)

\* Mutant: a command named in the spec is disregarded like a guess.
DisregardedFromAnySource(pack, preview, hint) ==
    /\ CommandRules(pack, hint) = {}
    /\ CommandDecision(pack, hint) = "prompt"
    /\ AllWritesExplicitlyAllowed(pack, preview)

\* A guessed command that only the fallback would stop does not stop a run
\* whose writes are all allowed.
Disregarded(pack, preview, hint) ==
    /\ hint.source = "heuristic"
    /\ CommandRules(pack, hint) = {}
    /\ CommandDecision(pack, hint) = "prompt"
    /\ AllWritesExplicitlyAllowed(pack, preview)

RelevantDecisions(pack, preview) ==
    {FileDecision(pack, hint) : hint \in preview.files} \cup
    {CommandDecision(pack, hint) :
        hint \in {h \in preview.commands : ~Disregarded(pack, preview, h)}}

EvaluatePolicy(pack, preview) ==
    LET decisions == RelevantDecisions(pack, preview)
    IN  IF decisions = {} THEN pack.fallback ELSE Strictest(decisions)

-----------------------------------------------------------------------------
(* audit.ts *)

\* What the runner did, in the form of a preview.
ObservedPreview(changed, executed) ==
    [files    |-> {FileHint(p) : p \in changed},
     commands |-> {CommandHint(c, "observed") : c \in executed}]

PreviewCoversPath(preview, path) ==
    \E hint \in preview.files :
        IF hint.isGlob THEN path \in Covers[hint.target] ELSE path = hint.target

PreviewCoversCommand(preview, c) == \E hint \in preview.commands : c = hint.target

\* The audit looks at the globs, prefixes and patterns of a rule alone.
TouchedPaths(pack, decision, changed) ==
    {p \in changed : \E r \in pack.rules :
        r.decision = decision /\ \E g \in r.paths : p \in Covers[g]}

TouchedCommands(pack, decision, executed) ==
    {c \in executed : \E r \in pack.rules :
        r.decision = decision /\ c \in r.prefixes \cup r.patterns}

\* Mutant: the evaluation of the evidence is not looked at.
ForbiddenPathsByGlob(pack, changed, executed) == TouchedPaths(pack, "forbid", changed)

\* When the evidence as a whole evaluates to forbid, every changed path is at fault.
ForbiddenPaths(pack, changed, executed) ==
    IF EvaluatePolicy(pack, ObservedPreview(changed, executed)) = "forbid"
    THEN changed
    ELSE TouchedPaths(pack, "forbid", changed)

Unapproved(pack, resolution, changed, executed) ==
    /\ resolution # "approved"
    /\ TouchedPaths(pack, "prompt", changed) \cup
          TouchedCommands(pack, "prompt", executed) # {}

ApprovedScopeDrift(pack, preview, resolution, changed, executed) ==
    /\ resolution = "approved"
    /\ \/ \E p \in TouchedPaths(pack, "prompt", changed) : ~PreviewCoversPath(preview, p)
       \/ \E c \in TouchedCommands(pack, "prompt", executed) :
             ~PreviewCoversCommand(preview, c)

\* Mutant: drift is looked for before the breach.
PolicyAuditDriftFirst(pack, preview, resolution, changed, executed) ==
    IF \/ \E p \in changed : ~PreviewCoversPath(preview, p)
       \/ \E c \in executed : ~PreviewCoversCommand(preview, c)
    THEN "scope_drift"
    ELSE IF \/ ForbiddenPaths(pack, changed, executed) # {}
            \/ TouchedCommands(pack, "forbid", executed) # {}
            \/ Unapproved(pack, resolution, changed, executed)
    THEN "policy_breach"
    ELSE "clean"

\* The status createPolicyAudit records.
PolicyAudit(pack, preview, resolution, changed, executed) ==
    IF \/ ForbiddenPaths(pack, changed, executed) # {}
       \/ TouchedCommands(pack, "forbid", executed) # {}
       \/ Unapproved(pack, resolution, changed, executed)
       \/ ApprovedScopeDrift(pack, preview, resolution, changed, executed)
    THEN "policy_breach"
    ELSE IF \/ \E p \in changed : ~PreviewCoversPath(preview, p)
            \/ \E c \in executed : ~PreviewCoversCommand(preview, c)
    THEN "scope_drift"
    ELSE "clean"

=============================================================================
