---------------------------- MODULE MCPolicyRun ----------------------------
(* The instance of the policy engine that TLC checks. *)
EXTENDS PolicyRun

MCPaths == {"docs/guide.md", "src/config/app.ts"}
MCGlobs == {"**/*", "src/config/**"}
MCCommands == {"pnpm test", "git push"}

MCCovers == [g \in MCGlobs |-> IF g = "**/*" THEN MCPaths ELSE {"src/config/app.ts"}]
MCPrefix == MCGlobs \X MCGlobs

MCKind ==
    [t \in MCPaths \cup MCGlobs \cup MCCommands |->
        CASE t \in {"src/config/app.ts", "src/config/**"} -> "config_change"
          [] t = "git push"  -> "git_remote"
          [] t = "pnpm test" -> "command"
          [] OTHER           -> "write"]

Rule(d, globs, pre, pat, k, x) ==
    [decision |-> d, paths |-> globs, prefixes |-> pre, patterns |-> pat,
     kinds |-> k, context |-> x]

PathRules ==
    {Rule(d, {"**/*"}, {}, {}, k, x) :
        d \in Decisions, k \in {{}, {"config_change"}}, x \in {"none", "fails"}} \cup
    {Rule(d, {"src/config/**"}, {}, {}, k, "none") : d \in Decisions, k \in {{}, {"write"}}}

\* The last is matched by its prefix and not by its pattern, or by both.
CommandOnlyRules ==
    {Rule(d, {}, {"pnpm test"}, {}, {}, "none") : d \in Decisions} \cup
    {Rule(d, {}, {}, {"git push"}, {"git_remote"}, "none") : d \in Decisions} \cup
    {Rule(d, {}, MCCommands, {"git push"}, {}, "none") : d \in Decisions}

ContextRules ==
    {Rule(d, {}, {}, {}, {}, "matches") : d \in Decisions} \cup
    {Rule(d, {}, {}, {}, {"git_remote"}, "none") : d \in Decisions} \cup
    {Rule(d, {}, {}, {}, {"write"}, "none") : d \in Decisions}

\* Rules with a path and a command condition, and rules without any.
OddRules ==
    {Rule(d, {"**/*"}, {"pnpm test"}, {}, {}, "none") : d \in Decisions} \cup
    {Rule("forbid", {}, {}, {}, {}, "none")}

MCRules == PathRules \cup CommandOnlyRules \cup ContextRules \cup OddRules

\* Every pack of up to two of these rules.
MCPacks == [rules : {{r, s} : r, s \in MCRules} \cup {{}}, fallback : Decisions]

\* An edit leaves no rule but the fallback, or one that forbids the configuration.
MCEditedPacks ==
    {[rules |-> {}, fallback |-> "allow"],
     [rules |-> {Rule("forbid", {"src/config/**"}, {}, {}, {}, "none")},
      fallback |-> "allow"]}

SpecText(ps, cs, gs, hs) ==
    [paths |-> ps, commands |-> cs, globHints |-> gs, commandHints |-> hs]

MCSpecs ==
    {SpecText(MCPaths, {"git push"}, {}, {}),
     SpecText({"docs/guide.md"}, {}, {}, {"pnpm test"}),
     SpecText({}, {"pnpm test"}, {"src/config/**"}, {}),
     SpecText({}, {}, {"**/*"}, {"pnpm test"})}

=============================================================================
