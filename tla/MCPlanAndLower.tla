-------------------------- MODULE MCPlanAndLower --------------------------
(***************************************************************************)
(* Every ordered pair of objects from a pool that has each kind with each  *)
(* preservation, hooks of each enforcement, and objects that are confined  *)
(* to a target or a profile, for the four registries of the repository and *)
(* the limited target of its lowering tests.                               *)
(***************************************************************************)
EXTENDS PlanAndLower

MCTargets == {"claude", "codex", "cursor", "copilot", "limited"}

MCProfiles == {"local-dev", "ci", "enterprise-locked"}

\* target_registry/{claude,codex,copilot,cursor}.yaml; limitedTargetUnitCaps, with
\* one surface emulated, as no registry has.
MCSupport ==
  [claude  |-> [s \in Surfaces |-> IF s = "commands.explicitEntryPoints" THEN "lowered" ELSE "native"],
   codex   |-> [s \in Surfaces |-> IF s = "commands.explicitEntryPoints" THEN "lowered" ELSE "native"],
   copilot |-> [s \in Surfaces |-> "native"],
   cursor  |-> [s \in Surfaces |->
                  CASE s = "commands.explicitEntryPoints" -> "skipped"
                    [] s \in {"instructions.layeredFiles", "skills.bundles", "skills.supportingFiles",
                              "agents.subagents", "agents.toolPolicies"} -> "adapted"
                    [] OTHER -> "native"],
   limited |-> [s \in Surfaces |->
                  CASE s \in {"instructions.layeredFiles", "instructions.scopedSections",
                              "rules.scopedRules", "mcp.serverBindings"} -> "native"
                    [] s = "skills.supportingFiles" -> "emulated"
                    [] OTHER -> "skipped"]]

Plain ==
  [name |-> "a", scope |-> "", event |-> "PreToolUse", empty |-> FALSE, handoffs |-> FALSE,
   tools |-> {}, disallowedTools |-> {}, mcpServers |-> {}, distribution |-> "",
   hasRef |-> FALSE, files |-> {}]

\* The normalizer puts all targets in the place of none.
Everywhere(kind, preservation) ==
  [kind |-> kind, targets |-> MCTargets, disabled |-> {}, profiles |-> {}, preservation |-> preservation,
   enforcement |-> "", effectClass |-> "", providesMCP |-> FALSE, markdown |-> FALSE,
   fields |-> Plain]

Pool ==
  {Everywhere(k, p) : k \in Kinds \ {"capability", "instruction"}, p \in Preservations}
  \cup {[Everywhere("hook", p) EXCEPT !.enforcement = e] :
          p \in Preservations, e \in {"blocking", "best-effort"}}
  \cup {Everywhere("instruction", "preferred"), Everywhere("capability", "required"),
        [Everywhere("hook", "optional") EXCEPT !.effectClass = "setup"],
        [Everywhere("rule", "preferred") EXCEPT !.targets = {"claude"}, !.markdown = TRUE],
        [Everywhere("skill", "preferred") EXCEPT !.targets = {"*"}, !.disabled = {"cursor"}],
        [Everywhere("agent", "required") EXCEPT !.targets = {"claude", "copilot"}],
        [Everywhere("command", "required") EXCEPT !.profiles = {"ci"}],
        [Everywhere("plugin", "optional") EXCEPT !.providesMCP = TRUE, !.profiles = {"*"}]}

Providers ==
  {[id |-> 1, type |-> "script", surfaces |-> {"hooks.lifecycle", "commands.explicitEntryPoints"}],
   [id |-> 2, type |-> "mcp", surfaces |-> {"hooks.lifecycle", "hooks.blockingValidation",
                                            "skills.supportingFiles"}],
   [id |-> 3, type |-> "mcp", surfaces |-> {"skills.bundles", "hooks.lifecycle"}]}

\* The default, some of the targets, and one that has no registry.
Requests == {MCTargets, {"cursor", "limited"}, {"claude", "other"}}

MCInputs ==
  {[objects |-> <<a, b>>, targets |-> r, profile |-> p, plugins |-> q] :
     a \in Pool, b \in Pool, r \in Requests, p \in MCProfiles, q \in {{}, Providers}}
=============================================================================
