---------------------------- MODULE MCRenderers ----------------------------
(***************************************************************************)
(* The pairs of MCPlanAndLower, and every ordered pair of objects that the *)
(* renderers tell apart: names that coincide, scopes, events that some     *)
(* targets do not have, empty texts, tools, and each kind of distribution. *)
(***************************************************************************)
EXTENDS Renderers, MCPlanAndLower

With(kind, preservation, changes) ==
  [Everywhere(kind, preservation) EXCEPT
     !.fields = [f \in DOMAIN Plain |-> IF f \in DOMAIN changes THEN changes[f] ELSE Plain[f]]]

R(dir, last) == [dir |-> dir, last |-> last]

RenderingPool ==
  {With("instruction", "preferred", [scope |-> "src"]),
   With("instruction", "required", [scope |-> "src", name |-> "b"]),
   With("instruction", "preferred", [scope |-> ".codex/rules"]),
   With("rule", "preferred", [name |-> "AGENTS.md"]),
   With("rule", "preferred", [scope |-> "src"]),
   With("skill", "preferred", [files |-> {R("a", "ref.md"), R("b", "ref.md")}]),
   With("skill", "preferred", [files |-> {R("a", "SKILL.md"), R("b", "ref.md")}]),
   With("skill", "preferred", [empty |-> TRUE]),
   With("skill", "optional", [name |-> "b", tools |-> {"Read"}]),
   With("agent", "required", [handoffs |-> TRUE, name |-> "b"]),
   With("agent", "preferred", [tools |-> {"Bash"}, disallowedTools |-> {"Read"}]),
   With("hook", "preferred", [event |-> "preShellCommand"]),
   With("hook", "required", [event |-> "Notification"]),
   With("hook", "preferred", [event |-> ""]),
   [With("hook", "required", [event |-> "PreToolUse"]) EXCEPT !.enforcement = "blocking"],
   With("command", "required", [name |-> "b"]),
   With("plugin", "preferred", [name |-> "p", distribution |-> "external", hasRef |-> TRUE]),
   With("plugin", "preferred", [name |-> "p", distribution |-> "external"]),
   With("plugin", "preferred", [name |-> "q", mcpServers |-> {"p", "s"}]),
   With("plugin", "required", [name |-> "p", distribution |-> "inline", files |-> {R("bin", "run.sh"), R("lib", "run.sh")}]),
   With("plugin", "preferred", [name |-> "q", distribution |-> "registry", mcpServers |-> {"s"}])}

MCFieldValues == {o.fields : o \in RenderingPool} \cup {Plain}

RenderingPairs == (RenderingPool \X (RenderingPool \cup Pool)) \cup (Pool \X RenderingPool)

MCRInputs ==
  MCInputs \cup
    {[objects |-> pair, targets |-> MCTargets, profile |-> "local-dev", plugins |-> q] :
       pair \in RenderingPairs, q \in {{}, Providers}}
=============================================================================
