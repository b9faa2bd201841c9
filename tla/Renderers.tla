----------------------------- MODULE Renderers -----------------------------
(***************************************************************************)
(* The last stages before the files are written: the four renderers        *)
(* (internal/adapter/renderer), which make an emission of each unit of the *)
(* lowered graph.  Each of them sorts the objects of a unit by what they   *)
(* have been lowered to and gives each group to a layer; a layer makes     *)
(* files, assets, plugin bundles or install entries of it, or drops it.    *)
(*                                                                         *)
(* Text, front matter and JSON are left out: a file is its path, the       *)
(* objects it is attributed to (SourceObjects), and the objects whose data *)
(* are in it.  Rendering is one step for all renderers, each of which is   *)
(* given the lowered graph.                                                *)
(***************************************************************************)
EXTENDS PlanAndLower, Functions

\* A resource of a skill or an artifact of a plugin: the path it is referred to by.
Resource == [dir : STRING, last : STRING]

\* name: the ID made a file name; scope: the directory of its first scope path;
\* files: the resources or artifacts; hasRef: the distribution has a ref.  For the
\* other fields see the layers.
ASSUME RenderersAssumption ==
  FieldValues \subseteq
    [name : STRING, scope : STRING, event : STRING, empty : BOOLEAN, handoffs : BOOLEAN,
     tools : SUBSET STRING, disallowedTools : SUBSET STRING, mcpServers : SUBSET STRING,
     distribution : {"", "inline", "external", "registry"}, hasRef : BOOLEAN,
     files : SUBSET Resource]

VARIABLES
  emissions,    \* the emission of each unit
  diagnostics   \* pairs of a unit and an object that its renderer says it drops

rvars == <<vars, emissions, diagnostics>>

RInit == Init /\ emissions = None /\ diagnostics = {}

Field(i) == objects[i].fields

\* classifyObjects.
Of(t, kind) ==
  {i \in DOMAIN lowered[t] : lowered[t][i].action # "skipped" /\ lowered[t][i].kind = kind}

File(path, ids) == [path |-> path, sources |-> ids, holds |-> ids]

OneFileEach(dir, ids) == {File(<<dir, Field(i).name>>, {i}) : i \in ids}

\* Mutant: an instruction has a file of its own in the directory of its scope.
ByScope_Each(file, ids) == {File(<<Field(i).scope, file>>, {i}) : i \in ids}

\* One file in each directory for the instructions that have it as scope.
ByScope(file, ids) ==
  {File(<<d, file>>, {i \in ids : Field(i).scope = d}) : d \in {Field(i).scope : i \in ids}}

\* Each skill in a directory of its own, its resources next to it as assets.
SkillFiles(dir, ids) == {File(<<dir, Field(i).name, "SKILL.md">>, {i}) : i \in ids}

LastSegment(r) == r.last

\* An asset for each resource, two of one name included.
Sidecars(dir, ids) ==
  UNION {{[source |-> r, dest |-> <<dir, Field(i).name, LastSegment(r)>>, of |-> i] :
            r \in Field(i).files} : i \in ids}

-----------------------------------------------------------------------------
(***************************************************************************)
(* Layers that several renderers have                                      *)
(***************************************************************************)

WithEvent(ids) == {i \in ids : Field(i).event # ""}

\* collectPermissions looks at agents and skills.
WithTools(t) ==
  {i \in Of(t, "agent") \cup Of(t, "skill") : Field(i).tools \cup Field(i).disallowedTools # {}}

\* Hooks and permissions in one file, which is attributed to the hooks.
Settings(path, hooks, permitted) ==
  IF hooks \cup permitted = {} THEN {}
  ELSE {[path |-> path, sources |-> hooks, holds |-> hooks \cup permitted]}

\* extractMCPServers.
Servers(i) ==
  Field(i).mcpServers \cup
    (IF Field(i).distribution = "external" /\ Field(i).hasRef THEN {Field(i).name} ELSE {})

\* renderMCP: of the plugins that define a server, the first has it.
Owner(ids) ==
  [s \in UNION {Servers(i) : i \in ids} |->
     CHOOSE i \in ids : s \in Servers(i) /\ \A j \in ids : s \in Servers(j) => i <= j]

MCP(path, ids) == IF DOMAIN Owner(ids) = {} THEN {} ELSE {File(path, Range(Owner(ids)))}

Distributed(ids, mode) == {i \in ids : Field(i).distribution = mode}

\* renderInlinePlugin: a bundle with a file for each of the plugin's artifacts.
Bundles(dir, ids) ==
  {[plugin |-> i,
    files  |-> {[path |-> <<dir, Field(i).name, LastSegment(r)>>, source |-> r] : r \in Field(i).files}] :
     i \in {j \in Distributed(ids, "inline") : Field(j).files # {}}}

\* Mutant: a source is listed with the first of its files.
Provenance_First(files) ==
  [i \in UNION {f.sources : f \in files} |-> {(CHOOSE f \in files : i \in f.sources).path}]

\* provenance.json: the files of each source.
Provenance(files) ==
  [i \in UNION {f.sources : f \in files} |-> {f.path : f \in {g \in files : i \in g.sources}}]

\* renderUnit: what the layers have made, and the provenance of the files.
Emission(files, assets, bundles, installs, servers) ==
  [files      |-> files \cup {[path    |-> <<"", "provenance.json">>,
                               sources |-> DOMAIN Provenance(files), holds |-> {}]},
   provenance |-> Provenance(files),
   assets     |-> assets,
   bundles    |-> bundles,
   installs   |-> installs,
   servers    |-> servers]

-----------------------------------------------------------------------------
(***************************************************************************)
(* Claude Code                                                             *)
(***************************************************************************)

ClaudeInstructions(t) == ByScope("CLAUDE.md", Of(t, "instruction"))
ClaudeRules(t)        == OneFileEach(".claude/rules", Of(t, "rule"))
ClaudeSkills(t)       == SkillFiles(".claude/skills", Of(t, "skill"))
ClaudeAgents(t)       == OneFileEach(".claude/agents", Of(t, "agent"))
ClaudeAssets(t)       == Sidecars(".claude/skills", Of(t, "skill"))
ClaudeSettings(t)     ==
  Settings(<<".claude", "settings.json">>, WithEvent(Of(t, "hook")), WithTools(t))
ClaudeMCP(t)          == MCP(<<"", ".mcp.json">>, Of(t, "plugin"))
ClaudeBundles(t)      == Bundles(".claude-plugin", Of(t, "plugin"))

RenderClaude(t) ==
  Emission(ClaudeInstructions(t) \cup ClaudeRules(t) \cup ClaudeSkills(t) \cup ClaudeAgents(t)
             \cup ClaudeSettings(t) \cup ClaudeMCP(t),
           ClaudeAssets(t), ClaudeBundles(t), Distributed(Of(t, "plugin"), "registry"),
           Owner(Of(t, "plugin")))

-----------------------------------------------------------------------------
(***************************************************************************)
(* Codex                                                                   *)
(***************************************************************************)

CodexEvents == {"SessionStart", "UserPromptSubmit", "PreToolUse", "PostToolUse", "Stop"}

CodexInstructions(t) == ByScope("AGENTS.md", Of(t, "instruction"))
CodexRules(t)        == OneFileEach(".codex/rules", Of(t, "rule"))
CodexSkills(t)       == SkillFiles(".codex/skills", Of(t, "skill"))
CodexAgents(t)       == OneFileEach(".codex/agents", Of(t, "agent"))
CodexAssets(t)       == Sidecars(".codex/skills", Of(t, "skill"))
CodexSettings(t)     ==
  Settings(<<".codex", "settings.json">>, {i \in Of(t, "hook") : Field(i).event \in CodexEvents},
           WithTools(t))
CodexMCP(t)          == MCP(<<"", ".mcp.json">>, Of(t, "plugin"))
CodexBundles(t)      == Bundles(".codex-plugin", Of(t, "plugin"))

RenderCodex(t) ==
  Emission(CodexInstructions(t) \cup CodexRules(t) \cup CodexSkills(t) \cup CodexAgents(t)
             \cup CodexSettings(t) \cup CodexMCP(t),
           CodexAssets(t), CodexBundles(t), Distributed(Of(t, "plugin"), "registry"),
           Owner(Of(t, "plugin")))

-----------------------------------------------------------------------------
(***************************************************************************)
(* GitHub Copilot                                                          *)
(***************************************************************************)

\* The instructions of the root are written twice.
CopilotInstructions(t) ==
  LET root == {i \in Of(t, "instruction") : Field(i).scope = ""}
  IN ByScope("AGENTS.md", Of(t, "instruction"))
       \cup (IF root = {} THEN {} ELSE {File(<<".github", "copilot-instructions.md">>, root)})

CopilotRules(t)   == OneFileEach(".github/instructions", Of(t, "rule"))
CopilotSkills(t)  == SkillFiles(".github/skills", Of(t, "skill"))
CopilotAgents(t)  == OneFileEach(".github/agents", Of(t, "agent"))
CopilotPrompts(t) == OneFileEach(".github/prompts", Of(t, "command"))
CopilotAssets(t)  == Sidecars(".github/skills", Of(t, "skill"))

\* A file for each event and all of it again in the format of Claude Code.
\* Each is attributed to all hooks.
CopilotSettings(t) ==
  LET hooks == WithEvent(Of(t, "hook"))
  IN {[path |-> <<".github/hooks", e, ".json">>, sources |-> hooks,
       holds |-> {i \in hooks : Field(i).event = e}] : e \in {Field(i).event : i \in hooks}}
       \cup Settings(<<".claude", "settings.json">>, hooks, WithTools(t))

CopilotMCP(t)     == MCP(<<".vscode", "mcp.json">>, Of(t, "plugin"))
CopilotBundles(t) == Bundles(".claude-plugin", Of(t, "plugin"))

RenderCopilot(t) ==
  Emission(CopilotInstructions(t) \cup CopilotRules(t) \cup CopilotSkills(t) \cup CopilotAgents(t)
             \cup CopilotPrompts(t) \cup CopilotSettings(t) \cup CopilotMCP(t),
           CopilotAssets(t), CopilotBundles(t), Distributed(Of(t, "plugin"), "registry"),
           Owner(Of(t, "plugin")))

-----------------------------------------------------------------------------
(***************************************************************************)
(* Cursor, which has rules, hooks, MCP and marketplace plugins only        *)
(***************************************************************************)

CursorEvents == {"beforeMCPExecution", "afterMCPExecution", "preShellCommand"}

CursorInstructions(t) == ByScope("AGENTS.md", Of(t, "instruction"))
CursorRules(t)        == OneFileEach(".cursor/rules", Of(t, "rule"))
CursorSkills(t)       == OneFileEach(".cursor/rules", {i \in Of(t, "skill") : ~ Field(i).empty})

FlatAgents(t)   == {i \in Of(t, "agent") : ~ Field(i).handoffs /\ ~ Field(i).empty}
CursorAgents(t) == OneFileEach(".cursor/rules", FlatAgents(t))

CursorHooks(t) ==
  Settings(<<".cursor", "hooks.json">>, {i \in Of(t, "hook") : Field(i).event \in CursorEvents}, {})

CursorMCP(t)      == MCP(<<".cursor", "mcp.json">>, Of(t, "plugin"))
CursorInstalls(t) == Distributed(Of(t, "plugin"), "registry")

RenderCursor(t) ==
  Emission(CursorInstructions(t) \cup CursorRules(t) \cup CursorSkills(t) \cup CursorAgents(t)
             \cup CursorHooks(t) \cup CursorMCP(t),
           {}, {}, CursorInstalls(t), Owner(Of(t, "plugin")))

-----------------------------------------------------------------------------

\* Mutant: Cursor drops commands without a word.
Dropped_NoCommands(t) ==
  CASE t = "codex"  -> {i \in WithEvent(Of(t, "hook")) : Field(i).event \notin CodexEvents}
    [] t = "cursor" -> {i \in WithEvent(Of(t, "hook")) : Field(i).event \notin CursorEvents}
                         \cup {i \in Of(t, "skill") : Field(i).empty}
                         \cup (Of(t, "agent") \ FlatAgents(t))
    [] OTHER        -> {}

\* The objects a renderer reports as not supported or not lowered.
Dropped(t) ==
  CASE t = "claude"  -> Of(t, "command")
    [] t = "codex"   -> Of(t, "command")
                          \cup {i \in WithEvent(Of(t, "hook")) : Field(i).event \notin CodexEvents}
    [] t = "copilot" -> {}
    [] OTHER         -> Of(t, "command") \cup (Of(t, "agent") \ FlatAgents(t))
                          \cup {i \in WithEvent(Of(t, "hook")) : Field(i).event \notin CursorEvents}
                          \cup {i \in Of(t, "skill") : Field(i).empty}

RenderUnit(t) ==
  CASE t = "claude"  -> RenderClaude(t)
    [] t = "codex"   -> RenderCodex(t)
    [] t = "copilot" -> RenderCopilot(t)
    [] t = "cursor"  -> RenderCursor(t)

\* A renderer takes the units of its own target; other targets have none.
Rendered == DOMAIN lowered \cap {"claude", "codex", "copilot", "cursor"}

\* The Execute of each renderer.
Render ==
  /\ pc = "done" /\ emissions = None
  /\ emissions' = [t \in Rendered |-> RenderUnit(t)]
  /\ diagnostics' = UNION {{t} \X Dropped(t) : t \in Rendered}
  /\ UNCHANGED vars

RNext ==
  \/ (Plan \/ ResolveCapabilities \/ Lower) /\ UNCHANGED <<emissions, diagnostics>>
  \/ Render

RSpec == RInit /\ [][RNext]_rvars

-----------------------------------------------------------------------------
(***************************************************************************)
(* Properties                                                              *)
(***************************************************************************)

Kept(t) == {i \in DOMAIN lowered[t] : lowered[t][i].action # "skipped"}

\* The objects that are in something that will be written or installed.
Emitted(t) ==
  {b.plugin : b \in emissions[t].bundles} \cup emissions[t].installs
    \cup UNION {f.holds : f \in emissions[t].files}

\* A plugin that offers nothing that is not there already: no server but those
\* that an earlier plugin has, nothing to install, and nothing to bundle, unless it
\* is for Cursor, which has no bundles.
NothingToOffer(t, i) ==
  /\ objects[i].kind = "plugin"
  /\ \A s \in Servers(i) : \E j \in Of(t, "plugin") : j < i /\ s \in Servers(j)
  /\ Field(i).distribution = "inline" => t = "cursor" \/ Field(i).files = {}
  /\ Field(i).distribution # "registry"

\* From the planner, which says what is active in a unit, over the lowering
\* engine, which says what an object becomes, to the layers, which look for objects
\* of their kind, nothing falls through: what was not skipped is emitted, or the
\* renderer reports it.  Without a word are dropped only a hook that names no
\* event, a plugin with nothing to offer, and capabilities, which are not for
\* rendering.  What is not active in a unit gets into it only beside an active
\* object that requires a surface that it requires, too.
NothingIsLostUnseen ==
  emissions # None =>
    /\ NoActiveObjectIsLost
    /\ InactiveOnlyByASurface
    /\ \A t \in DOMAIN emissions : \A i \in Kept(t) :
         \/ i \in Emitted(t)
         \/ <<t, i>> \in diagnostics
         \/ lowered[t][i].kind = "hook" /\ Field(i).event = ""
         \/ lowered[t][i].kind = "capability"
         \/ NothingToOffer(t, i)

\* Everything that is written: where, what it is, the objects and the resource it is of.
Written(t) ==
  {<<f.path, "file", f.holds, {}>> : f \in emissions[t].files}
    \cup {<<a.dest, "asset", {a.of}, {a.source}>> : a \in emissions[t].assets}
    \cup UNION {{<<f.path, "bundle", {b.plugin}, {f.source}>> : f \in b.files} :
                  b \in emissions[t].bundles}

\* What a server name means does not depend on plugins that come later in the
\* order of IDs.
ServersAreStable(t) ==
  \A i \in Of(t, "plugin") :
    LET earlier == {j \in Of(t, "plugin") : j < i}
    IN \A s \in UNION {Servers(j) : j \in earlier} : emissions[t].servers[s] \in earlier

\* The layers share directories, but none writes over another's file: two
\* entries of one emission have one path only if they are of two objects whose
\* IDs become the same file name, or of two resources of one object that differ
\* in their directories alone, or a skill has a resource called SKILL.md, or an
\* object is called like the files of the instructions.  Nor does a plugin take
\* over the server of an earlier one.
NoLayerOverwritesAnother ==
  emissions # None =>
    \A t \in DOMAIN emissions :
      /\ \A e, f \in Written(t) :
           e # f /\ e[1] = f[1] =>
             \E i \in e[3], j \in f[3] :
               \/ i # j /\ Field(i).name = Field(j).name
               \/ i = j /\ \E r \in e[4], s \in f[4] : r # s /\ LastSegment(r) = LastSegment(s)
               \/ \E r \in Field(i).files : LastSegment(r) = "SKILL.md"
               \/ {Field(i).name, Field(j).name} \cap {"AGENTS.md", "CLAUDE.md"} # {}
      /\ ServersAreStable(t)

\* How far provenance.json can be trusted.  Of all that is written what an object's
\* data are in is listed for it, but for assets, files in bundles, and the
\* permissions in settings files.  And what is listed for an object is a file with
\* its data, but for the files that Copilot has for each event, which are all
\* listed for each hook.
ProvenanceIsTruthful ==
  emissions # None =>
    \A t \in DOMAIN emissions :
      LET e == emissions[t]
      IN /\ \A w \in Written(t) : \A i \in w[3] :
              \/ i \in DOMAIN e.provenance /\ w[1] \in e.provenance[i]
              \/ w[2] \in {"asset", "bundle"}
              \/ i \in WithTools(t) /\ w[1][2] = "settings.json"
         /\ \A i \in DOMAIN e.provenance : \A p \in e.provenance[i] :
              \E f \in e.files : f.path = p /\ (i \in f.holds \/ p[1] = ".github/hooks")

\* docs/architecture/overview.md says of `required`: "unsupported or unsafe
\* lowering fails the build".  A build that gets as far as its emissions has
\* each active required object of a unit in it.
RequiredIsEmitted ==
  emissions # None =>
    \A t \in DOMAIN emissions : \A i \in units[t] \cap DOMAIN lowered[t] :
      objects[i].preservation = "required" => i \in Emitted(t)
=============================================================================
