--------------------------- MODULE PlanAndLower ---------------------------
(***************************************************************************)
(* The middle of the compiler: the planner (internal/adapter/stage/        *)
(* planner) makes a build unit for each target and selects the objects     *)
(* that are active in it, the capability resolver (.../capability) finds   *)
(* providers for the surfaces the active objects require, and the lowering *)
(* engine (.../lowering) decides what becomes of each object: it is kept,  *)
(* lowered to another kind, or skipped.                                    *)
(*                                                                         *)
(* Each stage is one step.  It treats the units one by one, but no unit    *)
(* depends on another.  A unit is named by its target, since the profile   *)
(* is the same for all; asking for a target twice gives one unit.          *)
(***************************************************************************)
EXTENDS Integers, Sequences, FiniteSets

CONSTANTS
  Targets,     \* the targets that have a registry
  Support,     \* Support[target][surface]: the support level in its registry,
               \* "skipped" if the surface is not there
  Profiles,
  FieldValues, \* what an object's other fields may be; only the renderers look at them
  Inputs       \* the graphs, command lines and provider lists to start from

Kinds == {"instruction", "rule", "skill", "agent", "hook", "command", "plugin", "capability"}

Preservations == {"optional", "preferred", "required"}

\* RequiredCapabilities, of which the lowering engine has a copy.
RequiredCapabilities(kind) ==
  CASE kind = "instruction" -> {"instructions.layeredFiles", "instructions.scopedSections"}
    [] kind = "rule"        -> {"rules.scopedRules"}
    [] kind = "skill"       -> {"skills.bundles", "skills.supportingFiles"}
    [] kind = "agent"       -> {"agents.subagents", "agents.toolPolicies"}
    [] kind = "hook"        -> {"hooks.lifecycle", "hooks.blockingValidation"}
    [] kind = "command"     -> {"commands.explicitEntryPoints"}
    [] kind = "plugin"      -> {"plugins.installablePackages", "plugins.capabilityProviders"}
    [] OTHER                -> {}

Surfaces == {"mcp.serverBindings"} \cup UNION {RequiredCapabilities(k) : k \in Kinds}

Levels == {"native", "adapted", "lowered", "emulated", "skipped"}

\* markdown: the text is the body of a Markdown file and not a field as well.
\* enforcement and effectClass are the fields of that name, "" if there is none.
Object ==
  [kind         : Kinds,
   targets      : SUBSET (Targets \cup {"*"}),
   disabled     : SUBSET Targets,
   profiles     : SUBSET (Profiles \cup {"*"}),
   preservation : Preservations,
   enforcement  : {"", "blocking", "advisory", "best-effort"},
   effectClass  : {"", "observing", "validating", "transforming", "setup", "reporting"},
   providesMCP  : BOOLEAN,
   markdown     : BOOLEAN,
   fields       : FieldValues]

\* id ranks the providers of one type.
Provider == [id : Nat, type : {"native", "plugin", "mcp", "script"}, surfaces : SUBSET Surfaces]

ASSUME PlanAndLowerAssumption ==
  /\ Support \in [Targets -> [Surfaces -> Levels]]
  /\ \A i \in Inputs :
       /\ i.objects \in Seq(Object)
       /\ i.profile \in Profiles
       /\ i.plugins \subseteq Provider
       /\ \A p, q \in i.plugins : p.id = q.id => p = q

VARIABLES
  input,         \* objects, targets, profile and plugins
  pc,            \* "plan", "capability", "lower", "done" or "failed"
  units,         \* the build plan: the active objects of each unit
  capabilities,  \* the capability graph: what is resolved and what is not
  lowered,       \* the lowered graph
  errors         \* the error diagnostics: pairs of a unit and a surface or object

vars == <<input, pc, units, capabilities, lowered, errors>>

objects == input.objects
ID == DOMAIN objects

None == <<>>

Init ==
  /\ input \in Inputs
  /\ pc = "plan"
  /\ units = None
  /\ capabilities = None
  /\ lowered = None
  /\ errors = {}

-----------------------------------------------------------------------------
(***************************************************************************)
(* The planner                                                             *)
(***************************************************************************)

TargetFilter(o, target) ==
  /\ target \notin o.disabled
  /\ o.targets = {} \/ "*" \in o.targets \/ target \in o.targets

ProfileFilter(o, profile) == o.profiles = {} \/ "*" \in o.profiles \/ profile \in o.profiles

\* buildUnit.
Active(target) ==
  {i \in ID : TargetFilter(objects[i], target) /\ ProfileFilter(objects[i], input.profile)}

Plan ==
  /\ pc = "plan"
  /\ units' = [t \in input.targets |-> Active(t)]
  /\ pc' = "capability"
  /\ UNCHANGED <<input, capabilities, lowered, errors>>

-----------------------------------------------------------------------------
(***************************************************************************)
(* The capability resolver                                                 *)
(***************************************************************************)

Priority(p) == CASE p.type = "native" -> 1
                 [] p.type = "plugin" -> 2
                 [] p.type = "mcp"    -> 3
                 [] OTHER             -> 4

Ahead(p, q) == Priority(p) < Priority(q) \/ (Priority(p) = Priority(q) /\ p.id < q.id)

\* A provider of the target's own, with the support level its ID tells.
Native(level) == [type |-> "native", level |-> level]

\* Mutant: the profile does not matter.
Usable_AnyProfile(surface) == {p \in input.plugins : surface \in p.surfaces}

\* The configured providers of a surface that the profile allows.
Usable(surface) ==
  {p \in input.plugins :
     surface \in p.surfaces /\ ~ (input.profile = "enterprise-locked" /\ p.type = "mcp")}

\* SelectProvider: the target itself, the first of the configured providers,
\* or an emulation.
SelectProvider(surface, target) ==
  LET level == Support[target][surface]
  IN CASE level \in {"native", "adapted", "lowered"} -> Native(level)
       [] level \in {"emulated", "skipped"} /\ Usable(surface) # {} ->
            LET first == CHOOSE p \in Usable(surface) : \A q \in Usable(surface) : p = q \/ Ahead(p, q)
            IN [type |-> first.type, level |-> "plugin"]
       [] level = "emulated" /\ Usable(surface) = {} -> Native("emulated")
       [] OTHER -> None

\* What the active objects of a unit require.
Required(target) ==
  UNION {RequiredCapabilities(objects[i].kind) : i \in units[target]}

\* Mutant: the first object that requires a surface decides.
Preservation_First(target, surface) ==
  LET by == {i \in units[target] : surface \in RequiredCapabilities(objects[i].kind)}
  IN objects[CHOOSE i \in by : \A j \in by : i <= j].preservation

\* The most restrictive preservation level of the active objects requiring it.
Preservation(target, surface) ==
  LET levels == {objects[i].preservation :
                   i \in {j \in units[target] : surface \in RequiredCapabilities(objects[j].kind)}}
  IN CASE "required" \in levels -> "required"
       [] "required" \notin levels /\ "preferred" \in levels -> "preferred"
       [] OTHER -> "optional"

\* resolveUnit, which gives up when the target has no registry.
ResolveUnit(target) ==
  IF target \notin Targets
    THEN [resolved |-> None, unsatisfied |-> {"*"}]
    ELSE LET found == {s \in Required(target) : SelectProvider(s, target) # None}
         IN [resolved    |-> [s \in found |-> SelectProvider(s, target)],
             unsatisfied |-> Required(target) \ found]

CapabilityErrors(target) ==
  IF target \notin Targets
    THEN {<<target, "*">>}
    ELSE {<<target, s>> : s \in {u \in ResolveUnit(target).unsatisfied :
                                   Preservation(target, u) = "required"}}

\* The graph of a stage that fails goes no further: the next stage would get
\* the BuildPlan again and refuse it.
ResolveCapabilities ==
  /\ pc = "capability"
  /\ capabilities' = [t \in DOMAIN units |-> ResolveUnit(t)]
  /\ errors' = UNION {CapabilityErrors(t) : t \in DOMAIN units}
  /\ pc' = IF errors' = {} THEN "lower" ELSE "failed"
  /\ UNCHANGED <<input, units, lowered>>

-----------------------------------------------------------------------------
(***************************************************************************)
(* The lowering engine                                                     *)
(*                                                                         *)
(* A lowered object is what the object becomes: its kind, the action and   *)
(* whether it is safe, whether the text of the object is part of it, and   *)
(* the severity of the preservation check, "info" when it is allowed.      *)
(***************************************************************************)

LoweredObject ==
  [kind     : Kinds,
   action   : {"kept", "lowered", "skipped", "failed"},
   safe     : BOOLEAN,
   text     : BOOLEAN,
   severity : {"info", "warning", "error"}]

CheckPreservation(safe, preservation) ==
  CASE safe \/ preservation = "optional"         -> "info"
    [] ~ safe /\ preservation = "preferred"      -> "warning"
    [] ~ safe /\ preservation = "required"       -> "error"

IsResolved(target, surface) == surface \in DOMAIN capabilities[target].resolved

KeepObject(o) ==
  [kind |-> o.kind, action |-> "kept", safe |-> TRUE, text |-> TRUE, severity |-> "info"]

\* A safe lowering, which is always allowed.
Lowered(kind, text) ==
  [kind |-> kind, action |-> "lowered", safe |-> TRUE, text |-> text, severity |-> "info"]

Skipped(o, action, safe) ==
  [kind |-> o.kind, action |-> action, safe |-> safe, text |-> FALSE,
   severity |-> CheckPreservation(safe, o.preservation)]

\* Not supported: an error is recorded as a failure, all else as skipped.
SkippedOrFailed(o) ==
  Skipped(o, IF CheckPreservation(FALSE, o.preservation) = "error" THEN "failed" ELSE "skipped", FALSE)

\* The text of a rule, skill or agent is read from its fields.
LowerRule(o) == Lowered("instruction", ~ o.markdown)

\* An agent or a skill becomes a rule if losing the rest of it is allowed.
Flatten(o) ==
  IF CheckPreservation(FALSE, o.preservation) = "info"
    THEN [kind |-> "rule", action |-> "lowered", safe |-> FALSE, text |-> ~ o.markdown,
          severity |-> "info"]
    ELSE SkippedOrFailed(o)

LowerSkill(o, target) ==
  IF IsResolved(target, "skills.bundles") THEN KeepObject(o) ELSE Flatten(o)

LowerAgent(o, target) ==
  IF IsResolved(target, "agents.subagents") THEN KeepObject(o) ELSE Flatten(o)

Enforcement(o) == IF o.enforcement = "" THEN "advisory" ELSE o.enforcement

\* Mutant: a blocking hook is treated like any other.
LowerHook_NoBlocking(o, target) ==
  CASE IsResolved(target, "hooks.lifecycle") /\ IsResolved(target, "hooks.blockingValidation") ->
         KeepObject(o)
    [] OTHER -> IF IsResolved(target, "commands.explicitEntryPoints")
                  THEN Lowered("command", FALSE) ELSE Skipped(o, "skipped", FALSE)

\* An advisory hook becomes a command, or an instruction to run it by hand; a
\* best-effort one may be dropped safely.
LowerHook(o, target) ==
  LET native == /\ IsResolved(target, "hooks.lifecycle")
                /\ IsResolved(target, "hooks.blockingValidation")
      blocking == Enforcement(o) = "blocking"
      commands == IsResolved(target, "commands.explicitEntryPoints")
      manual == o.effectClass \in {"setup", "reporting"}
  IN CASE native -> KeepObject(o)
       [] ~ native /\ ~ blocking /\ commands -> Lowered("command", FALSE)
       [] ~ native /\ ~ blocking /\ ~ commands /\ manual -> Lowered("instruction", FALSE)
       [] OTHER -> Skipped(o, "skipped", Enforcement(o) = "best-effort")

LowerCommand(o, target) ==
  LET surface == "commands.explicitEntryPoints"
  IN CASE ~ IsResolved(target, surface) -> SkippedOrFailed(o)
       [] OTHER -> IF capabilities[target].resolved[surface].level = "lowered"
                     THEN Lowered("skill", FALSE) ELSE KeepObject(o)

\* mcp.serverBindings is required by no kind, and so never resolved.
LowerPlugin(o, target) ==
  CASE IsResolved(target, "plugins.installablePackages") -> KeepObject(o)
    [] ~ IsResolved(target, "plugins.installablePackages")
         /\ IsResolved(target, "mcp.serverBindings") /\ o.providesMCP -> Lowered("plugin", FALSE)
    [] OTHER -> SkippedOrFailed(o)

LowerObject(o, target) ==
  CASE o.kind = "rule"    -> LowerRule(o)
    [] o.kind = "hook"    -> LowerHook(o, target)
    [] o.kind = "skill"   -> LowerSkill(o, target)
    [] o.kind = "agent"   -> LowerAgent(o, target)
    [] o.kind = "command" -> LowerCommand(o, target)
    [] o.kind = "plugin"  -> LowerPlugin(o, target)
    [] OTHER              -> KeepObject(o)

\* All objects of the graph with a surface that some active object requires.
ObjectIDsForUnit(target) ==
  LET surfaces == DOMAIN capabilities[target].resolved \cup capabilities[target].unsatisfied
  IN {i \in ID : RequiredCapabilities(objects[i].kind) \cap surfaces # {}}

LowerUnit(target) == [i \in ObjectIDsForUnit(target) |-> LowerObject(objects[i], target)]

LoweringErrors(target) ==
  {<<target, i>> : i \in {j \in ObjectIDsForUnit(target) : LowerUnit(target)[j].severity = "error"}}

Lower ==
  /\ pc = "lower"
  /\ lowered' = [t \in DOMAIN units |-> LowerUnit(t)]
  /\ errors' = UNION {LoweringErrors(t) : t \in DOMAIN units}
  /\ pc' = IF errors' = {} THEN "done" ELSE "failed"
  /\ UNCHANGED <<input, units, capabilities>>

Next == Plan \/ ResolveCapabilities \/ Lower

Spec == Init /\ [][Next]_vars

-----------------------------------------------------------------------------
(***************************************************************************)
(* Properties                                                              *)
(***************************************************************************)

\* Each graph holds what its type says, and has the units of the plan.
TypeOK ==
  /\ pc \in {"plan", "capability", "lower", "done", "failed"}
  /\ pc # "plan" => /\ DOMAIN units = input.targets
                    /\ \A t \in DOMAIN units : units[t] \subseteq ID
  /\ pc \in {"lower", "done"} =>
       /\ DOMAIN capabilities = DOMAIN units
       /\ \A t \in DOMAIN units :
            /\ DOMAIN capabilities[t].resolved \subseteq Surfaces
            /\ capabilities[t].unsatisfied \subseteq Surfaces
            /\ DOMAIN capabilities[t].resolved \cap capabilities[t].unsatisfied = {}
  /\ pc = "done" =>
       /\ DOMAIN lowered = DOMAIN units
       /\ \A t \in DOMAIN units : \A i \in DOMAIN lowered[t] : lowered[t][i] \in LoweredObject
  /\ pc = "failed" <=> errors # {}

\* "required: unsupported or unsafe lowering fails the build": no object that is
\* active in a unit and required was skipped or lowered unsafely in it.
RequiredSurvives ==
  \A t \in DOMAIN units : \A i \in units[t] \cap DOMAIN lowered[t] :
    objects[i].preservation = "required" =>
      lowered[t][i].safe /\ lowered[t][i].action \in {"kept", "lowered"}

\* "preferred: lower when safe, otherwise warn and skip": what reaches the
\* renderers in an unsafe form is optional, and what is skipped was not
\* supported.
UnsafeIsOptional ==
  \A t \in DOMAIN units : \A i \in DOMAIN lowered[t] :
    LET l == lowered[t][i]
    IN /\ l.action = "lowered" /\ ~ l.safe => objects[i].preservation = "optional"
       /\ l.action = "skipped" =>
            \E s \in RequiredCapabilities(objects[i].kind) : ~ IsResolved(t, s)

\* Preservation levels are kept, though two stages share the work: a missing
\* surface is noticed by the resolver, for the objects of the unit together, and
\* an unsafe lowering by the engine, for each object, assuming that the resolver
\* has done its part.
PreservationIsKept ==
  /\ TypeOK
  /\ pc = "done" => RequiredSurvives /\ UnsafeIsOptional

\* "Blocking hooks must not silently lower to advisory commands": what a target
\* that cannot block makes of a blocking hook is nothing.
BlockingIsNotAdvisory ==
  pc = "done" =>
    \A t \in DOMAIN units : \A i \in DOMAIN lowered[t] :
      objects[i].kind = "hook" /\ objects[i].enforcement = "blocking" =>
        \/ lowered[t][i].action = "kept" /\ IsResolved(t, "hooks.blockingValidation")
        \/ lowered[t][i].action = "skipped" /\ objects[i].preservation # "required"

\* Capabilities are resolved for the sake of objects, and the engine finds its
\* objects by their surfaces: on the way no active object is lost, whether its
\* surfaces were resolved or not.
NoActiveObjectIsLost ==
  \A t \in DOMAIN units : \A i \in units[t] :
    RequiredCapabilities(objects[i].kind) # {} => i \in DOMAIN lowered[t]

\* Nor is anything taken that is not active, unless it requires a surface that an
\* active object of the unit requires, which is all the engine has to go by.
InactiveOnlyByASurface ==
  \A t \in DOMAIN units : \A i \in DOMAIN lowered[t] \ units[t] :
    \E j \in units[t] :
      RequiredCapabilities(objects[i].kind) \cap RequiredCapabilities(objects[j].kind) # {}

\* A locked enterprise profile has no MCP-backed provider anywhere, though an
\* unlocked one would prefer it to a script; and nothing that the target or a
\* provider of another type supports is given up because of it.
LockedProfileHasNoMCP ==
  pc = "done" /\ input.profile = "enterprise-locked" =>
    \A t \in DOMAIN units :
      /\ \A s \in DOMAIN capabilities[t].resolved : capabilities[t].resolved[s].type # "mcp"
      /\ \A s \in capabilities[t].unsatisfied :
           /\ Support[t][s] = "skipped"
           /\ \A p \in input.plugins : s \in p.surfaces => p.type = "mcp"
=============================================================================
