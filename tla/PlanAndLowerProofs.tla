------------------------- MODULE PlanAndLowerProofs -------------------------
(***************************************************************************)
(* What planner, capability resolver, lowering engine and renderers        *)
(* promise together, for every registry of surfaces, any objects and any   *)
(* providers.                                                              *)
(***************************************************************************)
EXTENDS Renderers, WellFoundedInduction, TLAPS

\* What the lowering engine relies on, and only the resolver knows: every unit
\* has a registry, each required surface is accounted for, and those of required
\* objects are resolved.
CapabilityInv ==
  pc \in {"lower", "done"} =>
    \A t \in DOMAIN units :
      /\ t \in Targets
      /\ DOMAIN capabilities[t].resolved \cup capabilities[t].unsatisfied \subseteq Required(t)
      /\ \A i \in units[t] :
           /\ RequiredCapabilities(objects[i].kind)
                \subseteq DOMAIN capabilities[t].resolved \cup capabilities[t].unsatisfied
           /\ objects[i].preservation = "required" =>
                RequiredCapabilities(objects[i].kind) \subseteq DOMAIN capabilities[t].resolved

\* A locked profile shows in the capability graph as soon as there is one.
LockedInv ==
  pc \in {"lower", "done"} /\ input.profile = "enterprise-locked" =>
    \A t \in DOMAIN units :
      /\ \A s \in DOMAIN capabilities[t].resolved : capabilities[t].resolved[s].type # "mcp"
      /\ \A s \in capabilities[t].unsatisfied :
           /\ Support[t][s] = "skipped"
           /\ \A p \in input.plugins : s \in p.surfaces => p.type = "mcp"

IInv ==
  /\ input \in Inputs
  /\ PreservationIsKept
  /\ BlockingIsNotAdvisory
  /\ pc = "done" => NoActiveObjectIsLost /\ InactiveOnlyByASurface
  /\ CapabilityInv
  /\ LockedInv

-----------------------------------------------------------------------------
(***************************************************************************)
(* Selection of providers                                                  *)
(***************************************************************************)

LEMMA Least ==
  ASSUME NEW I \in SUBSET Nat, I # {}
  PROVE  \E i \in I : \A j \in I : ~ (j < i)
<1>1. IsWellFoundedOn(OpToRel(<, Nat), Nat)
  BY NatLessThanWellFounded
<1>2. PICK i \in I : \A j \in I : ~ (<<j, i>> \in OpToRel(<, Nat))
  BY <1>1, WFMin, Zenon
<1>3. \A j \in I : j < i => <<j, i>> \in OpToRel(<, Nat)
  BY Zenon DEF OpToRel
<1> QED BY <1>2, <1>3, Zenon

\* Of the providers of a surface one comes first, since IDs differ.
LEMMA FirstProvider ==
  ASSUME NEW P \in SUBSET Provider, P # {}, \A p, q \in P : p.id = q.id => p = q
  PROVE  \E p \in P : \A q \in P : p = q \/ Ahead(p, q)
<1>1. \A p \in P : Priority(p) \in Nat /\ p.id \in Nat
  BY DEF Provider, Priority
<1>2. PICK n \in {Priority(p) : p \in P} : \A m \in {Priority(p) : p \in P} : ~ (m < n)
  <2>1. {Priority(p) : p \in P} # {} OBVIOUS
  <2>2. {Priority(p) : p \in P} \in SUBSET Nat BY <1>1
  <2> QED BY <2>1, <2>2, Least
<1> DEFINE Q == {p \in P : Priority(p) = n}
<1>3. PICK k \in {p.id : p \in Q} : \A m \in {p.id : p \in Q} : ~ (m < k)
  <2>1. {p.id : p \in Q} # {} BY <1>2
  <2>2. {p.id : p \in Q} \in SUBSET Nat BY <1>1
  <2> QED BY <2>1, <2>2, Least
<1>4. PICK p \in Q : p.id = k BY <1>3
<1>5. ASSUME NEW q \in P PROVE p = q \/ Ahead(p, q)
  <2>1. Priority(p) = n /\ Priority(q) \in Nat /\ n \in Nat /\ ~ (Priority(q) < n)
    BY <1>1, <1>2, <1>4
  <2>2. CASE q \in Q
    <3>1. p.id \in Nat /\ q.id \in Nat /\ ~ (q.id < p.id) BY <1>1, <1>3, <1>4, <2>2
    <3>2. Priority(q) = Priority(p) BY <1>4, <2>2
    <3>3. p.id = q.id => p = q BY <1>4
    <3> QED BY <3>1, <3>2, <3>3 DEF Ahead
  <2>3. CASE q \notin Q
    <3>1. Priority(p) < Priority(q) BY <2>1, <2>3
    <3> QED BY <3>1 DEF Ahead
  <2> QED BY <2>2, <2>3
<1> QED BY <1>4, <1>5

\* SelectProvider gives a provider unless neither the target nor a usable plugin
\* has the surface, and never a plugin that may not be used.
LEMMA Selection ==
  ASSUME input \in Inputs, NEW s \in Surfaces, NEW t \in Targets
  PROVE  /\ SelectProvider(s, t) = None => Support[t][s] = "skipped" /\ Usable(s) = {}
         /\ SelectProvider(s, t) # None =>
              SelectProvider(s, t).type \in {"native"} \cup {p.type : p \in Usable(s)}
<1>1. Support[t][s] \in Levels BY PlanAndLowerAssumption
<1>2. \A type, level : [type |-> type, level |-> level] # None
  <2> SUFFICES ASSUME NEW type, NEW level, [type |-> type, level |-> level] = <<>>
               PROVE  FALSE
    BY DEF None
  <2>1. DOMAIN [type |-> type, level |-> level] = {"type", "level"} OBVIOUS
  <2>2. DOMAIN <<>> = {} OBVIOUS
  <2> QED BY <2>1, <2>2
<1>3. CASE Support[t][s] \in {"native", "adapted", "lowered"}
  BY <1>2, <1>3 DEF SelectProvider, Native
<1>4. CASE Support[t][s] \in {"emulated", "skipped"} /\ Usable(s) # {}
  <2> DEFINE first == CHOOSE p \in Usable(s) : \A q \in Usable(s) : p = q \/ Ahead(p, q)
  <2>1. /\ Usable(s) \in SUBSET Provider
        /\ \A p, q \in Usable(s) : p.id = q.id => p = q
    BY PlanAndLowerAssumption DEF Usable
  <2>2. first \in Usable(s) BY <1>4, <2>1, FirstProvider
  <2>3. SelectProvider(s, t) = [type |-> first.type, level |-> "plugin"]
    BY <1>4 DEF SelectProvider
  <2> HIDE DEF first
  <2> QED BY <1>2, <2>2, <2>3
<1>5. CASE Support[t][s] = "emulated" /\ Usable(s) = {}
  BY <1>2, <1>5 DEF SelectProvider, Native
<1>6. CASE Support[t][s] = "skipped" /\ Usable(s) = {}
  BY <1>6 DEF SelectProvider
<1> QED BY <1>1, <1>3, <1>4, <1>5, <1>6 DEF Levels

-----------------------------------------------------------------------------
(***************************************************************************)
(* The lowering of an object                                               *)
(***************************************************************************)

\* What becomes of an object is one of these; nothing else is assumed about the
\* lowerings below.
LEMMA LoweringOutcomes ==
  ASSUME NEW o \in Object, NEW t
  PROVE  LET l == LowerObject(o, t)
         IN /\ l \in LoweredObject
            /\ l.action = "lowered" /\ ~ l.safe => o.preservation = "optional"
            /\ l.action = "skipped" => \E s \in RequiredCapabilities(o.kind) : ~ IsResolved(t, s)
            /\ /\ o.preservation = "required"
               /\ \A s \in RequiredCapabilities(o.kind) : IsResolved(t, s)
               => l.safe /\ l.action \in {"kept", "lowered"}
            /\ o.kind = "hook" /\ o.enforcement = "blocking" /\ l.severity # "error" =>
                 \/ l.action = "kept" /\ IsResolved(t, "hooks.blockingValidation")
                 \/ l.action = "skipped" /\ o.preservation # "required"
<1> DEFINE l == LowerObject(o, t)
<1>1. o.kind \in Kinds /\ o.preservation \in Preservations /\ o.markdown \in BOOLEAN
  BY DEF Object
<1>2. /\ \A action \in {"skipped", "failed"}, safe \in BOOLEAN :
           /\ Skipped(o, action, safe) \in LoweredObject
           /\ Skipped(o, action, safe).action = action
           /\ Skipped(o, action, safe).safe = safe
           /\ Skipped(o, action, safe).severity = CheckPreservation(safe, o.preservation)
      /\ SkippedOrFailed(o) \in {Skipped(o, "skipped", FALSE), Skipped(o, "failed", FALSE)}
  <2>1. ASSUME NEW action \in {"skipped", "failed"}, NEW safe \in BOOLEAN
        PROVE  /\ Skipped(o, action, safe) \in LoweredObject
               /\ Skipped(o, action, safe).action = action
               /\ Skipped(o, action, safe).safe = safe
               /\ Skipped(o, action, safe).severity = CheckPreservation(safe, o.preservation)
    <3>1. CheckPreservation(safe, o.preservation) \in {"info", "warning", "error"}
      BY <1>1 DEF CheckPreservation, Preservations
    <3> QED BY <1>1, <3>1 DEF Skipped, LoweredObject
  <2> QED BY <2>1 DEF SkippedOrFailed
<1>3. /\ Flatten(o) \in LoweredObject
      /\ Flatten(o).action = "lowered" => o.preservation = "optional"
      /\ Flatten(o).action \in {"lowered", "skipped", "failed"}
  <2>1. CASE CheckPreservation(FALSE, o.preservation) = "info"
    <3>1. o.preservation = "optional" BY <1>1, <2>1 DEF CheckPreservation, Preservations
    <3>2. (~ o.markdown) \in BOOLEAN OBVIOUS
    <3>3. Flatten(o) = [kind |-> "rule", action |-> "lowered", safe |-> FALSE,
                        text |-> ~ o.markdown, severity |-> "info"]
      BY <2>1 DEF Flatten
    <3> QED BY <3>1, <3>2, <3>3 DEF LoweredObject, Kinds
  <2>2. CASE CheckPreservation(FALSE, o.preservation) # "info"
    BY <1>2, <2>2 DEF Flatten
  <2> QED BY <2>1, <2>2
<1>4. KeepObject(o) \in LoweredObject /\ KeepObject(o).action = "kept" /\ KeepObject(o).safe
  BY <1>1 DEF KeepObject, LoweredObject
<1>5. \A kind \in Kinds : /\ Lowered(kind, FALSE) \in LoweredObject
                          /\ Lowered(kind, FALSE).action = "lowered"
                          /\ Lowered(kind, FALSE).safe
  BY DEF Lowered, LoweredObject
<1>6. CASE o.kind = "rule"
  <2>1. l = Lowered("instruction", ~ o.markdown) BY <1>6 DEF LowerObject, LowerRule
  <2> QED BY <1>1, <1>6, <2>1 DEF Lowered, LoweredObject, Kinds
<1>7. CASE o.kind = "hook"
  <2> DEFINE surfaces == {"hooks.lifecycle", "hooks.blockingValidation"}
  <2>1. RequiredCapabilities(o.kind) = surfaces BY <1>7 DEF RequiredCapabilities
  <2>2. l = LowerHook(o, t) BY <1>7 DEF LowerObject
  <2>3. o.enforcement = "blocking" <=> Enforcement(o) = "blocking"
    BY DEF Enforcement
  <2>4. CASE \A s \in surfaces : IsResolved(t, s)
    <3>1. l = KeepObject(o) BY <2>2, <2>4 DEF LowerHook
    <3> QED BY <1>1, <2>4, <3>1 DEF KeepObject, LoweredObject
  <2>5. CASE (\E s \in surfaces : ~ IsResolved(t, s))
             /\ l \in {Lowered("command", FALSE), Lowered("instruction", FALSE)}
    <3>1. Enforcement(o) # "blocking"
      BY <2>2, <2>5 DEF LowerHook, Skipped, Lowered
    <3> QED BY <1>7, <1>5, <2>1, <2>3, <2>5, <3>1 DEF Kinds
  <2>6. CASE (\E s \in surfaces : ~ IsResolved(t, s))
             /\ l = Skipped(o, "skipped", Enforcement(o) = "best-effort")
    <3>1. l \in LoweredObject /\ l.action = "skipped"
          /\ l.severity = CheckPreservation(l.safe, o.preservation)
      BY <1>2, <2>6
    <3>2. Enforcement(o) = "blocking" => ~ l.safe BY <1>2, <2>6
    <3>3. ~ l.safe /\ o.preservation = "required" => l.severity = "error"
      BY <3>1 DEF CheckPreservation
    <3> QED BY <1>7, <2>1, <2>3, <2>6, <3>1, <3>2, <3>3
  <2> QED BY <2>2, <2>4, <2>5, <2>6 DEF LowerHook
<1>8. CASE o.kind = "skill"
  BY <1>8, <1>3, <1>4 DEF LowerObject, LowerSkill, RequiredCapabilities
<1>9. CASE o.kind = "agent"
  BY <1>9, <1>3, <1>4 DEF LowerObject, LowerAgent, RequiredCapabilities
<1>10. CASE o.kind = "command"
  <2>1. RequiredCapabilities(o.kind) = {"commands.explicitEntryPoints"}
    BY <1>10 DEF RequiredCapabilities
  <2>2. ~ SkippedOrFailed(o).safe /\ SkippedOrFailed(o) \in LoweredObject
        /\ SkippedOrFailed(o).action \in {"skipped", "failed"}
    BY <1>2
  <2> QED BY <1>10, <1>4, <1>5, <2>1, <2>2 DEF LowerObject, LowerCommand, Kinds
<1>11. CASE o.kind = "plugin"
  <2>1. "plugins.installablePackages" \in RequiredCapabilities(o.kind)
    BY <1>11 DEF RequiredCapabilities
  <2>2. ~ SkippedOrFailed(o).safe /\ SkippedOrFailed(o) \in LoweredObject
        /\ SkippedOrFailed(o).action \in {"skipped", "failed"}
    BY <1>2
  <2> QED BY <1>11, <1>4, <1>5, <2>1, <2>2 DEF LowerObject, LowerPlugin, Kinds
<1>12. CASE o.kind \in {"instruction", "capability"}
  BY <1>12, <1>4 DEF LowerObject
<1> QED BY <1>1, <1>6, <1>7, <1>8, <1>9, <1>10, <1>11, <1>12 DEF Kinds

-----------------------------------------------------------------------------
(***************************************************************************)
(* The stages                                                              *)
(***************************************************************************)

\* Objects of the graph are objects.
LEMMA ObjectsAreTyped == ASSUME input \in Inputs, NEW i \in ID PROVE objects[i] \in Object
<1>1. objects \in Seq(Object) BY PlanAndLowerAssumption DEF objects
<1> QED BY <1>1 DEF ID

LEMMA KindsHaveSurfaces == \A k \in Kinds : RequiredCapabilities(k) \subseteq Surfaces
BY DEF Surfaces

LEMMA InitInv == Init => IInv
BY DEF Init, IInv, PreservationIsKept, TypeOK, BlockingIsNotAdvisory, CapabilityInv, LockedInv

LEMMA PlanInv == ASSUME IInv, Plan PROVE IInv'
<1> USE DEF Plan
<1>1. DOMAIN units' = input.targets /\ \A t \in DOMAIN units' : units'[t] \subseteq ID
  BY DEF Active
<1>2. errors' = {} BY DEF IInv, PreservationIsKept, TypeOK
<1>3. TypeOK' BY <1>1, <1>2 DEF TypeOK, ID, objects
<1> QED
  BY <1>3 DEF IInv, PreservationIsKept, BlockingIsNotAdvisory, CapabilityInv, LockedInv

\* What one unit's capability graph is like if it gave rise to no error.
LEMMA ResolvedUnit ==
  ASSUME IInv, pc = "capability", NEW t \in DOMAIN units, CapabilityErrors(t) = {}
  PROVE  /\ t \in Targets
         /\ LET c == ResolveUnit(t)
            IN /\ DOMAIN c.resolved \subseteq Surfaces
               /\ c.unsatisfied \subseteq Surfaces
               /\ DOMAIN c.resolved \cap c.unsatisfied = {}
               /\ DOMAIN c.resolved \cup c.unsatisfied \subseteq Required(t)
               /\ \A i \in units[t] :
                    /\ RequiredCapabilities(objects[i].kind)
                         \subseteq DOMAIN c.resolved \cup c.unsatisfied
                    /\ objects[i].preservation = "required" =>
                         RequiredCapabilities(objects[i].kind) \subseteq DOMAIN c.resolved
               /\ input.profile = "enterprise-locked" =>
                    /\ \A s \in DOMAIN c.resolved : c.resolved[s].type # "mcp"
                    /\ \A s \in c.unsatisfied :
                         /\ Support[t][s] = "skipped"
                         /\ \A p \in input.plugins : s \in p.surfaces => p.type = "mcp"
<1> DEFINE found == {s \in Required(t) : SelectProvider(s, t) # None}
<1>1. t \in Targets BY DEF CapabilityErrors
<1>2. /\ ResolveUnit(t).resolved = [s \in found |-> SelectProvider(s, t)]
      /\ ResolveUnit(t).unsatisfied = Required(t) \ found
  BY <1>1 DEF ResolveUnit
<1>3. input \in Inputs /\ units[t] \subseteq ID
  BY DEF IInv, PreservationIsKept, TypeOK
<1>4. Required(t) \subseteq Surfaces
  <2>1. \A i \in units[t] : objects[i].kind \in Kinds
    BY <1>3, ObjectsAreTyped DEF Object
  <2> QED BY <2>1, KindsHaveSurfaces DEF Required
<1>5. ASSUME NEW i \in units[t]
      PROVE  /\ RequiredCapabilities(objects[i].kind) \subseteq Required(t)
             /\ objects[i].preservation = "required" =>
                  RequiredCapabilities(objects[i].kind) \subseteq found
  <2>1. RequiredCapabilities(objects[i].kind) \subseteq Required(t)
    BY DEF Required
  <2>2. ASSUME objects[i].preservation = "required",
               NEW s \in RequiredCapabilities(objects[i].kind), s \notin found
        PROVE  FALSE
    <3>1. s \in ResolveUnit(t).unsatisfied BY <1>2, <2>1, <2>2
    <3>2. Preservation(t, s) = "required" BY <2>2 DEF Preservation
    <3>3. <<t, s>> \in CapabilityErrors(t) BY <1>1, <3>1, <3>2 DEF CapabilityErrors
    <3> QED BY <3>3
  <2> QED BY <2>1, <2>2
<1>6. ASSUME input.profile = "enterprise-locked"
      PROVE  /\ \A s \in found : SelectProvider(s, t).type # "mcp"
             /\ \A s \in Required(t) \ found :
                  /\ Support[t][s] = "skipped"
                  /\ \A p \in input.plugins : s \in p.surfaces => p.type = "mcp"
  <2>1. \A s : \A p \in Usable(s) : p.type # "mcp" BY <1>6 DEF Usable
  <2>2. \A s \in found : SelectProvider(s, t).type # "mcp"
    BY <1>1, <1>3, <1>4, <2>1, Selection
  <2>3. \A s \in Required(t) \ found : Support[t][s] = "skipped" /\ Usable(s) = {}
    BY <1>1, <1>3, <1>4, Selection
  <2>4. \A s : Usable(s) = {} =>
               \A p \in input.plugins : s \in p.surfaces => p.type = "mcp"
    BY DEF Usable
  <2> QED BY <2>2, <2>3, <2>4
<1> HIDE DEF found
<1>7. found \subseteq Required(t) BY DEF found
<1> QED BY <1>1, <1>2, <1>4, <1>5, <1>6, <1>7

LEMMA ResolveInv == ASSUME IInv, ResolveCapabilities PROVE IInv'
<1> USE DEF ResolveCapabilities
<1>1. CASE errors' # {}
  <2>1. TypeOK' BY <1>1 DEF IInv, PreservationIsKept, TypeOK, ID, objects
  <2> QED BY <1>1, <2>1
       DEF IInv, PreservationIsKept, BlockingIsNotAdvisory, CapabilityInv, LockedInv
<1>2. CASE errors' = {}
  <2>1. \A t \in DOMAIN units : CapabilityErrors(t) = {} BY <1>2
  <2>2. \A t \in DOMAIN units : capabilities'[t] = ResolveUnit(t) OBVIOUS
  <2>3. pc' = "lower" BY <1>2
  <2>4. TypeOK'
    BY <1>2, <2>1, <2>2, <2>3, ResolvedUnit DEF IInv, PreservationIsKept, TypeOK, ID, objects
  <2>5. CapabilityInv'
    <3>1. \A t : Required(t)' = Required(t) BY DEF Required, objects
    <3> QED BY <2>1, <2>2, <3>1, ResolvedUnit DEF CapabilityInv, objects
  <2>6. LockedInv' BY <2>1, <2>2, ResolvedUnit DEF LockedInv
  <2> QED BY <2>3, <2>4, <2>5, <2>6 DEF IInv, PreservationIsKept, BlockingIsNotAdvisory
<1> QED BY <1>1, <1>2

\* What becomes of the objects of one unit if there was no error.
LEMMA LoweredUnit ==
  ASSUME IInv, pc = "lower", NEW t \in DOMAIN units, LoweringErrors(t) = {}
  PROVE  /\ \A i \in units[t] :
              RequiredCapabilities(objects[i].kind) # {} => i \in ObjectIDsForUnit(t)
         /\ DOMAIN LowerUnit(t) = ObjectIDsForUnit(t)
         /\ \A i \in ObjectIDsForUnit(t) : \E j \in units[t] :
              RequiredCapabilities(objects[i].kind) \cap RequiredCapabilities(objects[j].kind) # {}
         /\ \A i \in ObjectIDsForUnit(t) :
              LET o == objects[i]  l == LowerUnit(t)[i]
              IN /\ l \in LoweredObject
                 /\ l.action = "lowered" /\ ~ l.safe => o.preservation = "optional"
                 /\ l.action = "skipped" =>
                      \E s \in RequiredCapabilities(o.kind) : ~ IsResolved(t, s)
                 /\ i \in units[t] /\ o.preservation = "required" =>
                      l.safe /\ l.action \in {"kept", "lowered"}
                 /\ o.kind = "hook" /\ o.enforcement = "blocking" =>
                      \/ l.action = "kept" /\ IsResolved(t, "hooks.blockingValidation")
                      \/ l.action = "skipped" /\ o.preservation # "required"
<1>1. \A i \in units[t] :
        /\ i \in ID
        /\ RequiredCapabilities(objects[i].kind)
             \subseteq DOMAIN capabilities[t].resolved \cup capabilities[t].unsatisfied
        /\ objects[i].preservation = "required" =>
             \A s \in RequiredCapabilities(objects[i].kind) : IsResolved(t, s)
  BY DEF IInv, PreservationIsKept, TypeOK, CapabilityInv, IsResolved
<1>2. \A i \in units[t] :
        RequiredCapabilities(objects[i].kind) # {} => i \in ObjectIDsForUnit(t)
  BY <1>1 DEF ObjectIDsForUnit
<1>3. /\ DOMAIN LowerUnit(t) = ObjectIDsForUnit(t)
      /\ \A i \in ObjectIDsForUnit(t) : LowerUnit(t)[i] = LowerObject(objects[i], t)
  BY DEF LowerUnit
<1>4. \A i \in ObjectIDsForUnit(t) : i \in ID /\ LowerUnit(t)[i].severity # "error"
  BY DEF LoweringErrors, ObjectIDsForUnit
<1>5. \A i \in ObjectIDsForUnit(t) : objects[i] \in Object
  BY <1>4, ObjectsAreTyped DEF IInv
<1>6. ASSUME NEW i \in ObjectIDsForUnit(t)
      PROVE  \E j \in units[t] :
               RequiredCapabilities(objects[i].kind) \cap RequiredCapabilities(objects[j].kind) # {}
  <2>1. PICK s \in RequiredCapabilities(objects[i].kind) :
          s \in DOMAIN capabilities[t].resolved \cup capabilities[t].unsatisfied
    BY DEF ObjectIDsForUnit
  <2>2. s \in Required(t) BY <2>1 DEF IInv, CapabilityInv
  <2>3. PICK j \in units[t] : s \in RequiredCapabilities(objects[j].kind) BY <2>2 DEF Required
  <2> QED BY <2>1, <2>3
<1> QED BY <1>1, <1>2, <1>3, <1>4, <1>5, <1>6, LoweringOutcomes

LEMMA LowerInv == ASSUME IInv, Lower PROVE IInv'
<1> USE DEF Lower
<1>1. CASE errors' # {}
  <2>1. TypeOK' BY <1>1 DEF IInv, PreservationIsKept, TypeOK, ID, objects
  <2> QED BY <1>1, <2>1
       DEF IInv, PreservationIsKept, BlockingIsNotAdvisory, CapabilityInv, LockedInv
<1>2. CASE errors' = {}
  <2>1. \A t \in DOMAIN units : LoweringErrors(t) = {} BY <1>2
  <2>2. DOMAIN lowered' = DOMAIN units /\ \A t \in DOMAIN units : lowered'[t] = LowerUnit(t)
    OBVIOUS
  <2>3. pc' = "done" BY <1>2
  <2>4. TypeOK'
    BY <1>2, <2>1, <2>2, <2>3, LoweredUnit DEF IInv, PreservationIsKept, TypeOK, ID, objects
  <2>5. RequiredSurvives' BY <2>1, <2>2, LoweredUnit DEF RequiredSurvives, objects
  <2>6. UnsafeIsOptional'
    BY <2>1, <2>2, LoweredUnit DEF UnsafeIsOptional, objects, IsResolved
  <2>7. BlockingIsNotAdvisory'
    BY <2>1, <2>2, LoweredUnit DEF BlockingIsNotAdvisory, objects, IsResolved
  <2>8. NoActiveObjectIsLost' BY <2>1, <2>2, LoweredUnit DEF NoActiveObjectIsLost, objects
  <2>9. InactiveOnlyByASurface'
    BY <2>1, <2>2, LoweredUnit DEF InactiveOnlyByASurface, objects
  <2>10. CapabilityInv' /\ LockedInv' BY DEF IInv, CapabilityInv, LockedInv, Required, objects
  <2> QED BY <2>4, <2>5, <2>6, <2>7, <2>8, <2>9, <2>10 DEF IInv, PreservationIsKept
<1> QED BY <1>1, <1>2

LEMMA StutterInv == ASSUME IInv, UNCHANGED vars PROVE IInv'
<1>1. /\ input' = input /\ pc' = pc /\ units' = units /\ capabilities' = capabilities
      /\ lowered' = lowered /\ errors' = errors
  BY DEF vars
<1>2. objects' = objects /\ ID' = ID BY <1>1 DEF objects, ID
<1>3. \A t : Required(t)' = Required(t) BY <1>1, <1>2 DEF Required
<1>4. PreservationIsKept'
  BY <1>1, <1>2 DEF IInv, PreservationIsKept, TypeOK, RequiredSurvives, UnsafeIsOptional, IsResolved
<1>5. BlockingIsNotAdvisory' /\ (pc' = "done" => NoActiveObjectIsLost' /\ InactiveOnlyByASurface')
  <2>1. BlockingIsNotAdvisory' BY <1>1, <1>2 DEF IInv, BlockingIsNotAdvisory, IsResolved
  <2>2. NoActiveObjectIsLost' = NoActiveObjectIsLost BY <1>1, <1>2 DEF NoActiveObjectIsLost
  <2>3. InactiveOnlyByASurface' = InactiveOnlyByASurface BY <1>1, <1>2 DEF InactiveOnlyByASurface
  <2> QED BY <1>1, <2>1, <2>2, <2>3 DEF IInv
<1>6. CapabilityInv' /\ LockedInv' BY <1>1, <1>2, <1>3 DEF IInv, CapabilityInv, LockedInv
<1> QED BY <1>1, <1>4, <1>5, <1>6 DEF IInv

LEMMA Invariant == Spec => []IInv
<1>1. IInv /\ [Next]_vars => IInv'
  BY PlanInv, ResolveInv, LowerInv, StutterInv DEF Next
<1> QED BY <1>1, InitInv, PTL DEF Spec

(* The renderers leave the graphs of the stages before them alone, so that *)
(* what is proved of Spec holds of the builds with renderers as well.      *)
THEOREM RenderersOnlyRead == RSpec => Spec
<1>1. RInit => Init BY DEF RInit
<1>2. [RNext]_rvars => [Next]_vars BY DEF RNext, Next, Render, rvars
<1> QED BY <1>1, <1>2, PTL DEF RSpec, Spec

-----------------------------------------------------------------------------
(***************************************************************************)
(* What the files of a layer hold, and whose they are                      *)
(***************************************************************************)

\* The lowered graph is of objects of the graph, and only plugins become plugins.
LoweredInv ==
  pc = "done" =>
    \A t \in DOMAIN units : \A i \in DOMAIN lowered[t] :
      i \in ID /\ (lowered[t][i].kind = "plugin" => objects[i].kind = "plugin")

\* Every object of a layer is in one of its files.
Covers(files, ids) == \A i \in ids : \E f \in files : i \in f.holds

\* Files are attributed to just the objects that are in them.
Attributed(files) == \A f \in files : f.holds = f.sources

\* The same, but for permissions, and for the files for each event.
AttributedBut(files, permitted) ==
  \A f \in files :
    /\ \A i \in f.holds :
         i \in f.sources \/ (i \in permitted /\ f.path[2] = "settings.json")
    /\ \A i \in f.sources : i \in f.holds \/ f.path[1] = ".github/hooks"

LEMMA FileOf == \A path, ids : File(path, ids).sources = ids /\ File(path, ids).holds = ids
BY DEF File

LEMMA FilesOfOne ==
  ASSUME NEW dir, NEW ids
  PROVE  Covers(OneFileEach(dir, ids), ids) /\ Attributed(OneFileEach(dir, ids))
<1>1. ASSUME NEW i \in ids PROVE \E f \in OneFileEach(dir, ids) : i \in f.holds
  <2>1. File(<<dir, Field(i).name>>, {i}) \in OneFileEach(dir, ids) BY DEF OneFileEach
  <2> QED BY <2>1, FileOf
<1>2. Attributed(OneFileEach(dir, ids)) BY DEF Attributed, OneFileEach, File
<1> QED BY <1>1, <1>2 DEF Covers

LEMMA FilesOfSkills ==
  ASSUME NEW dir, NEW ids
  PROVE  Covers(SkillFiles(dir, ids), ids) /\ Attributed(SkillFiles(dir, ids))
<1>1. ASSUME NEW i \in ids PROVE \E f \in SkillFiles(dir, ids) : i \in f.holds
  <2>1. File(<<dir, Field(i).name, "SKILL.md">>, {i}) \in SkillFiles(dir, ids) BY DEF SkillFiles
  <2> QED BY <2>1, FileOf
<1>2. Attributed(SkillFiles(dir, ids)) BY DEF Attributed, SkillFiles, File
<1> QED BY <1>1, <1>2 DEF Covers

LEMMA FilesOfScopes ==
  ASSUME NEW file, NEW ids PROVE Covers(ByScope(file, ids), ids) /\ Attributed(ByScope(file, ids))
<1>1. ASSUME NEW i \in ids PROVE \E f \in ByScope(file, ids) : i \in f.holds
  <2>1. Field(i).scope \in {Field(j).scope : j \in ids} OBVIOUS
  <2>2. File(<<Field(i).scope, file>>, {j \in ids : Field(j).scope = Field(i).scope}) \in ByScope(file, ids)
    BY <2>1 DEF ByScope
  <2>3. i \in File(<<Field(i).scope, file>>, {j \in ids : Field(j).scope = Field(i).scope}).holds
    BY DEF File
  <2> QED BY <2>2, <2>3
<1>2. Attributed(ByScope(file, ids)) BY DEF Attributed, ByScope, File
<1> QED BY <1>1, <1>2 DEF Covers

LEMMA FilesOfSettings ==
  ASSUME NEW dir, NEW file, NEW hooks, NEW permitted, file = "settings.json" \/ permitted = {}
  PROVE  /\ Covers(Settings(<<dir, file>>, hooks, permitted), hooks)
         /\ AttributedBut(Settings(<<dir, file>>, hooks, permitted), permitted)
<1> DEFINE f == [path |-> <<dir, file>>, sources |-> hooks, holds |-> hooks \cup permitted]
           files == Settings(<<dir, file>>, hooks, permitted)
<1>1. files \subseteq {f} /\ (hooks # {} => f \in files) BY DEF Settings
<1>2. f.path[2] = file /\ f.sources = hooks /\ f.holds = hooks \cup permitted OBVIOUS
<1> HIDE DEF f, files
<1>3. Covers(files, hooks) BY <1>1, <1>2 DEF Covers
<1>4. AttributedBut(files, permitted) BY <1>1, <1>2 DEF AttributedBut
<1> QED BY <1>3, <1>4 DEF files

LEMMA FilesOfServers ==
  ASSUME NEW path, NEW ids
  PROVE  Covers(MCP(path, ids), Range(Owner(ids))) /\ Attributed(MCP(path, ids))
<1> DEFINE files == MCP(path, ids)
           owners == Range(Owner(ids))
<1>1. owners # {} => DOMAIN Owner(ids) # {} BY DEF Range
<1>2. files \subseteq {File(path, owners)} /\ (owners # {} => File(path, owners) \in files)
  BY <1>1 DEF MCP
<1>3. File(path, owners).sources = owners /\ File(path, owners).holds = owners BY FileOf
<1> HIDE DEF files, owners
<1>4. Covers(files, owners) BY <1>2, <1>3 DEF Covers
<1>5. Attributed(files) BY <1>2, <1>3 DEF Attributed
<1> QED BY <1>4, <1>5 DEF files, owners

LEMMA Whole == \A files, permitted : Attributed(files) => AttributedBut(files, permitted)
BY DEF Attributed, AttributedBut

LEMMA FieldsOfEmission ==
  ASSUME NEW files, NEW assets, NEW bundles, NEW installs, NEW servers
  PROVE  LET e == Emission(files, assets, bundles, installs, servers)
         IN /\ files \subseteq e.files
            /\ e.bundles = bundles
            /\ e.installs = installs
            /\ e.servers = servers
BY DEF Emission

\* provenance.json is right if files are attributed.
LEMMA ProvenanceOfFiles ==
  ASSUME NEW files, NEW assets, NEW bundles, NEW installs, NEW servers, NEW permitted,
         AttributedBut(files, permitted)
  PROVE  LET e == Emission(files, assets, bundles, installs, servers)
         IN /\ \A f \in e.files : \A i \in f.holds :
                 \/ i \in DOMAIN e.provenance /\ f.path \in e.provenance[i]
                 \/ i \in permitted /\ f.path[2] = "settings.json"
            /\ \A i \in DOMAIN e.provenance : \A p \in e.provenance[i] :
                 \E f \in e.files : f.path = p /\ (i \in f.holds \/ p[1] = ".github/hooks")
<1> DEFINE e == Emission(files, assets, bundles, installs, servers)
<1>1. /\ e.provenance = Provenance(files)
      /\ e.files = files \cup {[path    |-> <<"", "provenance.json">>,
                                sources |-> DOMAIN Provenance(files), holds |-> {}]}
  BY DEF Emission
<1>2. ASSUME NEW f \in files, NEW i \in f.sources
      PROVE  i \in DOMAIN Provenance(files) /\ f.path \in Provenance(files)[i]
  BY DEF Provenance
<1>3. ASSUME NEW i \in DOMAIN Provenance(files), NEW p \in Provenance(files)[i]
      PROVE  \E f \in files : f.path = p /\ i \in f.sources
  BY DEF Provenance
<1>4. ASSUME NEW f \in e.files, NEW i \in f.holds
      PROVE  \/ i \in DOMAIN e.provenance /\ f.path \in e.provenance[i]
             \/ i \in permitted /\ f.path[2] = "settings.json"
  <2> DEFINE own == [path    |-> <<"", "provenance.json">>,
                     sources |-> DOMAIN Provenance(files), holds |-> {}]
  <2>1. own.holds = {} OBVIOUS
  <2>2. f \in files \cup {own} BY <1>1
  <2>3. f \in files BY <1>4, <2>1, <2>2
  <2> QED BY <1>1, <1>2, <2>3 DEF AttributedBut
<1>5. ASSUME NEW i \in DOMAIN e.provenance, NEW p \in e.provenance[i]
      PROVE  \E f \in e.files : f.path = p /\ (i \in f.holds \/ p[1] = ".github/hooks")
  <2>1. PICK f \in files : f.path = p /\ i \in f.sources BY <1>1, <1>3
  <2>2. f \in e.files BY <1>1
  <2> QED BY <2>1, <2>2 DEF AttributedBut
<1> HIDE DEF e
<1>6. (\A f \in e.files : \A i \in f.holds :
                 \/ i \in DOMAIN e.provenance /\ f.path \in e.provenance[i]
                 \/ i \in permitted /\ f.path[2] = "settings.json")
     /\ (\A i \in DOMAIN e.provenance : \A p \in e.provenance[i] :
           \E f \in e.files : f.path = p /\ (i \in f.holds \/ p[1] = ".github/hooks"))
  BY <1>4, <1>5
<1> QED BY <1>6 DEF e

LEMMA Together ==
  \A A, B, ids, permitted :
    /\ Covers(A, ids) \/ Covers(B, ids) => Covers(A \cup B, ids)
    /\ AttributedBut(A, permitted) /\ AttributedBut(B, permitted)
         => AttributedBut(A \cup B, permitted)
<1>1. ASSUME NEW A, NEW B, NEW ids, Covers(A, ids) \/ Covers(B, ids) PROVE Covers(A \cup B, ids)
  BY <1>1 DEF Covers
<1>2. ASSUME NEW A, NEW B, NEW permitted, AttributedBut(A, permitted), AttributedBut(B, permitted)
      PROVE  AttributedBut(A \cup B, permitted)
  BY <1>2 DEF AttributedBut
<1> QED BY <1>1, <1>2

\* What is needed of a renderer: its files are attributed, and of each group of
\* objects it knows what is in a file.
RenderedAll(t, files, bundles) ==
  /\ AttributedBut(files, WithTools(t))
  /\ \A k \in {"instruction", "rule"} : Covers(files, Of(t, k))
  /\ Covers(files, Range(Owner(Of(t, "plugin"))))
  /\ \A k \in {"skill", "agent", "command"} : Covers(files, Of(t, k) \ Dropped(t))
  /\ Covers(files, WithEvent(Of(t, "hook")) \ Dropped(t))
  /\ t # "cursor" =>
       \A i \in Distributed(Of(t, "plugin"), "inline") :
         Field(i).files # {} => \E b \in bundles : b.plugin = i

LEMMA InBundles ==
  ASSUME NEW dir, NEW ids, NEW i \in Distributed(ids, "inline"), Field(i).files # {}
  PROVE  \E b \in Bundles(dir, ids) : b.plugin = i
<1>1. i \in {j \in Distributed(ids, "inline") : Field(j).files # {}} OBVIOUS
<1>2. [plugin |-> i,
       files  |-> {[path |-> <<dir, Field(i).name, LastSegment(r)>>, source |-> r] : r \in Field(i).files}]
        \in Bundles(dir, ids)
  BY <1>1 DEF Bundles
<1> QED BY <1>2

LEMMA ClaudeUnit ==
  ASSUME NEW t, t = "claude"
  PROVE  \E files, assets, bundles, installs :
           /\ RenderUnit(t) = Emission(files, assets, bundles, installs, Owner(Of(t, "plugin")))
           /\ RenderedAll(t, files, bundles)
           /\ installs = Distributed(Of(t, "plugin"), "registry")
<1> DEFINE a == ClaudeInstructions(t)
           b == ClaudeRules(t)
           c == ClaudeSkills(t)
           d == ClaudeAgents(t)
           e == ClaudeSettings(t)
           f == ClaudeMCP(t)
           files == a \cup b \cup c \cup d \cup e \cup f
           bundles == ClaudeBundles(t)
<1>1. RenderUnit(t) = RenderClaude(t) BY Zenon DEF RenderUnit
<1>2. RenderClaude(t) = Emission(files, ClaudeAssets(t), bundles,
                                 Distributed(Of(t, "plugin"), "registry"), Owner(Of(t, "plugin")))
  BY DEF RenderClaude
<1>3. Covers(a, Of(t, "instruction")) /\ AttributedBut(a, WithTools(t))
  BY FilesOfScopes, Whole DEF ClaudeInstructions
<1>4. Covers(b, Of(t, "rule")) /\ AttributedBut(b, WithTools(t))
  BY FilesOfOne, Whole DEF ClaudeRules
<1>5. Covers(c, Of(t, "skill")) /\ AttributedBut(c, WithTools(t))
  BY FilesOfSkills, Whole DEF ClaudeSkills
<1>6. Covers(d, Of(t, "agent")) /\ AttributedBut(d, WithTools(t))
  BY FilesOfOne, Whole DEF ClaudeAgents
<1>7. Covers(e, WithEvent(Of(t, "hook"))) /\ AttributedBut(e, WithTools(t))
  BY FilesOfSettings DEF ClaudeSettings
<1>8. Covers(f, Range(Owner(Of(t, "plugin")))) /\ AttributedBut(f, WithTools(t))
  BY FilesOfServers, Whole DEF ClaudeMCP
<1>9. Dropped(t) = Of(t, "command") BY DEF Dropped
<1>10. \A i \in Distributed(Of(t, "plugin"), "inline") :
         Field(i).files # {} => \E x \in bundles : x.plugin = i
  BY InBundles DEF ClaudeBundles
<1> HIDE DEF a, b, c, d, e, f, bundles
<1>11. RenderedAll(t, files, bundles)
  <2>1. AttributedBut(files, WithTools(t)) BY <1>3, <1>4, <1>5, <1>6, <1>7, <1>8, Together
  <2>2. Covers(files, Of(t, "instruction")) /\ Covers(files, Of(t, "rule"))
    BY <1>3, <1>4, Together
  <2>3. Covers(files, Of(t, "skill")) /\ Covers(files, Of(t, "agent"))
    BY <1>5, <1>6, Together
  <2>4. Covers(files, WithEvent(Of(t, "hook"))) /\ Covers(files, Range(Owner(Of(t, "plugin"))))
    BY <1>7, <1>8, Together
  <2> HIDE DEF files
  <2> QED BY <2>1, <2>2, <2>3, <2>4, <1>9, <1>10 DEF RenderedAll, Covers
<1> HIDE DEF files
<1> QED BY <1>1, <1>2, <1>11

LEMMA CodexUnit ==
  ASSUME NEW t, t = "codex"
  PROVE  \E files, assets, bundles, installs :
           /\ RenderUnit(t) = Emission(files, assets, bundles, installs, Owner(Of(t, "plugin")))
           /\ RenderedAll(t, files, bundles)
           /\ installs = Distributed(Of(t, "plugin"), "registry")
<1> DEFINE a == CodexInstructions(t)
           b == CodexRules(t)
           c == CodexSkills(t)
           d == CodexAgents(t)
           e == CodexSettings(t)
           f == CodexMCP(t)
           files == a \cup b \cup c \cup d \cup e \cup f
           bundles == CodexBundles(t)
           hooks == {i \in Of(t, "hook") : Field(i).event \in CodexEvents}
<1>1. RenderUnit(t) = RenderCodex(t) BY Zenon DEF RenderUnit
<1>2. RenderCodex(t) = Emission(files, CodexAssets(t), bundles,
                                Distributed(Of(t, "plugin"), "registry"), Owner(Of(t, "plugin")))
  BY DEF RenderCodex
<1>3. Covers(a, Of(t, "instruction")) /\ AttributedBut(a, WithTools(t))
  BY FilesOfScopes, Whole DEF CodexInstructions
<1>4. Covers(b, Of(t, "rule")) /\ AttributedBut(b, WithTools(t))
  BY FilesOfOne, Whole DEF CodexRules
<1>5. Covers(c, Of(t, "skill")) /\ AttributedBut(c, WithTools(t))
  BY FilesOfSkills, Whole DEF CodexSkills
<1>6. Covers(d, Of(t, "agent")) /\ AttributedBut(d, WithTools(t))
  BY FilesOfOne, Whole DEF CodexAgents
<1>7. Covers(e, hooks) /\ AttributedBut(e, WithTools(t))
  BY FilesOfSettings DEF CodexSettings
<1>8. Covers(f, Range(Owner(Of(t, "plugin")))) /\ AttributedBut(f, WithTools(t))
  BY FilesOfServers, Whole DEF CodexMCP
<1>9. /\ Of(t, "command") \subseteq Dropped(t)
      /\ WithEvent(Of(t, "hook")) \ Dropped(t) \subseteq hooks
  <2>1. Dropped(t) = Of(t, "command")
                       \cup {i \in WithEvent(Of(t, "hook")) : Field(i).event \notin CodexEvents}
    BY DEF Dropped
  <2> QED BY <2>1 DEF WithEvent
<1>10. \A i \in Distributed(Of(t, "plugin"), "inline") :
         Field(i).files # {} => \E x \in bundles : x.plugin = i
  BY InBundles DEF CodexBundles
<1> HIDE DEF a, b, c, d, e, f, bundles, hooks
<1>11. RenderedAll(t, files, bundles)
  <2>1. AttributedBut(files, WithTools(t)) BY <1>3, <1>4, <1>5, <1>6, <1>7, <1>8, Together
  <2>2. Covers(files, Of(t, "instruction")) /\ Covers(files, Of(t, "rule"))
    BY <1>3, <1>4, Together
  <2>3. Covers(files, Of(t, "skill")) /\ Covers(files, Of(t, "agent"))
    BY <1>5, <1>6, Together
  <2>4. Covers(files, hooks) /\ Covers(files, Range(Owner(Of(t, "plugin"))))
    BY <1>7, <1>8, Together
  <2> HIDE DEF files
  <2>5. Covers(files, WithEvent(Of(t, "hook")) \ Dropped(t)) BY <1>9, <2>4 DEF Covers
  <2> QED BY <2>1, <2>2, <2>3, <2>4, <2>5, <1>9, <1>10 DEF RenderedAll, Covers
<1> HIDE DEF files
<1> QED BY <1>1, <1>2, <1>11

LEMMA CopilotUnit ==
  ASSUME NEW t, t = "copilot"
  PROVE  \E files, assets, bundles, installs :
           /\ RenderUnit(t) = Emission(files, assets, bundles, installs, Owner(Of(t, "plugin")))
           /\ RenderedAll(t, files, bundles)
           /\ installs = Distributed(Of(t, "plugin"), "registry")
<1> DEFINE a == CopilotInstructions(t)
           b == CopilotRules(t)
           c == CopilotSkills(t)
           d == CopilotAgents(t)
           p == CopilotPrompts(t)
           e == CopilotSettings(t)
           f == CopilotMCP(t)
           files == a \cup b \cup c \cup d \cup p \cup e \cup f
           bundles == CopilotBundles(t)
           hooks == WithEvent(Of(t, "hook"))
<1>1. RenderUnit(t) = RenderCopilot(t) BY Zenon DEF RenderUnit
<1>2. RenderCopilot(t) = Emission(files, CopilotAssets(t), bundles,
                                  Distributed(Of(t, "plugin"), "registry"), Owner(Of(t, "plugin")))
  BY DEF RenderCopilot
<1>3. Covers(a, Of(t, "instruction")) /\ AttributedBut(a, WithTools(t))
  <2> DEFINE root == {i \in Of(t, "instruction") : Field(i).scope = ""}
             again == IF root = {} THEN {} ELSE {File(<<".github", "copilot-instructions.md">>, root)}
  <2>1. a = ByScope("AGENTS.md", Of(t, "instruction")) \cup again BY DEF CopilotInstructions
  <2>2. Attributed(again)
    <3> DEFINE copy == File(<<".github", "copilot-instructions.md">>, root)
    <3>1. again \subseteq {copy} /\ copy.sources = root /\ copy.holds = root BY DEF File
    <3> HIDE DEF again, copy
    <3> QED BY <3>1 DEF Attributed
  <2> HIDE DEF again
  <2>3. /\ Covers(ByScope("AGENTS.md", Of(t, "instruction")), Of(t, "instruction"))
        /\ AttributedBut(ByScope("AGENTS.md", Of(t, "instruction")), WithTools(t))
    BY FilesOfScopes, Whole
  <2> HIDE DEF a
  <2> QED BY <2>1, <2>2, <2>3, Whole, Together
<1>4. Covers(b, Of(t, "rule")) /\ AttributedBut(b, WithTools(t))
  BY FilesOfOne, Whole DEF CopilotRules
<1>5. Covers(c, Of(t, "skill")) /\ AttributedBut(c, WithTools(t))
  BY FilesOfSkills, Whole DEF CopilotSkills
<1>6. Covers(d, Of(t, "agent")) /\ AttributedBut(d, WithTools(t))
  BY FilesOfOne, Whole DEF CopilotAgents
<1>7. Covers(p, Of(t, "command")) /\ AttributedBut(p, WithTools(t))
  BY FilesOfOne, Whole DEF CopilotPrompts
<1>8. Covers(e, hooks) /\ AttributedBut(e, WithTools(t))
  <2> DEFINE each == {[path |-> <<".github/hooks", x, ".json">>, sources |-> hooks,
                       holds |-> {i \in hooks : Field(i).event = x}] :
                        x \in {Field(i).event : i \in hooks}}
             settings == Settings(<<".claude", "settings.json">>, hooks, WithTools(t))
  <2>1. e = each \cup settings BY DEF CopilotSettings
  <2>2. AttributedBut(each, WithTools(t))
    <3>1. ASSUME NEW g \in each
          PROVE  g.holds \subseteq g.sources /\ g.path[1] = ".github/hooks"
      <4>1. PICK x : g = [path |-> <<".github/hooks", x, ".json">>, sources |-> hooks,
                          holds |-> {i \in hooks : Field(i).event = x}]
        OBVIOUS
      <4> HIDE DEF hooks
      <4> QED BY <4>1
    <3> HIDE DEF each
    <3> QED BY <3>1 DEF AttributedBut
  <2>3. Covers(settings, hooks) /\ AttributedBut(settings, WithTools(t)) BY FilesOfSettings
  <2> HIDE DEF each, settings, e
  <2> QED BY <2>1, <2>2, <2>3, Together
<1>9. Covers(f, Range(Owner(Of(t, "plugin")))) /\ AttributedBut(f, WithTools(t))
  BY FilesOfServers, Whole DEF CopilotMCP
<1>10. \A i \in Distributed(Of(t, "plugin"), "inline") :
         Field(i).files # {} => \E x \in bundles : x.plugin = i
  BY InBundles DEF CopilotBundles
<1> HIDE DEF a, b, c, d, e, f, p, bundles, hooks
<1>11. RenderedAll(t, files, bundles)
  <2>1. AttributedBut(files, WithTools(t))
    BY <1>3, <1>4, <1>5, <1>6, <1>7, <1>8, <1>9, Together
  <2>2. Covers(files, Of(t, "instruction")) /\ Covers(files, Of(t, "rule"))
    BY <1>3, <1>4, Together
  <2>3. Covers(files, Of(t, "skill")) /\ Covers(files, Of(t, "agent"))
    BY <1>5, <1>6, Together
  <2>4. Covers(files, Of(t, "command")) /\ Covers(files, hooks)
    BY <1>7, <1>8, Together
  <2>5. Covers(files, Range(Owner(Of(t, "plugin")))) BY <1>9, Together
  <2> HIDE DEF files
  <2> QED BY <2>1, <2>2, <2>3, <2>4, <2>5, <1>10 DEF RenderedAll, Covers, hooks
<1> HIDE DEF files
<1> QED BY <1>1, <1>2, <1>11

LEMMA CursorUnit ==
  ASSUME NEW t, t = "cursor"
  PROVE  \E files, assets, bundles, installs :
           /\ RenderUnit(t) = Emission(files, assets, bundles, installs, Owner(Of(t, "plugin")))
           /\ RenderedAll(t, files, bundles)
           /\ installs = Distributed(Of(t, "plugin"), "registry")
<1> DEFINE a == CursorInstructions(t)
           b == CursorRules(t)
           c == CursorSkills(t)
           d == CursorAgents(t)
           e == CursorHooks(t)
           f == CursorMCP(t)
           files == a \cup b \cup c \cup d \cup e \cup f
           skills == {i \in Of(t, "skill") : ~ Field(i).empty}
           hooks == {i \in Of(t, "hook") : Field(i).event \in CursorEvents}
<1>1. RenderUnit(t) = RenderCursor(t) BY Zenon DEF RenderUnit
<1>2. RenderCursor(t) = Emission(files, {}, {}, CursorInstalls(t), Owner(Of(t, "plugin")))
  BY DEF RenderCursor
<1>3. Covers(a, Of(t, "instruction")) /\ AttributedBut(a, WithTools(t))
  BY FilesOfScopes, Whole DEF CursorInstructions
<1>4. Covers(b, Of(t, "rule")) /\ AttributedBut(b, WithTools(t))
  BY FilesOfOne, Whole DEF CursorRules
<1>5. Covers(c, skills) /\ AttributedBut(c, WithTools(t))
  BY FilesOfOne, Whole DEF CursorSkills
<1>6. Covers(d, FlatAgents(t)) /\ AttributedBut(d, WithTools(t))
  BY FilesOfOne, Whole DEF CursorAgents
<1>7. Covers(e, hooks) /\ AttributedBut(e, WithTools(t))
  <2>1. Covers(e, hooks) /\ AttributedBut(e, {}) BY FilesOfSettings DEF CursorHooks
  <2> HIDE DEF e
  <2> QED BY <2>1 DEF AttributedBut
<1>8. Covers(f, Range(Owner(Of(t, "plugin")))) /\ AttributedBut(f, WithTools(t))
  BY FilesOfServers, Whole DEF CursorMCP
<1>9. /\ Of(t, "command") \subseteq Dropped(t)
      /\ WithEvent(Of(t, "hook")) \ Dropped(t) \subseteq hooks
      /\ Of(t, "skill") \ Dropped(t) \subseteq skills
      /\ Of(t, "agent") \ Dropped(t) \subseteq FlatAgents(t)
  <2>1. Dropped(t) = Of(t, "command") \cup (Of(t, "agent") \ FlatAgents(t))
                       \cup {i \in WithEvent(Of(t, "hook")) : Field(i).event \notin CursorEvents}
                       \cup {i \in Of(t, "skill") : Field(i).empty}
    BY DEF Dropped
  <2>2. WithEvent(Of(t, "hook")) \subseteq Of(t, "hook") BY DEF WithEvent
  <2> QED BY <2>1, <2>2
<1> HIDE DEF a, b, c, d, e, f, skills, hooks
<1>10. RenderedAll(t, files, {})
  <2>1. AttributedBut(files, WithTools(t)) BY <1>3, <1>4, <1>5, <1>6, <1>7, <1>8, Together
  <2>2. Covers(files, Of(t, "instruction")) /\ Covers(files, Of(t, "rule"))
    BY <1>3, <1>4, Together
  <2>3. Covers(files, skills) /\ Covers(files, FlatAgents(t))
    BY <1>5, <1>6, Together
  <2>4. Covers(files, hooks) /\ Covers(files, Range(Owner(Of(t, "plugin"))))
    BY <1>7, <1>8, Together
  <2> HIDE DEF files
  <2>5. /\ Covers(files, WithEvent(Of(t, "hook")) \ Dropped(t))
        /\ Covers(files, Of(t, "skill") \ Dropped(t))
        /\ Covers(files, Of(t, "agent") \ Dropped(t))
        /\ Covers(files, Of(t, "command") \ Dropped(t))
    BY <1>9, <2>3, <2>4 DEF Covers
  <2> QED BY <2>1, <2>2, <2>4, <2>5 DEF RenderedAll
<1> HIDE DEF files
<1>11. CursorInstalls(t) = Distributed(Of(t, "plugin"), "registry") BY DEF CursorInstalls
<1> QED BY <1>1, <1>2, <1>10, <1>11

\* Of the plugins that define a server, one is the first.
LEMMA OwnerIsFirst ==
  ASSUME NEW ids \in SUBSET Nat, NEW s \in DOMAIN Owner(ids)
  PROVE  /\ Owner(ids)[s] \in ids /\ s \in Servers(Owner(ids)[s])
         /\ \A j \in ids : s \in Servers(j) => Owner(ids)[s] <= j
<1> DEFINE with == {i \in ids : s \in Servers(i)}
           First(i) == s \in Servers(i) /\ \A j \in ids : s \in Servers(j) => i <= j
<1>1. /\ DOMAIN Owner(ids) = UNION {Servers(i) : i \in ids}
      /\ Owner(ids)[s] = CHOOSE i \in ids : First(i)
  BY DEF Owner
<1>2. with # {} /\ with \in SUBSET Nat BY <1>1
<1> HIDE DEF with
<1>3. PICK i \in with : \A j \in with : ~ (j < i) BY <1>2, Least
<1>4. i \in ids /\ First(i)
  <2>1. i \in Nat /\ \A j \in with : j \in Nat BY <1>2, <1>3
  <2> QED BY <1>3, <2>1 DEF with
<1> HIDE DEF First
<1>5. Owner(ids)[s] \in ids /\ First(Owner(ids)[s]) BY <1>1, <1>4, Zenon
<1> QED BY <1>5 DEF First

LEMMA RenderedUnit ==
  ASSUME NEW t \in Rendered
  PROVE  \E files, assets, bundles, installs :
           /\ RenderUnit(t) = Emission(files, assets, bundles, installs, Owner(Of(t, "plugin")))
           /\ RenderedAll(t, files, bundles)
           /\ installs = Distributed(Of(t, "plugin"), "registry")
<1>1. t \in {"claude", "codex", "copilot", "cursor"} BY DEF Rendered
<1> QED BY <1>1, ClaudeUnit, CodexUnit, CopilotUnit, CursorUnit

\* The objects in something that a renderer has made, as Emitted has it.
In(e) ==
  {b.plugin : b \in e.bundles} \cup e.installs \cup UNION {f.holds : f \in e.files}

\* Indices of objects are numbers, and Of gives indices.
LEMMA Indices ==
  ASSUME IInv, LoweredInv, pc = "done", NEW t \in Rendered
  PROVE  /\ Of(t, "plugin") \in SUBSET Nat
         /\ \A i \in DOMAIN lowered[t] : lowered[t][i] \in LoweredObject
<1>1. DOMAIN lowered = DOMAIN units /\ t \in DOMAIN units
  BY DEF IInv, PreservationIsKept, TypeOK, Rendered
<1>2. Of(t, "plugin") \subseteq ID BY <1>1 DEF LoweredInv, Of
<1>3. objects \in Seq(Object) BY PlanAndLowerAssumption DEF IInv, objects
<1>4. ID \subseteq Nat BY <1>3 DEF ID
<1>5. \A i \in DOMAIN lowered[t] : lowered[t][i] \in LoweredObject
  BY <1>1 DEF IInv, PreservationIsKept, TypeOK
<1> QED BY <1>2, <1>4, <1>5

\* Why no layer drops an object in silence.
LEMMA NothingDropped ==
  ASSUME IInv, LoweredInv, pc = "done", NEW t \in Rendered, NEW i \in Kept(t)
  PROVE  \/ i \in In(RenderUnit(t))
         \/ i \in Dropped(t)
         \/ lowered[t][i].kind = "hook" /\ Field(i).event = ""
         \/ lowered[t][i].kind = "capability"
         \/ NothingToOffer(t, i)
<1> DEFINE e == RenderUnit(t)
           kind == lowered[t][i].kind
<1>1. PICK files, assets, bundles, installs :
           /\ e = Emission(files, assets, bundles, installs, Owner(Of(t, "plugin")))
           /\ RenderedAll(t, files, bundles)
           /\ installs = Distributed(Of(t, "plugin"), "registry")
  BY RenderedUnit
<1> HIDE DEF e
<1>2. files \subseteq e.files /\ e.bundles = bundles /\ e.installs = installs
  BY <1>1, FieldsOfEmission
<1>3. /\ \A f \in files : f.holds \subseteq In(e)
      /\ \A b \in bundles : b.plugin \in In(e)
      /\ installs \subseteq In(e)
  <2>1. In(e) = {b.plugin : b \in bundles} \cup installs \cup UNION {f.holds : f \in e.files}
    BY <1>2 DEF In
  <2>2. \A f \in files : f \in e.files BY <1>2
  <2>3. \A f \in files : f.holds \subseteq In(e) BY <2>1, <2>2
  <2>4. \A b \in bundles : b.plugin \in {x.plugin : x \in bundles} OBVIOUS
  <2>5. installs \subseteq In(e) BY <2>1
  <2>6. {x.plugin : x \in bundles} \subseteq In(e) BY <2>1
  <2> QED BY <2>3, <2>4, <2>5, <2>6
<1>4. \A ids : Covers(files, ids) => ids \subseteq In(e)
  BY <1>3 DEF Covers
<1>5. i \in DOMAIN lowered[t] /\ lowered[t][i] \in LoweredObject /\ lowered[t][i].action # "skipped"
  BY Indices DEF Kept
<1>6. i \in Of(t, kind) /\ kind \in Kinds
  BY <1>5 DEF Of, LoweredObject
<1>7. CASE kind \in {"instruction", "rule"}
  BY <1>1, <1>4, <1>6, <1>7 DEF RenderedAll, e
<1>8. CASE kind \in {"skill", "agent", "command"}
  <2>1. Of(t, kind) \ Dropped(t) \subseteq In(e) BY <1>1, <1>4, <1>8 DEF RenderedAll
  <2> QED BY <1>6, <2>1 DEF e
<1>9. CASE kind = "hook"
  <2>1. Field(i).event = "" \/ i \in WithEvent(Of(t, "hook")) BY <1>6, <1>9 DEF WithEvent
  <2>2. WithEvent(Of(t, "hook")) \ Dropped(t) \subseteq In(e) BY <1>1, <1>4 DEF RenderedAll
  <2> QED BY <1>9, <2>1, <2>2 DEF e
<1>10. CASE kind = "plugin" /\ i \notin In(e)
  <2> DEFINE ids == Of(t, "plugin")
  <2>1. i \in ids BY <1>6, <1>10
  <2>2. objects[i].kind = "plugin"
    <3>1. t \in DOMAIN units BY DEF IInv, PreservationIsKept, TypeOK, Rendered
    <3> QED BY <1>5, <1>10, <3>1 DEF LoweredInv
  <2>3. ids \in SUBSET Nat BY Indices
  <2> HIDE DEF ids
  <2>4. ASSUME NEW s \in Servers(i) PROVE \E j \in ids : j < i /\ s \in Servers(j)
    <3>1. s \in DOMAIN Owner(ids) BY <2>1 DEF Owner
    <3>2. /\ Owner(ids)[s] \in ids /\ s \in Servers(Owner(ids)[s]) /\ Owner(ids)[s] <= i
      BY <2>1, <2>3, <3>1, OwnerIsFirst
    <3>3. Owner(ids)[s] \in Range(Owner(ids)) BY <3>1 DEF Range
    <3>4. Owner(ids)[s] # i BY <1>1, <1>4, <1>10, <3>3 DEF RenderedAll, ids
    <3>5. Owner(ids)[s] \in Nat /\ i \in Nat BY <2>1, <2>3, <3>2
    <3> QED BY <3>2, <3>4, <3>5
  <2>5. Field(i).distribution # "registry"
    BY <1>1, <1>3, <1>10, <2>1 DEF Distributed, ids
  <2>6. Field(i).distribution = "inline" => t = "cursor" \/ Field(i).files = {}
    BY <1>1, <1>3, <1>10, <2>1 DEF Distributed, ids, RenderedAll
  <2>7. NothingToOffer(t, i) BY <2>2, <2>4, <2>5, <2>6 DEF NothingToOffer, ids
  <2> QED BY <2>7
<1> QED BY <1>6, <1>7, <1>8, <1>9, <1>10 DEF Kinds, e

LEMMA ProvenanceOfUnit ==
  ASSUME NEW t \in Rendered
  PROVE  LET e == RenderUnit(t)
         IN /\ \A f \in e.files : \A i \in f.holds :
                 \/ i \in DOMAIN e.provenance /\ f.path \in e.provenance[i]
                 \/ i \in WithTools(t) /\ f.path[2] = "settings.json"
            /\ \A i \in DOMAIN e.provenance : \A p \in e.provenance[i] :
                 \E f \in e.files : f.path = p /\ (i \in f.holds \/ p[1] = ".github/hooks")
<1>1. PICK files, assets, bundles, installs :
           /\ RenderUnit(t) = Emission(files, assets, bundles, installs, Owner(Of(t, "plugin")))
           /\ RenderedAll(t, files, bundles)
  BY RenderedUnit
<1>2. AttributedBut(files, WithTools(t)) BY <1>1 DEF RenderedAll
<1> QED BY <1>1, <1>2, ProvenanceOfFiles

\* The server of an earlier plugin stays with an earlier plugin.
LEMMA StableServers ==
  ASSUME IInv, LoweredInv, pc = "done", NEW t \in Rendered, NEW i \in Of(t, "plugin"),
         NEW j \in Of(t, "plugin"), j < i, NEW s \in Servers(j)
  PROVE  /\ RenderUnit(t).servers[s] \in Of(t, "plugin")
         /\ RenderUnit(t).servers[s] < i
<1> DEFINE ids == Of(t, "plugin")
<1>1. RenderUnit(t).servers = Owner(ids) BY RenderedUnit, FieldsOfEmission
<1>2. ids \in SUBSET Nat BY Indices
<1>3. i \in ids /\ j \in ids OBVIOUS
<1> HIDE DEF ids
<1>4. s \in DOMAIN Owner(ids) BY <1>3 DEF Owner
<1>5. Owner(ids)[s] \in ids /\ Owner(ids)[s] <= j BY <1>2, <1>3, <1>4, OwnerIsFirst
<1>6. Owner(ids)[s] \in Nat /\ i \in Nat /\ j \in Nat BY <1>2, <1>3, <1>5
<1>7. Owner(ids)[s] < i BY <1>5, <1>6
<1> QED BY <1>1, <1>5, <1>7 DEF ids

-----------------------------------------------------------------------------
(***************************************************************************)
(* Where the files of a layer are                                          *)
(***************************************************************************)

InstructionFiles == {"AGENTS.md", "CLAUDE.md"}

\* The directories that layers of one kind write to.
ObjectDirs == {".claude/rules", ".claude/agents", ".codex/rules", ".codex/agents",
               ".github/instructions", ".github/agents", ".github/prompts", ".cursor/rules"}
SkillDirs  == {".claude/skills", ".codex/skills", ".github/skills"}
BundleDirs == {".claude-plugin", ".codex-plugin"}
OwnDirs    == {"", ".claude", ".codex", ".github", ".vscode", ".cursor"}

\* Where the path of an entry comes from: a scope, an ID or an ID and one of
\* the resources of the object.  An entry is a quadruple as in Written.
IsScoped(ids, file, w) ==
  \E i \in ids : w = <<<<Field(i).scope, file>>, "file", {j \in ids : Field(j).scope = Field(i).scope}, {}>>
IsNamed(w) ==
  \E dir \in ObjectDirs : \E i : w = <<<<dir, Field(i).name>>, "file", {i}, {}>>
IsSkill(w) ==
  \E dir \in SkillDirs : \E i : w = <<<<dir, Field(i).name, "SKILL.md">>, "file", {i}, {}>>
IsAsset(w) ==
  \E dir \in SkillDirs : \E i : \E r \in Field(i).files :
    w = <<<<dir, Field(i).name, LastSegment(r)>>, "asset", {i}, {r}>>
IsBundled(w) ==
  \E dir \in BundleDirs : \E i, r : w = <<<<dir, Field(i).name, LastSegment(r)>>, "bundle", {i}, {r}>>

\* Entries that have a path of their own.
AreOwn(own) ==
  /\ \A w \in own : \/ \E dir \in OwnDirs : \E x : x \notin InstructionFiles /\ w[1] = <<dir, x>>
                    \/ \E x : w[1] = <<".github/hooks", x, ".json">>
  /\ \A v, w \in own : v[1] = w[1] => v = w

\* Why two entries may have the same path.
Excused(v, w) ==
  \E i \in v[3], j \in w[3] :
    \/ i # j /\ Field(i).name = Field(j).name
    \/ i = j /\ \E r \in v[4], s \in w[4] : r # s /\ LastSegment(r) = LastSegment(s)
    \/ \E r \in Field(i).files : LastSegment(r) = "SKILL.md"
    \/ {Field(i).name, Field(j).name} \cap {"AGENTS.md", "CLAUDE.md"} # {}

LEMMA Lengths == \A a, b, c, d, x : <<a, b>> # <<c, d, x>>
<1> SUFFICES ASSUME NEW a, NEW b, NEW c, NEW d, NEW x, <<a, b>> = <<c, d, x>> PROVE FALSE
  OBVIOUS
<1>1. Len(<<a, b>>) = 2 /\ Len(<<c, d, x>>) = 3 OBVIOUS
<1> QED BY <1>1

LEMMA DirsAreApart == \A dir \in ObjectDirs : dir \notin OwnDirs /\ dir # ".github/hooks"
BY DEF ObjectDirs, OwnDirs

\* What is below the directory of a skill or a plugin: its file, or one of a resource.
OfAResource(dir, i, x, type, rs) ==
  \/ dir \in SkillDirs /\ type = "file" /\ x = "SKILL.md" /\ rs = {}
  \/ dir \in SkillDirs /\ type = "asset"
       /\ \E r \in Field(i).files : x = LastSegment(r) /\ rs = {r}
  \/ dir \in BundleDirs /\ type = "bundle" /\ \E r : x = LastSegment(r) /\ rs = {r}

LEMMA ResourceOfEntry ==
  ASSUME NEW w, IsSkill(w) \/ IsAsset(w) \/ IsBundled(w)
  PROVE  \E dir, i, x, type, rs :
           /\ w = <<<<dir, Field(i).name, x>>, type, {i}, rs>>
           /\ OfAResource(dir, i, x, type, rs)
<1>1. CASE IsSkill(w) BY <1>1 DEF IsSkill, OfAResource
<1>2. CASE IsAsset(w)
  <2>1. PICK dir, i : dir \in SkillDirs /\ \E r \in Field(i).files :
          w = <<<<dir, Field(i).name, LastSegment(r)>>, "asset", {i}, {r}>>
    BY <1>2 DEF IsAsset
  <2>2. PICK r \in Field(i).files : w = <<<<dir, Field(i).name, LastSegment(r)>>, "asset", {i}, {r}>>
    BY <2>1
  <2>3. OfAResource(dir, i, LastSegment(r), "asset", {r}) BY <2>1 DEF OfAResource
  <2> QED BY <2>2, <2>3
<1>3. CASE IsBundled(w)
  <2>1. PICK dir, i, r :
          dir \in BundleDirs /\ w = <<<<dir, Field(i).name, LastSegment(r)>>, "bundle", {i}, {r}>>
    BY <1>3 DEF IsBundled
  <2>2. OfAResource(dir, i, LastSegment(r), "bundle", {r}) BY <2>1 DEF OfAResource
  <2> QED BY <2>1, <2>2
<1> QED BY <1>1, <1>2, <1>3

\* Two of them in one place, of one object.
LEMMA TwoResources ==
  ASSUME NEW dir, NEW i, NEW x, NEW type1, NEW type2, NEW rs1, NEW rs2,
         OfAResource(dir, i, x, type1, rs1), OfAResource(dir, i, x, type2, rs2),
         type1 # type2 \/ rs1 # rs2
  PROVE  \/ \E r \in rs1, s \in rs2 : r # s /\ LastSegment(r) = LastSegment(s)
         \/ \E r \in Field(i).files : LastSegment(r) = "SKILL.md"
<1>1. dir \in SkillDirs => dir \notin BundleDirs BY DEF SkillDirs, BundleDirs
<1>2. CASE type1 # type2 BY <1>1, <1>2 DEF OfAResource
<1>3. CASE type1 = type2
  <2>1. rs1 # rs2 BY <1>3
  <2>2. PICK r : x = LastSegment(r) /\ rs1 = {r} BY <1>3, <2>1 DEF OfAResource
  <2>3. PICK s : x = LastSegment(s) /\ rs2 = {s} BY <1>3, <2>1 DEF OfAResource
  <2> QED BY <2>1, <2>2, <2>3
<1> QED BY <1>2, <1>3

LEMMA EntriesAreApart ==
  ASSUME NEW ids, NEW file \in InstructionFiles, NEW own, AreOwn(own), NEW v, NEW w,
         v # w, v[1] = w[1],
         v \in own \/ IsScoped(ids, file, v) \/ IsNamed(v) \/ IsSkill(v) \/ IsAsset(v) \/ IsBundled(v),
         w \in own \/ IsScoped(ids, file, w) \/ IsNamed(w) \/ IsSkill(w) \/ IsAsset(w) \/ IsBundled(w)
  PROVE  Excused(v, w)
<1>1. ASSUME NEW z \in own
      PROVE  \/ \E dir \in OwnDirs : \E x : x \notin InstructionFiles /\ z[1] = <<dir, x>>
             \/ \E x : z[1] = <<".github/hooks", x, ".json">>
  BY DEF AreOwn
<1>2. CASE v \in own
  <2>1. CASE w \in own BY <1>2, <2>1 DEF AreOwn
  <2>2. CASE IsScoped(ids, file, w) BY <1>1, <1>2, <2>2, Lengths DEF IsScoped
  <2>3. CASE IsNamed(w) BY <1>1, <1>2, <2>3, Lengths, DirsAreApart DEF IsNamed
  <2>4. CASE IsSkill(w) BY <1>1, <1>2, <2>4, Lengths DEF IsSkill, SkillDirs
  <2>5. CASE IsAsset(w) BY <1>1, <1>2, <2>5, Lengths DEF IsAsset, SkillDirs
  <2>6. CASE IsBundled(w) BY <1>1, <1>2, <2>6, Lengths DEF IsBundled, BundleDirs
  <2> QED BY <2>1, <2>2, <2>3, <2>4, <2>5, <2>6
<1>3. CASE IsScoped(ids, file, v)
  <2>1. CASE w \in own BY <1>1, <1>3, <2>1, Lengths DEF IsScoped
  <2>2. CASE IsScoped(ids, file, w) BY <1>3, <2>2 DEF IsScoped
  <2>3. CASE IsNamed(w)
    <3>1. PICK i \in ids :
            v = <<<<Field(i).scope, file>>, "file", {j \in ids : Field(j).scope = Field(i).scope}, {}>>
      BY <1>3 DEF IsScoped
    <3>2. PICK dir, j : dir \in ObjectDirs /\ w = <<<<dir, Field(j).name>>, "file", {j}, {}>>
      BY <2>3 DEF IsNamed
    <3>3. i \in v[3] /\ j \in w[3] /\ Field(j).name = file BY <3>1, <3>2
    <3> QED BY <3>3 DEF Excused, InstructionFiles
  <2>4. CASE IsSkill(w) \/ IsAsset(w) \/ IsBundled(w)
    BY <1>3, <2>4, Lengths DEF IsScoped, IsSkill, IsAsset, IsBundled
  <2> QED BY <2>1, <2>2, <2>3, <2>4
<1>4. CASE IsNamed(v)
  <2>0. PICK dir, i : dir \in ObjectDirs /\ v = <<<<dir, Field(i).name>>, "file", {i}, {}>>
    BY <1>4 DEF IsNamed
  <2>1. CASE w \in own BY <1>1, <2>0, <2>1, Lengths, DirsAreApart
  <2>2. CASE IsScoped(ids, file, w)
    <3>1. PICK j \in ids :
            w = <<<<Field(j).scope, file>>, "file", {k \in ids : Field(k).scope = Field(j).scope}, {}>>
      BY <2>2 DEF IsScoped
    <3>2. i \in v[3] /\ j \in w[3] /\ Field(i).name = file BY <2>0, <3>1
    <3> QED BY <3>2 DEF Excused, InstructionFiles
  <2>3. CASE IsNamed(w)
    <3>1. PICK dirw, j : dirw \in ObjectDirs /\ w = <<<<dirw, Field(j).name>>, "file", {j}, {}>>
      BY <2>3 DEF IsNamed
    <3>2. i \in v[3] /\ j \in w[3] /\ i # j /\ Field(i).name = Field(j).name BY <2>0, <3>1
    <3> QED BY <3>2 DEF Excused
  <2>4. CASE IsSkill(w) \/ IsAsset(w) \/ IsBundled(w)
    BY <2>0, <2>4, Lengths DEF IsSkill, IsAsset, IsBundled
  <2> QED BY <2>1, <2>2, <2>3, <2>4
<1>5. CASE IsSkill(v) \/ IsAsset(v) \/ IsBundled(v)
  <2>1. PICK dir, i, x, type, rs :
          /\ v = <<<<dir, Field(i).name, x>>, type, {i}, rs>>
          /\ OfAResource(dir, i, x, type, rs)
    BY <1>5, ResourceOfEntry
  <2>2. CASE w \in own
    <3>1. dir # ".github/hooks" BY <2>1 DEF OfAResource, SkillDirs, BundleDirs
    <3>2. w[1] = <<dir, Field(i).name, x>> BY <2>1
    <3> QED BY <1>1, <2>2, <3>1, <3>2, Lengths
  <2>3. CASE IsScoped(ids, file, w) \/ IsNamed(w) BY <2>1, <2>3, Lengths DEF IsScoped, IsNamed
  <2>4. CASE IsSkill(w) \/ IsAsset(w) \/ IsBundled(w)
    <3>1. PICK dirw, j, y, typew, rsw :
            /\ w = <<<<dirw, Field(j).name, y>>, typew, {j}, rsw>>
            /\ OfAResource(dirw, j, y, typew, rsw)
      BY <2>4, ResourceOfEntry
    <3>2. /\ i \in v[3] /\ j \in w[3] /\ Field(i).name = Field(j).name
          /\ dir = dirw /\ x = y /\ v[4] = rs /\ w[4] = rsw
      BY <2>1, <3>1
    <3>3. ASSUME i = j
          PROVE  \/ \E r \in rs, s \in rsw : r # s /\ LastSegment(r) = LastSegment(s)
                 \/ \E r \in Field(i).files : LastSegment(r) = "SKILL.md"
      <4>1. type # typew \/ rs # rsw BY <2>1, <3>1, <3>2, <3>3
      <4> QED BY <2>1, <3>1, <3>2, <3>3, <4>1, TwoResources
    <3> QED BY <3>2, <3>3 DEF Excused
  <2> QED BY <2>2, <2>3, <2>4
<1> QED BY <1>2, <1>3, <1>4, <1>5

Entry(f)          == <<f.path, "file", f.holds, {}>>
AssetEntry(a)     == <<a.dest, "asset", {a.of}, {a.source}>>
BundleEntry(b, f) == <<f.path, "bundle", {b.plugin}, {f.source}>>

\* At most one file, with this path.
Single(files, path) == \A f \in files : f.path = path /\ \A g \in files : f = g

\* The entries of an emission, as Written has them.
EntriesOf(e) ==
  {Entry(f) : f \in e.files} \cup {AssetEntry(a) : a \in e.assets}
    \cup UNION {{BundleEntry(b, f) : f \in b.files} : b \in e.bundles}

LEMMA LayersOfObjects ==
  ASSUME NEW ids, NEW file
  PROVE  /\ \A f \in ByScope(file, ids) : IsScoped(ids, file, Entry(f))
         /\ \A dir \in ObjectDirs : \A f \in OneFileEach(dir, ids) : IsNamed(Entry(f))
         /\ \A dir \in SkillDirs : \A f \in SkillFiles(dir, ids) : IsSkill(Entry(f))
<1>1. ASSUME NEW f \in ByScope(file, ids) PROVE IsScoped(ids, file, Entry(f))
  <2>1. PICK d \in {Field(i).scope : i \in ids} : f = File(<<d, file>>, {i \in ids : Field(i).scope = d})
    BY DEF ByScope
  <2>2. PICK i \in ids : d = Field(i).scope OBVIOUS
  <2>3. Entry(f) = <<<<d, file>>, "file", {j \in ids : Field(j).scope = d}, {}>>
    BY <2>1 DEF Entry, File
  <2> QED BY <2>2, <2>3 DEF IsScoped
<1>2. ASSUME NEW dir \in ObjectDirs, NEW f \in OneFileEach(dir, ids) PROVE IsNamed(Entry(f))
  <2>1. PICK i \in ids : f = File(<<dir, Field(i).name>>, {i}) BY DEF OneFileEach
  <2>2. Entry(f) = <<<<dir, Field(i).name>>, "file", {i}, {}>> BY <2>1 DEF Entry, File
  <2> QED BY <2>2 DEF IsNamed
<1>3. ASSUME NEW dir \in SkillDirs, NEW f \in SkillFiles(dir, ids) PROVE IsSkill(Entry(f))
  <2>1. PICK i \in ids : f = File(<<dir, Field(i).name, "SKILL.md">>, {i}) BY DEF SkillFiles
  <2>2. Entry(f) = <<<<dir, Field(i).name, "SKILL.md">>, "file", {i}, {}>> BY <2>1 DEF Entry, File
  <2> QED BY <2>2 DEF IsSkill
<1> QED BY <1>1, <1>2, <1>3

LEMMA LayersOfFiles ==
  ASSUME NEW ids
  PROVE  /\ \A dir \in SkillDirs : \A a \in Sidecars(dir, ids) : IsAsset(AssetEntry(a))
         /\ \A dir \in BundleDirs : \A b \in Bundles(dir, ids) : \A p \in b.files :
              IsBundled(BundleEntry(b, p))
<1>1. ASSUME NEW dir \in SkillDirs, NEW a \in Sidecars(dir, ids)
      PROVE  IsAsset(AssetEntry(a))
  <2>1. PICK i \in ids : a \in {[source |-> r, dest |-> <<dir, Field(i).name, LastSegment(r)>>, of |-> i] :
                                 r \in Field(i).files}
    BY DEF Sidecars
  <2>2. PICK r \in Field(i).files :
          a = [source |-> r, dest |-> <<dir, Field(i).name, LastSegment(r)>>, of |-> i]
    BY <2>1
  <2>3. AssetEntry(a) = <<<<dir, Field(i).name, LastSegment(r)>>, "asset", {i}, {r}>>
    BY <2>2 DEF AssetEntry
  <2> QED BY <2>3 DEF IsAsset
<1>2. ASSUME NEW dir \in BundleDirs, NEW b \in Bundles(dir, ids), NEW p \in b.files
      PROVE  IsBundled(BundleEntry(b, p))
  <2>1. PICK i \in {j \in Distributed(ids, "inline") : Field(j).files # {}} :
          b = [plugin |-> i,
               files  |-> {[path |-> <<dir, Field(i).name, LastSegment(r)>>, source |-> r] :
                             r \in Field(i).files}]
    BY DEF Bundles
  <2>2. /\ b.plugin = i
        /\ b.files = {[path |-> <<dir, Field(i).name, LastSegment(r)>>, source |-> r] :
                        r \in Field(i).files}
    BY <2>1
  <2>3. PICK r \in Field(i).files : p = [path |-> <<dir, Field(i).name, LastSegment(r)>>, source |-> r]
    BY <2>2
  <2>4. BundleEntry(b, p) = <<<<dir, Field(i).name, LastSegment(r)>>, "bundle", {i}, {r}>>
    BY <2>2, <2>3 DEF BundleEntry
  <2> QED BY <2>4 DEF IsBundled
<1> QED BY <1>1, <1>2

LEMMA LayersOfOne ==
  /\ \A path, hooks, permitted : Single(Settings(path, hooks, permitted), path)
  /\ \A path, ids : Single(MCP(path, ids), path)
<1>1. ASSUME NEW path, NEW hooks, NEW permitted PROVE Single(Settings(path, hooks, permitted), path)
  <2> DEFINE f == [path |-> path, sources |-> hooks, holds |-> hooks \cup permitted]
             files == Settings(path, hooks, permitted)
  <2>1. files \subseteq {f} /\ f.path = path BY DEF Settings
  <2> HIDE DEF f, files
  <2>2. Single(files, path) BY <2>1 DEF Single
  <2> QED BY <2>2 DEF files
<1>2. ASSUME NEW path, NEW ids PROVE Single(MCP(path, ids), path)
  <2> DEFINE f == File(path, Range(Owner(ids)))
             files == MCP(path, ids)
  <2>1. files \subseteq {f} BY DEF MCP
  <2>2. f.path = path BY DEF File
  <2> HIDE DEF f, files
  <2>3. Single(files, path) BY <2>1, <2>2 DEF Single
  <2> QED BY <2>3 DEF files
<1> QED BY <1>1, <1>2

\* Two entries of an emission that are from layers like these are apart.
LEMMA EmissionIsApart ==
  ASSUME NEW ids, NEW file \in InstructionFiles, NEW e, NEW own, AreOwn(own),
         \A f \in e.files :
           Entry(f) \in own \/ IsScoped(ids, file, Entry(f)) \/ IsNamed(Entry(f)) \/ IsSkill(Entry(f)),
         \A a \in e.assets : IsAsset(AssetEntry(a)),
         \A b \in e.bundles : \A p \in b.files : IsBundled(BundleEntry(b, p))
  PROVE  \A v, w \in EntriesOf(e) : v # w /\ v[1] = w[1] => Excused(v, w)
<1>1. ASSUME NEW w \in EntriesOf(e)
      PROVE  w \in own \/ IsScoped(ids, file, w) \/ IsNamed(w) \/ IsSkill(w) \/ IsAsset(w) \/ IsBundled(w)
  <2>1. CASE w \in {Entry(f) : f \in e.files} BY <2>1
  <2>2. CASE w \in {AssetEntry(a) : a \in e.assets} BY <2>2
  <2>3. CASE w \in UNION {{BundleEntry(b, f) : f \in b.files} : b \in e.bundles} BY <2>3
  <2> QED BY <1>1, <2>1, <2>2, <2>3 DEF EntriesOf
<1> QED BY <1>1, EntriesAreApart

\* The entry of provenance.json.
Provenances == <<<<"", "provenance.json">>, "file", {}, {}>>

LEMMA AllOfEmission ==
  ASSUME NEW files, NEW assets, NEW bundles, NEW installs, NEW servers
  PROVE  LET e == Emission(files, assets, bundles, installs, servers)
         IN /\ \A f \in e.files : f \in files \/ Entry(f) = Provenances
            /\ e.assets = assets
            /\ e.bundles = bundles
<1> DEFINE e == Emission(files, assets, bundles, installs, servers)
           p == [path |-> <<"", "provenance.json">>, sources |-> DOMAIN Provenance(files), holds |-> {}]
<1>1. e.files = files \cup {p} /\ e.assets = assets /\ e.bundles = bundles BY DEF Emission
<1>2. Entry(p) = Provenances BY DEF Entry, Provenances
<1> HIDE DEF e, p
<1>3. \A f \in e.files : f \in files \/ Entry(f) = Provenances BY <1>1, <1>2
<1>4. (\A f \in e.files : f \in files \/ Entry(f) = Provenances) /\ e.assets = assets /\ e.bundles = bundles
  BY <1>1, <1>3
<1> QED BY <1>4 DEF e

LEMMA OwnOfTwo ==
  ASSUME NEW A, NEW B, NEW d1 \in OwnDirs, NEW d2 \in OwnDirs, NEW x1, NEW x2,
         Single(A, <<d1, x1>>), Single(B, <<d2, x2>>), <<d1, x1>> # <<d2, x2>>,
         x1 \notin InstructionFiles \cup {"provenance.json"},
         x2 \notin InstructionFiles \cup {"provenance.json"}
  PROVE  AreOwn({Entry(x) : x \in A \cup B} \cup {Provenances})
<1> DEFINE own == {Entry(x) : x \in A \cup B} \cup {Provenances}
<1>1. "" \in OwnDirs /\ "provenance.json" \notin InstructionFiles BY DEF OwnDirs, InstructionFiles
<1>2. ASSUME NEW w \in own
      PROVE  \/ w = Provenances /\ w[1] = <<"", "provenance.json">>
             \/ w[1] = <<d1, x1>> /\ \E x \in A : w = Entry(x)
             \/ w[1] = <<d2, x2>> /\ \E x \in B : w = Entry(x)
  <2>1. \A x : Entry(x)[1] = x.path BY DEF Entry
  <2>2. Provenances[1] = <<"", "provenance.json">> BY DEF Provenances
  <2>3. CASE w = Provenances BY <2>2, <2>3
  <2>4. ASSUME NEW x \in A, w = Entry(x) PROVE w[1] = <<d1, x1>> BY <2>1, <2>4 DEF Single
  <2>5. ASSUME NEW x \in B, w = Entry(x) PROVE w[1] = <<d2, x2>> BY <2>1, <2>5 DEF Single
  <2>6. w = Provenances \/ (\E x \in A : w = Entry(x)) \/ \E x \in B : w = Entry(x)
    BY <1>2
  <2> QED BY <2>3, <2>4, <2>5, <2>6
<1> HIDE DEF own
<1>3. ASSUME NEW w \in own
      PROVE  \E dir \in OwnDirs : \E x : x \notin InstructionFiles /\ w[1] = <<dir, x>>
  BY <1>1, <1>2
<1>4. ASSUME NEW v \in own, NEW w \in own, v[1] = w[1] PROVE v = w
  <2>1. /\ <<d1, x1>> # <<"", "provenance.json">>
        /\ <<d2, x2>> # <<"", "provenance.json">>
    OBVIOUS
  <2>2. CASE v = Provenances
    <3>1. v[1] = <<"", "provenance.json">> BY <2>2 DEF Provenances
    <3>2. w[1] # <<d1, x1>> /\ w[1] # <<d2, x2>> BY <1>4, <2>1, <3>1
    <3>3. w = Provenances BY <1>2, <3>2
    <3> QED BY <2>2, <3>3
  <2>3. CASE \E x \in A : v[1] = <<d1, x1>> /\ v = Entry(x)
    <3>1. \E x \in A : w = Entry(x) BY <1>2, <1>4, <2>1, <2>3
    <3> QED BY <2>3, <3>1 DEF Single
  <2>4. CASE \E x \in B : v[1] = <<d2, x2>> /\ v = Entry(x)
    <3>1. \E x \in B : w = Entry(x) BY <1>2, <1>4, <2>1, <2>4
    <3> QED BY <2>4, <3>1 DEF Single
  <2> QED BY <1>2, <2>2, <2>3, <2>4
<1>5. AreOwn(own) BY <1>3, <1>4 DEF AreOwn
<1> QED BY <1>5 DEF own

LEMMA ClaudeIsApart ==
  ASSUME NEW t, t = "claude"
  PROVE  \A v, w \in EntriesOf(RenderUnit(t)) : v # w /\ v[1] = w[1] => Excused(v, w)
<1> DEFINE a == ClaudeInstructions(t)
           b == ClaudeRules(t)
           c == ClaudeSkills(t)
           d == ClaudeAgents(t)
           f == ClaudeMCP(t)
           e == ClaudeSettings(t)
           assets == ClaudeAssets(t)
           bundles == ClaudeBundles(t)
           unit == RenderUnit(t)
           own == {Entry(x) : x \in e \cup f} \cup {Provenances}
<1>1. unit = Emission(a \cup b \cup c \cup d \cup e \cup f, assets, bundles,
                      Distributed(Of(t, "plugin"), "registry"), Owner(Of(t, "plugin")))
  <2>1. unit = RenderClaude(t) BY Zenon DEF RenderUnit
  <2> QED BY <2>1 DEF RenderClaude
<1>2. Single(e, <<".claude", "settings.json">>) /\ Single(f, <<"", ".mcp.json">>)
  BY LayersOfOne DEF ClaudeSettings, ClaudeMCP
<1>3. \A x \in a : IsScoped(Of(t, "instruction"), "CLAUDE.md", Entry(x))
  BY LayersOfObjects DEF ClaudeInstructions
<1>4. /\ \A x \in b : IsNamed(Entry(x))
      /\ \A x \in d : IsNamed(Entry(x))
  BY LayersOfObjects DEF ClaudeRules, ClaudeAgents, ObjectDirs
<1>5. \A x \in c : IsSkill(Entry(x))
  BY LayersOfObjects DEF ClaudeSkills, SkillDirs
<1>6. /\ \A x \in assets : IsAsset(AssetEntry(x))
      /\ \A x \in bundles : \A p \in x.files : IsBundled(BundleEntry(x, p))
  BY LayersOfFiles DEF ClaudeAssets, ClaudeBundles, SkillDirs, BundleDirs
<1> HIDE DEF a, b, c, d, e, f, assets, bundles, unit
<1>7. AreOwn(own)
  <2>1. ".claude" \in OwnDirs /\ "" \in OwnDirs BY DEF OwnDirs
  <2> QED BY <1>2, <2>1, OwnOfTwo DEF InstructionFiles
<1> HIDE DEF own
<1>8. ASSUME NEW x \in unit.files
      PROVE  \/ Entry(x) \in own \/ IsScoped(Of(t, "instruction"), "CLAUDE.md", Entry(x))
             \/ IsNamed(Entry(x)) \/ IsSkill(Entry(x))
  <2>1. x \in a \cup b \cup c \cup d \cup e \cup f \/ Entry(x) = Provenances
    BY <1>1, <1>8, AllOfEmission
  <2> QED BY <1>3, <1>4, <1>5, <2>1 DEF own
<1>9. unit.assets = assets /\ unit.bundles = bundles BY <1>1, AllOfEmission
<1>10. \A v, w \in EntriesOf(unit) : v # w /\ v[1] = w[1] => Excused(v, w)
  BY <1>6, <1>7, <1>8, <1>9, EmissionIsApart DEF InstructionFiles
<1> QED BY <1>10 DEF unit

LEMMA CodexIsApart ==
  ASSUME NEW t, t = "codex"
  PROVE  \A v, w \in EntriesOf(RenderUnit(t)) : v # w /\ v[1] = w[1] => Excused(v, w)
<1> DEFINE a == CodexInstructions(t)
           b == CodexRules(t)
           c == CodexSkills(t)
           d == CodexAgents(t)
           f == CodexMCP(t)
           e == CodexSettings(t)
           assets == CodexAssets(t)
           bundles == CodexBundles(t)
           unit == RenderUnit(t)
           own == {Entry(x) : x \in e \cup f} \cup {Provenances}
<1>1. unit = Emission(a \cup b \cup c \cup d \cup e \cup f, assets, bundles,
                      Distributed(Of(t, "plugin"), "registry"), Owner(Of(t, "plugin")))
  <2>1. unit = RenderCodex(t) BY Zenon DEF RenderUnit
  <2> QED BY <2>1 DEF RenderCodex
<1>2. Single(e, <<".codex", "settings.json">>) /\ Single(f, <<"", ".mcp.json">>)
  BY LayersOfOne DEF CodexSettings, CodexMCP
<1>3. \A x \in a : IsScoped(Of(t, "instruction"), "AGENTS.md", Entry(x))
  BY LayersOfObjects DEF CodexInstructions
<1>4. /\ \A x \in b : IsNamed(Entry(x))
      /\ \A x \in d : IsNamed(Entry(x))
  BY LayersOfObjects DEF CodexRules, CodexAgents, ObjectDirs
<1>5. \A x \in c : IsSkill(Entry(x))
  BY LayersOfObjects DEF CodexSkills, SkillDirs
<1>6. /\ \A x \in assets : IsAsset(AssetEntry(x))
      /\ \A x \in bundles : \A p \in x.files : IsBundled(BundleEntry(x, p))
  BY LayersOfFiles DEF CodexAssets, CodexBundles, SkillDirs, BundleDirs
<1> HIDE DEF a, b, c, d, e, f, assets, bundles, unit
<1>7. AreOwn(own)
  <2>1. ".codex" \in OwnDirs /\ "" \in OwnDirs BY DEF OwnDirs
  <2> QED BY <1>2, <2>1, OwnOfTwo DEF InstructionFiles
<1> HIDE DEF own
<1>8. ASSUME NEW x \in unit.files
      PROVE  \/ Entry(x) \in own \/ IsScoped(Of(t, "instruction"), "AGENTS.md", Entry(x))
             \/ IsNamed(Entry(x)) \/ IsSkill(Entry(x))
  <2>1. x \in a \cup b \cup c \cup d \cup e \cup f \/ Entry(x) = Provenances
    BY <1>1, <1>8, AllOfEmission
  <2> QED BY <1>3, <1>4, <1>5, <2>1 DEF own
<1>9. unit.assets = assets /\ unit.bundles = bundles BY <1>1, AllOfEmission
<1>10. \A v, w \in EntriesOf(unit) : v # w /\ v[1] = w[1] => Excused(v, w)
  BY <1>6, <1>7, <1>8, <1>9, EmissionIsApart DEF InstructionFiles
<1> QED BY <1>10 DEF unit

LEMMA CopilotIsApart ==
  ASSUME NEW t, t = "copilot"
  PROVE  \A v, w \in EntriesOf(RenderUnit(t)) : v # w /\ v[1] = w[1] => Excused(v, w)
<1> DEFINE ids == Of(t, "instruction")
           root == {i \in ids : Field(i).scope = ""}
           copy == IF root = {} THEN {} ELSE {File(<<".github", "copilot-instructions.md">>, root)}
           scoped == ByScope("AGENTS.md", ids)
           a == CopilotInstructions(t)
           b == CopilotRules(t)
           c == CopilotSkills(t)
           d == CopilotAgents(t)
           p == CopilotPrompts(t)
           f == CopilotMCP(t)
           e == CopilotSettings(t)
           hooks == WithEvent(Of(t, "hook"))
           each == {[path |-> <<".github/hooks", x, ".json">>, sources |-> hooks,
                     holds |-> {i \in hooks : Field(i).event = x}] :
                      x \in {Field(i).event : i \in hooks}}
           settings == Settings(<<".claude", "settings.json">>, hooks, WithTools(t))
           assets == CopilotAssets(t)
           bundles == CopilotBundles(t)
           unit == RenderUnit(t)
           two == {Entry(x) : x \in settings \cup f} \cup {Provenances}
           own == two \cup {Entry(x) : x \in copy} \cup {Entry(x) : x \in each}
<1>1. unit = Emission(a \cup b \cup c \cup d \cup p \cup e \cup f, assets, bundles,
                      Distributed(Of(t, "plugin"), "registry"), Owner(Of(t, "plugin")))
  <2>1. unit = RenderCopilot(t) BY Zenon DEF RenderUnit
  <2> QED BY <2>1 DEF RenderCopilot
<1>2. a = scoped \cup copy /\ e = each \cup settings
  BY DEF CopilotInstructions, CopilotSettings
<1>3. Single(settings, <<".claude", "settings.json">>) /\ Single(f, <<".vscode", "mcp.json">>)
  BY LayersOfOne DEF CopilotMCP
<1>4. \A x \in copy : Entry(x) = <<<<".github", "copilot-instructions.md">>, "file", root, {}>>
  <2> DEFINE g == File(<<".github", "copilot-instructions.md">>, root)
  <2>1. copy \subseteq {g} OBVIOUS
  <2>2. Entry(g) = <<<<".github", "copilot-instructions.md">>, "file", root, {}>> BY DEF Entry, File
  <2> HIDE DEF g, copy
  <2> QED BY <2>1, <2>2
<1>5. \A x \in each : \E y :
        Entry(x) = <<<<".github/hooks", y, ".json">>, "file", {i \in hooks : Field(i).event = y}, {}>>
  BY DEF Entry
<1>6. \A x \in scoped : IsScoped(ids, "AGENTS.md", Entry(x))
  BY LayersOfObjects
<1>7. /\ \A x \in b : IsNamed(Entry(x))
      /\ \A x \in d : IsNamed(Entry(x))
      /\ \A x \in p : IsNamed(Entry(x))
  BY LayersOfObjects DEF CopilotRules, CopilotAgents, CopilotPrompts, ObjectDirs
<1>8. \A x \in c : IsSkill(Entry(x))
  BY LayersOfObjects DEF CopilotSkills, SkillDirs
<1>9. /\ \A x \in assets : IsAsset(AssetEntry(x))
      /\ \A x \in bundles : \A y \in x.files : IsBundled(BundleEntry(x, y))
  BY LayersOfFiles DEF CopilotAssets, CopilotBundles, SkillDirs, BundleDirs
<1> HIDE DEF a, b, c, d, e, f, p, copy, each, settings, scoped, assets, bundles, unit
<1>10. AreOwn(two)
  <2>1. ".claude" \in OwnDirs /\ ".vscode" \in OwnDirs BY DEF OwnDirs
  <2> QED BY <1>3, <2>1, OwnOfTwo DEF InstructionFiles
<1>11. \A w \in two : w[1] \in {<<".claude", "settings.json">>, <<".vscode", "mcp.json">>,
                                <<"", "provenance.json">>}
  <2>1. \A x : Entry(x)[1] = x.path BY DEF Entry
  <2>2. Provenances[1] = <<"", "provenance.json">> BY DEF Provenances
  <2> QED BY <1>3, <2>1, <2>2 DEF Single
<1> HIDE DEF two
<1>12. ASSUME NEW w \in own
       PROVE  \/ w \in two
              \/ w = <<<<".github", "copilot-instructions.md">>, "file", root, {}>>
              \/ \E y : w = <<<<".github/hooks", y, ".json">>, "file", {i \in hooks : Field(i).event = y}, {}>>
  <2>1. w \in two \/ (\E x \in copy : w = Entry(x)) \/ \E x \in each : w = Entry(x)
    BY <1>12
  <2>2. ASSUME NEW x \in copy, w = Entry(x)
        PROVE  w = <<<<".github", "copilot-instructions.md">>, "file", root, {}>>
    BY <1>4, <2>2
  <2>3. ASSUME NEW x \in each, w = Entry(x)
        PROVE  \E y : w = <<<<".github/hooks", y, ".json">>, "file", {i \in hooks : Field(i).event = y}, {}>>
    BY <1>5, <2>3
  <2> QED BY <2>1, <2>2, <2>3
<1>13. \A x \in a \cup e \cup f : Entry(x) \in own \/ IsScoped(ids, "AGENTS.md", Entry(x))
  BY <1>2, <1>6 DEF two
<1>14. Provenances \in own BY DEF two
<1> HIDE DEF own, hooks, root, ids
<1>15. AreOwn(own)
  <2>1. ASSUME NEW w \in own
        PROVE  \/ \E dir \in OwnDirs : \E x : x \notin InstructionFiles /\ w[1] = <<dir, x>>
               \/ \E x : w[1] = <<".github/hooks", x, ".json">>
    <3>1. CASE w \in two BY <1>10, <3>1 DEF AreOwn
    <3>2. CASE w \notin two
      <4>1. ".github" \in OwnDirs /\ "copilot-instructions.md" \notin InstructionFiles
        BY DEF OwnDirs, InstructionFiles
      <4> QED BY <1>12, <3>2, <4>1
    <3> QED BY <3>1, <3>2
  <2>2. ASSUME NEW v \in own, NEW w \in own, v[1] = w[1] PROVE v = w
    <3>0. ASSUME NEW x \in own, x \notin two PROVE \A y \in two : x[1] # y[1]
      <4>1. \/ x[1] = <<".github", "copilot-instructions.md">>
            \/ \E y : x[1] = <<".github/hooks", y, ".json">>
        BY <1>12, <3>0
      <4>2. x[1] # <<".claude", "settings.json">> BY <4>1, Lengths
      <4>3. x[1] # <<".vscode", "mcp.json">> BY <4>1, Lengths
      <4>4. x[1] # <<"", "provenance.json">>
        <5>1. <<".github", "copilot-instructions.md">> # <<"", "provenance.json">> OBVIOUS
        <5>2. \A y : <<".github/hooks", y, ".json">> # <<"", "provenance.json">> BY Lengths
        <5> QED BY <4>1, <5>1, <5>2
      <4> QED BY <1>11, <4>2, <4>3, <4>4
    <3>1. CASE v \in two /\ w \in two BY <1>10, <2>2, <3>1 DEF AreOwn
    <3>2. CASE v \in two /\ w \notin two BY <2>2, <3>0, <3>2
    <3>3. CASE v \notin two /\ w \in two BY <2>2, <3>0, <3>3
    <3>4. CASE v \notin two /\ w \notin two BY <1>12, <2>2, <3>4, Lengths
    <3> QED BY <3>1, <3>2, <3>3, <3>4
  <2> QED BY <2>1, <2>2 DEF AreOwn
<1>16. ASSUME NEW x \in unit.files
       PROVE  \/ Entry(x) \in own \/ IsScoped(ids, "AGENTS.md", Entry(x))
              \/ IsNamed(Entry(x)) \/ IsSkill(Entry(x))
  <2>1. x \in a \cup b \cup c \cup d \cup p \cup e \cup f \/ Entry(x) = Provenances
    BY <1>1, <1>16, AllOfEmission
  <2> QED BY <1>7, <1>8, <1>13, <1>14, <2>1
<1>17. unit.assets = assets /\ unit.bundles = bundles BY <1>1, AllOfEmission
<1>18. \A v, w \in EntriesOf(unit) : v # w /\ v[1] = w[1] => Excused(v, w)
  BY <1>9, <1>15, <1>16, <1>17, EmissionIsApart DEF InstructionFiles
<1> QED BY <1>18 DEF unit

LEMMA CursorIsApart ==
  ASSUME NEW t, t = "cursor"
  PROVE  \A v, w \in EntriesOf(RenderUnit(t)) : v # w /\ v[1] = w[1] => Excused(v, w)
<1> DEFINE a == CursorInstructions(t)
           b == CursorRules(t)
           c == CursorSkills(t)
           d == CursorAgents(t)
           f == CursorMCP(t)
           e == CursorHooks(t)
           unit == RenderUnit(t)
           own == {Entry(x) : x \in e \cup f} \cup {Provenances}
<1>1. unit = Emission(a \cup b \cup c \cup d \cup e \cup f, {}, {}, CursorInstalls(t),
                      Owner(Of(t, "plugin")))
  <2>1. unit = RenderCursor(t) BY Zenon DEF RenderUnit
  <2> QED BY <2>1 DEF RenderCursor
<1>2. Single(e, <<".cursor", "hooks.json">>) /\ Single(f, <<".cursor", "mcp.json">>)
  BY LayersOfOne DEF CursorHooks, CursorMCP
<1>3. \A x \in a : IsScoped(Of(t, "instruction"), "AGENTS.md", Entry(x))
  BY LayersOfObjects DEF CursorInstructions
<1>4. /\ \A x \in b : IsNamed(Entry(x))
      /\ \A x \in c : IsNamed(Entry(x))
      /\ \A x \in d : IsNamed(Entry(x))
  BY LayersOfObjects DEF CursorRules, CursorSkills, CursorAgents, ObjectDirs
<1> HIDE DEF a, b, c, d, e, f, unit
<1>5. AreOwn(own)
  <2>1. ".cursor" \in OwnDirs BY DEF OwnDirs
  <2> QED BY <1>2, <2>1, OwnOfTwo DEF InstructionFiles
<1> HIDE DEF own
<1>6. ASSUME NEW x \in unit.files
      PROVE  \/ Entry(x) \in own \/ IsScoped(Of(t, "instruction"), "AGENTS.md", Entry(x))
             \/ IsNamed(Entry(x)) \/ IsSkill(Entry(x))
  <2>1. x \in a \cup b \cup c \cup d \cup e \cup f \/ Entry(x) = Provenances
    BY <1>1, <1>6, AllOfEmission
  <2> QED BY <1>3, <1>4, <2>1 DEF own
<1>7. unit.assets = {} /\ unit.bundles = {} BY <1>1, AllOfEmission
<1>8. \A v, w \in EntriesOf(unit) : v # w /\ v[1] = w[1] => Excused(v, w)
  BY <1>5, <1>6, <1>7, EmissionIsApart DEF InstructionFiles
<1> QED BY <1>8 DEF unit

LEMMA UnitIsApart ==
  ASSUME NEW t \in Rendered
  PROVE  \A v, w \in EntriesOf(RenderUnit(t)) : v # w /\ v[1] = w[1] => Excused(v, w)
<1>1. t \in {"claude", "codex", "copilot", "cursor"} BY DEF Rendered
<1> QED BY <1>1, ClaudeIsApart, CodexIsApart, CopilotIsApart, CursorIsApart

-----------------------------------------------------------------------------
(***************************************************************************)
(* Rendering                                                               *)
(***************************************************************************)

LEMMA BecomesPlugin ==
  ASSUME NEW o \in Object, NEW t, LowerObject(o, t).kind = "plugin"
  PROVE  o.kind = "plugin"
<1> SUFFICES ASSUME o.kind # "plugin" PROVE FALSE
  OBVIOUS
<1>1. o.kind \in Kinds BY DEF Object
<1>2. \A action, safe : Skipped(o, action, safe).kind = o.kind BY DEF Skipped
<1>3. KeepObject(o).kind = o.kind /\ SkippedOrFailed(o).kind = o.kind
  BY <1>2 DEF KeepObject, SkippedOrFailed
<1>4. \A kind, text : Lowered(kind, text).kind = kind BY DEF Lowered
<1>5. Flatten(o).kind # "plugin"
  BY <1>3 DEF Flatten
<1>6. CASE o.kind = "rule" BY <1>4, <1>6 DEF LowerObject, LowerRule
<1>7. CASE o.kind = "hook"
  <2>1. LowerObject(o, t) = LowerHook(o, t) BY <1>7 DEF LowerObject
  <2>2. \/ LowerHook(o, t) \in {KeepObject(o), Lowered("command", FALSE), Lowered("instruction", FALSE)}
        \/ LowerHook(o, t) = Skipped(o, "skipped", Enforcement(o) = "best-effort")
    BY DEF LowerHook
  <2>3. Skipped(o, "skipped", Enforcement(o) = "best-effort").kind = o.kind BY DEF Skipped
  <2>4. /\ Lowered("command", FALSE).kind = "command"
        /\ Lowered("instruction", FALSE).kind = "instruction"
    BY DEF Lowered
  <2> QED BY <1>3, <2>1, <2>2, <2>3, <2>4
<1>8. CASE o.kind = "skill" BY <1>3, <1>5, <1>8 DEF LowerObject, LowerSkill
<1>9. CASE o.kind = "agent" BY <1>3, <1>5, <1>9 DEF LowerObject, LowerAgent
<1>10. CASE o.kind = "command" BY <1>3, <1>4, <1>10 DEF LowerObject, LowerCommand
<1>11. CASE o.kind \in {"instruction", "capability"} BY <1>3, <1>11 DEF LowerObject
<1> QED BY <1>1, <1>6, <1>7, <1>8, <1>9, <1>10, <1>11 DEF Kinds

RenderedInv == emissions # None => pc = "done"

RInv ==
  /\ LoweredInv
  /\ RenderedInv
  /\ NothingIsLostUnseen
  /\ ProvenanceIsTruthful
  /\ NoLayerOverwritesAnother

LEMMA RInitInv == RInit => RInv
BY DEF RInit, Init, RInv, LoweredInv, RenderedInv, NothingIsLostUnseen, ProvenanceIsTruthful,
       NoLayerOverwritesAnother

LEMMA StagesRInv ==
  ASSUME IInv, IInv', RInv, Plan \/ ResolveCapabilities \/ Lower, UNCHANGED <<emissions, diagnostics>>
  PROVE  RInv'
<1>1. emissions' = None BY DEF RInv, RenderedInv, Plan, ResolveCapabilities, Lower
<1>2. LoweredInv'
  <2>1. CASE Lower
    <3>1. ASSUME pc' = "done", NEW t \in DOMAIN units', NEW i \in DOMAIN lowered'[t]
          PROVE  i \in ID' /\ (lowered'[t][i].kind = "plugin" => objects'[i].kind = "plugin")
      <4>1. input \in Inputs /\ input' = input /\ units' = units /\ t \in DOMAIN units
        BY <2>1 DEF IInv, Lower
      <4>2. lowered'[t] = LowerUnit(t) BY <2>1, <4>1 DEF Lower
      <4>3. i \in ObjectIDsForUnit(t) /\ lowered'[t][i] = LowerObject(objects[i], t)
        BY <3>1, <4>2 DEF LowerUnit
      <4>4. i \in ID BY <4>3 DEF ObjectIDsForUnit
      <4>5. objects[i] \in Object BY <4>1, <4>4, ObjectsAreTyped
      <4>6. ID' = ID /\ objects' = objects BY <4>1 DEF ID, objects
      <4> QED BY <4>3, <4>4, <4>5, <4>6, BecomesPlugin
    <3> QED BY <3>1 DEF LoweredInv
  <2>2. CASE Plan \/ ResolveCapabilities BY <2>2 DEF Plan, ResolveCapabilities, LoweredInv
  <2> QED BY <2>1, <2>2
<1> QED
  BY <1>1, <1>2 DEF RInv, RenderedInv, NothingIsLostUnseen, ProvenanceIsTruthful,
                    NoLayerOverwritesAnother

\* What a step that leaves the graphs alone leaves alone.
LEMMA SameGraphs ==
  ASSUME UNCHANGED vars
  PROVE  /\ objects' = objects /\ ID' = ID /\ Rendered' = Rendered
         /\ LoweredInv' = LoweredInv
         /\ NoActiveObjectIsLost' = NoActiveObjectIsLost
         /\ InactiveOnlyByASurface' = InactiveOnlyByASurface
         /\ \A t : Kept(t)' = Kept(t) /\ WithTools(t)' = WithTools(t)
         /\ \A t, k : Of(t, k)' = Of(t, k)
         /\ \A i : Field(i)' = Field(i) /\ Servers(i)' = Servers(i)
         /\ \A t, i : NothingToOffer(t, i)' = NothingToOffer(t, i)
<1> USE DEF vars
<1>1. objects' = objects /\ ID' = ID /\ Rendered' = Rendered BY DEF objects, ID, Rendered
<1>2. LoweredInv' = LoweredInv BY DEF LoweredInv, objects, ID
<1>3. /\ NoActiveObjectIsLost' = NoActiveObjectIsLost
      /\ InactiveOnlyByASurface' = InactiveOnlyByASurface
  BY DEF NoActiveObjectIsLost, InactiveOnlyByASurface, objects
<1>4. \A t : Kept(t)' = Kept(t) BY DEF Kept
<1>5. \A t, k : Of(t, k)' = Of(t, k) BY DEF Of
<1>6. \A i : Field(i)' = Field(i) BY DEF Field, objects
<1>7. \A t : WithTools(t)' = WithTools(t) BY DEF WithTools, Of, Field, objects
<1>8. \A i : Servers(i)' = Servers(i) BY DEF Servers, Field, objects
<1>9. \A t, i : NothingToOffer(t, i)' = NothingToOffer(t, i)
  BY DEF NothingToOffer, Servers, Field, Of, objects
<1> QED BY <1>1, <1>2, <1>3, <1>4, <1>5, <1>6, <1>7, <1>8, <1>9

LEMMA RenderRInv == ASSUME IInv, IInv', RInv, Render PROVE RInv'
<1>1. /\ UNCHANGED vars /\ pc = "done" /\ pc' = "done"
      /\ emissions' = [t \in Rendered |-> RenderUnit(t)]
      /\ diagnostics' = UNION {{t} \X Dropped(t) : t \in Rendered}
  BY DEF Render, vars
<1>2. DOMAIN emissions' = Rendered /\ \A t \in Rendered : emissions'[t] = RenderUnit(t)
  BY <1>1
<1>3. LoweredInv /\ LoweredInv' BY <1>1, SameGraphs DEF RInv
<1>4. ASSUME NEW t \in Rendered PROVE ServersAreStable(t)'
  <2>1. Of(t, "plugin")' = Of(t, "plugin") /\ \A j : Servers(j)' = Servers(j) BY <1>1, SameGraphs
  <2> SUFFICES ASSUME NEW i \in Of(t, "plugin"), NEW j \in Of(t, "plugin"), j < i,
                      NEW s \in Servers(j)
               PROVE  /\ emissions'[t].servers[s] \in Of(t, "plugin")
                      /\ emissions'[t].servers[s] < i
    BY <2>1 DEF ServersAreStable
  <2> QED BY <1>1, <1>2, <1>3, StableServers
<1>5. RenderedInv' BY <1>1 DEF RenderedInv
<1>6. ProvenanceIsTruthful'
  <2> SUFFICES ASSUME NEW t \in Rendered
               PROVE  LET e == emissions'[t]
                      IN /\ \A w \in Written(t)' : \A i \in w[3] :
                              \/ i \in DOMAIN e.provenance /\ w[1] \in e.provenance[i]
                              \/ w[2] \in {"asset", "bundle"}
                              \/ i \in WithTools(t)' /\ w[1][2] = "settings.json"
                         /\ \A i \in DOMAIN e.provenance : \A p \in e.provenance[i] :
                              \E f \in e.files : f.path = p /\ (i \in f.holds \/ p[1] = ".github/hooks")
    BY <1>2 DEF ProvenanceIsTruthful
  <2>1. WithTools(t)' = WithTools(t) BY <1>1, SameGraphs
  <2>2. emissions'[t] = RenderUnit(t) /\ Written(t)' = EntriesOf(RenderUnit(t))
    BY <1>2 DEF Written, EntriesOf, Entry, AssetEntry, BundleEntry
  <2>3. ASSUME NEW w \in EntriesOf(RenderUnit(t)), w[2] \notin {"asset", "bundle"}
        PROVE  \E f \in RenderUnit(t).files : w[1] = f.path /\ w[3] = f.holds
    BY <2>3 DEF EntriesOf, Entry, AssetEntry, BundleEntry
  <2> QED BY <2>1, <2>2, <2>3, ProvenanceOfUnit
<1>7. NothingIsLostUnseen'
  <2>1. NoActiveObjectIsLost' /\ InactiveOnlyByASurface' BY <1>1, SameGraphs DEF IInv
  <2>2. ASSUME NEW t \in Rendered, NEW i \in Kept(t)'
        PROVE  (\/ i \in Emitted(t)
                \/ <<t, i>> \in diagnostics
                \/ lowered[t][i].kind = "hook" /\ Field(i).event = ""
                \/ lowered[t][i].kind = "capability"
                \/ NothingToOffer(t, i))'
    <3>1. i \in Kept(t) BY <1>1, <2>2, SameGraphs
    <3>2. lowered' = lowered BY <1>1 DEF vars
    <3>3. Field(i)' = Field(i) /\ NothingToOffer(t, i)' = NothingToOffer(t, i)
      BY <1>1, SameGraphs
    <3>4. Emitted(t)' = In(RenderUnit(t)) BY <1>2 DEF Emitted, In
    <3>5. i \in Dropped(t) => <<t, i>> \in diagnostics' BY <1>1
    <3> QED BY <1>1, <1>3, <3>1, <3>2, <3>3, <3>4, <3>5, NothingDropped
  <2> QED BY <1>2, <2>1, <2>2 DEF NothingIsLostUnseen
<1>8. NoLayerOverwritesAnother'
  <2> SUFFICES ASSUME NEW t \in Rendered
               PROVE  (\A v, w \in Written(t) : v # w /\ v[1] = w[1] => Excused(v, w))'
    BY <1>2, <1>4 DEF NoLayerOverwritesAnother, Excused
  <2>1. Written(t)' = EntriesOf(RenderUnit(t))
    BY <1>2 DEF Written, EntriesOf, Entry, AssetEntry, BundleEntry
  <2>2. \A v, w : Excused(v, w)' <=> Excused(v, w)
    <3>1. \A i : Field(i)' = Field(i) BY <1>1, SameGraphs
    <3> QED BY <3>1 DEF Excused
  <2> QED BY <2>1, <2>2, UnitIsApart
<1> QED BY <1>3, <1>5, <1>6, <1>7, <1>8 DEF RInv

LEMMA RStutterInv == ASSUME RInv, UNCHANGED rvars PROVE RInv'
<1>1. UNCHANGED vars /\ emissions' = emissions /\ diagnostics' = diagnostics BY DEF rvars
<1>2. \A t : Emitted(t)' = Emitted(t) BY <1>1 DEF Emitted
<1>3. LoweredInv' BY <1>1, SameGraphs DEF RInv
<1>4. RenderedInv'
  <2>1. pc' = pc BY <1>1 DEF vars
  <2> QED BY <1>1, <2>1 DEF RInv, RenderedInv
<1>5. ProvenanceIsTruthful'
  <2>1. \A t : WithTools(t)' = WithTools(t) BY <1>1, SameGraphs
  <2>2. \A t : Written(t)' = Written(t) BY <1>1 DEF Written
  <2> QED BY <1>1, <2>1, <2>2 DEF RInv, ProvenanceIsTruthful
<1>6. NothingIsLostUnseen'
  <2>1. \A t : Kept(t)' = Kept(t) BY <1>1, SameGraphs
  <2>2. \A i : Field(i)' = Field(i) BY <1>1, SameGraphs
  <2>3. \A t, i : NothingToOffer(t, i)' = NothingToOffer(t, i) BY <1>1, SameGraphs
  <2>4. /\ NoActiveObjectIsLost' = NoActiveObjectIsLost
        /\ InactiveOnlyByASurface' = InactiveOnlyByASurface
    BY <1>1, SameGraphs
  <2>5. lowered' = lowered BY <1>1 DEF vars
  <2> QED BY <1>1, <1>2, <2>1, <2>2, <2>3, <2>4, <2>5 DEF RInv, NothingIsLostUnseen
<1>7. NoLayerOverwritesAnother'
  <2>1. \A t : ServersAreStable(t)' <=> ServersAreStable(t)
    <3>1. \A t : Of(t, "plugin")' = Of(t, "plugin") BY <1>1, SameGraphs
    <3>2. \A i : Servers(i)' = Servers(i) BY <1>1, SameGraphs
    <3> QED BY <1>1, <3>1, <3>2 DEF ServersAreStable
  <2>2. \A t : Written(t)' = Written(t) BY <1>1 DEF Written
  <2>3. \A i : Field(i)' = Field(i) BY <1>1, SameGraphs
  <2> QED BY <1>1, <2>1, <2>2, <2>3 DEF RInv, NoLayerOverwritesAnother
<1> QED BY <1>3, <1>4, <1>5, <1>6, <1>7 DEF RInv

LEMMA RInvariant == RSpec => [](IInv /\ RInv)
<1>1. RInv /\ IInv /\ IInv' /\ [RNext]_rvars => RInv'
  BY StagesRInv, RenderRInv, RStutterInv DEF RNext
<1> QED BY <1>1, RInitInv, RenderersOnlyRead, Invariant, PTL DEF RSpec

-----------------------------------------------------------------------------
(* Whatever the registries support, the build keeps what the preservation  *)
(* level of each object promises, or fails.                                *)
THEOREM PreservationLevelsAreKept == Spec => []PreservationIsKept
<1>1. IInv => PreservationIsKept BY DEF IInv
<1> QED BY <1>1, Invariant, PTL

(* No lowering of hooks makes an advisory one of a blocking one.           *)
THEOREM BlockingHooksStayBlocking == Spec => []BlockingIsNotAdvisory
<1>1. IInv => BlockingIsNotAdvisory BY DEF IInv
<1> QED BY <1>1, Invariant, PTL

(* The engine, which derives the objects of a unit a second time, finds    *)
(* all that are active, and others only by a surface that an active one    *)
(* requires.                                                               *)
THEOREM ActiveObjectsAreLowered ==
  Spec => [](pc = "done" => NoActiveObjectIsLost /\ InactiveOnlyByASurface)
<1>1. IInv => (pc = "done" => NoActiveObjectIsLost /\ InactiveOnlyByASurface) BY DEF IInv
<1> QED BY <1>1, Invariant, PTL

(* A locked profile has no MCP-backed provider and gives up nothing that   *)
(* another provider has, in whatever order the providers are.              *)
THEOREM LockedProfilesHaveNoMCP == Spec => []LockedProfileHasNoMCP
<1>1. IInv => LockedProfileHasNoMCP BY DEF IInv, LockedInv, LockedProfileHasNoMCP
<1> QED BY <1>1, Invariant, PTL

(* The chain from the planner's choice of objects over the lowering to the *)
(* layers of the renderers loses nothing without a word: what was not      *)
(* skipped is emitted or reported, whatever the objects are; and takes in  *)
(* nothing that is not active but by a surface of what is.                 *)
THEOREM NothingIsLost == RSpec => []NothingIsLostUnseen
<1>1. RInv => NothingIsLostUnseen BY DEF RInv
<1> QED BY <1>1, RInvariant, PTL

(* Of what is written, provenance.json names for every object just what    *)
(* its data are in, with the exceptions that the property states: assets,  *)
(* files in bundles and permissions are not listed, and Copilot's files    *)
(* for the events are listed for all hooks.                                *)
THEOREM ProvenanceCanBeTrusted == RSpec => []ProvenanceIsTruthful
<1>1. RInv => ProvenanceIsTruthful BY DEF RInv
<1> QED BY <1>1, RInvariant, PTL

(* No layer of a renderer writes over another's file, but for objects that *)
(* have one name, or the name of a file that is not theirs, and for two    *)
(* resources of one object that have one name; and no plugin takes over    *)
(* the server of an earlier one.                                           *)
THEOREM LayersAreApart == RSpec => []NoLayerOverwritesAnother
<1>1. RInv => NoLayerOverwritesAnother BY DEF RInv
<1> QED BY <1>1, RInvariant, PTL
=============================================================================
