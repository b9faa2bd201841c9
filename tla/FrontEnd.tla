------------------------------ MODULE FrontEnd ------------------------------
(***************************************************************************)
(* The stages that lead from source files to the SemanticGraph: the parser *)
(* and the validator (internal/adapter/stage/parser, .../validator), the   *)
(* resolver as far as it adds the objects of packages to the tree, and the *)
(* normalizer, whose module this one extends.  Failing fast, an invalid    *)
(* tree ends the build; otherwise the next stage gets it as it is.         *)
(***************************************************************************)
EXTENDS Normalizer, SequencesExt

CONSTANT Inputs   \* the projects: files, objects of packages, and the mode

\* form: it is parsed, passed over, or cannot be read or parsed.
File == [form : {"object", "other", "broken"}, object : RawObject]

Input == [files : Seq(File), external : Seq(RawObject), failFast : BOOLEAN]

ASSUME FrontEndAssumption ==
  \A i \in Inputs :
    /\ i \in Input
    \* Of a package's object only ID, kind, description and fields are taken.
    /\ \A k \in DOMAIN i.external : i.external[k].extends = <<>> /\ i.external[k].scope = {}

VARIABLES
  input,   \* the project and the mode
  phase,   \* the stage and its loop, or "refused"
  at,      \* the index of that loop
  diags    \* the validator's diagnostics

fvars == <<input, phase, at, diags, vars>>

FInit ==
  /\ input \in Inputs
  /\ phase = "parse" /\ at = 1 /\ diags = {}
  /\ tree = <<>>
  /\ Init

-----------------------------------------------------------------------------
(* The parser.                                                             *)

\* One entry of one of the eight directories; the first file that cannot be
\* parsed ends the stage.
ParseFile ==
  /\ phase = "parse" /\ at <= Len(input.files)
  /\ LET f == input.files[at]
     IN \/ f.form = "object" /\ tree' = Append(tree, f.object) /\ UNCHANGED phase
        \/ f.form = "other" /\ UNCHANGED <<tree, phase>>
        \/ f.form = "broken" /\ phase' = "refused" /\ UNCHANGED tree
  /\ at' = at + 1
  /\ UNCHANGED <<input, diags, pc, next, parent, work, waiting, order, index, result>>

\* The objects are sorted by ID; sort.Slice leaves open how equal ones stand.
SortObjects ==
  /\ phase = "parse" /\ at > Len(input.files)
  /\ \E p \in SetToSeqs(Position) :
       /\ \A i, j \in Position : i < j => tree[p[i]].id <= tree[p[j]].id
       /\ tree' = [i \in Position |-> tree[p[i]]]
  /\ phase' = "structural" /\ at' = 1
  /\ UNCHANGED <<input, diags, pc, next, parent, work, waiting, order, index, result>>

-----------------------------------------------------------------------------
(* The validator.  0 stands for no ID.                                     *)

NoID == 0

Structural(i) ==
  (IF tree[i].id = NoID THEN {<<"id", i>>} ELSE {})
    \cup (IF ~ tree[i].valid THEN {<<"schema", i>>} ELSE {})

\* Failing fast, the first object with an error ends the stage.
ValidateObject ==
  /\ phase = "structural" /\ at <= Len(tree)
  /\ diags' = diags \cup Structural(at)
  /\ phase' = IF input.failFast /\ Structural(at) # {} THEN "refused" ELSE phase
  /\ at' = at + 1
  /\ UNCHANGED <<input, vars>>

\* The first object of each ID.
Known == {tree[i].id : i \in Position} \ {NoID}
First(o) == CHOOSE i \in Position : tree[i].id = o /\ \A j \in 1 .. i - 1 : tree[j].id # o

CheckDuplicateIDs ==
  {<<"duplicate", i>> : i \in {i \in Position : tree[i].id \in Known /\ First(tree[i].id) # i}}

\* What the objects must be that an agent refers to.
KindOf == [skills |-> "skill", mayCall |-> "agent", hooks |-> "hook", handoffs |-> "agent"]

CheckReferences ==
  {<<"reference", i>> : i \in {i \in Position :
     /\ tree[i].kind = "agent"
     /\ \E r \in DOMAIN KindOf : \E o \in tree[i].refs[r] :
          o \notin Known \/ tree[First(o)].kind # KindOf[r]}}

\* The edges that leave an object, by the walk that follows them.
Out(walk, i) ==
  CASE walk = "inheritance" -> {tree[i].extends[k] : k \in DOMAIN tree[i].extends}
    [] walk = "delegation"  -> IF tree[i].kind = "agent" THEN tree[i].refs["mayCall"] ELSE {}

\* Mutant: an object that is met a second time is not taken for a cycle unless
\* the walk began there.
DetectCycle_Start(walk, i) ==
  LET reach[n \in Nat] ==
        IF n = 0 THEN Out(walk, i)
        ELSE reach[n - 1] \cup UNION {Out(walk, First(o)) : o \in reach[n - 1] \cap Known}
  IN tree[i].id \in reach[Len(tree)]

\* One of the objects led to is on the way already, or leads to one that is: the
\* set "found" gives for a way holds the objects at its end that do.
MeetsItself(found, visited, to) ==
  \E o \in to : o \in visited \/ (o \in Known /\ o \in found[visited \cup {o}])

\* The walk of detectCycle and of detectDelegationCycle: visited holds the
\* objects on the way; each is taken out again on the way back.
Found(walk) ==
  LET found[visited \in SUBSET (Known \cup {NoID})] ==
        {o \in Known : MeetsItself(found, visited, Out(walk, First(o)))}
  IN found

DetectCycle(walk, i) == MeetsItself(Found(walk), {tree[i].id}, Out(walk, i))

CheckCircularInheritance == {<<"inheritance", i>> : i \in {i \in Position : DetectCycle("inheritance", i)}}
CheckCircularDelegation  == {<<"delegation", i>> : i \in {i \in Position : DetectCycle("delegation", i)}}

\* An unknown tool is a warning only.
CheckToolExpressions ==
  {<<"tools", i>> : i \in {i \in Position :
     tree[i].kind \in {"skill", "agent"} /\ tree[i].tools = "malformed"}}

\* Semantic validation, and the verdict.
ValidateTree ==
  /\ phase = "structural" /\ at > Len(tree)
  /\ diags' = diags \cup CheckDuplicateIDs \cup CheckReferences \cup CheckCircularInheritance
                    \cup CheckCircularDelegation \cup CheckToolExpressions
  /\ phase' = IF input.failFast /\ diags' # {} THEN "refused" ELSE "resolve"
  /\ UNCHANGED <<input, at, vars>>

-----------------------------------------------------------------------------
(* The resolver and the normalizer.                                        *)

\* The objects of packages come last; nothing validates them.
ResolveDependencies ==
  /\ phase = "resolve"
  /\ phase' = "normalize"
  /\ tree' = tree \o input.external
  /\ UNCHANGED <<input, at, diags, pc, next, parent, work, waiting, order, index, result>>

Normalize == phase = "normalize" /\ Next /\ UNCHANGED <<input, phase, at, diags>>

FNext ==
  \/ ParseFile \/ SortObjects
  \/ ValidateObject \/ ValidateTree
  \/ ResolveDependencies
  \/ Normalize

FSpec == FInit /\ [][FNext]_fvars

-----------------------------------------------------------------------------
FrontEndTypeOK ==
  /\ TypeOK
  /\ input \in Input
  /\ phase \in {"parse", "structural", "resolve", "normalize", "refused"}
  /\ at \in 1 .. Len(input.files) + 1
  /\ diags \subseteq {"id", "schema", "duplicate", "reference", "inheritance", "delegation",
                      "tools"} \X Position

\* What is wrong with a tree, read off its objects without walking: an object is
\* on a cycle, or leads to one, if it is in a set whose every object has an edge
\* into the set.
Leads(walk, o) ==
  \E S \in SUBSET Known : o \in S /\ \A p \in S : Out(walk, First(p)) \cap S # {}

\* What is referred to is missing, or an object with its ID is of the wrong kind.
Misleads(p, kind) == p \notin Known \/ \E j \in Position : tree[j].id = p /\ tree[j].kind # kind

Wrong(i) ==
  LET o == tree[i] IN
  \/ o.id = NoID \/ ~ o.valid
  \/ o.kind \in {"skill", "agent"} /\ o.tools = "malformed"
  \/ \E j \in Position \ {i} : tree[j].id = o.id
  \/ o.kind = "agent" /\ \E r \in DOMAIN KindOf : \E p \in o.refs[r] : Misleads(p, KindOf[r])
  \/ Leads("inheritance", o.id) \/ Leads("delegation", o.id)

\* Every object in the source directories is in the tree that is validated, and
\* in the order of IDs.
EveryFileIsParsed ==
  phase = "structural" /\ at = 1 =>
    /\ Len(tree) = Cardinality({k \in DOMAIN input.files : input.files[k].form = "object"})
    /\ \A k \in DOMAIN input.files :
         IF input.files[k].form = "object" THEN \E i \in Position : tree[i] = input.files[k].object
         ELSE input.files[k].form = "other"
    /\ \A i \in Position \ {1} : tree[i - 1].id <= tree[i].id

\* What the validator has let pass the normalizer never finds cyclic, though the
\* resolver adds to the tree in between: packages may replace objects and bring
\* missing ones, but their objects extend nothing.
ValidTreesAreNotCyclic == phase = "normalize" /\ diags = {} => result # "cycle"

\* The validator's verdict is right about the project: about all of it, and until
\* the normalizer is done with it.  It lets pass just the trees without a fault,
\* whatever way faults combine, a cycle that an object only leads to and diamonds
\* that are no cycles included; without fail-fast just the objects at fault have
\* diagnostics, and with it none is refused without one.
VerdictIsRight ==
  /\ FrontEndTypeOK
  /\ EveryFileIsParsed
  /\ phase = "resolve" =>
       /\ diags = {} <=> \A i \in Position : ~ Wrong(i)
       /\ (\A i, j \in Position : tree[i].id = tree[j].id => i = j) =>
            {d[2] : d \in diags} = {i \in Position : Wrong(i)}
  /\ \A d \in diags : phase # "normalize" => Wrong(d[2])
  /\ ValidTreesAreNotCyclic
=============================================================================
