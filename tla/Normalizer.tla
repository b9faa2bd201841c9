---------------------------- MODULE Normalizer ----------------------------
(***************************************************************************)
(* The normalizer stage (internal/adapter/stage/normalizer): it turns the  *)
(* raw objects of a SourceTree into a SemanticGraph.  Objects with one ID  *)
(* become one, scopes are checked, objects inherit from those they extend, *)
(* parents first, by Kahn's algorithm, paths are resolved, and an index    *)
(* from scope paths to objects is built.                                   *)
(*                                                                         *)
(* What an object inherits is of two kinds: values it takes from the first *)
(* parent that has one (resolved fields, content, description, owner and   *)
(* target overrides) and sets it joins (scope paths, file types, labels).  *)
(* A value is named by the raw object it was written in.                   *)
(***************************************************************************)
EXTENDS Integers, Sequences, FiniteSets

CONSTANTS
  Fields,      \* the values an object may have or inherit
  PathFields,  \* those of them that are paths, relative to the object's file
  ScopePaths   \* scope paths; for file types and labels alike

None == 0
Root == "."

Kinds == {"skill", "agent", "hook", "rule"}

\* IDs are natural numbers, as they are only compared.  glob: its scope paths
\* are valid patterns.  kind, refs, tools and valid are for the validator: the
\* IDs an agent refers to, what its tool expressions are like, and whether the
\* rest of it meets the schema.
RawObject == [id      : Nat,
              kind    : Kinds,
              extends : Seq(Nat),
              fields  : SUBSET Fields,
              scope   : SUBSET ScopePaths,
              glob    : BOOLEAN,
              refs    : [{"skills", "mayCall", "hooks", "handoffs"} -> SUBSET Nat],
              tools   : {"known", "unknown", "malformed"},
              valid   : BOOLEAN]

ASSUME NormalizerAssumption ==
  /\ PathFields \subseteq Fields
  /\ Root \notin ScopePaths

VARIABLES
  tree,     \* tree.Objects
  pc,       \* the step: "copy", "scope", "link", "kahn", "merge", "paths", "index",
            \* or how it ended: "done", "failed"
  next,     \* the index of the loop pc stands in
  parent,   \* in the merge loop, the index into the parents
  work,     \* the working set: of each ID, the object
  waiting,  \* waiting[id]: the indices of extends that inDegree[id] still counts
  order,    \* the objects placed by Kahn's loop
  index,    \* the scope index
  result    \* "running", "ok", or why Execute failed

vars == <<tree, pc, next, parent, work, waiting, order, index, result>>

Position == DOMAIN tree

IDs == {tree[i].id : i \in Position}

-----------------------------------------------------------------------------
\* The stage as it starts, with whatever tree it is handed.
Init ==
  /\ pc = "copy"
  /\ next = 1
  /\ parent = 1
  /\ work = <<>>
  /\ waiting = <<>>
  /\ order = <<>>
  /\ index = <<>>
  /\ result = "running"

Fail(why) == pc' = "failed" /\ result' = why

\* A raw object in the working set: the values it has, and where its paths
\* start from.
Normalized(i) ==
  [raw   |-> i,
   value |-> [f \in Fields |-> IF f \in tree[i].fields THEN i ELSE None],
   base  |-> [f \in PathFields |-> None],
   scope |-> tree[i].scope]

\* Step 1: an object takes the place of an earlier one with its ID.
Copy ==
  /\ pc = "copy"
  /\ next <= Len(tree)
  /\ work' = [o \in DOMAIN work \cup {tree[next].id} |->
                IF o = tree[next].id THEN Normalized(next) ELSE work[o]]
  /\ next' = next + 1
  /\ UNCHANGED <<tree, pc, parent, waiting, order, index, result>>

FinishCopy ==
  /\ pc = "copy"
  /\ next > Len(tree)
  /\ pc' = "scope"
  /\ UNCHANGED <<tree, next, parent, work, waiting, order, index, result>>

\* Step 2: a scope path that is not a valid pattern is an error.
NormalizeScopes ==
  /\ pc = "scope"
  /\ IF \A o \in DOMAIN work : tree[work[o].raw].glob
       THEN pc' = "link" /\ UNCHANGED result
       ELSE Fail("scope")
  /\ UNCHANGED <<tree, next, parent, work, waiting, order, index>>

Extends(o) == tree[work[o].raw].extends

Dangling(o) == \E k \in DOMAIN Extends(o) : Extends(o)[k] \notin DOMAIN work

\* Step 3: the edges are counted, one for each mention of a parent.
Link ==
  /\ pc = "link"
  /\ IF \E o \in DOMAIN work : Dangling(o)
       THEN Fail("missing") /\ UNCHANGED waiting
       ELSE /\ waiting' = [o \in DOMAIN work |-> DOMAIN Extends(o)]
            /\ pc' = "kahn"
            /\ UNCHANGED result
  /\ UNCHANGED <<tree, next, parent, work, order, index>>

Placed == {order[i] : i \in DOMAIN order}

\* The queue, which is sorted before a node is taken, as a set.
Queue == {o \in DOMAIN work \ Placed : waiting[o] = {}}

\* Mutant: a parent that is mentioned twice is released once.
Place_ReleaseOnce ==
  /\ pc = "kahn"
  /\ \E o \in Queue :
       /\ \A q \in Queue : o <= q
       /\ order' = Append(order, o)
       /\ waiting' = [c \in DOMAIN work |->
                        waiting[c] \ {k \in DOMAIN Extends(c) :
                                        /\ Extends(c)[k] = o
                                        /\ \A l \in 1 .. k - 1 : Extends(c)[l] # o}]
  /\ UNCHANGED <<tree, pc, next, parent, work, index, result>>

\* One iteration of Kahn's loop: the least ID of the queue is placed, and its
\* children are released from it.
Place ==
  /\ pc = "kahn"
  /\ \E o \in Queue :
       /\ \A q \in Queue : o <= q
       /\ order' = Append(order, o)
       /\ waiting' = [c \in DOMAIN work |->
                        waiting[c] \ {k \in DOMAIN Extends(c) : Extends(c)[k] = o}]
  /\ UNCHANGED <<tree, pc, next, parent, work, index, result>>

\* The queue is empty: what was not placed is on a cycle or behind one.
FinishKahn ==
  /\ pc = "kahn"
  /\ Queue = {}
  /\ IF Len(order) # Cardinality(DOMAIN work)
       THEN Fail("cycle") /\ UNCHANGED <<next, parent>>
       ELSE pc' = "merge" /\ next' = 1 /\ parent' = 1 /\ UNCHANGED result
  /\ UNCHANGED <<tree, work, waiting, order, index>>

\* Mutant: the last parent that has a value wins.
MergeParentIntoChild_Override(child, from) ==
  work' = [work EXCEPT ![child].value =
             [f \in Fields |-> IF work[from].value[f] # None /\ f \notin tree[work[child].raw].fields
                                 THEN work[from].value[f] ELSE @[f]],
           ![child].scope = @ \cup work[from].scope]

\* mergeParentIntoChild: the parent fills the gaps, and the sets are joined.
MergeParentIntoChild(child, from) ==
  work' = [work EXCEPT ![child].value =
             [f \in Fields |-> IF @[f] = None THEN work[from].value[f] ELSE @[f]],
           ![child].scope = @ \cup work[from].scope]

\* The merge loop takes the objects in order, and the parents of each from left
\* to right.
Merge ==
  /\ pc = "merge"
  /\ next <= Len(order)
  /\ LET child == order[next]
     IN IF parent <= Len(Extends(child))
          THEN /\ MergeParentIntoChild(child, Extends(child)[parent])
               /\ parent' = parent + 1
               /\ UNCHANGED next
          ELSE /\ next' = next + 1
               /\ parent' = 1
               /\ UNCHANGED work
  /\ UNCHANGED <<tree, pc, waiting, order, index, result>>

FinishMerge ==
  /\ pc = "merge"
  /\ next > Len(order)
  /\ pc' = "paths"
  /\ UNCHANGED <<tree, next, parent, work, waiting, order, index, result>>

\* Step 4: every path is resolved from the file of the object that has it now.
\* It may lead out of the repository or to no file.
ResolvePaths ==
  /\ pc = "paths"
  /\ \/ /\ \E o \in DOMAIN work, f \in PathFields : work[o].value[f] # None
        /\ Fail("path")
        /\ UNCHANGED work
     \/ /\ work' = [o \in DOMAIN work |->
                      [work[o] EXCEPT !.base =
                         [f \in PathFields |-> IF work[o].value[f] # None THEN work[o].raw ELSE None]]]
        /\ pc' = "index"
        /\ UNCHANGED result
  /\ UNCHANGED <<tree, next, parent, waiting, order, index>>

\* Mutant: an object without scope paths is under no key.
BuildScopeIndex_NoRoot ==
  /\ pc = "index"
  /\ index' = [p \in ScopePaths \cup {Root} |-> {o \in DOMAIN work : p \in work[o].scope}]
  /\ pc' = "done"
  /\ result' = "ok"
  /\ UNCHANGED <<tree, next, parent, work, waiting, order>>

\* Step 5: buildScopeIndex.  An object without scope paths is under the root.
BuildScopeIndex ==
  /\ pc = "index"
  /\ index' = [p \in ScopePaths \cup {Root} |->
                 {o \in DOMAIN work : p \in work[o].scope \/ (p = Root /\ work[o].scope = {})}]
  /\ pc' = "done"
  /\ result' = "ok"
  /\ UNCHANGED <<tree, next, parent, work, waiting, order>>

Next ==
  \/ Copy
  \/ FinishCopy
  \/ NormalizeScopes
  \/ Link
  \/ Place
  \/ FinishKahn
  \/ Merge
  \/ FinishMerge
  \/ ResolvePaths
  \/ BuildScopeIndex

-----------------------------------------------------------------------------
Value == Position \cup {None}

NormalizedObject ==
  [raw   : Position,
   value : [Fields -> Value],
   base  : [PathFields -> Value],
   scope : SUBSET ScopePaths]

\* The working set and the tables hold known IDs only, and nothing is placed
\* twice.
TypeOK ==
  /\ tree \in Seq(RawObject)
  /\ pc \in {"copy", "scope", "link", "kahn", "merge", "paths", "index", "done", "failed"}
  /\ next \in 1 .. Len(tree) + 1
  /\ parent \in Nat \ {0}
  /\ DOMAIN work \subseteq IDs
  /\ \A o \in DOMAIN work : work[o] \in NormalizedObject
  /\ \A o \in DOMAIN waiting : waiting[o] \subseteq DOMAIN Extends(o)
  /\ Placed \subseteq DOMAIN work
  /\ Len(order) = Cardinality(Placed)
  /\ \A p \in DOMAIN index : index[p] \subseteq DOMAIN work
  /\ result \in {"running", "ok", "scope", "missing", "cycle", "path"}

\* The reference: what the tree alone says, without a working set or an order.
LastRaw(o) ==
  CHOOSE i \in Position :
    /\ tree[i].id = o
    /\ \A j \in Position : tree[j].id = o => j <= i

Parents(o) == tree[LastRaw(o)].extends

ParentSet(o) == {Parents(o)[k] : k \in DOMAIN Parents(o)}

Closed(S) == \A p \in S : ParentSet(p) \cap IDs \subseteq S

\* The objects that are reached from o: those in every closed set with its parents.
Ancestors(o) ==
  {a \in IDs : \A S \in SUBSET IDs : ParentSet(o) \cap IDs \subseteq S /\ Closed(S) => a \in S}

IsCyclic == \E o \in IDs : o \in Ancestors(o)

IsDangling == \E o \in IDs : ~ (ParentSet(o) \subseteq IDs)

Leftmost(K) == CHOOSE k \in K : \A l \in K : k <= l

\* Where an object's value of f comes from, if the others have theirs from where
\* "from" says: from itself, or else from the leftmost of its parents that has one.
TakenFrom(from, f, o) ==
  LET having == {k \in DOMAIN Parents(o) : from[Parents(o)[k]] # None}
  IN CASE f \in tree[LastRaw(o)].fields -> LastRaw(o)
       [] f \notin tree[LastRaw(o)].fields /\ having = {} -> None
       [] OTHER -> from[Parents(o)[Leftmost(having)]]

\* If nothing is dangling or cyclic, that determines it for all of them.
Effective(f) == LET from[o \in IDs] == TakenFrom(from, f, o) IN from

Complete == IF pc = "merge" THEN {order[i] : i \in 1 .. next - 1} ELSE DOMAIN work

\* "Extends" is inherited through any number of generations, from the leftmost
\* parent that has the value, and an object the merge loop has left behind is
\* final: its parents were complete when it took from them.  No order of the
\* merge and no duplicate ID makes a difference to that.
InheritsFromTheFirst ==
  pc \in {"merge", "paths", "index", "done"} =>
    \A f \in Fields, o \in Complete : work[o].value[f] = Effective(f)[o]

\* The scope index lists an object under the paths that it or anything it
\* inherits from is scoped to, and under the repository root exactly if there
\* is no such path: an object that is in scope everywhere on its own is not
\* once it extends a scoped one.
IndexedWhereInScope ==
  pc = "done" =>
    \A o \in IDs :
      LET scope == UNION {tree[LastRaw(a)].scope : a \in {o} \cup Ancestors(o)}
      IN {p \in DOMAIN index : o \in index[p]} = IF scope = {} THEN {Root} ELSE scope

\* The graph is refused for the cause that is named, and one that extends in a
\* circle or extends what there is not is refused, a parent being mentioned
\* twice or an object replaced by a later one notwithstanding.
RefusedForCause ==
  /\ result = "missing" => IsDangling
  /\ result = "cycle" => IsCyclic /\ ~ IsDangling
  /\ pc \in {"merge", "paths", "index", "done"} => ~ IsCyclic /\ ~ IsDangling
=============================================================================
