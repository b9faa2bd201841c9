--------------------------- MODULE StageRegistry ---------------------------
(***************************************************************************)
(* The stage registry of the compiler                                      *)
(* (internal/application/compiler/registry.go): stages are registered in   *)
(* any order, and StagesForPhase returns those of one phase ordered by     *)
(* priority and by their Before/After constraints, with Kahn's algorithm.  *)
(*                                                                         *)
(* A stage is its descriptor.  Names are natural numbers: the code only    *)
(* compares names, and 0 stands for the empty string.  The code works on   *)
(* indices into the slice it sorted by (Order, Name); an index is nothing  *)
(* but the rank of a stage in that total order, so the model keeps the     *)
(* stages themselves and compares them with Precedes.                      *)
(***************************************************************************)
EXTENDS Integers, Sequences, FiniteSets

CONSTANTS
  Phases,      \* the phases of the pipeline
  Candidates   \* the stages a caller may try to register

EmptyName == 0

\* A descriptor, pipeline.StageDescriptor.  TargetFilter is left out: neither
\* the registry nor the pipeline reads it.
Descriptor == [name   : Nat,
               phase  : Int,
               order  : Int,
               before : SUBSET Nat,
               after  : SUBSET Nat]

ASSUME CandidatesAssumption == Candidates \subseteq Descriptor

VARIABLES
  stages,    \* r.stages, in registration order
  pc,        \* "open": no sort yet; "kahn": sorting; "sorted" or "cycle": returned
  nodes,     \* the stages of the requested phase
  waiting,   \* waiting[n]: the constraint edges inDegree[n] still counts
  queue,     \* the ready stages, in the order they will be taken
  result     \* the stages placed so far, and the answer once pc = "sorted"

vars == <<stages, pc, nodes, waiting, queue, result>>

-----------------------------------------------------------------------------
(***************************************************************************)
(* Registration                                                            *)
(***************************************************************************)

\* StageDescriptor.Validate.
Validate(c) == c.name # EmptyName /\ c.phase \in Phases

Registered(name) == \E i \in DOMAIN stages : stages[i].name = name

Init ==
  /\ stages = <<>>
  /\ pc = "open"
  /\ nodes = {}
  /\ waiting = <<>>
  /\ queue = <<>>
  /\ result = <<>>

\* WithStage calls Register and ignores its error: an invalid descriptor and a
\* name that is registered already leave no trace.
Register(c) ==
  /\ pc = "open"
  /\ Validate(c)
  /\ ~ Registered(c.name)
  /\ stages' = Append(stages, c)
  /\ UNCHANGED <<pc, nodes, waiting, queue, result>>

-----------------------------------------------------------------------------
(***************************************************************************)
(* Ordering                                                                *)
(***************************************************************************)

\* The comparison of sort.Slice: by Order, then by Name.
Precedes(a, b) ==
  \/ a.order < b.order
  \/ a.order = b.order /\ a.name < b.name

\* Mutant: the After lists are not read.
Edges_BeforeOnly(N) ==
  {e \in N \X N \X {"before"} : e[2].name \in e[1].before}

\* The edges of the constraint graph over N.  An edge is tagged with the list
\* it comes from: m.before naming n and n.after naming m are two edges, and
\* inDegree[n] counts both.  Names that are not in N are ignored.
Edges(N) ==
  {e \in N \X N \X {"before", "after"} :
     \/ e[3] = "before" /\ e[2].name \in e[1].before
     \/ e[3] = "after" /\ e[1].name \in e[2].after}

EdgesInto(N, n) == {e \in Edges(N) : e[2] = n}

\* Mutant: a batch is not sorted.
SortedSeqs_Unsorted(S) ==
  {q \in [1 .. Cardinality(S) -> S] : \A s \in S : \E i \in DOMAIN q : q[i] = s}

\* The sequences that list S exactly once in the order of Precedes; there is
\* exactly one when the names of S differ.
SortedSeqs(S) ==
  {q \in [1 .. Cardinality(S) -> S] :
     /\ \A i, j \in DOMAIN q : i < j => Precedes(q[i], q[j])
     /\ \A s \in S : \E i \in DOMAIN q : q[i] = s}

\* StagesForPhase(p) up to the loop of Kahn's algorithm: the edges are counted
\* and the stages without one are queued in priority order.  At most one stage
\* is returned as it is, without looking at its constraints.
StagesForPhase(p) ==
  /\ pc # "kahn"
  /\ nodes' = {stages[i] : i \in {j \in DOMAIN stages : stages[j].phase = p}}
  /\ waiting' = [n \in nodes' |-> EdgesInto(nodes', n)]
  /\ IF Cardinality(nodes') <= 1
       THEN /\ pc' = "sorted"
            /\ queue' = <<>>
            /\ result' \in SortedSeqs(nodes')
       ELSE /\ pc' = "kahn"
            /\ queue' \in SortedSeqs({n \in nodes' : EdgesInto(nodes', n) = {}})
            /\ result' = <<>>
  /\ UNCHANGED stages

\* Mutant: a pair that is constrained on both sides is counted twice and
\* released once.
Place_ReleaseOnce ==
  /\ pc = "kahn"
  /\ queue # <<>>
  /\ LET curr     == Head(queue)
         Both(n)  == Cardinality({e \in waiting[n] : e[1] = curr}) = 2
         left     == [n \in nodes |->
                        {e \in waiting[n] :
                           e[1] # curr \/ (Both(n) /\ e[3] = "after")}]
         released == {n \in nodes : waiting[n] # {} /\ left[n] = {}}
     IN /\ waiting' = left
        /\ \E nextBatch \in SortedSeqs(released) : queue' = Tail(queue) \o nextBatch
        /\ result' = Append(result, curr)
  /\ UNCHANGED <<stages, pc, nodes>>

\* One iteration of the loop: place the head of the queue, drop its outgoing
\* edges, and append the stages this releases, sorted among themselves.
Place ==
  /\ pc = "kahn"
  /\ queue # <<>>
  /\ LET curr     == Head(queue)
         left     == [n \in nodes |-> {e \in waiting[n] : e[1] # curr}]
         released == {n \in nodes : waiting[n] # {} /\ left[n] = {}}
     IN /\ waiting' = left
        /\ \E nextBatch \in SortedSeqs(released) : queue' = Tail(queue) \o nextBatch
        /\ result' = Append(result, curr)
  /\ UNCHANGED <<stages, pc, nodes>>

\* Mutant: whatever was placed is returned.
Return_Partial ==
  /\ pc = "kahn"
  /\ queue = <<>>
  /\ pc' = "sorted"
  /\ UNCHANGED <<stages, nodes, waiting, queue, result>>

\* The queue is empty: the order is complete, or what is left is on a cycle.
Return ==
  /\ pc = "kahn"
  /\ queue = <<>>
  /\ IF Len(result) # Cardinality(nodes)
       THEN pc' = "cycle" /\ result' = <<>>
       ELSE pc' = "sorted" /\ UNCHANGED result
  /\ UNCHANGED <<stages, nodes, waiting, queue>>

Next ==
  \/ \E c \in Candidates : Register(c)
  \/ \E p \in Phases : StagesForPhase(p)
  \/ Place
  \/ Return

Spec == Init /\ [][Next]_vars

-----------------------------------------------------------------------------
(***************************************************************************)
(* Properties                                                              *)
(***************************************************************************)

\* The variables have their types; only valid stages are in the registry, no
\* two with one name, and the queue and the result hold stages of the phase.
TypeOK ==
  /\ stages \in Seq({c \in Candidates : Validate(c)})
  /\ \A i, j \in DOMAIN stages : stages[i].name = stages[j].name => i = j
  /\ pc \in {"open", "kahn", "sorted", "cycle"}
  /\ nodes \subseteq Candidates
  /\ waiting \in [nodes -> SUBSET (nodes \X nodes \X {"before", "after"})]
  /\ queue \in Seq(nodes)
  /\ result \in Seq(nodes)

\* n must run after m: one of the two says so.
MustPrecede(m, n) == n.name \in m.before \/ m.name \in n.after

\* sortStages, "topological sorting": in the order returned, a stage comes
\* after every stage of the phase it must run after.
RespectsConstraints ==
  pc = "sorted" /\ Cardinality(nodes) > 1 =>
    \A i, j \in DOMAIN result : MustPrecede(result[i], result[j]) => i < j

\* The order returned lists every stage of the phase exactly once: Kahn's
\* queue neither drops a stage nor takes one twice, whatever edges repeat.
ListsEveryStageOnce ==
  pc = "sorted" =>
    /\ \A n \in nodes : \E i \in DOMAIN result : result[i] = n
    /\ \A i, j \in DOMAIN result : result[i] = result[j] => i = j

\* N has a cycle of constraints: a nonempty part of it in which every stage
\* must run after another stage of that part.
Cyclic(N) ==
  \E S \in SUBSET N : S # {} /\ \A n \in S : \E m \in S : MustPrecede(m, n)

Placed == {result[i] : i \in DOMAIN result}
Queued == {queue[i] : i \in DOMAIN queue}

Distinct(s) == \A i, j \in DOMAIN s : s[i] = s[j] => i = j

\* What the loop of sortStages maintains: a stage waits for exactly the edges
\* from stages not placed yet, it is queued as soon as none is left and never
\* again, and whatever a placed stage must run after was placed before it.
KahnInvariant ==
  pc = "kahn" =>
    /\ \A n \in nodes : waiting[n] = {e \in EdgesInto(nodes, n) : e[1] \notin Placed}
    /\ \A n \in nodes : waiting[n] = {} <=> n \in Placed \cup Queued
    /\ Placed \cap Queued = {}
    /\ Distinct(result)
    /\ Distinct(queue)
    /\ \A i \in DOMAIN result : \A m \in nodes :
         MustPrecede(m, result[i]) => \E j \in 1 .. i - 1 : result[j] = m

\* An error is returned only if the constraints really form a cycle.
CycleIsReal == pc = "cycle" => Cyclic(nodes)

\* Two or more stages are never returned in an order if their constraints form
\* a cycle.
CycleIsReported ==
  pc = "sorted" /\ Cardinality(nodes) > 1 => ~ Cyclic(nodes)

\* descriptor.go: "Stages with equal order are sorted by name for determinism".
\* Without constraints the order is the priority order, so it does not depend
\* on the order in which the stages were registered.
UnconstrainedIsPriorityOrder ==
  pc = "sorted" /\ (\A m, n \in nodes : ~ MustPrecede(m, n)) =>
    \A i, j \in DOMAIN result : i < j => Precedes(result[i], result[j])
=============================================================================
