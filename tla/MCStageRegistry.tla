-------------------------- MODULE MCStageRegistry --------------------------
(***************************************************************************)
(* Three stage names with two priorities and at most one constraint each,  *)
(* which includes constraints on themselves, on one another in both lists, *)
(* and on a stage of another phase; plus descriptors Register must refuse. *)
(***************************************************************************)
EXTENDS StageRegistry

MCPhases == {1, 2}

Names == {1, 2, 3}

Constrained(name, order, before, after) ==
  [name |-> name, phase |-> 1, order |-> order, before |-> before, after |-> after]

OneConstraint ==
  {Constrained(n, o, {}, {}) : n \in Names, o \in {5, 7}}
    \cup {Constrained(n, 5, {m}, {}) : n \in Names, m \in Names}
    \cup {Constrained(n, 7, {}, {m}) : n \in Names, m \in Names}
    \cup {Constrained(n, 7, {1}, {3}) : n \in {2}}

OtherPhase == {[name |-> 3, phase |-> 2, order |-> 5, before |-> {1}, after |-> {}]}

Invalid ==
  {[name |-> EmptyName, phase |-> 1, order |-> 5, before |-> {}, after |-> {}],
   [name |-> 1, phase |-> 3, order |-> 5, before |-> {}, after |-> {}]}

MCCandidates == OneConstraint \cup OtherPhase \cup Invalid
=============================================================================
