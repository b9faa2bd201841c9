--------------------------- MODULE FrontEndProofs ---------------------------
(***************************************************************************)
(* Proofs about the normalizer as it runs behind the parser, the validator *)
(* and the resolver, for every set of projects.                            *)
(*                                                                         *)
(* The inductive invariant is IInv: the type invariant, what the copying   *)
(* loop, Kahn's loop and the merge loop maintain, and what holds of the    *)
(* answer.  Until the normalizer starts its state is the initial one.      *)
(* EarlyInv is about the stages in front of it: what the parser has of the *)
(* files read so far, what the validator has said of the objects seen so   *)
(* far, and what the resolver added to a tree that was let pass.  Last,    *)
(* that all their loops come to an end.                                    *)
(***************************************************************************)
EXTENDS FrontEnd, FiniteSetTheorems, WellFoundedInduction, TLAPS

Count == IF pc = "copy" THEN next - 1 ELSE Len(tree)

\* i is the last of the first n objects that has its ID.
IsLast(i, n) == i \in 1 .. n /\ \A j \in 1 .. n : tree[j].id = tree[i].id => j <= i

CopyInv ==
  /\ DOMAIN work = {tree[i].id : i \in 1 .. Count}
  /\ \A o \in DOMAIN work :
       /\ work[o] \in NormalizedObject
       /\ tree[work[o].raw].id = o
       /\ IsLast(work[o].raw, Count)

Merging == pc \in {"merge", "paths", "index", "done"}

\* Objects are listed once, and each after its parents.
ParentsFirst(seq) ==
  /\ \A i, j \in DOMAIN seq : seq[i] = seq[j] => i = j
  /\ \A i \in DOMAIN seq : \A k \in DOMAIN Parents(seq[i]) :
       \E j \in 1 .. i - 1 : seq[j] = Parents(seq[i])[k]

KahnInv ==
  /\ pc \in {"copy", "scope", "link"} => waiting = <<>> /\ order = <<>>
  /\ DOMAIN waiting \subseteq DOMAIN work
  /\ order \in Seq(DOMAIN work)
  /\ ParentsFirst(order)
  /\ pc = "kahn" =>
       /\ ~ IsDangling
       /\ DOMAIN waiting = IDs
       /\ \A o \in IDs : waiting[o] = {k \in DOMAIN Parents(o) : Parents(o)[k] \notin Placed}
  /\ Merging => ~ IsDangling /\ Placed = IDs

FamilyScope(o) == UNION {tree[LastRaw(a)].scope : a \in {o} \cup Ancestors(o)}

\* What o has taken from the first n of its parents.
Taken(f, o, n) ==
  LET having == {k \in 1 .. n : Effective(f)[Parents(o)[k]] # None}
  IN CASE f \in tree[LastRaw(o)].fields -> LastRaw(o)
       [] f \notin tree[LastRaw(o)].fields /\ having = {} -> None
       [] OTHER -> Effective(f)[Parents(o)[Leftmost(having)]]

Merged(o, n) ==
  /\ \A f \in Fields : work[o].value[f] = Taken(f, o, n)
  /\ work[o].scope = tree[LastRaw(o)].scope \cup UNION {FamilyScope(Parents(o)[k]) : k \in 1 .. n}

Own(o) ==
  /\ \A f \in Fields : work[o].value[f] = IF f \in tree[work[o].raw].fields THEN work[o].raw ELSE None
  /\ work[o].scope = tree[work[o].raw].scope

ParentsTaken(i) ==
  CASE pc # "merge" \/ i < next -> Len(Parents(order[i]))
    [] pc = "merge" /\ i = next -> parent - 1
    [] OTHER -> 0

MergeInv ==
  /\ pc \in {"copy", "scope", "link", "kahn"} => \A o \in DOMAIN work : Own(o)
  /\ Merging => \A i \in DOMAIN order : Merged(order[i], ParentsTaken(i))
  /\ pc = "merge" => next <= Len(order) + 1
  /\ pc = "merge" /\ next <= Len(order) => parent <= Len(Parents(order[next])) + 1

AnswerInv ==
  /\ pc \notin {"done", "failed"} => result = "running"
  /\ pc = "done" => result = "ok"
  /\ result = "missing" => IsDangling
  /\ result = "cycle" => IsCyclic /\ ~ IsDangling
  /\ pc # "done" => index = <<>>
  /\ pc = "done" =>
       index = [p \in ScopePaths \cup {Root} |->
                 {o \in DOMAIN work : p \in work[o].scope \/ (p = Root /\ work[o].scope = {})}]

IInv == TypeOK /\ CopyInv /\ KahnInv /\ MergeInv /\ AnswerInv


\* While another stage runs the normalizer has not begun.
FIInv ==
  /\ tree \in Seq(RawObject)
  /\ input \in Input
  /\ at \in Nat \ {0}
  /\ phase # "normalize" => Init
  /\ IInv

-----------------------------------------------------------------------------
(***************************************************************************)
(* Numbers                                                                 *)
(***************************************************************************)

\* A nonempty set of numbers has a least element.
LEMMA Least ==
  ASSUME NEW I \in SUBSET Nat, I # {}
  PROVE  \E i \in I : \A j \in I : i <= j
<1>1. IsWellFoundedOn(OpToRel(<, Nat), Nat)
  BY NatLessThanWellFounded
<1>2. PICK i \in I : \A j \in I : ~ (<<j, i>> \in OpToRel(<, Nat))
  BY <1>1, WFMin, Zenon
<1>3. \A j \in I : j < i => <<j, i>> \in OpToRel(<, Nat)
  BY Zenon DEF OpToRel
<1>4. \A j \in I : ~ (j < i)
  BY <1>2, <1>3, Zenon
<1>5. \A j \in I : i <= j
  BY <1>4
<1> QED BY <1>5

\* And one that is bounded a greatest.
LEMMA Greatest ==
  ASSUME NEW n \in Nat, NEW I \in SUBSET (1 .. n), I # {}
  PROVE  \E i \in I : \A j \in I : j <= i
<1> DEFINE J == {n - i : i \in I}
<1>1. J \in SUBSET Nat /\ J # {}
  <2>1. \A i \in I : i \in 1 .. n /\ n - i \in Nat
    OBVIOUS
  <2> QED BY <2>1
<1>2. PICK m \in J : \A k \in J : m <= k
  <2> HIDE DEF J
  <2> QED BY <1>1, Least
<1>3. PICK i \in I : m = n - i
  BY <1>2
<1>4. ASSUME NEW j \in I PROVE j <= i
  <2>1. n - i <= n - j
    BY <1>2, <1>3
  <2> QED BY <2>1
<1> QED BY <1>4

-----------------------------------------------------------------------------
(***************************************************************************)
(* The objects of a tree                                                   *)
(***************************************************************************)

\* The last object that has an ID, the one that counts, is well defined.
LEMMA LastRawIsLast ==
  ASSUME tree \in Seq(RawObject), NEW o \in IDs
  PROVE  /\ LastRaw(o) \in Position
         /\ tree[LastRaw(o)].id = o
         /\ \A j \in Position : tree[j].id = o => j <= LastRaw(o)
<1> DEFINE I == {i \in Position : tree[i].id = o}
<1>1. Position = 1 .. Len(tree) /\ Len(tree) \in Nat
  BY DEF Position
<1>2. I \in SUBSET (1 .. Len(tree)) /\ I # {}
  BY <1>1 DEF IDs
<1>3. \E i \in I : \A j \in I : j <= i
  <2> HIDE DEF I
  <2> QED BY <1>1, <1>2, Greatest
<1>4. \E i \in Position : tree[i].id = o /\ \A j \in Position : tree[j].id = o => j <= i
  BY <1>3
<1> QED BY <1>4 DEF LastRaw

LEMMA LastIsLastRaw ==
  ASSUME tree \in Seq(RawObject), NEW i, IsLast(i, Len(tree))
  PROVE  tree[i].id \in IDs /\ i = LastRaw(tree[i].id)
<1>1. Position = 1 .. Len(tree) /\ Len(tree) \in Nat
  BY DEF Position
<1>2. i \in Position /\ tree[i].id \in IDs
  BY <1>1 DEF IsLast, IDs
<1> DEFINE l == LastRaw(tree[i].id)
<1>3. l \in Position /\ tree[l].id = tree[i].id /\ i <= l
  BY <1>2, LastRawIsLast
<1>4. l <= i
  BY <1>1, <1>3 DEF IsLast
<1> QED BY <1>1, <1>2, <1>3, <1>4

LEMMA ObjectType ==
  ASSUME tree \in Seq(RawObject), NEW o \in IDs
  PROVE  /\ tree[LastRaw(o)] \in RawObject
         /\ Parents(o) \in Seq(Nat)
         /\ Len(Parents(o)) \in Nat
         /\ DOMAIN Parents(o) = 1 .. Len(Parents(o))
         /\ \A k \in DOMAIN Parents(o) : Parents(o)[k] \in Nat
         /\ ~ IsDangling => \A k \in DOMAIN Parents(o) : Parents(o)[k] \in IDs
<1>1. tree[LastRaw(o)] \in RawObject
  BY LastRawIsLast DEF Position
<1>2. Parents(o) \in Seq(Nat)
  BY <1>1 DEF Parents, RawObject
<1>3. ~ IsDangling => \A k \in DOMAIN Parents(o) : Parents(o)[k] \in IDs
  BY DEF IsDangling, ParentSet
<1> QED BY <1>1, <1>2, <1>3

LEMMA IDsAreFinite ==
  ASSUME tree \in Seq(RawObject)
  PROVE  /\ IsFiniteSet(IDs)
         /\ IDs \subseteq Nat
         /\ Cardinality(IDs) \in Nat
         /\ Cardinality(IDs) <= Len(tree)
<1>1. Position = 1 .. Len(tree) /\ Len(tree) \in Nat
  BY DEF Position
<1>2. IsFiniteSet(Position) /\ Cardinality(Position) = Len(tree)
  <2>1. IsFiniteSet(1 .. Len(tree)) /\ Cardinality(1 .. Len(tree)) = IF 1 > Len(tree) THEN 0 ELSE Len(tree) - 1 + 1
    <3>1. 1 \in Int /\ Len(tree) \in Int BY <1>1
    <3> QED BY <3>1, FS_Interval
  <2> QED BY <1>1, <2>1
<1> DEFINE f == [i \in Position |-> tree[i].id]
<1>3. f \in Surjection(Position, IDs)
  BY DEF Surjection, IDs
<1>4. IsFiniteSet(IDs) /\ Cardinality(IDs) <= Cardinality(Position)
  BY <1>2, <1>3, FS_Surjection
<1>5. IDs \subseteq Nat
  <2>1. \A i \in Position : tree[i] \in RawObject BY DEF Position
  <2> QED BY <2>1 DEF IDs, RawObject
<1> QED BY <1>2, <1>4, <1>5, FS_CardinalityType
-----------------------------------------------------------------------------
(***************************************************************************)
(* The graph of an inheritance                                             *)
(***************************************************************************)

\* The ancestors are closed and hold the parents, and are the least such set.
LEMMA AncestorsLeast ==
  ASSUME NEW o \in IDs
  PROVE  /\ Ancestors(o) \subseteq IDs
         /\ ParentSet(o) \cap IDs \subseteq Ancestors(o)
         /\ Closed(Ancestors(o))
         /\ \A S \in SUBSET IDs : ParentSet(o) \cap IDs \subseteq S /\ Closed(S) => Ancestors(o) \subseteq S
<1>1. Ancestors(o) \subseteq IDs /\ ParentSet(o) \cap IDs \subseteq Ancestors(o)
  BY DEF Ancestors
<1>2. \A S \in SUBSET IDs : ParentSet(o) \cap IDs \subseteq S /\ Closed(S) => Ancestors(o) \subseteq S
  BY DEF Ancestors
<1>3. ASSUME NEW p \in Ancestors(o), NEW q \in ParentSet(p) \cap IDs
      PROVE  q \in Ancestors(o)
  <2>1. ASSUME NEW S \in SUBSET IDs, ParentSet(o) \cap IDs \subseteq S, Closed(S)
        PROVE  q \in S
    <3>1. p \in S BY <1>2, <2>1
    <3> QED BY <2>1, <3>1 DEF Closed
  <2> QED BY <2>1 DEF Ancestors
<1>4. Closed(Ancestors(o))
  BY <1>3 DEF Closed
<1> QED BY <1>1, <1>2, <1>4

\* An ancestor is a parent, or an ancestor of one.
LEMMA AncestorsOfParents ==
  ASSUME NEW o \in IDs
  PROVE  Ancestors(o) = (ParentSet(o) \cap IDs) \cup UNION {Ancestors(p) : p \in ParentSet(o) \cap IDs}
<1> DEFINE U == UNION {Ancestors(p) : p \in ParentSet(o) \cap IDs}
           R == (ParentSet(o) \cap IDs) \cup U
<1>1. \A p \in ParentSet(o) \cap IDs :
        /\ Ancestors(p) \subseteq IDs /\ ParentSet(p) \cap IDs \subseteq Ancestors(p)
        /\ Closed(Ancestors(p)) /\ Ancestors(p) \subseteq Ancestors(o)
  <2> SUFFICES ASSUME NEW p \in ParentSet(o) \cap IDs
               PROVE  /\ Ancestors(p) \subseteq IDs /\ ParentSet(p) \cap IDs \subseteq Ancestors(p)
                      /\ Closed(Ancestors(p)) /\ Ancestors(p) \subseteq Ancestors(o)
    OBVIOUS
  <2>1. ParentSet(p) \cap IDs \subseteq Ancestors(o)
    BY AncestorsLeast DEF Closed
  <2>2. Ancestors(o) \in SUBSET IDs /\ Closed(Ancestors(o))
    BY AncestorsLeast
  <2>3. Ancestors(p) \subseteq Ancestors(o)
    BY <2>1, <2>2, AncestorsLeast
  <2> QED BY <2>3, AncestorsLeast
<1>2. U \subseteq IDs /\ R \subseteq IDs
  BY <1>1
<1>3. ASSUME NEW p \in R, NEW q \in ParentSet(p) \cap IDs PROVE q \in R
  <2>1. CASE p \in ParentSet(o) \cap IDs
    <3>1. q \in Ancestors(p) BY <1>1, <2>1
    <3> QED BY <2>1, <3>1
  <2>2. CASE p \in U
    <3>1. PICK r \in ParentSet(o) \cap IDs : p \in Ancestors(r) BY <2>2
    <3>2. q \in Ancestors(r) BY <1>1, <3>1 DEF Closed
    <3> QED BY <3>2
  <2> QED BY <1>3, <2>1, <2>2
<1>4. Closed(R)
  BY <1>3 DEF Closed
<1>5. Ancestors(o) \subseteq R
  <2> HIDE DEF U
  <2> QED BY <1>2, <1>4, AncestorsLeast
<1>6. R \subseteq Ancestors(o)
  <2>1. U \subseteq Ancestors(o) BY <1>1
  <2> QED BY <2>1, AncestorsLeast
<1> QED BY <1>5, <1>6

\* Where each of a set of objects has a parent in the set, there is a cycle:
\* otherwise the parent of one with fewest ancestors has fewer.
LEMMA LeftoverIsCyclic ==
  ASSUME tree \in Seq(RawObject), NEW S \in SUBSET IDs, S # {},
         \A o \in S : ParentSet(o) \cap S # {}
  PROVE  IsCyclic
<1> SUFFICES ASSUME ~ IsCyclic PROVE FALSE
  OBVIOUS
<1>1. \A o \in IDs : o \notin Ancestors(o)
  BY DEF IsCyclic
<1>2. \A o \in S : /\ Ancestors(o) \subseteq IDs
                   /\ IsFiniteSet(Ancestors(o))
                   /\ Cardinality(Ancestors(o)) \in Nat
  BY AncestorsLeast, IDsAreFinite, FS_Subset, FS_CardinalityType
<1> DEFINE C == {Cardinality(Ancestors(o)) : o \in S}
<1>3. C \in SUBSET Nat /\ C # {}
  BY <1>2
<1>4. PICK c \in C : \A d \in C : c <= d
  <2> HIDE DEF C
  <2> QED BY <1>3, Least
<1>5. PICK o \in S : c = Cardinality(Ancestors(o))
  OBVIOUS
<1>6. PICK p \in ParentSet(o) : p \in S
  OBVIOUS
<1>7. Ancestors(p) \subseteq Ancestors(o) /\ p \in Ancestors(o) /\ p \notin Ancestors(p)
  BY <1>1, <1>6, AncestorsOfParents
<1>8. /\ Cardinality(Ancestors(p)) <= Cardinality(Ancestors(o))
      /\ Cardinality(Ancestors(p)) # Cardinality(Ancestors(o))
  BY <1>2, <1>7, FS_Subset
<1>9. Cardinality(Ancestors(o)) <= Cardinality(Ancestors(p))
  BY <1>4, <1>5, <1>6
<1> QED BY <1>2, <1>6, <1>8, <1>9

\* If all objects are listed, each after its parents, there is no cycle.
LEMMA ListedIsAcyclic ==
  ASSUME NEW seq \in Seq(IDs), ParentsFirst(seq), {seq[i] : i \in DOMAIN seq} = IDs
  PROVE  ~ IsCyclic
<1>1. DOMAIN seq = 1 .. Len(seq) /\ Len(seq) \in Nat /\ \A i \in DOMAIN seq : seq[i] \in IDs
  OBVIOUS
<1> SUFFICES ASSUME NEW o \in IDs PROVE o \notin Ancestors(o)
  BY DEF IsCyclic
<1>2. PICK i \in DOMAIN seq : seq[i] = o
  OBVIOUS
<1> DEFINE S == {seq[j] : j \in 1 .. i - 1}
<1>3. S \subseteq IDs
  BY <1>1
<1>4. \A n \in DOMAIN seq : n <= i => ParentSet(seq[n]) \subseteq S
  <2> SUFFICES ASSUME NEW n \in DOMAIN seq, n <= i, NEW k \in DOMAIN Parents(seq[n])
               PROVE  Parents(seq[n])[k] \in S
    BY DEF ParentSet
  <2>1. PICK j \in 1 .. n - 1 : seq[j] = Parents(seq[n])[k]
    BY DEF ParentsFirst
  <2>2. j \in 1 .. i - 1 BY <1>1
  <2> QED BY <2>1, <2>2
<1>5. Closed(S)
  <2>1. ASSUME NEW p \in S PROVE ParentSet(p) \subseteq S
    <3>1. PICK j \in 1 .. i - 1 : p = seq[j] OBVIOUS
    <3>2. j \in DOMAIN seq /\ j <= i BY <1>1
    <3> QED BY <1>4, <3>1, <3>2
  <2> QED BY <2>1 DEF Closed
<1>6. Ancestors(o) \subseteq S
  <2>1. ParentSet(o) \subseteq S BY <1>1, <1>2, <1>4
  <2> HIDE DEF S
  <2> QED BY <1>3, <1>5, <2>1, AncestorsLeast
<1>7. o \notin S
  <2> SUFFICES ASSUME NEW j \in 1 .. i - 1, o = seq[j] PROVE FALSE
    OBVIOUS
  <2>1. j \in DOMAIN seq /\ j # i BY <1>1
  <2> QED BY <1>2, <2>1 DEF ParentsFirst
<1> QED BY <1>6, <1>7

-----------------------------------------------------------------------------
(***************************************************************************)
(* What is inherited                                                       *)
(***************************************************************************)

LEMMA LeftmostIsLeast ==
  ASSUME NEW K \in SUBSET Nat, K # {}
  PROVE  Leftmost(K) \in K /\ \A l \in K : Leftmost(K) <= l
<1>1. \E k \in K : \A l \in K : k <= l
  BY Least
<1> QED BY <1>1 DEF Leftmost

\* An object and its ancestors: itself, and each parent with its own.
LEMMA FamilyScopeOfParents ==
  ASSUME NEW o \in IDs, ~ IsDangling
  PROVE  FamilyScope(o) = tree[LastRaw(o)].scope \cup UNION {FamilyScope(Parents(o)[k]) : k \in DOMAIN Parents(o)}
<1>1. ParentSet(o) \subseteq IDs
  BY DEF IsDangling
<1>2. Ancestors(o) = ParentSet(o) \cup UNION {Ancestors(p) : p \in ParentSet(o)}
  BY <1>1, AncestorsOfParents
<1>3. UNION {FamilyScope(Parents(o)[k]) : k \in DOMAIN Parents(o)} = UNION {FamilyScope(p) : p \in ParentSet(o)}
  BY DEF ParentSet
<1>4. UNION {FamilyScope(p) : p \in ParentSet(o)} = UNION {tree[LastRaw(a)].scope : a \in Ancestors(o)}
  BY <1>2 DEF FamilyScope
<1> QED BY <1>3, <1>4 DEF FamilyScope

\* What an object takes depends on what its parents have.
LEMMA TakenFromParents ==
  ASSUME NEW from, NEW other, NEW f, NEW o,
         \A k \in DOMAIN Parents(o) : from[Parents(o)[k]] = other[Parents(o)[k]],
         DOMAIN Parents(o) \subseteq Nat
  PROVE  TakenFrom(from, f, o) = TakenFrom(other, f, o)
<1> DEFINE H == {k \in DOMAIN Parents(o) : from[Parents(o)[k]] # None}
           G == {k \in DOMAIN Parents(o) : other[Parents(o)[k]] # None}
<1>1. H = G
  OBVIOUS
<1>2. H # {} => Leftmost(H) \in DOMAIN Parents(o)
  BY LeftmostIsLeast
<1>3. H # {} => from[Parents(o)[Leftmost(H)]] = other[Parents(o)[Leftmost(G)]]
  <2> HIDE DEF H, G
  <2> QED BY <1>1, <1>2
<1>4. CASE f \in tree[LastRaw(o)].fields
  BY <1>4 DEF TakenFrom
<1>5. CASE f \notin tree[LastRaw(o)].fields /\ H = {}
  BY <1>1, <1>5 DEF TakenFrom
<1>6. CASE f \notin tree[LastRaw(o)].fields /\ H # {}
  <2>1. TakenFrom(from, f, o) = from[Parents(o)[Leftmost(H)]] BY <1>6 DEF TakenFrom
  <2>2. TakenFrom(other, f, o) = other[Parents(o)[Leftmost(G)]] BY <1>1, <1>6 DEF TakenFrom
  <2> HIDE DEF H, G
  <2> QED BY <1>3, <1>6, <2>1, <2>2
<1> QED BY <1>4, <1>5, <1>6

\* Where each object is listed after its parents, the recursion of Effective has a
\* solution: one for the first n + 1 objects comes from one for the first n.
LEMMA EffectiveEquation ==
  ASSUME tree \in Seq(RawObject), NEW seq \in Seq(IDs), ParentsFirst(seq),
         {seq[i] : i \in DOMAIN seq} = IDs, ~ IsDangling, NEW f
  PROVE  Effective(f) = [o \in IDs |-> TakenFrom(Effective(f), f, o)]
<1>1. DOMAIN seq = 1 .. Len(seq) /\ Len(seq) \in Nat /\ \A i \in DOMAIN seq : seq[i] \in IDs
  OBVIOUS
<1> DEFINE Solves(g, n) == /\ g = [o \in IDs |-> g[o]]
                           /\ \A i \in 1 .. n : g[seq[i]] = TakenFrom(g, f, seq[i])
           Bad == {n \in 0 .. Len(seq) : ~ \E g : Solves(g, n)}
<1>2. \E g : Solves(g, 0)
  <2> DEFINE h == [o \in IDs |-> None]
  <2>1. Solves(h, 0) OBVIOUS
  <2> QED BY <2>1
<1>3. ASSUME NEW n \in 0 .. Len(seq) - 1, NEW g, Solves(g, n)
      PROVE  \E h : Solves(h, n + 1)
  <2> DEFINE o == seq[n + 1]
             h == [p \in IDs |-> IF p = o THEN TakenFrom(g, f, o) ELSE g[p]]
  <2>1. n + 1 \in DOMAIN seq /\ o \in IDs
    BY <1>1
  <2>2. \A i \in 1 .. n + 1 : TakenFrom(h, f, seq[i]) = TakenFrom(g, f, seq[i])
    <3> SUFFICES ASSUME NEW i \in 1 .. n + 1 PROVE TakenFrom(h, f, seq[i]) = TakenFrom(g, f, seq[i])
      OBVIOUS
    <3>1. i \in DOMAIN seq /\ seq[i] \in IDs BY <1>1
    <3>2. DOMAIN Parents(seq[i]) \subseteq Nat
      <4>1. DOMAIN Parents(seq[i]) = 1 .. Len(Parents(seq[i])) BY <3>1, ObjectType
      <4> QED BY <4>1
    <3>3. ASSUME NEW k \in DOMAIN Parents(seq[i]) PROVE h[Parents(seq[i])[k]] = g[Parents(seq[i])[k]]
      <4>1. PICK j \in 1 .. i - 1 : seq[j] = Parents(seq[i])[k] BY <3>1 DEF ParentsFirst
      <4>2. j \in DOMAIN seq /\ j # n + 1 /\ seq[j] \in IDs BY <1>1, <3>1
      <4>3. seq[j] # o BY <2>1, <4>2 DEF ParentsFirst
      <4> QED BY <4>1, <4>2, <4>3
    <3> HIDE DEF h, o
    <3> QED BY <3>2, <3>3, TakenFromParents
  <2>3. \A i \in 1 .. n + 1 : h[seq[i]] = TakenFrom(g, f, seq[i])
    <3> SUFFICES ASSUME NEW i \in 1 .. n + 1 PROVE h[seq[i]] = TakenFrom(g, f, seq[i])
      OBVIOUS
    <3>1. i \in DOMAIN seq /\ seq[i] \in IDs BY <1>1
    <3>2. CASE seq[i] = o BY <3>1, <3>2
    <3>3. CASE seq[i] # o
      <4>1. i \in 1 .. n BY <3>3
      <4>2. g[seq[i]] = TakenFrom(g, f, seq[i]) BY <1>3, <4>1
      <4> QED BY <3>1, <3>3, <4>2
    <3> QED BY <3>2, <3>3
  <2>4. h = [p \in IDs |-> h[p]]
    OBVIOUS
  <2>5. Solves(h, n + 1)
    <3> HIDE DEF h, o
    <3> QED BY <2>2, <2>3, <2>4
  <2> QED BY <2>5
<1>4. Bad = {}
  <2> SUFFICES ASSUME Bad # {} PROVE FALSE
    OBVIOUS
  <2>1. Bad \in SUBSET Nat BY <1>1
  <2>2. PICK m \in Bad : \A l \in Bad : m <= l
    <3> HIDE DEF Bad
    <3> QED BY <2>1, Least
  <2>3. m # 0 BY <1>2
  <2>4. m - 1 \in 0 .. Len(seq) - 1 BY <1>1, <2>3
  <2>5. m - 1 \notin Bad
    <3>1. m \in Nat BY <2>1
    <3> HIDE DEF Bad
    <3> QED BY <2>2, <3>1
  <2>6. \E g : Solves(g, m - 1) BY <1>1, <2>4, <2>5
  <2>7. \E g : Solves(g, m - 1 + 1) BY <1>3, <2>4, <2>6
  <2>8. m - 1 + 1 = m BY <2>1
  <2> QED BY <2>7, <2>8
<1>5. PICK g : Solves(g, Len(seq))
  BY <1>1, <1>4
<1>6. g = [o \in IDs |-> TakenFrom(g, f, o)]
  <2>1. ASSUME NEW o \in IDs PROVE g[o] = TakenFrom(g, f, o)
    <3>1. PICK i \in 1 .. Len(seq) : seq[i] = o BY <1>1
    <3> QED BY <1>5, <3>1
  <2> QED BY <1>5, <2>1
<1>7. \E from : from = [o \in IDs |-> TakenFrom(from, f, o)]
  BY <1>6
<1> QED BY <1>7, Zenon DEF Effective

\* Taking from the next parent fills the gap, if there is one.
LEMMA TakenNext ==
  ASSUME tree \in Seq(RawObject), NEW o \in IDs, NEW f, NEW n \in 1 .. Len(Parents(o))
  PROVE  Taken(f, o, n) = IF Taken(f, o, n - 1) = None THEN Effective(f)[Parents(o)[n]]
                          ELSE Taken(f, o, n - 1)
<1> DEFINE H(m) == {k \in 1 .. m : Effective(f)[Parents(o)[k]] # None}
<1>1. Len(Parents(o)) \in Nat /\ LastRaw(o) # None
  BY ObjectType, LastRawIsLast DEF Position, None
<1>2. CASE f \in tree[LastRaw(o)].fields
  BY <1>1, <1>2 DEF Taken
<1>3. CASE f \notin tree[LastRaw(o)].fields /\ H(n - 1) # {}
  <2>1. H(n - 1) \subseteq Nat /\ H(n) \subseteq Nat /\ H(n) # {} BY <1>1, <1>3
  <2>2. Leftmost(H(n)) = Leftmost(H(n - 1))
    <3>1. Leftmost(H(n - 1)) \in H(n - 1) /\ \A l \in H(n - 1) : Leftmost(H(n - 1)) <= l
      <4> HIDE DEF H
      <4> QED BY <1>3, <2>1, LeftmostIsLeast
    <3>2. Leftmost(H(n)) \in H(n) /\ \A l \in H(n) : Leftmost(H(n)) <= l
      <4> HIDE DEF H
      <4> QED BY <1>3, <2>1, LeftmostIsLeast
    <3>3. H(n - 1) \subseteq H(n) /\ \A l \in H(n) : l \in H(n - 1) \/ l = n BY <1>1
    <3>4. \A l \in H(n - 1) : l < n BY <1>1
    <3> HIDE DEF H
    <3>5. Leftmost(H(n)) <= Leftmost(H(n - 1)) /\ Leftmost(H(n)) \in H(n - 1)
      BY <2>1, <3>1, <3>2, <3>3, <3>4
    <3> QED BY <2>1, <3>1, <3>2, <3>5
  <2>3. /\ Taken(f, o, n) = Effective(f)[Parents(o)[Leftmost(H(n))]]
        /\ Taken(f, o, n - 1) = Effective(f)[Parents(o)[Leftmost(H(n - 1))]]
    BY <1>3, <2>1 DEF Taken
  <2>4. Effective(f)[Parents(o)[Leftmost(H(n - 1))]] # None
    <3>1. Leftmost(H(n - 1)) \in H(n - 1)
      <4> HIDE DEF H
      <4> QED BY <1>3, <2>1, LeftmostIsLeast
    <3> QED BY <3>1
  <2> HIDE DEF H
  <2> QED BY <2>2, <2>3, <2>4
<1>4. CASE f \notin tree[LastRaw(o)].fields /\ H(n - 1) = {}
  <2>1. Taken(f, o, n - 1) = None BY <1>4 DEF Taken
  <2>2. CASE Effective(f)[Parents(o)[n]] = None
    <3>1. H(n) = {} BY <1>1, <1>4, <2>2
    <3> QED BY <1>4, <2>1, <2>2, <3>1 DEF Taken
  <2>3. CASE Effective(f)[Parents(o)[n]] # None
    <3>1. H(n) = {n}
      <4>1. n \in H(n) BY <1>1, <2>3
      <4>2. \A l \in H(n) : l \in H(n - 1) \/ l = n BY <1>1
      <4> HIDE DEF H
      <4> QED BY <1>4, <4>1, <4>2
    <3>2. Leftmost({n}) = n
      <4>1. {n} \in SUBSET Nat /\ {n} # {} BY <1>1
      <4>2. Leftmost({n}) \in {n} BY <4>1, LeftmostIsLeast
      <4> QED BY <4>2
    <3>3. Taken(f, o, n) = Effective(f)[Parents(o)[Leftmost(H(n))]]
      BY <1>4, <3>1 DEF Taken
    <3> HIDE DEF H
    <3> QED BY <2>1, <3>1, <3>2, <3>3
  <2> QED BY <2>2, <2>3
<1> QED BY <1>2, <1>3, <1>4

-----------------------------------------------------------------------------
(***************************************************************************)
(* IInv is inductive                                                       *)
(***************************************************************************)

\* The normalizer leaves the tree alone, and with it what is read off the tree.
LEMMA SameTree ==
  ASSUME tree' = tree
  PROVE  /\ Position' = Position /\ IDs' = IDs
         /\ \A o : LastRaw(o)' = LastRaw(o)
         /\ \A o : Parents(o)' = Parents(o) /\ ParentSet(o)' = ParentSet(o)
         /\ \A o : Ancestors(o)' = Ancestors(o) /\ FamilyScope(o)' = FamilyScope(o)
         /\ (IsCyclic' <=> IsCyclic) /\ (IsDangling' <=> IsDangling)
         /\ \A f : Effective(f)' = Effective(f)
         /\ \A f, o, n : Taken(f, o, n)' = Taken(f, o, n)
<1>1. Position' = Position /\ IDs' = IDs
  BY DEF Position, IDs
<1>2. \A o : LastRaw(o)' = LastRaw(o)
  BY Zenon DEF LastRaw, Position
<1>3. \A o : Parents(o)' = Parents(o)
  BY <1>2, Zenon DEF Parents
<1>4. \A o : ParentSet(o)' = ParentSet(o)
  BY <1>3, Zenon DEF ParentSet
<1>5. \A o : Ancestors(o)' = Ancestors(o)
  BY <1>1, <1>4 DEF Ancestors, Closed
<1>6. \A o : FamilyScope(o)' = FamilyScope(o)
  BY <1>2, <1>5 DEF FamilyScope
<1>7. (IsCyclic' <=> IsCyclic) /\ (IsDangling' <=> IsDangling)
  BY <1>1, <1>4, <1>5 DEF IsCyclic, IsDangling
<1>8. ASSUME NEW f PROVE Effective(f)' = Effective(f)
  <2>1. Effective(f) = CHOOSE from : from = [o \in IDs |-> TakenFrom(from, f, o)]
    BY Zenon DEF Effective
  <2>2. Effective(f)' = CHOOSE from : from = [o \in IDs' |-> TakenFrom(from, f, o)']
    BY Zenon DEF Effective
  <2>3. \A g, o : TakenFrom(g, f, o)' = TakenFrom(g, f, o)
    BY <1>2, <1>3 DEF TakenFrom
  <2> QED BY <1>1, <2>1, <2>2, <2>3
<1>9. \A f, o, n : Taken(f, o, n)' = Taken(f, o, n)
  BY <1>2, <1>3, <1>8 DEF Taken
<1> QED BY <1>1, <1>2, <1>3, <1>4, <1>5, <1>6, <1>7, <1>8, <1>9

\* Once all is copied, the working set is the last object of each ID.
LEMMA CopiedIsLast ==
  ASSUME tree \in Seq(RawObject), IInv, pc # "copy"
  PROVE  /\ DOMAIN work = IDs
         /\ \A o \in IDs : /\ work[o].raw = LastRaw(o)
                           /\ Extends(o) = Parents(o)
                           /\ work[o] \in NormalizedObject
<1>1. Count = Len(tree) /\ Position = 1 .. Len(tree)
  BY DEF Count, Position
<1>2. DOMAIN work = IDs
  BY <1>1 DEF IInv, CopyInv, IDs
<1>3. ASSUME NEW o \in IDs
      PROVE  work[o].raw = LastRaw(o) /\ work[o] \in NormalizedObject
  <2>1. /\ work[o] \in NormalizedObject
        /\ tree[work[o].raw].id = o
        /\ IsLast(work[o].raw, Len(tree))
    BY <1>1, <1>2 DEF IInv, CopyInv
  <2> QED BY <2>1, LastIsLastRaw
<1>4. \A o \in IDs : Extends(o) = Parents(o)
  BY <1>3 DEF Extends, Parents
<1> QED BY <1>2, <1>3, <1>4

LEMMA NoOrderYet ==
  ASSUME order = <<>>
  PROVE  /\ order \in Seq(DOMAIN work) /\ Placed = {} /\ Len(order) = Cardinality(Placed)
         /\ DOMAIN order = {} /\ ParentsFirst(order)
<1>1. DOMAIN order = {} /\ Len(order) = 0 /\ Placed = {}
  BY DEF Placed
<1>2. Cardinality({}) = 0
  BY FS_EmptySet
<1> QED BY <1>1, <1>2 DEF ParentsFirst

LEMMA InitIInv == tree \in Seq(RawObject) /\ Init => IInv
<1> SUFFICES ASSUME tree \in Seq(RawObject), Init PROVE IInv
  OBVIOUS
<1>1. DOMAIN work = {} /\ DOMAIN waiting = {} /\ DOMAIN index = {} /\ Len(tree) \in Nat
  BY DEF Init
<1>2. order = <<>> /\ Placed = {} /\ Len(order) = Cardinality(Placed) /\ order \in Seq(DOMAIN work)
      /\ ParentsFirst(order)
  BY NoOrderYet DEF Init
<1>3. TypeOK
  BY <1>1, <1>2 DEF Init, TypeOK
<1>4. Count = 0
  BY DEF Init, Count
<1>5. CopyInv
  BY <1>1, <1>4 DEF CopyInv
<1>6. KahnInv
  BY <1>1, <1>2 DEF Init, KahnInv, Merging
<1>7. MergeInv
  BY <1>1 DEF Init, MergeInv, Merging
<1>8. AnswerInv
  BY DEF Init, AnswerInv
<1> QED BY <1>3, <1>5, <1>6, <1>7, <1>8 DEF IInv

LEMMA CopyIInv ==
  ASSUME tree \in Seq(RawObject), IInv, Copy
  PROVE  IInv'
<1> DEFINE d == tree[next]
<1>1. /\ pc = "copy" /\ pc' = "copy" /\ next \in 1 .. Len(tree) /\ next' = next + 1 /\ Len(tree) \in Nat
      /\ d \in RawObject
      /\ UNCHANGED <<tree, parent, waiting, order, index, result>>
  BY DEF IInv, TypeOK, Copy
<1>2. /\ Count = next - 1 /\ Count' = next
  BY <1>1 DEF Count
<1>3. waiting = <<>> /\ order = <<>> /\ index = <<>>
  BY <1>1 DEF IInv, KahnInv, AnswerInv
<1>4. /\ DOMAIN work' = DOMAIN work \cup {d.id}
      /\ work'[d.id] = Normalized(next)
      /\ \A o \in DOMAIN work : o # d.id => work'[o] = work[o]
  BY DEF Copy
<1>5. DOMAIN work' = {tree[i].id : i \in 1 .. next}
  BY <1>1, <1>2, <1>4 DEF IInv, CopyInv
<1>6. /\ Normalized(next) \in NormalizedObject
      /\ Normalized(next).raw = next
      /\ \A f \in Fields : Normalized(next).value[f] = IF f \in d.fields THEN next ELSE None
      /\ Normalized(next).scope = d.scope
  <2>1. next \in Position /\ d.scope \subseteq ScopePaths BY <1>1 DEF Position, RawObject
  <2> QED BY <2>1 DEF Normalized, NormalizedObject, Value
<1>7. \A o \in DOMAIN work' : /\ work'[o] \in NormalizedObject
                              /\ tree[work'[o].raw].id = o
                              /\ IsLast(work'[o].raw, next)
  <2> SUFFICES ASSUME NEW o \in DOMAIN work'
               PROVE  work'[o] \in NormalizedObject /\ tree[work'[o].raw].id = o /\ IsLast(work'[o].raw, next)
    OBVIOUS
  <2>1. CASE o = d.id
    BY <1>1, <1>4, <1>6, <2>1 DEF IsLast
  <2>2. CASE o # d.id
    <3>1. /\ work'[o] = work[o] /\ work[o] \in NormalizedObject
          /\ tree[work[o].raw].id = o /\ IsLast(work[o].raw, next - 1)
      BY <1>2, <1>4, <2>2 DEF IInv, CopyInv
    <3>2. \A j \in 1 .. next : j \in 1 .. next - 1 \/ j = next BY <1>1
    <3> QED BY <1>1, <2>2, <3>1, <3>2 DEF IsLast
  <2> QED BY <2>1, <2>2
<1>8. CopyInv'
  <2>1. NormalizedObject' = NormalizedObject BY <1>1 DEF NormalizedObject, Value, Position
  <2> QED BY <1>1, <1>2, <1>5, <1>7, <2>1 DEF CopyInv, IsLast
<1>9. \A o \in DOMAIN work' : Own(o)'
  <2> SUFFICES ASSUME NEW o \in DOMAIN work' PROVE Own(o)'
    OBVIOUS
  <2>1. CASE o = d.id
    BY <1>1, <1>4, <1>6, <2>1 DEF Own
  <2>2. CASE o # d.id
    BY <1>1, <1>4, <2>2 DEF IInv, MergeInv, Own
  <2> QED BY <2>1, <2>2
<1>10. order' = <<>> /\ Placed' = {} /\ Len(order') = Cardinality(Placed') /\ order' \in Seq(DOMAIN work')
       /\ ParentsFirst(order)'
  <2>1. DOMAIN order' = {} /\ Len(order') = 0 BY <1>1, <1>3
  <2>2. Placed' = {} BY <2>1 DEF Placed
  <2> QED BY <1>1, <1>3, <2>1, <2>2, FS_EmptySet DEF ParentsFirst
<1>11. TypeOK'
  <2>1. DOMAIN work' \subseteq IDs' BY <1>1, <1>5 DEF IDs, Position
  <2>2. NormalizedObject' = NormalizedObject BY <1>1 DEF NormalizedObject, Value, Position
  <2> QED BY <1>1, <1>3, <1>7, <1>10, <2>1, <2>2 DEF IInv, TypeOK
<1>12. KahnInv'
  BY <1>1, <1>3, <1>10 DEF KahnInv, Merging
<1>13. MergeInv'
  BY <1>1, <1>9 DEF MergeInv, Merging
<1>14. AnswerInv'
  BY <1>1 DEF IInv, AnswerInv
<1> QED BY <1>8, <1>11, <1>12, <1>13, <1>14 DEF IInv

\* What a step that keeps the working set and the order keeps of the invariant.
LEMMA SameTables ==
  ASSUME tree \in Seq(RawObject), IInv, UNCHANGED <<tree, work, order>>, Count' = Count
  PROVE  /\ CopyInv'
         /\ Placed' = Placed
         /\ ParentsFirst(order)' /\ order' \in Seq(DOMAIN work')
         /\ \A o : Extends(o)' = Extends(o)
         /\ \A o, n : Merged(o, n)' <=> Merged(o, n)
         /\ \A o : Own(o)' <=> Own(o)
         /\ (next' \in 1 .. Len(tree) + 1 /\ parent' \in Nat \ {0}
              /\ pc' \in {"copy", "scope", "link", "kahn", "merge", "paths", "index", "done", "failed"}
              /\ result' \in {"running", "ok", "scope", "missing", "cycle", "path"}
              /\ (\A o \in DOMAIN waiting' : waiting'[o] \subseteq DOMAIN Extends(o))
              /\ (\A p \in DOMAIN index' : index'[p] \subseteq DOMAIN work)) => TypeOK'
<1>1. NormalizedObject' = NormalizedObject /\ IDs' = IDs
  BY SameTree DEF NormalizedObject, Value
<1>2. CopyInv'
  BY <1>1 DEF IInv, CopyInv, IsLast
<1>3. Placed' = Placed
  BY DEF Placed
<1>4. ParentsFirst(order)' /\ order' \in Seq(DOMAIN work')
  <2>1. \A o : Parents(o)' = Parents(o) BY SameTree
  <2> QED BY <2>1 DEF IInv, KahnInv, ParentsFirst
<1>5. \A o : Extends(o)' = Extends(o)
  BY DEF Extends
<1>6. \A o, n : Merged(o, n)' <=> Merged(o, n)
  <2>1. /\ \A o : LastRaw(o)' = LastRaw(o) /\ Parents(o)' = Parents(o) /\ FamilyScope(o)' = FamilyScope(o)
        /\ \A f, o, n : Taken(f, o, n)' = Taken(f, o, n)
    BY SameTree
  <2> QED BY <2>1 DEF Merged
<1>7. \A o : Own(o)' <=> Own(o)
  BY DEF Own
<1> QED BY <1>1, <1>2, <1>3, <1>4, <1>5, <1>6, <1>7 DEF IInv, TypeOK

LEMMA BeforeLinkIInv ==
  ASSUME tree \in Seq(RawObject), IInv, FinishCopy \/ NormalizeScopes
  PROVE  IInv'
<1>1. /\ pc \in {"copy", "scope"} /\ pc' \in {"scope", "link", "failed"}
      /\ pc' = "failed" => result' = "scope"
      /\ pc' # "failed" => UNCHANGED result
      /\ UNCHANGED <<tree, work, order, next, parent, waiting, index>>
  BY DEF FinishCopy, NormalizeScopes, Fail
<1>2. Count' = Count
  <2>1. CASE FinishCopy
    <3>1. pc = "copy" /\ pc' = "scope" /\ next = Len(tree) + 1 BY <2>1 DEF FinishCopy, IInv, TypeOK
    <3> QED BY <1>1, <3>1 DEF Count
  <2>2. CASE NormalizeScopes
    <3>1. pc # "copy" /\ pc' # "copy" BY <2>2 DEF NormalizeScopes, Fail
    <3> QED BY <1>1, <3>1 DEF Count
  <2> QED BY <2>1, <2>2
<1>3. waiting = <<>> /\ order = <<>> /\ index = <<>> /\ result = "running"
  BY <1>1 DEF IInv, KahnInv, AnswerInv
<1>4. TypeOK'
  BY <1>1, <1>2, <1>3, SameTables DEF IInv, TypeOK
<1>5. CopyInv'
  BY <1>1, <1>2, SameTables
<1>6. KahnInv'
  <2>1. ParentsFirst(order)' /\ order' \in Seq(DOMAIN work') BY <1>1, <1>2, SameTables
  <2> QED BY <1>1, <1>3, <2>1 DEF KahnInv, Merging
<1>7. MergeInv'
  <2>1. \A o : Own(o)' <=> Own(o) BY <1>1, <1>2, SameTables
  <2> QED BY <1>1, <2>1 DEF IInv, MergeInv, Merging
<1>8. AnswerInv'
  BY <1>1, <1>3 DEF AnswerInv
<1> QED BY <1>4, <1>5, <1>6, <1>7, <1>8 DEF IInv

LEMMA LinkIInv ==
  ASSUME tree \in Seq(RawObject), IInv, Link
  PROVE  IInv'
<1>1. /\ pc = "link" /\ pc' \in {"kahn", "failed"}
      /\ UNCHANGED <<tree, work, order, next, parent, index>>
  BY DEF Link, Fail
<1>2. Count' = Count
  BY <1>1 DEF Count
<1>3. waiting = <<>> /\ order = <<>> /\ index = <<>> /\ result = "running" /\ DOMAIN waiting = {}
  BY <1>1 DEF IInv, KahnInv, AnswerInv
<1>4. DOMAIN work = IDs /\ \A o \in IDs : Extends(o) = Parents(o)
  BY <1>1, CopiedIsLast
<1>5. Placed' = {} /\ ParentsFirst(order)' /\ order' \in Seq(DOMAIN work')
      /\ \A o : Own(o)' <=> Own(o)
  BY <1>1, <1>2, <1>3, SameTables, NoOrderYet
<1>6. CASE \E o \in DOMAIN work : Dangling(o)
  <2>1. pc' = "failed" /\ result' = "missing" /\ UNCHANGED waiting
    BY <1>6 DEF Link, Fail
  <2>2. IsDangling
    <3>1. PICK o \in DOMAIN work : \E k \in DOMAIN Extends(o) : Extends(o)[k] \notin DOMAIN work
      BY <1>6 DEF Dangling
    <3> QED BY <1>4, <3>1 DEF IsDangling, ParentSet
  <2>3. IsDangling' BY <1>1, <2>2, SameTree
  <2>4. TypeOK' BY <1>1, <1>2, <1>3, <2>1, SameTables DEF IInv, TypeOK
  <2>5. CopyInv' BY <1>1, <1>2, SameTables
  <2>6. KahnInv' BY <1>1, <1>3, <1>5, <2>1 DEF KahnInv, Merging
  <2>7. MergeInv' BY <1>1, <2>1 DEF MergeInv, Merging
  <2>8. AnswerInv' BY <1>1, <1>3, <2>1, <2>3 DEF AnswerInv
  <2> QED BY <2>4, <2>5, <2>6, <2>7, <2>8 DEF IInv
<1>7. CASE ~ \E o \in DOMAIN work : Dangling(o)
  <2>1. /\ pc' = "kahn" /\ result' = result
        /\ waiting' = [o \in DOMAIN work |-> DOMAIN Extends(o)]
    BY <1>7 DEF Link
  <2>2. ~ IsDangling
    <3> SUFFICES ASSUME NEW o \in IDs, NEW k \in DOMAIN Parents(o) PROVE Parents(o)[k] \in IDs
      BY DEF IsDangling, ParentSet
    <3> QED BY <1>4, <1>7 DEF Dangling
  <2>3. ~ IsDangling' BY <1>1, <2>2, SameTree
  <2>4. TypeOK' BY <1>1, <1>2, <1>3, <2>1, SameTables DEF IInv, TypeOK
  <2>5. CopyInv' BY <1>1, <1>2, SameTables
  <2>6. KahnInv'
    <3>1. IDs' = IDs /\ \A o : Parents(o)' = Parents(o) BY <1>1, SameTree
    <3>2. \A o \in IDs : waiting'[o] = {k \in DOMAIN Parents(o) : Parents(o)[k] \notin Placed'}
      BY <1>4, <1>5, <2>1
    <3> QED BY <1>1, <1>4, <1>5, <2>1, <2>3, <3>1, <3>2 DEF KahnInv, Merging
  <2>7. MergeInv' BY <1>1, <1>5, <2>1 DEF IInv, MergeInv, Merging
  <2>8. AnswerInv' BY <1>1, <1>3, <2>1 DEF AnswerInv
  <2> QED BY <2>4, <2>5, <2>6, <2>7, <2>8 DEF IInv
<1> QED BY <1>6, <1>7

LEMMA PlaceIInv ==
  ASSUME tree \in Seq(RawObject), IInv, Place
  PROVE  IInv'
<1>1. pc = "kahn" /\ UNCHANGED <<tree, pc, next, parent, work, index, result>>
  BY DEF Place
<1>2. PICK o \in Queue :
        /\ order' = Append(order, o)
        /\ waiting' = [c \in DOMAIN work |-> waiting[c] \ {k \in DOMAIN Extends(c) : Extends(c)[k] = o}]
  BY DEF Place
<1>3. DOMAIN work = IDs /\ \A c \in IDs : Extends(c) = Parents(c)
  BY <1>1, CopiedIsLast
<1>4. /\ ~ IsDangling /\ order \in Seq(IDs) /\ ParentsFirst(order)
      /\ \A c \in IDs : waiting[c] = {k \in DOMAIN Parents(c) : Parents(c)[k] \notin Placed}
  BY <1>1, <1>3 DEF IInv, KahnInv
<1>5. o \in IDs /\ o \notin Placed /\ \A k \in DOMAIN Parents(o) : Parents(o)[k] \in Placed
  BY <1>3, <1>4 DEF Queue
<1>6. /\ order' \in Seq(IDs) /\ Len(order) \in Nat /\ DOMAIN order = 1 .. Len(order)
      /\ DOMAIN order' = 1 .. Len(order) + 1 /\ Len(order') = Len(order) + 1
      /\ \A i \in DOMAIN order : order'[i] = order[i]
      /\ order'[Len(order) + 1] = o
  BY <1>2, <1>4, <1>5
<1>7. Placed' = Placed \cup {o}
  <2>1. \A i \in DOMAIN order' : i \in DOMAIN order \/ i = Len(order) + 1 BY <1>6
  <2>2. \A i \in DOMAIN order : i \in DOMAIN order' BY <1>6
  <2>3. Len(order) + 1 \in DOMAIN order' BY <1>6
  <2> QED BY <1>6, <2>1, <2>2, <2>3 DEF Placed
<1>8. ParentsFirst(order')
  <2>1. ASSUME NEW i \in DOMAIN order', NEW j \in DOMAIN order', order'[i] = order'[j] PROVE i = j
    BY <1>4, <1>5, <1>6, <2>1 DEF Placed, ParentsFirst
  <2>2. ASSUME NEW i \in DOMAIN order', NEW k \in DOMAIN Parents(order'[i])
        PROVE  \E j \in 1 .. i - 1 : order'[j] = Parents(order'[i])[k]
    <3>1. CASE i \in DOMAIN order
      <4>1. PICK j \in 1 .. i - 1 : order[j] = Parents(order[i])[k] BY <1>4, <1>6, <2>2, <3>1 DEF ParentsFirst
      <4>2. j \in DOMAIN order BY <1>6, <3>1
      <4> QED BY <1>6, <3>1, <4>1, <4>2
    <3>2. CASE i = Len(order) + 1
      <4>1. Parents(o)[k] \in Placed BY <1>5, <1>6, <2>2, <3>2
      <4>2. PICK j \in DOMAIN order : order[j] = Parents(o)[k] BY <4>1 DEF Placed
      <4>3. j \in 1 .. i - 1 BY <1>6, <3>2
      <4> QED BY <1>6, <3>2, <4>2, <4>3
    <3> QED BY <1>6, <3>1, <3>2
  <2> QED BY <2>1, <2>2 DEF ParentsFirst
<1>9. Count' = Count /\ NormalizedObject' = NormalizedObject /\ IDs' = IDs
      /\ (\A c : Parents(c)' = Parents(c)) /\ ~ IsDangling'
  <2>1. Count' = Count BY <1>1 DEF Count
  <2>2. NormalizedObject' = NormalizedObject BY <1>1 DEF NormalizedObject, Value, Position
  <2> QED BY <1>1, <1>4, <2>1, <2>2, SameTree
<1>10. \A c \in IDs : waiting'[c] = {k \in DOMAIN Parents(c) : Parents(c)[k] \notin Placed'}
  BY <1>2, <1>3, <1>4, <1>7
<1>11. TypeOK'
  <2>1. \A c : Extends(c)' = Extends(c) BY <1>1 DEF Extends
  <2>2. Placed' \subseteq DOMAIN work' BY <1>1, <1>3, <1>5, <1>7 DEF IInv, TypeOK
  <2>3. Len(order') = Cardinality(Placed')
    <3>1. IsFiniteSet(Placed) BY <1>3, IDsAreFinite, FS_Subset DEF IInv, TypeOK
    <3>2. Cardinality(Placed \cup {o}) = Cardinality(Placed) + 1 BY <1>5, <3>1, FS_AddElement
    <3> QED BY <1>6, <1>7, <3>2 DEF IInv, TypeOK
  <2>4. \A c \in DOMAIN waiting' : waiting'[c] \subseteq DOMAIN Extends(c)' BY <1>2, <1>3, <1>10, <2>1
  <2> QED BY <1>1, <1>9, <2>2, <2>3, <2>4 DEF IInv, TypeOK
<1>12. CopyInv'
  BY <1>1, <1>9 DEF IInv, CopyInv, IsLast
<1>13. KahnInv'
  <2>1. ParentsFirst(order)' BY <1>8, <1>9 DEF ParentsFirst
  <2> QED BY <1>1, <1>2, <1>3, <1>6, <1>9, <1>10, <2>1 DEF KahnInv, Merging
<1>14. MergeInv'
  BY <1>1 DEF IInv, MergeInv, Merging, Own
<1>15. AnswerInv'
  BY <1>1 DEF IInv, AnswerInv
<1> QED BY <1>11, <1>12, <1>13, <1>14, <1>15 DEF IInv

LEMMA FinishKahnIInv ==
  ASSUME tree \in Seq(RawObject), IInv, FinishKahn
  PROVE  IInv'
<1>1. pc = "kahn" /\ Queue = {} /\ UNCHANGED <<tree, work, waiting, order, index>>
      /\ pc' \in {"failed", "merge"}
  BY DEF FinishKahn, Fail
<1>2. Count' = Count
  BY <1>1 DEF FinishKahn, Count, Fail
<1>3. DOMAIN work = IDs /\ \A c \in IDs : Extends(c) = Parents(c) /\ work[c].raw = LastRaw(c)
  BY <1>1, CopiedIsLast
<1>4. /\ ~ IsDangling /\ order \in Seq(IDs) /\ ParentsFirst(order) /\ Placed \subseteq IDs
      /\ DOMAIN waiting = IDs
      /\ \A c \in IDs : waiting[c] = {k \in DOMAIN Parents(c) : Parents(c)[k] \notin Placed}
      /\ \A c \in IDs : Own(c)
      /\ index = <<>> /\ result = "running" /\ Len(order) = Cardinality(Placed)
  BY <1>1, <1>3 DEF IInv, KahnInv, MergeInv, AnswerInv, TypeOK
<1>5. /\ CopyInv' /\ Placed' = Placed /\ ParentsFirst(order)' /\ order' \in Seq(DOMAIN work')
      /\ ~ IsDangling' /\ (IsCyclic' <=> IsCyclic) /\ IDs' = IDs
      /\ \A o, n : Merged(o, n)' <=> Merged(o, n)
  BY <1>1, <1>2, <1>4, SameTables, SameTree
<1>6. CASE Len(order) # Cardinality(DOMAIN work)
  <2>1. pc' = "failed" /\ result' = "cycle" /\ UNCHANGED <<next, parent>>
    BY <1>6 DEF FinishKahn, Fail
  <2>2. IsCyclic
    <3> DEFINE S == IDs \ Placed
    <3>1. S # {} BY <1>3, <1>4, <1>6
    <3>2. ASSUME NEW o \in S PROVE ParentSet(o) \cap S # {}
      <4>1. waiting[o] # {} BY <1>1, <1>3 DEF Queue
      <4>2. PICK k \in DOMAIN Parents(o) : Parents(o)[k] \notin Placed BY <1>4, <4>1
      <4>3. Parents(o)[k] \in ParentSet(o) /\ ParentSet(o) \subseteq IDs
        BY <1>4 DEF ParentSet, IsDangling
      <4> QED BY <4>2, <4>3
    <3>3. S \in SUBSET IDs OBVIOUS
    <3> HIDE DEF S
    <3> QED BY <3>1, <3>2, <3>3, LeftoverIsCyclic
  <2>3. TypeOK' BY <1>1, <1>2, <2>1, SameTables DEF IInv, TypeOK
  <2>4. KahnInv' BY <1>1, <1>3, <1>4, <1>5, <2>1 DEF KahnInv, Merging
  <2>5. MergeInv' BY <2>1 DEF MergeInv, Merging
  <2>6. AnswerInv' BY <1>1, <1>4, <1>5, <2>1, <2>2 DEF AnswerInv
  <2> QED BY <1>5, <2>3, <2>4, <2>5, <2>6 DEF IInv
<1>7. CASE Len(order) = Cardinality(DOMAIN work)
  <2>1. pc' = "merge" /\ next' = 1 /\ parent' = 1 /\ result' = result
    BY <1>7 DEF FinishKahn
  <2>2. Placed = IDs
    BY <1>3, <1>4, <1>7, IDsAreFinite, FS_Subset
  <2>3. TypeOK'
    <3>1. 1 \in 1 .. Len(tree) + 1 BY DEF IInv, TypeOK
    <3> QED BY <1>1, <1>2, <2>1, <3>1, SameTables DEF IInv, TypeOK
  <2>4. KahnInv' BY <1>1, <1>3, <1>4, <1>5, <2>1, <2>2 DEF KahnInv, Merging
  <2>5. MergeInv'
    <3>1. \A o \in IDs : Merged(o, 0)
      <4> SUFFICES ASSUME NEW o \in IDs PROVE Merged(o, 0)
        OBVIOUS
      <4>1. \A f : Taken(f, o, 0) = IF f \in tree[LastRaw(o)].fields THEN LastRaw(o) ELSE None
        BY DEF Taken
      <4>2. Own(o) /\ work[o].raw = LastRaw(o) BY <1>3, <1>4
      <4> QED BY <4>1, <4>2 DEF Merged, Own
    <3>2. \A i \in DOMAIN order : ParentsTaken(i)' = 0 /\ order[i] \in IDs
      BY <1>1, <1>4, <2>1 DEF ParentsTaken
    <3>3. \A i \in DOMAIN order : Merged(order[i], 0)'
      BY <1>1, <1>5, <3>1, <3>2
    <3>4. (next <= Len(order) => parent <= Len(Parents(order[next])) + 1)'
      <4>1. ASSUME 1 <= Len(order) PROVE Len(Parents(order[1])) \in Nat
        <5>1. order[1] \in IDs BY <1>4, <4>1
        <5> QED BY <5>1, ObjectType
      <4>2. \A c : Parents(c)' = Parents(c) BY <1>1, SameTree
      <4> QED BY <1>1, <2>1, <4>1, <4>2
    <3>5. \A i \in DOMAIN order : Merged(order[i], ParentsTaken(i))'
      BY <1>1, <3>2, <3>3 DEF Merged
    <3> QED BY <1>1, <2>1, <3>4, <3>5 DEF MergeInv, Merging
  <2>6. AnswerInv' BY <1>1, <1>4, <2>1 DEF AnswerInv
  <2> QED BY <1>5, <2>3, <2>4, <2>5, <2>6 DEF IInv
<1> QED BY <1>6, <1>7

\* What is merged of an object that has taken from all its parents.
LEMMA MergedIsEffective ==
  ASSUME tree \in Seq(RawObject), IInv, Merging, NEW o \in IDs, Merged(o, Len(Parents(o)))
  PROVE  /\ \A f \in Fields : work[o].value[f] = Effective(f)[o]
         /\ work[o].scope = FamilyScope(o)
<1>1. /\ DOMAIN work = IDs /\ order \in Seq(IDs) /\ ParentsFirst(order)
      /\ {order[i] : i \in DOMAIN order} = IDs /\ ~ IsDangling
  BY CopiedIsLast DEF IInv, KahnInv, Merging, Placed
<1>2. DOMAIN Parents(o) = 1 .. Len(Parents(o))
  BY ObjectType
<1>3. ASSUME NEW f \in Fields PROVE work[o].value[f] = Effective(f)[o]
  <2>1. Effective(f)[o] = TakenFrom(Effective(f), f, o)
    <3>1. Effective(f) = [p \in IDs |-> TakenFrom(Effective(f), f, p)]
      BY <1>1, EffectiveEquation
    <3> DEFINE E == Effective(f)
               G(p) == TakenFrom(Effective(f), f, p)
    <3>2. E = [p \in IDs |-> G(p)] BY <3>1
    <3> HIDE DEF E, G
    <3>3. E[o] = G(o) BY <3>2
    <3> QED BY <3>3 DEF E, G
  <2>2. TakenFrom(Effective(f), f, o) = Taken(f, o, Len(Parents(o)))
    BY <1>2 DEF TakenFrom, Taken
  <2> QED BY <2>1, <2>2 DEF Merged
<1>4. work[o].scope = FamilyScope(o)
  BY <1>1, <1>2, FamilyScopeOfParents DEF Merged
<1> QED BY <1>3, <1>4

LEMMA MergeIInv ==
  ASSUME tree \in Seq(RawObject), IInv, Merge
  PROVE  IInv'
<1> DEFINE child == order[next]
<1>1. /\ pc = "merge" /\ pc' = "merge" /\ next <= Len(order) /\ next \in Nat \ {0} /\ parent \in Nat \ {0}
      /\ UNCHANGED <<tree, waiting, order, index, result>>
  BY DEF Merge, IInv, TypeOK
<1>2. /\ DOMAIN work = IDs
      /\ \A o \in IDs : /\ work[o].raw = LastRaw(o) /\ Extends(o) = Parents(o)
                        /\ work[o] \in NormalizedObject
  BY <1>1, CopiedIsLast
<1>3. /\ ~ IsDangling /\ order \in Seq(IDs) /\ ParentsFirst(order) /\ Placed = IDs
      /\ {order[i] : i \in DOMAIN order} = IDs /\ DOMAIN waiting \subseteq DOMAIN work
      /\ Len(order) \in Nat /\ DOMAIN order = 1 .. Len(order)
      /\ \A i \in DOMAIN order : order[i] \in IDs
      /\ index = <<>> /\ result = "running"
  <2>1. ~ IsDangling /\ order \in Seq(IDs) /\ ParentsFirst(order) /\ Placed = IDs
        /\ DOMAIN waiting \subseteq DOMAIN work /\ index = <<>> /\ result = "running"
    BY <1>1, <1>2 DEF IInv, KahnInv, AnswerInv, Merging
  <2> QED BY <2>1 DEF Placed
<1>4. /\ next \in DOMAIN order /\ child \in IDs
      /\ \A i \in DOMAIN order : Merged(order[i], ParentsTaken(i))
      /\ parent <= Len(Parents(child)) + 1
      /\ Len(Parents(child)) \in Nat
  <2>1. next \in DOMAIN order /\ child \in IDs BY <1>1, <1>3
  <2> QED BY <1>1, <2>1, ObjectType DEF IInv, MergeInv, Merging
<1>5. /\ Count' = Count /\ NormalizedObject' = NormalizedObject /\ IDs' = IDs
      /\ \A c : Parents(c)' = Parents(c) /\ LastRaw(c)' = LastRaw(c) /\ FamilyScope(c)' = FamilyScope(c)
      /\ \A f, o, n : Taken(f, o, n)' = Taken(f, o, n)
      /\ ~ IsDangling' /\ Placed' = Placed
  <2>1. Count' = Count BY <1>1 DEF Count
  <2>2. NormalizedObject' = NormalizedObject BY <1>1 DEF NormalizedObject, Value, Position
  <2>3. Placed' = Placed BY <1>1 DEF Placed
  <2> QED BY <1>1, <1>3, <2>1, <2>2, <2>3, SameTree
<1>6. CASE parent <= Len(Extends(child))
  <2> DEFINE p == Extends(child)[parent]
  <2>1. MergeParentIntoChild(child, p) /\ parent' = parent + 1 /\ UNCHANGED next
    BY <1>6 DEF Merge
  <2>2. parent \in DOMAIN Parents(child) /\ p = Parents(child)[parent] /\ parent <= Len(Parents(child))
    BY <1>1, <1>2, <1>4, <1>6, ObjectType
  <2>3. PICK j \in 1 .. next - 1 : order[j] = p
    BY <1>3, <1>4, <2>2 DEF ParentsFirst
  <2>4. j \in DOMAIN order /\ j < next /\ p \in IDs /\ p # child
    <3>1. j \in DOMAIN order /\ j < next /\ j # next BY <1>1, <1>3, <1>4
    <3>2. order[j] # order[next] BY <1>3, <1>4, <3>1 DEF ParentsFirst
    <3> QED BY <1>3, <2>3, <3>1, <3>2
  <2>5. /\ \A f \in Fields : work[p].value[f] = Effective(f)[p]
        /\ work[p].scope = FamilyScope(p)
    <3>1. ParentsTaken(j) = Len(Parents(p)) BY <2>3, <2>4 DEF ParentsTaken
    <3>2. Merged(p, Len(Parents(p))) BY <1>4, <2>3, <2>4, <3>1
    <3> QED BY <1>1, <2>4, <3>2, MergedIsEffective DEF Merging
  <2>6. ParentsTaken(next) = parent - 1 /\ Merged(child, parent - 1)
    <3>1. ParentsTaken(next) = parent - 1 BY <1>1 DEF ParentsTaken
    <3> QED BY <1>4, <3>1
  <2>7. /\ DOMAIN work' = IDs
        /\ \A o \in IDs : o # child => work'[o] = work[o]
        /\ work'[child].raw = work[child].raw
        /\ work'[child].base = work[child].base
        /\ work'[child].scope = work[child].scope \cup work[p].scope
        /\ work'[child].value = [f \in Fields |-> IF work[child].value[f] = None THEN work[p].value[f]
                                                  ELSE work[child].value[f]]
        /\ work'[child] \in NormalizedObject
    <3>1. work[child] \in NormalizedObject /\ work[p] \in NormalizedObject BY <1>2, <1>4, <2>4
    <3> HIDE DEF child, p
    <3>2. work' = [work EXCEPT
                    ![child].value = [f \in Fields |-> IF @[f] = None THEN work[p].value[f] ELSE @[f]],
                    ![child].scope = @ \cup work[p].scope]
      BY <2>1 DEF MergeParentIntoChild
    <3>3. /\ DOMAIN work' = IDs
          /\ \A o \in IDs : o # child => work'[o] = work[o]
          /\ work'[child] = [work[child] EXCEPT
               !.value = [f \in Fields |-> IF work[child].value[f] = None THEN work[p].value[f]
                                           ELSE work[child].value[f]],
               !.scope = work[child].scope \cup work[p].scope]
      BY <1>2, <1>4, <3>1, <3>2 DEF NormalizedObject
    <3> DEFINE v == [f \in Fields |-> IF work[child].value[f] = None THEN work[p].value[f]
                                      ELSE work[child].value[f]]
               sc == work[child].scope \cup work[p].scope
    <3>4. v \in [Fields -> Value] /\ sc \subseteq ScopePaths BY <3>1 DEF NormalizedObject
    <3>5. work'[child] = [work[child] EXCEPT !.value = v, !.scope = sc] BY <3>3
    <3> HIDE DEF v, sc
    <3>6. /\ work'[child].raw = work[child].raw /\ work'[child].base = work[child].base
          /\ work'[child].value = v /\ work'[child].scope = sc /\ work'[child] \in NormalizedObject
      BY <3>1, <3>4, <3>5 DEF NormalizedObject
    <3> QED BY <3>3, <3>6 DEF v, sc
  <2>8. \A n : n = parent => Merged(child, n)'
    <3>1. \A f \in Fields : work'[child].value[f] = Taken(f, child, parent)
      <4> SUFFICES ASSUME NEW f \in Fields PROVE work'[child].value[f] = Taken(f, child, parent)
        OBVIOUS
      <4>1. work[child].value[f] = Taken(f, child, parent - 1) BY <2>6 DEF Merged
      <4>2. parent \in 1 .. Len(Parents(child)) BY <1>1, <2>2, <1>4
      <4>3. Taken(f, child, parent) = IF Taken(f, child, parent - 1) = None THEN Effective(f)[p]
                                      ELSE Taken(f, child, parent - 1)
        <5> HIDE DEF child, p
        <5> QED BY <1>4, <2>2, <4>2, TakenNext
      <4>4. work'[child].value[f] = IF work[child].value[f] = None THEN work[p].value[f]
                                    ELSE work[child].value[f]
        BY <2>7
      <4> HIDE DEF child, p
      <4> QED BY <2>5, <4>1, <4>3, <4>4
    <3>2. work'[child].scope = tree[LastRaw(child)].scope
                                 \cup UNION {FamilyScope(Parents(child)[k]) : k \in 1 .. parent}
      <4>1. work[child].scope = tree[LastRaw(child)].scope
                                 \cup UNION {FamilyScope(Parents(child)[k]) : k \in 1 .. parent - 1}
        BY <2>6 DEF Merged
      <4>2. 1 .. parent = (1 .. parent - 1) \cup {parent} BY <1>1
      <4> DEFINE F(k) == FamilyScope(Parents(child)[k])
                 U(n) == UNION {F(k) : k \in 1 .. n}
      <4>3. U(parent) = U(parent - 1) \cup F(parent)
        <5> HIDE DEF F
        <5>1. {F(k) : k \in 1 .. parent} = {F(k) : k \in 1 .. parent - 1} \cup {F(parent)}
          BY <4>2
        <5> QED BY <5>1
      <4>4. work'[child].scope = work[child].scope \cup F(parent) BY <2>2, <2>5, <2>7
      <4>5. work[child].scope = tree[LastRaw(child)].scope \cup U(parent - 1) BY <4>1
      <4>6. work'[child].scope = tree[LastRaw(child)].scope \cup U(parent)
        <5> HIDE DEF F, U, child
        <5> QED BY <4>3, <4>4, <4>5
      <4> QED BY <4>6
    <3>3. child' = child BY <1>1, <2>1
    <3> HIDE DEF child, p
    <3> QED BY <1>1, <1>5, <3>1, <3>2, <3>3 DEF Merged
  <2>9. \A i \in DOMAIN order : Merged(order[i], ParentsTaken(i))'
    <3> SUFFICES ASSUME NEW i \in DOMAIN order PROVE Merged(order[i], ParentsTaken(i))'
      OBVIOUS
    <3>1. CASE i = next
      <4>1. ParentsTaken(i)' = parent BY <1>1, <2>1, <3>1 DEF ParentsTaken
      <4>2. PICK n : n = parent OBVIOUS
      <4>3. Merged(child, n)' BY <2>8, <4>2
      <4> QED BY <1>1, <2>1, <3>1, <4>1, <4>2, <4>3 DEF Merged
    <3>2. CASE i # next
      <4>1. ParentsTaken(i)' = ParentsTaken(i) BY <1>1, <1>5, <2>1, <3>2 DEF ParentsTaken
      <4>2. order[i] # child BY <1>3, <1>4, <3>2 DEF ParentsFirst
      <4>3. work'[order[i]] = work[order[i]] BY <1>3, <2>7, <4>2
      <4>4. Merged(order[i], ParentsTaken(i)) BY <1>4
      <4> QED BY <1>1, <1>5, <4>1, <4>3, <4>4 DEF Merged
    <3> QED BY <3>1, <3>2
  <2>10. MergeInv'
    <3>1. parent' <= Len(Parents(order[next]))' + 1 BY <1>1, <1>4, <1>5, <2>1, <2>2
    <3> QED BY <1>1, <1>5, <2>1, <2>9, <3>1 DEF MergeInv, Merging
  <2>11. \A o \in IDs : work'[o] \in NormalizedObject /\ work'[o].raw = work[o].raw
    BY <1>2, <2>7
  <2>12. CopyInv'
    <3>1. \A o \in IDs : tree[work[o].raw].id = o /\ IsLast(work[o].raw, Count)
      BY <1>2 DEF IInv, CopyInv
    <3>2. \A o \in IDs : IsLast(work[o].raw, Count)'
      BY <1>1, <1>2, <1>5, <2>11, <3>1 DEF IsLast
    <3>3. DOMAIN work' = {tree[i].id : i \in 1 .. Count}
      BY <1>2, <2>7 DEF IInv, CopyInv
    <3> QED BY <1>1, <1>5, <2>7, <2>11, <3>1, <3>2, <3>3 DEF CopyInv
  <2>13. TypeOK'
    <3>1. \A o \in IDs : Extends(o)' = Extends(o) BY <1>1, <2>11 DEF Extends
    <3> QED BY <1>1, <1>2, <1>3, <1>5, <2>1, <2>7, <2>11, <3>1 DEF IInv, TypeOK
  <2>14. KahnInv'
    <3>1. ParentsFirst(order)' BY <1>1, <1>3, <1>5 DEF ParentsFirst
    <3> QED BY <1>1, <1>2, <1>3, <1>5, <2>7, <3>1 DEF KahnInv, Merging
  <2>15. AnswerInv'
    BY <1>1, <1>3 DEF AnswerInv
  <2> QED BY <2>10, <2>12, <2>13, <2>14, <2>15 DEF IInv
<1>7. CASE ~ (parent <= Len(Extends(child)))
  <2>1. next' = next + 1 /\ parent' = 1 /\ UNCHANGED work
    BY <1>7 DEF Merge
  <2>2. parent = Len(Parents(child)) + 1
    BY <1>1, <1>2, <1>4, <1>7
  <2>3. \A i \in DOMAIN order : ParentsTaken(i)' = ParentsTaken(i)
    <3> SUFFICES ASSUME NEW i \in DOMAIN order PROVE ParentsTaken(i)' = ParentsTaken(i)
      OBVIOUS
    <3>1. CASE i = next BY <1>1, <1>4, <1>5, <2>1, <2>2, <3>1 DEF ParentsTaken
    <3>2. CASE i = next + 1 BY <1>1, <1>4, <1>5, <2>1, <3>2 DEF ParentsTaken
    <3>3. CASE i < next \/ i > next + 1 BY <1>1, <1>3, <1>5, <2>1, <3>3 DEF ParentsTaken
    <3> QED BY <1>1, <1>3, <3>1, <3>2, <3>3
  <2>4. next' \in 1 .. Len(tree) + 1
    <3>1. Cardinality(IDs) <= Len(tree) /\ Cardinality(IDs) \in Nat /\ Len(order) = Cardinality(IDs)
      BY <1>3, IDsAreFinite DEF IInv, TypeOK
    <3> QED BY <1>1, <2>1, <3>1
  <2>5. TypeOK' BY <1>1, <1>5, <2>1, <2>4, SameTables DEF IInv, TypeOK
  <2>6. CopyInv' BY <1>1, <1>5, <2>1, SameTables
  <2>7. KahnInv'
    <3>1. ParentsFirst(order)' BY <1>1, <1>3, <1>5 DEF ParentsFirst
    <3> QED BY <1>1, <1>2, <1>3, <1>5, <2>1, <3>1 DEF KahnInv, Merging
  <2>8. MergeInv'
    <3>1. \A i \in DOMAIN order : Merged(order[i], ParentsTaken(i))'
      <4>1. \A i \in DOMAIN order : Merged(order[i], ParentsTaken(i)) BY <1>4
      <4> QED BY <1>1, <1>5, <2>1, <2>3, <4>1 DEF Merged
    <3>2. (next <= Len(order) => parent <= Len(Parents(order[next])) + 1)'
      <4> SUFFICES ASSUME next' <= Len(order') PROVE parent' <= Len(Parents(order[next]))' + 1
        OBVIOUS
      <4>1. order[next + 1] \in IDs BY <1>1, <1>3, <2>1
      <4>2. Len(Parents(order[next + 1])) \in Nat BY <4>1, ObjectType
      <4> QED BY <1>1, <1>5, <2>1, <4>2
    <3>3. \A i \in DOMAIN order' : Merged(order[i], ParentsTaken(i))' BY <1>1, <3>1
    <3>4. pc' = "merge" BY <1>1
    <3>5. next' <= Len(order') + 1 BY <1>1, <1>3, <2>1
    <3> QED BY <3>2, <3>3, <3>4, <3>5 DEF MergeInv, Merging
  <2>9. AnswerInv' BY <1>1, <1>3 DEF AnswerInv
  <2> QED BY <2>5, <2>6, <2>7, <2>8, <2>9 DEF IInv
<1> QED BY <1>6, <1>7

LEMMA AfterMergeIInv ==
  ASSUME tree \in Seq(RawObject), IInv, FinishMerge \/ ResolvePaths \/ BuildScopeIndex
  PROVE  IInv'
<1>1. /\ pc \in {"merge", "paths", "index"} /\ pc' \in {"paths", "index", "done", "failed"}
      /\ pc' = "done" => result' = "ok" /\ pc = "index"
      /\ pc' = "failed" => result' = "path"
      /\ pc' \in {"paths", "index"} => UNCHANGED result
      /\ pc = "merge" => next > Len(order)
      /\ UNCHANGED <<tree, order, next, parent, waiting>>
      /\ pc' # "done" => UNCHANGED index
  BY DEF FinishMerge, ResolvePaths, BuildScopeIndex, Fail
<1>2. /\ DOMAIN work = IDs
      /\ \A o \in IDs : work[o] \in NormalizedObject
  BY <1>1, CopiedIsLast
<1>3. /\ DOMAIN work' = IDs
      /\ \A o \in IDs : /\ work'[o].raw = work[o].raw
                        /\ work'[o].value = work[o].value
                        /\ work'[o].scope = work[o].scope
                        /\ work'[o] \in NormalizedObject
  <2>1. CASE UNCHANGED work
    BY <1>2, <2>1
  <2>2. CASE ResolvePaths /\ ~ UNCHANGED work
    <3> DEFINE B(o) == [f \in PathFields |-> IF work[o].value[f] # None THEN work[o].raw ELSE None]
    <3>1. work' = [o \in DOMAIN work |-> [work[o] EXCEPT !.base = B(o)]]
      BY <2>2 DEF ResolvePaths
    <3>2. ASSUME NEW o \in IDs
          PROVE  /\ work'[o].raw = work[o].raw
                 /\ work'[o].value = work[o].value
                 /\ work'[o].scope = work[o].scope
                 /\ work'[o] \in NormalizedObject
      <4>1. work[o] \in NormalizedObject BY <1>2
      <4>2. B(o) \in [PathFields -> Value] BY <4>1 DEF NormalizedObject, Value
      <4> HIDE DEF B
      <4>3. work'[o] = [work[o] EXCEPT !.base = B(o)] BY <1>2, <3>1
      <4> QED BY <4>1, <4>2, <4>3 DEF NormalizedObject
    <3> HIDE DEF B
    <3> QED BY <1>2, <3>1, <3>2
  <2> QED BY <2>1, <2>2 DEF FinishMerge, ResolvePaths, BuildScopeIndex
<1>4. /\ Count' = Count /\ NormalizedObject' = NormalizedObject /\ IDs' = IDs
      /\ \A c : Parents(c)' = Parents(c) /\ LastRaw(c)' = LastRaw(c) /\ FamilyScope(c)' = FamilyScope(c)
      /\ \A f, o, n : Taken(f, o, n)' = Taken(f, o, n)
      /\ (IsDangling' <=> IsDangling) /\ Placed' = Placed
  <2>1. Count' = Count BY <1>1 DEF Count
  <2>2. NormalizedObject' = NormalizedObject BY <1>1 DEF NormalizedObject, Value, Position
  <2>3. Placed' = Placed BY <1>1 DEF Placed
  <2> QED BY <1>1, <2>1, <2>2, <2>3, SameTree
<1>5. /\ ~ IsDangling /\ order \in Seq(IDs) /\ ParentsFirst(order) /\ Placed = IDs
      /\ DOMAIN waiting \subseteq IDs
      /\ \A i \in DOMAIN order : order[i] \in IDs
      /\ result = "running" /\ index = <<>>
  <2>1. ~ IsDangling /\ order \in Seq(IDs) /\ ParentsFirst(order) /\ Placed = IDs /\ DOMAIN waiting \subseteq IDs
        /\ result = "running" /\ index = <<>>
    BY <1>1, <1>2 DEF IInv, KahnInv, AnswerInv, Merging
  <2> QED BY <2>1
<1>6. TypeOK'
  <2>1. \A o \in IDs : Extends(o)' = Extends(o) BY <1>1, <1>3 DEF Extends
  <2>2. \A p \in DOMAIN index' : index'[p] \subseteq IDs
    <3>1. CASE pc' = "done" BY <1>2, <1>1, <3>1 DEF FinishMerge, ResolvePaths, BuildScopeIndex, Fail
    <3>2. CASE pc' # "done" BY <1>1, <1>5, <3>2
    <3> QED BY <3>1, <3>2
  <2>3. result' \in {"running", "ok", "path"} BY <1>1, <1>5
  <2> QED BY <1>1, <1>2, <1>3, <1>4, <1>5, <2>1, <2>2, <2>3 DEF IInv, TypeOK
<1>7. CopyInv'
  <2>1. \A o \in IDs : tree[work[o].raw].id = o /\ IsLast(work[o].raw, Count)
    BY <1>2 DEF IInv, CopyInv
  <2>2. \A o \in IDs : IsLast(work[o].raw, Count)'
    BY <1>1, <1>3, <1>4, <2>1 DEF IsLast
  <2>3. DOMAIN work' = {tree[i].id : i \in 1 .. Count}
    BY <1>2, <1>3 DEF IInv, CopyInv
  <2> QED BY <1>1, <1>3, <1>4, <2>1, <2>2, <2>3 DEF CopyInv
<1>8. KahnInv'
  <2>1. ParentsFirst(order)' BY <1>1, <1>4, <1>5 DEF ParentsFirst
  <2> QED BY <1>1, <1>3, <1>4, <1>5, <2>1 DEF KahnInv, Merging
<1>9. MergeInv'
  <2>1. \A i \in DOMAIN order : Merged(order[i], ParentsTaken(i)) BY <1>1 DEF IInv, MergeInv, Merging
  <2>2. \A i \in DOMAIN order : pc' # "failed" => ParentsTaken(i)' = ParentsTaken(i)
    BY <1>1, <1>4, <1>5 DEF ParentsTaken, IInv, TypeOK
  <2>3. pc' # "failed" => \A i \in DOMAIN order' : Merged(order[i], ParentsTaken(i))'
    BY <1>1, <1>3, <1>4, <1>5, <2>1, <2>2 DEF Merged
  <2> QED BY <1>1, <2>3 DEF MergeInv, Merging
<1>10. AnswerInv'
  <2>1. CASE pc' = "done"
    BY <1>1, <1>2, <2>1 DEF AnswerInv, FinishMerge, ResolvePaths, BuildScopeIndex, Fail
  <2>2. CASE pc' # "done"
    BY <1>1, <1>5, <2>2 DEF AnswerInv
  <2> QED BY <2>1, <2>2
<1> QED BY <1>6, <1>7, <1>8, <1>9, <1>10 DEF IInv

LEMMA NextIInv ==
  ASSUME tree \in Seq(RawObject), IInv, Next
  PROVE  IInv' /\ tree' = tree
<1>1. IInv'
  BY CopyIInv, BeforeLinkIInv, LinkIInv, PlaceIInv, FinishKahnIInv, MergeIInv, AfterMergeIInv DEF Next
<1>2. tree' = tree
  BY DEF Next, Copy, FinishCopy, NormalizeScopes, Link, Place, FinishKahn, Merge, FinishMerge,
         ResolvePaths, BuildScopeIndex
<1> QED BY <1>1, <1>2

-----------------------------------------------------------------------------
(***************************************************************************)
(* The stages before the normalizer                                        *)
(***************************************************************************)

LEMMA FInitFIInv == FInit => FIInv
<1> SUFFICES ASSUME FInit PROVE FIInv
  OBVIOUS
<1>1. tree \in Seq(RawObject) /\ input \in Input /\ Init
  BY FrontEndAssumption DEF FInit
<1>2. at \in Nat \ {0} BY DEF FInit
<1> QED BY <1>1, <1>2, InitIInv DEF FIInv

\* A stage before the normalizer hands on a sequence of objects, and leaves the
\* normalizer's variables alone.
LEMMA EarlierStage ==
  ASSUME FIInv, ParseFile \/ SortObjects \/ ValidateObject \/ ValidateTree \/ ResolveDependencies
  PROVE  /\ tree' \in Seq(RawObject)
         /\ UNCHANGED <<input, pc, next, parent, work, waiting, order, index, result>>
         /\ phase # "normalize" /\ at' \in Nat \ {0}
<1>1. UNCHANGED <<input, pc, next, parent, work, waiting, order, index, result>> /\ phase # "normalize"
  BY DEF ParseFile, SortObjects, ValidateObject, ValidateTree, ResolveDependencies, vars
<1>6. at' \in Nat \ {0}
  BY DEF FIInv, ParseFile, SortObjects, ValidateObject, ValidateTree, ResolveDependencies
<1>2. CASE ParseFile
  <2>1. input.files \in Seq(File) BY DEF FIInv, Input
  <2>2. input.files[at].object \in RawObject \/ tree' = tree
    <3>1. CASE input.files[at].form = "object"
      <4>1. at \in 1 .. Len(input.files) BY <1>2 DEF ParseFile, FIInv
      <4>2. input.files[at] \in File BY <2>1, <4>1
      <4> QED BY <4>2 DEF File
    <3>2. CASE input.files[at].form # "object" BY <1>2, <3>2 DEF ParseFile
    <3> QED BY <3>1, <3>2
  <2>3. tree' = tree \/ (tree' = Append(tree, input.files[at].object))
    BY <1>2 DEF ParseFile
  <2>4. tree' \in Seq(RawObject) BY <2>2, <2>3 DEF FIInv
  <2> QED BY <1>1, <1>6, <2>4
<1>3. CASE SortObjects
  <2>1. PICK p \in SetToSeqs(Position) : tree' = [i \in Position |-> tree[p[i]]]
    BY <1>3 DEF SortObjects
  <2>2. Position = 1 .. Len(tree) /\ Len(tree) \in Nat /\ \A i \in Position : tree[i] \in RawObject
    BY DEF FIInv, Position
  <2>3. Cardinality(Position) = Len(tree)
    <3>1. 1 \in Int /\ Len(tree) \in Int BY <2>2
    <3>2. Cardinality(1 .. Len(tree)) = IF 1 > Len(tree) THEN 0 ELSE Len(tree) - 1 + 1
      BY <3>1, FS_Interval
    <3> QED BY <2>2, <3>2
  <2>4. p \in [Position -> Position]
    BY <2>2, <2>3 DEF SetToSeqs
  <2>5. tree' \in [1 .. Len(tree) -> RawObject]
    BY <2>1, <2>2, <2>4
  <2>6. tree' \in Seq(RawObject) BY <2>2, <2>5
  <2> QED BY <1>1, <1>6, <2>6
<1>4. CASE ValidateObject \/ ValidateTree
  BY <1>1, <1>4 DEF FIInv, ValidateObject, ValidateTree, vars
<1>5. CASE ResolveDependencies
  <2>1. input.external \in Seq(RawObject) BY DEF FIInv, Input
  <2> QED BY <1>1, <1>5, <2>1 DEF FIInv, ResolveDependencies
<1> QED BY <1>1, <1>2, <1>3, <1>4, <1>5, <1>6

LEMMA InitIInvNext == (tree \in Seq(RawObject) /\ Init => IInv)'
BY InitIInv, PTL

LEMMA StutterIInv ==
  ASSUME tree \in Seq(RawObject), IInv, UNCHANGED vars
  PROVE  IInv'
<1>1. UNCHANGED <<tree, pc, next, parent, work, waiting, order, index, result>> /\ Count' = Count
  BY DEF vars, Count
<1>2. CopyInv' /\ TypeOK'
  BY <1>1, SameTables DEF IInv, TypeOK
<1>3. KahnInv'
  <2>1. /\ IDs' = IDs /\ (\A o : Parents(o)' = Parents(o)) /\ (IsDangling' <=> IsDangling)
        /\ Placed' = Placed /\ ParentsFirst(order)' /\ order' \in Seq(DOMAIN work')
    BY <1>1, SameTree, SameTables
  <2> QED BY <1>1, <2>1 DEF IInv, KahnInv, Merging
<1>4. MergeInv'
  <2>1. /\ \A o : Parents(o)' = Parents(o)
        /\ \A o, n : Merged(o, n)' <=> Merged(o, n)
        /\ \A o : Own(o)' <=> Own(o)
    BY <1>1, SameTree, SameTables
  <2>2. \A i \in DOMAIN order : ParentsTaken(i)' = ParentsTaken(i)
    BY <1>1, <2>1 DEF ParentsTaken
  <2>3. Merging => \A i \in DOMAIN order' : Merged(order[i], ParentsTaken(i))'
    <3>1. Merging => \A i \in DOMAIN order : Merged(order[i], ParentsTaken(i)) BY DEF IInv, MergeInv
    <3> QED BY <1>1, <2>1, <2>2, <3>1
  <2> QED BY <1>1, <2>1, <2>3 DEF IInv, MergeInv, Merging
<1>5. AnswerInv'
  BY <1>1, SameTree DEF IInv, AnswerInv
<1> QED BY <1>2, <1>3, <1>4, <1>5 DEF IInv

LEMMA FNextFIInv == FIInv /\ [FNext]_fvars => FIInv'
<1> SUFFICES ASSUME FIInv, [FNext]_fvars PROVE FIInv'
  OBVIOUS
<1>1. CASE ParseFile \/ SortObjects \/ ValidateObject \/ ValidateTree \/ ResolveDependencies
  <2>1. /\ tree' \in Seq(RawObject) /\ Init /\ at' \in Nat \ {0}
        /\ UNCHANGED <<input, pc, next, parent, work, waiting, order, index, result>>
    BY <1>1, EarlierStage DEF FIInv
  <2>2. Init' BY <2>1 DEF Init
  <2>3. IInv' BY <2>1, <2>2, InitIInvNext
  <2> QED BY <2>1, <2>2, <2>3 DEF FIInv
<1>2. CASE Normalize
  <2>1. phase = "normalize" /\ Next /\ UNCHANGED <<input, phase, at, diags>>
    BY <1>2 DEF Normalize
  <2>2. IInv' /\ tree' = tree BY <2>1, NextIInv DEF FIInv
  <2> QED BY <2>1, <2>2 DEF FIInv
<1>3. CASE UNCHANGED fvars
  <2>1. IInv' BY <1>3, StutterIInv DEF FIInv, fvars
  <2> QED BY <1>3, <2>1 DEF FIInv, Init, fvars, vars
<1> QED BY <1>1, <1>2, <1>3 DEF FNext

\* Whatever projects there are, the normalizer keeps the inductive invariant, and
\* has not begun before the stages in front of it are done.
THEOREM Invariance == FSpec => []FIInv
<1>1. FInit => FIInv
  BY FInitFIInv
<1>2. FIInv /\ [FNext]_fvars => FIInv'
  BY FNextFIInv
<1> QED BY <1>1, <1>2, PTL DEF FSpec

-----------------------------------------------------------------------------
(***************************************************************************)
(* What the normalizer promises                                            *)
(***************************************************************************)

\* Every part of the normalizer's state has its type: the working set, the edges
\* that objects wait for, the order, the index and the answer.
THEOREM NormalizerTypeCorrect == FSpec => []TypeOK
<1>1. FIInv => TypeOK
  BY DEF FIInv, IInv
<1> QED BY <1>1, Invariance, PTL

\* Execute refuses a tree exactly when a parent is missing or the relation to
\* parents has a cycle, and names the one that is so.
THEOREM CauseIsRight == FSpec => []RefusedForCause
<1>1. FIInv => RefusedForCause
  <2> SUFFICES ASSUME FIInv PROVE RefusedForCause
    OBVIOUS
  <2>1. /\ result = "missing" => IsDangling
        /\ result = "cycle" => IsCyclic /\ ~ IsDangling
    BY DEF FIInv, IInv, AnswerInv
  <2>2. ASSUME Merging PROVE ~ IsCyclic /\ ~ IsDangling
    <3>1. /\ DOMAIN work = IDs /\ order \in Seq(IDs) /\ ParentsFirst(order)
          /\ {order[i] : i \in DOMAIN order} = IDs /\ ~ IsDangling
      BY <2>2, CopiedIsLast DEF FIInv, IInv, KahnInv, Merging, Placed
    <3> QED BY <3>1, ListedIsAcyclic
  <2> QED BY <2>1, <2>2 DEF RefusedForCause, Merging
<1> QED BY <1>1, Invariance, PTL

\* An object the merge loop has left behind has all that it takes.
LEMMA CompleteIsMerged ==
  ASSUME FIInv, Merging, NEW o \in Complete
  PROVE  o \in IDs /\ Merged(o, Len(Parents(o)))
<1>1. /\ DOMAIN work = IDs /\ order \in Seq(IDs) /\ {order[i] : i \in DOMAIN order} = IDs
      /\ \A i \in DOMAIN order : Merged(order[i], ParentsTaken(i))
      /\ next \in Nat
  BY CopiedIsLast DEF FIInv, IInv, TypeOK, KahnInv, MergeInv, Merging, Placed
<1>2. CASE pc = "merge"
  <2>1. PICK i \in 1 .. next - 1 : o = order[i] BY <1>2 DEF Complete
  <2>2. i \in DOMAIN order BY <1>1, <1>2 DEF FIInv, IInv, MergeInv
  <2>3. ParentsTaken(i) = Len(Parents(o)) BY <1>1, <1>2, <2>1 DEF ParentsTaken
  <2> QED BY <1>1, <2>1, <2>2, <2>3
<1>3. CASE pc # "merge"
  <2>1. o \in IDs BY <1>1, <1>3 DEF Complete
  <2>2. PICK i \in DOMAIN order : o = order[i] BY <1>1, <2>1
  <2>3. ParentsTaken(i) = Len(Parents(o)) BY <1>3, <2>2 DEF ParentsTaken
  <2> QED BY <1>1, <2>1, <2>2, <2>3
<1> QED BY <1>2, <1>3

\* After the merge each object whose ancestors are done has, for every field, the
\* value of the leftmost parent that has one, over any number of generations and
\* with any number of objects of one ID.
THEOREM InheritanceIsRight == FSpec => []InheritsFromTheFirst
<1>1. FIInv => InheritsFromTheFirst
  <2> SUFFICES ASSUME FIInv, Merging, NEW f \in Fields, NEW o \in Complete
               PROVE  work[o].value[f] = Effective(f)[o]
    BY DEF InheritsFromTheFirst, Merging
  <2> QED BY CompleteIsMerged, MergedIsEffective DEF FIInv
<1> QED BY <1>1, Invariance, PTL

\* An object is listed under the paths that it or any of its ancestors is scoped to,
\* and under the root exactly if there is none.
THEOREM IndexIsRight == FSpec => []IndexedWhereInScope
<1>1. FIInv => IndexedWhereInScope
  <2> SUFFICES ASSUME FIInv, pc = "done", NEW o \in IDs
               PROVE  {p \in DOMAIN index : o \in index[p]}
                        = IF FamilyScope(o) = {} THEN {Root} ELSE FamilyScope(o)
    BY DEF IndexedWhereInScope, FamilyScope
  <2>1. DOMAIN work = IDs /\ work[o] \in NormalizedObject
    BY CopiedIsLast DEF FIInv
  <2>2. work[o].scope = FamilyScope(o)
    <3>1. Merging /\ o \in Complete BY <2>1 DEF Merging, Complete
    <3> QED BY <3>1, CompleteIsMerged, MergedIsEffective DEF FIInv
  <2>3. FamilyScope(o) \subseteq ScopePaths
    BY <2>1, <2>2 DEF NormalizedObject
  <2>4. index = [p \in ScopePaths \cup {Root} |->
                  {c \in DOMAIN work : p \in work[c].scope \/ (p = Root /\ work[c].scope = {})}]
    BY DEF FIInv, IInv, AnswerInv
  <2>5. \A p \in ScopePaths \cup {Root} :
          o \in index[p] <=> p \in FamilyScope(o) \/ (p = Root /\ FamilyScope(o) = {})
    BY <2>1, <2>2, <2>4
  <2>6. {p \in DOMAIN index : o \in index[p]}
          = {p \in ScopePaths \cup {Root} : p \in FamilyScope(o) \/ (p = Root /\ FamilyScope(o) = {})}
    BY <2>4, <2>5
  <2> QED BY <2>3, <2>6, NormalizerAssumption
<1> QED BY <1>1, Invariance, PTL

-----------------------------------------------------------------------------
(***************************************************************************)
(* The walks of the validator                                              *)
(***************************************************************************)

LEMMA KnownIsFinite ==
  ASSUME tree \in Seq(RawObject)
  PROVE  /\ Known \subseteq IDs /\ NoID \notin Known
         /\ IsFiniteSet(Known) /\ IsFiniteSet(Known \cup {NoID})
<1>1. Known \subseteq IDs /\ NoID \notin Known
  BY DEF Known, IDs
<1>2. IsFiniteSet(Known)
  BY <1>1, IDsAreFinite, FS_Subset
<1> QED BY <1>1, <1>2, FS_AddElement

\* One more object on the way leaves one less that is not.
LEMMA OneLessToGo ==
  ASSUME NEW D, IsFiniteSet(D), NEW V \in SUBSET D, NEW o \in D \ V
  PROVE  /\ Cardinality(D \ V) \in Nat /\ Cardinality(D \ (V \cup {o})) \in Nat
         /\ Cardinality(D \ (V \cup {o})) < Cardinality(D \ V)
<1>1. IsFiniteSet(D \ V) /\ IsFiniteSet(D \ (V \cup {o}))
  BY FS_Subset
<1>2. D \ (V \cup {o}) = (D \ V) \ {o}
  OBVIOUS
<1>3. Cardinality(D \ (V \cup {o})) = Cardinality(D \ V) - 1
  BY <1>1, <1>2, FS_RemoveElement
<1> QED BY <1>1, <1>3, FS_CardinalityType

\* What an answer depends on: the answers for longer ways.
LEMMA MeetsItselfDepends ==
  ASSUME NEW found, NEW other, NEW V, NEW to,
         \A o \in Known \ V : found[V \cup {o}] = other[V \cup {o}]
  PROVE  MeetsItself(found, V, to) <=> MeetsItself(other, V, to)
BY DEF MeetsItself

\* The recursion of the walk has a solution: one for the ways that all but fewer
\* than n + 1 objects are on comes from one for fewer than n.
LEMMA FoundEquation ==
  ASSUME tree \in Seq(RawObject), NEW walk, NEW V \in SUBSET (Known \cup {NoID})
  PROVE  Found(walk)[V] = {o \in Known : MeetsItself(Found(walk), V, Out(walk, First(o)))}
<1> DEFINE D == Known \cup {NoID}
           Left(W) == Cardinality(D \ W)
           Next1(g, W) == {o \in Known : MeetsItself(g, W, Out(walk, First(o)))}
           Solves(g, n) == /\ g = [W \in SUBSET D |-> g[W]]
                           /\ \A W \in SUBSET D : Left(W) < n => g[W] = Next1(g, W)
           Bad == {n \in Nat : ~ \E g : Solves(g, n)}
<1>1. IsFiniteSet(D) /\ \A W \in SUBSET D : Left(W) \in Nat
  BY KnownIsFinite, FS_Subset, FS_CardinalityType
<1>2. \E g : Solves(g, 0)
  <2> DEFINE h == [W \in SUBSET D |-> {}]
  <2>1. Solves(h, 0)
    <3>1. \A W \in SUBSET D : ~ (Left(W) < 0)
      <4> HIDE DEF Left
      <4> QED BY <1>1
    <3> HIDE DEF Left, Next1
    <3> QED BY <3>1
  <2> QED BY <2>1
<1>3. ASSUME NEW n \in Nat, NEW g, Solves(g, n)
      PROVE  \E h : Solves(h, n + 1)
  <2> DEFINE h == [W \in SUBSET D |-> IF Left(W) < n THEN g[W] ELSE Next1(g, W)]
  <2>1. \A W \in SUBSET D : Left(W) < n + 1 => Next1(h, W) = Next1(g, W)
    <3> SUFFICES ASSUME NEW W \in SUBSET D, Left(W) < n + 1 PROVE Next1(h, W) = Next1(g, W)
      OBVIOUS
    <3>1. ASSUME NEW o \in Known \ W PROVE h[W \cup {o}] = g[W \cup {o}]
      <4>1. W \cup {o} \in SUBSET D /\ o \in D \ W OBVIOUS
      <4>2. Left(W \cup {o}) < Left(W) /\ Left(W) \in Nat /\ Left(W \cup {o}) \in Nat
        <5> HIDE DEF D
        <5> QED BY <1>1, <4>1, OneLessToGo
      <4>3. Left(W \cup {o}) < n
        <5> HIDE DEF Left
        <5> QED BY <4>2
      <4> HIDE DEF Left, Next1, D
      <4> QED BY <4>1, <4>3
    <3> HIDE DEF h
    <3>2. \A to : MeetsItself(h, W, to) <=> MeetsItself(g, W, to)
      BY <3>1, MeetsItselfDepends
    <3> QED BY <3>2
  <2>2. \A W \in SUBSET D : h[W] = IF Left(W) < n THEN g[W] ELSE Next1(g, W)
    <3> HIDE DEF Left, Next1, D
    <3> QED OBVIOUS
  <2>3. h = [W \in SUBSET D |-> h[W]]
    <3> HIDE DEF Left, Next1, D
    <3> QED OBVIOUS
  <2>4. \A W \in SUBSET D : Left(W) < n + 1 => h[W] = Next1(h, W)
    <3> HIDE DEF Left, Next1, D, h
    <3> QED BY <1>3, <2>1, <2>2
  <2>5. Solves(h, n + 1)
    <3> HIDE DEF Left, Next1, D, h
    <3> QED BY <2>3, <2>4
  <2> QED BY <2>5
<1>4. Bad = {}
  <2> SUFFICES ASSUME Bad # {} PROVE FALSE
    OBVIOUS
  <2> HIDE DEF Solves
  <2>1. PICK m \in Bad : \A l \in Bad : m <= l
    <3>1. Bad \in SUBSET Nat OBVIOUS
    <3> HIDE DEF Bad
    <3> QED BY <3>1, Least
  <2>2. m \in Nat /\ m # 0 BY <1>2
  <2>3. m - 1 \in Nat /\ m - 1 \notin Bad /\ m - 1 + 1 = m
    <3>1. m - 1 \in Nat /\ ~ (m <= m - 1) /\ m - 1 + 1 = m BY <2>2
    <3> HIDE DEF Bad
    <3> QED BY <2>1, <3>1
  <2>4. \E g : Solves(g, m - 1) BY <2>3
  <2>5. \E g : Solves(g, m - 1 + 1) BY <1>3, <2>3, <2>4
  <2> QED BY <2>3, <2>5
<1>5. PICK g : Solves(g, Left({}) + 1)
  <2>1. Left({}) + 1 \in Nat
    <3>1. {} \in SUBSET D OBVIOUS
    <3> HIDE DEF Left, D
    <3> QED BY <1>1, <3>1
  <2> HIDE DEF Left, Solves
  <2> QED BY <1>4, <2>1
<1>6. \A W \in SUBSET D : Left(W) < Left({}) + 1
  <2> SUFFICES ASSUME NEW W \in SUBSET D PROVE Left(W) < Left({}) + 1
    OBVIOUS
  <2>1. D \ W \subseteq D \ {} /\ IsFiniteSet(D \ {}) BY <1>1
  <2>2. Left(W) <= Left({}) BY <2>1, FS_Subset
  <2>3. Left(W) \in Nat /\ Left({}) \in Nat BY <1>1
  <2> HIDE DEF Left
  <2> QED BY <2>2, <2>3
<1>7. g = [W \in SUBSET D |-> Next1(g, W)]
  <2> HIDE DEF Left, Next1, D
  <2> QED BY <1>5, <1>6
<1>8. Found(walk) = [W \in SUBSET D |-> Next1(Found(walk), W)]
  <2>1. \E from : from = [W \in SUBSET D |-> Next1(from, W)] BY <1>7
  <2> QED BY <2>1, Zenon DEF Found
<1> HIDE DEF Next1
<1>9. Found(walk)[V] = Next1(Found(walk), V)
  <2> DEFINE E == Found(walk)
             G(W) == Next1(Found(walk), W)
  <2>1. E = [W \in SUBSET D |-> G(W)] BY <1>8
  <2> HIDE DEF E, G, D
  <2>2. V \in SUBSET D => E[V] = G(V) BY <2>1
  <2> QED BY <2>2 DEF E, G, D
<1> QED BY <1>9 DEF Next1

\* A set of objects each of which has an edge into the set: what a walk cannot
\* leave.
Trap(walk, S) == S \in SUBSET Known /\ \A p \in S : Out(walk, First(p)) \cap S # {}

\* An object in a trap meets itself, whatever is on the way already: the longest
\* way on which one does not could be made longer.
LEMMA TrappedMeetsItself ==
  ASSUME tree \in Seq(RawObject), NEW walk, NEW S, Trap(walk, S),
         NEW V \in SUBSET (Known \cup {NoID}), NEW x \in S
  PROVE  x \in Found(walk)[V]
<1> DEFINE D == Known \cup {NoID}
           Left(W) == Cardinality(D \ W)
           Bad == {W \in SUBSET D : \E y \in S : y \notin Found(walk)[W]}
<1>1. IsFiniteSet(D) /\ \A W \in SUBSET D : Left(W) \in Nat
  BY KnownIsFinite, FS_Subset, FS_CardinalityType
<1>2. Bad = {}
  <2> SUFFICES ASSUME Bad # {} PROVE FALSE
    OBVIOUS
  <2>1. PICK W \in Bad : \A U \in Bad : Left(W) <= Left(U)
    <3> DEFINE L == {Left(W) : W \in Bad}
    <3>1. L \in SUBSET Nat /\ L # {}
      <4> HIDE DEF Left
      <4> QED BY <1>1
    <3>2. PICK n \in L : \A m \in L : n <= m
      <4> HIDE DEF L
      <4> QED BY <3>1, Least
    <3> HIDE DEF Left, Bad
    <3> QED BY <3>2
  <2>2. W \in SUBSET D OBVIOUS
  <2>3. PICK y \in S : y \notin Found(walk)[W] OBVIOUS
  <2>4. PICK o \in Out(walk, First(y)) : o \in S BY DEF Trap
  <2>5. y \in Known /\ o \in Known BY <2>4 DEF Trap
  <2>6. ~ MeetsItself(Found(walk), W, Out(walk, First(y)))
    BY <2>2, <2>3, <2>5, FoundEquation
  <2>7. o \notin W /\ o \notin Found(walk)[W \cup {o}]
    BY <2>4, <2>5, <2>6 DEF MeetsItself
  <2>8. W \cup {o} \in Bad BY <2>2, <2>4, <2>5, <2>7
  <2>9. Left(W \cup {o}) < Left(W) /\ Left(W) \in Nat /\ Left(W \cup {o}) \in Nat
    <3>1. o \in D \ W BY <2>5, <2>7
    <3> HIDE DEF D
    <3> QED BY <1>1, <2>2, <3>1, OneLessToGo
  <2>10. Left(W) <= Left(W \cup {o})
    <3> HIDE DEF Left, Bad
    <3> QED BY <2>1, <2>8
  <2> HIDE DEF Left, Bad
  <2> QED BY <2>9, <2>10
<1> QED BY <1>2

\* And one that meets itself has led into a trap: the way, from the start on, is
\* one as soon as its last object leads back to it.
LEMMA MeetingItselfIsTrapped ==
  ASSUME tree \in Seq(RawObject), NEW walk,
         NEW V \in SUBSET Known, NEW x \in V, x \in Found(walk)[V],
         \A v \in V \ {x} : Out(walk, First(v)) \cap V # {}
  PROVE  \E S : Trap(walk, S) /\ V \subseteq S
<1> DEFINE Left(W) == Cardinality(Known \ W)
           Way(W, y) == /\ y \in W /\ y \in Found(walk)[W]
                        /\ \A v \in W \ {y} : Out(walk, First(v)) \cap W # {}
           Bad == {W \in SUBSET Known : (\E y : Way(W, y)) /\ ~ \E S : Trap(walk, S) /\ W \subseteq S}
<1>1. IsFiniteSet(Known) /\ \A W \in SUBSET Known : Left(W) \in Nat
  BY KnownIsFinite, FS_Subset, FS_CardinalityType
<1>2. Bad = {}
  <2> SUFFICES ASSUME Bad # {} PROVE FALSE
    OBVIOUS
  <2>1. PICK W \in Bad : \A U \in Bad : Left(W) <= Left(U)
    <3> DEFINE L == {Left(W) : W \in Bad}
    <3>1. L \in SUBSET Nat /\ L # {}
      <4>1. Bad \subseteq SUBSET Known OBVIOUS
      <4> HIDE DEF Left, Bad
      <4> QED BY <1>1, <4>1
    <3>2. PICK n \in L : \A m \in L : n <= m
      <4> HIDE DEF L
      <4> QED BY <3>1, Least
    <3> HIDE DEF Left, Bad
    <3> QED BY <3>2
  <2>2. W \in SUBSET Known /\ ~ \E S : Trap(walk, S) /\ W \subseteq S OBVIOUS
  <2>3. PICK y : Way(W, y) OBVIOUS
  <2>4. MeetsItself(Found(walk), W, Out(walk, First(y)))
    <3>1. W \in SUBSET (Known \cup {NoID}) BY <2>2
    <3> QED BY <2>3, <3>1, FoundEquation
  <2>5. PICK o \in Out(walk, First(y)) : o \in W \/ (o \in Known /\ o \in Found(walk)[W \cup {o}])
    BY <2>4 DEF MeetsItself
  <2>6. o \notin W
    <3> SUFFICES ASSUME o \in W PROVE FALSE
      OBVIOUS
    <3>1. \A v \in W : Out(walk, First(v)) \cap W # {} BY <2>3, <2>5
    <3> QED BY <2>2, <3>1 DEF Trap
  <2>7. o \in Known /\ o \in Found(walk)[W \cup {o}] BY <2>5, <2>6
  <2>8. Way(W \cup {o}, o)
    <3>1. ASSUME NEW v \in (W \cup {o}) \ {o} PROVE Out(walk, First(v)) \cap (W \cup {o}) # {}
      BY <2>3, <2>5
    <3> QED BY <2>7, <3>1
  <2>9. W \cup {o} \in Bad
    <3>1. W \cup {o} \in SUBSET Known BY <2>2, <2>7
    <3>2. ~ \E S : Trap(walk, S) /\ W \cup {o} \subseteq S BY <2>2
    <3> HIDE DEF Way
    <3> QED BY <2>8, <3>1, <3>2
  <2>10. Left(W \cup {o}) < Left(W) /\ Left(W) \in Nat /\ Left(W \cup {o}) \in Nat
    BY <1>1, <2>2, <2>6, <2>7, OneLessToGo
  <2>11. Left(W) <= Left(W \cup {o})
    <3> HIDE DEF Left, Bad
    <3> QED BY <2>1, <2>9
  <2> HIDE DEF Left, Bad
  <2> QED BY <2>10, <2>11
<1>3. Way(V, x)
  OBVIOUS
<1> HIDE DEF Way
<1> QED BY <1>2, <1>3

\* The first object with an ID.
LEMMA FirstIsFirst ==
  ASSUME tree \in Seq(RawObject), NEW o \in IDs
  PROVE  /\ First(o) \in Position /\ tree[First(o)].id = o
         /\ \A j \in Position : tree[j].id = o => First(o) <= j
<1> DEFINE I == {i \in Position : tree[i].id = o}
<1>1. Position = 1 .. Len(tree) /\ Len(tree) \in Nat
  BY DEF Position
<1>2. PICK i \in I : \A j \in I : i <= j
  <2>1. I \in SUBSET Nat /\ I # {} BY <1>1 DEF IDs
  <2> HIDE DEF I
  <2> QED BY <2>1, Least
<1>3. \E k \in Position : tree[k].id = o /\ \A j \in 1 .. k - 1 : tree[j].id # o
  <2>1. \A j \in 1 .. i - 1 : tree[j].id # o BY <1>1, <1>2
  <2> QED BY <1>2, <2>1
<1>4. First(o) \in Position /\ tree[First(o)].id = o /\ \A j \in 1 .. First(o) - 1 : tree[j].id # o
  BY <1>3 DEF First
<1>5. ASSUME NEW j \in Position, tree[j].id = o PROVE First(o) <= j
  BY <1>1, <1>4, <1>5
<1> QED BY <1>4, <1>5

Alone(i) == tree[i].id # NoID /\ \A j \in Position \ {i} : tree[j].id # tree[i].id

LEMMA AloneIsFirst ==
  ASSUME tree \in Seq(RawObject), NEW i \in Position, Alone(i)
  PROVE  tree[i].id \in Known /\ First(tree[i].id) = i
<1>1. tree[i].id \in IDs /\ tree[i].id \in Known
  BY DEF IDs, Known, Alone
<1> QED BY <1>1, FirstIsFirst DEF Alone

\* For an object whose ID is its own, the walk finds a cycle exactly if the object
\* leads to one.
LEMMA DetectsCycles ==
  ASSUME tree \in Seq(RawObject), NEW walk, NEW i \in Position, Alone(i)
  PROVE  DetectCycle(walk, i) <=> Leads(walk, tree[i].id)
<1> DEFINE o == tree[i].id
<1>1. o \in Known /\ First(o) = i
  BY AloneIsFirst
<1>2. DetectCycle(walk, i) <=> o \in Found(walk)[{o}]
  <2>1. {o} \in SUBSET (Known \cup {NoID}) BY <1>1
  <2>2. Found(walk)[{o}] = {p \in Known : MeetsItself(Found(walk), {o}, Out(walk, First(p)))}
    BY <2>1, FoundEquation
  <2> QED BY <1>1, <2>2 DEF DetectCycle
<1>3. Leads(walk, o) <=> \E S : Trap(walk, S) /\ o \in S
  BY DEF Leads, Trap
<1>4. ASSUME NEW S, Trap(walk, S), o \in S PROVE o \in Found(walk)[{o}]
  <2>1. {o} \in SUBSET (Known \cup {NoID}) BY <1>1
  <2> HIDE DEF o
  <2> QED BY <1>4, <2>1, TrappedMeetsItself
<1>5. ASSUME o \in Found(walk)[{o}] PROVE \E S : Trap(walk, S) /\ o \in S
  <2>1. {o} \in SUBSET Known /\ o \in {o} BY <1>1
  <2>2. \A v \in {o} \ {o} : Out(walk, First(v)) \cap {o} # {} OBVIOUS
  <2> HIDE DEF o
  <2>3. \E S : Trap(walk, S) /\ {o} \subseteq S BY <1>5, <2>1, <2>2, MeetingItselfIsTrapped
  <2> QED BY <2>3
<1> QED BY <1>2, <1>3, <1>4, <1>5

-----------------------------------------------------------------------------
(***************************************************************************)
(* The verdict                                                             *)
(***************************************************************************)

AllDiags ==
  (UNION {Structural(i) : i \in Position})
    \cup CheckDuplicateIDs \cup CheckReferences \cup CheckCircularInheritance
    \cup CheckCircularDelegation \cup CheckToolExpressions

Codes == {"id", "schema", "duplicate", "reference", "inheritance", "delegation", "tools"}

LEMMA DiagsByCheck ==
  ASSUME NEW d
  PROVE  d \in AllDiags <=> \/ \E i \in Position : d \in Structural(i)
                            \/ d \in CheckDuplicateIDs
                            \/ d \in CheckReferences
                            \/ d \in CheckCircularInheritance
                            \/ d \in CheckCircularDelegation
                            \/ d \in CheckToolExpressions
<1> DEFINE U == UNION {Structural(i) : i \in Position}
<1>1. d \in U <=> \E i \in Position : d \in Structural(i)
  OBVIOUS
<1>2. AllDiags = U \cup CheckDuplicateIDs \cup CheckReferences \cup CheckCircularInheritance
                   \cup CheckCircularDelegation \cup CheckToolExpressions
  BY DEF AllDiags
<1> HIDE DEF U
<1> QED BY <1>1, <1>2

LEMMA NotAloneIsWrong ==
  ASSUME NEW i \in Position, ~ Alone(i)
  PROVE  Wrong(i)
BY DEF Alone, Wrong

\* What has a diagnostic is at fault.
LEMMA DiagnosedIsWrong ==
  ASSUME tree \in Seq(RawObject)
  PROVE  AllDiags \subseteq Codes \X Position /\ \A d \in AllDiags : Wrong(d[2])
<1> SUFFICES ASSUME NEW d \in AllDiags PROVE d \in Codes \X Position /\ Wrong(d[2])
  OBVIOUS
<1>1. CASE \E i \in Position : d \in Structural(i)
  <2>1. PICK i \in Position : d \in Structural(i) BY <1>1
  <2>2. \/ d = <<"id", i>> /\ tree[i].id = NoID
        \/ d = <<"schema", i>> /\ ~ tree[i].valid
    BY <2>1 DEF Structural
  <2>3. Wrong(i) BY <2>2 DEF Wrong
  <2> QED BY <2>2, <2>3 DEF Codes
<1>2. CASE d \in CheckDuplicateIDs
  <2>1. PICK i \in Position : d = <<"duplicate", i>> /\ tree[i].id \in Known /\ First(tree[i].id) # i
    BY <1>2 DEF CheckDuplicateIDs
  <2>2. First(tree[i].id) \in Position /\ tree[First(tree[i].id)].id = tree[i].id
    BY FirstIsFirst DEF IDs
  <2>3. Wrong(i) BY <2>1, <2>2 DEF Wrong
  <2> QED BY <2>1, <2>3 DEF Codes
<1>3. CASE d \in CheckReferences
  <2>1. PICK i \in Position :
          /\ d = <<"reference", i>> /\ tree[i].kind = "agent"
          /\ \E r \in DOMAIN KindOf : \E o \in tree[i].refs[r] : o \notin Known \/ tree[First(o)].kind # KindOf[r]
    BY <1>3 DEF CheckReferences
  <2>2. PICK r \in DOMAIN KindOf : \E o \in tree[i].refs[r] : o \notin Known \/ tree[First(o)].kind # KindOf[r]
    BY <2>1
  <2>3. PICK o \in tree[i].refs[r] : o \notin Known \/ tree[First(o)].kind # KindOf[r]
    BY <2>2
  <2>4. o \in Known => First(o) \in Position /\ tree[First(o)].id = o
    BY KnownIsFinite, FirstIsFirst
  <2>5. Misleads(o, KindOf[r]) BY <2>3, <2>4 DEF Misleads
  <2>6. Wrong(i) BY <2>1, <2>5 DEF Wrong
  <2> QED BY <2>1, <2>6 DEF Codes
<1>4. CASE d \in CheckCircularInheritance
  <2>1. PICK i \in Position : d = <<"inheritance", i>> /\ DetectCycle("inheritance", i)
    BY <1>4 DEF CheckCircularInheritance
  <2>2. Alone(i) => Leads("inheritance", tree[i].id) BY <2>1, DetectsCycles
  <2>3. Wrong(i) BY <2>2, NotAloneIsWrong DEF Wrong
  <2> QED BY <2>1, <2>3 DEF Codes
<1>5. CASE d \in CheckCircularDelegation
  <2>1. PICK i \in Position : d = <<"delegation", i>> /\ DetectCycle("delegation", i)
    BY <1>5 DEF CheckCircularDelegation
  <2>2. Alone(i) => Leads("delegation", tree[i].id) BY <2>1, DetectsCycles
  <2>3. Wrong(i) BY <2>2, NotAloneIsWrong DEF Wrong
  <2> QED BY <2>1, <2>3 DEF Codes
<1>6. CASE d \in CheckToolExpressions
  <2>1. PICK i \in Position :
          d = <<"tools", i>> /\ tree[i].kind \in {"skill", "agent"} /\ tree[i].tools = "malformed"
    BY <1>6 DEF CheckToolExpressions
  <2>2. Wrong(i) BY <2>1 DEF Wrong
  <2> QED BY <2>1, <2>2 DEF Codes
<1> QED BY <1>1, <1>2, <1>3, <1>4, <1>5, <1>6, DiagsByCheck

\* What is at fault has a diagnostic, if no two objects have one ID.
LEMMA WrongIsDiagnosed ==
  ASSUME tree \in Seq(RawObject), \A i, j \in Position : tree[i].id = tree[j].id => i = j,
         NEW i \in Position, Wrong(i)
  PROVE  \E d \in AllDiags : d[2] = i
<1> DEFINE o == tree[i]
<1>1. CASE o.id = NoID
  <2>1. <<"id", i>> \in Structural(i) BY <1>1 DEF Structural
  <2>2. <<"id", i>> \in AllDiags BY <2>1, DiagsByCheck
  <2> QED BY <2>2
<1>2. CASE ~ o.valid
  <2>1. <<"schema", i>> \in Structural(i) BY <1>2 DEF Structural
  <2>2. <<"schema", i>> \in AllDiags BY <2>1, DiagsByCheck
  <2> QED BY <2>2
<1>3. CASE o.kind \in {"skill", "agent"} /\ o.tools = "malformed"
  <2>1. <<"tools", i>> \in CheckToolExpressions BY <1>3 DEF CheckToolExpressions
  <2>2. <<"tools", i>> \in AllDiags BY <2>1, DiagsByCheck
  <2> QED BY <2>2
<1>4. CASE o.kind = "agent" /\ \E r \in DOMAIN KindOf : \E p \in o.refs[r] : Misleads(p, KindOf[r])
  <2>1. PICK r \in DOMAIN KindOf : \E p \in o.refs[r] : Misleads(p, KindOf[r]) BY <1>4
  <2>2. PICK p \in o.refs[r] : Misleads(p, KindOf[r]) BY <2>1
  <2>3. p \notin Known \/ tree[First(p)].kind # KindOf[r]
    <3> SUFFICES ASSUME p \in Known PROVE tree[First(p)].kind # KindOf[r]
      OBVIOUS
    <3>1. PICK j \in Position : tree[j].id = p /\ tree[j].kind # KindOf[r] BY <2>2 DEF Misleads
    <3>2. First(p) \in Position /\ tree[First(p)].id = p BY KnownIsFinite, FirstIsFirst
    <3>3. First(p) = j BY <3>1, <3>2
    <3> QED BY <3>1, <3>3
  <2>4. <<"reference", i>> \in CheckReferences BY <1>4, <2>2, <2>3 DEF CheckReferences
  <2>5. <<"reference", i>> \in AllDiags BY <2>4, DiagsByCheck
  <2> QED BY <2>5
<1>5. ASSUME o.id # NoID PROVE Alone(i)
  BY <1>5 DEF Alone
<1>6. CASE o.id # NoID /\ Leads("inheritance", o.id)
  <2>1. DetectCycle("inheritance", i) BY <1>5, <1>6, DetectsCycles
  <2>2. <<"inheritance", i>> \in CheckCircularInheritance BY <2>1 DEF CheckCircularInheritance
  <2>3. <<"inheritance", i>> \in AllDiags BY <2>2, DiagsByCheck
  <2> QED BY <2>3
<1>7. CASE o.id # NoID /\ Leads("delegation", o.id)
  <2>1. DetectCycle("delegation", i) BY <1>5, <1>7, DetectsCycles
  <2>2. <<"delegation", i>> \in CheckCircularDelegation BY <2>1 DEF CheckCircularDelegation
  <2>3. <<"delegation", i>> \in AllDiags BY <2>2, DiagsByCheck
  <2> QED BY <2>3
<1>8. ~ \E j \in Position \ {i} : tree[j].id = o.id
  OBVIOUS
<1> QED BY <1>1, <1>2, <1>3, <1>4, <1>6, <1>7, <1>8 DEF Wrong

LEMMA NoDiagsNoDuplicates ==
  ASSUME tree \in Seq(RawObject), AllDiags = {}
  PROVE  \A i, j \in Position : tree[i].id = tree[j].id => i = j
<1>1. ASSUME NEW i \in Position PROVE First(tree[i].id) = i
  <2>1. tree[i].id # NoID
    <3>1. <<"id", i>> \notin Structural(i) BY DiagsByCheck
    <3> QED BY <3>1 DEF Structural
  <2>2. tree[i].id \in Known BY <2>1 DEF Known
  <2>3. <<"duplicate", i>> \notin CheckDuplicateIDs BY DiagsByCheck
  <2> QED BY <2>2, <2>3 DEF CheckDuplicateIDs
<1> QED BY <1>1

\* Of every tree the checks together find nothing exactly if nothing is wrong; and
\* if no ID is there twice they name exactly the objects at fault.
THEOREM VerdictOnTree ==
  ASSUME tree \in Seq(RawObject)
  PROVE  /\ AllDiags = {} <=> \A i \in Position : ~ Wrong(i)
         /\ (\A i, j \in Position : tree[i].id = tree[j].id => i = j) =>
              {d[2] : d \in AllDiags} = {i \in Position : Wrong(i)}
<1>1. \A d \in AllDiags : d[2] \in Position /\ Wrong(d[2])
  BY DiagnosedIsWrong
<1>2. ASSUME AllDiags = {}, NEW i \in Position PROVE ~ Wrong(i)
  BY <1>2, NoDiagsNoDuplicates, WrongIsDiagnosed
<1>3. ASSUME \A i, j \in Position : tree[i].id = tree[j].id => i = j
      PROVE  {d[2] : d \in AllDiags} = {i \in Position : Wrong(i)}
  <2>1. \A i \in Position : Wrong(i) => \E d \in AllDiags : d[2] = i
    BY <1>3, WrongIsDiagnosed
  <2> QED BY <1>1, <2>1
<1> QED BY <1>1, <1>2, <1>3

\* A stage that leaves the tree alone leaves what is wrong with it.
LEMMA SameVerdict ==
  ASSUME tree' = tree
  PROVE  /\ Position' = Position
         /\ \A i : Wrong(i)' <=> Wrong(i)
         /\ \A i : Structural(i)' = Structural(i)
         /\ AllDiags' = AllDiags
<1>1. Position' = Position /\ Known' = Known
  BY DEF Position, Known
<1>2. \A o : First(o)' = First(o)
  BY Zenon DEF First, Position
<1>3. \A walk, i : Out(walk, i)' = Out(walk, i)
  BY Zenon DEF Out
<1>4. \A walk, o : Leads(walk, o)' <=> Leads(walk, o)
  BY <1>1, <1>2, <1>3 DEF Leads
<1>5. \A p, kind : Misleads(p, kind)' <=> Misleads(p, kind)
  BY <1>1 DEF Misleads
<1>6. \A i : Wrong(i)' <=> Wrong(i)
  BY <1>1, <1>4, <1>5 DEF Wrong
<1>7. \A i : Structural(i)' = Structural(i)
  BY DEF Structural
<1>8. \A walk : Found(walk)' = Found(walk)
  <2> SUFFICES ASSUME NEW walk PROVE Found(walk)' = Found(walk)
    OBVIOUS
  <2> DEFINE Next1(g, V) == {o \in Known : MeetsItself(g, V, Out(walk, First(o)))}
  <2>1. Found(walk) = CHOOSE g : g = [V \in SUBSET (Known \cup {NoID}) |-> Next1(g, V)]
    BY Zenon DEF Found
  <2>2. Found(walk)' = CHOOSE g : g = [V \in SUBSET (Known' \cup {NoID}) |-> Next1(g, V)']
    BY Zenon DEF Found
  <2>3. \A g, V : Next1(g, V)' = Next1(g, V)
    <3>1. \A g, V, to : MeetsItself(g, V, to)' <=> MeetsItself(g, V, to)
      BY <1>1 DEF MeetsItself
    <3> QED BY <1>1, <1>2, <1>3, <3>1
  <2> HIDE DEF Next1
  <2> QED BY <1>1, <2>1, <2>2, <2>3
<1>9. \A walk, i : DetectCycle(walk, i)' <=> DetectCycle(walk, i)
  BY <1>1, <1>3, <1>8 DEF DetectCycle, MeetsItself
<1>10. /\ CheckDuplicateIDs' = CheckDuplicateIDs
       /\ CheckReferences' = CheckReferences
       /\ CheckToolExpressions' = CheckToolExpressions
  <2>1. CheckDuplicateIDs' = CheckDuplicateIDs
    BY <1>1, <1>2 DEF CheckDuplicateIDs
  <2>2. CheckReferences' = CheckReferences
    BY <1>1, <1>2 DEF CheckReferences
  <2> QED BY <1>1, <2>1, <2>2 DEF CheckToolExpressions
<1>11. CheckCircularInheritance' = CheckCircularInheritance /\ CheckCircularDelegation' = CheckCircularDelegation
  BY <1>1, <1>9 DEF CheckCircularInheritance, CheckCircularDelegation
<1>12. AllDiags' = AllDiags
  BY <1>1, <1>7, <1>10, <1>11 DEF AllDiags
<1> QED BY <1>1, <1>6, <1>7, <1>12

\* Where there is a cycle, there is a set of objects that each extend one of it.
LEMMA CyclicIsTrapped ==
  IsCyclic => \E S \in SUBSET IDs : S # {} /\ \A a \in S : ParentSet(a) \cap S # {}
<1> SUFFICES ASSUME IsCyclic PROVE \E S \in SUBSET IDs : S # {} /\ \A a \in S : ParentSet(a) \cap S # {}
  OBVIOUS
<1>1. PICK o \in IDs : o \in Ancestors(o)
  BY DEF IsCyclic
<1> DEFINE S == {a \in IDs : o \in Ancestors(a)}
<1>2. ASSUME NEW a \in S PROVE ParentSet(a) \cap S # {}
  <2>1. o \in ParentSet(a) \/ \E p \in ParentSet(a) \cap IDs : o \in Ancestors(p)
    BY AncestorsOfParents
  <2> QED BY <1>1, <2>1
<1> QED BY <1>1, <1>2

LEMMA CyclicIsTrappedNext == (IsCyclic => \E S \in SUBSET IDs : S # {} /\ \A a \in S : ParentSet(a) \cap S # {})'
BY CyclicIsTrapped, PTL

LEMMA LastRawNext == (tree \in Seq(RawObject) => \A o \in IDs : LastRaw(o) \in Position /\ tree[LastRaw(o)].id = o)'
<1>1. tree \in Seq(RawObject) => \A o \in IDs : LastRaw(o) \in Position /\ tree[LastRaw(o)].id = o
  BY LastRawIsLast
<1> QED BY <1>1, PTL

\* What packages add to a tree without a fault closes no circle.
LEMMA ResolvedIsNotCyclic ==
  ASSUME FIInv, input \in Inputs, ResolveDependencies, \A i \in Position : ~ Wrong(i)
  PROVE  ~ IsCyclic'
<1> SUFFICES ASSUME IsCyclic' PROVE FALSE
  OBVIOUS
<1>1. /\ tree \in Seq(RawObject) /\ input.external \in Seq(RawObject) /\ tree' = tree \o input.external
      /\ \A k \in DOMAIN input.external : input.external[k].extends = <<>>
      /\ tree' \in Seq(RawObject)
  BY FrontEndAssumption DEF FIInv, Input, ResolveDependencies
<1>2. /\ Len(tree) \in Nat /\ Len(input.external) \in Nat /\ Len(tree') = Len(tree) + Len(input.external)
      /\ Position = 1 .. Len(tree) /\ Position' = 1 .. Len(tree) + Len(input.external)
      /\ \A i \in Position : tree'[i] = tree[i]
      /\ \A i \in Position' \ Position : tree'[i].extends = <<>>
  <2>1. /\ Len(tree) \in Nat /\ Len(input.external) \in Nat /\ Len(tree') = Len(tree) + Len(input.external)
        /\ Position = 1 .. Len(tree) /\ Position' = 1 .. Len(tree) + Len(input.external)
    BY <1>1 DEF Position
  <2>2. \A i \in Position : tree'[i] = tree[i] BY <1>1, <2>1
  <2>3. ASSUME NEW i \in Position' \ Position PROVE tree'[i].extends = <<>>
    <3>1. i - Len(tree) \in DOMAIN input.external /\ tree'[i] = input.external[i - Len(tree)]
      BY <1>1, <2>1
    <3> QED BY <1>1, <3>1
  <2> QED BY <2>1, <2>2, <2>3
<1>3. PICK S \in SUBSET (IDs') : S # {} /\ \A a \in S : ParentSet(a)' \cap S # {}
  BY CyclicIsTrappedNext
<1>4. ASSUME NEW a \in S
      PROVE  /\ a \in Known
             /\ \A p \in ParentSet(a)' : p \in Out("inheritance", First(a))
  <2> DEFINE l == LastRaw(a)'
  <2>1. l \in Position' /\ tree'[l].id = a
    BY <1>1, <1>3, LastRawNext
  <2>2. Parents(a)' = tree'[l].extends BY DEF Parents
  <2>3. l \in Position
    <3> SUFFICES ASSUME l \notin Position PROVE FALSE
      OBVIOUS
    <3> HIDE DEF l
    <3>1. Parents(a)' = <<>> BY <1>2, <2>1, <2>2
    <3>2. ParentSet(a)' = {} BY <3>1 DEF ParentSet
    <3> QED BY <1>3, <3>2
  <2> HIDE DEF l
  <2>4. tree[l].id = a /\ Alone(l)
    <3>1. tree[l].id = a BY <1>2, <2>1, <2>3
    <3> QED BY <2>3, <3>1, NotAloneIsWrong
  <2>5. a \in Known /\ First(a) = l BY <1>1, <2>3, <2>4, AloneIsFirst
  <2>6. Parents(a)' = tree[First(a)].extends BY <1>2, <2>2, <2>3, <2>5
  <2>7. ParentSet(a)' = Out("inheritance", First(a))
    BY <2>6 DEF ParentSet, Out
  <2> QED BY <2>5, <2>7
<1>5. Trap("inheritance", S)
  BY <1>3, <1>4 DEF Trap
<1>6. PICK a \in S : TRUE
  BY <1>3
<1>7. Leads("inheritance", a) /\ a \in Known
  BY <1>4, <1>5, <1>6 DEF Leads, Trap
<1>8. First(a) \in Position /\ tree[First(a)].id = a
  BY <1>1, <1>7, KnownIsFinite, FirstIsFirst
<1> QED BY <1>7, <1>8 DEF Wrong

-----------------------------------------------------------------------------
(***************************************************************************)
(* The front end                                                           *)
(***************************************************************************)

\* The first n files have been parsed.
Parsed(n) ==
  /\ Len(tree) = Cardinality({k \in 1 .. n : input.files[k].form = "object"})
  /\ \A k \in 1 .. n :
       IF input.files[k].form = "object" THEN \E i \in Position : tree[i] = input.files[k].object
       ELSE input.files[k].form = "other"

Sorted == \A i, j \in Position : i < j => tree[i].id <= tree[j].id

\* What the stages before the normalizer have found out, by the stage they are in.
EarlyInv ==
  /\ input \in Inputs
  /\ phase \in {"parse", "structural", "resolve", "normalize", "refused"}
  /\ at \in 1 .. Len(input.files) + 1
  /\ diags \subseteq Codes \X Position
  /\ phase = "parse" => diags = {} /\ Parsed(at - 1)
  /\ phase = "structural" =>
       /\ Parsed(Len(input.files)) /\ Sorted
       /\ at <= Len(tree) + 1
       /\ diags = UNION {Structural(i) : i \in 1 .. at - 1}
  /\ phase = "resolve" => diags = AllDiags
  /\ phase = "normalize" => (diags = {} => ~ IsCyclic)
  /\ phase = "refused" => \A d \in diags : Wrong(d[2])

\* There are no more objects than files.
LEMMA ParsedBounds ==
  ASSUME FIInv, NEW n \in Nat, Parsed(n)
  PROVE  Len(tree) <= n
<1> DEFINE K == {k \in 1 .. n : input.files[k].form = "object"}
<1>1. IsFiniteSet(1 .. n) /\ Cardinality(1 .. n) = n
  <2>1. 1 \in Int /\ n \in Int OBVIOUS
  <2>2. IsFiniteSet(1 .. n) /\ Cardinality(1 .. n) = IF 1 > n THEN 0 ELSE n - 1 + 1
    BY <2>1, FS_Interval
  <2> QED BY <2>2
<1>2. Cardinality(K) <= n
  <2>1. K \in SUBSET (1 .. n) OBVIOUS
  <2> HIDE DEF K
  <2> QED BY <1>1, <2>1, FS_Subset
<1> QED BY <1>2 DEF Parsed

LEMMA ParseFileEarly ==
  ASSUME FIInv, EarlyInv, ParseFile
  PROVE  EarlyInv'
<1> DEFINE f == input.files[at]
           K(n) == {k \in 1 .. n : input.files[k].form = "object"}
<1>1. /\ phase = "parse" /\ at \in 1 .. Len(input.files) /\ at' = at + 1 /\ UNCHANGED <<input, diags>>
      /\ diags = {} /\ Parsed(at - 1) /\ input \in Inputs /\ Len(input.files) \in Nat /\ f \in File
  <2>1. phase = "parse" /\ at \in 1 .. Len(input.files) /\ at' = at + 1 /\ UNCHANGED <<input, diags>>
    BY DEF ParseFile, EarlyInv
  <2>2. input.files \in Seq(File) BY DEF FIInv, Input
  <2> QED BY <2>1, <2>2 DEF EarlyInv
<1>2. CASE f.form = "broken" /\ phase' = "refused" /\ UNCHANGED tree
  BY <1>1, <1>2 DEF EarlyInv, Codes
<1>3. IsFiniteSet(K(at - 1)) /\ at \notin K(at - 1)
  <2>1. 1 \in Int /\ at - 1 \in Int BY <1>1
  <2>2. IsFiniteSet(1 .. at - 1) BY <2>1, FS_Interval
  <2>3. K(at - 1) \in SUBSET (1 .. at - 1) OBVIOUS
  <2>4. at \notin 1 .. at - 1 BY <1>1
  <2> HIDE DEF K
  <2> QED BY <2>2, <2>3, <2>4, FS_Subset
<1>4. \A k \in 1 .. at : k \in 1 .. at - 1 \/ k = at
  BY <1>1
<1>5. Len(tree) = Cardinality(K(at - 1)) /\ \A k \in 1 .. at - 1 :
         IF input.files[k].form = "object" THEN \E i \in Position : tree[i] = input.files[k].object
         ELSE input.files[k].form = "other"
  BY <1>1 DEF Parsed
<1>6. at' - 1 = at
  BY <1>1
<1>7. CASE f.form = "other" /\ UNCHANGED <<tree, phase>>
  <2>1. K(at) = K(at - 1) BY <1>1, <1>4, <1>7
  <2>2. Parsed(at - 1)'
    <3>1. Position' = Position BY <1>7 DEF Position
    <3>2. Len(tree') = Cardinality(K(at))
      <4> HIDE DEF K
      <4> QED BY <1>5, <1>7, <2>1
    <3>3. \A k \in 1 .. at :
            IF input.files[k].form = "object" THEN \E i \in Position : tree[i] = input.files[k].object
            ELSE input.files[k].form = "other"
      BY <1>4, <1>5, <1>7
    <3> QED BY <1>1, <1>6, <1>7, <3>1, <3>2, <3>3 DEF Parsed
  <2> QED BY <1>1, <1>7, <2>2 DEF EarlyInv
<1>8. CASE f.form = "object" /\ tree' = Append(tree, f.object) /\ UNCHANGED phase
  <2>1. /\ Len(tree) \in Nat /\ Len(tree') = Len(tree) + 1
        /\ Position = 1 .. Len(tree) /\ Position' = 1 .. Len(tree) + 1
        /\ tree'[Len(tree) + 1] = f.object
        /\ \A i \in Position : tree'[i] = tree[i]
    <3>1. tree \in Seq(RawObject) /\ f.object \in RawObject
      BY <1>1 DEF FIInv, File
    <3> HIDE DEF f
    <3> QED BY <1>8, <3>1 DEF Position
  <2>2. K(at) = K(at - 1) \cup {at} BY <1>1, <1>4, <1>8
  <2>3. Cardinality(K(at)) = Cardinality(K(at - 1)) + 1
    <3> HIDE DEF K
    <3> QED BY <1>3, <2>2, FS_AddElement
  <2>4. Parsed(at - 1)'
    <3>1. Len(tree') = Cardinality(K(at))
      <4> HIDE DEF K
      <4> QED BY <1>5, <2>1, <2>3
    <3>2. \A k \in 1 .. at :
            IF input.files[k].form = "object" THEN \E i \in Position' : tree'[i] = input.files[k].object
            ELSE input.files[k].form = "other"
      <4> SUFFICES ASSUME NEW k \in 1 .. at
                   PROVE  IF input.files[k].form = "object" THEN \E i \in Position' : tree'[i] = input.files[k].object
                          ELSE input.files[k].form = "other"
        OBVIOUS
      <4>1. CASE k = at
        <5>1. Len(tree) + 1 \in Position' BY <2>1
        <5> QED BY <1>8, <2>1, <4>1, <5>1
      <4>2. CASE k # at
        <5>1. k \in 1 .. at - 1 BY <1>4, <4>2
        <5>2. Position \subseteq Position' BY <2>1
        <5> QED BY <1>5, <2>1, <5>1, <5>2
      <4> QED BY <4>1, <4>2
    <3> QED BY <1>1, <1>6, <3>1, <3>2 DEF Parsed
  <2> QED BY <1>1, <1>8, <2>4 DEF EarlyInv
<1> QED BY <1>2, <1>7, <1>8 DEF ParseFile

\* Sorting neither loses an object nor adds one.
LEMMA SortObjectsEarly ==
  ASSUME FIInv, EarlyInv, SortObjects
  PROVE  EarlyInv'
<1>1. /\ phase = "parse" /\ at = Len(input.files) + 1 /\ phase' = "structural" /\ at' = 1
      /\ UNCHANGED <<input, diags>> /\ diags = {} /\ Parsed(Len(input.files))
      /\ input \in Inputs /\ Len(input.files) \in Nat
  <2>1. Len(input.files) \in Nat BY DEF FIInv, Input
  <2>2. at = Len(input.files) + 1 /\ phase = "parse" BY <2>1 DEF SortObjects, EarlyInv
  <2>3. at - 1 = Len(input.files) BY <2>1, <2>2
  <2> QED BY <2>1, <2>2, <2>3 DEF SortObjects, EarlyInv
<1>2. PICK p \in SetToSeqs(Position) :
        /\ \A i, j \in Position : i < j => tree[p[i]].id <= tree[p[j]].id
        /\ tree' = [i \in Position |-> tree[p[i]]]
  BY DEF SortObjects
<1>3. /\ Len(tree) \in Nat /\ Position = 1 .. Len(tree)
      /\ IsFiniteSet(Position) /\ Cardinality(Position) = Len(tree)
  <2>1. Len(tree) \in Nat /\ Position = 1 .. Len(tree) BY DEF FIInv, Position
  <2>2. 1 \in Int /\ Len(tree) \in Int BY <2>1
  <2>3. /\ IsFiniteSet(1 .. Len(tree))
        /\ Cardinality(1 .. Len(tree)) = IF 1 > Len(tree) THEN 0 ELSE Len(tree) - 1 + 1
    BY <2>2, FS_Interval
  <2> QED BY <2>1, <2>3
<1>4. p \in Injection(Position, Position)
  BY <1>3 DEF SetToSeqs, Injection, IsInjective
<1>5. p \in Surjection(Position, Position)
  BY <1>3, <1>4, FS_Injection
<1>6. /\ \A i \in Position : p[i] \in Position
      /\ \A j \in Position : \E i \in Position : p[i] = j
  BY <1>5 DEF Surjection
<1>7. Len(tree') = Len(tree) /\ Position' = Position
  <2>1. tree' \in Seq(RawObject) BY EarlierStage
  <2>2. DOMAIN tree' = Position BY <1>2
  <2> QED BY <1>3, <2>1, <2>2 DEF Position
<1>8. Parsed(Len(input.files))'
  <2>1. \A k \in 1 .. Len(input.files) :
          IF input.files[k].form = "object" THEN \E i \in Position : tree'[i] = input.files[k].object
          ELSE input.files[k].form = "other"
    <3> SUFFICES ASSUME NEW k \in 1 .. Len(input.files)
                 PROVE  IF input.files[k].form = "object" THEN \E i \in Position : tree'[i] = input.files[k].object
                        ELSE input.files[k].form = "other"
      OBVIOUS
    <3>1. IF input.files[k].form = "object" THEN \E j \in Position : tree[j] = input.files[k].object
          ELSE input.files[k].form = "other"
      BY <1>1 DEF Parsed
    <3>2. ASSUME NEW j \in Position PROVE \E i \in Position : tree'[i] = tree[j]
      BY <1>2, <1>6
    <3> QED BY <3>1, <3>2
  <2> QED BY <1>1, <1>7, <2>1 DEF Parsed
<1>9. Sorted'
  BY <1>2, <1>7 DEF Sorted
<1>10. at' <= Len(tree') + 1 /\ at' \in 1 .. Len(input'.files) + 1
  BY <1>1, <1>3, <1>7
<1>11. {} = UNION {Structural(i)' : i \in 1 .. at' - 1}
  BY <1>1
<1> QED BY <1>1, <1>8, <1>9, <1>10, <1>11 DEF EarlyInv

LEMMA ValidateEarly ==
  ASSUME FIInv, EarlyInv, ValidateObject \/ ValidateTree
  PROVE  EarlyInv'
<1>1. /\ phase = "structural" /\ UNCHANGED <<input, tree>> /\ tree \in Seq(RawObject)
      /\ Parsed(Len(input.files)) /\ Sorted /\ at \in Nat \ {0} /\ at <= Len(tree) + 1
      /\ diags = UNION {Structural(i) : i \in 1 .. at - 1}
      /\ Len(tree) \in Nat /\ Len(input.files) \in Nat /\ Len(tree) <= Len(input.files)
  <2>1. phase = "structural" /\ UNCHANGED <<input, tree>> BY DEF ValidateObject, ValidateTree, vars
  <2>2. Len(tree) \in Nat /\ Len(input.files) \in Nat BY DEF FIInv, Input
  <2>3. Parsed(Len(input.files)) BY <2>1 DEF EarlyInv
  <2> QED BY <2>1, <2>2, <2>3, ParsedBounds DEF FIInv, EarlyInv
<1>2. /\ Position' = Position /\ Position = 1 .. Len(tree)
      /\ \A i : Wrong(i)' <=> Wrong(i)
      /\ \A i : Structural(i)' = Structural(i)
      /\ AllDiags' = AllDiags
      /\ Parsed(Len(input.files))' /\ Sorted'
  <2>1. Position' = Position /\ Position = 1 .. Len(tree) BY <1>1 DEF Position
  <2>2. Parsed(Len(input.files))' /\ Sorted' BY <1>1, <2>1 DEF Parsed, Sorted
  <2> QED BY <1>1, <2>1, <2>2, SameVerdict
<1>3. AllDiags \subseteq Codes \X Position /\ \A d \in AllDiags : Wrong(d[2])
  BY <1>1, DiagnosedIsWrong
<1>4. CASE ValidateObject
  <2>1. /\ at \in Position /\ at' = at + 1 /\ at' <= Len(tree) + 1
        /\ diags' = diags \cup Structural(at)
        /\ phase' \in {"structural", "refused"}
    BY <1>1, <1>2, <1>4 DEF ValidateObject
  <2>2. diags' = UNION {Structural(i) : i \in 1 .. at' - 1}
    <3>1. \A i \in 1 .. at : i \in 1 .. at - 1 \/ i = at BY <1>1
    <3>2. at' - 1 = at /\ at \in 1 .. at /\ 1 .. at - 1 \subseteq 1 .. at BY <1>1, <2>1
    <3>3. {Structural(i) : i \in 1 .. at} = {Structural(i) : i \in 1 .. at - 1} \cup {Structural(at)}
      BY <3>1, <3>2
    <3> QED BY <1>1, <2>1, <3>2, <3>3
  <2>3. diags' \subseteq AllDiags
    <3>1. \A i \in 1 .. at' - 1 : i \in Position BY <1>1, <1>2, <2>1
    <3> QED BY <2>2, <3>1, DiagsByCheck
  <2>4. diags' = UNION {Structural(i)' : i \in 1 .. at' - 1}
    BY <1>2, <2>2
  <2> QED BY <1>1, <1>2, <1>3, <2>1, <2>3, <2>4 DEF EarlyInv
<1>5. CASE ValidateTree
  <2>1. at = Len(tree) + 1 /\ at' = at /\ phase' \in {"resolve", "refused"}
    BY <1>1, <1>5 DEF ValidateTree
  <2>2. diags' = AllDiags
    <3>1. 1 .. at - 1 = Position BY <1>1, <1>2, <2>1
    <3> QED BY <1>1, <1>5, <3>1 DEF ValidateTree, AllDiags
  <2> QED BY <1>1, <1>2, <1>3, <2>1, <2>2 DEF EarlyInv
<1> QED BY <1>4, <1>5

LEMMA ResolveEarly ==
  ASSUME FIInv, EarlyInv, ResolveDependencies
  PROVE  EarlyInv'
<1>1. /\ phase = "resolve" /\ phase' = "normalize" /\ UNCHANGED <<input, at, diags>>
      /\ diags = AllDiags /\ input \in Inputs
  BY DEF ResolveDependencies, EarlyInv
<1>2. diags' = {} => ~ IsCyclic'
  <2>1. diags = {} => \A i \in Position : ~ Wrong(i)
    BY <1>1, VerdictOnTree DEF FIInv
  <2> QED BY <1>1, <2>1, ResolvedIsNotCyclic
<1>3. Position \subseteq Position'
  <2>1. tree \in Seq(RawObject) /\ input.external \in Seq(RawObject) /\ tree' = tree \o input.external
    BY DEF FIInv, Input, ResolveDependencies
  <2> QED BY <2>1 DEF Position
<1> QED BY <1>1, <1>2, <1>3 DEF EarlyInv

LEMMA FNextEarlyInv == FIInv /\ EarlyInv /\ [FNext]_fvars => EarlyInv'
<1> SUFFICES ASSUME FIInv, EarlyInv, [FNext]_fvars PROVE EarlyInv'
  OBVIOUS
<1>1. CASE UNCHANGED <<input, phase, at, diags, tree>>
  <2>1. /\ Position' = Position /\ (\A i : Wrong(i)' <=> Wrong(i)) /\ AllDiags' = AllDiags
        /\ (\A i : Structural(i)' = Structural(i)) /\ (IsCyclic' <=> IsCyclic)
    BY <1>1, SameVerdict, SameTree
  <2>2. (\A n : Parsed(n)' <=> Parsed(n)) /\ (Sorted' <=> Sorted)
    BY <1>1, <2>1 DEF Parsed, Sorted
  <2>3. UNION {Structural(i)' : i \in 1 .. at' - 1} = UNION {Structural(i) : i \in 1 .. at - 1}
    BY <1>1, <2>1
  <2>4. phase = "parse" => Parsed(at - 1)'
    <3>1. phase = "parse" => Parsed(at - 1) BY DEF EarlyInv
    <3> QED BY <1>1, <2>1, <3>1 DEF Parsed
  <2>5. phase = "structural" => Parsed(Len(input.files))'
    <3>1. phase = "structural" => Parsed(Len(input.files)) BY DEF EarlyInv
    <3> QED BY <1>1, <2>1, <3>1 DEF Parsed
  <2> QED BY <1>1, <2>1, <2>2, <2>3, <2>4, <2>5 DEF EarlyInv
<1>2. CASE Normalize
  <2>1. UNCHANGED <<input, phase, at, diags, tree>>
    BY <1>2, NextIInv DEF Normalize, FIInv
  <2> QED BY <1>1, <2>1
<1>3. CASE UNCHANGED fvars
  BY <1>1, <1>3 DEF fvars, vars
<1> QED BY <1>2, <1>3, ParseFileEarly, SortObjectsEarly, ValidateEarly, ResolveEarly DEF FNext

LEMMA FInitEarlyInv == FInit => EarlyInv
<1> SUFFICES ASSUME FInit PROVE EarlyInv
  OBVIOUS
<1>1. /\ input \in Inputs /\ phase = "parse" /\ at = 1 /\ diags = {} /\ tree = <<>>
      /\ Len(input.files) \in Nat
  BY FrontEndAssumption DEF FInit, Input
<1>2. Parsed(0)
  <2>1. {k \in 1 .. 0 : input.files[k].form = "object"} = {} OBVIOUS
  <2>2. Len(tree) = 0 BY <1>1
  <2> QED BY <2>1, <2>2, FS_EmptySet DEF Parsed
<1> QED BY <1>1, <1>2 DEF EarlyInv

\* What the parser, the validator and the resolver have made at each stage, together
\* with the normalizer's invariant, holds throughout.
THEOREM FrontEndInvariance == FSpec => [](FIInv /\ EarlyInv)
<1>1. FInit => FIInv /\ EarlyInv
  BY FInitFIInv, FInitEarlyInv
<1>2. FIInv /\ EarlyInv /\ [FNext]_fvars => (FIInv /\ EarlyInv)'
  BY FNextFIInv, FNextEarlyInv
<1> QED BY <1>1, <1>2, PTL DEF FSpec

\* No file is lost before the tree, the validator finds fault with exactly the
\* objects at fault, and what it let pass is never cyclic in the normalizer.
THEOREM VerdictCorrect == FSpec => []VerdictIsRight
<1>1. FIInv /\ EarlyInv => VerdictIsRight
  <2> SUFFICES ASSUME FIInv, EarlyInv PROVE VerdictIsRight
    OBVIOUS
  <2>1. FrontEndTypeOK
    BY DEF FrontEndTypeOK, FIInv, IInv, EarlyInv, Codes
  <2>2. EveryFileIsParsed
    <3> SUFFICES ASSUME phase = "structural" PROVE EveryFileIsParsed
      BY DEF EveryFileIsParsed
    <3>1. Parsed(Len(input.files)) /\ Sorted BY DEF EarlyInv
    <3>2. DOMAIN input.files = 1 .. Len(input.files) BY DEF FIInv, Input
    <3>3. \A i \in Position \ {1} : tree[i - 1].id <= tree[i].id
      <4>1. Position = 1 .. Len(tree) /\ Len(tree) \in Nat BY DEF FIInv, Position
      <4>2. \A i \in Position \ {1} : i - 1 \in Position /\ i - 1 < i BY <4>1
      <4> QED BY <3>1, <4>2 DEF Sorted
    <3> QED BY <3>1, <3>2, <3>3 DEF EveryFileIsParsed, Parsed
  <2>3. ASSUME phase = "resolve"
        PROVE  /\ diags = {} <=> \A i \in Position : ~ Wrong(i)
               /\ (\A i, j \in Position : tree[i].id = tree[j].id => i = j) =>
                    {d[2] : d \in diags} = {i \in Position : Wrong(i)}
    BY <2>3, VerdictOnTree DEF EarlyInv, FIInv
  <2>4. ASSUME phase # "normalize", NEW d \in diags PROVE Wrong(d[2])
    <3>1. CASE phase = "structural"
      <4>1. PICK i \in 1 .. at - 1 : d \in Structural(i) BY <2>4, <3>1 DEF EarlyInv
      <4>2. i \in Position BY <3>1 DEF EarlyInv, FIInv, Position
      <4>3. d \in AllDiags BY <4>1, <4>2, DiagsByCheck
      <4> QED BY <4>3, DiagnosedIsWrong DEF FIInv
    <3>2. CASE phase = "resolve"
      BY <2>4, <3>2, DiagnosedIsWrong DEF FIInv, EarlyInv
    <3>3. CASE phase \in {"parse", "refused"}
      BY <2>4, <3>3 DEF EarlyInv
    <3> QED BY <2>4, <3>1, <3>2, <3>3 DEF EarlyInv
  <2>5. ValidTreesAreNotCyclic
    BY DEF ValidTreesAreNotCyclic, EarlyInv, FIInv, IInv, AnswerInv
  <2> QED BY <2>1, <2>2, <2>3, <2>4, <2>5 DEF VerdictIsRight
<1> QED BY <1>1, FrontEndInvariance, PTL

-----------------------------------------------------------------------------
(***************************************************************************)
(* The end of a build's first half                                         *)
(***************************************************************************)

\* How far the way from the first file to the graph is from its end: the loops in
\* front, what is left of the loop that runs, and in the merge the parents left.
LoopsLeft ==
  CASE phase = "parse"      -> 10
    [] phase = "structural" -> 9
    [] phase = "resolve"    -> 8
    [] phase = "refused"    -> 0
    [] phase = "normalize"  ->
         CASE pc = "copy"  -> 7
           [] pc = "scope" -> 6
           [] pc = "link"  -> 5
           [] pc = "kahn"  -> 4
           [] pc = "merge" -> 3
           [] pc = "paths" -> 2
           [] pc = "index" -> 1
           [] OTHER        -> 0

TurnsLeft ==
  CASE phase = "parse"      -> Len(input.files) + 1 - at
    [] phase = "structural" -> Len(tree) + 1 - at
    [] phase = "normalize"  ->
         CASE pc = "copy"  -> Len(tree) + 1 - next
           [] pc = "kahn"  -> Cardinality(IDs) - Len(order)
           [] pc = "merge" -> Len(order) + 1 - next
           [] OTHER        -> 0
    [] OTHER                -> 0

ParentsLeft ==
  IF phase = "normalize" /\ pc = "merge" /\ next <= Len(order)
    THEN Len(Parents(order[next])) + 1 - parent
    ELSE 0

Ahead == <<LoopsLeft, <<TurnsLeft, ParentsLeft>>>>
Aheads == Nat \X (Nat \X Nat)

AheadOK == Ahead \in Aheads

Less == OpToRel(<, Nat)
Inner == LexPairOrdering(Less, Less, Nat, Nat)
Nearer == LexPairOrdering(Less, Inner, Nat, Nat \X Nat)

LEMMA NearerIsWellFounded == IsWellFoundedOn(Nearer, Aheads)
<1>1. IsWellFoundedOn(Less, Nat)
  BY NatLessThanWellFounded DEF Less
<1>2. IsWellFoundedOn(Inner, Nat \X Nat)
  BY <1>1, WFLexPairOrdering, Zenon DEF Inner
<1> QED BY <1>1, <1>2, WFLexPairOrdering, Zenon DEF Nearer, Aheads

LEMMA NearerIf ==
  ASSUME NEW a \in Nat, NEW b \in Nat, NEW c \in Nat,
         NEW x \in Nat, NEW y \in Nat, NEW z \in Nat,
         x < a \/ (x = a /\ (y < b \/ (y = b /\ z < c)))
  PROVE  <<<<x, <<y, z>>>>, <<a, <<b, c>>>>>> \in Nearer
<1>1. \A i, j \in Nat : i < j => <<i, j>> \in Less
  BY Zenon DEF OpToRel, Less
<1>2. y < b \/ (y = b /\ z < c) => <<<<y, z>>, <<b, c>>>> \in Inner
  BY <1>1 DEF Inner, LexPairOrdering
<1> QED BY <1>1, <1>2 DEF Nearer, LexPairOrdering

\* A turn of a loop over n elements.
LEMMA OneTurnLess ==
  ASSUME NEW n \in Nat, NEW i \in Nat
  PROVE  n + 1 - (i + 1) < n + 1 - i
OBVIOUS

\* What the loops' counters are, by the loop.
LEMMA Counters ==
  ASSUME FIInv, EarlyInv
  PROVE  /\ Len(input.files) \in Nat /\ Len(tree) \in Nat /\ Len(order) \in Nat
         /\ at \in 1 .. Len(input.files) + 1 /\ next \in 1 .. Len(tree) + 1
         /\ parent \in Nat \ {0} /\ Cardinality(IDs) \in Nat
         /\ phase = "structural" => at <= Len(tree) + 1
         /\ pc # "copy" => Len(order) <= Cardinality(IDs)
         /\ pc = "merge" => next <= Len(order) + 1
         /\ pc = "merge" /\ next <= Len(order) =>
              /\ order[next] \in IDs /\ Extends(order[next]) = Parents(order[next])
              /\ Len(Parents(order[next])) \in Nat
              /\ parent <= Len(Parents(order[next])) + 1
<1>1. /\ tree \in Seq(RawObject) /\ IInv /\ order \in Seq(DOMAIN work)
      /\ Placed \subseteq DOMAIN work /\ Len(order) = Cardinality(Placed)
      /\ next \in 1 .. Len(tree) + 1 /\ parent \in Nat \ {0}
  BY DEF FIInv, IInv, TypeOK, KahnInv
<1>2. at \in 1 .. Len(input.files) + 1 /\ (phase = "structural" => at <= Len(tree) + 1)
      /\ Len(input.files) \in Nat
  BY DEF FIInv, EarlyInv, Input
<1>3. IsFiniteSet(IDs) /\ Cardinality(IDs) \in Nat
  BY <1>1, IDsAreFinite
<1>4. pc # "copy" => Len(order) <= Cardinality(IDs)
  <2> SUFFICES ASSUME pc # "copy" PROVE Cardinality(Placed) <= Cardinality(IDs)
    BY <1>1
  <2>1. Placed \in SUBSET IDs BY <1>1, CopiedIsLast
  <2> QED BY <1>3, <2>1, FS_Subset
<1>5. pc = "merge" => next <= Len(order) + 1
  BY <1>1 DEF IInv, MergeInv
<1>6. ASSUME pc = "merge", next <= Len(order)
      PROVE  /\ order[next] \in IDs /\ Extends(order[next]) = Parents(order[next])
             /\ Len(Parents(order[next])) \in Nat
             /\ parent <= Len(Parents(order[next])) + 1
  <2>1. next \in DOMAIN order BY <1>1, <1>6
  <2>2. order[next] \in IDs BY <1>1, <1>6, <2>1, CopiedIsLast
  <2>3. Extends(order[next]) = Parents(order[next]) BY <1>1, <1>6, <2>2, CopiedIsLast
  <2>4. Parents(order[next]) \in Seq(Nat) BY <1>1, <2>2, LastRawIsLast, ObjectType
  <2>5. parent <= Len(Parents(order[next])) + 1 BY <1>1, <1>6 DEF IInv, MergeInv
  <2> QED BY <2>2, <2>3, <2>4, <2>5
<1> QED BY <1>1, <1>2, <1>3, <1>4, <1>5, <1>6

LEMMA AheadType == FIInv /\ EarlyInv => AheadOK
<1> SUFFICES ASSUME FIInv, EarlyInv PROVE AheadOK
  OBVIOUS
<1>1. phase \in {"parse", "structural", "resolve", "normalize", "refused"}
  BY DEF EarlyInv
<1>2. LoopsLeft \in Nat
  BY <1>1 DEF LoopsLeft
<1>3. TurnsLeft \in Nat
  <2>1. CASE phase = "parse" BY <2>1, Counters DEF TurnsLeft
  <2>2. CASE phase = "structural" BY <2>2, Counters DEF TurnsLeft
  <2>3. CASE phase = "normalize" BY <2>3, Counters DEF TurnsLeft
  <2>4. CASE phase \in {"resolve", "refused"} BY <2>4 DEF TurnsLeft
  <2> QED BY <1>1, <2>1, <2>2, <2>3, <2>4
<1>4. ParentsLeft \in Nat
  BY Counters DEF ParentsLeft
<1> QED BY <1>2, <1>3, <1>4 DEF AheadOK, Ahead, Aheads

\* The normalizer's steps: a loop ends, or it has one turn less, or the merge has
\* one parent less.
LEMMA NormalizerComesNearer ==
  ASSUME FIInv, EarlyInv, FIInv', EarlyInv', Normalize
  PROVE  \/ LoopsLeft' < LoopsLeft
         \/ LoopsLeft' = LoopsLeft /\ TurnsLeft' < TurnsLeft
         \/ LoopsLeft' = LoopsLeft /\ TurnsLeft' = TurnsLeft /\ ParentsLeft' < ParentsLeft
<1>1. phase = "normalize" /\ phase' = "normalize" /\ Next
  BY DEF Normalize
<1>2. CASE Copy
  <2>1. pc = "copy" /\ pc' = "copy" /\ next' = next + 1 /\ tree' = tree BY <1>2 DEF Copy
  <2>2. LoopsLeft' = LoopsLeft BY <1>1, <2>1 DEF LoopsLeft
  <2>3. TurnsLeft = Len(tree) + 1 - next /\ TurnsLeft' = Len(tree) + 1 - (next + 1)
    BY <1>1, <2>1 DEF TurnsLeft
  <2>4. Len(tree) \in Nat /\ next \in Nat BY Counters
  <2> QED BY <2>2, <2>3, <2>4
<1>3. CASE FinishCopy \/ NormalizeScopes \/ Link \/ FinishKahn \/ FinishMerge \/ ResolvePaths \/ BuildScopeIndex
  <2>1. CASE FinishCopy BY <1>1, <2>1 DEF FinishCopy, LoopsLeft
  <2>2. CASE NormalizeScopes BY <1>1, <2>2 DEF NormalizeScopes, Fail, LoopsLeft
  <2>3. CASE Link BY <1>1, <2>3 DEF Link, Fail, LoopsLeft
  <2>4. CASE FinishKahn BY <1>1, <2>4 DEF FinishKahn, Fail, LoopsLeft
  <2>5. CASE FinishMerge BY <1>1, <2>5 DEF FinishMerge, LoopsLeft
  <2>6. CASE ResolvePaths BY <1>1, <2>6 DEF ResolvePaths, Fail, LoopsLeft
  <2>7. CASE BuildScopeIndex BY <1>1, <2>7 DEF BuildScopeIndex, LoopsLeft
  <2> QED BY <1>3, <2>1, <2>2, <2>3, <2>4, <2>5, <2>6, <2>7
<1>4. CASE Place
  <2>1. pc = "kahn" /\ pc' = "kahn" /\ tree' = tree BY <1>4 DEF Place
  <2>2. PICK o \in Queue : order' = Append(order, o) BY <1>4 DEF Place
  <2>3. Len(order') = Len(order) + 1 /\ Len(order) \in Nat
    BY <2>2, Counters DEF FIInv, IInv, KahnInv
  <2>4. LoopsLeft' = LoopsLeft BY <1>1, <2>1 DEF LoopsLeft
  <2>5. IDs' = IDs BY <2>1 DEF IDs, Position
  <2>6. TurnsLeft = Cardinality(IDs) - Len(order) /\ TurnsLeft' = Cardinality(IDs) - Len(order')
    BY <1>1, <2>1, <2>5 DEF TurnsLeft
  <2>7. Cardinality(IDs) \in Nat BY Counters
  <2> QED BY <2>3, <2>4, <2>6, <2>7
<1>5. CASE Merge
  <2>1. pc = "merge" /\ pc' = "merge" /\ next <= Len(order) /\ tree' = tree /\ order' = order
    BY <1>5 DEF Merge
  <2>2. LoopsLeft' = LoopsLeft BY <1>1, <2>1 DEF LoopsLeft
  <2>3. TurnsLeft = Len(order) + 1 - next /\ TurnsLeft' = Len(order) + 1 - next'
    BY <1>1, <2>1 DEF TurnsLeft
  <2>4. Len(order) \in Nat /\ next \in Nat /\ parent \in Nat /\ Len(Parents(order[next])) \in Nat
    BY <2>1, Counters
  <2>5. CASE next' = next + 1 BY <2>2, <2>3, <2>4, <2>5
  <2>6. CASE next' = next /\ parent' = parent + 1
    <3>1. Parents(order[next])' = Parents(order[next])
      BY <2>1, <2>6 DEF Parents, LastRaw, Position
    <3>2. ParentsLeft = Len(Parents(order[next])) + 1 - parent
      BY <1>1, <2>1 DEF ParentsLeft
    <3>3. ParentsLeft' = Len(Parents(order[next])) + 1 - (parent + 1)
      BY <1>1, <2>1, <2>6, <3>1 DEF ParentsLeft
    <3>4. TurnsLeft' = TurnsLeft BY <2>3, <2>6
    <3>5. ParentsLeft' < ParentsLeft BY <2>4, <3>2, <3>3
    <3> QED BY <2>2, <3>4, <3>5
  <2>7. next' = next + 1 \/ (next' = next /\ parent' = parent + 1) BY <1>5 DEF Merge
  <2> QED BY <2>5, <2>6, <2>7
<1> QED BY <1>1, <1>2, <1>3, <1>4, <1>5 DEF Next

ComesNearer == <<Ahead', Ahead>> \in Nearer

LEMMA StepComesNearer ==
  ASSUME FIInv, EarlyInv, FIInv', EarlyInv', AheadOK, AheadOK', FNext
  PROVE  ComesNearer
<1>1. /\ LoopsLeft \in Nat /\ TurnsLeft \in Nat /\ ParentsLeft \in Nat
      /\ LoopsLeft' \in Nat /\ TurnsLeft' \in Nat /\ ParentsLeft' \in Nat
  BY DEF AheadOK, Ahead, Aheads
<1> SUFFICES \/ LoopsLeft' < LoopsLeft
             \/ LoopsLeft' = LoopsLeft /\ TurnsLeft' < TurnsLeft
             \/ LoopsLeft' = LoopsLeft /\ TurnsLeft' = TurnsLeft /\ ParentsLeft' < ParentsLeft
  BY <1>1, NearerIf DEF Ahead, ComesNearer
<1>2. Len(input.files) \in Nat /\ at \in Nat /\ Len(tree) \in Nat
  BY Counters
<1>3. CASE ParseFile
  <2>1. phase = "parse" /\ phase' \in {"parse", "refused"} /\ at' = at + 1 /\ input' = input
    BY <1>3 DEF ParseFile
  <2>2. CASE phase' = "refused" BY <2>1, <2>2 DEF LoopsLeft
  <2>3. CASE phase' = "parse"
    <3>1. LoopsLeft' = LoopsLeft BY <2>1, <2>3 DEF LoopsLeft
    <3>2. TurnsLeft = Len(input.files) + 1 - at /\ TurnsLeft' = Len(input.files) + 1 - (at + 1)
      BY <2>1, <2>3 DEF TurnsLeft
    <3>3. TurnsLeft' < TurnsLeft BY <1>2, <3>2, OneTurnLess
    <3> QED BY <3>1, <3>3
  <2> QED BY <2>1, <2>2, <2>3
<1>4. CASE SortObjects BY <1>4 DEF SortObjects, LoopsLeft
<1>5. CASE ValidateObject
  <2>1. phase = "structural" /\ phase' \in {"structural", "refused"} /\ at' = at + 1 /\ tree' = tree
    BY <1>5 DEF ValidateObject, vars
  <2>2. CASE phase' = "refused" BY <2>1, <2>2 DEF LoopsLeft
  <2>3. CASE phase' = "structural"
    <3>1. LoopsLeft' = LoopsLeft BY <2>1, <2>3 DEF LoopsLeft
    <3>2. TurnsLeft = Len(tree) + 1 - at /\ TurnsLeft' = Len(tree) + 1 - (at + 1)
      BY <2>1, <2>3 DEF TurnsLeft
    <3>3. TurnsLeft' < TurnsLeft BY <1>2, <3>2, OneTurnLess
    <3> QED BY <3>1, <3>3
  <2> QED BY <2>1, <2>2, <2>3
<1>6. CASE ValidateTree BY <1>6 DEF ValidateTree, LoopsLeft
<1>7. CASE ResolveDependencies
  <2>1. LoopsLeft = 8 BY <1>7 DEF ResolveDependencies, LoopsLeft
  <2>2. LoopsLeft' \in 0 .. 7 BY <1>7 DEF ResolveDependencies, LoopsLeft
  <2> QED BY <2>1, <2>2
<1>8. CASE Normalize BY <1>8, NormalizerComesNearer
<1> QED BY <1>3, <1>4, <1>5, <1>6, <1>7, <1>8 DEF FNext

\* Every project is refused or turned into a graph after finitely many steps: none
\* of the loops of parser, validator and normalizer goes on for ever, on cyclic
\* inheritance and on repeated parents and IDs no more than on a sound tree.
THEOREM FrontEndComesToAnEnd ==
  /\ IsWellFoundedOn(Nearer, Aheads)
  /\ FSpec => [][ComesNearer]_fvars
<1>1. /\ FIInv /\ EarlyInv /\ (FIInv /\ EarlyInv)' /\ AheadOK /\ AheadOK' /\ [FNext]_fvars
      => [ComesNearer]_fvars
  BY StepComesNearer
<1>2. FSpec => [][ComesNearer]_fvars
  BY <1>1, AheadType, FrontEndInvariance, PTL DEF FSpec
<1> QED BY <1>2, NearerIsWellFounded
=============================================================================
