------------------------ MODULE StageRegistryProofs ------------------------
(***************************************************************************)
(* Proofs about the ordering of stages, for every set of phases and every  *)
(* set of stages a caller may register.                                    *)
(*                                                                         *)
(* The inductive invariant is IInv: the type invariant, the finiteness of  *)
(* the set of nodes (so that its cardinality means something), what Kahn's *)
(* loop maintains, and what holds of an answer.  The last part is about    *)
(* the sort of a batch, which is determined, and about the loop's end.     *)
(***************************************************************************)
EXTENDS StageRegistry, FiniteSetTheorems, SequenceTheorems, TLAPS

Elements(s) == {s[i] : i \in DOMAIN s}

AnswerInv ==
  /\ pc = "sorted" => Distinct(result) /\ Placed = nodes
  /\ RespectsConstraints
  /\ CycleIsReal

IInv == TypeOK /\ IsFiniteSet(nodes) /\ KahnInvariant /\ AnswerInv

-----------------------------------------------------------------------------
(***************************************************************************)
(* Sequences                                                               *)
(***************************************************************************)

\* A sorted listing of a finite set is a sequence without repetition whose
\* elements are that set.
LEMMA SortedSeqsListSet ==
  ASSUME NEW S, IsFiniteSet(S), S \subseteq Descriptor, NEW q \in SortedSeqs(S)
  PROVE  q \in Seq(S) /\ Distinct(q) /\ Elements(q) = S
<1>1. Cardinality(S) \in Nat
  BY FS_CardinalityType
<1>2. q \in Seq(S) /\ DOMAIN q = 1 .. Cardinality(S)
  BY <1>1 DEF SortedSeqs
<1>3. \A i, j \in DOMAIN q : i < j => q[i] # q[j]
  <2>1. \A i, j \in DOMAIN q : i < j => Precedes(q[i], q[j])
    BY DEF SortedSeqs
  <2>2. \A d \in S : ~ Precedes(d, d)
    BY DEF Precedes, Descriptor
  <2>3. \A i \in DOMAIN q : q[i] \in S
    BY DEF SortedSeqs
  <2>4. QED
    BY <2>1, <2>2, <2>3
<1>4. Distinct(q)
  <2>1. DOMAIN q \subseteq Int
    BY <1>1, <1>2
  <2>2. QED
    BY <1>3, <2>1 DEF Distinct
<1>5. Elements(q) = S
  BY DEF Elements, SortedSeqs
<1>6. QED
  BY <1>2, <1>4, <1>5

\* What is left of a queue when its head is taken and a batch is appended.
LEMMA TakeHead ==
  ASSUME NEW S, NEW q \in Seq(S), q # <<>>, NEW b \in Seq(S),
         Distinct(q), Distinct(b), Elements(q) \cap Elements(b) = {}
  PROVE  /\ Tail(q) \o b \in Seq(S)
         /\ Distinct(Tail(q) \o b)
         /\ Elements(Tail(q) \o b) = (Elements(q) \ {Head(q)}) \cup Elements(b)
<1> DEFINE t == Tail(q)
           r == t \o b
<1>1. /\ Len(q) \in Nat \ {0} /\ DOMAIN q = 1 .. Len(q)
      /\ Len(b) \in Nat /\ DOMAIN b = 1 .. Len(b)
  BY EmptySeq, LenProperties
<1>2. /\ t \in Seq(S) /\ Len(t) = Len(q) - 1
      /\ \A i \in 1 .. Len(t) : t[i] = q[i + 1]
  BY HeadTailProperties
<1>3. /\ r \in Seq(S) /\ Len(r) = Len(t) + Len(b)
      /\ \A i \in 1 .. Len(t) + Len(b) :
           r[i] = IF i <= Len(t) THEN t[i] ELSE b[i - Len(t)]
  BY <1>2, ConcatProperties
<1>4. DOMAIN r = 1 .. Len(q) - 1 + Len(b)
  BY <1>1, <1>2, <1>3, LenProperties
<1>5. \A i \in DOMAIN r :
        r[i] = IF i < Len(q) THEN q[i + 1] ELSE b[i - (Len(q) - 1)]
  BY <1>1, <1>2, <1>3, <1>4
<1>6. Distinct(r)
  <2> SUFFICES ASSUME NEW i \in DOMAIN r, NEW j \in DOMAIN r, r[i] = r[j]
               PROVE  i = j
    BY DEF Distinct
  <2>1. CASE i < Len(q) /\ j < Len(q)
    BY <1>1, <1>4, <1>5, <2>1 DEF Distinct
  <2>2. CASE ~ (i < Len(q)) /\ ~ (j < Len(q))
    <3>1. i - (Len(q) - 1) \in DOMAIN b /\ j - (Len(q) - 1) \in DOMAIN b
      BY <1>1, <1>4, <2>2
    <3>2. i - (Len(q) - 1) = j - (Len(q) - 1)
      BY <3>1, <1>5, <2>2 DEF Distinct
    <3>3. QED
      BY <3>2, <1>1, <1>4
  <2>3. CASE i < Len(q) /\ ~ (j < Len(q))
    <3>1. i + 1 \in DOMAIN q /\ j - (Len(q) - 1) \in DOMAIN b
      BY <1>1, <1>4, <2>3
    <3>2. QED
      BY <3>1, <1>5, <2>3 DEF Elements
  <2>4. CASE ~ (i < Len(q)) /\ j < Len(q)
    <3>1. j + 1 \in DOMAIN q /\ i - (Len(q) - 1) \in DOMAIN b
      BY <1>1, <1>4, <2>4
    <3>2. QED
      BY <3>1, <1>5, <2>4 DEF Elements
  <2>5. QED
    BY <2>1, <2>2, <2>3, <2>4
<1>7. Head(q) = q[1]
  OBVIOUS
<1>8. ASSUME NEW x \in Elements(r)
      PROVE  x \in (Elements(q) \ {Head(q)}) \cup Elements(b)
  <2>1. PICK i \in DOMAIN r : x = r[i]
    BY <1>8 DEF Elements
  <2>2. CASE i < Len(q)
    <3>1. i + 1 \in DOMAIN q /\ 1 \in DOMAIN q /\ i + 1 # 1 /\ x = q[i + 1]
      BY <1>1, <1>4, <1>5, <2>1, <2>2
    <3>2. QED
      BY <3>1, <1>7 DEF Elements, Distinct
  <2>3. CASE ~ (i < Len(q))
    <3>1. i - (Len(q) - 1) \in DOMAIN b /\ x = b[i - (Len(q) - 1)]
      BY <1>1, <1>4, <1>5, <2>1, <2>3
    <3>2. QED
      BY <3>1 DEF Elements
  <2>4. QED
    BY <2>2, <2>3
<1>9. ASSUME NEW x \in (Elements(q) \ {Head(q)}) \cup Elements(b)
      PROVE  x \in Elements(r)
  <2>1. CASE x \in Elements(q) \ {Head(q)}
    <3>1. PICK i \in DOMAIN q : x = q[i] /\ i # 1
      BY <2>1, <1>7 DEF Elements
    <3>2. i - 1 \in DOMAIN r /\ r[i - 1] = x
      BY <3>1, <1>1, <1>4, <1>5
    <3>3. QED
      BY <3>2 DEF Elements
  <2>2. CASE x \in Elements(b)
    <3>1. PICK i \in DOMAIN b : x = b[i]
      BY <2>2 DEF Elements
    <3>2. i + (Len(q) - 1) \in DOMAIN r /\ r[i + (Len(q) - 1)] = x
      BY <3>1, <1>1, <1>4, <1>5
    <3>3. QED
      BY <3>2 DEF Elements
  <2>3. QED
    BY <1>9, <2>1, <2>2
<1>10. QED
  BY <1>3, <1>6, <1>8, <1>9

\* A nonempty set of numbers has a least element.
LEMMA LeastElement ==
  ASSUME NEW I \in SUBSET Nat, I # {}
  PROVE  \E i \in I : \A j \in I : ~ (j < i)
<1>1. IsWellFoundedOn(OpToRel(<, Nat), Nat)
  BY NatLessThanWellFounded
<1>2. PICK i \in I : \A j \in I : ~ (<<j, i>> \in OpToRel(<, Nat))
  BY <1>1, WFMin, Zenon
<1>3. \A j \in I : j < i => <<j, i>> \in OpToRel(<, Nat)
  BY Zenon DEF OpToRel
<1>4. QED
  BY <1>2, <1>3, Zenon

-----------------------------------------------------------------------------
(***************************************************************************)
(* The constraint graph                                                    *)
(***************************************************************************)

\* The edges into n come from exactly the stages n must run after.
LEMMA EdgesAreConstraints ==
  ASSUME NEW N, NEW n \in N
  PROVE  /\ EdgesInto(N, n) \subseteq N \X N \X {"before", "after"}
         /\ \A e \in EdgesInto(N, n) : e[1] \in N /\ MustPrecede(e[1], n)
         /\ \A m \in N : MustPrecede(m, n) => \E e \in EdgesInto(N, n) : e[1] = m
<1>1. EdgesInto(N, n) \subseteq N \X N \X {"before", "after"}
  BY DEF EdgesInto, Edges
<1>2. \A e \in EdgesInto(N, n) : e[1] \in N /\ MustPrecede(e[1], n)
  BY DEF EdgesInto, Edges, MustPrecede
<1>3. ASSUME NEW m \in N, MustPrecede(m, n)
      PROVE  \E e \in EdgesInto(N, n) : e[1] = m
  <2>1. CASE n.name \in m.before
    <3>1. <<m, n, "before">> \in EdgesInto(N, n)
      BY <2>1 DEF EdgesInto, Edges
    <3>2. QED
      BY <3>1
  <2>2. CASE m.name \in n.after
    <3>1. <<m, n, "after">> \in EdgesInto(N, n)
      BY <2>2 DEF EdgesInto, Edges
    <3>2. QED
      BY <3>1
  <2>3. QED
    BY <1>3, <2>1, <2>2 DEF MustPrecede
<1>4. QED
  BY <1>1, <1>2, <1>3

\* The stages of a phase are finitely many: they come from a sequence.
LEMMA StagesAreFinite ==
  ASSUME NEW S, NEW s \in Seq(S), NEW D \in SUBSET DOMAIN s
  PROVE  IsFiniteSet({s[i] : i \in D}) /\ {s[i] : i \in D} \subseteq S
<1> DEFINE T == {s[i] : i \in D}
           f == [i \in D |-> s[i]]
<1>1. Len(s) \in Nat /\ DOMAIN s = 1 .. Len(s) /\ \A i \in DOMAIN s : s[i] \in S
  BY LenProperties, ElementOfSeq
<1>2. IsFiniteSet(D)
  <2>1. 1 \in Int /\ Len(s) \in Int
    BY <1>1
  <2>2. IsFiniteSet(1 .. Len(s))
    BY <2>1, FS_Interval
  <2>3. D \in SUBSET (1 .. Len(s))
    BY <1>1
  <2>4. QED
    BY <2>2, <2>3, FS_Subset
<1>3. f \in Surjection(D, T)
  BY DEF Surjection
<1>4. IsFiniteSet(T)
  BY <1>2, <1>3, FS_Surjection
<1>5. QED
  BY <1>1, <1>4

-----------------------------------------------------------------------------
(***************************************************************************)
(* IInv is inductive                                                       *)
(***************************************************************************)

LEMMA InitIInv == Init => IInv
<1> SUFFICES ASSUME Init PROVE IInv
  OBVIOUS
<1>1. TypeOK
  BY DEF Init, TypeOK
<1>2. IsFiniteSet(nodes)
  BY FS_EmptySet DEF Init
<1>3. KahnInvariant /\ AnswerInv
  BY DEF Init, KahnInvariant, AnswerInv, RespectsConstraints, CycleIsReal
<1>4. QED
  BY <1>1, <1>2, <1>3 DEF IInv

LEMMA RegisterIInv ==
  ASSUME IInv, NEW c \in Candidates, Register(c)
  PROVE  IInv'
<1>1. stages' \in Seq({d \in Candidates : Validate(d)})
      /\ \A i, j \in DOMAIN stages' : stages'[i].name = stages'[j].name => i = j
  <2> DEFINE V == {d \in Candidates : Validate(d)}
  <2>1. stages \in Seq(V)
    BY DEF IInv, TypeOK
  <2>2. c \in V /\ ~ Registered(c.name) /\ stages' = Append(stages, c)
    BY DEF Register
  <2>3. /\ stages' \in Seq(V) /\ Len(stages') = Len(stages) + 1
        /\ \A i \in 1 .. Len(stages) : stages'[i] = stages[i]
        /\ stages'[Len(stages) + 1] = c
    BY <2>1, <2>2, AppendProperties
  <2>4. /\ Len(stages) \in Nat /\ DOMAIN stages = 1 .. Len(stages)
        /\ DOMAIN stages' = 1 .. Len(stages) + 1
    BY <2>1, <2>3, LenProperties
  <2>5. \A i \in DOMAIN stages : stages[i].name # c.name
    BY <2>2 DEF Registered
  <2>6. \A i, j \in DOMAIN stages : stages[i].name = stages[j].name => i = j
    BY DEF IInv, TypeOK
  <2>7. QED
    BY <2>3, <2>4, <2>5, <2>6
<1>3. UNCHANGED <<pc, nodes, waiting, queue, result>>
  BY DEF Register
<1>4. TypeOK'
  BY <1>1, <1>3 DEF IInv, TypeOK, Validate
<1>5. IsFiniteSet(nodes)' /\ KahnInvariant' /\ AnswerInv'
  BY <1>3 DEF IInv, KahnInvariant, AnswerInv, RespectsConstraints, CycleIsReal,
              Placed, Queued, Distinct, Cyclic, MustPrecede, EdgesInto, Edges
<1>6. QED
  BY <1>4, <1>5 DEF IInv

LEMMA StagesForPhaseIInv ==
  ASSUME IInv, NEW p \in Phases, StagesForPhase(p)
  PROVE  IInv'
<1> DEFINE Ready == {n \in nodes' : EdgesInto(nodes', n) = {}}
<1>1. IsFiniteSet(nodes') /\ nodes' \subseteq Candidates
  <2> DEFINE D == {j \in DOMAIN stages : stages[j].phase = p}
  <2>1. stages \in Seq(Candidates)
    <3>1. stages \in Seq({d \in Candidates : Validate(d)})
      BY DEF IInv, TypeOK
    <3>2. QED
      BY <3>1, SeqMonotonic
  <2>2. nodes' = {stages[i] : i \in D}
    BY DEF StagesForPhase
  <2>3. IsFiniteSet({stages[i] : i \in D}) /\ {stages[i] : i \in D} \subseteq Candidates
    BY <2>1, StagesAreFinite
  <2>4. QED
    BY <2>2, <2>3
<1>2. nodes' \subseteq Descriptor
  BY <1>1, CandidatesAssumption
<1>3. waiting' = [n \in nodes' |-> EdgesInto(nodes', n)]
  BY DEF StagesForPhase
<1>4. waiting' \in [nodes' -> SUBSET (nodes' \X nodes' \X {"before", "after"})]
  BY <1>3, EdgesAreConstraints
<1>5. UNCHANGED stages
  BY DEF StagesForPhase
<1>6. CASE /\ Cardinality(nodes') <= 1 /\ pc' = "sorted" /\ queue' = <<>>
           /\ result' \in SortedSeqs(nodes')
  <2>1. result' \in Seq(nodes') /\ Distinct(result') /\ Elements(result') = nodes'
    BY <1>1, <1>2, <1>6, SortedSeqsListSet
  <2>2. TypeOK'
    BY <1>1, <1>4, <1>5, <1>6, <2>1 DEF IInv, TypeOK, Validate
  <2>3. KahnInvariant'
    BY <1>6 DEF KahnInvariant
  <2>4. (pc = "sorted" => Distinct(result) /\ Placed = nodes)'
    BY <2>1 DEF Placed, Elements, Distinct
  <2>5. Cardinality(nodes') \in Nat
    BY <1>1, FS_CardinalityType
  <2>6. RespectsConstraints'
    BY <1>6, <2>5 DEF RespectsConstraints
  <2>7. CycleIsReal'
    BY <1>6 DEF CycleIsReal
  <2>8. QED
    BY <1>1, <2>2, <2>3, <2>4, <2>6, <2>7 DEF IInv, AnswerInv
<1>7. CASE pc' = "kahn" /\ queue' \in SortedSeqs(Ready) /\ result' = <<>>
  <2>1. IsFiniteSet(Ready) /\ Ready \subseteq Descriptor
    BY <1>1, <1>2, FS_Subset
  <2>2. queue' \in Seq(Ready) /\ Distinct(queue') /\ Elements(queue') = Ready
    BY <1>7, <2>1, SortedSeqsListSet
  <2>3. queue' \in Seq(nodes') /\ result' \in Seq(nodes')
    BY <1>7, <2>2, SeqMonotonic
  <2>4. TypeOK'
    BY <1>1, <1>4, <1>5, <1>7, <2>3 DEF IInv, TypeOK, Validate
  <2>5. Placed' = {} /\ Queued' = Ready
    BY <1>7, <2>2 DEF Placed, Queued, Elements
  <2>6. KahnInvariant'
    BY <1>3, <1>7, <2>2, <2>5 DEF KahnInvariant, Distinct, EdgesInto, Edges, MustPrecede
  <2>7. AnswerInv'
    BY <1>7 DEF AnswerInv, RespectsConstraints, CycleIsReal
  <2>8. QED
    BY <1>1, <2>4, <2>6, <2>7 DEF IInv
<1>8. QED
  BY <1>6, <1>7 DEF StagesForPhase

LEMMA PlaceIInv ==
  ASSUME IInv, Place
  PROVE  IInv'
<1> DEFINE curr == Head(queue)
           left == [n \in nodes |-> {e \in waiting[n] : e[1] # curr}]
           released == {n \in nodes : waiting[n] # {} /\ left[n] = {}}
<1> USE DEF IInv
<1>1. /\ pc = "kahn" /\ queue # <<>> /\ waiting' = left
      /\ result' = Append(result, curr)
      /\ UNCHANGED <<stages, pc, nodes>>
  BY DEF Place
<1>2. PICK batch \in SortedSeqs(released) : queue' = Tail(queue) \o batch
  BY DEF Place
<1>3. /\ queue \in Seq(nodes) /\ result \in Seq(nodes) /\ nodes \subseteq Candidates
      /\ waiting \in [nodes -> SUBSET (nodes \X nodes \X {"before", "after"})]
  BY DEF TypeOK
<1>4. /\ \A n \in nodes : waiting[n] = {e \in EdgesInto(nodes, n) : e[1] \notin Placed}
      /\ \A n \in nodes : waiting[n] = {} <=> n \in Placed \cup Queued
      /\ Placed \cap Queued = {}
      /\ Distinct(result)
      /\ Distinct(queue)
      /\ \A i \in DOMAIN result : \A m \in nodes :
           MustPrecede(m, result[i]) => \E j \in 1 .. i - 1 : result[j] = m
  BY <1>1 DEF KahnInvariant
<1>5. curr \in nodes /\ curr \in Queued /\ curr \notin Placed /\ waiting[curr] = {}
  <2>1. Len(queue) \in Nat \ {0} /\ DOMAIN queue = 1 .. Len(queue)
    BY <1>1, <1>3, EmptySeq, LenProperties
  <2>2. curr = queue[1] /\ 1 \in DOMAIN queue
    BY <2>1
  <2>3. curr \in nodes /\ curr \in Queued
    BY <1>3, <2>1, <2>2, ElementOfSeq DEF Queued
  <2>4. QED
    BY <1>4, <2>3
<1>6. batch \in Seq(nodes) /\ Distinct(batch) /\ Elements(batch) = released
  <2>1. released \subseteq nodes /\ IsFiniteSet(released)
    BY FS_Subset
  <2>2. released \subseteq Descriptor
    BY <1>3, <2>1, CandidatesAssumption
  <2>3. batch \in Seq(released) /\ Distinct(batch) /\ Elements(batch) = released
    BY <1>2, <2>1, <2>2, SortedSeqsListSet
  <2>4. QED
    BY <2>1, <2>3, SeqMonotonic
<1>7. released \cap (Placed \cup Queued) = {}
  BY <1>4
<1>8. /\ queue' \in Seq(nodes) /\ Distinct(queue')
      /\ Queued' = (Queued \ {curr}) \cup released
  <2>1. Queued = Elements(queue) /\ Queued' = Elements(queue')
    BY DEF Queued, Elements
  <2>2. Elements(queue) \cap Elements(batch) = {}
    BY <1>6, <1>7, <2>1
  <2> HIDE DEF curr, left, released
  <2>3. /\ Tail(queue) \o batch \in Seq(nodes)
        /\ Distinct(Tail(queue) \o batch)
        /\ Elements(Tail(queue) \o batch) = (Elements(queue) \ {Head(queue)}) \cup Elements(batch)
    <3>1. queue \in Seq(nodes) /\ queue # <<>> /\ Distinct(queue)
      BY <1>1, <1>3, <1>4
    <3>2. batch \in Seq(nodes) /\ Distinct(batch)
      BY <1>6
    <3>3. QED
      BY <2>2, <3>1, <3>2, TakeHead
  <2>4. QED
    BY <1>2, <1>6, <2>1, <2>3 DEF curr
<1>9. /\ result' \in Seq(nodes) /\ Len(result) \in Nat
      /\ DOMAIN result = 1 .. Len(result) /\ DOMAIN result' = 1 .. Len(result) + 1
      /\ \A i \in DOMAIN result : result'[i] = result[i]
      /\ result'[Len(result) + 1] = curr
  BY <1>1, <1>3, <1>5, AppendProperties, LenProperties
<1>10. Placed' = Placed \cup {curr}
  <2>1. Placed' \subseteq Placed \cup {curr}
    BY <1>9 DEF Placed
  <2>2. Placed \cup {curr} \subseteq Placed'
    <3>1. \A i \in DOMAIN result : i \in DOMAIN result' /\ result'[i] = result[i]
      BY <1>9
    <3>2. Len(result) + 1 \in DOMAIN result'
      BY <1>9
    <3>3. QED
      BY <1>9, <3>1, <3>2 DEF Placed
  <2>3. QED
    BY <2>1, <2>2
<1>11. TypeOK'
  <2>1. waiting' \in [nodes -> SUBSET (nodes \X nodes \X {"before", "after"})]
    BY <1>1, <1>3
  <2>2. QED
    BY <1>1, <1>3, <1>8, <1>9, <2>1 DEF TypeOK, Validate
<1>12. KahnInvariant'
  <2>1. \A n \in nodes : left[n] = {e \in EdgesInto(nodes, n) : e[1] \notin Placed'}
    BY <1>4, <1>10
  <2>2. \A n \in nodes : left[n] = {} <=> n \in Placed' \cup Queued'
    <3>1. ASSUME NEW n \in nodes, waiting[n] = {}
          PROVE  left[n] = {} /\ n \in Placed' \cup Queued'
      BY <3>1, <1>4, <1>8, <1>10
    <3>2. ASSUME NEW n \in nodes, waiting[n] # {}
          PROVE  left[n] = {} <=> n \in Placed' \cup Queued'
      <4>1. n \notin Placed \cup Queued
        BY <3>2, <1>4
      <4>2. n # curr
        BY <4>1, <1>5
      <4>3. n \in Placed' \cup Queued' <=> n \in released
        BY <4>1, <4>2, <1>8, <1>10
      <4>4. QED
        BY <3>2, <4>3
    <3>3. QED
      BY <3>1, <3>2
  <2>3. Placed' \cap Queued' = {}
    BY <1>4, <1>5, <1>7, <1>8, <1>10
  <2>4. Distinct(result')
    <3>1. \A i \in DOMAIN result : result[i] # curr
      BY <1>5 DEF Placed
    <3>2. QED
      BY <1>4, <1>9, <3>1 DEF Distinct
  <2>5. ASSUME NEW i \in DOMAIN result', NEW m \in nodes, MustPrecede(m, result'[i])
        PROVE  \E j \in 1 .. i - 1 : result'[j] = m
    <3>1. CASE i \in DOMAIN result
      <4>1. PICK j \in 1 .. i - 1 : result[j] = m
        BY <1>4, <1>9, <2>5, <3>1
      <4>2. j \in DOMAIN result
        BY <1>9, <3>1
      <4>3. QED
        BY <1>9, <4>1, <4>2
    <3>2. CASE i = Len(result) + 1
      <4>1. PICK e \in EdgesInto(nodes, curr) : e[1] = m
        BY <1>5, <1>9, <2>5, <3>2, EdgesAreConstraints
      <4>2. m \in Placed
        BY <1>4, <1>5, <4>1
      <4>3. PICK j \in DOMAIN result : result[j] = m
        BY <4>2 DEF Placed
      <4>4. j \in 1 .. i - 1
        BY <1>9, <3>2, <4>3
      <4>5. QED
        BY <1>9, <4>3, <4>4
    <3>3. QED
      BY <1>9, <3>1, <3>2
  <2>6. QED
    BY <1>1, <1>8, <2>1, <2>2, <2>3, <2>4, <2>5 DEF KahnInvariant
<1>13. AnswerInv'
  BY <1>1 DEF AnswerInv, RespectsConstraints, CycleIsReal
<1>14. QED
  BY <1>1, <1>11, <1>12, <1>13

LEMMA ReturnIInv ==
  ASSUME IInv, Return
  PROVE  IInv'
<1> USE DEF IInv
<1>1. /\ pc = "kahn" /\ queue = <<>>
      /\ UNCHANGED <<stages, nodes, waiting, queue>>
  BY DEF Return
<1>2. /\ nodes \subseteq Candidates /\ result \in Seq(nodes)
      /\ Len(result) \in Nat /\ DOMAIN result = 1 .. Len(result)
      /\ \A i \in DOMAIN result : result[i] \in nodes
  BY LenProperties, ElementOfSeq DEF TypeOK
<1>3. /\ \A n \in nodes : waiting[n] = {e \in EdgesInto(nodes, n) : e[1] \notin Placed}
      /\ \A n \in nodes : waiting[n] = {} <=> n \in Placed \cup Queued
      /\ Distinct(result)
      /\ \A i \in DOMAIN result : \A m \in nodes :
           MustPrecede(m, result[i]) => \E j \in 1 .. i - 1 : result[j] = m
  BY <1>1 DEF KahnInvariant
<1>4. Queued = {}
  BY <1>1 DEF Queued
<1>5. Len(result) = Cardinality(nodes) <=> Placed = nodes
  <2>1. result \in Injection(1 .. Len(result), nodes)
    BY <1>2, <1>3 DEF Injection, IsInjective, Distinct
  <2>2. Cardinality(1 .. Len(result)) = Len(result)
    <3>1. 1 \in Int /\ Len(result) \in Int
      BY <1>2
    <3>2. Cardinality(1 .. Len(result)) = IF 1 > Len(result) THEN 0 ELSE Len(result) - 1 + 1
      BY <3>1, FS_Interval
    <3>3. QED
      BY <1>2, <3>2
  <2>3. Cardinality(1 .. Len(result)) = Cardinality(nodes)
          <=> result \in Surjection(1 .. Len(result), nodes)
    BY <2>1, FS_Injection
  <2>4. result \in Surjection(1 .. Len(result), nodes) <=> Placed = nodes
    BY <1>2 DEF Surjection, Placed
  <2>5. QED
    BY <2>2, <2>3, <2>4
<1>6. CASE Len(result) # Cardinality(nodes) /\ pc' = "cycle" /\ result' = <<>>
  <2>1. TypeOK'
    BY <1>1, <1>6 DEF TypeOK, Validate
  <2>2. Cyclic(nodes)
    <3> DEFINE S == nodes \ Placed
    <3>1. S # {}
      BY <1>2, <1>5, <1>6 DEF Placed
    <3>2. ASSUME NEW n \in S
          PROVE  \E m \in S : MustPrecede(m, n)
      <4>1. waiting[n] # {}
        BY <1>3, <1>4
      <4>2. PICK e \in EdgesInto(nodes, n) : e[1] \notin Placed
        BY <1>3, <4>1
      <4>3. e[1] \in S /\ MustPrecede(e[1], n)
        BY <4>2, EdgesAreConstraints
      <4>4. QED
        BY <4>3
    <3>3. S \in SUBSET nodes
      OBVIOUS
    <3>4. QED
      BY <3>1, <3>2, <3>3 DEF Cyclic
  <2>3. AnswerInv'
    BY <1>1, <1>6, <2>2 DEF AnswerInv, RespectsConstraints, CycleIsReal, Cyclic, MustPrecede
  <2>4. QED
    BY <1>1, <1>6, <2>1, <2>3 DEF KahnInvariant
<1>7. CASE Len(result) = Cardinality(nodes) /\ pc' = "sorted" /\ UNCHANGED result
  <2>1. TypeOK'
    BY <1>1, <1>7 DEF TypeOK, Validate
  <2>2. RespectsConstraints'
    <3> SUFFICES ASSUME NEW i \in DOMAIN result, NEW j \in DOMAIN result,
                        MustPrecede(result[i], result[j])
                 PROVE  i < j
      BY <1>1, <1>7 DEF RespectsConstraints, MustPrecede
    <3>1. PICK k \in 1 .. j - 1 : result[k] = result[i]
      BY <1>2, <1>3
    <3>2. k = i
      BY <1>2, <1>3, <3>1 DEF Distinct
    <3>3. QED
      BY <1>2, <3>1, <3>2
  <2>3. (Distinct(result) /\ Placed = nodes)'
    BY <1>1, <1>3, <1>5, <1>7 DEF Distinct, Placed
  <2>4. AnswerInv'
    BY <1>7, <2>2, <2>3 DEF AnswerInv, CycleIsReal
  <2>5. QED
    BY <1>1, <1>7, <2>1, <2>4 DEF KahnInvariant
<1>8. QED
  BY <1>6, <1>7 DEF Return

LEMMA StutterIInv ==
  ASSUME IInv, UNCHANGED vars
  PROVE  IInv'
<1>1. UNCHANGED <<stages, pc, nodes, waiting, queue, result>>
  BY DEF vars
<1>2. TypeOK' /\ IsFiniteSet(nodes)'
  BY <1>1 DEF IInv, TypeOK, Validate
<1>3. KahnInvariant'
  BY <1>1 DEF IInv, KahnInvariant, Placed, Queued, Distinct, MustPrecede, EdgesInto, Edges
<1>4. AnswerInv'
  BY <1>1 DEF IInv, AnswerInv, RespectsConstraints, CycleIsReal, Placed, Distinct,
              Cyclic, MustPrecede
<1>5. QED
  BY <1>2, <1>3, <1>4 DEF IInv

\* The inductive invariant holds in every state of the registry.
THEOREM Invariance == Spec => []IInv
<1>1. IInv /\ [Next]_vars => IInv'
  <2> SUFFICES ASSUME IInv, [Next]_vars PROVE IInv'
    OBVIOUS
  <2>1. ASSUME NEW c \in Candidates, Register(c) PROVE IInv'
    BY <2>1, RegisterIInv
  <2>2. ASSUME NEW p \in Phases, StagesForPhase(p) PROVE IInv'
    BY <2>2, StagesForPhaseIInv
  <2>3. CASE Place
    BY <2>3, PlaceIInv
  <2>4. CASE Return
    BY <2>4, ReturnIInv
  <2>5. CASE UNCHANGED vars
    BY <2>5, StutterIInv
  <2>6. QED
    BY <2>1, <2>2, <2>3, <2>4, <2>5 DEF Next
<1>2. QED
  BY <1>1, InitIInv, PTL DEF Spec

-----------------------------------------------------------------------------
(***************************************************************************)
(* What callers of StagesForPhase rely on                                  *)
(***************************************************************************)

\* The registry keeps its types: only valid stages, no two with one name.
THEOREM TypeCorrect == Spec => []TypeOK
<1>1. IInv => TypeOK
  BY DEF IInv
<1>2. QED
  BY <1>1, Invariance, PTL

\* Two or more stages are returned in an order that respects every Before and
\* After of the phase, whatever the stages and however they were registered.
THEOREM OrderRespectsConstraints == Spec => []RespectsConstraints
<1>1. IInv => RespectsConstraints
  BY DEF IInv, AnswerInv
<1>2. QED
  BY <1>1, Invariance, PTL

\* An answer lists every stage of the phase exactly once.
THEOREM OrderListsEveryStageOnce == Spec => []ListsEveryStageOnce
<1>1. IInv => ListsEveryStageOnce
  BY DEF IInv, AnswerInv, ListsEveryStageOnce, Distinct, Placed
<1>2. QED
  BY <1>1, Invariance, PTL

\* A cycle error is returned only when the constraints form a cycle.
THEOREM ReportedCycleIsReal == Spec => []CycleIsReal
<1>1. IInv => CycleIsReal
  BY DEF IInv, AnswerInv
<1>2. QED
  BY <1>1, Invariance, PTL

\* No order is returned for two or more stages whose constraints form a cycle:
\* the stage of the cycle that comes first in the order would have to come
\* after another stage of the cycle.
THEOREM CyclesAreReported == Spec => []CycleIsReported
<1>1. IInv => CycleIsReported
  <2> SUFFICES ASSUME IInv, pc = "sorted", Cardinality(nodes) > 1, Cyclic(nodes)
               PROVE  FALSE
    BY DEF CycleIsReported
  <2>1. PICK S \in SUBSET nodes : S # {} /\ \A n \in S : \E m \in S : MustPrecede(m, n)
    BY DEF Cyclic
  <2>2. Placed = nodes /\ RespectsConstraints
    BY DEF IInv, AnswerInv
  <2>3. Len(result) \in Nat /\ DOMAIN result = 1 .. Len(result)
    BY LenProperties DEF IInv, TypeOK
  <2> DEFINE I == {i \in DOMAIN result : result[i] \in S}
  <2>4. I \subseteq Nat /\ I # {}
    BY <2>1, <2>2, <2>3 DEF Placed
  <2>5. PICK i \in I : \A j \in I : ~ (j < i)
    BY <2>4, LeastElement
  <2>7. PICK m \in S : MustPrecede(m, result[i])
    BY <2>1
  <2>8. PICK j \in DOMAIN result : result[j] = m
    BY <2>1, <2>2, <2>7 DEF Placed
  <2>9. j < i
    BY <2>2, <2>7, <2>8 DEF RespectsConstraints
  <2>10. QED
    BY <2>5, <2>7, <2>8, <2>9
<1>2. QED
  BY <1>1, Invariance, PTL

-----------------------------------------------------------------------------
(***************************************************************************)
(* Without constraints                                                     *)
(***************************************************************************)

Unconstrained == \A m, n \in nodes : ~ MustPrecede(m, n)

InPriorityOrder(s) == \A i, j \in DOMAIN s : i < j => Precedes(s[i], s[j])

\* No stage is ever released: the queue is the rest of the sorted list.
PriorityInv ==
  /\ pc = "kahn" /\ Unconstrained =>
       /\ InPriorityOrder(result)
       /\ InPriorityOrder(queue)
       /\ \A i \in DOMAIN result, j \in DOMAIN queue : Precedes(result[i], queue[j])
  /\ UnconstrainedIsPriorityOrder

LEMMA NothingIsReleased ==
  ASSUME IInv, pc = "kahn", Unconstrained
  PROVE  \A n \in nodes : waiting[n] = {}
<1> TAKE n \in nodes
<1>1. EdgesInto(nodes, n) = {}
  <2>1. \A e \in EdgesInto(nodes, n) : e[1] \in nodes /\ MustPrecede(e[1], n)
    BY EdgesAreConstraints
  <2> QED BY <2>1 DEF Unconstrained
<1> QED BY <1>1 DEF IInv, KahnInvariant

LEMMA EmptyBatch == SortedSeqs({}) \subseteq {<<>>}
<1> SUFFICES ASSUME NEW q \in SortedSeqs({}) PROVE q = <<>>
  OBVIOUS
<1>1. Cardinality({}) = 0 BY FS_EmptySet
<1>2. q \in [1 .. 0 -> {}] BY <1>1 DEF SortedSeqs
<1>3. q \in Seq({}) /\ Len(q) = 0 BY <1>2
<1> QED BY <1>3, EmptySeq

\* The head of the queue goes to the end of the result.
LEMMA PlacePriority ==
  ASSUME IInv, PriorityInv, Place, Unconstrained
  PROVE  /\ InPriorityOrder(result')
         /\ InPriorityOrder(queue')
         /\ \A i \in DOMAIN result', j \in DOMAIN queue' : Precedes(result'[i], queue'[j])
<1>1. /\ pc = "kahn" /\ queue # <<>> /\ result' = Append(result, Head(queue))
      /\ queue \in Seq(nodes) /\ result \in Seq(nodes)
  BY DEF Place, IInv, TypeOK
<1>2. {n \in nodes : waiting[n] # {} /\
         [m \in nodes |-> {e \in waiting[m] : e[1] # Head(queue)}][n] = {}} = {}
  BY <1>1, NothingIsReleased
<1>3. queue' = Tail(queue)
  <2>1. PICK b \in SortedSeqs({}) : queue' = Tail(queue) \o b
    BY <1>2 DEF Place
  <2>2. b = <<>> BY EmptyBatch
  <2>3. Tail(queue) \in Seq(nodes) BY <1>1, HeadTailProperties
  <2> QED BY <2>1, <2>2, <2>3, ConcatEmptySeq
<1>4. /\ Len(queue) \in Nat \ {0} /\ DOMAIN queue = 1 .. Len(queue)
      /\ Len(result) \in Nat /\ DOMAIN result = 1 .. Len(result)
  BY <1>1, EmptySeq, LenProperties
<1>5. /\ DOMAIN queue' = 1 .. Len(queue) - 1
      /\ \A i \in 1 .. Len(queue) - 1 : queue'[i] = queue[i + 1]
  <2>1. /\ Tail(queue) \in Seq(nodes) /\ Len(Tail(queue)) = Len(queue) - 1
        /\ \A i \in 1 .. Len(Tail(queue)) : Tail(queue)[i] = queue[i + 1]
    BY <1>1, HeadTailProperties
  <2> QED BY <1>3, <2>1, LenProperties
<1>6. /\ DOMAIN result' = 1 .. Len(result) + 1
      /\ result'[Len(result) + 1] = queue[1]
      /\ \A i \in 1 .. Len(result) : result'[i] = result[i]
  <2>1. Head(queue) = queue[1] /\ Head(queue) \in nodes BY <1>1, <1>4
  <2> QED BY <1>1, <1>4, <2>1, AppendProperties, LenProperties
<1>7. /\ \A i, j \in DOMAIN result : i < j => Precedes(result[i], result[j])
      /\ \A i, j \in DOMAIN queue : i < j => Precedes(queue[i], queue[j])
      /\ \A i \in DOMAIN result, j \in DOMAIN queue : Precedes(result[i], queue[j])
  BY <1>1 DEF PriorityInv, InPriorityOrder
<1>8. InPriorityOrder(result')
  BY <1>4, <1>6, <1>7 DEF InPriorityOrder
<1>9. InPriorityOrder(queue')
  <2> SUFFICES ASSUME NEW i \in DOMAIN queue', NEW j \in DOMAIN queue', i < j
               PROVE  Precedes(queue'[i], queue'[j])
    BY DEF InPriorityOrder
  <2>1. /\ i + 1 \in DOMAIN queue /\ queue'[i] = queue[i + 1]
        /\ j + 1 \in DOMAIN queue /\ queue'[j] = queue[j + 1]
        /\ i + 1 < j + 1
    BY <1>4, <1>5
  <2> QED BY <1>7, <2>1
<1>10. \A i \in DOMAIN result', j \in DOMAIN queue' : Precedes(result'[i], queue'[j])
  <2> TAKE i \in DOMAIN result', j \in DOMAIN queue'
  <2>1. j \in 1 .. Len(queue) - 1 /\ queue'[j] = queue[j + 1] /\ j + 1 \in DOMAIN queue
    BY <1>4, <1>5
  <2>2. CASE i \in 1 .. Len(result) BY <1>4, <1>6, <1>7, <2>1, <2>2
  <2>3. CASE i = Len(result) + 1 BY <1>4, <1>6, <1>7, <2>1, <2>3
  <2> QED BY <1>4, <1>6, <2>2, <2>3
<1> QED BY <1>8, <1>9, <1>10

LEMMA NextPriority == IInv /\ PriorityInv /\ [Next]_vars => PriorityInv'
<1> SUFFICES ASSUME IInv, PriorityInv, [Next]_vars PROVE PriorityInv'
  OBVIOUS
<1> DEFINE Sorted == pc = "sorted" /\ Unconstrained => InPriorityOrder(result)
<1>1. UnconstrainedIsPriorityOrder <=> Sorted
  BY DEF UnconstrainedIsPriorityOrder, Unconstrained, InPriorityOrder
<1>2. UnconstrainedIsPriorityOrder' <=> Sorted'
  BY DEF UnconstrainedIsPriorityOrder, Unconstrained, InPriorityOrder
<1>3. nodes' = nodes => (Unconstrained' <=> Unconstrained)
  BY DEF Unconstrained
<1>4. ASSUME NEW p \in Phases, StagesForPhase(p) PROVE PriorityInv'
  <2>1. \A S : \A q \in SortedSeqs(S) : InPriorityOrder(q)
    BY DEF SortedSeqs, InPriorityOrder
  <2>2. CASE pc' = "sorted"
    <3>1. InPriorityOrder(result') BY <1>4, <2>1, <2>2 DEF StagesForPhase
    <3> QED BY <1>2, <2>2, <3>1 DEF PriorityInv
  <2>3. CASE pc' = "kahn"
    <3>1. InPriorityOrder(queue') /\ result' = <<>>
      BY <1>4, <2>1, <2>3 DEF StagesForPhase
    <3>2. DOMAIN result' = {} BY <3>1
    <3>3. InPriorityOrder(result') BY <3>2 DEF InPriorityOrder
    <3> QED BY <1>2, <2>3, <3>1, <3>2, <3>3 DEF PriorityInv
  <2> QED BY <1>4, <2>2, <2>3 DEF StagesForPhase
<1>5. CASE Place
  <2>1. nodes' = nodes /\ pc' = "kahn" /\ pc = "kahn" BY <1>5 DEF Place
  <2> QED BY <1>2, <1>3, <1>5, <2>1, PlacePriority DEF PriorityInv
<1>6. CASE Return
  <2>1. nodes' = nodes /\ pc = "kahn" /\ pc' # "kahn" /\ (pc' = "sorted" => result' = result)
    BY <1>6 DEF Return
  <2> QED BY <1>2, <1>3, <2>1 DEF PriorityInv
<1>7. CASE (\E c \in Candidates : Register(c)) \/ UNCHANGED vars
  <2>1. UNCHANGED <<pc, nodes, queue, result>>
    BY <1>7 DEF Register, vars
  <2> QED BY <1>1, <1>2, <1>3, <2>1 DEF PriorityInv
<1> QED BY <1>4, <1>5, <1>6, <1>7 DEF Next

\* The stages of a phase without constraints are returned by priority and name,
\* in whatever order they were registered.
THEOREM UnconstrainedIsDeterministic == Spec => []UnconstrainedIsPriorityOrder
<1>1. Init => PriorityInv
  BY DEF Init, PriorityInv, UnconstrainedIsPriorityOrder
<1>2. PriorityInv => UnconstrainedIsPriorityOrder
  BY DEF PriorityInv
<1> QED BY <1>1, <1>2, NextPriority, Invariance, PTL DEF Spec
-----------------------------------------------------------------------------
(***************************************************************************)
(* The sort is a function of the stages, and comes to an end               *)
(***************************************************************************)

OneOfEachName(S) == \A a, b \in S : a.name = b.name => a = b

Greatest(S, g) == g \in S /\ \A s \in S \ {g} : Precedes(s, g)

\* Precedes is a total order of stages of different names.
LEMMA PrecedesIsTotal ==
  ASSUME NEW S \in SUBSET Descriptor, OneOfEachName(S)
  PROVE  /\ \A a, b \in S : a # b => Precedes(a, b) \/ Precedes(b, a)
         /\ \A a, b \in S : ~ (Precedes(a, b) /\ Precedes(b, a))
         /\ \A a, b, c \in S : Precedes(a, b) /\ Precedes(b, c) => Precedes(a, c)
<1>1. \A a \in S : a.order \in Int /\ a.name \in Nat
  BY DEF Descriptor
<1> QED BY <1>1 DEF OneOfEachName, Precedes

\* One stage less: what a proof by the size of a set takes away.
LEMMA OneStageLess ==
  ASSUME NEW S, IsFiniteSet(S), NEW x \in S
  PROVE  /\ Cardinality(S) \in Nat \ {0}
         /\ IsFiniteSet(S \ {x}) /\ Cardinality(S \ {x}) = Cardinality(S) - 1
<1>1. IsFiniteSet(S \ {x}) /\ Cardinality(S \ {x}) = Cardinality(S) - 1
  BY FS_RemoveElement
<1>2. Cardinality(S) \in Nat /\ Cardinality(S \ {x}) \in Nat
  BY <1>1, FS_CardinalityType
<1> QED BY <1>1, <1>2

\* Finitely many stages of different names have a greatest one: a smallest set
\* without one would leave a smaller one when a stage is taken away.
LEMMA GreatestStage ==
  ASSUME NEW T \in SUBSET Descriptor, IsFiniteSet(T), OneOfEachName(T)
  PROVE  \A S \in SUBSET T : S # {} => \E g : Greatest(S, g)
<1> DEFINE Bad(S) == S \in SUBSET T /\ S # {} /\ ~ \E g : Greatest(S, g)
           Sizes == {Cardinality(S) : S \in {S \in SUBSET T : Bad(S)}}
<1> SUFFICES ASSUME Sizes # {} PROVE FALSE
  OBVIOUS
<1>1. \A S \in SUBSET T : IsFiniteSet(S) /\ Cardinality(S) \in Nat
  BY FS_Subset, FS_CardinalityType
<1>2. PICK n \in Sizes : \A m \in Sizes : ~ (m < n)
  <2>1. Sizes \in SUBSET Nat BY <1>1
  <2> HIDE DEF Sizes
  <2> QED BY <2>1, LeastElement
<1>3. PICK S \in SUBSET T : Bad(S) /\ Cardinality(S) = n
  OBVIOUS
<1>4. PICK x \in S : TRUE
  BY <1>3
<1>5. Cardinality(S \ {x}) < n
  BY <1>1, <1>3, OneStageLess
<1>6. S \ {x} # {}
  <2>1. S \ {x} = {} => Greatest(S, x) BY DEF Greatest
  <2> QED BY <1>3, <2>1
<1>7. ~ Bad(S \ {x})
  <2>1. S \ {x} \in SUBSET T OBVIOUS
  <2>2. Bad(S \ {x}) => Cardinality(S \ {x}) \in Sizes BY <2>1
  <2> QED BY <1>2, <1>5, <2>2
<1>8. PICK g : Greatest(S \ {x}, g)
  BY <1>6, <1>7
<1>9. /\ Precedes(x, g) \/ Precedes(g, x)
      /\ \A a, b, c \in S : Precedes(a, b) /\ Precedes(b, c) => Precedes(a, c)
  <2>1. S \in SUBSET Descriptor /\ OneOfEachName(S) BY DEF OneOfEachName
  <2>2. g \in S /\ g # x BY <1>8 DEF Greatest
  <2> QED BY <2>1, <2>2, PrecedesIsTotal
<1>10. Greatest(S, g) \/ Greatest(S, x)
  <2>1. g \in S /\ g # x /\ \A s \in (S \ {x}) \ {g} : Precedes(s, g) BY <1>8 DEF Greatest
  <2>2. CASE Precedes(x, g) BY <2>1, <2>2 DEF Greatest
  <2>3. CASE Precedes(g, x) BY <1>9, <2>1, <2>3 DEF Greatest
  <2> QED BY <1>9, <2>2, <2>3
<1> QED BY <1>3, <1>10

\* The greatest stage goes to the end of the others, sorted.
LEMMA SortGreatestLast ==
  ASSUME NEW S \in SUBSET Descriptor, IsFiniteSet(S), NEW g, Greatest(S, g),
         NEW q \in SortedSeqs(S \ {g})
  PROVE  SortedSeqs(S) # {}
<1> DEFINE n == Cardinality(S)
           r == [i \in 1 .. n |-> IF i = n THEN g ELSE q[i]]
<1>1. g \in S /\ \A s \in S \ {g} : Precedes(s, g)
  BY DEF Greatest
<1>2. n \in Nat \ {0} /\ Cardinality(S \ {g}) = n - 1
  BY <1>1, OneStageLess
<1>3. /\ q \in [1 .. n - 1 -> S \ {g}]
      /\ \A i, j \in 1 .. n - 1 : i < j => Precedes(q[i], q[j])
      /\ \A s \in S \ {g} : \E i \in 1 .. n - 1 : q[i] = s
  <2>1. q \in [1 .. Cardinality(S \ {g}) -> S \ {g}] BY DEF SortedSeqs
  <2>2. DOMAIN q = 1 .. n - 1 BY <1>2, <2>1
  <2> QED BY <1>2, <2>1, <2>2 DEF SortedSeqs
<1> HIDE DEF n
<1>4. r \in [1 .. n -> S]
  <2>1. \A i \in 1 .. n : i # n => i \in 1 .. n - 1 BY <1>2
  <2> QED BY <1>1, <1>3, <2>1
<1>5. \A i, j \in DOMAIN r : i < j => Precedes(r[i], r[j])
  <2> SUFFICES ASSUME NEW i \in 1 .. n, NEW j \in 1 .. n, i < j PROVE Precedes(r[i], r[j])
    OBVIOUS
  <2>1. i \in 1 .. n - 1 /\ i # n /\ (j # n => j \in 1 .. n - 1) BY <1>2
  <2>2. r[i] = q[i] /\ q[i] \in S \ {g} BY <1>3, <2>1
  <2>3. CASE j = n BY <1>1, <2>2, <2>3
  <2>4. CASE j # n BY <1>3, <2>1, <2>2, <2>4
  <2> QED BY <2>3, <2>4
<1>6. \A s \in S : \E i \in DOMAIN r : r[i] = s
  <2> TAKE s \in S
  <2>1. CASE s = g
    <3>1. n \in 1 .. n BY <1>2
    <3> QED BY <2>1, <3>1
  <2>2. CASE s # g
    <3>1. PICK i \in 1 .. n - 1 : q[i] = s BY <1>3, <2>2
    <3>2. i \in 1 .. n /\ i # n BY <1>2
    <3> QED BY <3>1, <3>2
  <2> QED BY <2>1, <2>2
<1>7. r \in SortedSeqs(S)
  <2> USE DEF n
  <2> HIDE DEF r
  <2> QED BY <1>4, <1>5, <1>6 DEF SortedSeqs
<1> QED BY <1>7

\* Finitely many stages of different names can be sorted.
LEMMA CanBeSorted ==
  ASSUME NEW T \in SUBSET Descriptor, IsFiniteSet(T), OneOfEachName(T)
  PROVE  \A S \in SUBSET T : SortedSeqs(S) # {}
<1> DEFINE Bad(S) == S \in SUBSET T /\ SortedSeqs(S) = {}
           Sizes == {Cardinality(S) : S \in {S \in SUBSET T : Bad(S)}}
<1> SUFFICES ASSUME Sizes # {} PROVE FALSE
  OBVIOUS
<1>1. \A S \in SUBSET T : IsFiniteSet(S) /\ Cardinality(S) \in Nat
  BY FS_Subset, FS_CardinalityType
<1>2. PICK n \in Sizes : \A m \in Sizes : ~ (m < n)
  <2>1. Sizes \in SUBSET Nat BY <1>1
  <2> HIDE DEF Sizes
  <2> QED BY <2>1, LeastElement
<1>3. PICK S \in SUBSET T : Bad(S) /\ Cardinality(S) = n
  OBVIOUS
<1>4. S # {}
  <2> SUFFICES ASSUME S = {} PROVE FALSE
    OBVIOUS
  <2>1. Cardinality(S) = 0 BY FS_EmptySet
  <2>2. [i \in 1 .. 0 |-> 0] \in [1 .. 0 -> S]
    <3>1. 1 .. 0 = {} OBVIOUS
    <3> QED BY <3>1
  <2>3. [i \in 1 .. 0 |-> 0] \in SortedSeqs(S)
    <3>1. DOMAIN [i \in 1 .. 0 |-> 0] = {} OBVIOUS
    <3> QED BY <2>1, <2>2, <3>1 DEF SortedSeqs
  <2> QED BY <1>3, <2>3
<1>5. PICK g : Greatest(S, g)
  BY <1>4, GreatestStage
<1>6. g \in S
  BY <1>5 DEF Greatest
<1>7. Cardinality(S \ {g}) < n
  BY <1>1, <1>3, <1>6, OneStageLess
<1>8. SortedSeqs(S \ {g}) # {}
  <2>1. S \ {g} \in SUBSET T OBVIOUS
  <2>2. Bad(S \ {g}) => Cardinality(S \ {g}) \in Sizes BY <2>1
  <2> QED BY <1>2, <1>7, <2>1, <2>2
<1>9. SortedSeqs(S) # {}
  <2>1. S \in SUBSET Descriptor /\ IsFiniteSet(S) BY <1>1
  <2> QED BY <1>5, <1>8, <2>1, SortGreatestLast
<1> QED BY <1>3, <1>9

\* They can be sorted in one way only: where two sorted lists differ first, the
\* stage of each comes later in the other.
LEMMA SortedInOneWay ==
  ASSUME NEW S \in SUBSET Descriptor, IsFiniteSet(S), OneOfEachName(S),
         NEW q \in SortedSeqs(S), NEW r \in SortedSeqs(S)
  PROVE  q = r
<1> DEFINE n == Cardinality(S)
           Differ == {i \in 1 .. n : q[i] # r[i]}
<1>1. n \in Nat
  BY FS_CardinalityType
<1>2. /\ q \in [1 .. n -> S] /\ \A i, j \in 1 .. n : i < j => Precedes(q[i], q[j])
      /\ \A s \in S : \E i \in 1 .. n : q[i] = s
  BY DEF SortedSeqs
<1>3. /\ r \in [1 .. n -> S] /\ \A i, j \in 1 .. n : i < j => Precedes(r[i], r[j])
      /\ \A s \in S : \E i \in 1 .. n : r[i] = s
  BY DEF SortedSeqs
<1> HIDE DEF n
<1>0. Differ = {} => q = r
  <2>1. Differ = {} => \A i \in 1 .. n : q[i] = r[i] OBVIOUS
  <2>2. q = [i \in 1 .. n |-> q[i]] /\ r = [i \in 1 .. n |-> r[i]] BY <1>2, <1>3
  <2> HIDE DEF Differ
  <2> QED BY <2>1, <2>2
<1> SUFFICES ASSUME Differ # {} PROVE FALSE
  BY <1>0
<1>4. PICK i \in Differ : \A j \in Differ : ~ (j < i)
  <2>1. Differ \in SUBSET Nat BY <1>1
  <2> HIDE DEF Differ
  <2> QED BY <2>1, LeastElement
<1>5. \A j \in 1 .. n : j < i => q[j] = r[j]
  BY <1>4
<1>6. \A a, b \in S : ~ (Precedes(a, b) /\ Precedes(b, a))
  BY PrecedesIsTotal
<1>7. PICK j \in 1 .. n : r[j] = q[i]
  BY <1>2, <1>3
<1>8. PICK k \in 1 .. n : q[k] = r[i]
  BY <1>2, <1>3
<1>9. i \in 1 .. n /\ q[i] # r[i] /\ q[i] \in S /\ r[i] \in S
  BY <1>2, <1>3
<1>10. i < j
  <2>1. CASE j < i
    <3>1. q[j] = q[i] /\ Precedes(q[j], q[i]) BY <1>2, <1>5, <1>7, <1>9, <2>1
    <3> QED BY <1>6, <1>9, <3>1
  <2>2. j # i BY <1>7, <1>9
  <2> QED BY <1>1, <1>9, <2>1, <2>2
<1>11. i < k
  <2>1. CASE k < i
    <3>1. r[k] = r[i] /\ Precedes(r[k], r[i]) BY <1>3, <1>5, <1>8, <1>9, <2>1
    <3> QED BY <1>6, <1>9, <3>1
  <2>2. k # i BY <1>8, <1>9
  <2> QED BY <1>1, <1>9, <2>1, <2>2
<1>12. Precedes(r[i], q[i]) /\ Precedes(q[i], r[i])
  BY <1>2, <1>3, <1>7, <1>8, <1>9, <1>10, <1>11
<1> QED BY <1>6, <1>9, <1>12

\* Any of the registered stages, and any of those being sorted, can be sorted in
\* exactly one way.
SortIsAFunction ==
  /\ nodes \subseteq Elements(stages)
  /\ \A S \in SUBSET Elements(stages) : \E q : SortedSeqs(S) = {q}

LEMMA StagesSortInOneWay == IInv => \A S \in SUBSET Elements(stages) : \E q : SortedSeqs(S) = {q}
<1> SUFFICES ASSUME IInv, NEW S \in SUBSET Elements(stages)
             PROVE  \E q : SortedSeqs(S) = {q}
  OBVIOUS
<1>1. stages \in Seq(Candidates)
  <2>1. stages \in Seq({d \in Candidates : Validate(d)}) BY DEF IInv, TypeOK
  <2> QED BY <2>1, SeqMonotonic
<1>2. IsFiniteSet(Elements(stages)) /\ Elements(stages) \subseteq Candidates
  <2>1. DOMAIN stages \in SUBSET DOMAIN stages OBVIOUS
  <2> QED BY <1>1, <2>1, StagesAreFinite DEF Elements
<1>3. OneOfEachName(Elements(stages))
  <2>1. \A i, j \in DOMAIN stages : stages[i].name = stages[j].name => i = j
    BY DEF IInv, TypeOK
  <2> QED BY <2>1 DEF OneOfEachName, Elements
<1>4. IsFiniteSet(S) /\ S \in SUBSET Descriptor /\ OneOfEachName(S)
  BY <1>2, <1>3, FS_Subset, CandidatesAssumption DEF OneOfEachName
<1>5. SortedSeqs(S) # {}
  BY <1>4, CanBeSorted
<1>6. PICK q : q \in SortedSeqs(S)
  BY <1>5
<1>7. \A r \in SortedSeqs(S) : r = q
  BY <1>4, <1>6, SortedInOneWay
<1>8. SortedSeqs(S) = {q}
  BY <1>6, <1>7
<1> QED BY <1>8

\* sort.Slice is not stable, and the batches it is used for are put together by
\* chance of the constraints: whatever is registered, each can be sorted, and in
\* one way.  So neither the order of registration nor the sort has a say in the
\* order StagesForPhase returns, and a step of the loop can always be taken.
THEOREM OrderIsDetermined == Spec => []SortIsAFunction
<1> DEFINE Inside == nodes \subseteq Elements(stages)
<1>1. Init => Inside
  BY DEF Init
<1>2. IInv /\ Inside /\ [Next]_vars => Inside'
  <2> SUFFICES ASSUME IInv, Inside, [Next]_vars PROVE Inside'
    OBVIOUS
  <2>1. ASSUME NEW c \in Candidates, Register(c) PROVE Inside'
    <3>1. stages \in Seq(Candidates)
      <4>1. stages \in Seq({d \in Candidates : Validate(d)}) BY DEF IInv, TypeOK
      <4> QED BY <4>1, SeqMonotonic
    <3>2. stages' = Append(stages, c) /\ nodes' = nodes BY <2>1 DEF Register
    <3>3. /\ Len(stages) \in Nat /\ DOMAIN stages = 1 .. Len(stages)
          /\ DOMAIN stages' = 1 .. Len(stages) + 1
          /\ \A i \in 1 .. Len(stages) : stages'[i] = stages[i]
      BY <3>1, <3>2, AppendProperties, LenProperties
    <3> QED BY <3>2, <3>3 DEF Elements
  <2>2. ASSUME NEW p \in Phases, StagesForPhase(p) PROVE Inside'
    BY <2>2 DEF StagesForPhase, Elements
  <2>3. CASE Place BY <2>3 DEF Place
  <2>4. CASE Return BY <2>4 DEF Return
  <2>5. CASE UNCHANGED vars BY <2>5 DEF vars
  <2> QED BY <2>1, <2>2, <2>3, <2>4, <2>5 DEF Next
<1>3. IInv /\ Inside => SortIsAFunction
  BY StagesSortInOneWay DEF SortIsAFunction
<1> HIDE DEF Inside
<1> QED BY <1>1, <1>2, <1>3, Invariance, PTL DEF Spec

\* The stages that were not placed yet: each iteration of Kahn's loop places one.
Unplaced == Cardinality(nodes) - Len(result)

PlacesOne ==
  pc = "kahn" =>
    /\ Unplaced \in Nat
    /\ \/ pc' \in {"sorted", "cycle"}
       \/ pc' = "kahn" /\ nodes' = nodes /\ Unplaced' = Unplaced - 1 /\ Unplaced' \in Nat

\* The result is part of the nodes, listed once each.
LEMMA UnplacedType == IInv => (pc = "kahn" => Unplaced \in Nat)
<1> SUFFICES ASSUME IInv, pc = "kahn" PROVE Unplaced \in Nat
  OBVIOUS
<1>1. /\ IsFiniteSet(nodes) /\ result \in Seq(nodes) /\ Distinct(result)
  BY DEF IInv, TypeOK, KahnInvariant
<1>2. Len(result) \in Nat /\ DOMAIN result = 1 .. Len(result)
      /\ \A i \in 1 .. Len(result) : result[i] \in nodes
  BY <1>1, LenProperties, ElementOfSeq
<1>3. Cardinality(1 .. Len(result)) = Len(result) /\ IsFiniteSet(1 .. Len(result))
  <2>1. 1 \in Int /\ Len(result) \in Int BY <1>2
  <2> QED BY <1>2, <2>1, FS_Interval
<1>4. [i \in 1 .. Len(result) |-> result[i]] \in Injection(1 .. Len(result), nodes)
  BY <1>1, <1>2 DEF Injection, IsInjective, Distinct
<1>5. Len(result) <= Cardinality(nodes)
  BY <1>1, <1>3, <1>4, FS_Injection
<1>6. Cardinality(nodes) \in Nat
  BY <1>1, FS_CardinalityType
<1> QED BY <1>2, <1>5, <1>6 DEF Unplaced

\* The sort of a phase ends: each iteration places a stage that was not placed, so
\* a phase of n stages has an order or a cycle after n iterations at most.
THEOREM SortsComeToAnEnd == Spec => [][PlacesOne]_vars
<1>1. IInv /\ IInv' /\ [Next]_vars => [PlacesOne]_vars
  <2> SUFFICES ASSUME IInv, IInv', Next, pc = "kahn"
               PROVE  /\ Unplaced \in Nat
                      /\ \/ pc' \in {"sorted", "cycle"}
                         \/ pc' = "kahn" /\ nodes' = nodes
                            /\ Unplaced' = Unplaced - 1 /\ Unplaced' \in Nat
    BY DEF PlacesOne
  <2>1. Unplaced \in Nat
    BY UnplacedType
  <2>2. CASE Place
    <3>1. pc' = "kahn" /\ nodes' = nodes /\ result' = Append(result, Head(queue))
      BY <2>2 DEF Place
    <3>2. queue \in Seq(nodes) /\ queue # <<>> /\ result \in Seq(nodes) /\ IsFiniteSet(nodes)
      BY <2>2 DEF Place, IInv, TypeOK
    <3>3. Head(queue) \in nodes
      BY <3>2, HeadTailProperties
    <3>4. Len(result') = Len(result) + 1 /\ Len(result) \in Nat
      BY <3>1, <3>2, <3>3, AppendProperties, LenProperties
    <3>5. Cardinality(nodes) \in Nat
      BY <3>2, FS_CardinalityType
    <3>6. Unplaced' = Unplaced - 1
      BY <3>1, <3>4, <3>5 DEF Unplaced
    <3>7. (IInv => (pc = "kahn" => Unplaced \in Nat))'
      BY UnplacedType, PTL
    <3> QED BY <2>1, <3>1, <3>6, <3>7
  <2>3. CASE Return
    BY <2>1, <2>3 DEF Return
  <2>4. ASSUME NEW c \in Candidates, Register(c) PROVE FALSE
    BY <2>4 DEF Register
  <2>5. ASSUME NEW p \in Phases, StagesForPhase(p) PROVE FALSE
    BY <2>5 DEF StagesForPhase
  <2> QED BY <2>2, <2>3, <2>4, <2>5 DEF Next
<1> QED BY <1>1, Invariance, PTL DEF Spec
=============================================================================
