-------------------------- MODULE RegistriesProofs --------------------------
(***************************************************************************)
(* The order of versions, the ranges of constraints and the choice between *)
(* versions, for all of them: the runs have those on both sides of the     *)
(* bounds only.  And the HTTP client, for any number of retries and any    *)
(* archives: what its answers mean, and that its calls come to an end.     *)
(***************************************************************************)
EXTENDS Registries, FiniteSetTheorems, WellFoundedInduction, TLAPS

\* Compare is the lexicographic order, and zero for equal versions only.
LEMMA CompareIsTheOrder ==
  ASSUME NEW v \in Version, NEW w \in Version
  PROVE  /\ Compare(v, w) < 0 <=> Before(v, w)
         /\ Compare(v, w) > 0 <=> Before(w, v)
         /\ Compare(v, w) = 0 <=> v = w
<1>1. /\ v.major \in Nat /\ v.minor \in Nat /\ v.patch \in Nat
      /\ w.major \in Nat /\ w.minor \in Nat /\ w.patch \in Nat
  BY DEF Version
<1>2. v = w <=> v.major = w.major /\ v.minor = w.minor /\ v.patch = w.patch
  BY DEF Version
<1>3. \A i \in Int : /\ Sign(i) < 0 <=> i < 0
                     /\ Sign(i) > 0 <=> i > 0
                     /\ Sign(i) = 0 <=> i = 0
  BY DEF Sign
<1>4. /\ Sign(v.major - w.major) < 0 <=> v.major < w.major
      /\ Sign(v.major - w.major) > 0 <=> w.major < v.major
      /\ Sign(v.major - w.major) = 0 <=> v.major = w.major
      /\ Sign(v.minor - w.minor) < 0 <=> v.minor < w.minor
      /\ Sign(v.minor - w.minor) > 0 <=> w.minor < v.minor
      /\ Sign(v.minor - w.minor) = 0 <=> v.minor = w.minor
      /\ Sign(v.patch - w.patch) < 0 <=> v.patch < w.patch
      /\ Sign(v.patch - w.patch) > 0 <=> w.patch < v.patch
      /\ Sign(v.patch - w.patch) = 0 <=> v.patch = w.patch
  BY <1>1, <1>3
<1> QED BY <1>1, <1>2, <1>4 DEF Compare, Before

\* There is no version between a version and the next one.
LEMMA NextPatchIsNext ==
  ASSUME NEW v \in Version, NEW t \in Version
  PROVE  /\ Before(v, NextPatch(t)) <=> ~ Before(t, v)
         /\ ~ Before(v, t) /\ Before(v, NextPatch(t)) <=> v = t
<1>1. /\ v.major \in Nat /\ v.minor \in Nat /\ v.patch \in Nat
      /\ t.major \in Nat /\ t.minor \in Nat /\ t.patch \in Nat
  BY DEF Version
<1>2. v = t <=> v.major = t.major /\ v.minor = t.minor /\ v.patch = t.patch
  BY DEF Version
<1>3. /\ NextPatch(t).major = t.major /\ NextPatch(t).minor = t.minor
      /\ NextPatch(t).patch = t.patch + 1
  BY DEF NextPatch, Version
<1> QED BY <1>1, <1>2, <1>3 DEF Before

\* Above its target, a tilde range ends with the minor version.
LEMMA TildeRange ==
  ASSUME NEW v \in Version, NEW t \in Version, ~ Before(v, t)
  PROVE  v.major = t.major /\ v.minor = t.minor <=> Before(v, NextMinor(t))
<1>1. /\ v.major \in Nat /\ v.minor \in Nat /\ v.patch \in Nat
      /\ t.major \in Nat /\ t.minor \in Nat /\ t.patch \in Nat
  BY DEF Version
<1> QED BY <1>1 DEF Before, NextMinor

\* Above its target, a caret range ends where its first nonzero number does.
LEMMA CaretRange ==
  ASSUME NEW v \in Version, NEW t \in Version, ~ Before(v, t)
  PROVE  Caret(v, t) <=> Before(v, NextBreaking(t))
<1>1. /\ v.major \in Nat /\ v.minor \in Nat /\ v.patch \in Nat
      /\ t.major \in Nat /\ t.minor \in Nat /\ t.patch \in Nat
  BY DEF Version
<1>2. CASE t.major # 0
  BY <1>1, <1>2 DEF Before, Caret, NextBreaking, NextMajor
<1>3. CASE t.major = 0 /\ t.minor # 0
  BY <1>1, <1>3 DEF Before, Caret, NextBreaking, NextMinor
<1>4. CASE t.major = 0 /\ t.minor = 0
  <2>1. /\ NextPatch(t).major = t.major /\ NextPatch(t).minor = t.minor
        /\ NextPatch(t).patch = t.patch + 1
    BY DEF NextPatch, Version
  <2> QED BY <1>1, <1>4, <2>1 DEF Before, Caret, NextBreaking
<1> QED BY <1>1, <1>2, <1>3, <1>4

(* MatchConstraint decides membership in the range that a constraint       *)
(* means, for every version and every constraint that can be parsed.       *)
THEOREM MatchIsMembership ==
  ASSUME NEW v \in Version, NEW c \in Constraint, ~ Malformed(c)
  PROVE  MatchConstraint(v, c) <=> Admits(c, v)
<1>1. CASE c.op = "any" BY <1>1 DEF MatchConstraint, Admits
<1>2. CASE c.op # "any"
  <2> DEFINE t == c.target.version
  <2>1. t \in Version BY DEF Constraint, Text
  <2>2. ParseVersion(c.target) = t BY <1>2 DEF Malformed, ParseVersion
  <2>3. c.op \in Operators BY DEF Constraint
  <2>4. /\ Compare(v, t) = 0 <=> v = t
        /\ Compare(v, t) > 0 <=> Before(t, v)
        /\ Compare(v, t) < 0 <=> Before(v, t)
        /\ Compare(v, t) >= 0 <=> ~ Before(v, t)
        /\ Compare(v, t) <= 0 <=> ~ Before(t, v)
    <3>1. Compare(v, t) \in Int
      BY <2>1 DEF Compare, Sign, Version
    <3> QED BY <2>1, <3>1, CompareIsTheOrder
  <2>5. CASE c.op = "^"
    <3> HIDE DEF t
    <3>1. Admits(c, v) <=> ~ Before(v, t) /\ Before(v, NextBreaking(t))
      BY <2>5 DEF Admits, t
    <3>2. MatchConstraint(v, c) <=> Compare(v, t) >= 0 /\ Caret(v, t)
      BY <2>2, <2>5 DEF MatchConstraint
    <3> QED BY <2>1, <2>4, <3>1, <3>2, CaretRange
  <2>6. CASE c.op = "~"
    <3> HIDE DEF t
    <3>1. Admits(c, v) <=> ~ Before(v, t) /\ Before(v, NextMinor(t))
      BY <2>6 DEF Admits, t
    <3>2. MatchConstraint(v, c) <=>
            Compare(v, t) >= 0 /\ v.major = t.major /\ v.minor = t.minor
      BY <2>2, <2>6 DEF MatchConstraint
    <3> QED BY <2>1, <2>4, <3>1, <3>2, TildeRange
  <2>7. CASE c.op \in {"exact", ">=", ">", "<=", "<"}
    <3>1. /\ Before(v, NextPatch(t)) <=> ~ Before(t, v)
          /\ ~ Before(v, t) /\ Before(v, NextPatch(t)) <=> v = t
      BY <2>1, NextPatchIsNext
    <3> HIDE DEF t
    <3>2. Admits(c, v) <=>
            \/ c.op = "exact" /\ ~ Before(v, t) /\ Before(v, NextPatch(t))
            \/ c.op = ">=" /\ ~ Before(v, t)
            \/ c.op = ">" /\ ~ Before(v, NextPatch(t))
            \/ c.op = "<=" /\ Before(v, NextPatch(t))
            \/ c.op = "<" /\ Before(v, t)
      BY <2>7 DEF Admits, t
    <3>3. MatchConstraint(v, c) <=>
            \/ c.op = "exact" /\ Compare(v, t) = 0
            \/ c.op = ">=" /\ Compare(v, t) >= 0
            \/ c.op = ">" /\ Compare(v, t) > 0
            \/ c.op = "<=" /\ Compare(v, t) <= 0
            \/ c.op = "<" /\ Compare(v, t) < 0
      BY <2>2, <2>7 DEF MatchConstraint
    <3> QED BY <2>4, <2>7, <3>1, <3>2, <3>3
  <2> QED BY <1>2, <2>3, <2>5, <2>6, <2>7 DEF Operators
<1> QED BY <1>1, <1>2
-----------------------------------------------------------------------------
(***************************************************************************)
(* Folds                                                                   *)
(***************************************************************************)

\* Of some naturals one is the least.
LEMMA Least ==
  ASSUME NEW I \in SUBSET Nat, I # {}
  PROVE  \E i \in I : \A j \in I : i <= j
<1>1. IsWellFoundedOn(OpToRel(<, Nat), Nat)
  BY NatLessThanWellFounded
<1>2. PICK i \in I : \A j \in I : ~ (<<j, i>> \in OpToRel(<, Nat))
  BY <1>1, WFMin, Zenon
<1>3. \A j \in I : j < i => <<j, i>> \in OpToRel(<, Nat)
  BY Zenon DEF OpToRel
<1>4. \A j \in I : ~ (j < i)
  BY <1>2, <1>3, Zenon
<1>5. \A j \in I : i <= j
  BY <1>4
<1> QED BY <1>5

\* Of some numbers up to n one is the greatest.
LEMMA Greatest ==
  ASSUME NEW n \in Nat, NEW I \in SUBSET (1 .. n), I # {}
  PROVE  Max(I) \in I /\ \A j \in I : j <= Max(I)
<1> DEFINE J == {n - j : j \in I}
<1>1. PICK i \in J : \A k \in J : i <= k
  <2>1. \A j \in I : n - j \in Nat OBVIOUS
  <2>2. J \in SUBSET Nat /\ J # {} BY <2>1
  <2> HIDE DEF J
  <2> QED BY <2>2, Least
<1>2. PICK m \in I : i = n - m BY <1>1
<1>3. \A j \in I : n - m <= n - j BY <1>1, <1>2
<1>4. \A j \in I : m >= j BY <1>2, <1>3
<1>5. Max(I) = CHOOSE x \in I : \A y \in I : x >= y
  BY Zenon DEF Max
<1> QED BY <1>2, <1>4, <1>5

LEMMA GreatestUpTo ==
  ASSUME NEW k \in Nat \ {0}
  PROVE  Max(1 .. k) = k
<1>1. 1 .. k # {} /\ 1 .. k \in SUBSET (1 .. k) OBVIOUS
<1>2. Max(1 .. k) \in 1 .. k /\ \A j \in 1 .. k : j <= Max(1 .. k)
  <2> DEFINE I == 1 .. k
  <2>1. I # {} /\ I \in SUBSET (1 .. k) BY <1>1
  <2> HIDE DEF I
  <2>2. Max(I) \in I /\ \A j \in I : j <= Max(I) BY <2>1, Greatest
  <2> QED BY <2>2 DEF I
<1> QED BY <1>2

\* What holds of 0 and of each number after one of which it holds, holds up to n.
LEMMA Upwards ==
  ASSUME NEW n \in Nat, NEW G, 0 \in G, \A k \in 1 .. n : k - 1 \in G => k \in G
  PROVE  \A k \in 0 .. n : k \in G
<1> SUFFICES ASSUME (0 .. n) \ G # {} PROVE FALSE
  OBVIOUS
<1> DEFINE J == (0 .. n) \ G
<1>1. PICK k \in J : \A j \in J : k <= j
  <2>1. J \in SUBSET Nat /\ J # {} OBVIOUS
  <2> HIDE DEF J
  <2> QED BY <2>1, Least
<1>2. k # 0 BY <1>1
<1>3. k \in 1 .. n /\ k - 1 \in 0 .. n BY <1>1, <1>2
<1>4. k - 1 \in G BY <1>1, <1>3
<1> QED BY <1>1, <1>3, <1>4

\* ch chooses an element of each set; g takes a value to the next by an element.
IsChoice(ch, S)  == \A s \in SUBSET S : s # {} => ch[s] \in s
IsStep(g, S, V)  == \A x \in S, v \in V : g[x][v] \in V

IsFold(it, S, V, base, ch, g) ==
  /\ it \in [SUBSET S -> V]
  /\ \A s \in SUBSET S : it[s] = IF s = {} THEN base ELSE g[ch[s]][it[s \ {ch[s]}]]

\* A fold over a finite set is defined, in whatever order ch takes the elements.
LEMMA FoldExists ==
  ASSUME NEW S, IsFiniteSet(S), NEW V, NEW base \in V,
         NEW ch, IsChoice(ch, S), NEW g, IsStep(g, S, V)
  PROVE  \E it : IsFold(it, S, V, base, ch, g)
<1> USE DEF IsChoice, IsStep
<1> DEFINE D(n) == {s \in SUBSET S : Cardinality(s) <= n}
           Good(n, it) == /\ it \in [D(n) -> V]
                          /\ \A s \in D(n) :
                               it[s] = IF s = {} THEN base ELSE g[ch[s]][it[s \ {ch[s]}]]
           G == {n \in Nat : \E it : Good(n, it)}
<1>1. \A s \in SUBSET S : IsFiniteSet(s) /\ Cardinality(s) \in Nat
  BY FS_Subset, FS_CardinalityType
<1>2. 0 \in G
  <2>1. \A s \in D(0) : s = {} BY <1>1, FS_EmptySet
  <2>2. Good(0, [s \in D(0) |-> base]) BY <2>1
  <2> QED BY <2>2
<1>3. ASSUME NEW n \in Nat \ {0}, n - 1 \in G PROVE n \in G
  <2>1. PICK it : Good(n - 1, it) BY <1>3
  <2> DEFINE next == [s \in D(n) |-> IF s = {} THEN base ELSE g[ch[s]][it[s \ {ch[s]}]]]
  <2>2. \A s \in D(n) : s # {} => s \ {ch[s]} \in D(n - 1) /\ ch[s] \in S
    <3> SUFFICES ASSUME NEW s \in D(n), s # {} PROVE s \ {ch[s]} \in D(n - 1) /\ ch[s] \in S
      OBVIOUS
    <3>1. ch[s] \in s OBVIOUS
    <3>2. Cardinality(s \ {ch[s]}) = Cardinality(s) - 1 BY <1>1, <3>1, FS_RemoveElement
    <3> QED BY <1>1, <3>1, <3>2
  <2>3. \A s \in D(n - 1) : s \in D(n) BY <1>1
  <2>4. \A s \in D(n - 1) : next[s] = it[s] BY <2>1, <2>3
  <2>5. next \in [D(n) -> V] BY <2>1, <2>2
  <2>6. \A s \in D(n) : s # {} => next[s \ {ch[s]}] = it[s \ {ch[s]}] BY <2>2, <2>4
  <2>7. Good(n, next) BY <2>5, <2>6
  <2> QED BY <2>7
<1>4. Cardinality(S) \in G
  <2>1. Cardinality(S) \in Nat BY <1>1
  <2>2. \A k \in 1 .. Cardinality(S) : k - 1 \in G => k \in G
    <3>1. \A k \in 1 .. Cardinality(S) : k \in Nat \ {0} BY <2>1
    <3> HIDE DEF G
    <3> QED BY <1>3, <3>1
  <2> HIDE DEF G
  <2> QED BY <1>2, <2>1, <2>2, Upwards
<1>5. D(Cardinality(S)) = SUBSET S BY FS_Subset
<1> QED BY <1>4, <1>5 DEF IsFold

\* BestMatch goes through the candidates from the first to the last.
LEMMA BestMatchSteps ==
  ASSUME NEW l \in Seq(Version), NEW c
  PROVE  \E h : /\ h[0] = NoVersion
                /\ \A k \in 1 .. Len(l) :
                     h[k] = IF MatchConstraint(l[k], c) /\ (h[k - 1] = NoVersion \/ Compare(l[k], h[k - 1]) > 0)
                              THEN l[k] ELSE h[k - 1]
                /\ BestMatch(l, c) = h[Len(l)]
<1> DEFINE Better(best1, v) ==
             IF MatchConstraint(v, c) /\ (best1 = NoVersion \/ Compare(v, best1) > 0) THEN v ELSE best1
           V == Version \cup {NoVersion}
           Eq(it) == it = [s \in SUBSET DOMAIN l |->
                             IF s = {} THEN NoVersion ELSE Better(it[s \ {Max(s)}], l[Max(s)])]
           It == CHOOSE it : Eq(it)
           h == [k \in 0 .. Len(l) |-> It[1 .. k]]
<1>1. BestMatch(l, c) = It[DOMAIN l]
  BY DEF BestMatch, FoldLeft, MapThenFoldSet
<1>2. DOMAIN l = 1 .. Len(l) /\ Len(l) \in Nat /\ \A i \in DOMAIN l : l[i] \in Version
  OBVIOUS
<1>3. \E it : Eq(it)
  <2> DEFINE g  == [i \in DOMAIN l |-> [v \in V |-> Better(v, l[i])]]
             ch == [s \in SUBSET DOMAIN l |-> Max(s)]
  <2>1. \A s \in SUBSET DOMAIN l : s # {} => ch[s] \in s
    BY <1>2, Greatest
  <2>2. \A i \in DOMAIN l, v \in V : g[i][v] = Better(v, l[i])
    OBVIOUS
  <2>7. \A i \in DOMAIN l, v \in V : g[i][v] \in V
    BY <1>2
  <2>3. IsFiniteSet(DOMAIN l) BY <1>2, FS_Interval
  <2>4. NoVersion \in V OBVIOUS
  <2>5. PICK it : IsFold(it, DOMAIN l, V, NoVersion, ch, g)
    <3>1. IsChoice(ch, DOMAIN l) BY <2>1 DEF IsChoice
    <3>2. IsStep(g, DOMAIN l, V) BY <2>7 DEF IsStep
    <3> HIDE DEF g, ch, V
    <3> QED BY <2>3, <2>4, <3>1, <3>2, FoldExists
  <2>6. \A s \in SUBSET DOMAIN l :
          it[s] = IF s = {} THEN NoVersion ELSE Better(it[s \ {Max(s)}], l[Max(s)])
    <3> SUFFICES ASSUME NEW s \in SUBSET DOMAIN l, s # {}
                 PROVE  it[s] = Better(it[s \ {Max(s)}], l[Max(s)])
      BY <2>5 DEF IsFold
    <3>1. ch[s] = Max(s) /\ ch[s] \in DOMAIN l BY <2>1
    <3>2. it[s \ {Max(s)}] \in V BY <2>5, <3>1 DEF IsFold
    <3> HIDE DEF g, ch, V, Better
    <3> QED BY <2>2, <2>5, <3>1, <3>2 DEF IsFold
  <2>8. it = [s \in SUBSET DOMAIN l |-> it[s]] BY <2>5 DEF IsFold
  <2>9. Eq(it)
    <3> HIDE DEF V, g, ch, Better
    <3> QED BY <2>6, <2>8
  <2> QED BY <2>9
<1>4. Eq(It)
  <2> HIDE DEF Eq
  <2> QED BY <1>3
<1>5. h[0] = NoVersion
  <2>1. h[0] = It[{}] /\ {} \in SUBSET DOMAIN l BY <1>2
  <2> HIDE DEF It, h, Better
  <2> QED BY <1>4, <2>1
<1>6. \A k \in 1 .. Len(l) : h[k] = Better(h[k - 1], l[k])
  <2> SUFFICES ASSUME NEW k \in 1 .. Len(l) PROVE h[k] = Better(h[k - 1], l[k])
    OBVIOUS
  <2>1. 1 .. k \in SUBSET DOMAIN l /\ 1 .. k # {} BY <1>2
  <2>2. Max(1 .. k) = k BY <1>2, GreatestUpTo
  <2>3. (1 .. k) \ {k} = 1 .. k - 1 OBVIOUS
  <2>4. It[1 .. k] = Better(It[1 .. k - 1], l[k])
    <3> HIDE DEF It, Better
    <3> QED BY <1>4, <2>1, <2>2, <2>3
  <2>5. h[k] = It[1 .. k] /\ h[k - 1] = It[1 .. k - 1] BY <1>2
  <2> HIDE DEF It, h, Better
  <2> QED BY <2>4, <2>5
<1>7. h[Len(l)] = It[DOMAIN l] BY <1>2
<1> HIDE DEF h
<1> QED BY <1>1, <1>5, <1>6, <1>7

\* Candidates adds the versions of the listing in turn.
LEMMA CandidatesSteps ==
  ASSUME NEW l \in Seq(Text)
  PROVE  \E h : /\ h[0] = <<>>
                /\ \A k \in 1 .. Len(l) :
                     h[k] = IF ParseVersion(l[k]) = NoVersion THEN h[k - 1]
                            ELSE Append(h[k - 1], ParseVersion(l[k]))
                /\ Candidates(l) = h[Len(l)]
<1> DEFINE Add(candidates, t) ==
             IF ParseVersion(t) = NoVersion THEN candidates ELSE Append(candidates, ParseVersion(t))
           V == Seq(Version)
           Eq(it) == it = [s \in SUBSET DOMAIN l |->
                             IF s = {} THEN <<>> ELSE Add(it[s \ {Max(s)}], l[Max(s)])]
           It == CHOOSE it : Eq(it)
           h == [k \in 0 .. Len(l) |-> It[1 .. k]]
<1>1. Candidates(l) = It[DOMAIN l]
  BY DEF Candidates, FoldLeft, MapThenFoldSet
<1>2. DOMAIN l = 1 .. Len(l) /\ Len(l) \in Nat /\ \A i \in DOMAIN l : l[i] \in Text
  OBVIOUS
<1>3. \E it : Eq(it)
  <2> DEFINE g  == [i \in DOMAIN l |-> [v \in V |-> Add(v, l[i])]]
             ch == [s \in SUBSET DOMAIN l |-> Max(s)]
  <2>1. \A s \in SUBSET DOMAIN l : s # {} => ch[s] \in s
    BY <1>2, Greatest
  <2>2. \A i \in DOMAIN l, v \in V : g[i][v] = Add(v, l[i])
    OBVIOUS
  <2>7. \A i \in DOMAIN l, v \in V : g[i][v] \in V
    <3>1. \A i \in DOMAIN l : ParseVersion(l[i]) # NoVersion => ParseVersion(l[i]) \in Version
      BY <1>2 DEF Text, ParseVersion
    <3>2. \A i \in DOMAIN l, v \in V : Add(v, l[i]) \in V BY <3>1
    <3> HIDE DEF Add
    <3> QED BY <3>2
  <2>3. IsFiniteSet(DOMAIN l) BY <1>2, FS_Interval
  <2>4. <<>> \in V OBVIOUS
  <2>5. PICK it : IsFold(it, DOMAIN l, V, <<>>, ch, g)
    <3>1. IsChoice(ch, DOMAIN l) BY <2>1 DEF IsChoice
    <3>2. IsStep(g, DOMAIN l, V) BY <2>7 DEF IsStep
    <3> HIDE DEF g, ch, V
    <3> QED BY <2>3, <2>4, <3>1, <3>2, FoldExists
  <2>6. \A s \in SUBSET DOMAIN l :
          it[s] = IF s = {} THEN <<>> ELSE Add(it[s \ {Max(s)}], l[Max(s)])
    <3> SUFFICES ASSUME NEW s \in SUBSET DOMAIN l, s # {}
                 PROVE  it[s] = Add(it[s \ {Max(s)}], l[Max(s)])
      BY <2>5 DEF IsFold
    <3>1. ch[s] = Max(s) /\ ch[s] \in DOMAIN l BY <2>1
    <3>2. it[s \ {Max(s)}] \in V BY <2>5, <3>1 DEF IsFold
    <3> HIDE DEF g, ch, V, Add
    <3> QED BY <2>2, <2>5, <3>1, <3>2 DEF IsFold
  <2>8. it = [s \in SUBSET DOMAIN l |-> it[s]] BY <2>5 DEF IsFold
  <2>9. Eq(it)
    <3> HIDE DEF V, g, ch, Add
    <3> QED BY <2>6, <2>8
  <2> QED BY <2>9
<1>4. Eq(It)
  <2> HIDE DEF Eq
  <2> QED BY <1>3
<1>5. h[0] = <<>>
  <2>1. h[0] = It[{}] /\ {} \in SUBSET DOMAIN l BY <1>2
  <2> HIDE DEF It, h, Add
  <2> QED BY <1>4, <2>1
<1>6. \A k \in 1 .. Len(l) : h[k] = Add(h[k - 1], l[k])
  <2> SUFFICES ASSUME NEW k \in 1 .. Len(l) PROVE h[k] = Add(h[k - 1], l[k])
    OBVIOUS
  <2>1. 1 .. k \in SUBSET DOMAIN l /\ 1 .. k # {} BY <1>2
  <2>2. Max(1 .. k) = k BY <1>2, GreatestUpTo
  <2>3. (1 .. k) \ {k} = 1 .. k - 1 OBVIOUS
  <2>4. It[1 .. k] = Add(It[1 .. k - 1], l[k])
    <3> HIDE DEF It, Add
    <3> QED BY <1>4, <2>1, <2>2, <2>3
  <2>5. h[k] = It[1 .. k] /\ h[k - 1] = It[1 .. k - 1] BY <1>2
  <2> HIDE DEF It, h, Add
  <2> QED BY <2>4, <2>5
<1>7. h[Len(l)] = It[DOMAIN l] BY <1>2
<1> HIDE DEF h
<1> QED BY <1>1, <1>5, <1>6, <1>7

\* The files are summed up in a fixed order, whatever is summed.
LEMMA SumSteps ==
  ASSUME NEW S, IsFiniteSet(S)
  PROVE  \E ch : /\ IsChoice(ch, S)
                 /\ \A w \in [S -> Nat] :
                      \E it : /\ \A s \in SUBSET S :
                                   it[s] = IF s = {} THEN 0 ELSE w[ch[s]] + it[s \ {ch[s]}]
                              /\ SumFunction(w) = it[S]
<1> DEFINE ch == [s \in SUBSET S |-> CHOOSE x \in s : TRUE]
<1>1. IsChoice(ch, S)
  <2>1. \A s \in SUBSET S : s # {} => ch[s] \in s OBVIOUS
  <2> QED BY <2>1 DEF IsChoice
<1>2. ASSUME NEW w \in [S -> Nat]
      PROVE  \E it : /\ \A s \in SUBSET S :
                          it[s] = IF s = {} THEN 0 ELSE w[ch[s]] + it[s \ {ch[s]}]
                     /\ SumFunction(w) = it[S]
  <2> DEFINE Eq(it) == it = [s \in SUBSET S |->
                               IF s = {} THEN 0
                               ELSE w[CHOOSE x \in s : TRUE] + it[s \ {CHOOSE x \in s : TRUE}]]
             It == CHOOSE it : Eq(it)
             g  == [x \in S |-> [v \in Nat |-> w[x] + v]]
  <2>1. DOMAIN w = S OBVIOUS
  <2>2. SumFunction(w) = It[S]
    BY <2>1 DEF SumFunction, SumFunctionOnSet, FoldFunctionOnSet, MapThenFoldSet
  <2>3. IsStep(g, S, Nat)
    BY DEF IsStep
  <2>4. PICK it : IsFold(it, S, Nat, 0, ch, g)
    <3> HIDE DEF g, ch
    <3> QED BY <1>1, <2>3, FoldExists
  <2>5. \A s \in SUBSET S : it[s] = IF s = {} THEN 0 ELSE w[ch[s]] + it[s \ {ch[s]}]
    <3> SUFFICES ASSUME NEW s \in SUBSET S, s # {}
                 PROVE  it[s] = w[ch[s]] + it[s \ {ch[s]}]
      BY <2>4 DEF IsFold
    <3>1. ch[s] \in S BY <1>1 DEF IsChoice
    <3>2. it[s \ {ch[s]}] \in Nat BY <2>4, <3>1 DEF IsFold
    <3>3. g[ch[s]][it[s \ {ch[s]}]] = w[ch[s]] + it[s \ {ch[s]}] BY <3>1, <3>2
    <3> HIDE DEF g, ch
    <3> QED BY <2>4, <3>3 DEF IsFold
  <2>6. Eq(it)
    <3>1. it = [s \in SUBSET S |-> it[s]] BY <2>4 DEF IsFold
    <3>2. \A s \in SUBSET S : ch[s] = CHOOSE x \in s : TRUE OBVIOUS
    <3> HIDE DEF ch
    <3> QED BY <2>5, <3>1, <3>2
  <2>7. Eq(It)
    <3> HIDE DEF Eq
    <3> QED BY <2>6
  <2>8. \A s \in SUBSET S : It[s] = IF s = {} THEN 0 ELSE w[ch[s]] + It[s \ {ch[s]}]
    <3>1. \A s \in SUBSET S : ch[s] = CHOOSE x \in s : TRUE OBVIOUS
    <3> HIDE DEF ch, It
    <3> QED BY <2>7, <3>1
  <2> HIDE DEF It
  <2> QED BY <2>2, <2>8
<1> HIDE DEF ch
<1> QED BY <1>1, <1>2

\* What holds of the empty set and of each set with an element chosen from it, if
\* of the set without it, holds of all.
LEMMA SubsetInduction ==
  ASSUME NEW S, IsFiniteSet(S), NEW ch, IsChoice(ch, S), NEW G,
         {} \in G, \A s \in SUBSET S : s # {} /\ s \ {ch[s]} \in G => s \in G
  PROVE  \A s \in SUBSET S : s \in G
<1> DEFINE H == {n \in Nat : \A s \in SUBSET S : Cardinality(s) <= n => s \in G}
<1>1. \A s \in SUBSET S : IsFiniteSet(s) /\ Cardinality(s) \in Nat
  BY FS_Subset, FS_CardinalityType
<1>2. 0 \in H
  <2>1. \A s \in SUBSET S : Cardinality(s) <= 0 => s = {} BY <1>1, FS_EmptySet
  <2> QED BY <2>1
<1>3. ASSUME NEW n \in Nat \ {0}, n - 1 \in H PROVE n \in H
  <2> SUFFICES ASSUME NEW s \in SUBSET S, Cardinality(s) <= n PROVE s \in G
    OBVIOUS
  <2>1. CASE s # {}
    <3>1. ch[s] \in s BY <2>1 DEF IsChoice
    <3>2. Cardinality(s \ {ch[s]}) = Cardinality(s) - 1 BY <1>1, <3>1, FS_RemoveElement
    <3>3. s \ {ch[s]} \in SUBSET S /\ Cardinality(s \ {ch[s]}) <= n - 1 BY <1>1, <3>2
    <3> QED BY <1>3, <2>1, <3>3
  <2> QED BY <2>1
<1>4. Cardinality(S) \in H
  <2>1. Cardinality(S) \in Nat BY <1>1
  <2>2. \A k \in 1 .. Cardinality(S) : k - 1 \in H => k \in H
    <3>1. \A k \in 1 .. Cardinality(S) : k \in Nat \ {0} BY <2>1
    <3> HIDE DEF H
    <3> QED BY <1>3, <3>1
  <2> HIDE DEF H
  <2> QED BY <1>2, <2>1, <2>2, Upwards
<1> QED BY <1>4, FS_Subset

\* A sum changes at most by what one of its parts changes, if no other part grows.
LEMMA SumChanges ==
  ASSUME NEW S, IsFiniteSet(S), NEW v \in [S -> Nat], NEW w \in [S -> Nat],
         NEW x, \A f \in S \ {x} : v[f] <= w[f]
  PROVE  /\ SumFunction(v) \in Nat /\ SumFunction(w) \in Nat
         /\ x \notin S => SumFunction(v) <= SumFunction(w)
         /\ x \in S => SumFunction(v) + w[x] <= SumFunction(w) + v[x]
<1>1. PICK ch : /\ IsChoice(ch, S)
                /\ \A u \in [S -> Nat] :
                     \E it : /\ \A s \in SUBSET S :
                                  it[s] = IF s = {} THEN 0 ELSE u[ch[s]] + it[s \ {ch[s]}]
                             /\ SumFunction(u) = it[S]
  BY SumSteps
<1>2. PICK a : /\ \A s \in SUBSET S : a[s] = IF s = {} THEN 0 ELSE v[ch[s]] + a[s \ {ch[s]}]
               /\ SumFunction(v) = a[S]
  BY <1>1
<1>3. PICK b : /\ \A s \in SUBSET S : b[s] = IF s = {} THEN 0 ELSE w[ch[s]] + b[s \ {ch[s]}]
               /\ SumFunction(w) = b[S]
  BY <1>1
<1> DEFINE G == {s \in SUBSET S : /\ a[s] \in Nat /\ b[s] \in Nat
                                  /\ x \notin s => a[s] <= b[s]
                                  /\ x \in s => a[s] + w[x] <= b[s] + v[x]}
<1>4. {} \in G
  <2>1. a[{}] = 0 /\ b[{}] = 0 BY <1>2, <1>3
  <2> QED BY <2>1
<1>5. ASSUME NEW s \in SUBSET S, s # {}, s \ {ch[s]} \in G PROVE s \in G
  <2> DEFINE c == ch[s]
             r == s \ {c}
  <2>1. c \in s BY <1>1, <1>5 DEF IsChoice
  <2>2. a[s] = v[c] + a[r] /\ b[s] = w[c] + b[r] BY <1>2, <1>3, <1>5
  <2>3. v[c] \in Nat /\ w[c] \in Nat /\ a[r] \in Nat /\ b[r] \in Nat BY <1>5, <2>1
  <2>4. CASE c = x
    <3>1. a[r] <= b[r] BY <1>5, <2>4
    <3> HIDE DEF c, r
    <3> QED BY <2>1, <2>2, <2>3, <2>4, <3>1
  <2>5. CASE c # x
    <3>1. v[c] <= w[c] BY <2>1, <2>5
    <3>2. x \in r <=> x \in s BY <2>5
    <3>3. x \notin s => a[r] <= b[r] BY <1>5, <3>2
    <3>4. x \in s => a[r] + w[x] <= b[r] + v[x] /\ w[x] \in Nat /\ v[x] \in Nat BY <1>5, <3>2
    <3> HIDE DEF c, r
    <3> QED BY <2>2, <2>3, <3>1, <3>3, <3>4
  <2> QED BY <2>4, <2>5
<1>6. S \in G
  <2>1. \A s \in SUBSET S : s # {} /\ s \ {ch[s]} \in G => s \in G BY <1>5
  <2> HIDE DEF G
  <2>2. IsChoice(ch, S) BY <1>1
  <2>3. \A s \in SUBSET S : s \in G BY <1>4, <2>1, <2>2, SubsetInduction
  <2> QED BY <2>3
<1> QED BY <1>2, <1>3, <1>6

\* The candidates are the versions that the listing has.
LEMMA CandidatesAreTheVersions ==
  ASSUME NEW l \in Seq(Text)
  PROVE  /\ Candidates(l) \in Seq(Version)
         /\ Range(Candidates(l)) = {ParseVersion(t) : t \in Range(l)} \ {NoVersion}
<1>1. PICK h : /\ h[0] = <<>>
               /\ \A k \in 1 .. Len(l) :
                    h[k] = IF ParseVersion(l[k]) = NoVersion THEN h[k - 1]
                           ELSE Append(h[k - 1], ParseVersion(l[k]))
               /\ Candidates(l) = h[Len(l)]
  BY CandidatesSteps
<1> DEFINE Seen(k) == {ParseVersion(l[i]) : i \in 1 .. k} \ {NoVersion}
           G == {k \in 0 .. Len(l) : h[k] \in Seq(Version) /\ Range(h[k]) = Seen(k)}
<1>2. Len(l) \in Nat /\ DOMAIN l = 1 .. Len(l) OBVIOUS
<1>3. 0 \in G
  <2>1. Seen(0) = {} OBVIOUS
  <2>2. h[0] \in Seq(Version) /\ Range(h[0]) = {} BY <1>1 DEF Range
  <2>3. 0 \in 0 .. Len(l) BY <1>2
  <2> HIDE DEF Seen
  <2> QED BY <2>1, <2>2, <2>3
<1>4. ASSUME NEW k \in 1 .. Len(l), k - 1 \in G PROVE k \in G
  <2> DEFINE v == ParseVersion(l[k])
  <2>1. v # NoVersion => v \in Version
    <3>1. l[k] \in Text BY <1>2
    <3> QED BY <3>1 DEF ParseVersion, Text
  <2>2. Seen(k) = IF v = NoVersion THEN Seen(k - 1) ELSE Seen(k - 1) \cup {v}
    <3>1. 1 .. k = (1 .. k - 1) \cup {k} OBVIOUS
    <3> QED BY <3>1
  <2>3. h[k - 1] \in Seq(Version) /\ Range(h[k - 1]) = Seen(k - 1) BY <1>4
  <2>4. h[k] = IF v = NoVersion THEN h[k - 1] ELSE Append(h[k - 1], v) BY <1>1
  <2>5. k \in 0 .. Len(l) BY <1>2
  <2> HIDE DEF Seen, v
  <2>6. CASE v = NoVersion BY <2>2, <2>3, <2>4, <2>5, <2>6
  <2>7. CASE v # NoVersion
    <3> DEFINE a == h[k - 1]
               b == Append(a, v)
    <3>1. a \in Seq(Version) /\ b \in Seq(Version) BY <2>1, <2>3, <2>7
    <3>2. /\ DOMAIN b = (DOMAIN a) \cup {Len(a) + 1}
          /\ \A i \in DOMAIN a : b[i] = a[i]
          /\ b[Len(a) + 1] = v
      BY <2>1, <2>7, <3>1
    <3> HIDE DEF a, b
    <3>3. Range(b) = Range(a) \cup {v} BY <3>2 DEF Range
    <3> QED BY <2>2, <2>3, <2>4, <2>5, <2>7, <3>1, <3>3 DEF a, b
  <2> QED BY <2>6, <2>7
<1>5. Len(l) \in G
  <2>1. \A k \in 1 .. Len(l) : k - 1 \in G => k \in G BY <1>4
  <2> DEFINE n == Len(l)
  <2> HIDE DEF G, n
  <2>2. n \in Nat /\ \A k \in 1 .. n : k - 1 \in G => k \in G BY <1>2, <2>1 DEF n
  <2>3. \A k \in 0 .. n : k \in G BY <1>3, <2>2, Upwards
  <2> QED BY <2>2, <2>3 DEF n
<1>6. Seen(Len(l)) = {ParseVersion(t) : t \in Range(l)} \ {NoVersion}
  BY <1>2 DEF Range
<1> HIDE DEF Seen
<1> QED BY <1>1, <1>5, <1>6

\* BestMatch finds the highest of the candidates that the constraint admits.
LEMMA BestMatchIsHighest ==
  ASSUME NEW l \in Seq(Version), NEW c \in Constraint, ~ Malformed(c)
  PROVE  LET admitted == {v \in Range(l) : Admits(c, v)}
         IN IF admitted = {} THEN BestMatch(l, c) = NoVersion
            ELSE BestMatch(l, c) \in admitted /\ \A v \in admitted : ~ Before(BestMatch(l, c), v)
<1>1. PICK h : /\ h[0] = NoVersion
               /\ \A k \in 1 .. Len(l) :
                    h[k] = IF MatchConstraint(l[k], c) /\ (h[k - 1] = NoVersion \/ Compare(l[k], h[k - 1]) > 0)
                             THEN l[k] ELSE h[k - 1]
               /\ BestMatch(l, c) = h[Len(l)]
  BY BestMatchSteps
<1> DEFINE Seen(k) == {v \in {l[i] : i \in 1 .. k} : Admits(c, v)}
           Best(k) == IF Seen(k) = {} THEN h[k] = NoVersion
                      ELSE h[k] \in Seen(k) /\ \A v \in Seen(k) : ~ Before(h[k], v)
           G == {k \in 0 .. Len(l) : Best(k)}
<1>2. Len(l) \in Nat /\ DOMAIN l = 1 .. Len(l) OBVIOUS
<1>3. 0 \in G BY <1>1, <1>2
<1>4. ASSUME NEW k \in 1 .. Len(l), k - 1 \in G PROVE k \in G
  <2> DEFINE v == l[k]
             w == h[k - 1]
  <2>1. v \in Version BY <1>2
  <2>2. MatchConstraint(v, c) <=> Admits(c, v) BY <2>1, MatchIsMembership
  <2>3. Seen(k) = IF Admits(c, v) THEN Seen(k - 1) \cup {v} ELSE Seen(k - 1)
    <3>1. 1 .. k = (1 .. k - 1) \cup {k} OBVIOUS
    <3> QED BY <3>1
  <2>4. Best(k - 1) /\ k \in 0 .. Len(l) BY <1>2, <1>4
  <2>5. Seen(k - 1) \subseteq Version BY <1>2
  <2>6. h[k] = IF Admits(c, v) /\ (w = NoVersion \/ Compare(v, w) > 0) THEN v ELSE w
    BY <1>1, <2>2
  <2>7. NoVersion \notin Version BY DEF NoVersion, Version
  <2> HIDE DEF Seen, v, w
  <2>8. CASE ~ Admits(c, v)
    <3>1. Seen(k) = Seen(k - 1) /\ h[k] = h[k - 1] BY <2>3, <2>6, <2>8 DEF w
    <3> QED BY <2>4, <3>1
  <2>9. CASE Admits(c, v) /\ Seen(k - 1) = {}
    <3>1. Seen(k) = {v} /\ h[k] = v BY <2>3, <2>4, <2>6, <2>9 DEF w
    <3>2. ~ Before(v, v) BY <2>1 DEF Before, Version
    <3> QED BY <2>4, <3>1, <3>2
  <2>10. CASE Admits(c, v) /\ Seen(k - 1) # {}
    <3>1. w \in Seen(k - 1) /\ \A u \in Seen(k - 1) : ~ Before(w, u) BY <2>4, <2>10 DEF w
    <3>2. w \in Version /\ w # NoVersion BY <2>5, <2>7, <3>1
    <3>3. Compare(v, w) > 0 <=> Before(w, v) BY <2>1, <3>2, CompareIsTheOrder
    <3>4. Seen(k) = Seen(k - 1) \cup {v} BY <2>3, <2>10
    <3>5. CASE Before(w, v)
      <4>1. h[k] = v BY <2>6, <2>10, <3>3, <3>5
      <4>2. \A u \in Seen(k - 1) : ~ Before(v, u)
        <5> SUFFICES ASSUME NEW u \in Seen(k - 1) PROVE ~ Before(v, u) OBVIOUS
        <5>1. u \in Version /\ ~ Before(w, u) BY <2>5, <3>1
        <5>2. \A x \in {u, v, w} : x.major \in Nat /\ x.minor \in Nat /\ x.patch \in Nat
          BY <2>1, <3>2, <5>1 DEF Version
        <5> QED BY <3>5, <5>1, <5>2, SMTT(30) DEF Before
      <4>3. ~ Before(v, v) BY <2>1 DEF Before, Version
      <4> QED BY <2>4, <3>4, <4>1, <4>2, <4>3
    <3>6. CASE ~ Before(w, v)
      <4>1. h[k] = w BY <2>6, <3>2, <3>3, <3>6
      <4> QED BY <2>4, <3>1, <3>4, <3>6, <4>1
    <3> QED BY <3>5, <3>6
  <2> QED BY <2>8, <2>9, <2>10
<1>5. Len(l) \in G
  <2>1. \A k \in 1 .. Len(l) : k - 1 \in G => k \in G BY <1>4
  <2> DEFINE n == Len(l)
  <2> HIDE DEF G, n
  <2>2. n \in Nat /\ \A k \in 1 .. n : k - 1 \in G => k \in G BY <1>2, <2>1 DEF n
  <2>3. \A k \in 0 .. n : k \in G BY <1>3, <2>2, Upwards
  <2> QED BY <2>2, <2>3 DEF n
<1>6. Seen(Len(l)) = {v \in Range(l) : Admits(c, v)}
  BY <1>2 DEF Range
<1> HIDE DEF Seen
<1> QED BY <1>1, <1>5, <1>6

LEMMA ChooseType ==
  ASSUME NEW l \in Seq(Text), NEW k \in Constraint
  PROVE  Choose(l, k) \in (Version \cup {NoVersion}) \X Results
<1> DEFINE v == BestMatch(Candidates(l), k)
<1>1. ~ Malformed(k) => v \in Version \cup {NoVersion}
  <2> SUFFICES ASSUME ~ Malformed(k) PROVE v \in Version \cup {NoVersion}
    OBVIOUS
  <2>1. Candidates(l) \in Seq(Version) BY CandidatesAreTheVersions
  <2>2. Range(Candidates(l)) \subseteq Version BY <2>1 DEF Range
  <2> HIDE DEF v
  <2>3. v = NoVersion \/ v \in Range(Candidates(l)) BY <2>1, BestMatchIsHighest DEF v
  <2> QED BY <2>2, <2>3
<1> HIDE DEF v
<1>2. Choose(l, k) = IF Malformed(k) \/ v = NoVersion THEN <<NoVersion, "no match">>
                     ELSE IF kind = "local" /\ String(v) \notin Range(l) THEN <<NoVersion, "failed">>
                     ELSE <<v, "ok">>
  BY DEF Choose, v
<1>5. {"no match", "failed", "ok"} \subseteq Results BY DEF Results
<1>3. CASE Malformed(k) \/ v = NoVersion
  <2>1. Choose(l, k) = <<NoVersion, "no match">> BY <1>2, <1>3
  <2>2. "no match" \in Results BY <1>5
  <2>3. <<NoVersion, "no match">> \in (Version \cup {NoVersion}) \X Results BY <2>2
  <2> QED BY <2>1, <2>3
<1>4. CASE ~ Malformed(k) /\ v # NoVersion
  <2>1. v \in Version \cup {NoVersion} BY <1>1, <1>4
  <2>2. Choose(l, k) \in {<<NoVersion, "failed">>, <<v, "ok">>} BY <1>2, <1>4
  <2>3. "failed" \in Results /\ "ok" \in Results BY <1>5
  <2>4. CASE Choose(l, k) = <<NoVersion, "failed">> BY <2>3, <2>4
  <2>5. CASE Choose(l, k) = <<v, "ok">> BY <2>1, <2>3, <2>5
  <2> QED BY <2>2, <2>4, <2>5
<1> QED BY <1>3, <1>4

-----------------------------------------------------------------------------
(***************************************************************************)
(* The inductive invariant                                                 *)
(***************************************************************************)

\* A local or git registry answers at once, and what it chooses.
ChoiceInv ==
  kind # "http" =>
    /\ pc = "idle" /\ call = "resolve" /\ log = <<>> /\ ~ cancelled
    /\ listing \in Listings /\ constraint \in Constraints
    /\ result # "none" => <<best, result>> = Choose(listing, constraint)

\* Attempts and requests: one request goes out in each, and the next attempt is
\* made only after a failure that is worth it.
RequestInv ==
  /\ \A i \in 1 .. attempt : i <= Len(log) /\ log[i] \in Retryable
  /\ pc \in {"try", "wait"} => Len(log) = attempt
  /\ pc \in {"wait", "backoff", "body", "extract"} => attempt < maxRetries
  /\ pc \in {"backoff", "body", "extract"} => Len(log) = attempt + 1
  /\ pc = "backoff" => log[Len(log)] \in Retryable
  /\ pc \in {"body", "extract"} => log[Len(log)] = "200"
  /\ pc = "wait" /\ cancelled => Len(log) = late

Whole == [f \in Files |-> IF dir[f] = Partial THEN 0 ELSE dir[f]]

\* The files that are whole stay within the limit, and one at most is not whole.
\* While an archive is extracted, none is, and the sum is what was counted.
ArchiveInv ==
  /\ SumFunction(Whole) <= MaxTotal
  /\ \A f, g \in Files : dir[f] = Partial /\ dir[g] = Partial => f = g
  /\ pc \in {"try", "wait", "backoff", "body"} => done = 0 /\ total = 0
  /\ pc = "extract" =>
       /\ SumFunction(Whole) <= total
       /\ \A f \in Files : dir[f] # Partial /\ dir[f] = Content(f, done)
  /\ pc = "idle" /\ call = "fetch" /\ result = "ok" =>
       \A f \in Files : dir[f] = Content(f, Len(archive))

IInv == TypeOK /\ ChoiceInv /\ RequestInv /\ AnswerIsExplained /\ ArchiveInv

\* The sum of nothing is nothing.
LEMMA SumOfNothing ==
  ASSUME NEW S, IsFiniteSet(S), NEW w \in [S -> Nat], \A f \in S : w[f] = 0
  PROVE  SumFunction(w) = 0
<1>1. PICK ch : /\ IsChoice(ch, S)
                /\ \A u \in [S -> Nat] :
                     \E it : /\ \A s \in SUBSET S :
                                  it[s] = IF s = {} THEN 0 ELSE u[ch[s]] + it[s \ {ch[s]}]
                             /\ SumFunction(u) = it[S]
  BY SumSteps
<1>2. PICK b : /\ \A s \in SUBSET S : b[s] = IF s = {} THEN 0 ELSE w[ch[s]] + b[s \ {ch[s]}]
               /\ SumFunction(w) = b[S]
  BY <1>1
<1> DEFINE G == {s \in SUBSET S : b[s] = 0}
<1>3. {} \in G
  BY <1>2
<1>4. ASSUME NEW s \in SUBSET S, s # {}, s \ {ch[s]} \in G PROVE s \in G
  <2>1. ch[s] \in S BY <1>1, <1>4 DEF IsChoice
  <2>2. w[ch[s]] = 0 /\ b[s \ {ch[s]}] = 0 BY <1>4, <2>1
  <2> QED BY <1>2, <1>4, <2>2
<1>5. S \in G
  <2>1. \A s \in SUBSET S : s # {} /\ s \ {ch[s]} \in G => s \in G BY <1>4
  <2> HIDE DEF G
  <2>2. IsChoice(ch, S) BY <1>1
  <2>3. \A s \in SUBSET S : s \in G BY <1>3, <2>1, <2>2, SubsetInduction
  <2> QED BY <2>3
<1> QED BY <1>2, <1>5

\* An entry replaces the content of the file it is for.
LEMMA ContentNext ==
  ASSUME archive \in Seq(Entry), NEW n \in 1 .. Len(archive), NEW f
  PROVE  Content(f, n) = IF archive[n].type = "file" /\ archive[n].name = f
                           THEN archive[n].size ELSE Content(f, n - 1)
<1> DEFINE W(k) == {i \in 1 .. k : archive[i].type = "file" /\ archive[i].name = f}
<1>1. n \in Nat /\ 1 .. n = (1 .. n - 1) \cup {n} OBVIOUS
<1>2. CASE archive[n].type = "file" /\ archive[n].name = f
  <2>1. n \in W(n) BY <1>2
  <2>2. \A j \in W(n) : j <= n OBVIOUS
  <2>3. (CHOOSE i \in W(n) : \A j \in W(n) : j <= i) = n
    <3>1. \A i \in W(n) : i \in 1 .. n OBVIOUS
    <3> HIDE DEF W
    <3>2. \A i \in W(n) : (\A j \in W(n) : j <= i) => i = n BY <1>1, <2>1, <3>1
    <3> QED BY <2>1, <2>2, <3>2
  <2> QED BY <1>2, <2>1, <2>3 DEF Content
<1>3. CASE ~ (archive[n].type = "file" /\ archive[n].name = f)
  <2>1. W(n) = W(n - 1) BY <1>1, <1>3
  <2>2. Content(f, n) = IF W(n) = {} THEN Absent
                        ELSE archive[CHOOSE i \in W(n) : \A j \in W(n) : j <= i].size
    BY DEF Content
  <2>3. Content(f, n - 1) = IF W(n - 1) = {} THEN Absent
                            ELSE archive[CHOOSE i \in W(n - 1) : \A j \in W(n - 1) : j <= i].size
    BY DEF Content
  <2> HIDE DEF W
  <2> QED BY <1>3, <2>1, <2>2, <2>3
<1> QED BY <1>2, <1>3

\* The parts of the assumption, one by one.
LEMMA ListingsHaveTexts ==
  /\ \A l \in Listings : l \in Seq(Text)
  /\ Constraints \subseteq Constraint
BY RegistriesAssumption, Zenon

LEMMA ArchivesHaveEntries == \A a \in Archives : a \in Seq(Entry)
BY RegistriesAssumption, Zenon

LEMMA Bounds == MaxFile \in Nat /\ MaxTotal \in Nat
BY RegistriesAssumption, Zenon

LEMMA FilesAreFinite == IsFiniteSet(Files) /\ Outside \notin Files
BY RegistriesAssumption, Zenon

LEMMA RetriesAreNumbers == \A m \in Retries \cup {0} : m \in Nat
<1>1. Retries \subseteq Nat BY RegistriesAssumption, Zenon
<1> QED BY <1>1

LEMMA WholeType ==
  ASSUME dir \in [Files -> Nat \cup {Partial}]
  PROVE  Whole \in [Files -> Nat] /\ SumFunction(Whole) \in Nat
<1>1. Whole \in [Files -> Nat] BY DEF Whole, Partial
<1>2. \A f \in Files \ {Outside} : Whole[f] <= Whole[f] BY <1>1
<1> HIDE DEF Whole
<1>3. SumFunction(Whole) \in Nat BY <1>1, <1>2, SumChanges, FilesAreFinite
<1> QED BY <1>1, <1>3

\* What a step that leaves directory and archive alone leaves alone.
LEMMA SameDisk ==
  ASSUME dir' = dir, archive' = archive
  PROVE  Whole' = Whole /\ \A f, n : Content(f, n)' = Content(f, n)
BY DEF Whole, Content

LEMMA Types ==
  ASSUME TypeOK
  PROVE  /\ archive \in Seq(Entry) /\ done \in 0 .. Len(archive) /\ total \in 0 .. MaxTotal
         /\ maxRetries \in Nat /\ attempt \in Nat /\ attempt <= maxRetries
         /\ log \in Seq(Outcomes) /\ Len(log) \in Nat /\ late \in Nat /\ late <= Len(log)
<1>1. archive \in Archives \cup {<<>>} BY DEF TypeOK
<1>2. \A a \in Archives : a \in Seq(Entry) BY ArchivesHaveEntries
<1>3. <<>> \in Seq(Entry) OBVIOUS
<1>4. archive \in Seq(Entry) BY <1>1, <1>2, <1>3
<1>5. maxRetries \in Nat
  <2>1. \A m \in Retries \cup {0} : m \in Nat BY RetriesAreNumbers
  <2> QED BY <2>1 DEF TypeOK
<1>6. log \in Seq(Outcomes) /\ Len(log) \in Nat BY DEF TypeOK
<1> QED BY <1>4, <1>5, <1>6 DEF TypeOK

-----------------------------------------------------------------------------
LEMMA InitIInv == Init => IInv
<1> SUFFICES ASSUME Init PROVE IInv
  OBVIOUS
<1>1. TypeOK
  <2>1. CallsOf[kind] # {} /\ kind \in DOMAIN CallsOf /\ call \in CallsOf[kind] BY DEF Init, CallsOf
  <2>2. maxRetries \in Retries \cup {0} /\ attempt \in 0 .. maxRetries
    <3>1. \A m \in Retries \cup {0} : m \in Nat BY RetriesAreNumbers
    <3>2. maxRetries \in Retries \cup {0} BY DEF Init
    <3>3. attempt = 0 BY DEF Init
    <3> QED BY <3>1, <3>2, <3>3
  <2>3. listing \in Listings \cup {<<>>} /\ constraint \in Constraints \cup {AnyVersion} BY DEF Init
  <2>4. dir \in [Files -> Nat \cup {Partial}] BY DEF Init, EmptyDir, Absent
  <2>5. archive = <<>> /\ done \in 0 .. Len(archive) /\ total \in 0 .. MaxTotal
    BY Bounds DEF Init
  <2>6. /\ log \in Seq(Outcomes) /\ late \in 0 .. Len(log) /\ Len(log) - attempt \in {0, 1}
        /\ cancelled \in BOOLEAN /\ pc = "idle" /\ result \in Results /\ best = NoVersion
    <3>1. log = <<>> /\ <<>> \in Seq(Outcomes) /\ Len(<<>>) = 0 /\ attempt = 0 /\ late = 0 BY DEF Init
    <3>2. result = "none" /\ "none" \in Results BY DEF Init, Results
    <3>3. log \in Seq(Outcomes) BY <3>1
    <3>4. late \in 0 .. Len(log) /\ Len(log) - attempt \in {0, 1} BY <3>1
    <3>5. result \in Results BY <3>2
    <3> QED BY <3>3, <3>4, <3>5 DEF Init
  <2> QED BY <2>1, <2>2, <2>3, <2>4, <2>5, <2>6 DEF TypeOK
<1>2. ChoiceInv BY DEF Init, ChoiceInv
<1>3. RequestInv BY DEF Init, RequestInv
<1>4. AnswerIsExplained BY DEF Init, AnswerIsExplained, CancelStopsTheRetries
<1>5. ArchiveInv
  <2>1. Whole \in [Files -> Nat] /\ \A f \in Files : Whole[f] = 0
    BY DEF Init, EmptyDir, Whole, Absent, Partial
  <2>2. SumFunction(Whole) = 0
    <3> HIDE DEF Whole
    <3> QED BY <2>1, SumOfNothing, FilesAreFinite
  <2> QED BY <2>2, Bounds DEF Init, ArchiveInv, EmptyDir, Absent, Partial
<1> QED BY <1>1, <1>2, <1>3, <1>4, <1>5 DEF IInv

LEMMA ResolveVersionIInv == IInv /\ ResolveVersion => IInv'
<1> SUFFICES ASSUME IInv, ResolveVersion PROVE IInv'
  OBVIOUS
<1> USE DEF ResolveVersion, Return, client, request, body
<1> DEFINE chosen == Choose(listing, constraint)
<1>1. kind \in {"local", "git"} /\ kind' = kind /\ pc = "idle" /\ pc' = "idle" /\ log = <<>> /\ log' = log
      /\ call' = call /\ call = "resolve"
  BY DEF IInv, ChoiceInv
<1>2. best' = chosen[1] /\ result' = chosen[2] OBVIOUS
<1>3. Choose(listing, constraint)' = chosen BY <1>1 DEF Choose
<1>4. chosen \in (Version \cup {NoVersion}) \X Results
  BY <1>1, ChooseType, ListingsHaveTexts DEF IInv, ChoiceInv
<1>5. chosen = <<chosen[1], chosen[2]>> BY <1>4
<1>6. TypeOK'
  <2> HIDE DEF chosen
  <2>1. best' \in Version \cup {NoVersion} /\ result' \in Results BY <1>2, <1>4
  <2> QED BY <2>1, <1>1 DEF IInv, TypeOK
<1>7. ChoiceInv'
  <2> HIDE DEF chosen
  <2> QED BY <1>1, <1>2, <1>3, <1>5 DEF IInv, ChoiceInv
<1>8. RequestInv' BY DEF IInv, RequestInv
<1>9. AnswerIsExplained' BY <1>1 DEF IInv, AnswerIsExplained, CancelStopsTheRetries
<1>10. ArchiveInv' BY <1>1, SameDisk DEF IInv, ArchiveInv
<1> QED BY <1>6, <1>7, <1>8, <1>9, <1>10 DEF IInv

LEMMA BeginIInv == ASSUME NEW c \in CallsOf["http"] PROVE IInv /\ Begin(c) => IInv'
<1> SUFFICES ASSUME IInv, Begin(c) PROVE IInv'
  OBVIOUS
<1> USE DEF Begin, client, choice
<1>1. kind = "http" /\ kind' = "http" /\ pc' = "try" OBVIOUS
<1>2. TypeOK'
  <2>1. maxRetries \in Nat BY Types DEF IInv
  <2>2. attempt' \in 0 .. maxRetries' /\ total' \in 0 .. MaxTotal' /\ done' \in 0 .. Len(archive')
    BY <2>1, Bounds, Types DEF IInv
  <2>3. call' \in CallsOf[kind'] BY <1>1
  <2>4. /\ log' \in Seq(Outcomes) /\ late' \in 0 .. Len(log') /\ Len(log') - attempt' \in {0, 1}
        /\ cancelled' \in BOOLEAN /\ result' \in Results
    <3>1. log' = <<>> /\ <<>> \in Seq(Outcomes) /\ Len(<<>>) = 0 /\ attempt' = 0 /\ late' = 0 OBVIOUS
    <3>2. result' = "none" /\ "none" \in Results BY DEF Results
    <3>3. log' \in Seq(Outcomes) BY <3>1
    <3>4. late' \in 0 .. Len(log') /\ Len(log') - attempt' \in {0, 1} BY <3>1
    <3>5. result' \in Results BY <3>2
    <3> QED BY <3>3, <3>4, <3>5
  <2> QED BY <2>2, <2>3, <2>4 DEF IInv, TypeOK
<1>3. ChoiceInv' BY <1>1 DEF ChoiceInv
<1>4. RequestInv' BY DEF RequestInv
<1>5. AnswerIsExplained' BY DEF AnswerIsExplained, CancelStopsTheRetries
<1>6. ArchiveInv' BY SameDisk DEF IInv, ArchiveInv
<1> QED BY <1>2, <1>3, <1>4, <1>5, <1>6 DEF IInv

LEMMA TryIInv == IInv /\ Try => IInv'
<1> SUFFICES ASSUME IInv, Try PROVE IInv'
  OBVIOUS
<1> USE DEF Try, Return, client, choice, request, body
<1>1. kind = "http" /\ kind' = "http" BY DEF IInv, ChoiceInv, TypeOK
<1>2. attempt \in Nat /\ maxRetries \in Nat /\ attempt <= maxRetries /\ late \in Nat /\ late <= Len(log)
      /\ Len(log) \in Nat
  BY Types DEF IInv
<1>3. TypeOK' BY DEF IInv, TypeOK, Results
<1>4. ChoiceInv' BY <1>1 DEF ChoiceInv
<1>5. RequestInv' BY <1>2 DEF IInv, RequestInv
<1>6. AnswerIsExplained'
  <2>1. CancelStopsTheRetries' BY DEF IInv, AnswerIsExplained, CancelStopsTheRetries
  <2>2. Len(log) = attempt /\ \A i \in 1 .. Len(log) : log[i] \in Retryable BY <1>2 DEF IInv, RequestInv
  <2>3. ASSUME pc' = "idle", log # <<>>
        PROVE  log[Len(log)] \in Retryable /\ log[Len(log)] \notin {"200", "404", "4xx"}
    <3>1. Len(log) # 0 BY <2>3 DEF IInv, TypeOK
    <3> QED BY <1>2, <2>2, <3>1 DEF Retryable
  <2>4. pc' = "idle" => \/ result' = "exceeded" /\ attempt = maxRetries
                        \/ result' = "cancelled" /\ cancelled
    <3>1. CASE attempt = maxRetries BY <3>1
    <3>2. CASE attempt # maxRetries /\ cancelled BY <3>2
    <3>3. CASE attempt # maxRetries /\ ~ cancelled BY <3>3
    <3> QED BY <3>1, <3>2, <3>3
  <2> QED BY <1>2, <2>1, <2>2, <2>3, <2>4 DEF AnswerIsExplained
<1>7. ArchiveInv' BY SameDisk DEF IInv, ArchiveInv
<1> QED BY <1>3, <1>4, <1>5, <1>6, <1>7 DEF IInv

LEMMA AnsweredIInv == IInv /\ Answered => IInv'
<1> SUFFICES ASSUME IInv, Answered PROVE IInv'
  OBVIOUS
<1> USE DEF Answered, Return, client, choice, body
<1>1. kind = "http" /\ kind' = "http" BY DEF IInv, ChoiceInv, TypeOK
<1>2. /\ attempt \in Nat /\ maxRetries \in Nat /\ attempt < maxRetries
      /\ late \in Nat /\ late <= Len(log) /\ Len(log) = attempt
  BY Types DEF IInv, RequestInv
<1>3. PICK o \in Outcomes :
        /\ log' = Append(log, o)
        /\ \/ o = "200" /\ pc' = "body" /\ UNCHANGED result
           \/ o \in {"404", "4xx"} /\ pc' = "idle" /\ result' = o
           \/ o \in Retryable /\ pc' = "backoff" /\ UNCHANGED result
  OBVIOUS
<1>4. /\ log' \in Seq(Outcomes) /\ Len(log') = attempt + 1 /\ log'[attempt + 1] = o
      /\ \A i \in 1 .. attempt : log'[i] = log[i] /\ log[i] \in Retryable
  BY <1>2, <1>3, Types DEF IInv, RequestInv
<1>5. TypeOK'
  <2>1. pc' \in {"idle", "backoff", "body"} /\ result' \in Results BY <1>3 DEF IInv, TypeOK, Results
  <2>2. late' \in 0 .. Len(log') /\ Len(log') - attempt' \in {0, 1} BY <1>2, <1>4
  <2> QED BY <1>4, <2>1, <2>2 DEF IInv, TypeOK
<1>6. ChoiceInv' BY <1>1 DEF ChoiceInv
<1>7. RequestInv'
  <2>1. pc' = "body" => o = "200" BY <1>3
  <2>2. pc' = "backoff" => o \in Retryable BY <1>3
  <2>3. pc' \in {"idle", "backoff", "body"} BY <1>3
  <2> QED BY <1>2, <1>4, <2>1, <2>2, <2>3 DEF RequestInv
<1>8. AnswerIsExplained'
  <2>1. CancelStopsTheRetries' BY <1>2, <1>4 DEF IInv, RequestInv, CancelStopsTheRetries
  <2>2. pc' = "idle" => o \in {"404", "4xx"} /\ result' = o BY <1>3
  <2> QED BY <1>2, <1>4, <2>1, <2>2 DEF AnswerIsExplained, Retryable
<1>9. ArchiveInv' BY <1>3, SameDisk DEF IInv, ArchiveInv
<1> QED BY <1>5, <1>6, <1>7, <1>8, <1>9 DEF IInv

LEMMA BackoffIInv == IInv /\ Backoff => IInv'
<1> SUFFICES ASSUME IInv, Backoff PROVE IInv'
  OBVIOUS
<1> USE DEF Backoff, client, choice, body
<1>1. kind = "http" /\ kind' = "http" BY DEF IInv, ChoiceInv, TypeOK
<1>2. /\ attempt \in Nat /\ maxRetries \in Nat /\ attempt < maxRetries
      /\ Len(log) = attempt + 1 /\ log[Len(log)] \in Retryable
  BY Types DEF IInv, RequestInv
<1>3. TypeOK' BY <1>2 DEF IInv, TypeOK
<1>4. ChoiceInv' BY <1>1 DEF ChoiceInv
<1>5. RequestInv' BY <1>2 DEF IInv, RequestInv
<1>6. AnswerIsExplained' BY DEF IInv, AnswerIsExplained, CancelStopsTheRetries
<1>7. ArchiveInv' BY SameDisk DEF IInv, ArchiveInv
<1> QED BY <1>3, <1>4, <1>5, <1>6, <1>7 DEF IInv

LEMMA DecodeIInv == IInv /\ Decode => IInv'
<1> SUFFICES ASSUME IInv, Decode PROVE IInv'
  OBVIOUS
<1> USE DEF Decode, Return, client, choice, request, body
<1>1. kind = "http" /\ kind' = "http" BY DEF IInv, ChoiceInv, TypeOK
<1>2. /\ attempt \in Nat /\ maxRetries \in Nat /\ attempt < maxRetries
      /\ Len(log) = attempt + 1 /\ log[Len(log)] = "200"
      /\ \A i \in 1 .. attempt : log[i] \in Retryable
  BY Types DEF IInv, RequestInv
<1>3. pc' = "idle" /\ result' \in {"ok", "failed"} /\ call' # "fetch"
  OBVIOUS
<1>4. TypeOK' BY <1>3 DEF IInv, TypeOK, Results
<1>5. ChoiceInv' BY <1>1 DEF ChoiceInv
<1>6. RequestInv' BY <1>3 DEF IInv, RequestInv
<1>7. AnswerIsExplained' BY <1>2, <1>3 DEF IInv, AnswerIsExplained, CancelStopsTheRetries, Retryable
<1>8. ArchiveInv' BY <1>3, SameDisk DEF IInv, ArchiveInv
<1> QED BY <1>4, <1>5, <1>6, <1>7, <1>8 DEF IInv

\* A fetch returns.
LEMMA ReturnFromFetch ==
  ASSUME IInv, pc \in {"body", "extract"}, kind' = kind, maxRetries' = maxRetries,
         UNCHANGED request, UNCHANGED cancelled, UNCHANGED late,
         pc' = "idle", result' \in {"ok", "failed"}
  PROVE  ChoiceInv' /\ RequestInv' /\ AnswerIsExplained'
<1> USE DEF request
<1>1. kind = "http" /\ kind' = "http" BY DEF IInv, ChoiceInv, TypeOK
<1>2. /\ attempt \in Nat /\ maxRetries \in Nat /\ attempt < maxRetries
      /\ Len(log) = attempt + 1 /\ log[Len(log)] = "200"
      /\ \A i \in 1 .. attempt : log[i] \in Retryable
  BY Types DEF IInv, RequestInv
<1>5. ChoiceInv' BY <1>1 DEF ChoiceInv
<1>6. RequestInv' BY DEF IInv, RequestInv
<1>7. AnswerIsExplained' BY <1>2 DEF IInv, AnswerIsExplained, CancelStopsTheRetries, Retryable
<1> QED BY <1>5, <1>6, <1>7

\* A fetch goes on.
LEMMA StayInFetch ==
  ASSUME IInv, pc \in {"body", "extract"}, kind' = kind, maxRetries' = maxRetries,
         UNCHANGED request, UNCHANGED cancelled, UNCHANGED late, pc' = "extract"
  PROVE  ChoiceInv' /\ RequestInv' /\ AnswerIsExplained'
<1> USE DEF request
<1>1. kind = "http" /\ kind' = "http" BY DEF IInv, ChoiceInv, TypeOK
<1>5. ChoiceInv' BY <1>1 DEF ChoiceInv
<1>6. RequestInv' BY DEF IInv, RequestInv
<1>7. AnswerIsExplained' BY DEF IInv, AnswerIsExplained, CancelStopsTheRetries
<1> QED BY <1>5, <1>6, <1>7

LEMMA ClearIInv == IInv /\ Clear => IInv'
<1> SUFFICES ASSUME IInv, Clear PROVE IInv'
  OBVIOUS
<1> USE DEF Clear, client, choice, request
<1>1. TypeOK'
  <2>1. done = 0 /\ total = 0 BY DEF IInv, ArchiveInv
  <2>2. done' \in 0 .. Len(archive')
    <3>1. archive' \in Seq(Entry) BY ArchivesHaveEntries
    <3> QED BY <2>1, <3>1
  <2>3. dir' \in [Files -> Nat \cup {Partial}] BY DEF EmptyDir, Absent
  <2>4. archive' \in Archives OBVIOUS
  <2> QED BY <2>2, <2>3, <2>4 DEF IInv, TypeOK
<1>2. ChoiceInv' /\ RequestInv' /\ AnswerIsExplained' BY StayInFetch
<1>3. ArchiveInv'
  <2>1. done' = 0 /\ total' = 0 /\ MaxTotal \in Nat BY Bounds DEF IInv, ArchiveInv
  <2>2. Whole' \in [Files -> Nat] /\ \A f \in Files : Whole'[f] = 0
    BY DEF EmptyDir, Whole, Absent, Partial
  <2>3. SumFunction(Whole)' = 0
    <3> DEFINE w == Whole'
    <3>1. w \in [Files -> Nat] /\ \A f \in Files : w[f] = 0 BY <2>2
    <3> HIDE DEF w
    <3>2. SumFunction(w) = 0 BY <3>1, SumOfNothing, FilesAreFinite
    <3> QED BY <3>2 DEF w
  <2>4. \A f \in Files : dir'[f] = Absent /\ Absent # Partial BY DEF EmptyDir, Absent, Partial
  <2>5. \A f \in Files : Content(f, 0)' = Absent BY DEF Content
  <2>6. \A f \in Files : Content(f, done)' = Absent BY <2>1, <2>5 DEF Content
  <2> QED BY <2>1, <2>3, <2>4, <2>6 DEF ArchiveInv
<1> QED BY <1>1, <1>2, <1>3 DEF IInv

LEMMA ClearFailsIInv == IInv /\ ClearFails => IInv'
<1> SUFFICES ASSUME IInv, ClearFails PROVE IInv'
  OBVIOUS
<1> USE DEF ClearFails, Return, client, choice, body, request
<1>1. PICK left \in SUBSET Files : dir' = [f \in Files |-> IF f \in left THEN dir[f] ELSE Absent]
  OBVIOUS
<1>2. dir \in [Files -> Nat \cup {Partial}] /\ dir' \in [Files -> Nat \cup {Partial}]
  BY <1>1 DEF IInv, TypeOK, Absent
<1>3. TypeOK' BY <1>2 DEF IInv, TypeOK, Results
<1>4. ChoiceInv' /\ RequestInv' /\ AnswerIsExplained' BY ReturnFromFetch
<1>5. ArchiveInv'
  <2>1. Whole \in [Files -> Nat] /\ Whole' \in [Files -> Nat] BY <1>2 DEF Whole, Partial
  <2>2. \A f \in Files : Whole'[f] <= Whole[f]
    BY <1>1, <1>2 DEF Whole, Partial, Absent
  <2>3. SumFunction(Whole)' <= SumFunction(Whole) /\ SumFunction(Whole)' \in Nat
    <3> DEFINE v == Whole'
               w == Whole
    <3>1. v \in [Files -> Nat] /\ w \in [Files -> Nat] /\ \A f \in Files \ {Outside} : v[f] <= w[f]
      BY <2>1, <2>2
    <3> HIDE DEF v, w
    <3>2. SumFunction(v) <= SumFunction(w) /\ SumFunction(v) \in Nat
      BY <3>1, SumChanges, FilesAreFinite
    <3> QED BY <3>2 DEF v, w
  <2>4. \A f, g \in Files : dir'[f] = Partial /\ dir'[g] = Partial => f = g
    BY <1>1, <1>2 DEF IInv, ArchiveInv, Partial, Absent
  <2>5. SumFunction(Whole) <= MaxTotal /\ SumFunction(Whole) \in Nat /\ MaxTotal \in Nat
    BY <1>2, WholeType, Bounds DEF IInv, ArchiveInv
  <2> QED BY <2>3, <2>4, <2>5 DEF ArchiveInv
<1> QED BY <1>3, <1>4, <1>5 DEF IInv

LEMMA ExtractIInv == IInv /\ Extract => IInv'
<1> SUFFICES ASSUME IInv, Extract PROVE IInv'
  OBVIOUS
<1> USE DEF Extract, client, choice, request
<1> DEFINE e == archive[done + 1]
<1>1. archive \in Seq(Entry) /\ done \in Nat /\ done + 1 \in 1 .. Len(archive) /\ total \in Nat /\ MaxTotal \in Nat
  BY Types, Bounds DEF IInv, TypeOK
<1>2. e \in Entry BY <1>1
<1>3. e.name \in Files \cup {Outside} /\ e.size \in Nat \ {0} /\ e.type \in {"file", "other"} BY <1>2 DEF Entry
<1>4. dir \in [Files -> Nat \cup {Partial}] BY DEF IInv, TypeOK
<1>5. /\ SumFunction(Whole) <= total /\ SumFunction(Whole) \in Nat
      /\ \A f \in Files : dir[f] # Partial /\ dir[f] = Content(f, done)
  BY <1>4, WholeType DEF IInv, ArchiveInv
<1>6. ChoiceInv' /\ RequestInv' /\ AnswerIsExplained' BY StayInFetch
<1>7. \A f, n : Content(f, n)' = Content(f, n) BY DEF Content
<1>8. \A f : Content(f, done + 1) = IF e.type = "file" /\ e.name = f THEN e.size ELSE Content(f, done)
  <2>1. done + 1 - 1 = done BY <1>1
  <2> QED BY <1>1, <2>1, ContentNext
<1>9. CASE e.type = "other" /\ e.name # Outside /\ UNCHANGED <<dir, total>>
  <2>1. TypeOK' BY <1>1, <1>9 DEF IInv, TypeOK
  <2>2. ArchiveInv'
    <3>1. Whole' = Whole BY <1>9 DEF Whole
    <3>2. \A f \in Files : dir'[f] = Content(f, done + 1) BY <1>5, <1>8, <1>9
    <3> QED BY <1>5, <1>7, <1>9, <3>1, <3>2 DEF IInv, ArchiveInv
  <2> QED BY <1>6, <2>1, <2>2 DEF IInv
<1>10. CASE /\ e.type = "file" /\ e.name # Outside /\ Fits(e)
            /\ dir' = [dir EXCEPT ![e.name] = e.size]
            /\ total' = total + e.size
  <2>1. e.name \in Files /\ total' \in Nat /\ total' <= MaxTotal BY <1>1, <1>3, <1>10 DEF Fits
  <2>2. dir' \in [Files -> Nat \cup {Partial}] BY <1>3, <1>4, <1>10
  <2>3. TypeOK'
    <3>1. total' \in 0 .. MaxTotal' /\ done' \in 0 .. Len(archive') BY <1>1, <2>1
    <3> QED BY <2>2, <3>1 DEF IInv, TypeOK
  <2>4. ArchiveInv'
    <3> DEFINE v == Whole'
               w == Whole
    <3>1. v \in [Files -> Nat] /\ w \in [Files -> Nat] BY <1>4, <2>2 DEF Whole, Partial
    <3>2. v[e.name] = e.size
      <4>1. dir'[e.name] = e.size BY <1>4, <1>10, <2>1
      <4> QED BY <1>3, <2>1, <4>1 DEF Whole, Partial
    <3>3. \A f \in Files \ {e.name} : v[f] <= w[f]
      <4>1. \A f \in Files \ {e.name} : dir'[f] = dir[f] BY <1>4, <1>10
      <4>2. \A f \in Files \ {e.name} : v[f] = w[f] BY <4>1 DEF Whole
      <4> QED BY <3>1, <4>2
    <3>4. SumFunction(v) <= total'
      <4> HIDE DEF v, w
      <4> DEFINE x == e.name
      <4> HIDE DEF x
      <4>1. SumFunction(v) \in Nat /\ SumFunction(v) + w[x] <= SumFunction(w) + v[x]
        BY <2>1, <3>1, <3>3, SumChanges, FilesAreFinite DEF x
      <4>2. w[x] \in Nat /\ v[x] = e.size BY <2>1, <3>1, <3>2 DEF x
      <4>3. SumFunction(w) \in Nat /\ SumFunction(w) <= total BY <1>5 DEF w
      <4> QED BY <1>1, <1>3, <1>10, <4>1, <4>2, <4>3
    <3>5. \A f \in Files : dir'[f] # Partial /\ dir'[f] = Content(f, done + 1)
      <4> SUFFICES ASSUME NEW f \in Files PROVE dir'[f] # Partial /\ dir'[f] = Content(f, done + 1)
        OBVIOUS
      <4>1. CASE f = e.name BY <1>3, <1>4, <1>8, <1>10, <4>1 DEF Partial
      <4>2. CASE f # e.name BY <1>4, <1>5, <1>8, <1>10, <4>2
      <4> QED BY <4>1, <4>2
    <3>6. SumFunction(v) \in Nat
      <4>1. \A f \in Files \ {Outside} : v[f] <= v[f] BY <3>1
      <4> HIDE DEF v
      <4> QED BY <3>1, <4>1, SumChanges, FilesAreFinite
    <3> QED BY <1>1, <1>7, <2>1, <3>4, <3>5, <3>6 DEF IInv, ArchiveInv
  <2> QED BY <1>6, <2>3, <2>4 DEF IInv
<1> QED BY <1>9, <1>10

LEMMA RefuseIInv == IInv /\ Refuse => IInv'
<1> SUFFICES ASSUME IInv, Refuse PROVE IInv'
  OBVIOUS
<1> USE DEF Refuse, Return, client, choice, body, request
<1>1. TypeOK' BY DEF IInv, TypeOK, Results
<1>2. ChoiceInv' /\ RequestInv' /\ AnswerIsExplained' BY ReturnFromFetch
<1>3. ArchiveInv' BY SameDisk DEF IInv, ArchiveInv
<1> QED BY <1>1, <1>2, <1>3 DEF IInv

LEMMA ExtractFailsIInv == IInv /\ ExtractFails => IInv'
<1> SUFFICES ASSUME IInv, ExtractFails PROVE IInv'
  OBVIOUS
<1> USE DEF ExtractFails, Return, client, choice, body, request
<1>1. dir \in [Files -> Nat \cup {Partial}] BY DEF IInv, TypeOK
<1>2. \/ dir' = dir
      \/ \E x \in Files : dir' = [dir EXCEPT ![x] = Partial]
  <2> DEFINE e == archive[done + 1]
  <2>1. CASE UNCHANGED dir BY <2>1
  <2>2. CASE done < Len(archive) /\ e.type = "file" /\ e.name # Outside /\ dir' = [dir EXCEPT ![e.name] = Partial]
    <3>1. archive \in Seq(Entry) /\ done \in Nat BY Types DEF IInv, TypeOK
    <3>2. e \in Entry BY <2>2, <3>1
    <3>3. e.name \in Files BY <2>2, <3>2 DEF Entry
    <3> QED BY <2>2, <3>3
  <2> QED BY <2>1, <2>2
<1>3. dir' \in [Files -> Nat \cup {Partial}] BY <1>1, <1>2
<1>4. TypeOK' BY <1>3 DEF IInv, TypeOK, Results
<1>5. ChoiceInv' /\ RequestInv' /\ AnswerIsExplained' BY ReturnFromFetch
<1>6. ArchiveInv'
  <2>1. CASE dir' = dir BY <2>1, SameDisk DEF IInv, ArchiveInv
  <2>2. CASE \E x \in Files : dir' = [dir EXCEPT ![x] = Partial]
    <3>1. PICK x \in Files : dir' = [dir EXCEPT ![x] = Partial] BY <2>2
    <3>2. \A f \in Files : dir[f] # Partial BY DEF IInv, ArchiveInv
    <3>3. \A f \in Files : dir'[f] = Partial => f = x BY <1>1, <3>1, <3>2
    <3> DEFINE v == Whole'
               w == Whole
    <3>4. v \in [Files -> Nat] /\ w \in [Files -> Nat] BY <1>1, <1>3 DEF Whole, Partial
    <3>5. \A f \in Files : v[f] <= w[f]
      BY <1>1, <3>1, <3>2 DEF Whole, Partial
    <3>6. SumFunction(v) <= SumFunction(w) /\ SumFunction(v) \in Nat /\ SumFunction(w) \in Nat
      <4> HIDE DEF v, w
      <4>1. \A f \in Files \ {Outside} : v[f] <= w[f] BY <3>5
      <4> QED BY <3>4, <4>1, SumChanges, FilesAreFinite
    <3>7. SumFunction(w) <= MaxTotal /\ MaxTotal \in Nat BY Bounds DEF IInv, ArchiveInv
    <3>8. SumFunction(v) <= MaxTotal
      <4> HIDE DEF v, w
      <4> QED BY <3>6, <3>7
    <3> QED BY <3>3, <3>8 DEF ArchiveInv
  <2> QED BY <1>2, <2>1, <2>2
<1> QED BY <1>4, <1>5, <1>6 DEF IInv

LEMMA FinishIInv == IInv /\ Finish => IInv'
<1> SUFFICES ASSUME IInv, Finish PROVE IInv'
  OBVIOUS
<1> USE DEF Finish, Return, client, choice, body, request
<1>1. TypeOK' BY DEF IInv, TypeOK, Results
<1>2. ChoiceInv' /\ RequestInv' /\ AnswerIsExplained' BY ReturnFromFetch
<1>3. ArchiveInv' BY SameDisk DEF IInv, ArchiveInv
<1> QED BY <1>1, <1>2, <1>3 DEF IInv

LEMMA CancelIInv == IInv /\ Cancel => IInv'
<1> SUFFICES ASSUME IInv, Cancel PROVE IInv'
  OBVIOUS
<1> USE DEF Cancel, client, choice, request, body
<1>1. Len(log) \in Nat BY DEF IInv, TypeOK
<1>2. TypeOK' BY <1>1 DEF IInv, TypeOK
<1>3. ChoiceInv' BY DEF IInv, ChoiceInv
<1>4. RequestInv' BY <1>1 DEF IInv, RequestInv
<1>5. AnswerIsExplained' BY <1>1 DEF IInv, AnswerIsExplained, CancelStopsTheRetries
<1>6. ArchiveInv' BY SameDisk DEF IInv, ArchiveInv
<1> QED BY <1>2, <1>3, <1>4, <1>5, <1>6 DEF IInv

LEMMA StutterIInv == IInv /\ UNCHANGED vars => IInv'
<1> SUFFICES ASSUME IInv, UNCHANGED vars PROVE IInv'
  OBVIOUS
<1> USE DEF vars, client, choice, request, body
<1>1. TypeOK' BY DEF IInv, TypeOK
<1>2. ChoiceInv' BY DEF IInv, ChoiceInv, Choose
<1>3. RequestInv' BY DEF IInv, RequestInv
<1>4. AnswerIsExplained' BY DEF IInv, AnswerIsExplained, CancelStopsTheRetries
<1>5. ArchiveInv' BY SameDisk DEF IInv, ArchiveInv
<1> QED BY <1>1, <1>2, <1>3, <1>4, <1>5 DEF IInv

\* The inductive invariant holds of every client, for any registries and limits.
THEOREM Invariance == Spec => []IInv
<1>1. IInv /\ [Next]_vars => IInv'
  BY ResolveVersionIInv, BeginIInv, TryIInv, AnsweredIInv, BackoffIInv, DecodeIInv, ClearIInv,
     ClearFailsIInv, ExtractIInv, RefuseIInv, ExtractFailsIInv, FinishIInv, CancelIInv, StutterIInv
     DEF Next, ClientStep
<1> QED BY InitIInv, <1>1, PTL DEF Spec

-----------------------------------------------------------------------------
(***************************************************************************)
(* What the clients promise                                                *)
(***************************************************************************)

\* Whatever is listed and asked for, the local and the git registry answer with the
\* highest version that is listed and in the constraint's range, or say rightly that
\* there is none; and what the local one resolves it can fetch.
THEOREM BestIsRight == Spec => []BestIsHighestInRange
<1>1. IInv => BestIsHighestInRange
  <2> SUFFICES ASSUME IInv PROVE BestIsHighestInRange
    OBVIOUS
  <2>1. CASE kind = "http" BY <2>1 DEF BestIsHighestInRange, ResolvedCanBeFetched
  <2>2. CASE kind # "http" /\ result # "none"
    <3> DEFINE v == BestMatch(Candidates(listing), constraint)
               listed == {ParseVersion(t) : t \in Range(listing)} \ {NoVersion}
               found == {u \in listed : Admits(constraint, u)}
    <3>1. listing \in Seq(Text) /\ constraint \in Constraint
      BY <2>2, ListingsHaveTexts DEF IInv, ChoiceInv
    <3>2. Candidates(listing) \in Seq(Version) /\ Range(Candidates(listing)) = listed
      BY <3>1, CandidatesAreTheVersions
    <3>3. ~ Malformed(constraint) =>
            IF found = {} THEN v = NoVersion ELSE v \in found /\ \A u \in found : ~ Before(v, u)
      <4> SUFFICES ASSUME ~ Malformed(constraint)
                   PROVE  IF found = {} THEN v = NoVersion ELSE v \in found /\ \A u \in found : ~ Before(v, u)
        OBVIOUS
      <4> DEFINE l == Candidates(listing)
      <4>1. l \in Seq(Version) /\ Range(l) = listed BY <3>2
      <4>2. v = BestMatch(l, constraint) OBVIOUS
      <4> HIDE DEF l, listed, v
      <4>3. IF found = {} THEN BestMatch(l, constraint) = NoVersion
            ELSE /\ BestMatch(l, constraint) \in found
                 /\ \A u \in found : ~ Before(BestMatch(l, constraint), u)
        BY <3>1, <4>1, BestMatchIsHighest
      <4> QED BY <4>2, <4>3
    <3>4. <<best, result>> = IF Malformed(constraint) \/ v = NoVersion THEN <<NoVersion, "no match">>
            ELSE IF kind = "local" /\ String(v) \notin Range(listing) THEN <<NoVersion, "failed">>
            ELSE <<v, "ok">>
      BY <2>2 DEF IInv, ChoiceInv, Choose
    <3>5. NoVersion \notin found OBVIOUS
    <3> HIDE DEF v, listed, found
    <3>6. ResolvedCanBeFetched BY <3>4 DEF ResolvedCanBeFetched
    <3>7. LET admitted == IF Malformed(constraint) THEN {} ELSE found
          IN /\ result = "ok"       => best \in admitted /\ \A u \in admitted : ~ Before(best, u)
             /\ result = "no match" => admitted = {}
             /\ result = "failed"   => admitted # {}
      <4>1. result = "ok" => ~ Malformed(constraint) /\ v # NoVersion /\ best = v BY <3>4
      <4>2. result = "no match" => Malformed(constraint) \/ v = NoVersion BY <3>4
      <4>3. result = "failed" => ~ Malformed(constraint) /\ v # NoVersion BY <3>4
      <4> QED BY <3>3, <3>5, <4>1, <4>2, <4>3
    <3> QED BY <3>6, <3>7 DEF BestIsHighestInRange, listed, found
  <2>3. CASE result = "none" BY <2>3 DEF BestIsHighestInRange, ResolvedCanBeFetched
  <2> QED BY <2>1, <2>2, <2>3
<1> QED BY <1>1, Invariance, PTL

\* The answer of an HTTP call follows from its requests, and at most one request
\* goes out after the context ended, for any number of retries.
THEOREM AnswersAreExplained == Spec => []AnswerIsExplained
<1>1. IInv => AnswerIsExplained
  BY DEF IInv
<1> QED BY <1>1, Invariance, PTL

\* A fetch that succeeds leaves exactly the archive, whatever the archive is and
\* whatever earlier fetches left; no fetch takes more of the disk than the limits.
THEOREM FetchesAreArchives == Spec => []FetchedIsTheArchive
<1>1. IInv => FetchedIsTheArchive
  <2> SUFFICES ASSUME IInv PROVE FetchedIsTheArchive
    OBVIOUS
  <2>1. dir \in [Files -> Nat \cup {Partial}] BY DEF IInv, TypeOK
  <2>2. SumFunction(Whole) <= MaxTotal /\ MaxTotal \in Nat /\ MaxFile \in Nat /\ SumFunction(Whole) \in Nat
    BY <2>1, WholeType, Bounds DEF IInv, ArchiveInv
  <2>3. DiskIsBounded
    <3>1. CASE \A f \in Files : dir[f] # Partial
      <4>1. Occupied = Whole BY <3>1 DEF Occupied, Whole
      <4> QED BY <2>2, <3>1, <4>1 DEF DiskIsBounded
    <3>2. CASE \E f \in Files : dir[f] = Partial
      <4>1. PICK x \in Files : dir[x] = Partial BY <3>2
      <4>2. \A f \in Files \ {x} : dir[f] # Partial BY <4>1 DEF IInv, ArchiveInv
      <4> DEFINE v == Occupied
                 w == Whole
      <4>3. v \in [Files -> Nat] /\ w \in [Files -> Nat] BY <2>1, <2>2 DEF Occupied, Whole, Partial
      <4>4. v[x] = MaxFile /\ w[x] = 0 BY <4>1 DEF Occupied, Whole
      <4>5. \A f \in Files \ {x} : v[f] = w[f] BY <4>2 DEF Occupied, Whole
      <4>6. SumFunction(v) <= SumFunction(w) + MaxFile
        <5> HIDE DEF v, w
        <5>1. \A f \in Files \ {x} : v[f] <= w[f] BY <4>3, <4>5
        <5>2. SumFunction(v) \in Nat /\ SumFunction(w) \in Nat /\ SumFunction(v) + w[x] <= SumFunction(w) + v[x]
          BY <4>3, <5>1, SumChanges, FilesAreFinite
        <5> QED BY <4>4, <5>2
      <4>7. SumFunction(v) \in Nat
        <5>1. \A f \in Files \ {x} : v[f] <= w[f] BY <4>3, <4>5
        <5> HIDE DEF v, w
        <5> QED BY <4>3, <5>1, SumChanges, FilesAreFinite
      <4> QED BY <2>2, <3>2, <4>6, <4>7 DEF DiskIsBounded
    <3> QED BY <3>1, <3>2
  <2> QED BY <2>3 DEF IInv, ArchiveInv, FetchedIsTheArchive
<1> QED BY <1>1, Invariance, PTL

-----------------------------------------------------------------------------
(***************************************************************************)
(* The end of a call                                                       *)
(***************************************************************************)

\* How far an HTTP call is from its end: three steps for each attempt that is left,
\* and then the entries of the archive.
AttemptsLeft ==
  CASE pc = "try"     -> 3 * (maxRetries - attempt) + 2
    [] pc = "wait"    -> 3 * (maxRetries - attempt) + 1
    [] pc = "backoff" -> 3 * (maxRetries - attempt)
    [] pc = "body"    -> 1
    [] OTHER          -> 0

EntriesLeft == IF pc = "extract" THEN Len(archive) - done + 1 ELSE 0

Remaining == <<AttemptsLeft, EntriesLeft>>

Fewer == LexPairOrdering(OpToRel(<, Nat), OpToRel(<, Nat), Nat, Nat)

\* A pause, and an answer waited for, are of an attempt that is left.
AttemptInv == pc \in {"wait", "backoff", "body"} => attempt < maxRetries

LEMMA FewerIsWellFounded == IsWellFoundedOn(Fewer, Nat \X Nat)
<1>1. IsWellFoundedOn(OpToRel(<, Nat), Nat)
  BY NatLessThanWellFounded
<1> QED BY <1>1, WFLexPairOrdering, Zenon DEF Fewer

LEMMA FewerIf ==
  ASSUME NEW a \in Nat, NEW b \in Nat, NEW x \in Nat, NEW y \in Nat,
         x < a \/ (x = a /\ y < b)
  PROVE  <<<<x, y>>, <<a, b>>>> \in Fewer
<1>1. \A i, j \in Nat : i < j => <<i, j>> \in OpToRel(<, Nat)
  BY Zenon DEF OpToRel
<1> QED BY <1>1 DEF Fewer, LexPairOrdering

LEMMA AttemptInvariance == Spec => []AttemptInv
<1>1. Init => AttemptInv
  BY DEF Init, AttemptInv
<1>2. TypeOK /\ AttemptInv /\ [Next]_vars => AttemptInv'
  <2> SUFFICES ASSUME TypeOK, AttemptInv, [Next]_vars PROVE AttemptInv'
    OBVIOUS
  <2>1. maxRetries \in Nat /\ attempt \in Nat /\ attempt <= maxRetries
    BY Types
  <2>2. CASE ResolveVersion \/ (\E c \in CallsOf["http"] : Begin(c)) \/ UNCHANGED vars \/ Cancel
    BY <2>2 DEF AttemptInv, ResolveVersion, Return, Begin, Cancel, vars, client, request
  <2>3. CASE Try \/ Backoff
    BY <2>1, <2>3 DEF AttemptInv, Try, Backoff, Return, client, request
  <2>4. CASE Answered \/ Decode \/ Clear \/ ClearFails \/ Finish
    BY <2>4 DEF AttemptInv, Answered, Decode, Clear, ClearFails, Finish, Return, client, request
  <2>5. CASE Extract \/ Refuse \/ ExtractFails
    BY <2>5 DEF AttemptInv, Extract, Refuse, ExtractFails, Return
  <2> QED BY <2>2, <2>3, <2>4, <2>5 DEF Next, ClientStep
<1>3. IInv => TypeOK
  BY DEF IInv
<1> QED BY <1>1, <1>2, <1>3, Invariance, PTL DEF Spec

LEMMA RemainingType == TypeOK /\ AttemptInv => Remaining \in Nat \X Nat
<1> SUFFICES ASSUME TypeOK, AttemptInv PROVE Remaining \in Nat \X Nat
  OBVIOUS
<1>1. /\ maxRetries \in Nat /\ attempt \in Nat /\ attempt <= maxRetries
      /\ Len(archive) \in Nat /\ done \in 0 .. Len(archive)
  BY Types
<1>2. AttemptsLeft \in Nat BY <1>1 DEF AttemptsLeft
<1>3. EntriesLeft \in Nat BY <1>1 DEF EntriesLeft
<1> QED BY <1>2, <1>3 DEF Remaining

LEMMA StepLeavesFewer ==
  ASSUME TypeOK, AttemptInv, Remaining \in Nat \X Nat, (Remaining \in Nat \X Nat)', ClientStep
  PROVE  <<Remaining', Remaining>> \in Fewer
<1>1. /\ maxRetries \in Nat /\ attempt \in Nat /\ attempt <= maxRetries
      /\ Len(archive) \in Nat /\ done \in 0 .. Len(archive)
  BY Types
<1>2. /\ AttemptsLeft \in Nat /\ EntriesLeft \in Nat
      /\ AttemptsLeft' \in Nat /\ EntriesLeft' \in Nat
  BY DEF Remaining
<1> SUFFICES AttemptsLeft' < AttemptsLeft \/ (AttemptsLeft' = AttemptsLeft /\ EntriesLeft' < EntriesLeft)
  BY <1>2, FewerIf DEF Remaining
<1>3. CASE Try
  <2>1. AttemptsLeft = 3 * (maxRetries - attempt) + 2
    BY <1>3 DEF Try, AttemptsLeft
  <2>2. CASE pc' = "idle"
    <3>1. AttemptsLeft' = 0 BY <2>2 DEF AttemptsLeft
    <3> QED BY <1>1, <2>1, <3>1
  <2>3. CASE pc' = "wait"
    <3>1. AttemptsLeft' = 3 * (maxRetries - attempt) + 1
      BY <1>3, <2>3 DEF Try, AttemptsLeft, client, request
    <3> QED BY <1>1, <2>1, <3>1
  <2> QED BY <1>3, <2>2, <2>3 DEF Try, Return
<1>4. CASE Answered
  BY <1>1, <1>4 DEF Answered, Return, AttemptsLeft, AttemptInv, client
<1>5. CASE Backoff
  BY <1>1, <1>5 DEF Backoff, AttemptsLeft, AttemptInv, client
<1>6. CASE Decode \/ Clear \/ ClearFails
  BY <1>6 DEF Decode, Clear, ClearFails, Return, AttemptsLeft
<1>7. CASE Extract
  <2>1. AttemptsLeft = 0 /\ AttemptsLeft' = 0
    BY <1>7 DEF Extract, AttemptsLeft
  <2>2. EntriesLeft' < EntriesLeft
    BY <1>1, <1>7 DEF Extract, EntriesLeft
  <2> QED BY <2>1, <2>2
<1>8. CASE Refuse \/ ExtractFails \/ Finish
  <2>1. AttemptsLeft = 0 /\ AttemptsLeft' = 0
    BY <1>8 DEF Refuse, ExtractFails, Finish, Return, AttemptsLeft
  <2>2. EntriesLeft' = 0 /\ EntriesLeft > 0
    BY <1>1, <1>8 DEF Refuse, ExtractFails, Finish, Return, EntriesLeft
  <2> QED BY <2>1, <2>2
<1> QED BY <1>3, <1>4, <1>5, <1>6, <1>7, <1>8 DEF ClientStep

(* The retries of an HTTP call come to an end, and so does the archive of  *)
(* a fetch: every step of doGet and of what follows it leaves fewer, for   *)
(* any number of retries, none included, and any answers; the end of the   *)
(* context leaves no more.                                                 *)
THEOREM RequestsComeToAnEnd ==
  /\ IsWellFoundedOn(Fewer, Nat \X Nat)
  /\ Spec => [][(ClientStep => <<Remaining', Remaining>> \in Fewer)
                  /\ (Cancel => Remaining' = Remaining)]_vars
<1>1. /\ TypeOK /\ AttemptInv /\ Remaining \in Nat \X Nat /\ (Remaining \in Nat \X Nat)'
      /\ [Next]_vars
      => [(ClientStep => <<Remaining', Remaining>> \in Fewer)
            /\ (Cancel => Remaining' = Remaining)]_vars
  <2> SUFFICES ASSUME TypeOK, AttemptInv, Remaining \in Nat \X Nat, (Remaining \in Nat \X Nat)'
               PROVE  (ClientStep => <<Remaining', Remaining>> \in Fewer)
                        /\ (Cancel => Remaining' = Remaining)
    OBVIOUS
  <2>1. ClientStep => <<Remaining', Remaining>> \in Fewer
    BY StepLeavesFewer
  <2>2. Cancel => Remaining' = Remaining
    BY DEF Cancel, Remaining, AttemptsLeft, EntriesLeft, client, request, body
  <2> QED BY <2>1, <2>2
<1>2. IInv => TypeOK
  BY DEF IInv
<1>3. Spec => [][(ClientStep => <<Remaining', Remaining>> \in Fewer)
                  /\ (Cancel => Remaining' = Remaining)]_vars
  BY <1>1, <1>2, RemainingType, AttemptInvariance, Invariance, PTL DEF Spec
<1> QED BY <1>3, FewerIsWellFounded
=============================================================================
