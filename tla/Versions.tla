------------------------------ MODULE Versions ------------------------------
(***************************************************************************)
(* Semantic versions and the constraints on them, of                       *)
(* internal/adapter/registry/version.go, as operators.  A version is three *)
(* numbers; the text of one is a record that says how it is spelled, since *)
(* what ParseVersion accepts and what String prints need not be the same   *)
(* text.                                                                   *)
(***************************************************************************)
EXTENDS Integers, SequencesExt

Version == [major : Nat, minor : Nat, patch : Nat]

NoVersion == [major |-> -1, minor |-> -1, patch |-> -1]

\* "1.2.3", "v1.2.3", "01.2.3", and what is no version at all.
Spellings == {"plain", "prefixed", "padded", "junk"}

Text == [spelling : Spellings, version : Version]

ParseVersion(t) == IF t.spelling = "junk" THEN NoVersion ELSE t.version

String(v) == [spelling |-> "plain", version |-> v]

Sign(i) == IF i < 0 THEN -1 ELSE IF i = 0 THEN 0 ELSE 1

Compare(v, w) ==
  IF v.major # w.major THEN Sign(v.major - w.major)
  ELSE IF v.minor # w.minor THEN Sign(v.minor - w.minor)
  ELSE Sign(v.patch - w.patch)

Operators == {"any", "exact", "^", "~", ">=", ">", "<=", "<"}

\* target is not used when any version will do; a constraint that cannot be
\* parsed has junk for a target.
Constraint == [op : Operators, target : Text]

Malformed(c) == c.op # "any" /\ ParseVersion(c.target) = NoVersion

\* Mutant: a caret means the same major version, also below 1.0.0.
Caret_SameMajor(v, t) == v.major = t.major

\* What a caret asks for besides the lower bound.
Caret(v, t) ==
  /\ v.major = t.major
  /\ t.major = 0 => v.minor = t.minor
  /\ t.major = 0 /\ t.minor = 0 => v.patch = t.patch

MatchConstraint(v, c) ==
  LET t == ParseVersion(c.target)
  IN CASE c.op = "any"   -> TRUE
       [] c.op = "exact" -> Compare(v, t) = 0
       [] c.op = "^"     -> Compare(v, t) >= 0 /\ Caret(v, t)
       [] c.op = "~"     -> /\ Compare(v, t) >= 0
                            /\ v.major = t.major /\ v.minor = t.minor
       [] c.op = ">="    -> Compare(v, t) >= 0
       [] c.op = ">"     -> Compare(v, t) > 0
       [] c.op = "<="    -> Compare(v, t) <= 0
       [] c.op = "<"     -> Compare(v, t) < 0

\* NoVersion stands for found = FALSE.
BestMatch(candidates, c) ==
  LET Better(best, v) ==
        IF MatchConstraint(v, c) /\ (best = NoVersion \/ Compare(v, best) > 0)
          THEN v ELSE best
  IN FoldLeft(Better, NoVersion, candidates)

-----------------------------------------------------------------------------
(***************************************************************************)
(* What the constraints mean, independently of Compare: half-open ranges   *)
(* [Lower, Upper) of the lexicographic order.                              *)
(***************************************************************************)
Before(v, w) ==
  \/ v.major < w.major
  \/ v.major = w.major /\ v.minor < w.minor
  \/ v.major = w.major /\ v.minor = w.minor /\ v.patch < w.patch

\* The versions that come next to v at each place.
NextMajor(v) == [major |-> v.major + 1, minor |-> 0, patch |-> 0]
NextMinor(v) == [major |-> v.major, minor |-> v.minor + 1, patch |-> 0]
NextPatch(v) == [v EXCEPT !.patch = @ + 1]

\* A caret keeps the first number that is not zero.
NextBreaking(v) ==
  IF v.major # 0 THEN NextMajor(v)
  ELSE IF v.minor # 0 THEN NextMinor(v)
  ELSE NextPatch(v)

Admits(c, v) ==
  LET t == c.target.version
      From(w) == ~ Before(v, w)
      UpTo(w) == Before(v, w)
  IN CASE c.op = "any"   -> TRUE
       [] c.op = "exact" -> From(t) /\ UpTo(NextPatch(t))
       [] c.op = "^"     -> From(t) /\ UpTo(NextBreaking(t))
       [] c.op = "~"     -> From(t) /\ UpTo(NextMinor(t))
       [] c.op = ">="    -> From(t)
       [] c.op = ">"     -> From(NextPatch(t))
       [] c.op = "<="    -> UpTo(NextPatch(t))
       [] c.op = "<"     -> UpTo(t)
=============================================================================
