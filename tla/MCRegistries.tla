----------------------------- MODULE MCRegistries -----------------------------
(* Versions at zero, at one and on both sides of every range of the targets; *)
(* archives with a repeated file, a file too large, files too large together, *)
(* a name that leads out, and an older content of the same package.          *)
EXTENDS Registries

V(a, b, c) == [major |-> a, minor |-> b, patch |-> c]
Plain(v) == [spelling |-> "plain", version |-> v]
T(s, v) == [spelling |-> s, version |-> v]

MCVersions == {V(0,0,0), V(0,0,1), V(0,0,2), V(0,1,0), V(0,1,1), V(0,2,0),
               V(1,0,0), V(1,0,1), V(1,1,0), V(1,2,0), V(2,0,0)}
MCTexts == {Plain(v) : v \in MCVersions}

MCListings ==
  {<<>>} \cup {<<a>> : a \in MCTexts}
    \cup {<<p[1], p[2]>> : p \in {q \in MCTexts \X MCTexts : q[1] # q[2]}}
    \cup {<<T("prefixed", v), Plain(V(0,1,0))>> : v \in MCVersions}
    \cup {<<T("junk", V(0,0,0)), T("padded", V(1,0,0)), Plain(V(0,2,0)), T("prefixed", V(1,0,0))>>}

MCConstraints ==
  {[op |-> o, target |-> Plain(v)] : o \in Operators,
     v \in {V(0,0,0), V(0,0,1), V(0,1,0), V(1,0,0), V(1,1,0)}}
    \cup {[op |-> "^", target |-> T("junk", V(0,0,0))]}

F(n, s) == [type |-> "file", name |-> n, size |-> s]
MCArchives ==
  {<<F("a", 1)>>,
   <<F("a", 2), F("b", 1)>>,
   <<F("a", 1), [type |-> "other", name |-> "b", size |-> 1], F("a", 2)>>,
   <<F("b", 1), F("a", 3)>>,
   <<F("a", 2), F("b", 2), F("c", 1)>>,
   <<F("a", 1), F(Outside, 1)>>}
=============================================================================
