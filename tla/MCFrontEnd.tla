----------------------------- MODULE MCFrontEnd -----------------------------
(***************************************************************************)
(* Projects of three objects that extend one another, or delegate to one   *)
(* another, in every way; agents that refer to objects of each kind; and   *)
(* files, objects and packages that are odd in one way each.               *)
(***************************************************************************)
EXTENDS FrontEnd

MCFields == {"description", "reference_path"}
MCPathFields == {"reference_path"}
MCScopePaths == {"a", "b"}

NoRefs == [r \in DOMAIN KindOf |-> {}]

\* The first object has both values and a scope, the second its own scope and
\* one value, the third has nothing.
Object(id, extends) ==
  [id      |-> id,
   kind    |-> "rule",
   extends |-> extends,
   fields  |-> CASE id = 1 -> MCFields [] id = 2 -> {"description"} [] OTHER -> {},
   scope   |-> CASE id = 1 -> {"a"} [] id = 2 -> {"b"} [] OTHER -> {},
   glob    |-> TRUE,
   refs    |-> NoRefs,
   tools   |-> "known",
   valid   |-> TRUE]

Agent(id, mayCall) == [Object(id, <<>>) EXCEPT !.kind = "agent", !.refs["mayCall"] = mayCall]

Package(id) == [Object(3, <<>>) EXCEPT !.id = id, !.fields = {"description"}]

Files(t) == [k \in DOMAIN t |-> [form |-> "object", object |-> t[k]]]

Project(t, e, f) == [files |-> Files(t), external |-> e, failFast |-> f]

Lists == {<<>>} \cup {<<a>> : a \in 1 .. 3}
         \cup {<<a, b>> : a \in 1 .. 3, b \in 1 .. 3}

Graphs == {<<Object(2, x), Object(1, y), Object(3, z)>> : x \in Lists, y \in Lists, z \in Lists}

Delegations == {<<Agent(1, x), Agent(2, y), Agent(3, z)>> :
                  x \in SUBSET (1 .. 3), y \in SUBSET (1 .. 3), z \in SUBSET {1, 2, 4}}

References == {<<[Agent(1, {}) EXCEPT !.refs[r] = {o}], [Object(2, <<>>) EXCEPT !.kind = k]>> :
                 r \in DOMAIN KindOf, o \in {2, 4}, k \in Kinds}

Odd ==
  {<<Object(1, <<>>), Object(2, <<1, 4>>), Object(3, <<2>>)>>,
   <<[Object(1, <<>>) EXCEPT !.glob = FALSE], Object(2, <<1>>)>>,
   <<Object(3, <<>>)>>,
   <<Object(NoID, <<1>>), Object(1, <<NoID>>)>>,
   <<[Object(1, <<>>) EXCEPT !.valid = FALSE], Object(2, <<2>>)>>,
   <<[Agent(1, {}) EXCEPT !.tools = "malformed"], [Agent(2, {}) EXCEPT !.tools = "unknown"]>>,
   \* One of two objects with ID 2 is invalid, or has what is inherited.
   <<[Object(2, <<4>>) EXCEPT !.glob = FALSE], Object(1, <<>>), Object(2, <<1>>)>>,
   <<Object(1, <<2>>), Object(2, <<1>>), Object(3, <<2, 1>>), Object(1, <<>>)>>,
   <<Object(1, <<>>), Object(2, <<1>>), [Object(1, <<>>) EXCEPT !.fields = {}, !.scope = {}],
     Object(3, <<1, 2>>)>>,
   \* An agent refers to an ID that a skill has, and a rule.
   <<[Agent(1, {}) EXCEPT !.refs["skills"] = {2}], [Object(2, <<>>) EXCEPT !.kind = "skill"],
     Object(2, <<>>)>>}

\* Packages that bring a missing parent, replace a parent, and agree with each other
\* on an ID.
Packages == {<<>>, <<Package(4)>>, <<Package(2)>>, <<Package(4), Package(4), Package(1)>>}

Chains == Odd \cup {<<Object(1, <<>>), Object(2, x), Object(3, y)>> :
                      x \in {<<1>>, <<4, 1>>}, y \in {<<2>>, <<1, 2>>, <<4>>}}

Unread == {<<[form |-> "other", object |-> Object(1, <<>>)]>> \o Files(<<Object(2, <<>>)>>),
           Files(<<Object(2, <<>>)>>) \o <<[form |-> "broken", object |-> Object(1, <<>>)]>>}

MCInputs ==
  {Project(g, <<>>, FALSE) : g \in Graphs \cup Delegations \cup References}
    \cup {Project(t, e, f) : t \in Chains, e \in Packages, f \in BOOLEAN}
    \cup {Project(g, <<>>, TRUE) : g \in References
            \cup {u \in Graphs : u[1].extends \in {<<>>, <<1>>}}}
    \cup {[files |-> u, external |-> <<>>, failFast |-> TRUE] : u \in Unread}
=============================================================================
