------------------------ MODULE MCDependencyResolver ------------------------
(***************************************************************************)
(* Two packages: "a" has two versions, the second is published or          *)
(* withdrawn and the content of the first may be replaced; "b" has one.    *)
(***************************************************************************)
EXTENDS DependencyResolver

MCNames == {"a", "b"}
MCVersions == {1, 2}
MCContents == {1, 2}

Wants(a, b) == [n \in MCNames |-> IF n = "a" THEN a ELSE b]

\* Any version of both; only the second of "a", and "b" dropped; nothing.
MCManifests == {Wants({1, 2}, {1}), Wants({2}, {}), Wants({}, {})}

Serves(first, second) ==
  [n \in MCNames |-> IF n = "a" THEN <<first, second>> ELSE <<1, Missing>>]

MCRegistries == {Serves(1, Missing), Serves(1, 1), Serves(2, 1)}

Setup(kind, cache, checked, shared) ==
  [registry |-> kind, cache |-> cache, checked |-> checked, shared |-> shared]

\* As the command line wires it; with all the options; the other registries, the
\* HTTP registry once with a cache in the directory that both have by default.
MCConfigs == {Setup("local", FALSE, FALSE, FALSE),
              Setup("local", TRUE, TRUE, FALSE),
              Setup("http", FALSE, TRUE, FALSE),
              Setup("http", TRUE, TRUE, TRUE),
              Setup("git", FALSE, TRUE, FALSE)}

Answer(name, version, digest) == [name |-> name, version |-> version, digest |-> digest]

\* The packages as they are first published, one without a hash, as the answer for
\* either package: of another name, or of a version that is not admitted.
MCAnswers == {Answer("a", 1, 1), Answer("a", 2, NoHash), Answer("b", 1, 1)}

=============================================================================
