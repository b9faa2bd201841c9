--------------------------- MODULE MCMaterializer ---------------------------
(***************************************************************************)
(* A project with two units, one of which has a sub-directory, an asset    *)
(* and two bundles, as it is edited: a file changes, an asset gets another *)
(* source, is named relatively, or becomes a file of the same name.        *)
(***************************************************************************)
EXTENDS Materializer

MCSources == {At(Src, "s"), At(Src, "t")}

F(path, c) == [path |-> path, content |-> c]

Asset(path, s)    == [path |-> path, source |-> s, to |-> s]
Relative(path, s) == [path |-> path, source |-> s, to |-> Nowhere]

B(dir, files) == [dir |-> dir, files |-> files]

U(dir, dirs, files, assets, bundles) ==
  [dir |-> dir, dirs |-> dirs, files |-> files, assets |-> assets, bundles |-> bundles]

MCPlans ==
  {<<U("claude", <<"claude/dir">>, <<F("x", "1")>>, <<Asset("z", At(Src, "s"))>>,
       <<B("claude/p", <<F("b", "1")>>), B("claude/q", <<F("b", "2")>>)>>),
     U("codex", <<>>, <<F("x", "2")>>, <<>>, <<>>)>>,
   <<U("claude", <<>>, <<F("x", "2"), F("y", "1")>>, <<Asset("z", At(Src, "t"))>>, <<>>)>>,
   <<U("claude", <<>>, <<F("x", "1")>>, <<Relative("a", At(Src, "s")), Relative("c", Nowhere)>>, <<>>)>>,
   \* A file and an asset of one name: in one plan, and in this one and another.
   <<U("claude", <<>>, <<F("y", "1"), F("a", "1")>>, <<Asset("y", At(Src, "t"))>>, <<>>)>>}

S(mode, dryRun, failFast) == [mode |-> mode, dryRun |-> dryRun, failFast |-> failFast]

MCSettings ==
  {S("build-only", FALSE, TRUE), S("build-only", TRUE, FALSE),
   S("copy", FALSE, FALSE), S("symlink", FALSE, FALSE), S("adopt-selected", FALSE, FALSE)}

MCAdopted == {"x"}
=============================================================================
