------------------------------ MODULE MCBuild ------------------------------
(***************************************************************************)
(* One command line for each way the wiring, the modes and the flags       *)
(* differ: one target, the same target twice, two targets, all targets;    *)
(* failing fast or not; a dry run; a sync mode; and validate.              *)
(***************************************************************************)
EXTENDS Build

BuildOf(asked, fast) ==
  [command |-> "build", asked |-> asked, failFast |-> fast, dryRun |-> FALSE,
   sync |-> "build-only"]

Validation == [BuildOf(<<>>, TRUE) EXCEPT !.command = "validate"]

MCInvocations ==
  {BuildOf(<<t>>, fast) : t \in {"claude", "cursor"}, fast \in BOOLEAN}
    \cup {BuildOf(<<"codex", "codex">>, fast) : fast \in BOOLEAN}
    \cup {BuildOf(<<"cursor", "claude">>, fast) : fast \in BOOLEAN}
    \cup {BuildOf(<<"claude", "all">>, fast) : fast \in BOOLEAN}
    \cup {[BuildOf(<<"claude">>, fast) EXCEPT !.dryRun = TRUE] : fast \in BOOLEAN}
    \cup {[BuildOf(<<"copilot">>, fast) EXCEPT !.sync = "copy"] : fast \in BOOLEAN}
    \cup {Validation}

\* One way of calling each, for the runs that look for one disagreement.
AllTargets == {BuildOf(<<>>, TRUE)}
OneTarget == {BuildOf(<<"claude">>, TRUE)}
KeepGoing == {BuildOf(<<"claude">>, FALSE)}
DryRun == {[BuildOf(<<"claude">>, TRUE) EXCEPT !.dryRun = TRUE]}
SyncCopy == {[BuildOf(<<"claude">>, TRUE) EXCEPT !.sync = "copy"]}
=============================================================================
