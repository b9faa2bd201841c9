---------------------------- MODULE MCPipeline ----------------------------
(***************************************************************************)
(* Three phases.  The plans have phases without stages, phases with two,   *)
(* hooks with and without handlers on both sides, hooks around a phase     *)
(* without stages, a last phase with two stages, and a phase that cannot   *)
(* be ordered.                                                             *)
(***************************************************************************)
EXTENDS Pipeline

MCStages == {"s1", "s2"}
MCHooks == {"h1", "h2", "nil"}
MCNoHandler == {"nil"}

Phased(before, stages, after) ==
  [ordered |-> TRUE, stages |-> stages, before |-> before, after |-> after]

Unordered == [Phased(<<"h1">>, <<"s1">>, <<>>) EXCEPT !.ordered = FALSE]

MCPlans ==
  {<<Phased(<<"h1">>, <<"s1", "s2">>, <<>>),
     Phased(<<"nil">>, <<>>, <<"h1">>),
     Phased(<<>>, <<"s1">>, <<"nil", "h2">>)>>,
   <<Phased(<<>>, <<>>, <<>>),
     Phased(<<"h1", "h2">>, <<"s1">>, <<"h1", "nil">>),
     Phased(<<>>, <<"s2", "s1">>, <<"h2">>)>>,
   <<Phased(<<>>, <<"s1", "s2">>, <<"h1">>),
     Unordered,
     Phased(<<"h2">>, <<"s1">>, <<>>)>>}
=============================================================================
