CONSTANT Invocations <- AllTargets
SPECIFICATION FairSpec
INVARIANT EveryRendererGetsTheLoweredGraph
CHECK_DEADLOCK FALSE
