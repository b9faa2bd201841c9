-------------------------- MODULE PipelineProofs --------------------------
(***************************************************************************)
(* Proofs about the orchestrator, for any number of phases, any registry   *)
(* and whatever the stages and hooks return.                               *)
(*                                                                         *)
(* The argument is about Upto(h), the calls that come before a place h.    *)
(* When a call returns, the pipeline moves past exactly that call; when a  *)
(* loop or a phase ends, it moves to a place with the same calls before    *)
(* it.  So the calls made are always those before the present place, which *)
(* is PositionInv; the rest of the inductive invariant follows the calls   *)
(* in that order.  What the liveness of a run rests on comes last: that    *)
(* every step comes nearer to the end, and cancellation is not forgotten.  *)
(***************************************************************************)
EXTENDS Pipeline, SequenceTheorems, WellFoundedInduction, TLAPS

Upto(h) == {c \in Calls : Before(c, h)}

\* The length of the list that part k of phase p walks.
Width(p, k) ==
  IF k = BeforePart THEN Len(plan[p].before)
  ELSE IF k = StagePart THEN Len(plan[p].stages)
  ELSE Len(plan[p].after)

OrderedInv ==
  /\ \A p \in Phase : p < phase => plan[p].ordered
  /\ pc \in {"stages", "stage", "after"} => plan[phase].ordered

IInv ==
  /\ TypeOK
  /\ PositionInv
  /\ OrderedInv
  /\ ResultIsExplained
  /\ EveryFailureReported
  /\ LatestValueThreaded

-----------------------------------------------------------------------------
(***************************************************************************)
(* The calls and their order                                               *)
(***************************************************************************)

\* What a plan is.
LEMMA PlanFacts ==
  ASSUME TypeOK, NEW p \in Phase
  PROVE  /\ plan[p].ordered \in BOOLEAN
         /\ plan[p].stages \in Seq(Stages)
         /\ plan[p].before \in Seq(Hooks)
         /\ plan[p].after \in Seq(Hooks)
         /\ DOMAIN plan[p].stages = 1 .. Len(plan[p].stages)
         /\ DOMAIN plan[p].before = 1 .. Len(plan[p].before)
         /\ DOMAIN plan[p].after = 1 .. Len(plan[p].after)
         /\ Len(plan[p].stages) \in Nat
         /\ Len(plan[p].before) \in Nat
         /\ Len(plan[p].after) \in Nat
<1>1. plan[p] \in PhasePlan
  BY PipelineAssumption DEF TypeOK
<1>2. /\ plan[p].ordered \in BOOLEAN
      /\ plan[p].stages \in Seq(Stages)
      /\ plan[p].before \in Seq(Hooks)
      /\ plan[p].after \in Seq(Hooks)
  BY <1>1 DEF PhasePlan
<1>3. QED
  BY <1>2, LenProperties

\* A call lies in one of the three parts of a phase, within its list.
LEMMA CallFacts ==
  ASSUME TypeOK
  PROVE  /\ \A c \in Calls :
              /\ c = <<c[1], c[2], c[3]>>
              /\ c[1] \in Phase /\ c[2] \in 1 .. 3 /\ c[3] \in 1 .. Width(c[1], c[2])
              /\ c[3] \in Nat
         /\ \A p \in Phase, i \in Nat :
              /\ <<p, BeforePart, i>> \in Calls
                   <=> i \in DOMAIN plan[p].before /\ plan[p].before[i] \notin NoHandler
              /\ <<p, StagePart, i>> \in Calls <=> i \in DOMAIN plan[p].stages
              /\ <<p, AfterPart, i>> \in Calls
                   <=> i \in DOMAIN plan[p].after /\ plan[p].after[i] \notin NoHandler
<1>1. ASSUME NEW c \in Calls
      PROVE  /\ c = <<c[1], c[2], c[3]>>
             /\ c[1] \in Phase /\ c[2] \in 1 .. 3 /\ c[3] \in 1 .. Width(c[1], c[2])
             /\ c[3] \in Nat
  <2>1. PICK p \in Phase : c \in CallsOf(p)
    BY DEF Calls
  <2>2. CASE \E i \in DOMAIN plan[p].before : c = <<p, BeforePart, i>>
    BY <2>2, PlanFacts DEF Width, BeforePart
  <2>3. CASE \E i \in DOMAIN plan[p].stages : c = <<p, StagePart, i>>
    BY <2>3, PlanFacts DEF Width, BeforePart, StagePart
  <2>4. CASE \E i \in DOMAIN plan[p].after : c = <<p, AfterPart, i>>
    BY <2>4, PlanFacts DEF Width, BeforePart, StagePart, AfterPart
  <2>5. QED
    BY <2>1, <2>2, <2>3, <2>4 DEF CallsOf
<1>2. ASSUME NEW p \in Phase, NEW i \in Nat
      PROVE  /\ <<p, BeforePart, i>> \in Calls
                  <=> i \in DOMAIN plan[p].before /\ plan[p].before[i] \notin NoHandler
             /\ <<p, StagePart, i>> \in Calls <=> i \in DOMAIN plan[p].stages
             /\ <<p, AfterPart, i>> \in Calls
                  <=> i \in DOMAIN plan[p].after /\ plan[p].after[i] \notin NoHandler
  <2>1. \A k : <<p, k, i>> \in Calls <=> <<p, k, i>> \in CallsOf(p)
    BY DEF Calls, CallsOf
  <2>2. QED
    BY <2>1 DEF CallsOf, BeforePart, StagePart, AfterPart
<1>3. QED
  BY <1>1, <1>2

\* Before is a strict order on places, total on triples of numbers.
LEMMA BeforeFacts ==
  /\ \A a \in Int \X Int \X Int : ~ Before(a, a)
  /\ \A a, b, c \in Int \X Int \X Int : Before(a, b) /\ Before(b, c) => Before(a, c)
BY DEF Before

\* Moving past index i adds the call at i, if there is one.
LEMMA UptoNextIndex ==
  ASSUME TypeOK, NEW p \in Phase, NEW k \in 1 .. 3, NEW i \in Nat
  PROVE  Upto(<<p, k, i + 1>>) = Upto(<<p, k, i>>) \cup ({<<p, k, i>>} \cap Calls)
<1>1. ASSUME NEW c \in Calls
      PROVE  Before(c, <<p, k, i + 1>>) <=> Before(c, <<p, k, i>>) \/ c = <<p, k, i>>
  <2>1. c = <<c[1], c[2], c[3]>> /\ c[1] \in Int /\ c[2] \in Int /\ c[3] \in Int
    BY CallFacts DEF Phase
  <2>2. c = <<p, k, i>> <=> c[1] = p /\ c[2] = k /\ c[3] = i
    BY <2>1
  <2>3. QED
    BY <2>1, <2>2 DEF Before, Phase
<1>2. QED
  BY <1>1 DEF Upto

\* Past the end of a list, the next part has the same calls before it.
LEMMA UptoNextPart ==
  ASSUME TypeOK, NEW p \in Phase, NEW k \in 1 .. 2, NEW i \in Nat, i > Width(p, k)
  PROVE  Upto(<<p, k, i>>) = Upto(<<p, k + 1, 1>>)
<1>1. ASSUME NEW c \in Calls
      PROVE  Before(c, <<p, k, i>>) <=> Before(c, <<p, k + 1, 1>>)
  <2>1. /\ c[1] \in Int /\ c[2] \in Int /\ c[3] \in Int
        /\ c[3] >= 1 /\ c[3] <= Width(c[1], c[2])
    BY CallFacts, PlanFacts DEF Phase, Width
  <2>2. Width(p, k) \in Int
    BY PlanFacts DEF Width
  <2>3. c[1] = p /\ c[2] = k => c[3] < i
    BY <2>1, <2>2
  <2>4. QED
    BY <2>1, <2>3 DEF Before, Phase
<1>2. QED
  BY <1>1 DEF Upto

\* Past the last list of a phase, the next phase has the same calls before it;
\* past the last list of the last phase are all the calls.
LEMMA UptoNextPhase ==
  ASSUME TypeOK, NEW p \in Phase, NEW i \in Nat, i > Width(p, AfterPart)
  PROVE  /\ Upto(<<p, AfterPart, i>>) = Upto(<<p + 1, BeforePart, 1>>)
         /\ p = NPhases => Upto(<<p, AfterPart, i>>) = Calls
<1>1. ASSUME NEW c \in Calls
      PROVE  /\ Before(c, <<p, AfterPart, i>>) <=> Before(c, <<p + 1, BeforePart, 1>>)
             /\ p = NPhases => Before(c, <<p, AfterPart, i>>)
  <2>1. /\ c[1] \in Phase /\ c[2] \in 1 .. 3 /\ c[3] \in Int
        /\ c[3] >= 1 /\ c[3] <= Width(c[1], c[2])
    BY CallFacts, PlanFacts DEF Width
  <2>2. Width(p, AfterPart) \in Int
    BY PlanFacts DEF Width
  <2>3. c[1] = p /\ c[2] = AfterPart => c[3] < i
    BY <2>1, <2>2
  <2>4. QED
    BY <2>1, <2>3, PipelineAssumption DEF Before, Phase, BeforePart, AfterPart
<1>2. QED
  BY <1>1 DEF Upto

\* No call comes before the first place.
LEMMA UptoFirst ==
  ASSUME TypeOK
  PROVE  Upto(<<1, BeforePart, 1>>) = {}
<1>1. ASSUME NEW c \in Calls
      PROVE  ~ Before(c, <<1, BeforePart, 1>>)
  <2>1. c[1] \in Phase /\ c[2] \in 1 .. 3 /\ c[3] \in Int /\ c[3] >= 1
    BY CallFacts, PlanFacts DEF Width
  <2>2. QED
    BY <2>1 DEF Before, Phase, BeforePart
<1>2. QED
  BY <1>1 DEF Upto

-----------------------------------------------------------------------------
(***************************************************************************)
(* One call                                                                *)
(***************************************************************************)

\* The calls depend on the plan only.
LEMMA CallsFixed ==
  ASSUME plan' = plan, failFast' = failFast
  PROVE  Calls' = Calls /\ StageCalls' = StageCalls /\ Fatal' = Fatal
BY DEF Calls, CallsOf, StageCalls, Fatal

\* What the properties say of the calls made changes only when a call returns.
LEMMA NoCall ==
  ASSUME IInv, UNCHANGED <<plan, failFast, ir, outcome, diagnostics>>
  PROVE  /\ Calls' = Calls /\ StageCalls' = StageCalls /\ Fatal' = Fatal
         /\ Done' = Done /\ Failed' = Failed
         /\ EveryFailureReported' /\ LatestValueThreaded'
<1>1. Calls' = Calls /\ StageCalls' = StageCalls /\ Fatal' = Fatal
  BY CallsFixed
<1>2. Done' = Done /\ Failed' = Failed
  BY <1>1 DEF Done, Failed
<1>3. EveryFailureReported'
  BY <1>1, <1>2 DEF IInv, EveryFailureReported
<1>4. LatestValueThreaded'
  BY <1>1 DEF IInv, LatestValueThreaded, Root
<1>5. QED
  BY <1>1, <1>2, <1>3, <1>4

\* The call at the present place returns o.
LEMMA OneCall ==
  ASSUME IInv, pc # "end", Here \in Calls, NEW o \in Outcomes, Record(o),
         UNCHANGED <<plan, failFast>>
  PROVE  /\ Calls' = Calls /\ StageCalls' = StageCalls /\ Fatal' = Fatal
         /\ outcome' \in [Calls -> {"none"} \cup Outcomes]
         /\ ir' \in Calls \cup {Root}
         /\ Done = Upto(Here) /\ Here \notin Done
         /\ Done' = Done \cup {Here}
         /\ Failed' = IF o = "error" THEN Failed \cup {Here} ELSE Failed
         /\ LatestValueThreaded'
<1>1. Calls' = Calls /\ StageCalls' = StageCalls /\ Fatal' = Fatal
  BY CallsFixed
<1>2. /\ outcome \in [Calls -> {"none"} \cup Outcomes] /\ ir \in Calls \cup {Root}
      /\ Outcomes = {"value", "nil", "error"}
  BY DEF IInv, TypeOK, Outcomes
<1>3. /\ outcome' = [outcome EXCEPT ![Here] = o]
      /\ ir' = IF o = "value" THEN Here ELSE ir
  BY DEF Record
<1>4. Here \in Int \X Int \X Int
  <2>1. Here = <<Here[1], Here[2], Here[3]>> /\ Here[1] \in Int /\ Here[2] \in Int
        /\ Here[3] \in Int
    BY CallFacts DEF IInv, Phase
  <2>2. QED
    BY <2>1
<1>5. Done = Upto(Here) /\ Here \notin Done
  <2>1. Done = Upto(Here)
    BY DEF IInv, PositionInv, Upto
  <2>2. QED
    BY <1>4, <2>1, BeforeFacts DEF Upto
<1>6. Done' = Done \cup {Here}
  BY <1>1, <1>2, <1>3 DEF Done
<1>7. Failed' = IF o = "error" THEN Failed \cup {Here} ELSE Failed
  <2>1. outcome[Here] # "error"
    BY <1>5 DEF Done
  <2>2. QED
    BY <1>1, <1>2, <1>3, <2>1 DEF Failed
<1>8. LatestValueThreaded'
  <2> DEFINE valued == {c \in Calls : outcome[c] = "value"}
  <2>1. valued \subseteq Upto(Here)
    BY <1>5 DEF Done
  <2>2. IF valued = {} THEN ir = Root ELSE ir \in valued /\ \A c \in valued \ {ir} : Before(c, ir)
    BY DEF IInv, LatestValueThreaded
  <2>3. CASE o = "value"
    <3>1. {c \in Calls : outcome'[c] = "value"} = valued \cup {Here} /\ ir' = Here
      BY <1>2, <1>3, <2>3
    <3>2. \A c \in valued : Before(c, Here)
      BY <2>1 DEF Upto
    <3>3. QED
      BY <1>1, <3>1, <3>2 DEF LatestValueThreaded
  <2>4. CASE o # "value"
    <3>1. {c \in Calls : outcome'[c] = "value"} = valued /\ ir' = ir
      <4>1. Here \notin valued
        BY <1>5 DEF Done
      <4>2. QED
        BY <1>2, <1>3, <2>4, <4>1
    <3>2. QED
      BY <1>1, <2>2, <3>1 DEF LatestValueThreaded, Root
  <2>5. QED
    BY <2>3, <2>4
<1>9. QED
  BY <1>1, <1>2, <1>3, <1>5, <1>6, <1>7, <1>8

-----------------------------------------------------------------------------
(***************************************************************************)
(* IInv is inductive                                                       *)
(***************************************************************************)

LEMMA InitIInv == Init => IInv
<1> SUFFICES ASSUME Init PROVE IInv
  OBVIOUS
<1> USE DEF Init
<1>1. \A c \in Calls : outcome[c] = "none"
  OBVIOUS
<1>2. Done = {} /\ Failed = {}
  BY <1>1 DEF Done, Failed
<1>3. TypeOK
  <2>1. phase \in Phase
    BY PipelineAssumption DEF Phase
  <2>2. diagnostics \in Seq(StageCalls)
    BY EmptySeq
  <2>3. outcome \in [Calls -> {"none"} \cup Outcomes]
    OBVIOUS
  <2>4. pos \in Nat \ {0}
    OBVIOUS
  <2>5. failFast \in BOOLEAN /\ cancelled \in BOOLEAN
    BY Zenon
  <2>6. plan \in Plans /\ pc = "before" /\ result = "running" /\ ir = Root
    BY Zenon
  <2> HIDE DEF Init
  <2>7. QED
    BY <2>1, <2>2, <2>3, <2>4, <2>5, <2>6 DEF TypeOK
<1>4. PositionInv
  <2>1. Here = <<1, BeforePart, 1>>
    BY DEF Here, Part
  <2>2. QED
    BY <1>2, <1>3, <2>1, UptoFirst DEF PositionInv, Upto
<1>5. OrderedInv
  BY DEF OrderedInv, Phase
<1>6. ResultIsExplained
  BY DEF ResultIsExplained
<1>7. EveryFailureReported
  BY <1>2 DEF EveryFailureReported
<1>8. LatestValueThreaded
  BY <1>1 DEF LatestValueThreaded
<1>9. QED
  BY <1>3, <1>4, <1>5, <1>6, <1>7, <1>8 DEF IInv

\* runHooks stands at a call exactly if the hook has a handler.
LEMMA HookIsCall ==
  ASSUME TypeOK, pc \in {"before", "after"}, pos <= Len(HookList)
  PROVE  Here \in Calls <=> HookList[pos] \notin NoHandler
<1>1. phase \in Phase /\ pos \in Nat \ {0}
  BY DEF TypeOK
<1>2. CASE pc = "before"
  <2>1. Here = <<phase, BeforePart, pos>> /\ HookList = plan[phase].before
    BY <1>2 DEF Here, Part, HookList
  <2>2. pos \in DOMAIN plan[phase].before
    BY <1>1, <2>1, PlanFacts
  <2>3. QED
    BY <1>1, <2>1, <2>2, CallFacts
<1>3. CASE pc = "after"
  <2>1. Here = <<phase, AfterPart, pos>> /\ HookList = plan[phase].after
    BY <1>3 DEF Here, Part, HookList
  <2>2. pos \in DOMAIN plan[phase].after
    BY <1>1, <2>1, PlanFacts
  <2>3. QED
    BY <1>1, <2>1, <2>2, CallFacts
<1>4. QED
  BY <1>2, <1>3

LEMMA RunHookIInv ==
  ASSUME IInv, NEW o \in Outcomes, RunHook(o)
  PROVE  IInv'
<1>1. /\ pc \in {"before", "after"} /\ pos <= Len(HookList)
      /\ HookList[pos] \notin NoHandler /\ Record(o)
      /\ UNCHANGED <<plan, failFast, cancelled, phase, diagnostics>>
  BY DEF RunHook
<1>2. /\ TypeOK /\ phase \in Phase /\ pos \in Nat \ {0} /\ result = "running"
      /\ diagnostics \in Seq(StageCalls)
  BY <1>1 DEF IInv, TypeOK
<1>3. Here = <<phase, Part, pos>> /\ Part \in {BeforePart, AfterPart} /\ Part \in 1 .. 3
  BY <1>1 DEF Here, Part, BeforePart, AfterPart
<1>4. Here \in Calls /\ Here \notin StageCalls /\ Here \in Fatal
  <2>1. Here \in Calls
    BY <1>1, <1>2, HookIsCall
  <2>2. Here[2] # StagePart
    BY <1>3 DEF BeforePart, StagePart, AfterPart
  <2>3. QED
    BY <2>1, <2>2 DEF StageCalls, Fatal
<1>5. /\ Calls' = Calls /\ StageCalls' = StageCalls /\ Fatal' = Fatal
      /\ outcome' \in [Calls -> {"none"} \cup Outcomes]
      /\ ir' \in Calls \cup {Root}
      /\ Done = Upto(Here) /\ Here \notin Done
      /\ Done' = Done \cup {Here}
      /\ Failed' = IF o = "error" THEN Failed \cup {Here} ELSE Failed
      /\ LatestValueThreaded'
  BY <1>1, <1>4, OneCall
<1>6. Failed \cap Fatal = {}
  BY <1>1 DEF IInv, PositionInv
<1>7. EveryFailureReported'
  BY <1>1, <1>4, <1>5 DEF IInv, EveryFailureReported
<1>8. CASE o = "error" /\ pc' = "end" /\ result' = "hook" /\ UNCHANGED pos
  <2>1. TypeOK'
    BY <1>1, <1>2, <1>5, <1>8 DEF TypeOK, Root
  <2>2. PositionInv' /\ OrderedInv'
    BY <1>1, <1>8 DEF IInv, PositionInv, OrderedInv
  <2>3. ResultIsExplained'
    <3>1. Here \in Failed' \cap Fatal' /\ Here \notin StageCalls'
          /\ Failed' \cap Fatal' = {Here}
      BY <1>4, <1>5, <1>6, <1>8
    <3>2. Done' = {b \in Calls' : Before(b, Here)} \cup {Here}
      BY <1>5 DEF Upto
    <3>3. QED
      BY <1>8, <3>1, <3>2 DEF ResultIsExplained
  <2>4. QED
    BY <1>5, <1>7, <2>1, <2>2, <2>3 DEF IInv
<1>9. CASE o # "error" /\ pos' = pos + 1 /\ UNCHANGED <<pc, result>>
  <2>1. TypeOK'
    BY <1>1, <1>2, <1>5, <1>9 DEF TypeOK, Root
  <2>2. Here' = <<phase, Part, pos + 1>>
    BY <1>1, <1>9 DEF Here, Part
  <2>3. PositionInv'
    <3>1. Done' = Upto(<<phase, Part, pos + 1>>)
      BY <1>2, <1>3, <1>4, <1>5, UptoNextIndex
    <3>2. QED
      BY <1>5, <1>6, <1>9, <2>2, <3>1 DEF PositionInv, Upto
  <2>4. OrderedInv' /\ ResultIsExplained'
    BY <1>1, <1>2, <1>9 DEF IInv, OrderedInv, ResultIsExplained
  <2>5. QED
    BY <1>5, <1>7, <2>1, <2>3, <2>4 DEF IInv
<1>10. QED
  BY <1>8, <1>9 DEF RunHook, Return

LEMMA SkipHookIInv ==
  ASSUME IInv, SkipHook
  PROVE  IInv'
<1>1. /\ pc \in {"before", "after"} /\ pos <= Len(HookList)
      /\ HookList[pos] \in NoHandler /\ pos' = pos + 1
      /\ UNCHANGED <<plan, failFast, cancelled, phase, pc, ir, outcome, diagnostics, result>>
  BY DEF SkipHook
<1>2. /\ TypeOK /\ phase \in Phase /\ pos \in Nat \ {0} /\ result = "running"
  BY <1>1 DEF IInv, TypeOK
<1>3. /\ Calls' = Calls /\ StageCalls' = StageCalls /\ Fatal' = Fatal
      /\ Done' = Done /\ Failed' = Failed
      /\ EveryFailureReported' /\ LatestValueThreaded'
  BY <1>1, NoCall
<1>4. TypeOK'
  BY <1>1, <1>2, <1>3 DEF TypeOK, Root
<1>5. PositionInv'
  <2>1. Here = <<phase, Part, pos>> /\ Here' = <<phase, Part, pos + 1>> /\ Part \in 1 .. 3
    BY <1>1 DEF Here, Part, BeforePart, AfterPart
  <2>2. Here \notin Calls
    BY <1>1, <1>2, HookIsCall
  <2>3. Done = Upto(Here) /\ Failed \cap Fatal = {}
    BY <1>1 DEF IInv, PositionInv, Upto
  <2>4. Done' = Upto(<<phase, Part, pos + 1>>)
    BY <1>2, <1>3, <2>1, <2>2, <2>3, UptoNextIndex
  <2>5. QED
    BY <1>3, <2>1, <2>3, <2>4 DEF PositionInv, Upto
<1>6. OrderedInv' /\ ResultIsExplained'
  BY <1>1, <1>2 DEF IInv, OrderedInv, ResultIsExplained
<1>7. QED
  BY <1>3, <1>4, <1>5, <1>6 DEF IInv

LEMMA OrderStagesIInv ==
  ASSUME IInv, OrderStages
  PROVE  IInv'
<1>1. /\ pc = "before" /\ pos > Len(plan[phase].before)
      /\ UNCHANGED <<plan, failFast, cancelled, phase, ir, outcome, diagnostics>>
  BY DEF OrderStages
<1>2. TypeOK /\ phase \in Phase /\ pos \in Nat \ {0} /\ result = "running"
  BY <1>1 DEF IInv, TypeOK
<1>3. /\ Calls' = Calls /\ StageCalls' = StageCalls /\ Fatal' = Fatal
      /\ Done' = Done /\ Failed' = Failed
      /\ EveryFailureReported' /\ LatestValueThreaded'
  BY <1>1, NoCall
<1>4. Done = Upto(<<phase, BeforePart, pos>>) /\ Failed \cap Fatal = {}
  BY <1>1 DEF IInv, PositionInv, Upto, Here, Part
<1>5. CASE plan[phase].ordered /\ pc' = "stages" /\ pos' = 1 /\ UNCHANGED result
  <2>1. TypeOK'
    BY <1>1, <1>2, <1>3, <1>5 DEF TypeOK, Root
  <2>2. PositionInv'
    <3>1. Upto(<<phase, BeforePart, pos>>) = Upto(<<phase, StagePart, 1>>)
      <4>1. BeforePart \in 1 .. 2 /\ BeforePart + 1 = StagePart
        BY DEF BeforePart, StagePart
      <4>2. pos > Width(phase, BeforePart)
        BY <1>1 DEF Width
      <4>3. QED
        BY <1>2, <4>1, <4>2, UptoNextPart
    <3>2. Here' = <<phase, StagePart, 1>>
      BY <1>1, <1>5 DEF Here, Part
    <3>3. QED
      BY <1>3, <1>4, <1>5, <3>1, <3>2 DEF PositionInv, Upto
  <2>3. OrderedInv' /\ ResultIsExplained'
    BY <1>1, <1>2, <1>5 DEF IInv, OrderedInv, ResultIsExplained
  <2>4. QED
    BY <1>3, <2>1, <2>2, <2>3 DEF IInv
<1>6. CASE ~ plan[phase].ordered /\ pc' = "end" /\ result' = "order" /\ UNCHANGED pos
  <2>1. TypeOK'
    BY <1>1, <1>2, <1>3, <1>6 DEF TypeOK, Root
  <2>2. PositionInv' /\ OrderedInv'
    BY <1>1, <1>6 DEF IInv, PositionInv, OrderedInv
  <2>3. \A c \in Done : c[1] <= phase
    <3> SUFFICES ASSUME NEW c \in Done PROVE c[1] <= phase
      OBVIOUS
    <3>1. c \in Calls /\ c[1] \in Phase /\ Before(c, <<phase, BeforePart, pos>>)
      BY <1>2, <1>4, CallFacts DEF Upto
    <3>2. QED
      BY <1>2, <3>1 DEF Before, Phase
  <2>4. ResultIsExplained'
    BY <1>1, <1>3, <1>6, <2>3 DEF ResultIsExplained
  <2>5. QED
    BY <1>3, <2>1, <2>2, <2>4 DEF IInv
<1>7. QED
  BY <1>5, <1>6 DEF OrderStages, Return

LEMMA StartStageIInv ==
  ASSUME IInv, StartStage
  PROVE  IInv'
<1>1. /\ pc = "stages" /\ pos <= Len(plan[phase].stages)
      /\ UNCHANGED <<plan, failFast, cancelled, phase, pos, ir, outcome, diagnostics>>
  BY DEF StartStage
<1>2. TypeOK /\ phase \in Phase /\ pos \in Nat \ {0} /\ result = "running"
  BY <1>1 DEF IInv, TypeOK
<1>3. /\ Calls' = Calls /\ StageCalls' = StageCalls /\ Fatal' = Fatal
      /\ Done' = Done /\ Failed' = Failed
      /\ EveryFailureReported' /\ LatestValueThreaded'
  BY <1>1, NoCall
<1>4. CASE ~ cancelled /\ pc' = "stage" /\ UNCHANGED result
  <2>1. TypeOK'
    BY <1>1, <1>2, <1>3, <1>4 DEF TypeOK, Root
  <2>2. Here' = Here
    BY <1>1, <1>4 DEF Here, Part
  <2>3. PositionInv'
    BY <1>1, <1>3, <1>4, <2>2 DEF IInv, PositionInv
  <2>4. OrderedInv' /\ ResultIsExplained'
    BY <1>1, <1>2, <1>4 DEF IInv, OrderedInv, ResultIsExplained
  <2>5. QED
    BY <1>3, <2>1, <2>3, <2>4 DEF IInv
<1>5. CASE cancelled /\ pc' = "end" /\ result' = "cancelled"
  <2>1. TypeOK'
    BY <1>1, <1>2, <1>3, <1>5 DEF TypeOK, Root
  <2>2. PositionInv' /\ OrderedInv'
    BY <1>1, <1>5 DEF IInv, PositionInv, OrderedInv
  <2>3. Done # Calls
    <3>1. <<phase, StagePart, pos>> \in Calls
      <4>1. pos \in DOMAIN plan[phase].stages
        BY <1>1, <1>2, PlanFacts
      <4>2. QED
        BY <1>2, <4>1, CallFacts
    <3>2. Done = Upto(<<phase, StagePart, pos>>)
      BY <1>1 DEF IInv, PositionInv, Upto, Here, Part
    <3>3. ~ Before(<<phase, StagePart, pos>>, <<phase, StagePart, pos>>)
      BY <1>2 DEF Before, Phase, StagePart
    <3>4. QED
      BY <3>1, <3>2, <3>3 DEF Upto
  <2>4. ResultIsExplained'
    BY <1>1, <1>3, <1>5, <2>3 DEF ResultIsExplained
  <2>5. QED
    BY <1>3, <2>1, <2>2, <2>4 DEF IInv
<1>6. QED
  BY <1>4, <1>5 DEF StartStage, Return

\* A failed stage is appended behind the failures reported so far.
LEMMA ReportFailure ==
  ASSUME IInv, pc # "end", Here \in StageCalls, NEW o \in Outcomes, Record(o),
         UNCHANGED <<plan, failFast>>,
         diagnostics' = IF o = "error" THEN Append(diagnostics, Here) ELSE diagnostics
  PROVE  diagnostics' \in Seq(StageCalls) /\ EveryFailureReported'
<1>1. /\ diagnostics \in Seq(StageCalls) /\ EveryFailureReported /\ Here \in Calls
  BY DEF IInv, TypeOK, StageCalls
<1>2. /\ StageCalls' = StageCalls /\ Done = Upto(Here)
      /\ Failed' = IF o = "error" THEN Failed \cup {Here} ELSE Failed
  BY <1>1, OneCall
<1>3. CASE o # "error"
  BY <1>1, <1>2, <1>3 DEF EveryFailureReported
<1>4. CASE o = "error"
  <2>1. /\ diagnostics' \in Seq(StageCalls)
        /\ Len(diagnostics) \in Nat /\ DOMAIN diagnostics = 1 .. Len(diagnostics)
        /\ DOMAIN diagnostics' = 1 .. Len(diagnostics) + 1
        /\ \A i \in DOMAIN diagnostics : diagnostics'[i] = diagnostics[i]
        /\ diagnostics'[Len(diagnostics) + 1] = Here
    BY <1>1, <1>4, AppendProperties, LenProperties
  <2>2. {diagnostics'[i] : i \in DOMAIN diagnostics'} = (Failed \cap StageCalls) \cup {Here}
    <3>1. {diagnostics[i] : i \in DOMAIN diagnostics} = Failed \cap StageCalls
      BY <1>1 DEF EveryFailureReported
    <3>2. \A i \in DOMAIN diagnostics : i \in DOMAIN diagnostics'
      BY <2>1
    <3>3. Len(diagnostics) + 1 \in DOMAIN diagnostics'
      BY <2>1
    <3>4. \A i \in DOMAIN diagnostics' : i \in DOMAIN diagnostics \/ i = Len(diagnostics) + 1
      BY <2>1
    <3>5. QED
      BY <2>1, <3>1, <3>2, <3>3, <3>4
  <2>3. \A i \in DOMAIN diagnostics : Before(diagnostics[i], Here)
    BY <1>1, <1>2 DEF EveryFailureReported, Failed, Done, Upto
  <2>4. ASSUME NEW i \in DOMAIN diagnostics', NEW j \in DOMAIN diagnostics', i < j
        PROVE  Before(diagnostics'[i], diagnostics'[j])
    <3>1. i \in DOMAIN diagnostics
      BY <2>1, <2>4
    <3>2. CASE j \in DOMAIN diagnostics
      BY <1>1, <2>1, <2>4, <3>1, <3>2 DEF EveryFailureReported
    <3>3. CASE j = Len(diagnostics) + 1
      BY <2>1, <2>3, <3>1, <3>3
    <3>4. QED
      BY <2>1, <3>2, <3>3
  <2>5. {diagnostics'[i] : i \in DOMAIN diagnostics'} = Failed' \cap StageCalls'
    BY <1>2, <1>4, <2>2
  <2>6. QED
    BY <2>1, <2>4, <2>5 DEF EveryFailureReported
<1>5. QED
  BY <1>1, <1>3, <1>4

LEMMA FinishStageIInv ==
  ASSUME IInv, NEW o \in Outcomes, FinishStage(o)
  PROVE  IInv'
<1>1. /\ pc = "stage" /\ Record(o)
      /\ diagnostics' = IF o = "error" THEN Append(diagnostics, Here) ELSE diagnostics
      /\ UNCHANGED <<plan, failFast, cancelled, phase>>
  BY DEF FinishStage
<1>2. /\ TypeOK /\ phase \in Phase /\ pos \in Nat \ {0} /\ result = "running"
      /\ pos <= Len(plan[phase].stages)
  BY <1>1 DEF IInv, TypeOK
<1>3. Here = <<phase, StagePart, pos>>
  BY <1>1 DEF Here, Part
<1>4. Here \in Calls /\ Here \in StageCalls
  <2>1. pos \in DOMAIN plan[phase].stages
    BY <1>2, PlanFacts
  <2>2. <<phase, StagePart, pos>> \in Calls
    BY <1>2, <2>1, CallFacts
  <2>3. QED
    BY <1>3, <2>2 DEF StageCalls
<1>5. /\ Calls' = Calls /\ StageCalls' = StageCalls /\ Fatal' = Fatal
      /\ outcome' \in [Calls -> {"none"} \cup Outcomes]
      /\ ir' \in Calls \cup {Root}
      /\ Done = Upto(Here) /\ Here \notin Done
      /\ Done' = Done \cup {Here}
      /\ Failed' = IF o = "error" THEN Failed \cup {Here} ELSE Failed
      /\ LatestValueThreaded'
  BY <1>1, <1>4, OneCall
<1>6. Failed \cap Fatal = {}
  BY <1>1 DEF IInv, PositionInv
<1>7. diagnostics' \in Seq(StageCalls) /\ EveryFailureReported'
  BY <1>1, <1>4, ReportFailure
<1>8. Here \in Fatal <=> failFast
  BY <1>3, <1>4 DEF Fatal, StageCalls
<1>9. CASE o = "error" /\ failFast /\ pc' = "end" /\ result' = "stage" /\ UNCHANGED pos
  <2>1. TypeOK'
    BY <1>1, <1>2, <1>5, <1>7, <1>9 DEF TypeOK, Root
  <2>2. PositionInv' /\ OrderedInv'
    BY <1>1, <1>9 DEF IInv, PositionInv, OrderedInv
  <2>3. ResultIsExplained'
    <3>1. Here \in Failed' \cap Fatal' /\ Here \in StageCalls' /\ Failed' \cap Fatal' = {Here}
      BY <1>4, <1>5, <1>6, <1>8, <1>9
    <3>2. Done' = {b \in Calls' : Before(b, Here)} \cup {Here}
      BY <1>5 DEF Upto
    <3>3. QED
      BY <1>9, <3>1, <3>2 DEF ResultIsExplained
  <2>4. QED
    BY <1>5, <1>7, <2>1, <2>2, <2>3 DEF IInv
<1>10. CASE ~ (o = "error" /\ failFast) /\ pc' = "stages" /\ pos' = pos + 1 /\ UNCHANGED result
  <2>1. TypeOK'
    BY <1>1, <1>2, <1>5, <1>7, <1>10 DEF TypeOK, Root
  <2>2. PositionInv'
    <3>1. Upto(<<phase, StagePart, pos + 1>>) = Upto(Here) \cup ({Here} \cap Calls)
      <4>1. StagePart \in 1 .. 3
        BY DEF StagePart
      <4>2. QED
        BY <1>2, <1>3, <4>1, UptoNextIndex
    <3>2. Here' = <<phase, StagePart, pos + 1>>
      BY <1>1, <1>10 DEF Here, Part
    <3>3. Failed' \cap Fatal' = {}
      BY <1>5, <1>6, <1>8, <1>10
    <3>4. QED
      BY <1>4, <1>5, <3>1, <3>2, <3>3 DEF PositionInv, Upto
  <2>3. OrderedInv' /\ ResultIsExplained'
    BY <1>1, <1>2, <1>10 DEF IInv, OrderedInv, ResultIsExplained
  <2>4. QED
    BY <1>5, <1>7, <2>1, <2>2, <2>3 DEF IInv
<1>11. QED
  BY <1>9, <1>10 DEF FinishStage, Return

LEMMA FinishStagesIInv ==
  ASSUME IInv, FinishStages
  PROVE  IInv'
<1>1. /\ pc = "stages" /\ pos > Len(plan[phase].stages) /\ pc' = "after" /\ pos' = 1
      /\ UNCHANGED <<plan, failFast, cancelled, phase, ir, outcome, diagnostics, result>>
  BY DEF FinishStages
<1>2. TypeOK /\ phase \in Phase /\ pos \in Nat \ {0} /\ result = "running"
  BY <1>1 DEF IInv, TypeOK
<1>3. /\ Calls' = Calls /\ StageCalls' = StageCalls /\ Fatal' = Fatal
      /\ Done' = Done /\ Failed' = Failed
      /\ EveryFailureReported' /\ LatestValueThreaded'
  BY <1>1, NoCall
<1>4. TypeOK'
  BY <1>1, <1>2, <1>3 DEF TypeOK, Root
<1>5. PositionInv'
  <2>1. StagePart \in 1 .. 2 /\ StagePart + 1 = AfterPart
    BY DEF StagePart, AfterPart
  <2>2. pos > Width(phase, StagePart)
    BY <1>1 DEF Width, BeforePart, StagePart
  <2>3. Upto(<<phase, StagePart, pos>>) = Upto(<<phase, AfterPart, 1>>)
    BY <1>2, <2>1, <2>2, UptoNextPart
  <2>4. Here = <<phase, StagePart, pos>> /\ Here' = <<phase, AfterPart, 1>>
    BY <1>1 DEF Here, Part
  <2>5. QED
    BY <1>1, <1>3, <2>3, <2>4 DEF IInv, PositionInv, Upto
<1>6. OrderedInv' /\ ResultIsExplained'
  BY <1>1, <1>2 DEF IInv, OrderedInv, ResultIsExplained
<1>7. QED
  BY <1>3, <1>4, <1>5, <1>6 DEF IInv

LEMMA FinishPhaseIInv ==
  ASSUME IInv, FinishPhase
  PROVE  IInv'
<1>1. /\ pc = "after" /\ pos > Len(plan[phase].after)
      /\ UNCHANGED <<plan, failFast, cancelled, ir, outcome, diagnostics>>
  BY DEF FinishPhase
<1>2. TypeOK /\ phase \in Phase /\ pos \in Nat \ {0} /\ result = "running"
  BY <1>1 DEF IInv, TypeOK
<1>3. /\ Calls' = Calls /\ StageCalls' = StageCalls /\ Fatal' = Fatal
      /\ Done' = Done /\ Failed' = Failed
      /\ EveryFailureReported' /\ LatestValueThreaded'
  BY <1>1, NoCall
<1>4. Done = Upto(<<phase, AfterPart, pos>>) /\ Failed \cap Fatal = {}
  BY <1>1 DEF IInv, PositionInv, Upto, Here, Part
<1>5. pos > Width(phase, AfterPart)
  BY <1>1 DEF Width, BeforePart, StagePart, AfterPart
<1>6. \A p \in Phase : p <= phase => plan[p].ordered
  BY <1>1, <1>2 DEF IInv, OrderedInv, Phase
<1>7. CASE phase = NPhases /\ pc' = "end" /\ result' = "ok" /\ UNCHANGED <<phase, pos>>
  <2>1. TypeOK'
    BY <1>1, <1>2, <1>3, <1>7 DEF TypeOK, Root
  <2>2. PositionInv' /\ OrderedInv'
    BY <1>1, <1>7 DEF IInv, PositionInv, OrderedInv
  <2>3. Done = Calls
    BY <1>2, <1>4, <1>5, <1>7, UptoNextPhase
  <2>4. \A p \in Phase : plan[p].ordered
    BY <1>6, <1>7 DEF Phase
  <2>5. ResultIsExplained'
    BY <1>1, <1>3, <1>4, <1>7, <2>3, <2>4 DEF ResultIsExplained
  <2>6. QED
    BY <1>3, <2>1, <2>2, <2>5 DEF IInv
<1>8. CASE phase # NPhases /\ phase' = phase + 1 /\ pc' = "before" /\ pos' = 1 /\ UNCHANGED result
  <2>1. phase' \in Phase
    BY <1>2, <1>8, PipelineAssumption DEF Phase
  <2>2. TypeOK'
    BY <1>1, <1>2, <1>3, <1>8, <2>1 DEF TypeOK, Root
  <2>3. PositionInv'
    <3>1. Upto(<<phase, AfterPart, pos>>) = Upto(<<phase + 1, BeforePart, 1>>)
      BY <1>2, <1>5, UptoNextPhase
    <3>2. Here' = <<phase + 1, BeforePart, 1>>
      BY <1>8 DEF Here, Part
    <3>3. QED
      BY <1>3, <1>4, <3>1, <3>2 DEF PositionInv, Upto
  <2>4. OrderedInv'
    BY <1>1, <1>2, <1>6, <1>8 DEF OrderedInv, Phase
  <2>5. ResultIsExplained'
    BY <1>2, <1>8 DEF ResultIsExplained
  <2>6. QED
    BY <1>3, <2>2, <2>3, <2>4, <2>5 DEF IInv
<1>9. QED
  BY <1>7, <1>8 DEF FinishPhase, Return

LEMMA CancelIInv ==
  ASSUME IInv, Cancel
  PROVE  IInv'
<1>1. /\ cancelled' = TRUE
      /\ UNCHANGED <<plan, failFast, phase, pc, pos, ir, outcome, diagnostics, result>>
  BY DEF Cancel
<1>2. /\ Calls' = Calls /\ StageCalls' = StageCalls /\ Fatal' = Fatal
      /\ Done' = Done /\ Failed' = Failed
      /\ EveryFailureReported' /\ LatestValueThreaded'
  BY <1>1, NoCall
<1>3. TypeOK'
  BY <1>1, <1>2 DEF IInv, TypeOK, Root
<1>4. PositionInv'
  BY <1>1, <1>2 DEF IInv, PositionInv, Here, Part
<1>5. OrderedInv'
  BY <1>1 DEF IInv, OrderedInv
<1>6. ResultIsExplained'
  BY <1>1, <1>2 DEF IInv, ResultIsExplained
<1>7. QED
  BY <1>2, <1>3, <1>4, <1>5, <1>6 DEF IInv

LEMMA StutterIInv ==
  ASSUME IInv, UNCHANGED vars
  PROVE  IInv'
<1>1. UNCHANGED <<plan, failFast, cancelled, phase, pc, pos, ir, outcome, diagnostics, result>>
  BY DEF vars
<1>2. /\ Calls' = Calls /\ StageCalls' = StageCalls /\ Fatal' = Fatal
      /\ Done' = Done /\ Failed' = Failed
      /\ EveryFailureReported' /\ LatestValueThreaded'
  BY <1>1, NoCall
<1>3. TypeOK'
  BY <1>1, <1>2 DEF IInv, TypeOK, Root
<1>4. PositionInv'
  BY <1>1, <1>2 DEF IInv, PositionInv, Here, Part
<1>5. OrderedInv'
  BY <1>1 DEF IInv, OrderedInv
<1>6. ResultIsExplained'
  BY <1>1, <1>2 DEF IInv, ResultIsExplained
<1>7. QED
  BY <1>2, <1>3, <1>4, <1>5, <1>6 DEF IInv

\* The inductive invariant holds in every state of a run.
THEOREM Invariance == Spec => []IInv
<1>1. IInv /\ [Next]_vars => IInv'
  <2> SUFFICES ASSUME IInv, [Next]_vars PROVE IInv'
    OBVIOUS
  <2>1. ASSUME NEW o \in Outcomes, RunHook(o) PROVE IInv'
    BY <2>1, RunHookIInv
  <2>2. ASSUME NEW o \in Outcomes, FinishStage(o) PROVE IInv'
    BY <2>2, FinishStageIInv
  <2>3. CASE SkipHook
    BY <2>3, SkipHookIInv
  <2>4. CASE OrderStages
    BY <2>4, OrderStagesIInv
  <2>5. CASE StartStage
    BY <2>5, StartStageIInv
  <2>6. CASE FinishStages
    BY <2>6, FinishStagesIInv
  <2>7. CASE FinishPhase
    BY <2>7, FinishPhaseIInv
  <2>8. CASE Cancel
    BY <2>8, CancelIInv
  <2>9. CASE UNCHANGED vars
    BY <2>9, StutterIInv
  <2>10. QED
    BY <2>1, <2>2, <2>3, <2>4, <2>5, <2>6, <2>7, <2>8, <2>9 DEF Next, Advance
<1>2. QED
  BY <1>1, InitIInv, PTL DEF Spec

-----------------------------------------------------------------------------
(***************************************************************************)
(* What callers of Execute rely on                                         *)
(***************************************************************************)

\* The orchestrator keeps its types.
THEOREM TypeCorrect == Spec => []TypeOK
<1>1. IInv => TypeOK
  BY DEF IInv
<1>2. QED
  BY <1>1, Invariance, PTL

\* Wherever the orchestrator stands, it has made exactly the calls before that
\* place, and none of them failed fatally.
THEOREM CallsAreMadeInOrder == Spec => []PositionInv
<1>1. IInv => PositionInv
  BY DEF IInv
<1>2. QED
  BY <1>1, Invariance, PTL

\* Success, and every kind of error, has the cause it names.
THEOREM ResultsAreExplained == Spec => []ResultIsExplained
<1>1. IInv => ResultIsExplained
  BY DEF IInv
<1>2. QED
  BY <1>1, Invariance, PTL

\* The report holds one diagnostic for each stage that failed, in order.
THEOREM FailuresAreReported == Spec => []EveryFailureReported
<1>1. IInv => EveryFailureReported
  BY DEF IInv
<1>2. QED
  BY <1>1, Invariance, PTL

\* The IR is the value of the last call that returned one.
THEOREM IRIsTheLatestValue == Spec => []LatestValueThreaded
<1>1. IInv => LatestValueThreaded
  BY DEF IInv
<1>2. QED
  BY <1>1, Invariance, PTL

-----------------------------------------------------------------------------
(***************************************************************************)
(* The pipeline implements the schedule                                    *)
(***************************************************************************)

LEMMA InitSchedule == Init => S!Init
<1> SUFFICES ASSUME Init PROVE S!Init
  OBVIOUS
<1>1. IInv
  BY InitIInv
<1>2. Calls \subseteq Nat \X Nat \X Nat
  <2> SUFFICES ASSUME NEW c \in Calls PROVE c \in Nat \X Nat \X Nat
    OBVIOUS
  <2>1. c = <<c[1], c[2], c[3]>> /\ c[1] \in Phase /\ c[2] \in 1 .. 3 /\ c[3] \in Nat
    BY <1>1, CallFacts DEF IInv
  <2>2. c[1] \in Nat /\ c[2] \in Nat
    BY <2>1 DEF Phase
  <2>3. QED
    BY <2>1, <2>2
<1>3. Fatal \subseteq Calls
  BY DEF Fatal
<1>4. Done = {} /\ Failed = {}
  BY DEF Init, Done, Failed
<1>5. ir = Root /\ Status = "running"
  BY DEF Init, Status
<1>6. QED
  BY <1>2, <1>3, <1>4, <1>5 DEF S!Init, S!Call

\* A call that returns is a Return or a Fail of the schedule.
LEMMA CallIsScheduled ==
  ASSUME IInv, pc # "end", Here \in Calls, NEW o \in Outcomes, Record(o),
         UNCHANGED <<plan, failFast>>, result = "running",
         Status' = IF o = "error" /\ Here \in Fatal THEN "failed" ELSE "running"
  PROVE  S!Next
<1>1. /\ Calls' = Calls /\ Fatal' = Fatal
      /\ Done = Upto(Here) /\ Here \notin Done
      /\ Done' = Done \cup {Here}
      /\ Failed' = IF o = "error" THEN Failed \cup {Here} ELSE Failed
  BY OneCall
<1>2. Status = "running"
  BY DEF Status
<1>3. S!Due(Here)
  BY <1>1, <1>2 DEF S!Due, S!Before, Upto, Before
<1>4. CASE o = "error"
  <2>1. ir' = ir
    BY <1>4 DEF Record
  <2>2. S!Fail(Here)
    BY <1>1, <1>2, <1>3, <1>4, <2>1 DEF S!Fail
  <2>3. QED
    BY <2>2 DEF S!Next
<1>5. CASE o # "error"
  <2>1. ir' \in {ir, Here}
    BY DEF Record
  <2>2. S!Return(Here)
    BY <1>1, <1>2, <1>3, <1>5, <2>1 DEF S!Return
  <2>3. QED
    BY <2>2 DEF S!Next
<1>6. QED
  BY <1>4, <1>5

\* A step that makes no call and does not end the run is a stutter.
LEMMA QuietStep ==
  ASSUME IInv, UNCHANGED <<plan, failFast, ir, outcome, diagnostics>>
  PROVE  /\ Status' = Status => UNCHANGED S!vars
         /\ Status = "running" /\ Status' = "failed" => S!Abandon
         /\ Status = "running" /\ Status' = "ok" /\ Done = Calls => S!Succeed
<1>1. /\ Calls' = Calls /\ Fatal' = Fatal /\ Done' = Done /\ Failed' = Failed /\ ir' = ir
  BY NoCall
<1>2. QED
  BY <1>1 DEF S!vars, S!Abandon, S!Succeed

LEMMA StepIsScheduled == IInv /\ [Next]_vars => [S!Next]_S!vars
<1> SUFFICES ASSUME IInv, [Next]_vars PROVE [S!Next]_S!vars
  OBVIOUS
<1> USE DEF IInv
<1>1. ASSUME NEW o \in Outcomes, RunHook(o) PROVE S!Next
  <2>1. /\ pc \in {"before", "after"} /\ pos <= Len(HookList)
        /\ HookList[pos] \notin NoHandler /\ Record(o) /\ UNCHANGED <<plan, failFast>>
    BY <1>1 DEF RunHook
  <2>2. Here \in Calls /\ result = "running"
    BY <2>1, HookIsCall DEF TypeOK
  <2>3. Here \in Fatal
    BY <2>1, <2>2 DEF Fatal, Here, Part, BeforePart, StagePart, AfterPart
  <2>4. Status' = IF o = "error" /\ Here \in Fatal THEN "failed" ELSE "running"
    BY <1>1, <2>2, <2>3 DEF RunHook, Return, Status
  <2>5. QED
    BY <2>1, <2>2, <2>4, CallIsScheduled
<1>2. ASSUME NEW o \in Outcomes, FinishStage(o) PROVE S!Next
  <2>1. pc = "stage" /\ Record(o) /\ UNCHANGED <<plan, failFast>>
    BY <1>2 DEF FinishStage
  <2>2. result = "running" /\ phase \in Phase /\ pos \in Nat \ {0} /\ pos <= Len(plan[phase].stages)
    BY <2>1 DEF TypeOK
  <2>3. Here = <<phase, StagePart, pos>>
    BY <2>1 DEF Here, Part
  <2>4. pos \in DOMAIN plan[phase].stages
    BY <2>2, PlanFacts
  <2>5. Here \in Calls
    BY <2>2, <2>3, <2>4, CallFacts
  <2>6. Here \in Fatal <=> failFast
    BY <2>3, <2>5 DEF Fatal
  <2>7. Status' = IF o = "error" /\ Here \in Fatal THEN "failed" ELSE "running"
    BY <1>2, <2>2, <2>6 DEF FinishStage, Return, Status
  <2>8. QED
    BY <2>1, <2>2, <2>5, <2>7, CallIsScheduled
<1>3. CASE SkipHook \/ FinishStages \/ Cancel \/ UNCHANGED vars
  <2>1. UNCHANGED <<plan, failFast, ir, outcome, diagnostics, result>>
    BY <1>3 DEF SkipHook, FinishStages, Cancel, vars
  <2>2. Status' = Status
    BY <2>1 DEF Status
  <2>3. QED
    BY <2>1, <2>2, QuietStep
<1>4. CASE OrderStages \/ StartStage
  <2>1. UNCHANGED <<plan, failFast, ir, outcome, diagnostics>> /\ result = "running"
    BY <1>4 DEF OrderStages, StartStage, TypeOK
  <2>2. Status = "running" /\ Status' \in {"running", "failed"}
    BY <1>4, <2>1 DEF OrderStages, StartStage, Return, Status
  <2>3. QED
    BY <2>1, <2>2, QuietStep DEF S!Next
<1>5. CASE FinishPhase
  <2>1. UNCHANGED <<plan, failFast, ir, outcome, diagnostics>> /\ result = "running"
    BY <1>5 DEF FinishPhase, TypeOK
  <2>2. CASE result' = "ok"
    <3>1. Done' = Calls' /\ Calls' = Calls /\ Done' = Done
      <4>1. ResultIsExplained'
        BY <1>5, FinishPhaseIInv
      <4>2. QED
        BY <2>1, <2>2, <4>1, NoCall DEF ResultIsExplained
    <3>2. Status = "running" /\ Status' = "ok"
      BY <2>1, <2>2 DEF Status
    <3>3. QED
      BY <2>1, <3>1, <3>2, QuietStep DEF S!Next
  <2>3. CASE result' = result
    <3>1. Status' = Status
      BY <2>3 DEF Status
    <3>2. QED
      BY <2>1, <3>1, QuietStep
  <2>4. QED
    BY <1>5, <2>2, <2>3 DEF FinishPhase, Return
<1>6. QED
  BY <1>1, <1>2, <1>3, <1>4, <1>5 DEF Next, Advance

\* Execute makes a fixed list of calls in order, each at most once, stops at
\* the first fatal failure, and succeeds only when all of them were made.
THEOREM PipelineImplementsSchedule == Spec => ImplementsSchedule
<1>1. QED
  BY InitSchedule, StepIsScheduled, Invariance, PTL DEF Spec, ImplementsSchedule, S!Spec

-----------------------------------------------------------------------------
(***************************************************************************)
(* What the liveness of a run rests on                                     *)
(***************************************************************************)

(* A run that is cancelled while a stage is still to be started cannot     *)
(* succeed: the stage stays to be started, whatever hooks and stages       *)
(* return, until a check of ctx ends the run (executePhase).               *)
THEOREM CancelledRunsDoNotSucceed == Spec => CancellationSticks
<1>1. IInv /\ IInv' /\ [Next]_vars =>
        [CancelledEarly => CancelledEarly' \/ result' \notin {"running", "ok"}]_vars
  <2> SUFFICES ASSUME IInv, IInv', Next, CancelledEarly, result' \in {"running", "ok"}
               PROVE  CancelledEarly'
    OBVIOUS
  <2>1. PICK c \in StageCalls \ Done : ~ (pc = "stage" /\ c = Here)
    BY DEF CancelledEarly
  <2>2. cancelled' /\ plan' = plan /\ Calls' = Calls
    <3>1. cancelled' /\ plan' = plan
      BY DEF CancelledEarly, Next, Advance, RunHook, FinishStage, SkipHook, OrderStages,
             StartStage, FinishStages, FinishPhase, Cancel
    <3>2. Calls' = Calls BY <3>1 DEF Calls, CallsOf
    <3> QED BY <3>1, <3>2
  <2>3. c \in StageCalls' \ Done'
    <3>1. outcome' = outcome \/ (c # Here /\ \E o : outcome' = [outcome EXCEPT ![Here] = o])
      <4>1. pc \in {"before", "after"} => Here[2] # StagePart
        BY DEF Here, Part, BeforePart, AfterPart, StagePart
      <4>2. pc \in {"before", "after"} => c # Here
        BY <2>1, <4>1 DEF StageCalls
      <4> QED
        BY <2>1, <4>2 DEF Next, Advance, RunHook, FinishStage, SkipHook, OrderStages,
               StartStage, FinishStages, FinishPhase, Cancel, Record
    <3>2. c \in Calls /\ c[2] = StagePart /\ outcome[c] = "none"
      BY <2>1 DEF StageCalls, Done
    <3>3. outcome'[c] = "none"
      BY <3>1, <3>2 DEF IInv, TypeOK
    <3> QED BY <2>2, <3>2, <3>3 DEF StageCalls, Done
  <2>4. pc' # "end"
    <3>1. Done' # Calls'
      BY <2>3 DEF StageCalls
    <3> QED BY <3>1 DEF IInv, TypeOK, ResultIsExplained
  <2>5. pc' # "stage" \/ UNCHANGED <<pc, phase, pos>>
    BY <2>4 DEF CancelledEarly, Next, Advance, RunHook, FinishStage, SkipHook, OrderStages,
           StartStage, FinishStages, FinishPhase, Cancel, Return
  <2>6. ~ (pc' = "stage" /\ c = Here')
    BY <2>1, <2>5 DEF Here, Part
  <2> QED BY <2>2, <2>3, <2>4, <2>6 DEF CancelledEarly
<1> QED BY <1>1, Invariance, PTL DEF Spec, CancellationSticks

\* How far a run is from its end: the phases it is not through with, the parts of
\* this one that are left, and the calls of this part, which for a stage are two
\* steps each.
PhasesLeft == IF pc = "end" THEN 0 ELSE NPhases + 1 - phase

PartsLeft == AfterPart - Part

CallsLeft ==
  IF pos > Width(phase, Part)
    THEN 0
    ELSE 2 * (Width(phase, Part) + 1 - pos) - (IF pc = "stage" THEN 1 ELSE 0)

Distance == <<<<PhasesLeft, PartsLeft>>, CallsLeft>>

Distances == (Nat \X Nat) \X Nat

Less == OpToRel(<, Nat)

Closer == LexPairOrdering(LexPairOrdering(Less, Less, Nat, Nat), Less, Nat \X Nat, Nat)

\* There is no endless way down.
LEMMA CloserIsWellFounded == IsWellFoundedOn(Closer, Distances)
<1>1. IsWellFoundedOn(OpToRel(<, Nat), Nat)
  BY NatLessThanWellFounded
<1>2. IsWellFoundedOn(Less, Nat)
  BY <1>1, Zenon DEF Less
<1>3. IsWellFoundedOn(LexPairOrdering(Less, Less, Nat, Nat), Nat \X Nat)
  BY <1>2, WFLexPairOrdering, Zenon
<1> QED BY <1>2, <1>3, WFLexPairOrdering, Zenon DEF Closer, Distances

LEMMA CloserIf ==
  ASSUME NEW a \in Nat, NEW b \in Nat, NEW c \in Nat, NEW x \in Nat, NEW y \in Nat, NEW z \in Nat,
         \/ x < a
         \/ x = a /\ y < b
         \/ x = a /\ y = b /\ z < c
  PROVE  <<<<<<x, y>>, z>>, <<<<a, b>>, c>>>> \in Closer
<1>1. \A i, j \in Nat : i < j => <<i, j>> \in Less
  BY Zenon DEF Less, OpToRel
<1>2. x < a \/ (x = a /\ y < b) => <<<<x, y>>, <<a, b>>>> \in LexPairOrdering(Less, Less, Nat, Nat)
  BY <1>1 DEF LexPairOrdering
<1> QED BY <1>1, <1>2 DEF Closer, LexPairOrdering

LEMMA DistanceType == IInv => Distance \in Distances
<1> SUFFICES ASSUME IInv PROVE Distance \in Distances
  OBVIOUS
<1>1. /\ NPhases \in Nat /\ phase \in 1 .. NPhases /\ plan[phase] \in PhasePlan /\ pos \in Nat
      /\ Part \in {1, 2, 3} /\ AfterPart = 3
  BY PipelineAssumption DEF IInv, TypeOK, Phase, Part, BeforePart, StagePart, AfterPart
<1>2. Width(phase, Part) \in Nat
  BY <1>1 DEF Width, PhasePlan
<1>3. PhasesLeft \in Nat BY <1>1 DEF PhasesLeft
<1>4. PartsLeft \in Nat BY <1>1 DEF PartsLeft
<1>5. CallsLeft \in Nat
  <2>1. pos > Width(phase, Part) \/ 2 * (Width(phase, Part) + 1 - pos) \in Nat \ {0, 1}
    BY <1>1, <1>2
  <2> QED BY <2>1 DEF CallsLeft
<1> QED BY <1>3, <1>4, <1>5 DEF Distance, Distances

LEMMA StepComesCloser ==
  IInv /\ IInv' /\ Distance \in Distances /\ (Distance \in Distances)' =>
    /\ Advance => <<Distance', Distance>> \in Closer
    /\ Cancel => Distance' = Distance
<1> SUFFICES ASSUME IInv, IInv', Distance \in Distances, (Distance \in Distances)'
             PROVE  /\ Advance => <<Distance', Distance>> \in Closer
                    /\ Cancel => Distance' = Distance
  OBVIOUS
<1>1. ASSUME Cancel PROVE Distance' = Distance
  BY <1>1 DEF Cancel, Distance, PhasesLeft, PartsLeft, CallsLeft, Part, Width
<1>2. ASSUME Advance PROVE <<Distance', Distance>> \in Closer
  <2>2. /\ PhasesLeft \in Nat /\ PartsLeft \in Nat /\ CallsLeft \in Nat
        /\ PhasesLeft' \in Nat /\ PartsLeft' \in Nat /\ CallsLeft' \in Nat
    BY DEF Distance, Distances
  <2> SUFFICES \/ PhasesLeft' < PhasesLeft
               \/ PhasesLeft' = PhasesLeft /\ PartsLeft' < PartsLeft
               \/ PhasesLeft' = PhasesLeft /\ PartsLeft' = PartsLeft /\ CallsLeft' < CallsLeft
    BY <2>2, CloserIf DEF Distance
  <2>3. /\ NPhases \in Nat /\ phase \in 1 .. NPhases /\ pos \in Nat /\ pos' \in Nat
        /\ plan' = plan /\ plan[phase] \in PhasePlan /\ pc # "end"
    <3>1. pc # "end" /\ plan' = plan
      BY <1>2 DEF Advance, RunHook, FinishStage, SkipHook, OrderStages, StartStage,
             FinishStages, FinishPhase
    <3> QED BY <3>1, PipelineAssumption DEF IInv, TypeOK, Phase
  <2>4. CASE pc' = "end"
    BY <2>3, <2>4 DEF PhasesLeft
  <2>5. CASE pc' # "end" /\ (SkipHook \/ \E o \in Outcomes : RunHook(o))
    <3>1. /\ pc \in {"before", "after"} /\ pc' = pc /\ phase' = phase
          /\ pos <= Len(HookList) /\ pos' = pos + 1
      BY <2>5 DEF SkipHook, RunHook, Return
    <3>2. Len(HookList) = Width(phase, Part) /\ Width(phase, Part) \in Nat
      BY <2>3, <3>1 DEF HookList, Width, Part, BeforePart, StagePart, AfterPart, PhasePlan
    <3>3. PhasesLeft' = PhasesLeft /\ PartsLeft' = PartsLeft /\ Width(phase, Part)' = Width(phase, Part)
      BY <2>3, <3>1 DEF PhasesLeft, PartsLeft, Part, Width
    <3>4. CallsLeft' < CallsLeft
      BY <2>3, <3>1, <3>2, <3>3 DEF CallsLeft
    <3> QED BY <3>3, <3>4
  <2>6. CASE pc' # "end" /\ (StartStage \/ \E o \in Outcomes : FinishStage(o))
    <3>1. /\ pc \in {"stages", "stage"} /\ pc' \in {"stages", "stage"} /\ phase' = phase
          /\ \/ pc' = "stage" /\ pc = "stages" /\ pos' = pos
             \/ pc' = "stages" /\ pc = "stage" /\ pos' = pos + 1
      BY <2>6 DEF StartStage, FinishStage, Return
    <3>2. /\ pos <= Len(plan[phase].stages) /\ Len(plan[phase].stages) \in Nat
          /\ Width(phase, Part) = Len(plan[phase].stages)
      BY <2>3, <2>6, <3>1
         DEF IInv, TypeOK, StartStage, FinishStage, Width, Part, BeforePart, StagePart, PhasePlan
    <3>3. PhasesLeft' = PhasesLeft /\ PartsLeft' = PartsLeft /\ Width(phase, Part)' = Width(phase, Part)
      BY <2>3, <3>1 DEF PhasesLeft, PartsLeft, Part, Width
    <3>4. CASE pc' = "stage" /\ pc = "stages" /\ pos' = pos
      <4>1. /\ CallsLeft = 2 * (Width(phase, Part) + 1 - pos)
            /\ CallsLeft' = 2 * (Width(phase, Part) + 1 - pos) - 1
        BY <2>3, <3>2, <3>3, <3>4 DEF CallsLeft
      <4> QED BY <2>2, <3>3, <4>1
    <3>5. CASE pc' = "stages" /\ pc = "stage" /\ pos' = pos + 1
      <4>1. CallsLeft = 2 * (Width(phase, Part) + 1 - pos) - 1
        BY <2>3, <3>2, <3>5 DEF CallsLeft
      <4>2. \/ CallsLeft' = 0 /\ pos = Width(phase, Part)
            \/ CallsLeft' = 2 * (Width(phase, Part) - pos)
        <5>1. CallsLeft' = IF pos' > Width(phase, Part)'
                            THEN 0
                            ELSE 2 * (Width(phase, Part)' + 1 - pos') - 0
          BY <3>5 DEF CallsLeft
        <5>2. CallsLeft' = IF pos + 1 > Width(phase, Part)
                            THEN 0
                            ELSE 2 * (Width(phase, Part) + 1 - (pos + 1)) - 0
          BY <3>3, <3>5, <5>1
        <5>3. PICK w \in Nat, n \in Nat : w = Width(phase, Part) /\ n = pos /\ n <= w
          BY <2>3, <3>2
        <5>4. \/ (IF n + 1 > w THEN 0 ELSE 2 * (w + 1 - (n + 1)) - 0) = 0 /\ n = w
              \/ (IF n + 1 > w THEN 0 ELSE 2 * (w + 1 - (n + 1)) - 0) = 2 * (w - n)
          BY <5>3
        <5> QED BY <5>2, <5>3, <5>4
      <4> QED BY <2>2, <2>3, <3>2, <3>3, <4>1, <4>2
    <3> QED BY <3>1, <3>4, <3>5
  <2>7. CASE pc' # "end" /\ (OrderStages \/ FinishStages)
    BY <2>3, <2>7 DEF OrderStages, FinishStages, Return, PhasesLeft, PartsLeft, Part, BeforePart,
           StagePart, AfterPart
  <2>8. CASE pc' # "end" /\ FinishPhase
    BY <2>3, <2>8 DEF FinishPhase, Return, PhasesLeft
  <2> QED BY <1>2, <2>4, <2>5, <2>6, <2>7, <2>8 DEF Advance
<1> QED BY <1>1, <1>2

LEMMA DistanceInvariance == Spec => []((Distance \in Distances) /\ IInv)
BY DistanceType, Invariance, PTL

(* Execute cannot go on for ever: every step of it comes nearer to the end, *)
(* in an order that has no endless way down, and the end of the context    *)
(* does not take it further away.                                          *)
THEOREM RunsComeToAnEnd ==
  /\ IsWellFoundedOn(Closer, Distances)
  /\ Spec => [][(Advance => <<Distance', Distance>> \in Closer)
                  /\ (Cancel => Distance' = Distance)]_vars
<1>1. [Next]_vars /\ (Advance => <<Distance', Distance>> \in Closer) /\ (Cancel => Distance' = Distance)
      => [(Advance => <<Distance', Distance>> \in Closer) /\ (Cancel => Distance' = Distance)]_vars
  OBVIOUS
<1>2. Spec => [][(Advance => <<Distance', Distance>> \in Closer)
                  /\ (Cancel => Distance' = Distance)]_vars
  BY <1>1, StepComesCloser, DistanceInvariance, PTL DEF Spec
<1> QED BY <1>2, CloserIsWellFounded
=============================================================================
