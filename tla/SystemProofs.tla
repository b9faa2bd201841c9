---------------------------- MODULE SystemProofs ----------------------------
(***************************************************************************)
(* The two components that deal with the operating system: the round trip  *)
(* with a child process (ExternalProcess), for pipes, requests, answers    *)
(* and surpluses of any size, and the materializer (Materializer), for any *)
(* plans, options, files of the user, builds, failing calls and crashes.   *)
(*                                                                         *)
(* The materializer's argument: Plans becomes a sequence of tasks of known *)
(* kinds and places (TaskFacts).  Base says what is on the disk and how    *)
(* far a build is; that alone keeps the user's files safe, as a write gets *)
(* at one only through a link.  ProgressInv says that each task the build  *)
(* is past has been accounted for, DoneInv what the last good build has    *)
(* left, and AgreeInv that the disk is ahead of MemFS by just the tasks    *)
(* that have been carried out, which MemFS makes up for in one step.       *)
(***************************************************************************)
EXTENDS ExternalProcess, Materializer, FiniteSetTheorems, SequenceTheorems, NaturalsInduction,
        WellFoundedInduction, TLAPS

-----------------------------------------------------------------------------
(* The round trip with a child process.                                    *)

\* Decode goes on only while the answer is incomplete.
ReadInv ==
  /\ pc = "write" => got = 0
  /\ pc = "read" => got < AnswerSize

\* Only an unruly child leaves a process behind, and the call waits for it.
OrphanInv == orphan => pc # "idle" /\ manner = "any"

\* A polite child runs until its answer is complete, which it begins when it
\* has seen the end of the request.
PoliteInv ==
  manner = "polite" /\ ~expired /\ pc # "idle" =>
    /\ child \in {"running", "exited"}
    /\ wrote <= AnswerSize
    /\ wrote > 0 => pc # "write"
    /\ child = "exited" => wrote = AnswerSize
    /\ answer = "valid" /\ pc = "wait" => got = AnswerSize

\* How far a call is where it reads or waits: the request is written, and the
\* answer read or given up, unless the child is gone.
PlaceInv ==
  /\ pc = "read" => sent = RequestSize[call]
  /\ pc = "wait" /\ child = "running" =>
       /\ sent = RequestSize[call]
       /\ got = AnswerSize \/ answer = "garbage"
  /\ manner = "polite" => wrote <= AnswerSize

CallInv == NoChildIsLeft /\ ReadInv /\ OrphanInv /\ PoliteInv /\ PlaceInv

LEMMA Sizes ==
  /\ PipeSize \in Nat /\ AnswerSize \in Nat /\ AnswerSize > 0 /\ ExtraSize \in Nat
  /\ \A c \in Calls : RequestSize[c] \in Nat
BY SizeAssumption

\* The invariant holds before the first call.
LEMMA InitInv == ExtInit => CallInv
<1> SUFFICES ASSUME ExtInit PROVE CallInv
  OBVIOUS
<1> USE DEF ExtInit
<1>1. call \in Calls BY DEF Calls
<1>2. ExtTypeOK
  <2>1. /\ sent \in 0 .. RequestSize[call] /\ taken \in 0 .. sent
        /\ wrote \in 0 .. AnswerSize + ExtraSize /\ got \in 0 .. wrote
        /\ got <= AnswerSize
        /\ sent - taken <= PipeSize /\ wrote - got <= PipeSize
    BY <1>1, Sizes
  <2> QED BY <1>1, <2>1 DEF ExtTypeOK
<1> QED BY <1>2, Sizes DEF CallInv, NoChildIsLeft, ReadInv, OrphanInv, PoliteInv, PlaceInv

\* The start of a call resets all that the invariant relates.
LEMMA BeginInv == ASSUME CallInv, NEW c \in Calls, BeginCall(c) PROVE CallInv'
<1> USE DEF BeginCall
<1>1. ExtTypeOK'
  <2>1. /\ sent' \in 0 .. RequestSize[call'] /\ taken' \in 0 .. sent'
        /\ wrote' \in 0 .. AnswerSize + ExtraSize /\ got' \in 0 .. wrote'
        /\ got' <= AnswerSize
        /\ sent' - taken' <= PipeSize /\ wrote' - got' <= PipeSize
    BY Sizes
  <2> QED BY <2>1 DEF CallInv, NoChildIsLeft, ExtTypeOK
<1>2. NoChildIsLeft' BY <1>1 DEF NoChildIsLeft
<1>3. ReadInv' BY Sizes DEF ReadInv
<1>4. OrphanInv' BY DEF CallInv, OrphanInv
<1>5. PoliteInv' BY Sizes DEF PoliteInv
<1>6. PlaceInv' BY Sizes DEF PlaceInv
<1> QED BY <1>2, <1>3, <1>4, <1>5, <1>6 DEF CallInv

\* Writing the request and closing the pipe.
LEMMA WriteInv ==
  ASSUME CallInv, WriteRequest \/ WriteFails \/ CloseStdin PROVE CallInv'
<1> USE Sizes DEF Parent, request, response
<1>1. CASE WriteRequest
  <2>1. NoChildIsLeft' BY <1>1 DEF CallInv, NoChildIsLeft, ExtTypeOK, WriteRequest, Calls
  <2>2. ReadInv' /\ OrphanInv' /\ PoliteInv'
    BY <1>1 DEF CallInv, ReadInv, OrphanInv, PoliteInv, WriteRequest
  <2>3. PlaceInv' BY <1>1 DEF CallInv, NoChildIsLeft, ExtTypeOK, PlaceInv, WriteRequest
  <2> QED BY <2>1, <2>2, <2>3 DEF CallInv
<1>2. CASE WriteFails
  <2>1. NoChildIsLeft' BY <1>2 DEF CallInv, NoChildIsLeft, ExtTypeOK, WriteFails
  <2>2. ReadInv' /\ OrphanInv'
    BY <1>2 DEF CallInv, ReadInv, OrphanInv, WriteFails
  <2>3. PoliteInv'   \* a polite child is there to the end of the request
    BY <1>2 DEF CallInv, NoChildIsLeft, ExtTypeOK, PoliteInv, WriteFails, ReadersOfRequest
  <2>4. PlaceInv' BY <1>2 DEF CallInv, NoChildIsLeft, ExtTypeOK, ReadersOfRequest, PlaceInv, WriteFails
  <2> QED BY <2>1, <2>2, <2>3, <2>4 DEF CallInv
<1>3. CASE CloseStdin
  <2>1. NoChildIsLeft' BY <1>3 DEF CallInv, NoChildIsLeft, ExtTypeOK, CloseStdin
  <2>2. ReadInv' /\ OrphanInv' /\ PoliteInv'
    BY <1>3 DEF CallInv, ReadInv, OrphanInv, PoliteInv, CloseStdin
  <2>3. PlaceInv' BY <1>3 DEF CallInv, PlaceInv, CloseStdin
  <2> QED BY <2>1, <2>2, <2>3 DEF CallInv
<1> QED BY <1>1, <1>2, <1>3

\* Reading the answer up to its end or the end of the pipe.
LEMMA ReadInvariant ==
  ASSUME CallInv, ReadResponse \/ ResponseEnds PROVE CallInv'
<1> USE Sizes DEF Parent, request, response
<1>1. CASE ReadResponse
  <2>1. NoChildIsLeft'
    BY <1>1 DEF CallInv, NoChildIsLeft, ExtTypeOK, ReadInv, ReadResponse
  <2>2. ReadInv' /\ OrphanInv' /\ PoliteInv'
    BY <1>1 DEF CallInv, NoChildIsLeft, ExtTypeOK, ReadInv, OrphanInv, PoliteInv, ReadResponse
  <2>3. PlaceInv' BY <1>1 DEF CallInv, NoChildIsLeft, ExtTypeOK, PlaceInv, ReadResponse
  <2> QED BY <2>1, <2>2, <2>3 DEF CallInv
<1>2. CASE ResponseEnds
  <2>1. NoChildIsLeft' BY <1>2 DEF CallInv, NoChildIsLeft, ExtTypeOK, ResponseEnds
  <2>2. ReadInv' /\ OrphanInv' BY <1>2 DEF CallInv, ReadInv, OrphanInv, ResponseEnds
  <2>3. PoliteInv'   \* it ended because the child exited, after its answer
    BY <1>2 DEF CallInv, NoChildIsLeft, ExtTypeOK, PoliteInv, ResponseEnds, WritersOfResponse
  <2>4. PlaceInv' BY <1>2 DEF CallInv, WritersOfResponse, PlaceInv, ResponseEnds
  <2> QED BY <2>1, <2>2, <2>3, <2>4 DEF CallInv
<1> QED BY <1>1, <1>2

\* Wait and the return from the call.
LEMMA ReturnInv == ASSUME CallInv, Return PROVE CallInv'
<1> USE Sizes DEF Return, request, response
<1>1. returned' \in {"ok", "failed"} BY DEF Outcome
<1>2. descriptor' \in {"manifest", "handshake"}
  BY DEF CallInv, NoChildIsLeft, ExtTypeOK, DescriptorAfter
<1>3. NoChildIsLeft' BY <1>1, <1>2 DEF CallInv, NoChildIsLeft, ExtTypeOK
<1>4. ReadInv' /\ OrphanInv' /\ PoliteInv' BY DEF ReadInv, OrphanInv, PoliteInv
<1>5. PlaceInv' BY DEF CallInv, PlaceInv
<1> QED BY <1>3, <1>4, <1>5 DEF CallInv

\* The timer and the kill, which polite calls are excused from.
LEMMA TimerInv == ASSUME CallInv, Expire \/ Kill PROVE CallInv'
<1> USE DEF request, response
<1>1. NoChildIsLeft' BY DEF CallInv, NoChildIsLeft, ExtTypeOK, Expire, Kill
<1>2. ReadInv' /\ OrphanInv' BY DEF CallInv, ReadInv, OrphanInv, Expire, Kill
<1>3. PoliteInv' BY DEF CallInv, PoliteInv, Expire, Kill
<1>4. PlaceInv' BY DEF CallInv, PlaceInv, Expire, Kill
<1> QED BY <1>1, <1>2, <1>3, <1>4 DEF CallInv

\* Whatever the child does.
LEMMA ChildInv == ASSUME CallInv, ChildStep \/ OrphanEnds PROVE CallInv'
<1> USE Sizes DEF Child, request, response
<1>1. CASE ReadRequest
  <2>1. NoChildIsLeft' BY <1>1 DEF CallInv, NoChildIsLeft, ExtTypeOK, ReadRequest
  <2>2. ReadInv' /\ OrphanInv' /\ PoliteInv'
    BY <1>1 DEF CallInv, ReadInv, OrphanInv, PoliteInv, ReadRequest
  <2>3. PlaceInv' BY <1>1 DEF CallInv, PlaceInv, ReadRequest
  <2> QED BY <2>1, <2>2, <2>3 DEF CallInv
<1>2. CASE WriteResponse
  <2>1. NoChildIsLeft' BY <1>2 DEF CallInv, NoChildIsLeft, ExtTypeOK, WriteResponse
  <2>2. ReadInv' /\ OrphanInv' BY <1>2 DEF CallInv, ReadInv, OrphanInv, WriteResponse
  <2>3. PoliteInv'
    BY <1>2 DEF CallInv, NoChildIsLeft, ExtTypeOK, PoliteInv, WriteResponse, SawEndOfRequest
  <2>4. PlaceInv' BY <1>2 DEF CallInv, NoChildIsLeft, ExtTypeOK, PlaceInv, WriteResponse
  <2> QED BY <2>1, <2>2, <2>3, <2>4 DEF CallInv
<1>3. CASE Exit
  <2>1. child' \in {"exited", "crashed"} /\ orphan' \in BOOLEAN
    BY <1>3 DEF CallInv, NoChildIsLeft, ExtTypeOK, Exit
  <2>2. NoChildIsLeft' BY <1>3, <2>1 DEF CallInv, NoChildIsLeft, ExtTypeOK, Exit
  <2>3. ReadInv' BY <1>3 DEF CallInv, ReadInv, Exit
  <2>4. OrphanInv' BY <1>3 DEF CallInv, NoChildIsLeft, ExtTypeOK, OrphanInv, Exit
  <2>5. PoliteInv' BY <1>3 DEF CallInv, PoliteInv, Exit
  <2>6. PlaceInv' BY <1>3 DEF CallInv, PlaceInv, Exit
  <2> QED BY <2>2, <2>3, <2>4, <2>5, <2>6 DEF CallInv
<1>4. CASE OrphanEnds
  <2>1. NoChildIsLeft' BY <1>4 DEF CallInv, NoChildIsLeft, ExtTypeOK, OrphanEnds
  <2>2. ReadInv' /\ OrphanInv' /\ PoliteInv'
    BY <1>4 DEF CallInv, ReadInv, OrphanInv, PoliteInv, OrphanEnds
  <2>3. PlaceInv' BY <1>4 DEF CallInv, PlaceInv, OrphanEnds
  <2> QED BY <2>1, <2>2, <2>3 DEF CallInv
<1> QED BY <1>1, <1>2, <1>3, <1>4 DEF ChildStep

\* Every step preserves the invariant.
LEMMA NextInv == CallInv /\ [ExtNext]_extVars => CallInv'
<1> SUFFICES ASSUME CallInv, [ExtNext]_extVars PROVE CallInv'
  OBVIOUS
<1>1. CASE \E c \in Calls : BeginCall(c) BY <1>1, BeginInv
<1>2. CASE ParentStep BY <1>2, WriteInv, ReadInvariant, ReturnInv DEF ParentStep
<1>3. CASE Expire \/ Kill BY <1>3, TimerInv
<1>4. CASE ChildStep \/ OrphanEnds BY <1>4, ChildInv
<1>5. CASE UNCHANGED extVars
  BY <1>5 DEF CallInv, NoChildIsLeft, ExtTypeOK, ReadInv, OrphanInv, PoliteInv, PlaceInv, extVars,
              request, response
<1> QED BY <1>1, <1>2, <1>3, <1>4, <1>5 DEF ExtNext

LEMMA CallInvariant == ExtSpec => []CallInv
BY InitInv, NextInv, PTL DEF ExtSpec

-----------------------------------------------------------------------------
(* A call that has returned left no child behind, whichever return of      *)
(* roundTrip it took; and the pipes never hold more than they can.         *)
THEOREM ChildrenAreReaped == ExtSpec => []NoChildIsLeft
<1>1. CallInv => NoChildIsLeft BY DEF CallInv
<1> QED BY <1>1, CallInvariant, PTL

(* A call reports what happened: in no order in which parent and child run *)
(* is the answer of a polite child lost before the timer fires, and the    *)
(* descriptor changes only in a handshake that succeeded as a whole, the   *)
(* exit status of the child included (Describe and roundTrip).             *)
THEOREM CallsAreReported == ExtSpec => CallIsReported
<1>1. CallInv /\ [ExtNext]_extVars => [AnswerArrives /\ HandshakeIsWhole]_extVars
  <2> SUFFICES ASSUME CallInv, ExtNext PROVE AnswerArrives /\ HandshakeIsWhole
    OBVIOUS
  <2>1. descriptor' # descriptor \/ (pc # "idle" /\ pc' = "idle") => Return
    BY DEF ExtNext, BeginCall, ParentStep, WriteRequest, WriteFails, CloseStdin, ReadResponse,
           ResponseEnds, Expire, Kill, ChildStep, ReadRequest, WriteResponse, Exit,
           OrphanEnds, Parent, Child
  <2>2. HandshakeIsWhole
    BY <2>1 DEF HandshakeIsWhole, Return, DescriptorAfter, Outcome
  <2>3. ASSUME Return, manner = "polite", answer = "valid", ~expired
        PROVE  returned' = "ok"
    <3>1. child = "exited" /\ got = AnswerSize BY <2>3 DEF CallInv, PoliteInv, Return
    <3> QED BY <2>3, <3>1 DEF Return, Outcome, Decoded
  <2> QED BY <2>1, <2>2, <2>3 DEF AnswerArrives
<1> QED BY <1>1, CallInvariant, PTL DEF ExtSpec, CallIsReported

(* The guard of some step of parent or polite child always holds, for any  *)
(* sizes of pipes, requests and answers, except for an answer that is not  *)
(* JSON and does not fit into the pipe: the two never wait for each other  *)
(* (the order in which roundTrip writes, closes, reads and waits).         *)
THEOREM PoliteCallsMoveOn == ExtSpec => []NobodyIsStuck
<1>1. CallInv => NobodyIsStuck
  <2> SUFFICES ASSUME CallInv, manner = "polite", pc # "idle", ~WritesToNobody
               PROVE  SomeoneCanMove
    BY DEF NobodyIsStuck
  <2> USE Sizes DEF CallInv
  <2>1. ExtTypeOK /\ ~orphan BY DEF NoChildIsLeft, OrphanInv
  <2>2. /\ sent \in Nat /\ taken \in Nat /\ taken <= sent /\ sent <= RequestSize[call]
        /\ wrote \in Nat /\ got \in Nat /\ got <= wrote /\ wrote <= AnswerSize
        /\ sent - taken <= PipeSize /\ wrote - got <= PipeSize
        /\ PipeSize > 0 /\ RequestSize[call] \in Nat
    <3>1. wrote <= AnswerSize BY DEF PlaceInv
    <3>2. PipeSize > 0 BY SizeAssumption
    <3> QED BY <2>1, <3>1, <3>2 DEF ExtTypeOK
  <2>3. CASE pc = "write"   \* a full pipe is for the child to empty
    BY <2>1, <2>2, <2>3 DEF SomeoneCanMove, ReadersOfRequest
  <2>4. CASE pc = "read"    \* the child has the whole request, or is to read it
    <3>1. sent = RequestSize[call] /\ got < AnswerSize BY <2>4 DEF PlaceInv, ReadInv
    <3>2. CASE got < wrote \/ taken < sent \/ child # "running"
      BY <2>1, <2>2, <2>4, <3>2 DEF SomeoneCanMove, WritersOfResponse
    <3>3. CASE got = wrote /\ taken = sent /\ child = "running"
      BY <2>2, <2>4, <3>1, <3>3 DEF SomeoneCanMove, SawEndOfRequest
    <3> QED BY <2>2, <3>2, <3>3
  <2>5. CASE pc = "wait"    \* what is left of the answer fits into the pipe
    <3>1. CASE child # "running" BY <2>1, <2>5, <3>1 DEF SomeoneCanMove
    <3>2. CASE child = "running"
      <4>1. sent = RequestSize[call] /\ (got = AnswerSize \/ answer = "garbage")
        BY <2>5, <3>2 DEF PlaceInv
      <4>2. CASE wrote = AnswerSize \/ taken < sent
        BY <3>2, <4>2 DEF SomeoneCanMove
      <4>3. CASE wrote < AnswerSize /\ taken = sent
        <5>1. wrote - got # PipeSize
          BY <2>2, <2>5, <3>2, <4>1, <4>3 DEF WritesToNobody
        <5>2. wrote - got < PipeSize BY <2>2, <5>1
        <5> QED BY <2>5, <3>2, <4>1, <4>3, <5>2 DEF SomeoneCanMove, SawEndOfRequest
      <4> QED BY <2>2, <4>2, <4>3
    <3> QED BY <3>1, <3>2
  <2> QED BY <2>1, <2>3, <2>4, <2>5 DEF ExtTypeOK
<1> QED BY <1>1, CallInvariant, PTL

\* What a call has left: chunks to pass on, places of roundTrip, and the ends of
\* the context, of the child and of what the child leaves behind.  That may take
\* the place of the child, which counts two.
RequestLeft == (RequestSize[call] - sent) + (RequestSize[call] - taken)
AnswerLeft  == (AnswerSize + ExtraSize - wrote) + (AnswerSize - got)
PlacesLeft  == CASE pc = "write" -> 3 [] pc = "read" -> 2 [] pc = "wait" -> 1 [] OTHER -> 0
ContextLeft == IF expired THEN 0 ELSE 1
ProcessLeft == (IF child = "running" THEN 2 ELSE 0) + (IF orphan THEN 1 ELSE 0)

\* The most steps a call has left, of parent, timer and child together.
CallStepsLeft == RequestLeft + AnswerLeft + PlacesLeft + ContextLeft + ProcessLeft

LeftOK ==
  /\ RequestLeft \in Nat /\ AnswerLeft \in Nat /\ PlacesLeft \in Nat
  /\ ContextLeft \in Nat /\ ProcessLeft \in Nat

LEMMA CallStepsLeftType == CallInv => LeftOK
<1> SUFFICES ASSUME CallInv PROVE LeftOK
  OBVIOUS
<1>1. /\ sent \in Nat /\ taken \in Nat /\ taken <= sent /\ sent <= RequestSize[call]
      /\ wrote \in Nat /\ got \in Nat /\ wrote <= AnswerSize + ExtraSize /\ got <= AnswerSize
      /\ RequestSize[call] \in Nat
  BY Sizes DEF CallInv, NoChildIsLeft, ExtTypeOK
<1>2. RequestLeft \in Nat BY <1>1 DEF RequestLeft
<1>3. AnswerLeft \in Nat BY <1>1, Sizes DEF AnswerLeft
<1> QED BY <1>2, <1>3 DEF LeftOK, PlacesLeft, ContextLeft, ProcessLeft

LEMMA SumFalls ==
  ASSUME NEW a \in Nat, NEW b \in Nat, NEW c \in Nat, NEW d \in Nat, NEW e \in Nat,
         NEW v \in Nat, NEW w \in Nat, NEW x \in Nat, NEW y \in Nat, NEW z \in Nat,
         v <= a, w <= b, x <= c, y <= d, z <= e,
         v < a \/ w < b \/ x < c \/ y < d \/ z < e
  PROVE  v + w + x + y + z < a + b + c + d + e
OBVIOUS

LEMMA CallStepsLeftFalls ==
  ASSUME CallInv, LeftOK, LeftOK', ExtNext
  PROVE  /\ \A c \in Calls : BeginCall(c) =>
              CallStepsLeft' <= 2 * RequestSize[c] + 2 * AnswerSize + ExtraSize + 6
         /\ ParentStep \/ Expire \/ Kill \/ ChildStep \/ OrphanEnds =>
              CallStepsLeft' < CallStepsLeft
<1>1. /\ sent \in Nat /\ taken \in Nat /\ wrote \in Nat /\ got \in Nat
      /\ RequestSize[call] \in Nat
      /\ orphan \in BOOLEAN /\ expired \in BOOLEAN
  BY Sizes DEF CallInv, NoChildIsLeft, ExtTypeOK
<1>2. ASSUME NEW c \in Calls, BeginCall(c)
      PROVE  CallStepsLeft' <= 2 * RequestSize[c] + 2 * AnswerSize + ExtraSize + 6
  <2>1. ~ orphan BY <1>2 DEF CallInv, OrphanInv, BeginCall
  <2>2. /\ RequestLeft' = 2 * RequestSize[c] /\ AnswerLeft' = 2 * AnswerSize + ExtraSize
        /\ PlacesLeft' <= 3 /\ ContextLeft' = 1 /\ ProcessLeft' <= 2
    <3>1. RequestLeft' = 2 * RequestSize[c]
      BY <1>2, Sizes DEF BeginCall, RequestLeft
    <3>2. AnswerLeft' = 2 * AnswerSize + ExtraSize
      BY <1>2, Sizes DEF BeginCall, AnswerLeft
    <3> QED
      BY <1>2, <2>1, <3>1, <3>2 DEF BeginCall, PlacesLeft, ContextLeft, ProcessLeft
  <2> QED BY <2>2, Sizes DEF LeftOK, CallStepsLeft
<1> SUFFICES ASSUME ParentStep \/ Expire \/ Kill \/ ChildStep \/ OrphanEnds
             PROVE  CallStepsLeft' < CallStepsLeft
  BY <1>2
<1>3. /\ (call' = call /\ UNCHANGED request) => RequestLeft' = RequestLeft
      /\ UNCHANGED response => AnswerLeft' = AnswerLeft
      /\ pc' = pc => PlacesLeft' = PlacesLeft
      /\ expired' = expired => ContextLeft' = ContextLeft
      /\ UNCHANGED <<child, orphan>> => ProcessLeft' = ProcessLeft
  BY DEF request, response, RequestLeft, AnswerLeft, PlacesLeft, ContextLeft, ProcessLeft
<1>4. /\ RequestLeft \in Nat /\ AnswerLeft \in Nat /\ PlacesLeft \in Nat
      /\ ContextLeft \in Nat /\ ProcessLeft \in Nat
      /\ RequestLeft' \in Nat /\ AnswerLeft' \in Nat /\ PlacesLeft' \in Nat
      /\ ContextLeft' \in Nat /\ ProcessLeft' \in Nat
      /\ CallStepsLeft = RequestLeft + AnswerLeft + PlacesLeft + ContextLeft + ProcessLeft
      /\ CallStepsLeft' = RequestLeft' + AnswerLeft' + PlacesLeft' + ContextLeft' + ProcessLeft'
  BY DEF LeftOK, CallStepsLeft
<1> SUFFICES /\ RequestLeft' <= RequestLeft /\ AnswerLeft' <= AnswerLeft /\ PlacesLeft' <= PlacesLeft
            /\ ContextLeft' <= ContextLeft /\ ProcessLeft' <= ProcessLeft
            /\ \/ RequestLeft' < RequestLeft \/ AnswerLeft' < AnswerLeft \/ PlacesLeft' < PlacesLeft
               \/ ContextLeft' < ContextLeft \/ ProcessLeft' < ProcessLeft
  BY <1>4, SumFalls
<1>5. CASE WriteRequest
  <2>1. RequestLeft' < RequestLeft
    BY <1>1, <1>5 DEF WriteRequest, Parent, RequestLeft
  <2>2. AnswerLeft' = AnswerLeft /\ PlacesLeft' = PlacesLeft /\ ContextLeft' = ContextLeft /\ ProcessLeft' = ProcessLeft
    BY <1>3, <1>5 DEF WriteRequest, Parent
  <2> QED BY <1>4, <2>1, <2>2
<1>6. CASE WriteFails \/ CloseStdin \/ ResponseEnds
  <2>1. PlacesLeft' < PlacesLeft
    BY <1>6 DEF WriteFails, CloseStdin, ResponseEnds, PlacesLeft
  <2>2. RequestLeft' = RequestLeft /\ AnswerLeft' = AnswerLeft /\ ContextLeft' = ContextLeft /\ ProcessLeft' = ProcessLeft
    BY <1>3, <1>6 DEF WriteFails, CloseStdin, ResponseEnds, Parent
  <2> QED BY <1>4, <2>1, <2>2
<1>7. CASE ReadResponse
  <2>1. AnswerLeft' < AnswerLeft
    BY <1>1, <1>7, Sizes DEF ReadResponse, AnswerLeft
  <2>2. PlacesLeft' <= PlacesLeft
    BY <1>7 DEF ReadResponse, PlacesLeft
  <2>3. RequestLeft' = RequestLeft /\ ContextLeft' = ContextLeft /\ ProcessLeft' = ProcessLeft
    BY <1>3, <1>7 DEF ReadResponse, Parent
  <2> QED BY <1>4, <2>1, <2>2, <2>3
<1>8. CASE Return
  <2>1. PlacesLeft' < PlacesLeft
    BY <1>8 DEF Return, PlacesLeft
  <2>2. ProcessLeft' = ProcessLeft
    BY <1>8 DEF Return, ProcessLeft
  <2>3. RequestLeft' = RequestLeft /\ AnswerLeft' = AnswerLeft /\ ContextLeft' = ContextLeft
    BY <1>3, <1>8 DEF Return
  <2> QED BY <1>4, <2>1, <2>2, <2>3
<1>9. CASE Expire
  <2>1. ContextLeft' < ContextLeft
    BY <1>9 DEF Expire, ContextLeft
  <2>2. RequestLeft' = RequestLeft /\ AnswerLeft' = AnswerLeft /\ PlacesLeft' = PlacesLeft /\ ProcessLeft' = ProcessLeft
    BY <1>3, <1>9 DEF Expire
  <2> QED BY <1>4, <2>1, <2>2
<1>10. CASE Kill \/ Exit \/ OrphanEnds
  <2>1. ProcessLeft' < ProcessLeft
    BY <1>1, <1>10 DEF Kill, Exit, OrphanEnds, ProcessLeft
  <2>2. RequestLeft' = RequestLeft /\ AnswerLeft' = AnswerLeft /\ PlacesLeft' = PlacesLeft /\ ContextLeft' = ContextLeft
    BY <1>3, <1>10 DEF Kill, Exit, OrphanEnds, Child
  <2> QED BY <1>4, <2>1, <2>2
<1>11. CASE ReadRequest
  <2>1. RequestLeft' < RequestLeft
    BY <1>1, <1>11 DEF ReadRequest, Child, RequestLeft
  <2>2. AnswerLeft' = AnswerLeft /\ PlacesLeft' = PlacesLeft /\ ContextLeft' = ContextLeft /\ ProcessLeft' = ProcessLeft
    BY <1>3, <1>11 DEF ReadRequest, Child
  <2> QED BY <1>4, <2>1, <2>2
<1>12. CASE WriteResponse
  <2>1. AnswerLeft' < AnswerLeft
    BY <1>1, <1>12, Sizes DEF WriteResponse, AnswerLeft
  <2>2. RequestLeft' = RequestLeft /\ PlacesLeft' = PlacesLeft /\ ContextLeft' = ContextLeft /\ ProcessLeft' = ProcessLeft
    BY <1>3, <1>12 DEF WriteResponse, Child
  <2> QED BY <1>4, <2>1, <2>2
<1> QED
  BY <1>5, <1>6, <1>7, <1>8, <1>9, <1>10, <1>11, <1>12 DEF ParentStep, ChildStep

(* A call takes boundedly many steps, however parent, timer and child take *)
(* turns: each leaves fewer, those of a child that writes more than its    *)
(* answer or leaves a process behind included (roundTrip).                 *)
THEOREM CallsAreBounded ==
  /\ ExtSpec => [](CallStepsLeft \in Nat)
  /\ ExtSpec => [][/\ \A c \in Calls : BeginCall(c) =>
                        CallStepsLeft' <= 2 * RequestSize[c] + 2 * AnswerSize + ExtraSize + 6
                   /\ ParentStep \/ Expire \/ Kill \/ ChildStep \/ OrphanEnds =>
                        CallStepsLeft' < CallStepsLeft]_extVars
<1>1. LeftOK => CallStepsLeft \in Nat
  BY DEF LeftOK, CallStepsLeft
<1>2. CallInv /\ LeftOK /\ LeftOK' /\ [ExtNext]_extVars =>
        [/\ \A c \in Calls : BeginCall(c) =>
              CallStepsLeft' <= 2 * RequestSize[c] + 2 * AnswerSize + ExtraSize + 6
         /\ ParentStep \/ Expire \/ Kill \/ ChildStep \/ OrphanEnds =>
              CallStepsLeft' < CallStepsLeft]_extVars
  <2> SUFFICES ASSUME CallInv, LeftOK, LeftOK', ExtNext
               PROVE  /\ \A c \in Calls : BeginCall(c) =>
                           CallStepsLeft' <= 2 * RequestSize[c] + 2 * AnswerSize + ExtraSize + 6
                      /\ ParentStep \/ Expire \/ Kill \/ ChildStep \/ OrphanEnds =>
                           CallStepsLeft' < CallStepsLeft
    OBVIOUS
  <2> QED BY CallStepsLeftFalls
<1> QED BY <1>1, <1>2, CallStepsLeftType, CallInvariant, PTL DEF ExtSpec

\* The timer, the kill or the parent has something to do: the guards of their steps.
TimeoutMovesOn ==
  pc # "idle" /\ ~orphan =>
    \/ ~expired
    \/ child = "running"
    \/ /\ pc = "write"
       /\ sent = RequestSize[call] \/ ~ReadersOfRequest
    \/ /\ pc = "read"
       /\ got < wrote \/ ~WritersOfResponse
    \/ /\ pc = "wait"
       /\ child # "running"

(* The context gets a call out of every place it can be stuck in, whatever *)
(* the child does or does not do: the timer, the kill, or the parent after *)
(* the kill has a step, as long as the child has left nothing behind that  *)
(* holds the pipes (CommandContext, and the reads and Wait of roundTrip).  *)
THEOREM TheTimeoutFreesTheCall == ExtSpec => []TimeoutMovesOn
<1>1. CallInv => TimeoutMovesOn
  BY Sizes DEF CallInv, NoChildIsLeft, ExtTypeOK, TimeoutMovesOn, ReadersOfRequest, WritersOfResponse
<1> QED BY <1>1, CallInvariant, PTL

-----------------------------------------------------------------------------
(* The materializer: its invariants.                                       *)

\* What is on the disk, and where there may be a link.
Texts == Content \cup {Torn, Missing}
Node == [is : {"file"}, content : Texts] \cup [is : {"link"}, to : Sources \cup {Nowhere}]

DiskInv ==
  /\ disk \in [DOMAIN disk -> Node]
  /\ Sources \subseteq DOMAIN disk /\ DOMAIN disk \subseteq Sources \cup FilesOf \cup LinksOf
  /\ \A s \in Sources : disk[s].is = "file"
  /\ \A l \in DOMAIN disk : disk[l].is = "link" => l \in LinkedFrom(disk[l].to)

Locations == Planned \cup {At(Root, "")}

\* The build under way is one of a plan, and how far it is fits its task.
BuildInv ==
  /\ plan \in Plans \cup {<<>>} /\ tasks = Tasks(plan)
  /\ setting \in Settings
  /\ at \in 1 .. Len(tasks) + 1
  /\ doing \in {"idle", "task", "opened", "removed", "copy"}
  /\ outcome \in {"none", "running", "simulated", "crashed", "refused", "done"}
  /\ doing # "idle" <=> outcome = "running"
  /\ doing \in {"opened", "removed", "copy"} => at <= Len(tasks)
  /\ doing \in {"removed", "copy"} => Task.do = "link"
  /\ doing = "opened" => /\ Task.do \in {"write", "link"} /\ Follow(Task.at) # Nowhere
                         /\ Task.do = "write" => content = Task.content
  /\ content \in Texts
  /\ clean \in BOOLEAN /\ stuck \subseteq LinksOf /\ builds \in 0 .. MaxBuilds /\ faults \in 0 .. MaxFaults

ResultInv ==
  result \in [written : SUBSET Locations, linked : SUBSET Locations,
              dirs : SUBSET Locations, errors : SUBSET Locations]

\* As long as nothing fails, a link is made where nothing is, and no asset copied.
CleanInv ==
  clean => /\ doing = "removed" => ~ Has(Task.at)
           /\ doing # "copy"
           /\ doing = "opened" => Task.do = "write"

\* Where a link is to be made, what was there is gone, or it could not be removed.
StuckInv ==
  /\ doing \in {"removed", "copy"} => ~ Has(Task.at) \/ Task.at \in stuck
  /\ doing = "opened" /\ Task.do = "link" => Follow(Task.at) = Task.at \/ Task.at \in stuck

-----------------------------------------------------------------------------
\* What a build owes for a task it is past.
Settled(k) ==
  LET t == tasks[k]
  IN CASE t.do = "mkdir" -> t.at \in result.dirs
       [] t.do = "link"  -> t.at \in result.linked
       [] t.do = "write" -> \/ t.at \in LinksOf
                            \/ \E j \in k + 1 .. at - 1 : tasks[j].at = t.at
                            \/ doing = "opened" /\ Task.at = t.at
                            \/ ReadFile(t.at) = t.content

Accounted(k) == HeldBack(k) \/ tasks[k].at \in result.errors \/ Settled(k)

Of(what) == {tasks[k].at : k \in {k \in DOMAIN tasks : tasks[k].do = what}}

\* The result lists what the plan has.
Listed ==
  /\ result.written \subseteq Of("write") /\ result.linked \subseteq Of("link")
  /\ result.dirs \subseteq Of("mkdir")
  /\ result.errors \subseteq {tasks[k].at : k \in DOMAIN tasks} \cup {At(Root, "")}

ProgressInv ==
  outcome \in {"running", "refused", "done"} =>
    /\ outcome # "running" => at = Len(tasks) + 1
    /\ \A k \in 1 .. at - 1 : Accounted(k)
    /\ Listed
    /\ outcome = "done" /\ setting.failFast => result.errors = {}

-----------------------------------------------------------------------------
\* The only task of t at its location, where no plan has a link.
Alone(t, k) == t[k].at \notin LinksOf /\ \A j \in DOMAIN t : j # k => t[j].at # t[k].at

\* What the build that "done" tells of has left, and that the same plan does not
\* write again.
Left(t) == \A k \in DOMAIN t : t[k].do = "write" /\ Alone(t, k) => ReadFile(t[k].at) = t[k].content

DoneInv ==
  /\ done \in Plans \cup {<<>>}
  /\ outcome = "running" => done \in {plan, <<>>}
  /\ Left(Tasks(done))
  /\ done = plan /\ doing = "opened" => ~ Alone(tasks, at)
  /\ done = plan /\ outcome = "running" =>
       \A l \in result.written : \E k \in DOMAIN tasks : tasks[k].at = l /\ ~ Alone(tasks, k)

-----------------------------------------------------------------------------
Agrees(l) ==
  IF Has(l)
    THEN IF disk[l].is = "file" THEN l \in DOMAIN mem.files /\ mem.files[l] = disk[l].content
         ELSE l \in DOMAIN mem.links /\ disk[l].to \in {mem.links[l], Nowhere}
    ELSE l \notin DOMAIN mem.files \cup DOMAIN mem.links

\* The last of the first n tasks at l.
IsLast(k, n, l) == k \in 1 .. n /\ tasks[k].at = l /\ \A j \in k + 1 .. n : tasks[j].at # l

\* The task has been carried out.
Made(k) ==
  /\ tasks[k].do = "write" => Has(tasks[k].at) /\ disk[tasks[k].at] = File(tasks[k].content)
  /\ tasks[k].do = "link"  => Has(tasks[k].at) /\ disk[tasks[k].at] = Link(tasks[k].to)

\* How MemFS and the disk are to agree about l: as they do between builds, until
\* the tasks get there; then the disk is ahead of MemFS.
Settling(l) ==
  \/ outcome # "running" /\ Agrees(l)
  \/ outcome = "running" /\ (\A k \in 1 .. at - 1 : tasks[k].at # l) /\ Agrees(l)
  \/ outcome = "running" /\ \E k \in 1 .. at - 1 : IsLast(k, at - 1, l) /\ Made(k)
  \/ doing \in {"opened", "removed"} /\ Task.at = l

AgreeInv == clean => \A l \in Planned \ (FilesOf \cap LinksOf) : Settling(l)

(* The tasks of a plan.                                                    *)

MkdirTask == [do : {"mkdir"}, at : Dirs \X {""}, holds : Nat]
WriteTask == [do : {"write"}, at : Dirs \X (STRING \ {""}), content : Content, bundled : BOOLEAN]
LinkTask  == {t \in [do : {"link"}, at : Dirs \X (STRING \ {""}),
                     source : Sources \cup {Nowhere}, to : Sources \cup {Nowhere}] :
                t.to \in {t.source, Nowhere}}
TaskSet   == MkdirTask \cup WriteTask \cup LinkTask

\* A directory holds tasks that follow.
Holds(s, k) == s[k].do = "mkdir" => k + s[k].holds <= Len(s)

TasksOK(s) == s \in Seq(TaskSet) /\ \A k \in 1 .. Len(s) : Holds(s, k)

LEMMA NoTasks == TasksOK(<<>>)
<1>1. Len(<<>>) = 0 OBVIOUS
<1>2. <<>> \in Seq(TaskSet) OBVIOUS
<1> QED BY <1>1, <1>2 DEF TasksOK

LEMMA CatOK ==
  ASSUME NEW s, NEW t, TasksOK(s), TasksOK(t)
  PROVE  TasksOK(s \o t)
<1>1. s \in Seq(TaskSet) /\ t \in Seq(TaskSet) BY DEF TasksOK
<1>2. /\ s \o t \in Seq(TaskSet) /\ Len(s \o t) = Len(s) + Len(t)
      /\ Len(s) \in Nat /\ Len(t) \in Nat
      /\ \A k \in 1 .. Len(s) : (s \o t)[k] = s[k]
      /\ \A k \in 1 .. Len(t) : (s \o t)[k + Len(s)] = t[k]
  BY <1>1
<1> DEFINE r == s \o t
<1>3. \A k \in 1 .. Len(s) : r[k] = s[k] /\ s[k] \in TaskSet BY <1>1, <1>2
<1>4. \A k \in Len(s) + 1 .. Len(r) : k - Len(s) \in 1 .. Len(t) /\ r[k] = t[k - Len(s)] /\ t[k - Len(s)] \in TaskSet
  <2> SUFFICES ASSUME NEW k \in Len(s) + 1 .. Len(r)
               PROVE  k - Len(s) \in 1 .. Len(t) /\ r[k] = t[k - Len(s)] /\ t[k - Len(s)] \in TaskSet
    OBVIOUS
  <2>1. k - Len(s) \in 1 .. Len(t) /\ (k - Len(s)) + Len(s) = k BY <1>2
  <2> QED BY <1>1, <1>2, <2>1
<1>5. Len(r) = Len(s) + Len(t) /\ r \in Seq(TaskSet) BY <1>2
<1>6. \A x \in TaskSet : x.do = "mkdir" => x.holds \in Nat BY DEF TaskSet, MkdirTask, WriteTask, LinkTask
<1> HIDE DEF r
<1>7. ASSUME NEW k \in 1 .. Len(r), r[k].do = "mkdir" PROVE k + r[k].holds <= Len(r)
  <2>1. CASE k <= Len(s)
    <3>1. k \in 1 .. Len(s) BY <1>2, <2>1
    <3>2. Holds(s, k) /\ r[k] = s[k] /\ s[k].holds \in Nat BY <1>3, <1>6, <1>7, <3>1 DEF TasksOK
    <3> QED BY <1>2, <1>5, <1>7, <3>1, <3>2 DEF Holds
  <2>2. CASE k > Len(s)
    <3> DEFINE i == k - Len(s)
    <3>0. k \in Len(s) + 1 .. Len(r) BY <1>2, <1>5, <2>2
    <3>1. i \in 1 .. Len(t) /\ r[k] = t[i] /\ k = i + Len(s) BY <1>2, <1>4, <3>0
    <3> HIDE DEF i
    <3>2. Holds(t, i) /\ t[i].holds \in Nat BY <1>1, <1>6, <1>7, <3>1 DEF TasksOK
    <3> QED BY <1>2, <1>5, <1>7, <3>1, <3>2 DEF Holds
  <2> QED BY <1>2, <2>1, <2>2
<1> QED BY <1>5, <1>7 DEF TasksOK, Holds, r

LEMMA MkdirAllOK ==
  ASSUME NEW dir \in Dirs, NEW holds \in Nat
  PROVE  MkdirAll(dir, holds) \in TaskSet /\ MkdirAll(dir, holds).do = "mkdir" /\ MkdirAll(dir, holds).holds = holds
<1>1. At(dir, "") \in Dirs \X {""} BY DEF At
<1>2. MkdirAll(dir, holds) \in MkdirTask BY <1>1 DEF MkdirAll, MkdirTask
<1> QED BY <1>2 DEF MkdirAll, TaskSet

LEMMA UnderOK ==
  ASSUME NEW dir \in Dirs, NEW inside, TasksOK(inside)
  PROVE  TasksOK(Under(dir, inside))
<1> DEFINE m == MkdirAll(dir, Len(inside))
           r == <<m>> \o inside
<1>1. inside \in Seq(TaskSet) /\ Len(inside) \in Nat BY DEF TasksOK
<1>2. m \in TaskSet /\ m.holds = Len(inside) /\ m.do = "mkdir" BY <1>1, MkdirAllOK
<1>a. Under(dir, inside) = r BY DEF Under
<1> HIDE DEF m
<1>3. <<m>> \in Seq(TaskSet) BY <1>2
<1>4. Len(<<m>>) = 1 /\ <<m>>[1] = m OBVIOUS
<1>5. r \in Seq(TaskSet) /\ Len(r) = 1 + Len(inside) BY <1>1, <1>3, <1>4
<1>6. r[1] = m BY <1>1, <1>3, <1>4
<1>7. \A k \in 1 .. Len(inside) : r[k + 1] = inside[k] BY <1>1, <1>3, <1>4
<1> HIDE DEF r
<1>8. \A k \in 2 .. Len(r) : k - 1 \in 1 .. Len(inside) /\ r[k] = inside[k - 1]
  <2> SUFFICES ASSUME NEW k \in 2 .. Len(r) PROVE k - 1 \in 1 .. Len(inside) /\ r[k] = inside[k - 1]
    OBVIOUS
  <2>1. k - 1 \in 1 .. Len(inside) /\ (k - 1) + 1 = k BY <1>1, <1>5
  <2> QED BY <1>7, <2>1
<1>9. \A x \in TaskSet : x.do = "mkdir" => x.holds \in Nat BY DEF TaskSet, MkdirTask, WriteTask, LinkTask
<1>10. ASSUME NEW k \in 1 .. Len(r), r[k].do = "mkdir" PROVE k + r[k].holds <= Len(r)
  <2>1. CASE k = 1 BY <1>1, <1>2, <1>5, <1>6, <2>1
  <2>2. CASE k # 1
    <3> DEFINE i == k - 1
    <3>1. i \in 1 .. Len(inside) /\ r[k] = inside[i] /\ k = i + 1
      <4>1. k \in 2 .. Len(r) BY <1>1, <1>5, <2>2
      <4> QED BY <1>8, <4>1
    <3> HIDE DEF i
    <3>2. Holds(inside, i) /\ inside[i].holds \in Nat BY <1>1, <1>9, <1>10, <3>1 DEF TasksOK
    <3> QED BY <1>1, <1>5, <1>10, <3>1, <3>2 DEF Holds
  <2> QED BY <2>1, <2>2
<1>11. TasksOK(r) BY <1>5, <1>10 DEF TasksOK, Holds
<1> QED BY <1>11, <1>a

LEMMA SubDirsOK == ASSUME NEW dirs \in Seq(Dirs) PROVE TasksOK(SubDirs(dirs))
<1> DEFINE w == SubDirs(dirs)
<1>1. Len(dirs) \in Nat /\ DOMAIN dirs = 1 .. Len(dirs) /\ \A k \in 1 .. Len(dirs) : dirs[k] \in Dirs
  OBVIOUS
<1>2. ASSUME NEW k \in 1 .. Len(dirs) PROVE w[k] \in TaskSet /\ w[k].holds = 0
  <2>1. w[k] = MkdirAll(dirs[k], 0) BY <1>1 DEF SubDirs
  <2> QED BY <1>1, <2>1, MkdirAllOK
<1>3. w = [k \in 1 .. Len(dirs) |-> w[k]] BY <1>1 DEF SubDirs
<1> HIDE DEF w
<1>4. w \in Seq(TaskSet) /\ Len(w) = Len(dirs) BY <1>1, <1>2, <1>3
<1>5. TasksOK(w) BY <1>2, <1>4 DEF TasksOK, Holds
<1> QED BY <1>5 DEF w

LEMMA WritesOK ==
  ASSUME NEW dir \in Dirs, NEW files \in Seq(EmittedFile), NEW bundled \in BOOLEAN
  PROVE  TasksOK(Writes(dir, files, bundled))
<1> DEFINE w == Writes(dir, files, bundled)
<1>1. Len(files) \in Nat /\ DOMAIN files = 1 .. Len(files) /\ \A k \in 1 .. Len(files) : files[k] \in EmittedFile
  OBVIOUS
<1>2. ASSUME NEW k \in 1 .. Len(files)
      PROVE  w[k] \in TaskSet /\ w[k].do # "mkdir"
  <2>1. w[k] = [do |-> "write", at |-> At(dir, files[k].path), content |-> files[k].content,
                bundled |-> bundled]
    BY <1>1, <1>2 DEF Writes
  <2>2. files[k].path \in STRING \ {""} /\ files[k].content \in Content BY <1>1, <1>2 DEF EmittedFile
  <2>3. At(dir, files[k].path) \in Dirs \X (STRING \ {""}) BY <2>2 DEF At
  <2>5. w[k] \in WriteTask
    <3> SUFFICES ASSUME NEW l \in Dirs \X (STRING \ {""})
                 PROVE  [do |-> "write", at |-> l, content |-> files[k].content,
                bundled |-> bundled] \in WriteTask
      BY <2>1, <2>3
    <3> QED BY <2>2 DEF WriteTask
  <2>6. w[k].do # "mkdir" BY <2>1
  <2> QED BY <2>5, <2>6 DEF TaskSet
<1>3. w = [k \in 1 .. Len(files) |-> w[k]] BY <1>1 DEF Writes
<1> HIDE DEF w
<1>4. w \in Seq(TaskSet) /\ Len(w) = Len(files) BY <1>1, <1>2, <1>3
<1>5. TasksOK(w) BY <1>2, <1>4 DEF TasksOK, Holds
<1> QED BY <1>5 DEF w

LEMMA LinksOK ==
  ASSUME NEW dir \in Dirs, NEW assets \in Seq(EmittedAsset)
  PROVE  TasksOK(Links(dir, assets))
<1> DEFINE w == Links(dir, assets)
<1>1. Len(assets) \in Nat /\ DOMAIN assets = 1 .. Len(assets) /\ \A k \in 1 .. Len(assets) : assets[k] \in EmittedAsset
  OBVIOUS
<1>2. ASSUME NEW k \in 1 .. Len(assets)
      PROVE  w[k] \in TaskSet /\ w[k].do # "mkdir"
  <2>1. w[k] = [do |-> "link", at |-> At(dir, assets[k].path),
                source |-> assets[k].source, to |-> assets[k].to]
    BY <1>1, <1>2 DEF Links
  <2>2. /\ assets[k].path \in STRING \ {""} /\ assets[k].source \in Sources \cup {Nowhere}
        /\ assets[k].to \in Sources \cup {Nowhere} /\ assets[k].to \in {assets[k].source, Nowhere}
    BY <1>1, <1>2 DEF EmittedAsset
  <2>3. At(dir, assets[k].path) \in Dirs \X (STRING \ {""}) BY <2>2 DEF At
  <2>5. w[k] \in LinkTask
    <3> SUFFICES ASSUME NEW l \in Dirs \X (STRING \ {""})
                 PROVE  [do |-> "link", at |-> l,
                source |-> assets[k].source, to |-> assets[k].to] \in LinkTask
      BY <2>1, <2>3
    <3> QED BY <2>2 DEF LinkTask
  <2>6. w[k].do # "mkdir" BY <2>1
  <2> QED BY <2>5, <2>6 DEF TaskSet
<1>3. w = [k \in 1 .. Len(assets) |-> w[k]] BY <1>1 DEF Links
<1> HIDE DEF w
<1>4. w \in Seq(TaskSet) /\ Len(w) = Len(assets) BY <1>1, <1>2, <1>3
<1>5. TasksOK(w) BY <1>2, <1>4 DEF TasksOK, Holds
<1> QED BY <1>5 DEF w

LEMMA Least == ASSUME NEW I \in SUBSET Nat, I # {} PROVE \E i \in I : \A j \in I : i <= j
<1>1. IsWellFoundedOn(OpToRel(<, Nat), Nat)
  BY NatLessThanWellFounded
<1>2. PICK i \in I : \A j \in I : ~ (<<j, i>> \in OpToRel(<, Nat))
  BY <1>1, WFMin, Zenon
<1>3. \A j \in I : j < i => <<j, i>> \in OpToRel(<, Nat)
  BY Zenon DEF OpToRel
<1>4. \A j \in I : ~ (j < i)
  BY <1>2, <1>3, Zenon
<1> QED BY <1>4

\* A plan's tasks are those of its units.
LEMMA FlattenOK ==
  ASSUME NEW seqs \in Seq(Seq(TaskSet)), \A i \in 1 .. Len(seqs) : TasksOK(seqs[i])
  PROVE  TasksOK(FlattenSeq(seqs))
<1> DEFINE N == Len(seqs)
           Next1(g, i) == IF i = 1 THEN seqs[i] ELSE g[i - 1] \o seqs[i]
           Solves(g, n) == /\ g = [i \in 1 .. N |-> g[i]]
                           /\ \A i \in 1 .. n : g[i] = Next1(g, i)
           Bad == {n \in 0 .. N : ~ \E g : Solves(g, n)}
<1>1. N \in Nat OBVIOUS
<1>2. \E g : Solves(g, 0)
  <2> DEFINE h == [i \in 1 .. N |-> 0]
  <2>1. Solves(h, 0) OBVIOUS
  <2> QED BY <2>1
<1>3. ASSUME NEW n \in 0 .. N - 1, NEW g, Solves(g, n)
      PROVE  \E h : Solves(h, n + 1)
  <2> DEFINE h == [i \in 1 .. N |-> IF i = n + 1 THEN Next1(g, i) ELSE g[i]]
  <2>1. \A i \in 1 .. n + 1 : Next1(h, i) = Next1(g, i) BY <1>1
  <2>2. \A i \in 1 .. n + 1 : h[i] = Next1(g, i)
    <3> SUFFICES ASSUME NEW i \in 1 .. n + 1 PROVE h[i] = Next1(g, i)
      OBVIOUS
    <3>1. i \in 1 .. N BY <1>1
    <3>2. CASE i = n + 1 BY <3>1, <3>2
    <3>3. CASE i # n + 1
      <4>1. i \in 1 .. n BY <3>3
      <4> QED BY <1>3, <3>1, <3>3, <4>1
    <3> QED BY <3>2, <3>3
  <2>3. h = [i \in 1 .. N |-> h[i]] OBVIOUS
  <2>4. Solves(h, n + 1)
    <3>1. \A i \in 1 .. n + 1 : h[i] = Next1(h, i) BY <2>1, <2>2
    <3> HIDE DEF h, Next1
    <3> QED BY <2>3, <3>1
  <2> QED BY <2>4
<1>4. Bad = {}
  <2> SUFFICES ASSUME Bad # {} PROVE FALSE
    OBVIOUS
  <2>1. Bad \in SUBSET Nat BY <1>1
  <2>2. PICK m \in Bad : \A l \in Bad : m <= l
    <3> HIDE DEF Bad
    <3> QED BY <2>1, Least
  <2>3. m # 0 BY <1>2
  <2>4. m - 1 \in 0 .. N - 1 BY <1>1, <2>3
  <2>5. m - 1 \notin Bad
    <3>1. m \in Nat BY <2>1
    <3> HIDE DEF Bad
    <3> QED BY <2>2, <3>1
  <2>6. \E g : Solves(g, m - 1) BY <1>1, <2>4, <2>5
  <2>7. \E g : Solves(g, m - 1 + 1)
    <3> HIDE DEF Solves
    <3> QED BY <1>3, <2>4, <2>6
  <2>8. m - 1 + 1 = m BY <2>1
  <2> QED BY <2>7, <2>8
<1>5. PICK f : Solves(f, N)
  <2> HIDE DEF Solves
  <2> QED BY <1>1, <1>4
<1>6. \E g : g = [i \in 1 .. Len(seqs) |-> IF i = 1 THEN seqs[i] ELSE g[i - 1] \o seqs[i]]
  <2>1. f = [i \in 1 .. N |-> Next1(f, i)] BY <1>5
  <2> QED BY <2>1
<1>7. CASE N = 0
  <2>1. FlattenSeq(seqs) = seqs BY <1>7 DEF FlattenSeq
  <2>2. seqs = <<>> BY <1>7
  <2> QED BY <2>1, <2>2, NoTasks
<1>8. CASE N # 0
  <2> DEFINE flat == CHOOSE g : g = [i \in 1 .. Len(seqs) |-> IF i = 1 THEN seqs[i] ELSE g[i - 1] \o seqs[i]]
  <2>1. flat = [i \in 1 .. Len(seqs) |-> IF i = 1 THEN seqs[i] ELSE flat[i - 1] \o seqs[i]]
    BY <1>6, Zenon
  <2>2. FlattenSeq(seqs) = flat[N] BY <1>8, Zenon DEF FlattenSeq
  <2> HIDE DEF flat
  <2> DEFINE Wrong == {i \in 1 .. N : ~ TasksOK(flat[i])}
  <2>3. Wrong = {}
    <3> SUFFICES ASSUME Wrong # {} PROVE FALSE
      OBVIOUS
    <3>1. Wrong \in SUBSET Nat BY <1>1
    <3>2. PICK m \in Wrong : \A l \in Wrong : m <= l
      <4> HIDE DEF Wrong
      <4> QED BY <3>1, Least
    <3>3. flat[m] = IF m = 1 THEN seqs[m] ELSE flat[m - 1] \o seqs[m] BY <2>1
    <3>4. m # 1 BY <3>3
    <3>5. m - 1 \in 1 .. N /\ m - 1 < m BY <1>1, <3>4
    <3>6. m - 1 \notin Wrong
      <4> HIDE DEF Wrong
      <4> QED BY <3>1, <3>2, <3>5
    <3>7. TasksOK(flat[m - 1]) /\ TasksOK(seqs[m]) BY <3>5, <3>6
    <3>8. TasksOK(flat[m - 1] \o seqs[m]) BY <3>7, CatOK
    <3> QED BY <3>3, <3>4, <3>8
  <2> QED BY <1>1, <1>8, <2>2, <2>3
<1> QED BY <1>7, <1>8

LEMMA BundlesOK == ASSUME NEW bundles \in Seq(EmittedPlugin) PROVE TasksOK(Bundles(bundles))
<1> DEFINE seqs == [k \in DOMAIN bundles |->
                      Under(bundles[k].dir, Writes(bundles[k].dir, bundles[k].files, TRUE))]
<1>1. DOMAIN bundles = 1 .. Len(bundles) /\ Len(bundles) \in Nat
      /\ \A k \in 1 .. Len(bundles) : bundles[k].dir \in Dirs /\ bundles[k].files \in Seq(EmittedFile)
  <2>1. DOMAIN bundles = 1 .. Len(bundles) /\ Len(bundles) \in Nat
        /\ \A k \in 1 .. Len(bundles) : bundles[k] \in EmittedPlugin
    OBVIOUS
  <2>2. \A b \in EmittedPlugin : b.dir \in Dirs /\ b.files \in Seq(EmittedFile) BY DEF EmittedPlugin
  <2> QED BY <2>1, <2>2
<1>2. ASSUME NEW k \in 1 .. Len(bundles) PROVE TasksOK(seqs[k]) /\ seqs[k] \in Seq(TaskSet)
  <2>1. PICK inside : inside = Writes(bundles[k].dir, bundles[k].files, TRUE) OBVIOUS
  <2>2. TasksOK(inside) BY <1>1, <2>1, WritesOK
  <2>3. TasksOK(Under(bundles[k].dir, inside)) BY <1>1, <2>2, UnderOK
  <2>4. seqs[k] = Under(bundles[k].dir, inside) BY <1>1, <2>1
  <2> QED BY <2>3, <2>4 DEF TasksOK
<1>3. Bundles(bundles) = FlattenSeq(seqs) BY Zenon DEF Bundles
<1>4. seqs = [k \in 1 .. Len(bundles) |-> seqs[k]] BY <1>1
<1> HIDE DEF seqs
<1>5. seqs \in Seq(Seq(TaskSet)) /\ Len(seqs) = Len(bundles) BY <1>1, <1>2, <1>4
<1> QED BY <1>2, <1>3, <1>5, FlattenOK

LEMMA UnitTasksOK == ASSUME NEW u \in UnitEmission PROVE TasksOK(UnitTasks(u))
<1>1. /\ u.dir \in Dirs /\ u.dirs \in Seq(Dirs) /\ u.files \in Seq(EmittedFile)
      /\ u.assets \in Seq(EmittedAsset) /\ u.bundles \in Seq(EmittedPlugin)
  BY DEF UnitEmission
<1>2. PICK dirs, files, links, bundles :
        /\ dirs = SubDirs(u.dirs) /\ files = Writes(u.dir, u.files, FALSE)
        /\ links = Links(u.dir, u.assets) /\ bundles = Bundles(u.bundles)
  OBVIOUS
<1>3. TasksOK(dirs) /\ TasksOK(files) /\ TasksOK(links) /\ TasksOK(bundles)
  BY <1>1, <1>2, SubDirsOK, WritesOK, LinksOK, BundlesOK
<1>4. TasksOK(dirs \o files) BY <1>3, CatOK
<1>5. TasksOK((dirs \o files) \o links) BY <1>3, <1>4, CatOK
<1>6. TasksOK(((dirs \o files) \o links) \o bundles) BY <1>3, <1>5, CatOK
<1>7. UnitTasks(u) = Under(u.dir, ((dirs \o files) \o links) \o bundles) BY <1>2 DEF UnitTasks
<1> QED BY <1>1, <1>6, <1>7, UnderOK

LEMMA TasksOfPlan == ASSUME NEW p \in Plans \cup {<<>>} PROVE TasksOK(Tasks(p))
<1> DEFINE seqs == [k \in DOMAIN p |-> UnitTasks(p[k])]
<1>1. p \in Seq(UnitEmission)
  <2>1. <<>> \in Seq(UnitEmission) OBVIOUS
  <2> QED BY <2>1, MaterializerAssumption
<1>2. DOMAIN p = 1 .. Len(p) /\ Len(p) \in Nat /\ \A k \in 1 .. Len(p) : p[k] \in UnitEmission
  BY <1>1
<1>3. \A k \in 1 .. Len(p) : TasksOK(seqs[k]) /\ seqs[k] \in Seq(TaskSet)
  <2>1. \A k \in 1 .. Len(p) : TasksOK(UnitTasks(p[k])) BY <1>2, UnitTasksOK
  <2>2. \A k \in 1 .. Len(p) : seqs[k] = UnitTasks(p[k]) BY <1>2
  <2> QED BY <2>1, <2>2 DEF TasksOK
<1>4. Tasks(p) = FlattenSeq(seqs) BY Zenon DEF Tasks
<1>5. seqs = [k \in 1 .. Len(p) |-> seqs[k]] BY <1>2
<1> HIDE DEF seqs
<1>6. seqs \in Seq(Seq(TaskSet)) /\ Len(seqs) = Len(p) BY <1>2, <1>3, <1>5
<1> QED BY <1>3, <1>4, <1>6, FlattenOK

LEMMA NoPlan == Tasks(<<>>) = <<>>
<1> DEFINE seqs == [k \in DOMAIN <<>> |-> UnitTasks(<<>>[k])]
<1>1. DOMAIN <<>> = 1 .. 0 OBVIOUS
<1>2. Tasks(<<>>) = FlattenSeq(seqs) BY Zenon DEF Tasks
<1>3. seqs = <<>> OBVIOUS
<1>4. Len(<<>>) = 0 OBVIOUS
<1> HIDE DEF seqs
<1> QED BY <1>2, <1>3, <1>4 DEF FlattenSeq

-----------------------------------------------------------------------------
(* Where things go.                                                        *)

LEMMA SourceFacts ==
  /\ Nowhere \notin Sources
  /\ \A s \in Sources : s[1] = Src /\ s[2] \in Content
<1>1. Sources \subseteq {Src} \X Content BY MaterializerAssumption, Zenon
<1>2. ASSUME NEW s \in Sources PROVE s[1] = Src /\ s[2] \in Content
  <2>1. s \in {Src} \X Content BY <1>1
  <2> QED BY <2>1
<1>3. Nowhere[1] # Src BY DEF Nowhere, Src
<1> QED BY <1>2, <1>3

LEMMA PlaceFacts ==
  ASSUME NEW l, l[1] \in Dirs
  PROVE  l \notin Sources /\ l[1] # Root /\ l # Nowhere
BY SourceFacts DEF Dirs

\* What a task of a plan is, and where.
LEMMA TaskFacts ==
  ASSUME NEW p \in Plans \cup {<<>>}, NEW k \in DOMAIN Tasks(p), NEW t, t = Tasks(p)[k]
  PROVE  /\ p \in Plans /\ t.at \in Planned /\ t.at[1] \in Dirs
         /\ t.do \in {"mkdir", "write", "link"}
         /\ t.do = "mkdir" => t \in MkdirTask /\ t.at[2] = ""
         /\ t.do = "write" => t \in WriteTask /\ t.at[2] # "" /\ t.at \in FilesOf
         /\ t.do = "link"  => t \in LinkTask /\ t.at[2] # "" /\ t.at \in LinksOf /\ t.at \in LinkedFrom(t.to)
<1>1. TasksOK(Tasks(p)) BY TasksOfPlan
<1>2. t \in TaskSet BY <1>1 DEF TasksOK
<1>3. Tasks(p) # <<>>
  <2>1. DOMAIN <<>> = {} OBVIOUS
  <2> QED BY <2>1
<1>4. p \in Plans BY <1>3, NoPlan
<1>5. t.at \in Planned
  <2>1. t.at \in {Tasks(p)[j].at : j \in DOMAIN Tasks(p)} OBVIOUS
  <2> QED BY <1>4, <2>1 DEF Planned
<1>6. /\ t \in MkdirTask => t.do = "mkdir" /\ t.at[1] \in Dirs /\ t.at[2] = ""
      /\ t \in WriteTask => t.do = "write" /\ t.at[1] \in Dirs /\ t.at[2] # ""
      /\ t \in LinkTask => t.do = "link" /\ t.at[1] \in Dirs /\ t.at[2] # ""
  BY DEF MkdirTask, WriteTask, LinkTask
<1>7. t \in MkdirTask \/ t \in WriteTask \/ t \in LinkTask BY <1>2 DEF TaskSet
<1>8. t.do = "write" => t.at \in FilesOf
  <2> SUFFICES ASSUME t.do = "write" PROVE t.at \in FilesOf
    OBVIOUS
  <2>1. t.at \in Simulated(Tasks(p)).written
    <3>1. k \in {j \in DOMAIN Tasks(p) : Tasks(p)[j].do = "write"} OBVIOUS
    <3>2. t.at \in {Tasks(p)[j].at : j \in {j \in DOMAIN Tasks(p) : Tasks(p)[j].do = "write"}} BY <3>1
    <3> QED BY <3>2 DEF Simulated
  <2> QED BY <1>4, <2>1 DEF FilesOf
<1>9. t.do = "link" => t.at \in LinksOf
  <2> SUFFICES ASSUME t.do = "link" PROVE t.at \in LinksOf
    OBVIOUS
  <2>1. t.at \in Simulated(Tasks(p)).linked
    <3>1. k \in {j \in DOMAIN Tasks(p) : Tasks(p)[j].do = "link"} OBVIOUS
    <3>2. t.at \in {Tasks(p)[j].at : j \in {j \in DOMAIN Tasks(p) : Tasks(p)[j].do = "link"}} BY <3>1
    <3> QED BY <3>2 DEF Simulated
  <2> QED BY <1>4, <2>1 DEF LinksOf
<1>10. t.do = "link" => t.at \in LinkedFrom(t.to)
  <2> SUFFICES ASSUME t.do = "link" PROVE t.at \in LinkedFrom(t.to)
    OBVIOUS
  <2>1. k \in {j \in DOMAIN Tasks(p) : Tasks(p)[j].do = "link" /\ Tasks(p)[j].to = t.to} OBVIOUS
  <2>2. t.at \in {Tasks(p)[j].at : j \in {j \in DOMAIN Tasks(p) : Tasks(p)[j].do = "link" /\ Tasks(p)[j].to = t.to}}
    BY <2>1
  <2> QED BY <1>4, <2>2 DEF LinkedFrom
<1> QED BY <1>4, <1>5, <1>6, <1>7, <1>8, <1>9, <1>10

\* A place where some plan has a file or a link is that of a task.
LEMMA PlacesAreTasks ==
  /\ \A l \in Planned : l[1] \in Dirs
  /\ \A l \in FilesOf \cup LinksOf : l \in Planned /\ l[2] # ""
  /\ \A to : LinkedFrom(to) \subseteq LinksOf
<1>1. ASSUME NEW l \in Planned PROVE l[1] \in Dirs
  <2>1. PICK p \in Plans : l \in {Tasks(p)[k].at : k \in DOMAIN Tasks(p)} BY <1>1, Zenon DEF Planned
  <2>2. PICK k \in DOMAIN Tasks(p) : l = Tasks(p)[k].at BY <2>1
  <2> QED BY <2>2, TaskFacts
<1>2. ASSUME NEW l \in FilesOf PROVE l \in Planned /\ l[2] # ""
  <2>1. PICK p \in Plans : l \in Simulated(Tasks(p)).written BY <1>2, Zenon DEF FilesOf
  <2>2. l \in {Tasks(p)[k].at : k \in {k \in DOMAIN Tasks(p) : Tasks(p)[k].do = "write"}} BY <2>1 DEF Simulated
  <2>3. PICK k \in DOMAIN Tasks(p) : Tasks(p)[k].do = "write" /\ l = Tasks(p)[k].at BY <2>2
  <2> QED BY <2>3, TaskFacts
<1>3. ASSUME NEW l \in LinksOf PROVE l \in Planned /\ l[2] # ""
  <2>1. PICK p \in Plans : l \in Simulated(Tasks(p)).linked BY <1>3, Zenon DEF LinksOf
  <2>2. l \in {Tasks(p)[k].at : k \in {k \in DOMAIN Tasks(p) : Tasks(p)[k].do = "link"}} BY <2>1 DEF Simulated
  <2>3. PICK k \in DOMAIN Tasks(p) : Tasks(p)[k].do = "link" /\ l = Tasks(p)[k].at BY <2>2
  <2> QED BY <2>3, TaskFacts
<1>4. ASSUME NEW to, NEW l \in LinkedFrom(to) PROVE l \in LinksOf
  <2> DEFINE D(p) == {k \in DOMAIN Tasks(p) : Tasks(p)[k].do = "link" /\ Tasks(p)[k].to = to}
  <2>1. PICK p \in Plans : l \in {Tasks(p)[k].at : k \in D(p)} BY <1>4, Zenon DEF LinkedFrom
  <2>2. PICK k \in DOMAIN Tasks(p) : Tasks(p)[k].do = "link" /\ l = Tasks(p)[k].at BY <2>1
  <2> QED BY <2>2, TaskFacts
<1> QED BY <1>1, <1>2, <1>3, <1>4

-----------------------------------------------------------------------------
(* What the steps do to the disk.                                          *)

Base == DiskInv /\ BuildInv /\ ResultInv /\ CleanInv /\ StuckInv

SameAt(m) == /\ m \in DOMAIN disk' <=> m \in DOMAIN disk
             /\ m \in DOMAIN disk => disk'[m] = disk[m]

LEMMA TaskNow ==
  ASSUME BuildInv, at <= Len(tasks)
  PROVE  /\ at \in DOMAIN tasks /\ Len(tasks) \in Nat /\ at \in Nat /\ plan \in Plans
         /\ Task.at \in Planned /\ Task.at[1] \in Dirs /\ Task.at \notin Sources
         /\ Task.do \in {"mkdir", "write", "link"}
         /\ Task.do = "mkdir" => /\ Task \in MkdirTask /\ Task.at[2] = ""
                                 /\ Holds(tasks, at)
         /\ Task.do = "write" => Task \in WriteTask /\ Task.at[2] # "" /\ Task.at \in FilesOf
         /\ Task.do = "link"  => /\ Task \in LinkTask /\ Task.at[2] # "" /\ Task.at \in LinksOf
                                 /\ Task.at \in LinkedFrom(Task.to)
<1>1. plan \in Plans \cup {<<>>} /\ tasks = Tasks(plan) /\ at \in 1 .. Len(tasks) + 1 BY DEF BuildInv
<1>2. TasksOK(tasks) BY <1>1, TasksOfPlan
<1>3. Len(tasks) \in Nat /\ DOMAIN tasks = 1 .. Len(tasks) BY <1>2 DEF TasksOK
<1>4. at \in DOMAIN tasks BY <1>1, <1>3
<1>5. Holds(tasks, at) BY <1>2, <1>3, <1>4 DEF TasksOK
<1>6. at \in DOMAIN Tasks(plan) /\ Task = Tasks(plan)[at] BY <1>1, <1>4 DEF Task
<1>7. /\ Task.at \in Planned /\ Task.at[1] \in Dirs
      /\ Task.do \in {"mkdir", "write", "link"}
      /\ Task.do = "mkdir" => Task \in MkdirTask /\ Task.at[2] = ""
      /\ Task.do = "write" => Task \in WriteTask /\ Task.at[2] # "" /\ Task.at \in FilesOf
      /\ Task.do = "link"  => /\ Task \in LinkTask /\ Task.at[2] # "" /\ Task.at \in LinksOf
                              /\ Task.at \in LinkedFrom(Task.to)
  <2> HIDE DEF Task
  <2> QED BY <1>1, <1>6, TaskFacts
<1>8. Task.at \notin Sources BY <1>7, PlaceFacts
<1>9. at \in Nat BY <1>1, <1>3
<1>10. plan \in Plans BY <1>1, <1>6, TaskFacts
<1> QED BY <1>10, <1>3, <1>4, <1>5, <1>7, <1>8, <1>9

\* A link leads to one of the user's files, or nowhere.
LEMMA FollowFacts ==
  ASSUME DiskInv, NEW l, l \notin Sources
  PROVE  /\ Follow(l) = l \/ (l \in LinksOf /\ l \in DOMAIN disk /\ disk[l].is = "link"
                              /\ Follow(l) = disk[l].to /\ l \in LinkedFrom(Follow(l))
                              /\ Follow(l) \in Sources \cup {Nowhere})
         /\ l \in DOMAIN disk /\ disk[l].is = "file" => Follow(l) = l
         /\ l \notin LinksOf /\ l \in DOMAIN disk => disk[l].is = "file"
<1>1. CASE l \in DOMAIN disk /\ disk[l].is = "link"
  <2>1. Follow(l) = disk[l].to /\ l \in LinkedFrom(disk[l].to) BY <1>1 DEF Follow, Has, DiskInv
  <2>2. l \in LinksOf BY <2>1, PlacesAreTasks
  <2>3. disk[l] \in Node BY <1>1 DEF DiskInv
  <2>4. disk[l].to \in Sources \cup {Nowhere} BY <1>1, <2>3 DEF Node
  <2> QED BY <1>1, <2>1, <2>2, <2>4
<1>2. CASE ~ (l \in DOMAIN disk /\ disk[l].is = "link")
  <2>1. l \in DOMAIN disk => disk[l] \in Node BY DEF DiskInv
  <2>2. l \in DOMAIN disk => disk[l].is = "file" BY <1>2, <2>1 DEF Node
  <2> QED BY <1>2, <2>2 DEF Follow, Has
<1> QED BY <1>1, <1>2

\* A file is written where the location leads.
LEMMA WriteDisk ==
  ASSUME DiskInv, NEW l \in FilesOf \cup LinksOf, Follow(l) # Nowhere, NEW c \in Texts,
         Put(Follow(l), File(c))
  PROVE  /\ DiskInv'
         /\ Follow(l) \in DOMAIN disk' /\ disk'[Follow(l)] = File(c)
         /\ \A m : m # Follow(l) => SameAt(m)
         /\ (IF l \in DOMAIN disk' /\ disk'[l].is = "link" THEN disk'[l].to ELSE l) = Follow(l)
<1> DEFINE f == Follow(l)
<1>1. disk' = [m \in DOMAIN disk \cup {f} |-> IF m = f THEN File(c) ELSE disk[m]]
  BY DEF Put, With
<1>2. l \notin Sources BY PlacesAreTasks, PlaceFacts
<1>3. f = l \/ (f \in Sources /\ l \in DOMAIN disk /\ disk[l].is = "link" /\ disk[l].to = f)
  BY <1>2, FollowFacts
<1>4. File(c) \in Node /\ File(c).is = "file" BY DEF File, Node
<1> HIDE DEF f
<1>5. /\ DOMAIN disk' = DOMAIN disk \cup {f} /\ disk'[f] = File(c)
      /\ \A m \in DOMAIN disk : m # f => disk'[m] = disk[m]
  BY <1>1
<1>6. DiskInv'
  <2>1. disk' \in [DOMAIN disk' -> Node] BY <1>1, <1>4, <1>5 DEF DiskInv
  <2>2. Sources \subseteq DOMAIN disk' /\ DOMAIN disk' \subseteq Sources \cup FilesOf \cup LinksOf
    BY <1>3, <1>5 DEF DiskInv
  <2>3. \A s \in Sources : disk'[s].is = "file" BY <1>4, <1>5 DEF DiskInv
  <2>4. \A m \in DOMAIN disk' : disk'[m].is = "link" => m \in LinkedFrom(disk'[m].to)
    BY <1>4, <1>5 DEF DiskInv
  <2> QED BY <2>1, <2>2, <2>3, <2>4 DEF DiskInv, FilesOf, LinksOf, LinkedFrom, Node, Texts
<1>7. \A m : m # f => SameAt(m) BY <1>5 DEF SameAt
<1>8. (IF l \in DOMAIN disk' /\ disk'[l].is = "link" THEN disk'[l].to ELSE l) = f
  <2>1. CASE f = l BY <1>4, <1>5, <2>1
  <2>2. CASE f # l BY <1>3, <1>5, <2>2
  <2> QED BY <2>1, <2>2
<1> QED BY <1>5, <1>6, <1>7, <1>8 DEF f

\* What is at a place of a link is removed.
LEMMA RemoveDisk ==
  ASSUME DiskInv, NEW l \in FilesOf \cup LinksOf, disk' = [m \in DOMAIN disk \ {l} |-> disk[m]]
  PROVE  DiskInv' /\ l \notin DOMAIN disk' /\ \A m : m # l => SameAt(m)
<1>1. l \notin Sources BY PlacesAreTasks, PlaceFacts
<1>2. DOMAIN disk' = DOMAIN disk \ {l} /\ \A m \in DOMAIN disk' : disk'[m] = disk[m] OBVIOUS
<1>3. DiskInv'
  <2>1. disk' \in [DOMAIN disk' -> Node] BY <1>2 DEF DiskInv
  <2>2. Sources \subseteq DOMAIN disk' /\ DOMAIN disk' \subseteq Sources \cup FilesOf \cup LinksOf
    BY <1>1, <1>2 DEF DiskInv
  <2>3. \A s \in Sources : disk'[s].is = "file" BY <1>2, <2>2 DEF DiskInv
  <2>4. \A m \in DOMAIN disk' : disk'[m].is = "link" => m \in LinkedFrom(disk'[m].to)
    BY <1>2 DEF DiskInv
  <2> QED BY <2>1, <2>2, <2>3, <2>4 DEF DiskInv, FilesOf, LinksOf, LinkedFrom, Node, Texts
<1> QED BY <1>2, <1>3 DEF SameAt

\* A link is made where there is nothing.
LEMMA LinkDisk ==
  ASSUME DiskInv, NEW l \in LinksOf, NEW to \in Sources \cup {Nowhere}, l \in LinkedFrom(to),
         Put(l, Link(to))
  PROVE  DiskInv' /\ l \in DOMAIN disk' /\ disk'[l] = Link(to) /\ \A m : m # l => SameAt(m)
<1>1. l \notin Sources BY PlacesAreTasks, PlaceFacts
<1>2. disk' = [m \in DOMAIN disk \cup {l} |-> IF m = l THEN Link(to) ELSE disk[m]]
  BY DEF Put, With
<1>3. Link(to) \in Node /\ Link(to).to = to BY DEF Link, Node
<1>4. /\ DOMAIN disk' = DOMAIN disk \cup {l} /\ disk'[l] = Link(to)
      /\ \A m \in DOMAIN disk : m # l => disk'[m] = disk[m]
  BY <1>2
<1>5. DiskInv'
  <2>1. disk' \in [DOMAIN disk' -> Node] BY <1>2, <1>3, <1>4 DEF DiskInv
  <2>2. Sources \subseteq DOMAIN disk' /\ DOMAIN disk' \subseteq Sources \cup FilesOf \cup LinksOf
    BY <1>4 DEF DiskInv
  <2>3. \A s \in Sources : disk'[s].is = "file" BY <1>1, <1>4, <2>2 DEF DiskInv
  <2>4. \A m \in DOMAIN disk' : disk'[m].is = "link" => m \in LinkedFrom(disk'[m].to)
    BY <1>3, <1>4 DEF DiskInv
  <2> QED BY <2>1, <2>2, <2>3, <2>4 DEF DiskInv, FilesOf, LinksOf, LinkedFrom, Node, Texts
<1> QED BY <1>4, <1>5 DEF SameAt

-----------------------------------------------------------------------------
(* The steps keep the state well-formed.                                   *)

Lists == {"written", "linked", "dirs", "errors"}

LEMMA FaultFacts ==
  ASSUME NEW places, FaultAt(places) \/ NoFault, faults \in 0 .. MaxFaults, clean \in BOOLEAN
  PROVE  /\ clean' \in BOOLEAN /\ faults' \in 0 .. MaxFaults /\ (clean' => clean /\ NoFault)
         /\ stuck \subseteq stuck' /\ stuck' \subseteq stuck \cup places
<1>1. MaxFaults \in Nat BY MaterializerAssumption, Zenon
<1>2. CASE FaultAt(places)
  <2>1. clean' = FALSE /\ faults' = faults + 1 /\ faults < MaxFaults /\ stuck' = stuck \cup places
    BY <1>2 DEF FaultAt
  <2>2. faults' \in 0 .. MaxFaults BY <1>1, <2>1
  <2> QED BY <2>1, <2>2
<1>3. CASE NoFault
  <2>1. clean' = clean /\ faults' = faults /\ stuck' = stuck BY <1>3 DEF NoFault
  <2> QED BY <1>3, <2>1
<1> QED BY <1>2, <1>3

LEMMA MostFaults ==
  ASSUME Fault \/ NoFault, faults \in 0 .. MaxFaults, clean \in BOOLEAN
  PROVE  /\ clean' \in BOOLEAN /\ faults' \in 0 .. MaxFaults /\ (clean' => clean /\ NoFault)
         /\ stuck' = stuck
<1>1. FaultAt({}) \/ NoFault BY DEF Fault
<1> QED BY <1>1, FaultFacts

\* A step that records something is through with its task.
LEMMA RecordBase ==
  ASSUME Base, at <= Len(tasks), doing # "idle", NEW list \in Lists, NEW to \in at + 1 .. Len(tasks) + 1,
         Record(list, to), Fault \/ NoFault, content' \in Texts,
         UNCHANGED <<mem, plan, setting, tasks, outcome, builds>>
  PROVE  BuildInv' /\ ResultInv' /\ CleanInv' /\ StuckInv'
<1>1. BuildInv /\ ResultInv /\ CleanInv /\ StuckInv BY DEF Base
<1>2. Task.at \in Locations /\ at \in Nat /\ Len(tasks) \in Nat
  BY <1>1, TaskNow DEF Locations
<1>3. result' = [result EXCEPT ![list] = @ \cup {Task.at}] /\ at' = to /\ doing' = "task"
  BY DEF Record
<1>4. clean' \in BOOLEAN /\ faults' \in 0 .. MaxFaults /\ stuck' = stuck
  BY <1>1, MostFaults DEF BuildInv
<1>5. at' \in 1 .. Len(tasks) + 1 BY <1>2, <1>3
<1>6. BuildInv' BY <1>1, <1>3, <1>4, <1>5 DEF BuildInv, LinksOf
<1>7. ResultInv' BY <1>1, <1>2, <1>3 DEF ResultInv, Lists
<1>8. CleanInv' BY <1>3 DEF CleanInv
<1>9. StuckInv' BY <1>3 DEF StuckInv
<1> QED BY <1>6, <1>7, <1>8, <1>9

LEMMA OpenBase ==
  ASSUME Base, at <= Len(tasks), doing \in {"task", "copy"}, Task.do \in {"write", "link"},
         NEW c \in Texts, Task.do = "write" => c = Task.content, Task.do = "link" => doing = "copy",
         Open(Task.at, c), UNCHANGED <<mem, plan, setting, tasks, outcome, builds>>
  PROVE  Base' /\ \A m : m \notin {Task.at, Follow(Task.at)} => SameAt(m)
<1>1. DiskInv /\ BuildInv /\ ResultInv /\ CleanInv /\ StuckInv BY DEF Base
<1>2. Task.at \notin Sources /\ Task.at \in FilesOf \cup LinksOf /\ at \in Nat /\ Len(tasks) \in Nat
  BY <1>1, TaskNow
<1>3. CASE CanWrite(Task.at) /\ Put(Follow(Task.at), File(Torn)) /\ content' = c /\ doing' = "opened"
           /\ NoFault /\ UNCHANGED <<at, result>>
  <2>0. Torn \in Texts BY DEF Texts
  <2>1. Follow(Task.at) # Nowhere /\ Torn \in Texts BY <1>3, <2>0 DEF CanWrite
  <2>2. /\ DiskInv' /\ \A m : m # Follow(Task.at) => SameAt(m)
        /\ (IF Task.at \in DOMAIN disk' /\ disk'[Task.at].is = "link" THEN disk'[Task.at].to ELSE Task.at)
             = Follow(Task.at)
    BY <1>1, <1>2, <1>3, <2>1, WriteDisk
  <2>3. Follow(Task.at) \in {Task.at} \cup Sources
    BY <1>1, <1>2, <2>1, FollowFacts
  <2>4. Task' = Task BY <1>3 DEF Task
  <2>5. (Follow(Task.at))' # Nowhere BY <2>1, <2>2, <2>4 DEF Follow, Has
  <2>6. clean' = clean /\ faults' = faults /\ stuck' = stuck BY <1>3 DEF NoFault
  <2>7. BuildInv' BY <1>1, <1>3, <2>4, <2>5, <2>6 DEF BuildInv, LinksOf
  <2>8. ResultInv' BY <1>1, <1>3 DEF ResultInv
  <2>9. CleanInv' BY <1>1, <1>3, <2>4, <2>6 DEF CleanInv
  <2>10. StuckInv'
    <3>1. Follow(Task.at)' = Follow(Task.at) BY <2>2, <2>4 DEF Follow, Has
    <3>2. Task.do = "link" => Follow(Task.at) = Task.at \/ Task.at \in stuck
      BY <1>1 DEF StuckInv, Follow
    <3> QED BY <1>3, <2>4, <2>6, <3>1, <3>2 DEF StuckInv
  <2> QED BY <2>2, <2>3, <2>7, <2>8, <2>9, <2>10 DEF Base
<1>4. CASE Record("errors", at + 1) /\ (Fault \/ NoFault) /\ UNCHANGED <<disk, content>>
  <2>1. at + 1 \in at + 1 .. Len(tasks) + 1 BY <1>2
  <2>2. doing # "idle" /\ content' \in Texts /\ "errors" \in Lists BY <1>1, <1>4 DEF BuildInv, Lists
  <2>3. BuildInv' /\ ResultInv' /\ CleanInv' /\ StuckInv' BY <1>4, <2>1, <2>2, RecordBase
  <2>4. DiskInv' BY <1>1, <1>4 DEF DiskInv, FilesOf, LinksOf, LinkedFrom, Node, Texts
  <2>5. \A m : SameAt(m) BY <1>4 DEF SameAt
  <2> QED BY <2>3, <2>4, <2>5 DEF Base
<1> QED BY <1>3, <1>4 DEF Open

LEMMA MkdirBase ==
  ASSUME Base, Mkdir
  PROVE  Base' /\ at <= Len(tasks) /\ \A m : SameAt(m)
<1>1. DiskInv /\ BuildInv /\ ResultInv /\ CleanInv /\ StuckInv BY DEF Base
<1>2. at <= Len(tasks) /\ doing = "task" /\ Task.do = "mkdir" /\ disk' = disk
  BY DEF Mkdir, Turn
<1>3. at \in Nat /\ Len(tasks) \in Nat /\ Task.holds \in Nat /\ at + Task.holds <= Len(tasks)
  BY <1>1, <1>2, TaskNow DEF MkdirTask, Holds, Task
<1>4. PICK list \in Lists, to \in at + 1 .. Len(tasks) + 1 : Record(list, to) /\ (Fault \/ NoFault)
  <2>1. at + 1 \in at + 1 .. Len(tasks) + 1 /\ at + 1 + Task.holds \in at + 1 .. Len(tasks) + 1
    BY <1>2, <1>3
  <2>2. "dirs" \in Lists /\ "errors" \in Lists BY DEF Lists
  <2> QED BY <2>1, <2>2 DEF Mkdir
<1>5. content' \in Texts /\ UNCHANGED <<mem, plan, setting, tasks, outcome, builds>>
  BY <1>1 DEF Mkdir, BuildInv
<1>6. BuildInv' /\ ResultInv' /\ CleanInv' /\ StuckInv' BY <1>2, <1>4, <1>5, RecordBase
<1>7. DiskInv' BY <1>1, <1>2 DEF DiskInv, FilesOf, LinksOf, LinkedFrom, Node, Texts
<1> QED BY <1>2, <1>6, <1>7 DEF Base, SameAt

LEMMA SkipBase ==
  ASSUME Base, Skip
  PROVE  Base' /\ at <= Len(tasks) /\ \A m : SameAt(m)
<1>1. DiskInv /\ BuildInv /\ ResultInv /\ CleanInv /\ StuckInv BY DEF Base
<1>2. at <= Len(tasks) /\ doing = "task" /\ disk' = disk /\ at' = at + 1
  BY DEF Skip, Turn
<1>3. at \in Nat /\ Len(tasks) \in Nat BY <1>1, <1>2, TaskNow
<1>4. at' \in 1 .. Len(tasks) + 1 BY <1>2, <1>3
<1>5. BuildInv' BY <1>1, <1>2, <1>4 DEF BuildInv, Skip, LinksOf
<1>6. ResultInv' BY <1>1 DEF ResultInv, Skip
<1>7. CleanInv' BY <1>2 DEF CleanInv, Skip
<1>8. DiskInv' BY <1>1, <1>2 DEF DiskInv, FilesOf, LinksOf, LinkedFrom, Node, Texts
<1>9. StuckInv' BY <1>2 DEF StuckInv, Skip
<1> QED BY <1>2, <1>5, <1>6, <1>7, <1>8, <1>9 DEF Base, SameAt

LEMMA WriteFileBase ==
  ASSUME Base, WriteFile
  PROVE  Base' /\ at <= Len(tasks) /\ \A m : m \notin {Task.at, Follow(Task.at)} => SameAt(m)
<1>1. at <= Len(tasks) /\ doing = "task" /\ Task.do = "write" BY DEF WriteFile, Turn
<1>2. Task.content \in Texts BY <1>1, TaskNow DEF Base, WriteTask, Texts
<1>3. Open(Task.at, Task.content) /\ UNCHANGED <<mem, plan, setting, tasks, outcome, builds>>
  BY DEF WriteFile
<1> QED BY <1>1, <1>2, <1>3, OpenBase

LEMMA CopyFallbackBase ==
  ASSUME Base, CopyFallback
  PROVE  Base' /\ at <= Len(tasks) /\ \A m : m \notin {Task.at, Follow(Task.at)} => SameAt(m)
<1>1. DiskInv /\ BuildInv /\ ResultInv /\ CleanInv /\ StuckInv BY DEF Base
<1>2. at <= Len(tasks) /\ doing = "copy" /\ Task.do = "link" BY <1>1 DEF CopyFallback, Turn, BuildInv
<1>3. UNCHANGED <<mem, plan, setting, tasks, outcome, builds>> BY DEF CopyFallback
<1>4. CASE Has(Task.source)
  <2>1. Open(Task.at, ReadFile(Task.source)) BY <1>4 DEF CopyFallback
  <2>2. Task.source \in Sources \cup {Nowhere} BY <1>1, <1>2, TaskNow DEF LinkTask
  <2>3. Task.source \in Sources
    <3>1. Nowhere \notin FilesOf \cup LinksOf BY PlacesAreTasks, PlaceFacts
    <3>2. Nowhere \notin DOMAIN disk BY <1>1, <3>1, SourceFacts DEF DiskInv
    <3> QED BY <1>4, <2>2, <3>2 DEF Has
  <2>4. ReadFile(Task.source) = disk[Task.source].content
    BY <1>1, <1>4, <2>3 DEF ReadFile, Follow, Has, DiskInv
  <2>5. disk[Task.source] \in Node /\ disk[Task.source].is = "file"
    BY <1>1, <1>4, <2>3 DEF DiskInv, Has
  <2>6. ReadFile(Task.source) \in Texts BY <2>4, <2>5 DEF Node
  <2> QED BY <1>2, <1>3, <2>1, <2>6, OpenBase
<1>5. CASE ~ Has(Task.source)
  <2>1. Record("errors", at + 1) /\ NoFault /\ UNCHANGED <<disk, content>> BY <1>5 DEF CopyFallback
  <2>2. at \in Nat /\ Len(tasks) \in Nat BY <1>1, <1>2, TaskNow
  <2>3. at + 1 \in at + 1 .. Len(tasks) + 1 BY <1>2, <2>2
  <2>4. content' \in Texts /\ "errors" \in Lists BY <1>1, <2>1 DEF BuildInv, Lists
  <2>5. BuildInv' /\ ResultInv' /\ CleanInv' /\ StuckInv' BY <1>2, <1>3, <2>1, <2>3, <2>4, RecordBase
  <2>6. DiskInv' BY <1>1, <2>1 DEF DiskInv, FilesOf, LinksOf, LinkedFrom, Node, Texts
  <2>7. \A m : SameAt(m) BY <2>1 DEF SameAt
  <2> QED BY <1>2, <2>5, <2>6, <2>7 DEF Base
<1> QED BY <1>4, <1>5

LEMMA FinishWriteBase ==
  ASSUME Base, FinishWrite
  PROVE  /\ Base' /\ at <= Len(tasks) /\ \A m : m \notin {Task.at, Follow(Task.at)} => SameAt(m)
         /\ Task.do \in {"write", "link"}
<1>1. DiskInv /\ BuildInv /\ ResultInv /\ CleanInv /\ StuckInv BY DEF Base
<1>2. at <= Len(tasks) /\ doing = "opened" BY DEF FinishWrite, Turn
<1>3. Task.do \in {"write", "link"} /\ Follow(Task.at) # Nowhere BY <1>1, <1>2 DEF BuildInv
<1>4. /\ Task.at \notin Sources /\ Task.at \in FilesOf \cup LinksOf
      /\ at + 1 \in at + 1 .. Len(tasks) + 1
  <2>1. Task.at \notin Sources /\ Task.at \in FilesOf \cup LinksOf /\ at \in Nat /\ Len(tasks) \in Nat
    BY <1>1, <1>2, <1>3, TaskNow
  <2> QED BY <1>2, <2>1
<1>5. PICK list \in {"linked", "written"} : Finished(list)
  BY DEF FinishWrite
<1>6. /\ content' = Missing /\ UNCHANGED <<mem, plan, setting, tasks, outcome, builds>>
      /\ content' \in Texts
  BY DEF FinishWrite, Texts
<1>7. \E to \in {list, "errors"} : Record(to, at + 1) BY <1>5 DEF Finished
<1>8. Fault \/ NoFault BY <1>5 DEF Finished
<1>9. {list, "errors"} \subseteq Lists BY DEF Lists
<1>10. BuildInv' /\ ResultInv' /\ CleanInv' /\ StuckInv'
  BY <1>2, <1>4, <1>6, <1>7, <1>8, <1>9, RecordBase
<1>11. DiskInv' /\ \A m : m \notin {Task.at, Follow(Task.at)} => SameAt(m)
  <2>1. CASE Put(Follow(Task.at), File(content))
    <3>1. content \in Texts BY <1>1 DEF BuildInv
    <3>2. DiskInv' /\ \A m : m # Follow(Task.at) => SameAt(m)
      BY <1>1, <1>3, <1>4, <2>1, <3>1, WriteDisk
    <3>3. Follow(Task.at) \in {Task.at} \cup Sources BY <1>1, <1>3, <1>4, FollowFacts
    <3> QED BY <3>2, <3>3
  <2>2. CASE UNCHANGED disk
    <3>1. DiskInv' BY <1>1, <2>2 DEF DiskInv, FilesOf, LinksOf, LinkedFrom, Node, Texts
    <3> QED BY <2>2, <3>1 DEF SameAt
  <2> QED BY <1>5, <2>1, <2>2 DEF Finished
<1> QED BY <1>2, <1>3, <1>10, <1>11 DEF Base

LEMMA RemoveDestBase ==
  ASSUME Base, RemoveDest
  PROVE  Base' /\ at <= Len(tasks) /\ \A m : m \notin {Task.at, Follow(Task.at)} => SameAt(m)
<1>1. DiskInv /\ BuildInv /\ ResultInv /\ CleanInv /\ StuckInv BY DEF Base
<1>2. at <= Len(tasks) /\ doing = "task" /\ Task.do = "link" BY DEF RemoveDest, Turn
<1>3. Task.at \in LinksOf /\ at \in Nat /\ Len(tasks) \in Nat BY <1>1, <1>2, TaskNow
<1>4. UNCHANGED <<mem, plan, setting, tasks, content, outcome, builds>> BY DEF RemoveDest
<1>5. CASE Record("errors", at + 1) /\ Fault /\ UNCHANGED disk
  <2>1. at + 1 \in at + 1 .. Len(tasks) + 1 BY <1>2, <1>3
  <2>2. content' \in Texts /\ "errors" \in Lists BY <1>1, <1>4 DEF BuildInv, Lists
  <2>3. BuildInv' /\ ResultInv' /\ CleanInv' /\ StuckInv' BY <1>2, <1>4, <1>5, <2>1, <2>2, RecordBase
  <2>4. DiskInv' BY <1>1, <1>5 DEF DiskInv, FilesOf, LinksOf, LinkedFrom, Node, Texts
  <2> QED BY <1>2, <1>5, <2>3, <2>4 DEF Base, SameAt
<1>6. CASE doing' = "removed" /\ UNCHANGED <<at, result>>
           /\ \/ disk' = [l \in DOMAIN disk \ {Task.at} |-> disk[l]] /\ NoFault
              \/ UNCHANGED disk /\ FaultAt({Task.at})
  <2>1. /\ clean' \in BOOLEAN /\ faults' \in 0 .. MaxFaults /\ (clean' => clean /\ NoFault)
        /\ stuck \subseteq stuck' /\ stuck' \subseteq stuck \cup {Task.at}
    BY <1>1, <1>6, FaultFacts DEF BuildInv
  <2>2. Task' = Task BY <1>4, <1>6 DEF Task
  <2>7. stuck' \subseteq LinksOf BY <1>1, <1>3, <2>1 DEF BuildInv
  <2>3. BuildInv' BY <1>1, <1>2, <1>4, <1>6, <2>1, <2>2, <2>7 DEF BuildInv, LinksOf
  <2>4. ResultInv' BY <1>1, <1>6 DEF ResultInv
  <2>5. DiskInv' /\ \A m : m # Task.at => SameAt(m)
    <3>1. CASE UNCHANGED disk
      BY <1>1, <3>1 DEF DiskInv, FilesOf, LinksOf, LinkedFrom, Node, Texts, SameAt
    <3>2. CASE disk' = [l \in DOMAIN disk \ {Task.at} |-> disk[l]]
      BY <1>1, <1>3, <3>2, RemoveDisk
    <3> QED BY <1>6, <3>1, <3>2
  <2>6. CleanInv'
    <3>1. clean' => Task.at \notin DOMAIN disk'
      <4>1. CASE FaultAt({Task.at}) BY <4>1 DEF FaultAt
      <4>2. CASE disk' = [l \in DOMAIN disk \ {Task.at} |-> disk[l]] BY <4>2
      <4> QED BY <1>6, <4>1, <4>2
    <3> QED BY <1>6, <2>2, <3>1 DEF CleanInv, Has
  <2>8. StuckInv'
    <3>1. Task.at \notin DOMAIN disk' \/ Task.at \in stuck'
      <4>1. CASE FaultAt({Task.at}) BY <4>1 DEF FaultAt
      <4>2. CASE disk' = [l \in DOMAIN disk \ {Task.at} |-> disk[l]] BY <4>2
      <4> QED BY <1>6, <4>1, <4>2
    <3> QED BY <1>6, <2>2, <3>1 DEF StuckInv, Has
  <2> QED BY <1>2, <2>3, <2>4, <2>5, <2>6, <2>8 DEF Base
<1> QED BY <1>5, <1>6 DEF RemoveDest

LEMMA SymlinkBase ==
  ASSUME Base, Symlink
  PROVE  /\ Base' /\ at <= Len(tasks) /\ Task.do = "link"
         /\ \A m : m \notin {Task.at, Follow(Task.at)} => SameAt(m)
<1>1. DiskInv /\ BuildInv /\ ResultInv /\ CleanInv /\ StuckInv BY DEF Base
<1>2. at <= Len(tasks) /\ doing = "removed" /\ Task.do = "link" BY <1>1 DEF Symlink, Turn, BuildInv
<1>3. /\ Task.at \in LinksOf /\ Task.at \in LinkedFrom(Task.to) /\ Task.to \in Sources \cup {Nowhere}
      /\ at \in Nat /\ Len(tasks) \in Nat
  BY <1>1, <1>2, TaskNow DEF LinkTask
<1>4. UNCHANGED <<mem, plan, setting, tasks, content, outcome, builds>> BY DEF Symlink
<1>5. CASE ~ Has(Task.at) /\ Put(Task.at, Link(Task.to)) /\ Record("linked", at + 1) /\ NoFault
  <2>1. at + 1 \in at + 1 .. Len(tasks) + 1 BY <1>2, <1>3
  <2>2. content' \in Texts /\ "linked" \in Lists BY <1>1, <1>4 DEF BuildInv, Lists
  <2>3. BuildInv' /\ ResultInv' /\ CleanInv' /\ StuckInv' BY <1>2, <1>4, <1>5, <2>1, <2>2, RecordBase
  <2>4. DiskInv' /\ \A m : m # Task.at => SameAt(m) BY <1>1, <1>3, <1>5, LinkDisk
  <2> QED BY <1>2, <2>3, <2>4 DEF Base
<1>6. CASE doing' = "copy" /\ UNCHANGED <<disk, at, result>> /\ ((Has(Task.at) /\ NoFault) \/ Fault)
  <2>1. /\ clean' \in BOOLEAN /\ faults' \in 0 .. MaxFaults /\ (clean' => clean /\ NoFault)
        /\ stuck' = stuck
    BY <1>1, <1>6, MostFaults DEF BuildInv
  <2>2. Task' = Task BY <1>4, <1>6 DEF Task
  <2>3. BuildInv' BY <1>1, <1>2, <1>4, <1>6, <2>1, <2>2 DEF BuildInv, LinksOf
  <2>4. ResultInv' BY <1>1, <1>6 DEF ResultInv
  <2>5. DiskInv' /\ \A m : m # Task.at => SameAt(m)
    BY <1>1, <1>6 DEF DiskInv, FilesOf, LinksOf, LinkedFrom, Node, Texts, SameAt
  <2>6. ~ clean'
    <3>1. CASE Fault BY <3>1 DEF Fault, FaultAt
    <3>2. CASE Has(Task.at) /\ NoFault BY <1>1, <1>2, <3>2 DEF CleanInv, NoFault
    <3> QED BY <1>6, <3>1, <3>2
  <2>7. CleanInv' BY <2>6 DEF CleanInv
  <2>8. StuckInv' BY <1>1, <1>2, <1>6, <2>1, <2>2 DEF StuckInv, Has
  <2> QED BY <1>2, <2>3, <2>4, <2>5, <2>7, <2>8 DEF Base
<1> QED BY <1>5, <1>6 DEF Symlink

LEMMA ExecuteBase ==
  ASSUME Base, Execute
  PROVE  Base' /\ \A m : SameAt(m)
<1>1. DiskInv /\ BuildInv /\ ResultInv /\ CleanInv /\ StuckInv BY DEF Base
<1>2. /\ disk' = disk /\ doing' = "idle" /\ outcome' \in {"refused", "done"}
      /\ UNCHANGED <<plan, setting, tasks, at, content, clean, stuck, builds, faults>>
      /\ result' = [result EXCEPT !.errors = result'.errors]
      /\ result'.errors \subseteq result.errors \cup {At(Root, "")}
  <2> DEFINE e == result.errors \cup (IF result.errors = {} /\ setting.mode # "build-only" THEN {At(Root, "")} ELSE {})
  <2>1. result' = [result EXCEPT !.errors = e] BY DEF Execute
  <2>2. outcome' = IF e # {} /\ setting.failFast THEN "refused" ELSE "done" BY Zenon DEF Execute
  <2>3. disk' = disk /\ doing' = "idle"
        /\ UNCHANGED <<plan, setting, tasks, at, content, clean, stuck, builds, faults>>
    BY DEF Execute
  <2>4. e \subseteq result.errors \cup {At(Root, "")} OBVIOUS
  <2> HIDE DEF e
  <2>5. result'.errors = e BY <1>1, <2>1 DEF ResultInv
  <2> QED BY <2>1, <2>2, <2>3, <2>4, <2>5
<1>3. BuildInv' BY <1>1, <1>2 DEF BuildInv, LinksOf
<1>4. ResultInv'
  <2>1. result'.errors \in SUBSET Locations BY <1>1, <1>2 DEF ResultInv, Locations
  <2> QED BY <1>1, <1>2, <2>1 DEF ResultInv
<1>5. CleanInv' BY <1>2 DEF CleanInv
<1>6. disk' = disk BY <1>2
<1>7. DiskInv' BY <1>1, <1>6 DEF DiskInv, FilesOf, LinksOf, LinkedFrom, Node, Texts
<1>8. StuckInv' BY <1>2 DEF StuckInv
<1> QED BY <1>3, <1>4, <1>5, <1>6, <1>7, <1>8 DEF Base, SameAt

LEMMA CrashBase ==
  ASSUME Base, Crash
  PROVE  Base' /\ \A m : SameAt(m)
<1>1. DiskInv /\ BuildInv /\ ResultInv /\ CleanInv /\ StuckInv BY DEF Base
<1>2. clean' \in BOOLEAN /\ faults' \in 0 .. MaxFaults /\ stuck' = stuck
  BY <1>1, MostFaults DEF BuildInv, Crash
<1>3. BuildInv' BY <1>1, <1>2 DEF BuildInv, Crash, LinksOf
<1>4. ResultInv' BY <1>1 DEF ResultInv, Crash
<1>5. CleanInv' BY DEF CleanInv, Crash
<1>6. DiskInv' BY <1>1 DEF DiskInv, FilesOf, LinksOf, LinkedFrom, Node, Texts, Crash
<1>7. StuckInv' BY DEF StuckInv, Crash
<1> QED BY <1>3, <1>4, <1>5, <1>6, <1>7 DEF Base, SameAt, Crash

LEMMA SimulatedIn ==
  ASSUME NEW p \in Plans
  PROVE  Simulated(Tasks(p)) \in [written : SUBSET Locations, linked : SUBSET Locations,
                                  dirs : SUBSET Locations, errors : SUBSET Locations]
<1>1. \A k \in DOMAIN Tasks(p) : Tasks(p)[k].at \in Locations BY TaskFacts DEF Locations
<1>2. \A what : {Tasks(p)[k].at : k \in {k \in DOMAIN Tasks(p) : Tasks(p)[k].do = what}} \subseteq Locations
  BY <1>1
<1> QED BY <1>2 DEF Simulated

LEMMA BeginBase ==
  ASSUME Base, Begin
  PROVE  Base' /\ \A m : SameAt(m)
<1>1. DiskInv /\ BuildInv /\ ResultInv /\ CleanInv /\ StuckInv BY DEF Base
<1>2. PICK p \in Plans, s \in Settings :
        /\ plan' = p /\ setting' = s /\ tasks' = Tasks(p)
        /\ IF s.dryRun
             THEN doing' = "idle" /\ result' = Simulated(Tasks(p)) /\ outcome' = "simulated"
             ELSE doing' = "task" /\ result' = NoResult /\ outcome' = "running"
  BY DEF Begin
<1>3. at' = 1 /\ builds < MaxBuilds /\ builds' = builds + 1 /\ UNCHANGED <<disk, mem, content, clean, stuck, faults>>
  BY DEF Begin
<1>4. TasksOK(Tasks(p)) BY TasksOfPlan
<1>5. Len(Tasks(p)) \in Nat BY <1>4 DEF TasksOK
<1>6. builds' \in 0 .. MaxBuilds
  <2>1. MaxBuilds \in Nat BY MaterializerAssumption, Zenon
  <2> QED BY <1>1, <1>3, <2>1 DEF BuildInv
<1>7. BuildInv' BY <1>1, <1>2, <1>3, <1>5, <1>6 DEF BuildInv, LinksOf
<1>8. ResultInv'
  <2>1. CASE s.dryRun BY <1>2, <2>1, SimulatedIn DEF ResultInv
  <2>2. CASE ~ s.dryRun
    <3>1. {} \in SUBSET Locations OBVIOUS
    <3>2. result' = NoResult BY <1>2, <2>2
    <3> QED BY <3>1, <3>2 DEF ResultInv, NoResult
  <2> QED BY <2>1, <2>2
<1>9. CleanInv' BY <1>2 DEF CleanInv
<1>10. DiskInv' BY <1>1, <1>3 DEF DiskInv, FilesOf, LinksOf, LinkedFrom, Node, Texts
<1>11. StuckInv' BY <1>2 DEF StuckInv
<1> QED BY <1>3, <1>7, <1>8, <1>9, <1>10, <1>11 DEF Base, SameAt

LEMMA InitBase == Init => Base
<1> SUFFICES ASSUME Init PROVE Base
  OBVIOUS
<1>1. disk = [s \in Sources |-> File(s[2])] BY DEF Init
<1>2. \A s \in Sources : File(s[2]) \in Node /\ File(s[2]).is = "file"
  BY SourceFacts DEF File, Node, Texts
<1>3. DiskInv BY <1>1, <1>2 DEF DiskInv
<1>4. Len(<<>>) = 0 OBVIOUS
<1>5. MaxBuilds \in Nat /\ MaxFaults \in Nat BY MaterializerAssumption, Zenon
<1>6. BuildInv BY <1>4, <1>5, NoPlan DEF Init, BuildInv, Texts
<1>7. ResultInv
  <2>1. {} \in SUBSET Locations OBVIOUS
  <2> QED BY <2>1 DEF ResultInv, NoResult, Init
<1>8. CleanInv BY DEF CleanInv, Init
<1>9. StuckInv BY DEF StuckInv, Init
<1> QED BY <1>3, <1>6, <1>7, <1>8, <1>9 DEF Base

\* Away from its task's location and where that leads, a step changes nothing.
Elsewhere == \A m : m \notin {Task.at, Follow(Task.at)} => SameAt(m)

LEMMA WorkBase ==
  ASSUME Base, Work
  PROVE  Base' /\ (Elsewhere \/ \A m : SameAt(m))
BY MkdirBase, SkipBase, WriteFileBase, FinishWriteBase, RemoveDestBase, SymlinkBase, CopyFallbackBase, ExecuteBase
DEF Work, Elsewhere

LEMMA StutterBase == ASSUME Base, UNCHANGED vars PROVE Base'
<1>1. DiskInv' BY DEF Base, DiskInv, FilesOf, LinksOf, LinkedFrom, Node, Texts, vars
<1>2. BuildInv' BY DEF Base, BuildInv, Task, Follow, Has, LinksOf, vars
<1>3. ResultInv' BY DEF Base, ResultInv, vars
<1>4. CleanInv' BY DEF Base, CleanInv, Task, Has, vars
<1>5. StuckInv' BY DEF Base, StuckInv, Task, Follow, Has, vars
<1> QED BY <1>1, <1>2, <1>3, <1>4, <1>5 DEF Base

LEMMA NextBase == Base /\ [Next]_vars => Base'
BY WorkBase, BeginBase, CrashBase, StutterBase DEF Next

LEMMA BaseIsInvariant == Spec => []Base
BY InitBase, NextBase, PTL DEF Spec

-----------------------------------------------------------------------------
(* The user's files.                                                       *)

LEMMA SourcesStep ==
  ASSUME Base, SourcesAreUntouched, stuck \subseteq stuck',
         \A s \in Sources : SameAt(s) \/ LinkedFrom(s) \cap (FilesOf \cup stuck) # {}
  PROVE  SourcesAreUntouched'
<1> SUFFICES ASSUME NEW s \in Sources, disk'[s] # File(s[2])
             PROVE  LinkedFrom(s) \cap (FilesOf \cup stuck') # {}
  BY DEF SourcesAreUntouched, LinkedFrom, FilesOf, File
<1>1. CASE SameAt(s)
  <2>1. s \in DOMAIN disk BY DEF Base, DiskInv
  <2>2. disk[s] # File(s[2]) BY <1>1, <2>1 DEF SameAt
  <2>3. LinkedFrom(s) \cap (FilesOf \cup stuck) # {} BY <2>2 DEF SourcesAreUntouched
  <2> QED BY <2>3
<1> QED BY <1>1

\* A write that gets at one of the user's files goes through a link.
LEMMA WriteThrough ==
  ASSUME Base, at <= Len(tasks), Task.do \in {"write", "link"},
         Task.do = "link" => Follow(Task.at) = Task.at \/ Task.at \in stuck,
         NEW s \in Sources, s = Follow(Task.at)
  PROVE  LinkedFrom(s) \cap (FilesOf \cup stuck) # {}
<1>1. Task.at \notin Sources /\ (Task.do = "write" => Task.at \in FilesOf)
  BY TaskNow DEF Base
<1>2. Task.at \in LinkedFrom(s) BY <1>1, FollowFacts DEF Base
<1>3. Task.at \in FilesOf \cup stuck BY <1>1
<1> QED BY <1>2, <1>3

LEMMA SourcesNext == Base /\ SourcesAreUntouched /\ [Next]_vars => SourcesAreUntouched'
<1> SUFFICES ASSUME Base, SourcesAreUntouched, [Next]_vars PROVE SourcesAreUntouched'
  OBVIOUS
<1>1. BuildInv /\ CleanInv /\ StuckInv BY DEF Base
<1>2. stuck \subseteq stuck'
  BY <1>1 DEF BuildInv, Next, Work, Begin, Mkdir, Skip, WriteFile, Open, FinishWrite, Finished, RemoveDest, Symlink, CopyFallback,
         Execute, Crash, Fault, FaultAt, NoFault, vars
<1>3. CASE \A m : SameAt(m)
  BY <1>2, <1>3, SourcesStep
<1>4. ASSUME Elsewhere, at <= Len(tasks), Task.do \in {"write", "link"},
             Task.do = "link" => Follow(Task.at) = Task.at \/ Task.at \in stuck
      PROVE  SourcesAreUntouched'
  <2>1. ASSUME NEW s \in Sources PROVE SameAt(s) \/ LinkedFrom(s) \cap (FilesOf \cup stuck) # {}
    <3>1. CASE s = Follow(Task.at) BY <1>4, <3>1, WriteThrough
    <3>2. CASE s # Follow(Task.at)
      <4>1. Task.at \notin Sources BY <1>1, <1>4, TaskNow
      <4> QED BY <1>4, <3>2, <4>1 DEF Elsewhere
    <3> QED BY <3>1, <3>2
  <2> QED BY <1>2, <2>1, SourcesStep
<1>5. ASSUME \A m : m # Task.at => SameAt(m), at <= Len(tasks)
      PROVE  SourcesAreUntouched'
  <2>1. Task.at \notin Sources BY <1>1, <1>5, TaskNow
  <2>2. \A s \in Sources : SameAt(s) BY <1>5, <2>1
  <2> QED BY <1>2, <2>2, SourcesStep
<1>6. CASE Begin BY <1>3, <1>6, BeginBase
<1>7. CASE Mkdir BY <1>3, <1>7, MkdirBase
<1>8. CASE Skip BY <1>3, <1>8, SkipBase
<1>9. CASE WriteFile
  <2>1. Elsewhere /\ at <= Len(tasks) BY <1>9, WriteFileBase DEF Elsewhere
  <2>2. Task.do = "write" BY <1>9 DEF WriteFile
  <2> QED BY <1>4, <2>1, <2>2
<1>10. CASE FinishWrite
  <2>1. Elsewhere /\ at <= Len(tasks) /\ Task.do \in {"write", "link"} BY <1>10, FinishWriteBase DEF Elsewhere
  <2>2. Task.do = "link" => Follow(Task.at) = Task.at \/ Task.at \in stuck
    BY <1>1, <1>10 DEF FinishWrite, Turn, StuckInv
  <2> QED BY <1>4, <2>1, <2>2
<1>11. CASE RemoveDest
  <2>1. at <= Len(tasks) /\ Task.do = "link" BY <1>11 DEF RemoveDest, Turn
  <2>2. Task.at \in LinksOf BY <1>1, <2>1, TaskNow
  <2>3. \A m : m # Task.at => SameAt(m)
    <3>1. CASE UNCHANGED disk BY <3>1 DEF SameAt
    <3>2. CASE disk' = [l \in DOMAIN disk \ {Task.at} |-> disk[l]] BY <2>2, <3>2, RemoveDisk DEF Base
    <3> QED BY <1>11, <3>1, <3>2 DEF RemoveDest
  <2> QED BY <1>5, <2>1, <2>3
<1>12. CASE Symlink
  <2>1. at <= Len(tasks) /\ Task.do = "link" BY <1>12, SymlinkBase
  <2>2. /\ Task.at \in LinksOf /\ Task.at \in LinkedFrom(Task.to) /\ Task.to \in Sources \cup {Nowhere}
    BY <1>1, <2>1, TaskNow DEF LinkTask
  <2>3. \A m : m # Task.at => SameAt(m)
    <3>1. CASE UNCHANGED disk BY <3>1 DEF SameAt
    <3>2. CASE Put(Task.at, Link(Task.to)) BY <2>2, <3>2, LinkDisk DEF Base
    <3> QED BY <1>12, <3>1, <3>2 DEF Symlink
  <2> QED BY <1>5, <2>1, <2>3
<1>13. CASE CopyFallback
  <2>1. Elsewhere /\ at <= Len(tasks) BY <1>13, CopyFallbackBase DEF Elsewhere
  <2>2. Task.do = "link" BY <1>1, <1>13 DEF CopyFallback, Turn, BuildInv
  <2>3. Follow(Task.at) = Task.at \/ Task.at \in stuck BY <1>1, <1>13 DEF CopyFallback, Turn, StuckInv, Follow
  <2> QED BY <1>4, <2>1, <2>2, <2>3
<1>14. CASE Execute BY <1>3, <1>14, ExecuteBase
<1>15. CASE Crash BY <1>3, <1>15, CrashBase
<1>16. CASE UNCHANGED vars
  <2>1. disk' = disk BY <1>16 DEF vars
  <2> QED BY <1>3, <2>1 DEF SameAt
<1> QED BY <1>6, <1>7, <1>8, <1>9, <1>10, <1>11, <1>12, <1>13, <1>14, <1>15, <1>16 DEF Next, Work

\* The user's files are what they were: a write gets at one only through a link to
\* it, at a place where some plan has a file or where a removal has failed
\* (materializer.writeFileIfChanged, copyOrSymlink).
THEOREM UserFilesAreSafe == Spec => []SourcesAreUntouched
<1>1. Init => SourcesAreUntouched
  <2> SUFFICES ASSUME Init, NEW s \in Sources PROVE disk[s] = File(s[2])
    BY DEF SourcesAreUntouched
  <2> QED BY DEF Init
<1> QED BY <1>1, BaseIsInvariant, SourcesNext, PTL DEF Spec

-----------------------------------------------------------------------------
(* What a build owes for its tasks.                                        *)

Grows == \A list \in Lists : result[list] \subseteq result'[list]

\* What is at a place of files only is what is read there.
ReadsOwn ==
  \A l : l[1] \in Dirs /\ l \notin LinksOf =>
          /\ Follow(l) = l
          /\ ReadFile(l) = IF l \in DOMAIN disk THEN disk[l].content ELSE Missing

LEMMA ReadsFile == DiskInv => ReadsOwn
<1> SUFFICES ASSUME NEW l, DiskInv, l[1] \in Dirs, l \notin LinksOf
             PROVE  /\ Follow(l) = l
                    /\ ReadFile(l) = IF l \in DOMAIN disk THEN disk[l].content ELSE Missing
  BY DEF ReadsOwn
<1>1. l \notin Sources BY PlaceFacts
<1>2. Follow(l) = l BY <1>1, FollowFacts
<1> QED BY <1>2 DEF ReadFile, Has

LEMMA ReadsFilePrimed == DiskInv' => ReadsOwn'
BY ReadsFile, PTL

LEMMA ReadsSame ==
  ASSUME DiskInv, DiskInv', NEW l, l[1] \in Dirs, l \notin LinksOf, SameAt(l)
  PROVE  ReadFile(l)' = ReadFile(l)
<1>1. ReadFile(l) = IF l \in DOMAIN disk THEN disk[l].content ELSE Missing BY ReadsFile DEF ReadsOwn
<1>2. LinksOf' = LinksOf BY DEF LinksOf
<1>3. ReadFile(l)' = IF l \in DOMAIN disk' THEN disk'[l].content ELSE Missing
  BY <1>2, ReadsFilePrimed DEF ReadsOwn
<1> QED BY <1>1, <1>3 DEF SameAt

\* The location of a task is left alone, or it is what the step is about.
Kept(l) ==
  \/ SameAt(l) /\ (doing # "opened" \/ Task.at # l)
  \/ Task.at = l /\ at' >= at + 1
  \/ Task.at = l /\ at' = at /\ doing' = "opened"

LEMMA Later ==
  ASSUME NEW i \in Nat, NEW m \in Nat, NEW n \in Nat, i \in 1 .. m - 1
  PROVE  /\ n >= m => \A j \in i + 1 .. m - 1 : j \in i + 1 .. n - 1
         /\ n >= m + 1 => m \in i + 1 .. n - 1
OBVIOUS

LEMMA AccountedStays ==
  ASSUME Base, Base', tasks' = tasks, Grows, at' >= at, NEW k \in 1 .. at - 1, k <= Len(tasks),
         Accounted(k), tasks[k].at \notin LinksOf => Kept(tasks[k].at)
  PROVE  Accounted(k)'
<1> DEFINE t == tasks[k]
<1>1. result.errors \subseteq result'.errors /\ result.dirs \subseteq result'.dirs
      /\ result.linked \subseteq result'.linked
  BY DEF Grows, Lists
<1>2. CASE HeldBack(k) BY <1>1, <1>2 DEF HeldBack, Accounted
<1>3. CASE t.at \in result.errors BY <1>1, <1>3 DEF Accounted
<1>4. CASE Settled(k)
  <2>1. plan \in Plans \cup {<<>>} /\ tasks = Tasks(plan) /\ at \in Nat /\ at' \in Nat /\ Len(tasks) \in Nat
    <3>1. plan \in Plans \cup {<<>>} /\ tasks = Tasks(plan) /\ at \in 1 .. Len(tasks) + 1 /\ at' \in 1 .. Len(tasks) + 1
      BY DEF Base, BuildInv
    <3>2. TasksOK(tasks) BY <3>1, TasksOfPlan
    <3>3. Len(tasks) \in Nat BY <3>2 DEF TasksOK
    <3> QED BY <3>1, <3>3
  <2>2. k \in DOMAIN tasks
    <3>1. TasksOK(tasks) BY <2>1, TasksOfPlan
    <3>2. DOMAIN tasks = 1 .. Len(tasks) BY <3>1 DEF TasksOK
    <3> QED BY <2>1, <3>2
  <2>3. t.do \in {"mkdir", "write", "link"} /\ t.at[1] \in Dirs BY <2>1, <2>2, TaskFacts
  <2>4. CASE t.do = "mkdir" BY <1>1, <1>4, <2>4 DEF Settled, Accounted
  <2>5. CASE t.do = "link" BY <1>1, <1>4, <2>5 DEF Settled, Accounted
  <2>6. CASE t.do = "write"
    <3>1. SUFFICES (\/ t.at \in LinksOf
                    \/ \E j \in k + 1 .. at - 1 : tasks[j].at = t.at
                    \/ doing = "opened" /\ Task.at = t.at
                    \/ ReadFile(t.at) = t.content)'
      BY <2>6 DEF Settled, Accounted
    <3>2. \/ t.at \in LinksOf
          \/ \E j \in k + 1 .. at - 1 : tasks[j].at = t.at
          \/ doing = "opened" /\ Task.at = t.at
          \/ ReadFile(t.at) = t.content
      BY <1>4, <2>6 DEF Settled
    <3>3. CASE t.at \in LinksOf BY <3>3 DEF LinksOf
    <3>4. CASE \E j \in k + 1 .. at - 1 : tasks[j].at = t.at
      <4>1. PICK j \in k + 1 .. at - 1 : tasks[j].at = t.at BY <3>4
      <4>2. j \in k + 1 .. at' - 1
        <5>1. k \in Nat /\ at \in Nat /\ at' \in Nat /\ at' >= at BY <2>1
        <5> QED BY <5>1, Later
      <4> QED BY <4>1, <4>2
    <3>5. CASE t.at \notin LinksOf /\ Kept(t.at) /\ Task.at = t.at /\ (doing = "opened" \/ at' >= at + 1 \/ doing' = "opened")
      <4>1. CASE at' >= at + 1
        <5>2. k \in Nat /\ at \in Nat /\ at' \in Nat /\ at' >= at + 1 BY <2>1, <4>1
        <5>1. at \in k + 1 .. at' - 1 BY <5>2, Later
        <5> QED BY <3>5, <5>1 DEF Task
      <4>2. CASE at' = at /\ doing' = "opened"
        <5>1. Task' = Task BY <4>2 DEF Task
        <5> QED BY <3>5, <4>2, <5>1
      <4>3. CASE SameAt(t.at) /\ (doing # "opened" \/ Task.at # t.at)
        <5>1. (doing' = "opened" /\ at' = at) \/ at' >= at + 1 BY <2>1, <3>5, <4>3
        <5> QED BY <4>1, <4>2, <5>1
      <4> QED BY <3>5, <4>1, <4>2, <4>3 DEF Kept
    <3>6. CASE t.at \notin LinksOf /\ SameAt(t.at) /\ ReadFile(t.at) = t.content
      <4>1. ReadFile(t.at)' = ReadFile(t.at) BY <2>3, <3>6, ReadsSame DEF Base
      <4> QED BY <3>6, <4>1
    <3> QED BY <3>2, <3>3, <3>4, <3>5, <3>6 DEF Kept
  <2> QED BY <2>3, <2>4, <2>5, <2>6
<1> QED BY <1>2, <1>3, <1>4 DEF Accounted

LEMMA NotBefore ==
  ASSUME NEW m \in Nat, NEW n \in Nat, NEW k, k \in 1 .. n - 1, k >= m
  PROVE  k \in m .. n - 1
OBVIOUS

LEMMA ProgressStep ==
  ASSUME Base, Base', ProgressInv, outcome = "running", outcome' = "running",
         tasks' = tasks, Grows, at' >= at, Listed',
         \A l : l[1] \in Dirs /\ l \notin LinksOf => Kept(l),
         \A k \in at .. at' - 1 : Accounted(k)'
  PROVE  ProgressInv'
<1>1. /\ plan \in Plans \cup {<<>>} /\ tasks = Tasks(plan)
      /\ at \in 1 .. Len(tasks) + 1 /\ at' \in 1 .. Len(tasks) + 1
  BY DEF Base, BuildInv
<1>2. TasksOK(tasks) BY <1>1, TasksOfPlan
<1>3. Len(tasks) \in Nat /\ DOMAIN tasks = 1 .. Len(tasks) BY <1>2 DEF TasksOK
<1>4. at \in Nat /\ at' \in Nat BY <1>1, <1>3
<1>5. ASSUME NEW k, k \in 1 .. at' - 1 PROVE Accounted(k)'
  <2>1. CASE k >= at
    <3>1. k \in at .. at' - 1 BY <1>4, <1>5, <2>1, NotBefore
    <3> QED BY <3>1
  <2>2. CASE k < at
    <3>1. k \in 1 .. at - 1 /\ k <= Len(tasks) /\ k \in DOMAIN Tasks(plan) BY <1>1, <1>3, <1>4, <1>5, <2>2
    <3>2. Accounted(k) BY <3>1 DEF ProgressInv
    <3>3. tasks[k].at[1] \in Dirs BY <1>1, <3>1, TaskFacts
    <3> QED BY <3>1, <3>2, <3>3, AccountedStays
  <2> QED BY <1>4, <1>5, <2>1, <2>2
<1>6. (\A k \in 1 .. at - 1 : Accounted(k))' BY <1>5
<1> QED BY <1>6 DEF ProgressInv

ListOf(do) == CASE do = "mkdir" -> "dirs" [] do = "write" -> "written" [] do = "link" -> "linked"

LEMMA RecordLists ==
  ASSUME Base, Listed, at <= Len(tasks), tasks' = tasks, NEW list, NEW to, Record(list, to),
         list \in {"errors", ListOf(Task.do)}
  PROVE  Listed' /\ Grows /\ Task.at \in result'[list]
<1>1. ResultInv BY DEF Base
<1>2. at \in DOMAIN tasks /\ Task.do \in {"mkdir", "write", "link"} BY TaskNow DEF Base
<1>3. list \in Lists BY <1>2 DEF ListOf, Lists
<1>4. /\ result'[list] = result[list] \cup {Task.at}
      /\ \A other \in Lists : other # list => result'[other] = result[other]
  BY <1>1, <1>3 DEF Record, ResultInv, Lists
<1>5. Grows BY <1>4 DEF Grows
<1>6. Task.at \in {tasks[k].at : k \in DOMAIN tasks} BY <1>2 DEF Task
<1>7. Task.at \in Of(Task.do)
  <2>1. at \in {k \in DOMAIN tasks : tasks[k].do = Task.do} BY <1>2 DEF Task
  <2> QED BY <2>1 DEF Of, Task
<1>8. /\ result'.written \subseteq Of("write") /\ result'.linked \subseteq Of("link")
      /\ result'.dirs \subseteq Of("mkdir")
      /\ result'.errors \subseteq {tasks[k].at : k \in DOMAIN tasks} \cup {At(Root, "")}
  <2>1. CASE list = "errors" BY <1>4, <1>6, <2>1 DEF Listed, Lists
  <2>2. CASE list = ListOf(Task.do) BY <1>2, <1>4, <1>7, <2>2 DEF Listed, Lists, ListOf
  <2> QED BY <2>1, <2>2
<1>9. Listed'
  <2>1. /\ Of("write")' = Of("write") /\ Of("link")' = Of("link") /\ Of("mkdir")' = Of("mkdir")
        /\ {tasks[k].at : k \in DOMAIN tasks}' = {tasks[k].at : k \in DOMAIN tasks}
    BY DEF Of
  <2> QED BY <1>8, <2>1 DEF Listed
<1> QED BY <1>4, <1>5, <1>9

\* A place for files only is neither that of the link that is being made, nor where
\* an existing one leads.
LEMMA KeptElsewhere ==
  ASSUME Base, at <= Len(tasks), Task.at \in FilesOf \cup LinksOf, Elsewhere, NEW l, l[1] \in Dirs, l # Task.at
  PROVE  SameAt(l)
<1>1. l \notin Sources /\ l # Nowhere BY PlaceFacts
<1>2. Task.at \notin Sources BY TaskNow DEF Base
<1>3. Follow(Task.at) \in {Task.at} \cup Sources \cup {Nowhere} BY <1>2, FollowFacts DEF Base
<1> QED BY <1>1, <1>3 DEF Elsewhere

\* A step that records an error is through with its task.
LEMMA ErrorAccounts ==
  ASSUME tasks' = tasks, NEW k, k = at, Task.at \in result'.errors
  PROVE  Accounted(k)'
BY DEF Accounted, Task

Continues == UNCHANGED <<mem, plan, setting, tasks, outcome, builds>>

\* A step that records its task and goes on to the next one.
LEMMA RecordProgress ==
  ASSUME Base, Base', ProgressInv, doing # "idle", at <= Len(tasks), Continues,
         NEW list \in {"errors", ListOf(Task.do)}, Record(list, at + 1),
         \A l : l[1] \in Dirs /\ l \notin LinksOf /\ l # Task.at => SameAt(l),
         \A l : l = Task.at /\ list # "errors" /\ Task.do = "write" =>
           l \in LinksOf \/ ReadFile(l)' = Task.content
  PROVE  ProgressInv'
<1>1. outcome = "running" /\ outcome' = "running" /\ tasks' = tasks BY DEF Base, BuildInv, Continues
<1>2. at \in Nat /\ at' = at + 1 BY TaskNow DEF Base, Record
<1>3. Task.do \in {"mkdir", "write", "link"} BY TaskNow DEF Base
<1>4. Listed' /\ Grows /\ Task.at \in result'[list] BY <1>1, RecordLists DEF ProgressInv
<1>5. \A l : l[1] \in Dirs /\ l \notin LinksOf => Kept(l) BY <1>2 DEF Kept
<1>6. ASSUME NEW k, k = at PROVE Accounted(k)'
  <2>1. CASE list = "errors" BY <1>1, <1>4, <1>6, <2>1, ErrorAccounts
  <2>2. CASE list # "errors" /\ Task.do = "mkdir"
    BY <1>1, <1>4, <1>6, <2>2 DEF Accounted, Settled, ListOf, Task
  <2>3. CASE list # "errors" /\ Task.do = "link"
    BY <1>1, <1>4, <1>6, <2>3 DEF Accounted, Settled, ListOf, Task
  <2>4. CASE list # "errors" /\ Task.do = "write"
    <3> PICK l : l = tasks[k].at OBVIOUS
    <3>1. l = Task.at /\ tasks[k].do = "write" /\ tasks[k].content = Task.content BY <1>6, <2>4 DEF Task
    <3>2. l \in LinksOf \/ ReadFile(l)' = tasks[k].content BY <2>4, <3>1
    <3>3. l \in LinksOf' \/ ReadFile(l)' = tasks[k].content BY <3>2 DEF LinksOf
    <3> QED BY <1>1, <3>1, <3>3 DEF Accounted, Settled
  <2> QED BY <1>3, <2>1, <2>2, <2>3, <2>4
<1>7. \A k \in at .. at' - 1 : Accounted(k)'
  <2> SUFFICES ASSUME NEW k, k \in at .. at' - 1 PROVE Accounted(k)'
    OBVIOUS
  <2>1. k = at BY <1>2
  <2> QED BY <1>6, <2>1
<1>8. at' >= at BY <1>2
<1> QED BY <1>1, <1>4, <1>5, <1>7, <1>8, ProgressStep

\* A step within a task.
LEMMA WithinProgress ==
  ASSUME Base, Base', ProgressInv, doing \notin {"idle", "opened"}, at <= Len(tasks), Continues,
         UNCHANGED <<at, result>>,
         \A l : l[1] \in Dirs /\ l \notin LinksOf /\ l # Task.at => SameAt(l),
         Task.at \notin LinksOf => doing' = "opened"
  PROVE  ProgressInv'
<1>1. outcome = "running" /\ outcome' = "running" /\ tasks' = tasks BY DEF Base, BuildInv, Continues
<1>2. at \in Nat BY TaskNow DEF Base
<1>3. Listed BY <1>1 DEF ProgressInv
<1>4. Listed' BY <1>1, <1>3 DEF Listed, Of
<1>5. Grows BY DEF Grows
<1>6. \A l : l[1] \in Dirs /\ l \notin LinksOf => Kept(l) BY DEF Kept
<1>7. \A k \in at .. at' - 1 : FALSE BY <1>2
<1>8. at' >= at BY <1>2
<1> QED BY <1>1, <1>4, <1>5, <1>6, <1>7, <1>8, ProgressStep

LEMMA MkdirProgress == ASSUME Base, ProgressInv, Mkdir PROVE ProgressInv'
<1>1. Base' /\ at <= Len(tasks) /\ (\A m : SameAt(m)) BY MkdirBase
<1>2. doing = "task" /\ Task.do = "mkdir" /\ Continues BY DEF Mkdir, Turn, Continues
<1>3. CASE Record("dirs", at + 1)
  <2>1. "dirs" \in {"errors", ListOf(Task.do)} BY <1>2 DEF ListOf
  <2> QED BY <1>1, <1>2, <1>3, <2>1, RecordProgress
<1>4. CASE Record("errors", at + 1 + Task.holds)
  <2>1. outcome = "running" /\ outcome' = "running" /\ tasks' = tasks BY <1>2 DEF Base, BuildInv, Continues
  <2>2. /\ at \in Nat /\ Task.holds \in Nat /\ Task.at[2] = "" /\ Holds(tasks, at)
    BY <1>1, <1>2, TaskNow DEF Base, MkdirTask
  <2>3. Listed' /\ Grows /\ Task.at \in result'.errors BY <1>1, <1>4, <2>1, RecordLists DEF ProgressInv
  <2>4. PICK h \in Nat : h = Task.holds /\ at' = at + 1 + h BY <1>4, <2>2 DEF Record
  <2>8. at \in Nat /\ at' = at + 1 + h BY <2>2, <2>4
  <2>5. at' >= at BY <2>8
  <2>6. \A l : l[1] \in Dirs /\ l \notin LinksOf => Kept(l) BY <1>1, <1>2 DEF Kept
  <2>7. \A k \in at .. at' - 1 : Accounted(k)'
    <3> SUFFICES ASSUME NEW k, k \in at .. at' - 1 PROVE Accounted(k)'
      OBVIOUS
    <3>1. CASE k = at BY <2>1, <2>3, <3>1, ErrorAccounts
    <3>2. CASE k # at
      <4>1. k \in at + 1 .. at + h BY <2>8, <3>2
      <4>2. /\ at \in DOMAIN tasks /\ tasks[at].do = "mkdir" /\ tasks[at].at \in result'.errors
            /\ k \in at + 1 .. at + tasks[at].holds
        BY <1>1, <1>2, <2>3, <2>4, <4>1, TaskNow DEF Base, Task
      <4>3. \E j \in DOMAIN tasks : /\ tasks[j].do = "mkdir" /\ tasks[j].at \in result'.errors
                                    /\ k \in j + 1 .. j + tasks[j].holds
        BY <4>2
      <4> QED BY <2>1, <4>3 DEF Accounted, HeldBack
    <3> QED BY <3>1, <3>2
  <2> QED BY <1>1, <2>1, <2>3, <2>5, <2>6, <2>7, ProgressStep
<1> QED BY <1>3, <1>4 DEF Mkdir

LEMMA SkipProgress == ASSUME Base, ProgressInv, Skip PROVE ProgressInv'
<1>1. Base' /\ at <= Len(tasks) /\ (\A m : SameAt(m)) BY SkipBase
<1>2. doing = "task" /\ Task.do = "write" /\ at' = at + 1 /\ UNCHANGED <<disk, tasks, result, outcome>>
  BY DEF Skip, Turn
<1>3. outcome = "running" /\ outcome' = "running" BY <1>2 DEF Base, BuildInv
<1>4. at \in Nat BY <1>1, TaskNow DEF Base
<1>5. Listed' /\ Grows
  <2>1. Listed BY <1>3 DEF ProgressInv
  <2> QED BY <1>2, <2>1 DEF Listed, Of, Grows
<1>6. \A l : l[1] \in Dirs /\ l \notin LinksOf => Kept(l) BY <1>1, <1>2 DEF Kept
<1>7. ASSUME NEW k, k = at PROVE Accounted(k)'
  <2>1. ReadFile(Task.at) = Task.content BY DEF Skip, Changed
  <2>2. ReadFile(tasks[k].at) = tasks[k].content /\ tasks[k].do = "write" BY <1>2, <1>7, <2>1 DEF Task
  <2>3. ReadFile(tasks[k].at)' = tasks[k].content BY <1>2, <2>2 DEF ReadFile, Follow, Has
  <2> QED BY <1>2, <2>2, <2>3 DEF Accounted, Settled
<1>8. \A k \in at .. at' - 1 : Accounted(k)'
  <2> SUFFICES ASSUME NEW k, k \in at .. at' - 1 PROVE Accounted(k)'
    OBVIOUS
  <2>1. k = at BY <1>2, <1>4
  <2> QED BY <1>7, <2>1
<1>9. at' >= at BY <1>2, <1>4
<1> QED BY <1>1, <1>2, <1>3, <1>5, <1>6, <1>8, <1>9, ProgressStep

LEMMA OpenProgress ==
  ASSUME Base, Base', ProgressInv, at <= Len(tasks), Task.do \in {"write", "link"}, doing \in {"task", "copy"},
         NEW c, Open(Task.at, c), Continues, Elsewhere
  PROVE  ProgressInv'
<1>1. Task.at \in FilesOf \cup LinksOf BY TaskNow DEF Base
<1>2. \A l : l[1] \in Dirs /\ l # Task.at => SameAt(l) BY <1>1, KeptElsewhere
<1>3. CASE doing' = "opened" /\ UNCHANGED <<at, result>>
  BY <1>2, <1>3, WithinProgress
<1>4. CASE Record("errors", at + 1)
  BY <1>2, <1>4, RecordProgress
<1> QED BY <1>3, <1>4 DEF Open

LEMMA WriteFileProgress == ASSUME Base, ProgressInv, WriteFile PROVE ProgressInv'
<1>1. Base' /\ at <= Len(tasks) /\ Elsewhere BY WriteFileBase DEF Elsewhere
<1>2. doing = "task" /\ Task.do = "write" /\ Open(Task.at, Task.content) /\ Continues
  BY DEF WriteFile, Turn, Continues
<1> QED BY <1>1, <1>2, OpenProgress

LEMMA CopyFallbackProgress == ASSUME Base, ProgressInv, CopyFallback PROVE ProgressInv'
<1>1. Base' /\ at <= Len(tasks) /\ Elsewhere BY CopyFallbackBase DEF Elsewhere
<1>2. doing = "copy" /\ Task.do = "link" /\ Continues BY DEF CopyFallback, Turn, Base, BuildInv, Continues
<1>3. CASE Open(Task.at, ReadFile(Task.source))
  BY <1>1, <1>2, <1>3, OpenProgress
<1>4. CASE Record("errors", at + 1)
  <2>1. \A l : l[1] \in Dirs /\ l # Task.at => SameAt(l)
    <3>1. Task.at \in LinksOf BY <1>1, <1>2, TaskNow DEF Base
    <3> QED BY <1>1, <3>1, KeptElsewhere
  <2> QED BY <1>1, <1>2, <1>4, <2>1, RecordProgress
<1> QED BY <1>3, <1>4 DEF CopyFallback

LEMMA FinishWriteProgress == ASSUME Base, ProgressInv, FinishWrite PROVE ProgressInv'
<1>1. Base' /\ at <= Len(tasks) /\ Elsewhere /\ Task.do \in {"write", "link"} BY FinishWriteBase DEF Elsewhere
<1>2. doing = "opened" /\ Continues BY DEF FinishWrite, Turn, Continues
<1>3. /\ Task.at \in FilesOf \cup LinksOf /\ Task.at[1] \in Dirs /\ Follow(Task.at) # Nowhere
      /\ Task.do = "write" => content = Task.content
  BY <1>1, <1>2, TaskNow DEF Base, BuildInv
<1>4. \A l : l[1] \in Dirs /\ l # Task.at => SameAt(l) BY <1>1, <1>3, KeptElsewhere
<1>5. CASE Record("errors", at + 1)
  BY <1>1, <1>2, <1>4, <1>5, RecordProgress
<1>6. CASE Put(Follow(Task.at), File(content)) /\ Record(ListOf(Task.do), at + 1)
  <2>1. ASSUME NEW l, l = Task.at, Task.do = "write", l \notin LinksOf PROVE ReadFile(l)' = Task.content
    <3>1. Follow(l) = l BY <1>3, <2>1, ReadsFile DEF Base, ReadsOwn
    <3>2. content \in Texts BY DEF Base, BuildInv
    <3>3. Follow(l) \in DOMAIN disk' /\ disk'[Follow(l)] = File(content)
      BY <1>3, <1>6, <2>1, <3>2, WriteDisk DEF Base
    <3>4. l \notin LinksOf' BY <2>1 DEF LinksOf
    <3>5. ReadFile(l)' = disk'[l].content
      BY <1>1, <1>3, <2>1, <3>1, <3>3, <3>4, ReadsFilePrimed DEF Base, ReadsOwn
    <3> QED BY <1>3, <2>1, <3>1, <3>3, <3>5 DEF File
  <2>2. \A l : l = Task.at /\ ListOf(Task.do) # "errors" /\ Task.do = "write" =>
           l \in LinksOf \/ ReadFile(l)' = Task.content
    BY <2>1
  <2> QED BY <1>1, <1>2, <1>4, <1>6, <2>2, RecordProgress
<1>7. (IF Task.do = "link" THEN "linked" ELSE "written") = ListOf(Task.do) BY <1>1 DEF ListOf
<1>8. Finished(ListOf(Task.do)) BY <1>7 DEF FinishWrite
<1> QED BY <1>5, <1>6, <1>8 DEF Finished

LEMMA RemoveDestProgress == ASSUME Base, ProgressInv, RemoveDest PROVE ProgressInv'
<1>1. Base' /\ at <= Len(tasks) /\ Elsewhere BY RemoveDestBase DEF Elsewhere
<1>2. doing = "task" /\ Task.do = "link" /\ Continues BY DEF RemoveDest, Turn, Continues
<1>3. Task.at \in LinksOf BY <1>1, <1>2, TaskNow DEF Base
<1>4. \A l : l[1] \in Dirs /\ l # Task.at => SameAt(l) BY <1>1, <1>3, KeptElsewhere
<1>5. CASE Record("errors", at + 1)
  BY <1>1, <1>2, <1>4, <1>5, RecordProgress
<1>6. CASE UNCHANGED <<at, result>>
  BY <1>1, <1>2, <1>3, <1>4, <1>6, WithinProgress
<1> QED BY <1>5, <1>6 DEF RemoveDest

LEMMA SymlinkProgress == ASSUME Base, ProgressInv, Symlink PROVE ProgressInv'
<1>1. Base' /\ at <= Len(tasks) /\ Elsewhere /\ Task.do = "link" BY SymlinkBase DEF Elsewhere
<1>2. doing = "removed" /\ Continues BY DEF Symlink, Turn, Continues
<1>3. Task.at \in LinksOf BY <1>1, <1>2, TaskNow DEF Base
<1>4. \A l : l[1] \in Dirs /\ l # Task.at => SameAt(l) BY <1>1, <1>3, KeptElsewhere
<1>5. CASE Record("linked", at + 1)
  <2>1. "linked" \in {"errors", ListOf(Task.do)} BY <1>1 DEF ListOf
  <2> QED BY <1>1, <1>2, <1>4, <1>5, <2>1, RecordProgress
<1>6. CASE UNCHANGED <<at, result>>
  BY <1>1, <1>2, <1>3, <1>4, <1>6, WithinProgress
<1> QED BY <1>5, <1>6 DEF Symlink

LEMMA ExecuteProgress == ASSUME Base, ProgressInv, Execute PROVE ProgressInv'
<1>1. Base' /\ (\A m : SameAt(m)) BY ExecuteBase
<1>2. doing = "task" /\ at > Len(tasks) /\ UNCHANGED <<disk, plan, setting, tasks, at>> BY DEF Execute
<1>3. outcome = "running" BY <1>2 DEF Base, BuildInv
<1>4. ResultInv /\ Listed /\ (\A k \in 1 .. at - 1 : Accounted(k)) BY <1>3 DEF Base, ProgressInv
<1>5. TasksOK(tasks) /\ at \in 1 .. Len(tasks) + 1 BY TasksOfPlan DEF Base, BuildInv
<1>6. Len(tasks) \in Nat BY <1>5 DEF TasksOK
<1>7. at = Len(tasks) + 1 BY <1>2, <1>5, <1>6
<1> DEFINE e == result.errors \cup (IF result.errors = {} /\ setting.mode # "build-only" THEN {At(Root, "")} ELSE {})
<1>8. result' = [result EXCEPT !.errors = e] /\ outcome' = IF e # {} /\ setting.failFast THEN "refused" ELSE "done"
  BY Zenon DEF Execute
<1>9. e \subseteq result.errors \cup {At(Root, "")} /\ result.errors \subseteq e OBVIOUS
<1> HIDE DEF e
<1>10. /\ result'.errors = e /\ result'.written = result.written /\ result'.linked = result.linked
       /\ result'.dirs = result.dirs
  BY <1>4, <1>8 DEF ResultInv
<1>11. Grows BY <1>9, <1>10 DEF Grows, Lists
<1>12. Listed'
  <2>1. /\ Of("write")' = Of("write") /\ Of("link")' = Of("link") /\ Of("mkdir")' = Of("mkdir")
        /\ {tasks[k].at : k \in DOMAIN tasks}' = {tasks[k].at : k \in DOMAIN tasks}
    BY <1>2 DEF Of
  <2>2. /\ result'.written \subseteq Of("write") /\ result'.linked \subseteq Of("link")
        /\ result'.dirs \subseteq Of("mkdir")
        /\ result'.errors \subseteq {tasks[k].at : k \in DOMAIN tasks} \cup {At(Root, "")}
    BY <1>4, <1>9, <1>10 DEF Listed
  <2> QED BY <2>1, <2>2 DEF Listed
<1>13. \A k \in 1 .. at - 1 : Accounted(k)'
  <2> SUFFICES ASSUME NEW k \in 1 .. at - 1 PROVE Accounted(k)'
    OBVIOUS
  <2>1. k <= Len(tasks) BY <1>6, <1>7
  <2>2. at' >= at /\ tasks' = tasks BY <1>2, <1>6, <1>7
  <2>3. Kept(tasks[k].at) BY <1>1, <1>2 DEF Kept
  <2> QED BY <1>1, <1>4, <1>11, <2>1, <2>2, <2>3, AccountedStays
<1>14. (\A k \in 1 .. at - 1 : Accounted(k))' BY <1>2, <1>13
<1>15. outcome' = "done" /\ setting'.failFast => result'.errors = {} BY <1>2, <1>8, <1>10
<1>16. at' = Len(tasks') + 1 BY <1>2, <1>7
<1> QED BY <1>12, <1>14, <1>15, <1>16 DEF ProgressInv

LEMMA ProgressNext == Base /\ ProgressInv /\ [Next]_vars => ProgressInv'
<1> SUFFICES ASSUME Base, ProgressInv, [Next]_vars PROVE ProgressInv'
  OBVIOUS
<1>1. CASE Begin
  <2>1. Base' BY <1>1, BeginBase
  <2>2. PICK p \in Plans, s \in Settings :
          /\ tasks' = Tasks(p)
          /\ IF s.dryRun THEN outcome' = "simulated" ELSE result' = NoResult /\ outcome' = "running"
    BY <1>1 DEF Begin
  <2>3. at' = 1 BY <1>1 DEF Begin
  <2>4. CASE outcome' = "running"
    <3>1. result' = NoResult BY <2>2, <2>4
    <3>2. Listed' BY <3>1 DEF Listed, NoResult
    <3>3. (\A k \in 1 .. at - 1 : Accounted(k))' BY <2>3
    <3> QED BY <2>4, <3>2, <3>3 DEF ProgressInv
  <2>5. CASE outcome' # "running" BY <2>2, <2>5 DEF ProgressInv
  <2> QED BY <2>4, <2>5
<1>2. CASE Crash BY <1>2 DEF Crash, ProgressInv
<1>3. CASE UNCHANGED vars
  <2>1. UNCHANGED <<disk, setting, tasks, at, doing, result, outcome>> BY <1>3 DEF vars
  <2>2. ASSUME NEW k, Accounted(k) PROVE Accounted(k)'
    <3>1. HeldBack(k)' <=> HeldBack(k) BY <2>1 DEF HeldBack
    <3>2. ReadFile(tasks[k].at)' = ReadFile(tasks[k].at) BY <2>1 DEF ReadFile, Follow, Has
    <3>3. Settled(k) => Settled(k)' BY <2>1, <3>2 DEF Settled, LinksOf, Task
    <3> QED BY <2>1, <2>2, <3>1, <3>3 DEF Accounted
  <2>3. Listed => Listed' BY <2>1 DEF Listed, Of
  <2>4. (\A k \in 1 .. at - 1 : Accounted(k)) => (\A k \in 1 .. at - 1 : Accounted(k))' BY <2>1, <2>2
  <2> QED BY <2>1, <2>3, <2>4 DEF ProgressInv
<1> QED BY <1>1, <1>2, <1>3, MkdirProgress, SkipProgress, WriteFileProgress, FinishWriteProgress, RemoveDestProgress,
           SymlinkProgress, CopyFallbackProgress, ExecuteProgress DEF Next, Work

LEMMA ProgressIsInvariant == Spec => [](Base /\ ProgressInv)
<1>1. Init => ProgressInv BY DEF Init, ProgressInv
<1> QED BY <1>1, InitBase, NextBase, ProgressNext, PTL DEF Spec

-----------------------------------------------------------------------------
(* What a build comes to.                                                  *)

LEMMA LastExists ==
  ASSUME NEW t, Len(t) \in Nat, DOMAIN t = 1 .. Len(t), NEW P, P \subseteq DOMAIN t, P # {}
  PROVE  \E k \in P : \A j \in k + 1 .. Len(t) : j \notin P
<1> DEFINE I == {n \in Nat : \E k \in P : n = Len(t) - k}
<1>1. I # {}
  <2>1. PICK k \in P : TRUE OBVIOUS
  <2>2. Len(t) - k \in Nat BY <2>1
  <2>3. Len(t) - k \in I BY <2>1, <2>2
  <2> QED BY <2>3
<1>2. PICK n \in I : \A m \in I : n <= m
  <2>1. I \in SUBSET Nat OBVIOUS
  <2> HIDE DEF I
  <2> QED BY <1>1, <2>1, Least
<1>3. PICK k \in P : n = Len(t) - k BY <1>2
<1>4. ASSUME NEW j \in k + 1 .. Len(t), j \in P PROVE FALSE
  <2>1. k \in Nat BY <1>3
  <2>2. Len(t) - j \in Nat /\ Len(t) - j < n BY <1>3, <2>1
  <2>3. Len(t) - j \in I BY <1>4, <2>2
  <2>4. n \in Nat BY <1>2
  <2> QED BY <1>2, <2>2, <2>3, <2>4
<1> QED BY <1>3, <1>4

\* The last task at a location of files only writes.
LEMMA LastTaskFacts ==
  ASSUME BuildInv, NEW l, l \in {tasks[k].at : k \in DOMAIN tasks}
  PROVE  \E k \in DOMAIN tasks : /\ LastTask(l) = tasks[k] /\ tasks[k].at = l
                                 /\ \A j \in k + 1 .. Len(tasks) : tasks[j].at # l
<1>1. TasksOK(tasks) BY TasksOfPlan DEF BuildInv
<1>2. Len(tasks) \in Nat /\ DOMAIN tasks = 1 .. Len(tasks) BY <1>1 DEF TasksOK
<1> DEFINE P == {k \in DOMAIN tasks : tasks[k].at = l}
           L(k) == tasks[k].at = l /\ \A j \in k + 1 .. Len(tasks) : tasks[j].at # l
<1>3. P # {} OBVIOUS
<1>4. PICK k \in P : \A j \in k + 1 .. Len(tasks) : j \notin P
  <2>1. P \subseteq DOMAIN tasks OBVIOUS
  <2> HIDE DEF P
  <2> QED BY <1>2, <1>3, <2>1, LastExists
<1>5. \A j \in k + 1 .. Len(tasks) : j \in DOMAIN tasks BY <1>2, <1>4
<1>6. \E i \in DOMAIN tasks : L(i) BY <1>4, <1>5
<1> DEFINE last == CHOOSE i \in DOMAIN tasks : L(i)
<1>7. last \in DOMAIN tasks /\ L(last)
  <2> HIDE DEF L
  <2> QED BY <1>6, Zenon
<1>8. LastTask(l) = tasks[last] BY Zenon DEF LastTask
<1> HIDE DEF last
<1> QED BY <1>7, <1>8

LEMMA SimulatedIs ==
  /\ Simulated(tasks).written = Of("write") /\ Simulated(tasks).linked = Of("link")
  /\ Simulated(tasks).dirs = Of("mkdir")
BY DEF Simulated, Of

LEMMA BaseIsTypeOK == Base => TypeOK
<1> SUFFICES ASSUME Base PROVE TypeOK
  OBVIOUS
<1>1. DiskInv /\ BuildInv /\ ResultInv BY DEF Base
<1>2. Sources \subseteq DOMAIN disk /\ DOMAIN disk \subseteq Sources \cup Planned
  BY <1>1, PlacesAreTasks DEF DiskInv
<1>3. \A l \in DOMAIN disk : disk[l].is = "link" => disk[l].to \in Sources \cup {Nowhere}
  BY <1>1 DEF DiskInv, Node
<1>4. \A list \in DOMAIN result : result[list] \subseteq Planned \cup {At(Root, "")}
  BY <1>1 DEF ResultInv, Locations
<1>5. stuck \subseteq Planned BY <1>1, PlacesAreTasks DEF BuildInv
<1> QED BY <1>1, <1>2, <1>3, <1>4, <1>5 DEF TypeOK, BuildInv

\* When a build is over, the last task at a location is done, or accounted for.
LEMMA LastIsAccounted ==
  ASSUME Base, ProgressInv, outcome \in {"refused", "done"}, NEW l \in Of("write"), l \notin LinksOf
  PROVE  (\E k : HeldBack(k)) \/ l \in result.errors \/ ReadFile(l) = LastTask(l).content
<1>1. plan \in Plans \cup {<<>>} /\ tasks = Tasks(plan) /\ doing = "idle" BY DEF Base, BuildInv
<1>2. TasksOK(tasks) BY <1>1, TasksOfPlan
<1>3. Len(tasks) \in Nat /\ DOMAIN tasks = 1 .. Len(tasks) BY <1>2 DEF TasksOK
<1>4. PICK i \in DOMAIN tasks : tasks[i].do = "write" /\ tasks[i].at = l BY DEF Of
<1>5. l[2] # "" BY <1>1, <1>4, TaskFacts
<1>6. PICK k \in DOMAIN tasks : /\ LastTask(l) = tasks[k] /\ tasks[k].at = l
                                /\ \A j \in k + 1 .. Len(tasks) : tasks[j].at # l
  <2>1. l \in {tasks[j].at : j \in DOMAIN tasks} BY <1>4
  <2> QED BY <2>1, LastTaskFacts DEF Base
<1>7. tasks[k].do = "write" BY <1>1, <1>5, <1>6, TaskFacts
<1>8. at = Len(tasks) + 1 BY DEF ProgressInv
<1>9. k \in 1 .. at - 1 BY <1>3, <1>6, <1>8
<1>10. Accounted(k) BY <1>9 DEF ProgressInv
<1>11. Settled(k) => ReadFile(l) = tasks[k].content
  <2>1. ~ \E j \in k + 1 .. at - 1 : tasks[j].at = l BY <1>3, <1>6, <1>8
  <2> QED BY <1>1, <1>6, <1>7, <2>1 DEF Settled
<1> QED BY <1>6, <1>10, <1>11 DEF Accounted

\* A build that ends without an error, or is let pass failing fast, has left every
\* file as its plan wants it, whatever was there before
\* (materializer.Stage.Execute, OSMaterializer.Materialize, writeFileIfChanged).
THEOREM BuildsConverge == Spec => []Converges
<1>1. Base /\ ProgressInv => Converges
  <2> SUFFICES ASSUME Base, ProgressInv, outcome = "done", result.errors = {} \/ setting.failFast,
                      NEW l \in Simulated(tasks).written \ LinksOf
               PROVE  ReadFile(l) = LastTask(l).content
    BY BaseIsTypeOK DEF Converges
  <2>1. result.errors = {} BY DEF ProgressInv
  <2>2. ~ \E k : HeldBack(k) BY <2>1 DEF HeldBack
  <2>3. l \in Of("write") BY SimulatedIs
  <2> QED BY <2>1, <2>2, <2>3, LastIsAccounted
<1> QED BY <1>1, ProgressIsInvariant, PTL

\* Nothing gets lost between the plan and the result: each task, the sub-directories
\* of units included, is written, linked or made, or a file as it should be, or in the
\* errors, or its unit's or bundle's directory is; and the result has nothing that a
\* dry run does not list
\* (MaterializationResult, OSMaterializer.Materialize, simulateMaterialization).
THEOREM ResultIsComplete == Spec => []EveryTaskIsAccountedFor
<1>1. Base /\ ProgressInv => EveryTaskIsAccountedFor
  <2> SUFFICES ASSUME Base, ProgressInv, outcome \in {"done", "refused"} PROVE EveryTaskIsAccountedFor
    BY DEF EveryTaskIsAccountedFor
  <2> DEFINE s == Simulated(tasks)
             listed == [mkdir |-> result.dirs, write |-> result.written, link |-> result.linked]
  <2>1. s.written = Of("write") /\ s.linked = Of("link") /\ s.dirs = Of("mkdir") BY SimulatedIs
  <2>2. plan \in Plans \cup {<<>>} /\ tasks = Tasks(plan) /\ doing = "idle" BY DEF Base, BuildInv
  <2>3. TasksOK(tasks) BY <2>2, TasksOfPlan
  <2>4. Len(tasks) \in Nat /\ DOMAIN tasks = 1 .. Len(tasks) BY <2>3 DEF TasksOK
  <2>5. at = Len(tasks) + 1 /\ Listed BY DEF ProgressInv
  <2>6. at - 1 = Len(tasks) BY <2>4, <2>5
  <2>7. listed["mkdir"] = result.dirs /\ listed["link"] = result.linked OBVIOUS
  <2> HIDE DEF s, listed
  <2>8. ASSUME NEW k \in DOMAIN tasks
        PROVE  HeldBack(k) \/ tasks[k].at \in result.errors \cup listed[tasks[k].do] \/ NoNeed(k)
    <3>1. Accounted(k) BY <2>4, <2>6 DEF ProgressInv
    <3>2. tasks[k].do \in {"mkdir", "write", "link"} BY <2>2, TaskFacts
    <3>3. CASE tasks[k].do = "mkdir" BY <2>7, <3>1, <3>3 DEF Accounted, Settled
    <3>4. CASE tasks[k].do = "link" BY <2>7, <3>1, <3>4 DEF Accounted, Settled
    <3>5. CASE tasks[k].do = "write"
      <4>1. Settled(k) => NoNeed(k) BY <2>2, <2>6, <3>5 DEF Settled, NoNeed
      <4> QED BY <3>1, <4>1 DEF Accounted
    <3> QED BY <3>2, <3>3, <3>4, <3>5
  <2>9. \A list \in {"written", "linked", "dirs"} : result[list] \subseteq s[list]
    BY <2>1, <2>5 DEF Listed
  <2>10. result.errors \subseteq s.written \cup s.linked \cup s.dirs \cup {At(Root, "")}
    <3> SUFFICES ASSUME NEW e \in result.errors, e # At(Root, "")
                 PROVE  e \in s.written \cup s.linked \cup s.dirs
      OBVIOUS
    <3>1. PICK k \in DOMAIN tasks : tasks[k].at = e BY <2>5 DEF Listed
    <3>2. tasks[k].do \in {"mkdir", "write", "link"} BY <2>2, <3>1, TaskFacts
    <3> QED BY <2>1, <3>1, <3>2 DEF Of
  <2> QED BY <2>8, <2>9, <2>10 DEF EveryTaskIsAccountedFor, s, listed
<1> QED BY <1>1, ProgressIsInvariant, PTL

-----------------------------------------------------------------------------
(* What a second build of the same plan writes.                            *)

LEMMA NoneDone == ASSUME Base', ProgressInv', done' = <<>> PROVE DoneInv'
<1>1. DOMAIN <<>> = {} /\ Len(<<>>) = 0 OBVIOUS
<1>2. Left(Tasks(done))' BY <1>1, NoPlan DEF Left
<1>3. ASSUME plan' = <<>> PROVE tasks' = <<>> /\ doing' # "opened" /\ (outcome' = "running" => result'.written = {})
  <2>1. tasks' = <<>> BY <1>3, NoPlan DEF Base, BuildInv
  <2>2. at' \in 1 .. Len(tasks') + 1 BY DEF Base, BuildInv
  <2>3. doing' = "opened" => at' <= Len(tasks') BY DEF Base, BuildInv
  <2>4. doing' # "opened" BY <1>1, <2>1, <2>2, <2>3
  <2>5. ASSUME outcome' = "running" PROVE result'.written = {}
    <3>1. result'.written \subseteq Of("write")' BY <2>5 DEF ProgressInv, Listed
    <3>2. Of("write")' = {} BY <1>1, <2>1 DEF Of
    <3> QED BY <3>1, <3>2
  <2> QED BY <2>1, <2>4, <2>5
<1> QED BY <1>2, <1>3 DEF DoneInv

LEMMA LeftSame ==
  ASSUME DiskInv, DiskInv', NEW p \in Plans \cup {<<>>}, Left(Tasks(p)),
         \A k \in DOMAIN Tasks(p) :
           Tasks(p)[k].do = "write" /\ Alone(Tasks(p), k) => SameAt(Tasks(p)[k].at)
  PROVE  Left(Tasks(p))'
<1>1. LinksOf' = LinksOf BY DEF LinksOf
<1> SUFFICES ASSUME NEW k \in DOMAIN Tasks(p), Tasks(p)[k].do = "write", Alone(Tasks(p), k)
             PROVE  ReadFile(Tasks(p)[k].at)' = Tasks(p)[k].content
  BY <1>1 DEF Left, Alone
<1> PICK l : l = Tasks(p)[k].at OBVIOUS
<1>2. l[1] \in Dirs /\ l \notin LinksOf BY TaskFacts DEF Alone
<1>3. SameAt(l) OBVIOUS
<1>4. ReadFile(l)' = ReadFile(l) BY <1>2, <1>3, ReadsSame
<1>5. ReadFile(l) = Tasks(p)[k].content BY DEF Left
<1> QED BY <1>4, <1>5

\* A step of a build that has not failed so far.
LEMMA DoneStep ==
  ASSUME Base, Base', DoneInv, UNCHANGED <<done, plan, setting, tasks, outcome>>, outcome = "running",
         at <= Len(tasks),
         \A l : l[1] \in Dirs /\ l \notin LinksOf => SameAt(l) \/ (l = Task.at /\ (done = plan => ~ Alone(tasks, at))),
         doing' = "opened" /\ done = plan => at' = at /\ ~ Alone(tasks, at),
         done = plan => \A l \in result'.written : l \in result.written \/ (l = Task.at /\ ~ Alone(tasks, at))
  PROVE  DoneInv'
<1>1. DiskInv /\ DiskInv' BY DEF Base
<1>2. at \in DOMAIN tasks /\ tasks = Tasks(plan) BY TaskNow DEF Base, BuildInv
<1>3. LinksOf' = LinksOf BY DEF LinksOf
<1>4. Left(Tasks(done))'
  <2>1. ASSUME NEW k \in DOMAIN Tasks(done), Tasks(done)[k].do = "write", Alone(Tasks(done), k)
        PROVE  SameAt(Tasks(done)[k].at)
    <3>1. DOMAIN <<>> = {} OBVIOUS
    <3>2. done = plan BY <2>1, <3>1, NoPlan DEF DoneInv
    <3>3. tasks[k].at[1] \in Dirs /\ tasks[k].at \notin LinksOf
      BY <1>2, <2>1, <3>2, TaskFacts DEF Alone, DoneInv
    <3>4. tasks[k].at = Task.at => k = at BY <1>2, <2>1, <3>2 DEF Alone, Task
    <3> QED BY <1>2, <2>1, <3>2, <3>3, <3>4
  <2>2. Left(Tasks(done)) /\ done \in Plans \cup {<<>>} BY DEF DoneInv
  <2>3. \A p : p \in Plans \cup {<<>>} /\ p = done => Left(Tasks(p))'
    BY <1>1, <2>1, <2>2, LeftSame
  <2>4. PICK p : p = done OBVIOUS
  <2>5. Left(Tasks(p))' BY <2>2, <2>3, <2>4
  <2>6. Tasks(done') = Tasks(p) BY <2>4
  <2> QED BY <2>5, <2>6 DEF Left
<1>5. (done = plan /\ doing = "opened" => ~ Alone(tasks, at))'
  BY <1>3 DEF Alone
<1>6. (done = plan /\ outcome = "running" =>
         \A l \in result.written : \E k \in DOMAIN tasks : tasks[k].at = l /\ ~ Alone(tasks, k))'
  <2> SUFFICES ASSUME done = plan, NEW l \in result'.written
               PROVE  \E k \in DOMAIN tasks : tasks[k].at = l /\ ~ Alone(tasks, k)
    BY <1>3 DEF Alone
  <2>1. CASE l \in result.written BY <2>1 DEF DoneInv
  <2>2. CASE l = Task.at /\ ~ Alone(tasks, at) BY <1>2, <2>2 DEF Task
  <2> QED BY <2>1, <2>2
<1> QED BY <1>4, <1>5, <1>6 DEF DoneInv

\* What a build after one that "done" tells of writes again is not alone.
LEMMA WritesAgain ==
  ASSUME Base, DoneInv, doing # "idle", at <= Len(tasks), done = plan, Task.do = "write", Changed(Task.at, Task.content)
  PROVE  ~ Alone(tasks, at)
<1>1. at \in DOMAIN tasks /\ tasks = Tasks(plan) BY TaskNow DEF Base, BuildInv
<1>2. Left(tasks) BY <1>1 DEF DoneInv
<1> QED BY <1>1, <1>2 DEF Left, Changed, Task

LEMMA RecordDone ==
  ASSUME Base, Base', DoneInv, doing # "idle", at <= Len(tasks), Continues, NoFault,
         NEW list \in {"errors", ListOf(Task.do)}, NEW to, Record(list, to),
         \A l : l[1] \in Dirs /\ l \notin LinksOf =>
           SameAt(l) \/ (l = Task.at /\ (done = plan => ~ Alone(tasks, at))),
         done = plan /\ list = "written" => ~ Alone(tasks, at)
  PROVE  DoneInv'
<1>1. /\ outcome = "running" /\ UNCHANGED <<done, plan, setting, tasks, outcome>> /\ ResultInv
      /\ Task.do \in {"mkdir", "write", "link"}
  BY TaskNow DEF Base, BuildInv, Continues, NoFault
<1>2. doing' # "opened" BY DEF Record
<1>3. list \in Lists BY <1>1 DEF ListOf, Lists
<1>4. ASSUME done = plan, NEW l \in result'.written
      PROVE  l \in result.written \/ (l = Task.at /\ ~ Alone(tasks, at))
  <2>1. CASE list = "written" BY <1>1, <1>4, <2>1 DEF Record, ResultInv
  <2>2. CASE list # "written" BY <1>1, <1>3, <1>4, <2>2 DEF Record, ResultInv, Lists
  <2> QED BY <2>1, <2>2
<1> QED BY <1>1, <1>2, <1>4, DoneStep

LEMMA WithinDone ==
  ASSUME Base, Base', DoneInv, doing # "idle", at <= Len(tasks), Continues, NoFault, UNCHANGED <<at, result>>,
         \A l : l[1] \in Dirs /\ l \notin LinksOf =>
           SameAt(l) \/ (l = Task.at /\ (done = plan => ~ Alone(tasks, at))),
         doing' = "opened" /\ done = plan => ~ Alone(tasks, at)
  PROVE  DoneInv'
<1>1. outcome = "running" /\ UNCHANGED <<done, plan, setting, tasks, outcome>>
  BY DEF Base, BuildInv, Continues, NoFault
<1> QED BY <1>1, DoneStep

\* Where a plan has a link, nothing is alone.
LEMMA LinkNotAlone == ASSUME Task.at \in LinksOf PROVE ~ Alone(tasks, at)
BY DEF Alone, Task

LEMMA OpenDone ==
  ASSUME Base, Base', DoneInv, doing # "idle", at <= Len(tasks), Continues, NoFault, Task.do \in {"write", "link"},
         NEW c, Open(Task.at, c), Elsewhere, done = plan => ~ Alone(tasks, at)
  PROVE  DoneInv'
<1>1. Task.at \in FilesOf \cup LinksOf BY TaskNow DEF Base
<1>2. \A l : l[1] \in Dirs /\ l # Task.at => SameAt(l) BY <1>1, KeptElsewhere
<1>3. CASE UNCHANGED <<at, result>>
  BY <1>2, <1>3, WithinDone
<1>4. CASE Record("errors", at + 1)
  BY <1>2, <1>4, RecordDone
<1> QED BY <1>3, <1>4 DEF Open

LEMMA WorkDone ==
  ASSUME Base, Base', ProgressInv', DoneInv, Work, ~ Execute
  PROVE  DoneInv'
<1>1. CASE \E places : FaultAt(places) BY <1>1, NoneDone DEF FaultAt
<1>2. CASE NoFault /\ Mkdir
  <2>1. at <= Len(tasks) /\ \A m : SameAt(m) BY <1>2, MkdirBase
  <2>2. doing = "task" /\ Task.do = "mkdir" /\ Continues BY <1>2 DEF Mkdir, Turn, Continues
  <2>3. PICK list \in {"dirs", "errors"} : \E to : Record(list, to) BY <1>2 DEF Mkdir
  <2>4. list \in {"errors", ListOf(Task.do)} /\ list # "written" BY <2>2, <2>3 DEF ListOf
  <2> QED BY <1>2, <2>1, <2>2, <2>3, <2>4, RecordDone
<1>3. CASE Skip
  <2>1. at <= Len(tasks) /\ \A m : SameAt(m) BY <1>3, SkipBase
  <2>2. /\ doing = "task" /\ UNCHANGED <<plan, setting, tasks, outcome, done, result>> /\ doing' # "opened"
    BY <1>3 DEF Skip, Turn
  <2>3. outcome = "running" BY <2>2 DEF Base, BuildInv
  <2> QED BY <2>1, <2>2, <2>3, DoneStep
<1>4. CASE NoFault /\ WriteFile
  <2>1. Elsewhere /\ at <= Len(tasks) BY <1>4, WriteFileBase DEF Elsewhere
  <2>2. /\ doing = "task" /\ Task.do = "write" /\ Open(Task.at, Task.content) /\ Continues
        /\ Changed(Task.at, Task.content)
    BY <1>4 DEF WriteFile, Turn, Continues
  <2>3. done = plan => ~ Alone(tasks, at) BY <2>1, <2>2, WritesAgain
  <2> QED BY <1>4, <2>1, <2>2, <2>3, OpenDone
<1>5. CASE NoFault /\ FinishWrite
  <2>1. Elsewhere /\ at <= Len(tasks) /\ Task.do \in {"write", "link"} BY <1>5, FinishWriteBase DEF Elsewhere
  <2>2. doing = "opened" /\ Continues BY <1>5 DEF FinishWrite, Turn, Continues
  <2>3. done = plan => ~ Alone(tasks, at) BY <2>2 DEF DoneInv
  <2>4. Task.at \in FilesOf \cup LinksOf BY <2>1, TaskNow DEF Base
  <2>5. \A l : l[1] \in Dirs /\ l # Task.at => SameAt(l) BY <2>1, <2>4, KeptElsewhere
  <2>6. Finished(ListOf(Task.do)) BY <1>5, <2>1 DEF FinishWrite, ListOf
  <2>7. PICK list \in {"errors", ListOf(Task.do)} : Record(list, at + 1) BY <2>6 DEF Finished
  <2> QED BY <1>5, <2>1, <2>2, <2>3, <2>5, <2>7, RecordDone
<1>6. CASE NoFault /\ RemoveDest
  <2>1. Elsewhere /\ at <= Len(tasks) BY <1>6, RemoveDestBase DEF Elsewhere
  <2>2. doing = "task" /\ Task.do = "link" /\ Continues BY <1>6 DEF RemoveDest, Turn, Continues
  <2>3. Task.at \in LinksOf BY <2>1, <2>2, TaskNow DEF Base
  <2>4. ~ Alone(tasks, at) BY <2>3, LinkNotAlone
  <2>5. \A l : l[1] \in Dirs /\ l # Task.at => SameAt(l) BY <2>1, <2>3, KeptElsewhere
  <2>6. CASE Record("errors", at + 1)
    BY <1>6, <2>1, <2>2, <2>4, <2>5, <2>6, RecordDone
  <2>7. CASE UNCHANGED <<at, result>>
    BY <1>6, <2>1, <2>2, <2>4, <2>5, <2>7, WithinDone
  <2> QED BY <1>6, <2>6, <2>7 DEF RemoveDest
<1>7. CASE NoFault /\ Symlink
  <2>1. Elsewhere /\ at <= Len(tasks) /\ Task.do = "link" BY <1>7, SymlinkBase DEF Elsewhere
  <2>2. doing = "removed" /\ Continues BY <1>7 DEF Symlink, Turn, Continues
  <2>3. Task.at \in LinksOf BY <2>1, <2>2, TaskNow DEF Base
  <2>4. ~ Alone(tasks, at) BY <2>3, LinkNotAlone
  <2>5. \A l : l[1] \in Dirs /\ l # Task.at => SameAt(l) BY <2>1, <2>3, KeptElsewhere
  <2>6. CASE Record("linked", at + 1)
    <3>1. "linked" \in {"errors", ListOf(Task.do)} BY <2>1 DEF ListOf
    <3> QED BY <1>7, <2>1, <2>2, <2>4, <2>5, <2>6, <3>1, RecordDone
  <2>7. CASE UNCHANGED <<at, result>>
    BY <1>7, <2>1, <2>2, <2>4, <2>5, <2>7, WithinDone
  <2> QED BY <1>7, <2>6, <2>7 DEF Symlink
<1>8. CASE NoFault /\ CopyFallback
  <2>1. Elsewhere /\ at <= Len(tasks) BY <1>8, CopyFallbackBase DEF Elsewhere
  <2>2. doing = "copy" /\ Task.do = "link" /\ Continues BY <1>8 DEF CopyFallback, Turn, Base, BuildInv, Continues
  <2>3. Task.at \in LinksOf BY <2>1, <2>2, TaskNow DEF Base
  <2>4. ~ Alone(tasks, at) BY <2>3, LinkNotAlone
  <2>5. \A l : l[1] \in Dirs /\ l # Task.at => SameAt(l) BY <2>1, <2>3, KeptElsewhere
  <2>6. CASE Open(Task.at, ReadFile(Task.source))
    BY <1>8, <2>1, <2>2, <2>4, <2>6, OpenDone
  <2>7. CASE Record("errors", at + 1)
    BY <1>8, <2>1, <2>2, <2>4, <2>5, <2>7, RecordDone
  <2> QED BY <1>8, <2>6, <2>7 DEF CopyFallback
<1>9. (\E places : FaultAt(places)) \/ NoFault \/ Skip
  BY DEF Work, Fault, Mkdir, WriteFile, Open, FinishWrite, Finished, RemoveDest, Symlink, CopyFallback
<1> QED BY <1>1, <1>2, <1>3, <1>4, <1>5, <1>6, <1>7, <1>8, <1>9 DEF Work

LEMMA ExecuteDone ==
  ASSUME Base, Base', ProgressInv, ProgressInv', DoneInv, Execute
  PROVE  DoneInv'
<1>1. /\ doing = "task" /\ at > Len(tasks) /\ disk' = disk /\ UNCHANGED <<plan, tasks>>
      /\ done' = IF result.errors = {} THEN plan ELSE <<>>
      /\ doing' = "idle"
  BY DEF Execute
<1>2. CASE result.errors = {}
  <2>1. plan \in Plans \cup {<<>>} /\ tasks = Tasks(plan) /\ outcome = "running" /\ at \in 1 .. Len(tasks) + 1
    BY <1>1 DEF Base, BuildInv
  <2>2. TasksOK(tasks) BY <2>1, TasksOfPlan
  <2>3. Len(tasks) \in Nat /\ DOMAIN tasks = 1 .. Len(tasks) BY <2>2 DEF TasksOK
  <2>4. DOMAIN tasks = 1 .. at - 1 BY <1>1, <2>1, <2>3
  <2>5. ASSUME NEW k \in DOMAIN tasks, tasks[k].do = "write", Alone(tasks, k)
        PROVE  ReadFile(tasks[k].at) = tasks[k].content
    <3>1. Accounted(k) BY <2>1, <2>4 DEF ProgressInv
    <3>2. ~ HeldBack(k) BY <1>2 DEF HeldBack
    <3>3. Settled(k) BY <1>2, <3>1, <3>2 DEF Accounted
    <3>4. ~ \E j \in k + 1 .. at - 1 : tasks[j].at = tasks[k].at
      <4>1. \A j \in k + 1 .. at - 1 : j \in DOMAIN tasks /\ j # k
        <5>1. k \in Nat /\ k >= 1 BY <2>4, <2>3
        <5> QED BY <2>4, <5>1
      <4> QED BY <2>5, <4>1 DEF Alone
    <3> QED BY <1>1, <2>5, <3>3, <3>4 DEF Settled, Alone
  <2>6. Left(Tasks(plan)) BY <2>1, <2>5 DEF Left
  <2>7. Left(Tasks(done))'
    <3>1. \A l : ReadFile(l)' = ReadFile(l) BY <1>1 DEF ReadFile, Follow, Has
    <3>2. Tasks(done') = Tasks(plan) BY <1>1, <1>2
    <3>3. LinksOf' = LinksOf BY DEF LinksOf
    <3> QED BY <2>6, <3>1, <3>2, <3>3 DEF Left, Alone
  <2>8. outcome' # "running" BY <1>1 DEF Base, BuildInv
  <2>9. done' \in Plans \cup {<<>>} BY <1>1, <1>2, <2>1
  <2> QED BY <1>1, <2>7, <2>8, <2>9 DEF DoneInv
<1>3. CASE result.errors # {} BY <1>1, <1>3, NoneDone
<1> QED BY <1>2, <1>3

LEMMA BeginDone ==
  ASSUME Base, Base', ProgressInv', DoneInv, Begin
  PROVE  DoneInv'
<1>1. PICK p \in Plans, s \in Settings :
        /\ plan' = p
        /\ IF s.dryRun
             THEN doing' = "idle" /\ outcome' = "simulated"
             ELSE doing' = "task" /\ result' = NoResult /\ outcome' = "running"
        /\ done' = IF s.dryRun \/ done = p THEN done ELSE <<>>
  BY DEF Begin
<1>2. disk' = disk BY DEF Begin
<1>3. CASE done' = <<>> BY <1>3, NoneDone
<1>4. CASE done' = done
  <2>1. Left(Tasks(done))'
    <3>1. \A l : ReadFile(l)' = ReadFile(l) BY <1>2 DEF ReadFile, Follow, Has
    <3>2. Tasks(done') = Tasks(done) BY <1>4
    <3>3. LinksOf' = LinksOf BY DEF LinksOf
    <3>4. Left(Tasks(done)) BY DEF DoneInv
    <3> QED BY <3>1, <3>2, <3>3, <3>4 DEF Left, Alone
  <2>2. doing' # "opened" BY <1>1
  <2>3. CASE s.dryRun
    <3>1. outcome' # "running" BY <1>1, <2>3
    <3> QED BY <1>4, <2>1, <2>2, <3>1 DEF DoneInv
  <2>4. CASE ~ s.dryRun
    <3>1. result' = NoResult BY <1>1, <2>4
    <3>2. result'.written = {} BY <3>1 DEF NoResult
    <3>3. done' \in {plan', <<>>} BY <1>1, <2>4
    <3> QED BY <1>4, <2>1, <2>2, <3>2, <3>3 DEF DoneInv
  <2> QED BY <2>3, <2>4
<1> QED BY <1>1, <1>3, <1>4

LEMMA StutterDone == ASSUME Base, DoneInv, UNCHANGED vars PROVE DoneInv'
<1>1. UNCHANGED <<disk, plan, tasks, at, doing, result, outcome, done>> BY DEF vars
<1>2. Left(Tasks(done))'
  <2>1. \A l : ReadFile(l)' = ReadFile(l) BY <1>1 DEF ReadFile, Follow, Has
  <2>2. Tasks(done') = Tasks(done) BY <1>1
  <2>3. LinksOf' = LinksOf BY DEF LinksOf
  <2>4. Left(Tasks(done)) BY DEF DoneInv
  <2> QED BY <2>1, <2>2, <2>3, <2>4 DEF Left, Alone
<1> QED BY <1>1, <1>2 DEF DoneInv, Alone, LinksOf

LEMMA DoneNext == Base /\ Base' /\ ProgressInv /\ ProgressInv' /\ DoneInv /\ [Next]_vars => DoneInv'
<1> SUFFICES ASSUME Base, Base', ProgressInv, ProgressInv', DoneInv, [Next]_vars PROVE DoneInv'
  OBVIOUS
<1>1. CASE Crash
  <2>1. done' = <<>> BY <1>1 DEF Crash, Fault, FaultAt
  <2> QED BY <2>1, NoneDone
<1> QED BY <1>1, WorkDone, ExecuteDone, BeginDone, StutterDone DEF Next, Work

\* After a build without an error, another one of the same plan writes no file again,
\* but where tasks are at odds (writeFileIfChanged, contentUnchanged).
THEOREM SecondBuildIsQuiet == Spec => []SecondBuildWritesNothing
<1>1. Init => DoneInv
  <2> SUFFICES ASSUME Init PROVE DoneInv
    OBVIOUS
  <2>1. DOMAIN <<>> = {} OBVIOUS
  <2> QED BY <2>1, NoPlan DEF Init, DoneInv, Left
<1>2. Base /\ DoneInv => SecondBuildWritesNothing
  <2> SUFFICES ASSUME Base, DoneInv, done = plan, outcome = "running", NEW l \in result.written, l \notin LinksOf
               PROVE  \E j, k \in DOMAIN tasks : j # k /\ tasks[j].at = l /\ tasks[k].at = l
    BY DEF SecondBuildWritesNothing
  <2>1. PICK k \in DOMAIN tasks : tasks[k].at = l /\ ~ Alone(tasks, k) BY DEF DoneInv
  <2> QED BY <2>1 DEF Alone
<1>3. Spec => [](Base /\ ProgressInv /\ DoneInv)
  BY <1>1, InitBase, NextBase, ProgressNext, DoneNext, ProgressIsInvariant, PTL DEF Spec
<1> QED BY <1>2, <1>3, PTL

-----------------------------------------------------------------------------
(* MemFS: what the synchronization of the root does.                       *)

LEMMA WithFacts ==
  ASSUME NEW f, NEW l, NEW v
  PROVE  /\ DOMAIN With(f, l, v) = DOMAIN f \cup {l}
         /\ With(f, l, v)[l] = v
         /\ \A x \in DOMAIN f : x # l => With(f, l, v)[x] = f[x]
BY DEF With

LEMMA SyncedEquation ==
  ASSUME Len(tasks) \in Nat, NEW m
  PROVE  /\ Synced(m)[0] = m
         /\ \A n \in 1 .. Len(tasks) :
              Synced(m)[n] = IF UnitFile(tasks[n]) THEN SyncFile(Synced(m)[n - 1], tasks[n].at, Dest(tasks[n]))
                             ELSE Synced(m)[n - 1]
<1> DEFINE N == Len(tasks)
           Next1(g, i) == IF i = 0 THEN m
                          ELSE IF UnitFile(tasks[i]) THEN SyncFile(g[i - 1], tasks[i].at, Dest(tasks[i]))
                          ELSE g[i - 1]
           Solves(g, n) == /\ g = [i \in 0 .. N |-> g[i]]
                           /\ \A i \in 0 .. n : g[i] = Next1(g, i)
           Bad == {n \in 0 .. N : ~ \E g : Solves(g, n)}
<1>1. N \in Nat OBVIOUS
<1>2. \E g : Solves(g, 0)
  <2> DEFINE h == [i \in 0 .. N |-> m]
  <2>1. h = [i \in 0 .. N |-> h[i]] OBVIOUS
  <2>2. \A i \in 0 .. 0 : h[i] = Next1(h, i) BY <1>1
  <2>3. Solves(h, 0)
    <3> HIDE DEF h, Next1
    <3> QED BY <2>1, <2>2
  <2> QED BY <2>3
<1>3. ASSUME NEW n \in 0 .. N - 1, NEW g, Solves(g, n)
      PROVE  \E h : Solves(h, n + 1)
  <2> DEFINE h == [i \in 0 .. N |-> IF i = n + 1 THEN Next1(g, i) ELSE g[i]]
  <2>1. \A i \in 0 .. n + 1 : Next1(h, i) = Next1(g, i)
    <3> SUFFICES ASSUME NEW i \in 0 .. n + 1 PROVE Next1(h, i) = Next1(g, i)
      OBVIOUS
    <3>1. CASE i = 0 BY <3>1
    <3>2. CASE i # 0
      <4>1. i - 1 \in 0 .. N /\ i - 1 # n + 1 BY <1>1, <3>2
      <4>2. h[i - 1] = g[i - 1] BY <4>1
      <4> HIDE DEF h
      <4> QED BY <3>2, <4>2
    <3> QED BY <3>1, <3>2
  <2>2. \A i \in 0 .. n + 1 : h[i] = Next1(g, i)
    <3> SUFFICES ASSUME NEW i \in 0 .. n + 1 PROVE h[i] = Next1(g, i)
      OBVIOUS
    <3>1. i \in 0 .. N BY <1>1
    <3>2. CASE i = n + 1 BY <3>1, <3>2
    <3>3. CASE i # n + 1
      <4>1. i \in 0 .. n BY <3>3
      <4>2. g[i] = Next1(g, i) BY <1>3, <4>1
      <4>3. h[i] = g[i] BY <3>1, <3>3
      <4> HIDE DEF h, Next1
      <4> QED BY <4>2, <4>3
    <3> QED BY <3>2, <3>3
  <2>3. h = [i \in 0 .. N |-> h[i]] OBVIOUS
  <2>4. Solves(h, n + 1)
    <3>1. \A i \in 0 .. n + 1 : h[i] = Next1(h, i)
      <4> HIDE DEF h, Next1
      <4> QED BY <2>1, <2>2
    <3> HIDE DEF h, Next1
    <3> QED BY <2>3, <3>1
  <2> QED BY <2>4
<1>4. Bad = {}
  <2> SUFFICES ASSUME Bad # {} PROVE FALSE
    OBVIOUS
  <2>1. Bad \in SUBSET Nat BY <1>1
  <2>2. PICK b \in Bad : \A l \in Bad : b <= l
    <3> HIDE DEF Bad
    <3> QED BY <2>1, Least
  <2>3. b # 0 BY <1>2
  <2>4. b - 1 \in 0 .. N - 1 BY <1>1, <2>3
  <2>5. b - 1 \notin Bad
    <3>1. b \in Nat BY <2>1
    <3> HIDE DEF Bad
    <3> QED BY <2>2, <3>1
  <2>6. \E g : Solves(g, b - 1) BY <1>1, <2>4, <2>5
  <2>7. \E g : Solves(g, b - 1 + 1)
    <3> HIDE DEF Solves
    <3> QED BY <1>3, <2>4, <2>6
  <2>8. b - 1 + 1 = b BY <2>1
  <2> QED BY <2>7, <2>8
<1>5. PICK f : Solves(f, N)
  <2> HIDE DEF Solves
  <2> QED BY <1>1, <1>4
<1> DEFINE Is(g) == g = [n \in 0 .. Len(tasks) |->
                           IF n = 0 THEN m
                           ELSE IF UnitFile(tasks[n]) THEN SyncFile(g[n - 1], tasks[n].at, Dest(tasks[n]))
                           ELSE g[n - 1]]
<1>6. Is(f)
  <2>1. f = [i \in 0 .. N |-> Next1(f, i)]
    <3> HIDE DEF Next1
    <3> QED BY <1>5
  <2> QED BY <2>1
<1>7. Is(Synced(m))
  <2>1. Synced(m) = CHOOSE g : Is(g) BY Zenon DEF Synced
  <2> HIDE DEF Is
  <2> QED BY <1>6, <2>1, Zenon
<1>8. Synced(m)[0] = m
  <2>1. 0 \in 0 .. Len(tasks) BY <1>1
  <2> QED BY <1>7, <2>1
<1>9. ASSUME NEW n \in 1 .. Len(tasks)
      PROVE  Synced(m)[n] = IF UnitFile(tasks[n]) THEN SyncFile(Synced(m)[n - 1], tasks[n].at, Dest(tasks[n]))
                            ELSE Synced(m)[n - 1]
  <2>1. n \in 0 .. Len(tasks) /\ n # 0 BY <1>1
  <2> QED BY <1>7, <2>1
<1> QED BY <1>8, <1>9

\* Away from the root, w has what m has.
SameOutside(m, w) ==
  \A l : l[1] # Root =>
    /\ l \in DOMAIN w.files <=> l \in DOMAIN m.files
    /\ l \in DOMAIN m.files => w.files[l] = m.files[l]
    /\ l \in DOMAIN w.links <=> l \in DOMAIN m.links
    /\ l \in DOMAIN m.links => w.links[l] = m.links[l]

\* The root has in w what the file of the task is in m.
RightAt(m, w, t) ==
  CASE setting.mode = "copy" ->
         Dest(t) \in DOMAIN w.files /\ w.files[Dest(t)] = m.files[t.at]
    [] setting.mode = "symlink" ->
         Dest(t) \in DOMAIN w.links /\ w.links[Dest(t)] = t.at /\ Dest(t) \notin DOMAIN w.files
    [] setting.mode = "adopt-selected" ->
         t.at[2] \in Adopted => Dest(t) \in DOMAIN w.files /\ w.files[Dest(t)] = m.files[t.at]

\* None of the tasks from j to n goes for the same place in the root.
LastFor(j, n) == \A k \in j + 1 .. n : UnitFile(tasks[k]) => Dest(tasks[k]) # Dest(tasks[j])

\* What there is, is under a name, and a link in the root leads to a unit's file of
\* its own name.
Named(w) ==
  /\ \A l \in DOMAIN w.files \cup DOMAIN w.links : l[2] # ""
  /\ \A l \in DOMAIN w.links : l[1] = Root => w.links[l][1] \in Dirs /\ w.links[l][2] = l[2]

\* What synchronizing the first n tasks has done.
SyncedTo(m, n) ==
  /\ SameOutside(m, Synced(m)[n]) /\ Named(Synced(m)[n])
  /\ \A j \in 1 .. n : UnitFile(tasks[j]) /\ LastFor(j, n) => RightAt(m, Synced(m)[n], tasks[j])

\* A place under a name, away from the root.
NamedPlace(l) == l[1] \in Dirs /\ l[1] # Root /\ l[2] # ""

Mode == setting.mode \in {"copy", "symlink", "adopt-selected"}

-----------------------------------------------------------------------------
\* w and v have the same but at d.
SameBut(d, w, v) ==
  \A l : l # d =>
    /\ l \in DOMAIN v.files <=> l \in DOMAIN w.files
    /\ l \in DOMAIN w.files => v.files[l] = w.files[l]
    /\ l \in DOMAIN v.links <=> l \in DOMAIN w.links
    /\ l \in DOMAIN w.links => v.links[l] = w.links[l]

LEMMA CopyFacts ==
  ASSUME NEW w, NEW src, NEW d
  PROVE  \A v : v = SyncCopy(w, src, d) =>
           SameBut(d, w, v) /\ v.links = w.links /\ d \in DOMAIN v.files /\ v.files[d] = w.files[src]
<1> TAKE v
<1> HAVE v = SyncCopy(w, src, d)
<1>1. v.files = With(w.files, d, w.files[src]) /\ v.links = w.links BY DEF SyncCopy
<1>2. PICK f, x : f = w.files /\ x = w.files[src] OBVIOUS
<1>3. /\ DOMAIN With(f, d, x) = DOMAIN f \cup {d} /\ With(f, d, x)[d] = x
      /\ \A l \in DOMAIN f : l # d => With(f, d, x)[l] = f[l]
  BY DEF With
<1>4. /\ DOMAIN v.files = DOMAIN w.files \cup {d} /\ v.files[d] = w.files[src]
      /\ \A l \in DOMAIN w.files : l # d => v.files[l] = w.files[l]
  BY <1>1, <1>2, <1>3
<1> QED BY <1>1, <1>4 DEF SameBut

LEMMA LinkFacts ==
  ASSUME NEW w, NEW src, NEW d
  PROVE  \A v : v = SyncSymlink(w, src, d) =>
           SameBut(d, w, v) /\ d \in DOMAIN v.links /\ v.links[d] = src /\ d \notin DOMAIN v.files
<1> TAKE v
<1> HAVE v = SyncSymlink(w, src, d)
<1>1. v.files = [l \in DOMAIN w.files \ {d} |-> w.files[l]] /\ v.links = With(w.links, d, src)
  BY DEF SyncSymlink
<1>2. PICK f : f = w.links OBVIOUS
<1>3. /\ DOMAIN With(f, d, src) = DOMAIN f \cup {d} /\ With(f, d, src)[d] = src
      /\ \A l \in DOMAIN f : l # d => With(f, d, src)[l] = f[l]
  BY DEF With
<1>4. /\ DOMAIN v.links = DOMAIN w.links \cup {d} /\ v.links[d] = src
      /\ \A l \in DOMAIN w.links : l # d => v.links[l] = w.links[l]
  BY <1>1, <1>2, <1>3
<1>5. DOMAIN v.files = DOMAIN w.files \ {d} /\ \A l \in DOMAIN v.files : v.files[l] = w.files[l]
  BY <1>1
<1> QED BY <1>4, <1>5 DEF SameBut

\* One file.
LEMMA SyncFileCases ==
  ASSUME Mode, NEW w, NEW s, NEW d, NEW v, v = SyncFile(w, s, d)
  PROVE  /\ SameBut(d, w, v)
         /\ v.links = w.links \/ (d \in DOMAIN v.links /\ v.links[d] = s)
         /\ setting.mode = "copy" => d \in DOMAIN v.files /\ v.files[d] = w.files[s]
         /\ setting.mode = "symlink" => d \in DOMAIN v.links /\ v.links[d] = s /\ d \notin DOMAIN v.files
         /\ setting.mode = "adopt-selected" => (d[2] \in Adopted => d \in DOMAIN v.files /\ v.files[d] = w.files[s])
<1>1. CASE setting.mode = "copy"
  <2>1. v = SyncCopy(w, s, d) BY <1>1 DEF SyncFile
  <2> QED BY <1>1, <2>1, CopyFacts
<1>2. CASE setting.mode = "symlink"
  <2>1. v = SyncSymlink(w, s, d) BY <1>2 DEF SyncFile
  <2> QED BY <1>2, <2>1, LinkFacts
<1>3. CASE setting.mode = "adopt-selected" /\ d[2] \in Adopted
  <2>1. v = SyncCopy(w, s, d) BY <1>3 DEF SyncFile
  <2> QED BY <1>3, <2>1, CopyFacts
<1>4. CASE setting.mode = "adopt-selected" /\ d[2] \notin Adopted
  <2>1. v = w BY <1>4 DEF SyncFile
  <2>2. SameBut(d, w, v) BY <2>1 DEF SameBut
  <2> QED BY <1>4, <2>1, <2>2
<1> QED BY <1>1, <1>2, <1>3, <1>4 DEF Mode

LEMMA SyncFileFacts ==
  ASSUME Mode, NEW m, NEW w, NEW t, SameOutside(m, w), Named(w),
         t.at \in DOMAIN m.files, NamedPlace(t.at),
         NEW s, s = t.at, NEW d, d = Dest(t), NEW v, v = SyncFile(w, s, d)
  PROVE  SameOutside(m, v) /\ Named(v) /\ RightAt(m, v, t) /\ SameBut(d, w, v)
<1>1. d[1] = Root /\ d[2] = t.at[2] /\ d[2] # "" BY DEF Dest, At, NamedPlace
<1>2. w.files[t.at] = m.files[t.at] BY DEF SameOutside, NamedPlace
<1>3. SameBut(d, w, v) /\ RightAt(m, v, t)
  <2>3. /\ SameBut(d, w, v)
        /\ setting.mode = "copy" => d \in DOMAIN v.files /\ v.files[d] = w.files[s]
        /\ setting.mode = "symlink" => d \in DOMAIN v.links /\ v.links[d] = s /\ d \notin DOMAIN v.files
        /\ setting.mode = "adopt-selected" => (d[2] \in Adopted => d \in DOMAIN v.files /\ v.files[d] = w.files[s])
    BY SyncFileCases
  <2>4. w.files[s] = m.files[s] BY <1>2
  <2>5. CASE setting.mode = "copy" BY <1>1, <2>3, <2>4, <2>5 DEF RightAt
  <2>6. CASE setting.mode = "symlink" BY <1>1, <2>3, <2>4, <2>6 DEF RightAt
  <2>7. CASE setting.mode = "adopt-selected" BY <1>1, <2>3, <2>4, <2>7 DEF RightAt
  <2> QED BY <2>3, <2>5, <2>6, <2>7 DEF Mode
<1>4. SameOutside(m, v)
  <2> SUFFICES ASSUME NEW l, l[1] # Root
               PROVE  /\ l \in DOMAIN v.files <=> l \in DOMAIN m.files
                      /\ l \in DOMAIN m.files => v.files[l] = m.files[l]
                      /\ l \in DOMAIN v.links <=> l \in DOMAIN m.links
                      /\ l \in DOMAIN m.links => v.links[l] = m.links[l]
    BY DEF SameOutside
  <2>1. l # d BY <1>1
  <2> QED BY <1>3, <2>1 DEF SameOutside, SameBut
<1>5. Named(v)
  <2>1. ASSUME NEW l \in DOMAIN v.files \cup DOMAIN v.links PROVE l[2] # ""
    <3>1. CASE l = d BY <1>1, <3>1
    <3>2. CASE l # d BY <1>3, <3>2 DEF Named, SameBut
    <3> QED BY <3>1, <3>2
  <2>2. ASSUME NEW l \in DOMAIN v.links, l[1] = Root
        PROVE  v.links[l][1] \in Dirs /\ v.links[l][2] = l[2]
    <3>1. v.links = w.links \/ (d \in DOMAIN v.links /\ v.links[d] = s) BY SyncFileCases
    <3>2. CASE l # d BY <1>3, <2>2, <3>2 DEF Named, SameBut
    <3>3. CASE l = d /\ v.links[d] = s BY <1>1, <3>3 DEF NamedPlace
    <3>4. CASE v.links = w.links BY <2>2, <3>4 DEF Named
    <3> QED BY <3>1, <3>2, <3>3, <3>4
  <2> QED BY <2>1, <2>2 DEF Named
<1> QED BY <1>3, <1>4, <1>5

\* The right file stays right while other files are synchronized.
LEMMA RightStays ==
  ASSUME Mode, NEW m, NEW w, NEW v, NEW t, RightAt(m, w, t), NEW d, SameBut(d, w, v), Dest(t) # d
  PROVE  RightAt(m, v, t)
<1>1. PICK l : l = Dest(t) OBVIOUS
<1>2. /\ l \in DOMAIN v.files <=> l \in DOMAIN w.files
      /\ l \in DOMAIN w.files => v.files[l] = w.files[l]
      /\ l \in DOMAIN v.links <=> l \in DOMAIN w.links
      /\ l \in DOMAIN w.links => v.links[l] = w.links[l]
  BY <1>1 DEF SameBut
<1>3. CASE setting.mode = "copy" BY <1>1, <1>2, <1>3 DEF RightAt
<1>4. CASE setting.mode = "symlink" BY <1>1, <1>2, <1>4 DEF RightAt
<1>5. CASE setting.mode = "adopt-selected" BY <1>1, <1>2, <1>5 DEF RightAt
<1> QED BY <1>3, <1>4, <1>5 DEF Mode

\* The files to synchronize are there, under names, away from the root.
Ready(m) ==
  \A k \in 1 .. Len(tasks) :
    UnitFile(tasks[k]) => tasks[k].at \in DOMAIN m.files /\ NamedPlace(tasks[k].at)

LEMMA SyncedZero ==
  ASSUME Len(tasks) \in Nat, NEW m, Named(m) PROVE SyncedTo(m, 0)
<1>1. Synced(m)[0] = m BY SyncedEquation
<1>2. SameOutside(m, m) BY DEF SameOutside
<1>3. \A j \in 1 .. 0 : FALSE OBVIOUS
<1> QED BY <1>1, <1>2, <1>3 DEF SyncedTo

LEMMA SyncedStep ==
  ASSUME Mode, Len(tasks) \in Nat, NEW m, Ready(m), NEW n \in 1 .. Len(tasks), SyncedTo(m, n - 1)
  PROVE  SyncedTo(m, n)
<1>1. PICK w, v, t : w = Synced(m)[n - 1] /\ v = Synced(m)[n] /\ t = tasks[n] OBVIOUS
<1>2. /\ SameOutside(m, w) /\ Named(w)
      /\ \A j \in 1 .. n - 1 : UnitFile(tasks[j]) /\ LastFor(j, n - 1) => RightAt(m, w, tasks[j])
  BY <1>1 DEF SyncedTo
<1>3. v = IF UnitFile(t) THEN SyncFile(w, t.at, Dest(t)) ELSE w BY <1>1, SyncedEquation
<1>4. n \in Nat /\ \A j \in 1 .. n : j = n \/ j \in 1 .. n - 1 OBVIOUS
<1>5. ASSUME NEW j \in 1 .. n - 1, LastFor(j, n)
      PROVE  LastFor(j, n - 1) /\ (UnitFile(t) => Dest(t) # Dest(tasks[j]))
  <2>1. n \in j + 1 .. n /\ \A k \in j + 1 .. n - 1 : k \in j + 1 .. n OBVIOUS
  <2>2. \A k \in j + 1 .. n : UnitFile(tasks[k]) => Dest(tasks[k]) # Dest(tasks[j]) BY <1>5 DEF LastFor
  <2> QED BY <1>1, <2>1, <2>2 DEF LastFor
<1>6. SameOutside(m, v) /\ Named(v)
      /\ \A j \in 1 .. n : UnitFile(tasks[j]) /\ LastFor(j, n) => RightAt(m, v, tasks[j])
  <2>1. CASE UnitFile(t)
    <3>1. t.at \in DOMAIN m.files /\ NamedPlace(t.at) BY <1>1, <2>1 DEF Ready
    <3>2. PICK s, d : s = t.at /\ d = Dest(t) OBVIOUS
    <3>3. v = SyncFile(w, s, d) BY <1>3, <2>1, <3>2
    <3>4. SameOutside(m, v) /\ Named(v) /\ RightAt(m, v, t) /\ SameBut(d, w, v)
      BY <1>2, <3>1, <3>2, <3>3, SyncFileFacts
    <3>5. ASSUME NEW j \in 1 .. n, UnitFile(tasks[j]), LastFor(j, n) PROVE RightAt(m, v, tasks[j])
      <4>1. CASE j = n BY <1>1, <3>4, <4>1
      <4>2. CASE j \in 1 .. n - 1
        <5>1. RightAt(m, w, tasks[j]) /\ d # Dest(tasks[j]) BY <1>2, <1>5, <2>1, <3>2, <3>5, <4>2
        <5> QED BY <3>4, <5>1, RightStays
      <4> QED BY <1>4, <4>1, <4>2
    <3> QED BY <3>4, <3>5
  <2>2. CASE ~ UnitFile(t)
    <3>1. v = w BY <1>3, <2>2
    <3>2. ASSUME NEW j \in 1 .. n, UnitFile(tasks[j]), LastFor(j, n) PROVE RightAt(m, v, tasks[j])
      <4>1. j # n BY <1>1, <2>2, <3>2
      <4>2. j \in 1 .. n - 1 BY <1>4, <4>1
      <4> QED BY <1>2, <1>5, <3>1, <3>2, <4>2
    <3> QED BY <1>2, <3>1, <3>2
  <2> QED BY <2>1, <2>2
<1> QED BY <1>1, <1>6 DEF SyncedTo

LEMMA SyncedFacts ==
  ASSUME Mode, Len(tasks) \in Nat, NEW m, Named(m), Ready(m)
  PROVE  SyncedTo(m, Len(tasks))
<1>1. PICK W : W = {n \in 0 .. Len(tasks) : ~ SyncedTo(m, n)} OBVIOUS
<1>2. \A n : n \in W <=> n \in 0 .. Len(tasks) /\ ~ SyncedTo(m, n) BY <1>1
<1>3. W \in SUBSET Nat BY <1>2
<1>4. W = {}
  <2> SUFFICES ASSUME W # {} PROVE FALSE
    OBVIOUS
  <2>1. PICK n \in W : \A k \in W : n <= k BY <1>3, Least
  <2>2. n \in Nat BY <1>3
  <2>3. n # 0 BY <1>2, <2>1, SyncedZero
  <2>4. n \in 0 .. Len(tasks) BY <1>2
  <2>5. n \in 1 .. Len(tasks) BY <2>2, <2>3, <2>4
  <2>6. n - 1 \in 0 .. Len(tasks) /\ ~ (n <= n - 1) BY <2>2, <2>5
  <2>7. n - 1 \notin W BY <2>1, <2>6
  <2>8. SyncedTo(m, n - 1) BY <1>2, <2>6, <2>7
  <2>9. SyncedTo(m, n) BY <2>5, <2>8, SyncedStep
  <2> QED BY <1>2, <2>9
<1>5. Len(tasks) \in 0 .. Len(tasks) OBVIOUS
<1> QED BY <1>2, <1>4, <1>5

-----------------------------------------------------------------------------
(* The root.                                                               *)

\* What MemMaterialize leaves: the files and the links of the tasks, and around
\* them what there was.
LEMMA MaterializedFacts ==
  ASSUME NEW w, w = MemMaterialize(mem)
  PROVE  /\ DOMAIN w.files = DOMAIN mem.files \cup Of("write")
         /\ DOMAIN w.links = DOMAIN mem.links \cup Of("link")
         /\ \A l \in DOMAIN w.files :
              w.files[l] = IF l \in Of("write") THEN LastOf("write", l).content ELSE mem.files[l]
         /\ \A l \in DOMAIN w.links :
              w.links[l] = IF l \in Of("link") THEN LastOf("link", l).source ELSE mem.links[l]
<1>1. PICK W, L : W = Of("write") /\ L = Of("link") OBVIOUS
<1>2. Simulated(tasks).written = W /\ Simulated(tasks).linked = L BY <1>1, SimulatedIs
<1>3. /\ w.files = [l \in DOMAIN mem.files \cup W |-> IF l \in W THEN LastOf("write", l).content ELSE mem.files[l]]
      /\ w.links = [l \in DOMAIN mem.links \cup L |-> IF l \in L THEN LastOf("link", l).source ELSE mem.links[l]]
  BY <1>2 DEF MemMaterialize
<1> QED BY <1>1, <1>3

\* A file or a link has a name.
LEMMA OfNamed ==
  ASSUME Base
  PROVE  /\ \A l \in Of("write") : l \in FilesOf /\ l[1] \in Dirs /\ l[2] # ""
         /\ \A l \in Of("link") : l \in LinksOf /\ l[1] \in Dirs /\ l[2] # ""
<1>1. plan \in Plans \cup {<<>>} /\ tasks = Tasks(plan) BY DEF Base, BuildInv
<1>2. ASSUME NEW k \in DOMAIN tasks, NEW l, l = tasks[k].at
      PROVE  /\ tasks[k].do = "write" => l \in FilesOf /\ l[1] \in Dirs /\ l[2] # ""
             /\ tasks[k].do = "link" => l \in LinksOf /\ l[1] \in Dirs /\ l[2] # ""
  BY <1>1, <1>2, TaskFacts
<1> QED BY <1>2 DEF Of

LEMMA MaterializedIsReady ==
  ASSUME Base, Named(mem), NEW w, w = MemMaterialize(mem)
  PROVE  Named(w) /\ Ready(w)
<1>1. Named(w)
  <2>1. ASSUME NEW l \in DOMAIN w.files \cup DOMAIN w.links PROVE l[2] # ""
    <3>1. l \in DOMAIN mem.files \cup DOMAIN mem.links \/ l \in Of("write") \/ l \in Of("link")
      BY MaterializedFacts
    <3> QED BY <3>1, OfNamed DEF Named
  <2>2. ASSUME NEW l \in DOMAIN w.links, l[1] = Root
        PROVE  w.links[l][1] \in Dirs /\ w.links[l][2] = l[2]
    <3>1. l \notin Of("link") BY <2>2, OfNamed, PlaceFacts
    <3>2. l \in DOMAIN mem.links /\ w.links[l] = mem.links[l] BY <3>1, MaterializedFacts
    <3> QED BY <2>2, <3>2 DEF Named
  <2> QED BY <2>1, <2>2 DEF Named
<1>2. Ready(w)
  <2>1. plan \in Plans \cup {<<>>} /\ tasks = Tasks(plan) BY DEF Base, BuildInv
  <2>2. TasksOK(tasks) BY <2>1, TasksOfPlan
  <2>3. DOMAIN tasks = 1 .. Len(tasks) BY <2>2 DEF TasksOK
  <2>4. ASSUME NEW k \in 1 .. Len(tasks), UnitFile(tasks[k])
        PROVE  tasks[k].at \in DOMAIN w.files /\ NamedPlace(tasks[k].at)
    <3>1. PICK l : l = tasks[k].at OBVIOUS
    <3>2. l \in Of("write") BY <2>3, <2>4, <3>1 DEF UnitFile, Of
    <3>3. l \in DOMAIN w.files BY <3>2, MaterializedFacts
    <3>4. l[1] \in Dirs /\ l[2] # "" BY <3>2, OfNamed
    <3>5. NamedPlace(l) BY <3>4, PlaceFacts DEF NamedPlace
    <3> QED BY <3>1, <3>3, <3>5
  <2> QED BY <2>4 DEF Ready
<1> QED BY <1>1, <1>2

\* What the end of a build leaves in MemFS.
LEMMA ExecuteSyncs ==
  ASSUME Base, Named(mem), Execute, NEW w, w = MemMaterialize(mem)
  PROVE  /\ Named(mem') /\ SameOutside(w, mem')
         /\ setting.mode = "build-only" => mem' = w
         /\ setting.mode # "build-only" =>
              \A j \in DOMAIN tasks : UnitFile(tasks[j]) /\ LastFor(j, Len(tasks)) => RightAt(w, mem', tasks[j])
<1>1. mem' = ApplySyncMode(w) BY DEF Execute
<1>2. plan \in Plans \cup {<<>>} /\ tasks = Tasks(plan) /\ setting \in Settings BY DEF Base, BuildInv
<1>3. TasksOK(tasks) BY <1>2, TasksOfPlan
<1>4. Len(tasks) \in Nat /\ DOMAIN tasks = 1 .. Len(tasks) BY <1>3 DEF TasksOK
<1>5. Named(w) /\ Ready(w) BY MaterializedIsReady
<1>6. CASE setting.mode = "build-only"
  <2>1. mem' = w BY <1>1, <1>6 DEF ApplySyncMode
  <2>2. SameOutside(w, w) BY DEF SameOutside
  <2> QED BY <1>5, <1>6, <2>1, <2>2
<1>7. CASE setting.mode # "build-only"
  <2>1. mem' = Synced(w)[Len(tasks)] BY <1>1, <1>7 DEF ApplySyncMode
  <2>2. Mode BY <1>2, <1>7, MaterializerAssumption DEF Mode
  <2>3. SyncedTo(w, Len(tasks)) BY <1>4, <1>5, <2>2, SyncedFacts
  <2>4. /\ SameOutside(w, mem') /\ Named(mem')
        /\ \A j \in 1 .. Len(tasks) : UnitFile(tasks[j]) /\ LastFor(j, Len(tasks)) => RightAt(w, mem', tasks[j])
    BY <2>1, <2>3 DEF SyncedTo
  <2> QED BY <1>4, <1>7, <2>4
<1> QED BY <1>6, <1>7

LEMMA NamedNext == Base /\ Named(mem) /\ [Next]_vars => Named(mem)'
<1> SUFFICES ASSUME Base, Named(mem), [Next]_vars PROVE Named(mem')
  OBVIOUS
<1>1. CASE Execute BY <1>1, ExecuteSyncs
<1>2. CASE mem' = mem BY <1>2
<1> QED BY <1>1, <1>2 DEF Next, Begin, Work, Mkdir, Skip, WriteFile, FinishWrite, RemoveDest, Symlink, CopyFallback,
                         Crash, vars

LEMMA ExecuteRoot == ASSUME Base, Named(mem), Execute PROVE RootIsInSync'
<1>1. UNCHANGED <<setting, tasks>> BY DEF Execute
<1>2. PICK w : w = MemMaterialize(mem) OBVIOUS
<1>3. /\ SameOutside(w, mem') /\ Named(mem')
      /\ setting.mode # "build-only" =>
           \A j \in DOMAIN tasks : UnitFile(tasks[j]) /\ LastFor(j, Len(tasks)) => RightAt(w, mem', tasks[j])
  BY <1>2, ExecuteSyncs
<1>4. Ready(w) /\ setting \in Settings BY <1>2, MaterializedIsReady DEF Base, BuildInv
<1>5. plan \in Plans \cup {<<>>} /\ tasks = Tasks(plan) BY DEF Base, BuildInv
<1>6. TasksOK(tasks) BY <1>5, TasksOfPlan
<1>7. DOMAIN tasks = 1 .. Len(tasks) BY <1>6 DEF TasksOK
<1>8. ASSUME setting.mode # "build-only", NEW j \in DOMAIN tasks, UnitFile(tasks[j]), LastFor(j, Len(tasks)),
             NEW src, src = tasks[j].at, NEW dest, dest = Dest(tasks[j])
      PROVE  CASE setting.mode = "copy"    -> mem'.files[dest] = mem'.files[src]
               [] setting.mode = "symlink" -> mem'.links[dest] = src /\ dest \notin DOMAIN mem'.files
               [] OTHER -> src[2] \in Adopted => mem'.files[dest] = mem'.files[src]
  <2>1. RightAt(w, mem', tasks[j]) BY <1>3, <1>8
  <2>2. src \in DOMAIN w.files /\ src[1] # Root BY <1>4, <1>7, <1>8 DEF Ready, NamedPlace
  <2>3. mem'.files[src] = w.files[src] BY <1>3, <2>2 DEF SameOutside
  <2>4. Mode BY <1>4, <1>8, MaterializerAssumption DEF Mode
  <2>5. CASE setting.mode = "copy" BY <1>8, <2>1, <2>3, <2>5 DEF RightAt
  <2>6. CASE setting.mode = "symlink" BY <1>8, <2>1, <2>6 DEF RightAt
  <2>7. CASE setting.mode = "adopt-selected" BY <1>8, <2>1, <2>3, <2>7 DEF RightAt
  <2> QED BY <2>4, <2>5, <2>6, <2>7 DEF Mode
<1>9. ASSUME setting.mode # "build-only", NEW j \in DOMAIN tasks, UnitFile(tasks[j]), LastFor(j, Len(tasks))
      PROVE  CASE setting.mode = "copy"    -> mem'.files[Dest(tasks[j])] = mem'.files[tasks[j].at]
               [] setting.mode = "symlink" -> /\ mem'.links[Dest(tasks[j])] = tasks[j].at
                                              /\ Dest(tasks[j]) \notin DOMAIN mem'.files
               [] OTHER -> tasks[j].at[2] \in Adopted => mem'.files[Dest(tasks[j])] = mem'.files[tasks[j].at]
  BY <1>8, <1>9
<1>10. \A l \in DOMAIN mem'.links : l[1] = Root => mem'.links[l][1] \in Dirs /\ mem'.links[l][2] = l[2]
  BY <1>3 DEF Named
<1> QED BY <1>1, <1>9, <1>10 DEF RootIsInSync, LastFor, UnitFile, Dest, At

LEMMA RootNext == Base /\ Named(mem) /\ RootIsInSync /\ [Next]_vars => RootIsInSync'
<1> SUFFICES ASSUME Base, Named(mem), RootIsInSync, [Next]_vars PROVE RootIsInSync'
  OBVIOUS
<1>1. CASE Execute BY <1>1, ExecuteRoot
<1>2. CASE outcome' # "done" BY <1>2 DEF RootIsInSync
<1>3. CASE UNCHANGED <<mem, setting, tasks, outcome, doing>>
  BY <1>3 DEF RootIsInSync, UnitFile, Dest, At
<1>4. CASE Begin
  <2>1. outcome' # "done" BY <1>4 DEF Begin
  <2> QED BY <1>2, <2>1
<1>5. CASE Crash
  <2>1. outcome' # "done" BY <1>5 DEF Crash
  <2> QED BY <1>2, <2>1
<1>6. CASE Work /\ ~ Execute
  <2>1. doing # "idle" /\ outcome' = outcome
    BY <1>6 DEF Work, Mkdir, Skip, WriteFile, FinishWrite, RemoveDest, Symlink, CopyFallback, Turn
  <2>2. outcome' # "done" BY <2>1 DEF Base, BuildInv
  <2> QED BY <1>2, <2>2
<1>7. CASE UNCHANGED vars BY <1>3, <1>7 DEF vars
<1> QED BY <1>1, <1>4, <1>5, <1>6, <1>7 DEF Next

MemNamed == Named(mem)

LEMMA MemNamedIsInvariant == Spec => [](Base /\ MemNamed)
<1>1. Init => MemNamed
  <2> SUFFICES ASSUME Init PROVE MemNamed
    OBVIOUS
  <2>1. DOMAIN <<>> = {} OBVIOUS
  <2> QED BY <2>1 DEF Init, MemNamed, Named
<1>2. Base /\ MemNamed /\ [Next]_vars => MemNamed' BY NamedNext DEF MemNamed
<1> QED BY <1>1, <1>2, BaseIsInvariant, PTL DEF Spec

\* Synchronized on MemFS, the root has each file as the last unit with a file of that
\* name has it, as a link and no file or as a copy, beside which a link to a unit's
\* file of that name may remain (materializer.applySyncMode, syncCopy, syncSymlink, syncAdoptSelected).
THEOREM RootFollowsTheUnits == Spec => []RootIsInSync
<1>1. Init => RootIsInSync
  <2> SUFFICES ASSUME Init PROVE outcome # "done"
    BY DEF RootIsInSync
  <2> QED BY DEF Init
<1>2. Base /\ MemNamed /\ RootIsInSync /\ [Next]_vars => RootIsInSync' BY RootNext DEF MemNamed
<1> QED BY <1>1, <1>2, MemNamedIsInvariant, PTL DEF Spec

-----------------------------------------------------------------------------
(* MemFS and the disk.                                                     *)

\* The last task at l is the last one of its kind there.
LEMMA LastOfFacts ==
  ASSUME BuildInv, NEW l, NEW k, IsLast(k, Len(tasks), l)
  PROVE  LastOf(tasks[k].do, l) = tasks[k]
<1>1. plan \in Plans \cup {<<>>} /\ tasks = Tasks(plan) BY DEF BuildInv
<1>2. TasksOK(tasks) BY <1>1, TasksOfPlan
<1>3. Len(tasks) \in Nat /\ DOMAIN tasks = 1 .. Len(tasks) BY <1>2 DEF TasksOK
<1>4. k \in 1 .. Len(tasks) /\ tasks[k].at = l /\ \A j \in k + 1 .. Len(tasks) : tasks[j].at # l BY DEF IsLast
<1>5. PICK what : what = tasks[k].do OBVIOUS
<1> DEFINE Q(i) == /\ tasks[i].do = what /\ tasks[i].at = l
                   /\ \A j \in i + 1 .. Len(tasks) : tasks[j].do # what \/ tasks[j].at # l
           i == CHOOSE i \in DOMAIN tasks : Q(i)
<1>6. k \in DOMAIN tasks /\ Q(k) BY <1>3, <1>4, <1>5
<1>7. i \in DOMAIN tasks /\ Q(i)
  <2> HIDE DEF Q
  <2> QED BY <1>6, Zenon
<1>8. LastOf(what, l) = tasks[i] BY DEF LastOf
<1>9. i = k
  <2> HIDE DEF i
  <2>1. i \in 1 .. Len(tasks) /\ tasks[i].at = l BY <1>3, <1>7
  <2>2. ~ i > k
    <3>1. i > k => i \in k + 1 .. Len(tasks) BY <1>3, <1>4, <2>1
    <3> QED BY <1>4, <2>1, <3>1
  <2>3. ~ i < k
    <3>1. i < k => k \in i + 1 .. Len(tasks) BY <1>3, <1>4, <2>1
    <3> QED BY <1>6, <1>7, <3>1
  <2> QED BY <1>3, <1>4, <2>1, <2>2, <2>3
<1> QED
  <2> HIDE DEF i
  <2> QED BY <1>5, <1>8, <1>9

LEMMA AgreesSame ==
  ASSUME NEW l, SameAt(l), mem' = mem, Agrees(l)
  PROVE  Agrees(l)'
BY DEF SameAt, Agrees, Has

\* A step of the tasks without a fault: it is within its task, or it is through
\* with it and has carried it out.
LEMMA AgreeStep ==
  ASSUME Base, AgreeInv, clean, doing # "idle", at <= Len(tasks), UNCHANGED <<mem, tasks, outcome>>,
         \A l : l[1] \in Dirs /\ l # Task.at => SameAt(l),
         \/ at' = at /\ doing' \in {"opened", "removed"}
         \/ at' = at + 1 /\ \A k : k = at /\ Task.at \notin FilesOf \cap LinksOf => Made(k)'
  PROVE  AgreeInv'
<1>1. outcome = "running" /\ outcome' = "running" BY DEF Base, BuildInv
<1>2. at \in Nat /\ at \in DOMAIN tasks /\ at >= 1 /\ Len(tasks) \in Nat
  <2>1. at \in Nat /\ at \in DOMAIN tasks /\ Len(tasks) \in Nat BY TaskNow DEF Base
  <2>2. at \in 1 .. Len(tasks) + 1 BY DEF Base, BuildInv
  <2> QED BY <2>1, <2>2
<1>3. ASSUME NEW l \in Planned \ (FilesOf \cap LinksOf) PROVE Settling(l)'
  <2>1. Settling(l) BY DEF AgreeInv
  <2>2. l[1] \in Dirs BY PlacesAreTasks
  <2>3. CASE l = Task.at /\ at' = at
    <3>1. Task' = Task BY <2>3 DEF Task
    <3>2. doing' \in {"opened", "removed"} BY <1>2, <2>3
    <3>3. (Task.at = l)' BY <2>3, <3>1
    <3> QED BY <3>2, <3>3 DEF Settling
  <2>4. CASE l = Task.at /\ at' = at + 1
    <3>1. PICK k : k = at OBVIOUS
    <3>2. Made(k)' BY <2>4, <3>1
    <3>3. k \in Nat /\ at' - 1 = k /\ k \in 1 .. k BY <1>2, <2>4, <3>1
    <3>4. \A j \in k + 1 .. k : FALSE BY <3>3
    <3>5. tasks'[k].at = l BY <2>4, <3>1 DEF Task
    <3>6. IsLast(k, at - 1, l)' BY <3>3, <3>4, <3>5 DEF IsLast
    <3> QED BY <1>1, <3>2, <3>3, <3>6 DEF Settling
  <2>5. CASE l # Task.at
    <3>1. SameAt(l) BY <2>2, <2>5
    <3>2. \A k \in 1 .. at' - 1 : k \in 1 .. at - 1 \/ k = at BY <1>2
    <3>3. \A k \in 1 .. at - 1 : k \in 1 .. at' - 1 BY <1>2
    <3>4. CASE (\A k \in 1 .. at - 1 : tasks[k].at # l) /\ Agrees(l)
      <4>1. Agrees(l)' BY <3>1, <3>4, AgreesSame
      <4>2. \A k \in 1 .. at' - 1 : tasks'[k].at # l BY <2>5, <3>2, <3>4 DEF Task
      <4> QED BY <1>1, <4>1, <4>2 DEF Settling
    <3>5. CASE \E k \in 1 .. at - 1 : IsLast(k, at - 1, l) /\ Made(k)
      <4>1. PICK k \in 1 .. at - 1 : IsLast(k, at - 1, l) /\ Made(k) BY <3>5
      <4>2. tasks[k].at = l /\ \A j \in k + 1 .. at - 1 : tasks[j].at # l BY <4>1 DEF IsLast
      <4>3. \A j \in k + 1 .. at' - 1 : j \in k + 1 .. at - 1 \/ j = at BY <1>2
      <4>4. \A j \in k + 1 .. at' - 1 : tasks'[j].at # l BY <2>5, <4>2, <4>3 DEF Task
      <4>5. k \in 1 .. at' - 1 BY <3>3
      <4>6. IsLast(k, at - 1, l)' BY <4>2, <4>4, <4>5 DEF IsLast
      <4>7. Made(k)'
        <5>1. PICK t : t = tasks[k] OBVIOUS
        <5>2. /\ t.do = "write" => Has(l) /\ disk[l] = File(t.content)
              /\ t.do = "link"  => Has(l) /\ disk[l] = Link(t.to)
          BY <4>1, <4>2, <5>1 DEF Made
        <5>3. /\ t.do = "write" => l \in DOMAIN disk' /\ disk'[l] = File(t.content)
              /\ t.do = "link"  => l \in DOMAIN disk' /\ disk'[l] = Link(t.to)
          BY <3>1, <5>2 DEF SameAt, Has
        <5>4. tasks'[k] = t /\ t.at = l BY <4>2, <5>1
        <5> QED BY <5>3, <5>4 DEF Made, Has, File, Link
      <4> QED BY <1>1, <4>5, <4>6, <4>7 DEF Settling
    <3> QED BY <1>1, <2>1, <2>5, <3>4, <3>5 DEF Settling
  <2> QED BY <2>3, <2>4, <2>5
<1>4. (Planned \ (FilesOf \cap LinksOf))' = Planned \ (FilesOf \cap LinksOf) BY DEF Planned, FilesOf, LinksOf
<1> QED BY <1>3, <1>4 DEF AgreeInv

\* A place for files only is written to, not through.
LEMMA WritesThere ==
  ASSUME Base, at <= Len(tasks), Task.do = "write", Task.at \notin FilesOf \cap LinksOf
  PROVE  /\ Follow(Task.at) = Task.at /\ CanWrite(Task.at) /\ Task.at \notin LinksOf
         /\ Task.content \in Content
<1>1. Task.at \in FilesOf /\ Task.at[1] \in Dirs /\ Task.at \notin Sources /\ Task \in WriteTask
  BY TaskNow DEF Base
<1>2. Task.at \notin LinksOf BY <1>1
<1>3. Follow(Task.at) = Task.at BY <1>1, <1>2, FollowFacts DEF Base
<1>4. Task.at # Nowhere BY <1>1, PlaceFacts
<1>5. Task.content \in Content BY <1>1 DEF WriteTask
<1> QED BY <1>2, <1>3, <1>4, <1>5 DEF CanWrite

LEMMA WorkAgrees ==
  ASSUME Base, AgreeInv, clean, Work, ~ Execute, NoFault \/ Skip
  PROVE  AgreeInv'
<1>1. doing # "idle" /\ UNCHANGED <<mem, tasks, outcome>>
  BY DEF Work, Mkdir, Skip, WriteFile, FinishWrite, RemoveDest, Symlink, CopyFallback, Turn
<1>2. ~ (NoFault /\ Fault) /\ ~ (NoFault /\ FaultAt({Task.at}))
  <2>1. clean \in BOOLEAN BY DEF Base, BuildInv
  <2> QED BY <2>1 DEF NoFault, Fault, FaultAt
<1>3. CASE NoFault /\ Mkdir
  <2>1. at <= Len(tasks) /\ \A m : SameAt(m) BY <1>3, MkdirBase
  <2>2. Task.do = "mkdir" /\ at' = at + 1 BY <1>2, <1>3 DEF Mkdir, Record
  <2>3. \A k : k = at => Made(k)' BY <1>1, <2>2 DEF Made, Task
  <2> QED BY <1>1, <2>1, <2>2, <2>3, AgreeStep
<1>4. CASE Skip
  <2>1. at <= Len(tasks) /\ \A m : SameAt(m) BY <1>4, SkipBase
  <2>2. Task.do = "write" /\ at' = at + 1 /\ ReadFile(Task.at) = Task.content /\ disk' = disk
    BY <1>4 DEF Skip, Changed
  <2>3. ASSUME NEW k, k = at, Task.at \notin FilesOf \cap LinksOf PROVE Made(k)'
    <3>1. PICK l, c : l = Task.at /\ c = Task.content OBVIOUS
    <3>2. Follow(l) = l /\ l \notin LinksOf /\ c \in Content BY <2>1, <2>2, <2>3, <3>1, WritesThere
    <3>3. c # Missing BY <3>2 DEF Content
    <3>4. l \in DOMAIN disk /\ disk[l].content = c BY <2>2, <3>1, <3>2, <3>3 DEF ReadFile, Has
    <3>5. disk[l].is = "file"
      <4>1. l \notin Sources BY <2>1, <3>1, TaskNow DEF Base
      <4> QED BY <3>2, <3>4, <4>1, FollowFacts DEF Base
    <3>6. disk[l] \in Node BY <3>4 DEF Base, DiskInv
    <3>7. disk[l] = File(c) BY <3>4, <3>5, <3>6 DEF Node, File
    <3>8. tasks'[k] = Task BY <1>1, <2>3 DEF Task
    <3> QED BY <2>2, <3>1, <3>4, <3>7, <3>8 DEF Made, Has, File
  <2> QED BY <1>1, <2>1, <2>2, <2>3, AgreeStep
<1>5. CASE NoFault /\ WriteFile
  <2>1. Elsewhere /\ at <= Len(tasks) BY <1>5, WriteFileBase DEF Elsewhere
  <2>2. Task.do = "write" /\ Open(Task.at, Task.content) BY <1>5 DEF WriteFile
  <2>3. Task.at \in FilesOf BY <2>1, <2>2, TaskNow DEF Base
  <2>4. \A l : l[1] \in Dirs /\ l # Task.at => SameAt(l) BY <2>1, <2>3, KeptElsewhere
  <2>5. CASE doing' = "opened" /\ at' = at BY <1>1, <2>1, <2>4, <2>5, AgreeStep
  <2>6. CASE ~ CanWrite(Task.at) /\ Record("errors", at + 1)
    <3>1. Task.at \in FilesOf \cap LinksOf BY <2>1, <2>2, <2>6, WritesThere
    <3>2. at' = at + 1 BY <2>6 DEF Record
    <3> QED BY <1>1, <2>1, <2>4, <3>1, <3>2, AgreeStep
  <2> QED BY <1>2, <1>5, <2>2, <2>5, <2>6 DEF Open
<1>6. CASE NoFault /\ FinishWrite
  <2>1. Elsewhere /\ at <= Len(tasks) BY <1>6, FinishWriteBase DEF Elsewhere
  <2>2. doing = "opened" BY <1>6 DEF FinishWrite, Turn
  <2>3. Task.do = "write" /\ content = Task.content BY <2>2 DEF Base, CleanInv, BuildInv
  <2>4. Task.at \in FilesOf BY <2>1, <2>3, TaskNow DEF Base
  <2>5. \A l : l[1] \in Dirs /\ l # Task.at => SameAt(l) BY <2>1, <2>4, KeptElsewhere
  <2>6. Put(Follow(Task.at), File(content)) /\ at' = at + 1 BY <1>2, <1>6 DEF FinishWrite, Finished, Record
  <2>7. ASSUME NEW k, k = at, Task.at \notin FilesOf \cap LinksOf PROVE Made(k)'
    <3>1. PICK l, c : l = Task.at /\ c = Task.content OBVIOUS
    <3>2. Follow(l) = l BY <2>1, <2>3, <2>7, <3>1, WritesThere
    <3>3. disk' = With(disk, l, File(c)) BY <2>3, <2>6, <3>1, <3>2 DEF Put
    <3>4. l \in DOMAIN disk' /\ disk'[l] = File(c) BY <3>3 DEF With
    <3>5. tasks'[k] = Task BY <1>1, <2>7 DEF Task
    <3> QED BY <2>3, <3>1, <3>4, <3>5 DEF Made, Has, File
  <2> QED BY <1>1, <2>1, <2>5, <2>6, <2>7, AgreeStep
<1>7. CASE NoFault /\ RemoveDest
  <2>1. Elsewhere /\ at <= Len(tasks) BY <1>7, RemoveDestBase DEF Elsewhere
  <2>2. Task.do = "link" /\ at' = at /\ doing' = "removed" BY <1>2, <1>7 DEF RemoveDest
  <2>3. Task.at \in LinksOf BY <2>1, <2>2, TaskNow DEF Base
  <2>4. \A l : l[1] \in Dirs /\ l # Task.at => SameAt(l) BY <2>1, <2>3, KeptElsewhere
  <2> QED BY <1>1, <2>1, <2>2, <2>4, AgreeStep
<1>8. CASE NoFault /\ Symlink
  <2>1. Elsewhere /\ at <= Len(tasks) /\ Task.do = "link" BY <1>8, SymlinkBase DEF Elsewhere
  <2>2. doing = "removed" BY <1>8 DEF Symlink, Turn
  <2>3. Task.at \in LinksOf BY <2>1, TaskNow DEF Base
  <2>4. \A l : l[1] \in Dirs /\ l # Task.at => SameAt(l) BY <2>1, <2>3, KeptElsewhere
  <2>5. ~ Has(Task.at) BY <2>2 DEF Base, CleanInv
  <2>6. Put(Task.at, Link(Task.to)) /\ at' = at + 1 BY <1>2, <1>8, <2>5 DEF Symlink, Record
  <2>7. ASSUME NEW k, k = at PROVE Made(k)'
    <3>1. PICK l, to : l = Task.at /\ to = Task.to OBVIOUS
    <3>2. l \in DOMAIN disk' /\ disk'[l] = Link(to) BY <2>6, <3>1 DEF Put, With
    <3>3. tasks'[k] = Task BY <1>1, <2>7 DEF Task
    <3> QED BY <2>1, <3>1, <3>2, <3>3 DEF Made, Has, Link
  <2> QED BY <1>1, <2>1, <2>4, <2>6, <2>7, AgreeStep
<1>9. ~ CopyFallback BY DEF CopyFallback, Turn, Base, CleanInv
<1> QED BY <1>3, <1>4, <1>5, <1>6, <1>7, <1>8, <1>9 DEF Work

\* At the end of the build MemFS gets what the disk has by then.
LEMMA ExecuteAgrees ==
  ASSUME Base, Base', Named(mem), AgreeInv, Execute
  PROVE  AgreeInv'
<1>1. /\ doing = "task" /\ at > Len(tasks) /\ disk' = disk /\ UNCHANGED <<tasks, clean>> /\ doing' = "idle"
  BY DEF Execute
<1>2. /\ plan \in Plans \cup {<<>>} /\ tasks = Tasks(plan) /\ outcome = "running" /\ at \in 1 .. Len(tasks) + 1
  BY <1>1 DEF Base, BuildInv
<1>3. outcome' # "running" BY <1>1 DEF Base, BuildInv
<1>4. TasksOK(tasks) BY <1>2, TasksOfPlan
<1>5. Len(tasks) \in Nat /\ DOMAIN tasks = 1 .. Len(tasks) BY <1>4 DEF TasksOK
<1>6. at - 1 = Len(tasks) BY <1>1, <1>2, <1>5
<1>7. PICK w : w = MemMaterialize(mem) OBVIOUS
<1>8. SameOutside(w, mem') BY <1>7, ExecuteSyncs
<1>9. Named(w) BY <1>7, MaterializedIsReady
<1>10. ASSUME clean, NEW l \in Planned \ (FilesOf \cap LinksOf) PROVE Agrees(l)'
  <2>1. Settling(l) BY <1>10 DEF AgreeInv
  <2>2. l[1] \in Dirs BY PlacesAreTasks
  <2>3. l[1] # Root /\ l \notin Sources BY <2>2, PlaceFacts
  <2>4. /\ l \in DOMAIN mem'.files <=> l \in DOMAIN w.files
        /\ l \in DOMAIN w.files => mem'.files[l] = w.files[l]
        /\ l \in DOMAIN mem'.links <=> l \in DOMAIN w.links
        /\ l \in DOMAIN w.links => mem'.links[l] = w.links[l]
    BY <1>8, <2>3 DEF SameOutside
  <2>5. /\ l \in DOMAIN w.files <=> l \in DOMAIN mem.files \/ l \in Of("write")
        /\ l \in DOMAIN w.links <=> l \in DOMAIN mem.links \/ l \in Of("link")
        /\ l \in DOMAIN w.files => w.files[l] = IF l \in Of("write") THEN LastOf("write", l).content ELSE mem.files[l]
        /\ l \in DOMAIN w.links => w.links[l] = IF l \in Of("link") THEN LastOf("link", l).source ELSE mem.links[l]
    BY <1>7, MaterializedFacts
  <2>6. CASE (\A k \in 1 .. at - 1 : tasks[k].at # l) /\ Agrees(l)
    <3>1. l \notin Of("write") /\ l \notin Of("link") BY <1>5, <1>6, <2>6 DEF Of
    <3>2. IF l \in DOMAIN disk
            THEN IF disk[l].is = "file" THEN l \in DOMAIN mem.files /\ mem.files[l] = disk[l].content
                 ELSE l \in DOMAIN mem.links /\ disk[l].to \in {mem.links[l], Nowhere}
            ELSE l \notin DOMAIN mem.files /\ l \notin DOMAIN mem.links
      BY <2>6 DEF Agrees, Has
    <3> QED BY <1>1, <2>4, <2>5, <3>1, <3>2 DEF Agrees, Has
  <2>7. CASE \E k \in 1 .. at - 1 : IsLast(k, at - 1, l) /\ Made(k)
    <3>1. PICK k \in 1 .. Len(tasks) : IsLast(k, Len(tasks), l) /\ Made(k) BY <1>6, <2>7
    <3>2. PICK t : t = tasks[k] OBVIOUS
    <3>3. LastOf(t.do, l) = t BY <3>1, <3>2, LastOfFacts DEF Base
    <3>4. t.at = l BY <3>1, <3>2 DEF IsLast
    <3>5. /\ t.do \in {"mkdir", "write", "link"}
          /\ t.do = "mkdir" => l[2] = ""
          /\ t.do = "write" => l \in FilesOf /\ l[2] # ""
          /\ t.do = "link"  => t \in LinkTask /\ l \in LinksOf /\ l[2] # ""
      BY <1>2, <1>5, <3>2, <3>4, TaskFacts
    <3>6. /\ t.do = "write" => l \in DOMAIN disk /\ disk[l] = File(t.content)
          /\ t.do = "link"  => l \in DOMAIN disk /\ disk[l] = Link(t.to)
      BY <3>1, <3>2, <3>4 DEF Made, Has
    <3>7. CASE t.do = "mkdir"
      <4>1. l \notin FilesOf \cup LinksOf BY <3>5, <3>7, PlacesAreTasks
      <4>2. l \notin DOMAIN disk BY <2>3, <4>1 DEF Base, DiskInv
      <4>3. l \notin DOMAIN w.files /\ l \notin DOMAIN w.links BY <1>9, <3>5, <3>7 DEF Named
      <4> QED BY <1>1, <2>4, <4>2, <4>3 DEF Agrees, Has
    <3>8. CASE t.do = "write"
      <4>1. l \in Of("write") BY <1>5, <3>1, <3>2, <3>4, <3>8 DEF Of
      <4>2. l \in DOMAIN mem'.files /\ mem'.files[l] = t.content BY <2>4, <2>5, <3>3, <3>8, <4>1
      <4>3. l \in DOMAIN disk /\ disk[l].is = "file" /\ disk[l].content = t.content BY <3>6, <3>8 DEF File
      <4> QED BY <1>1, <4>2, <4>3 DEF Agrees, Has
    <3>9. CASE t.do = "link"
      <4>1. l \in Of("link") BY <1>5, <3>1, <3>2, <3>4, <3>9 DEF Of
      <4>2. l \in DOMAIN mem'.links /\ mem'.links[l] = t.source BY <2>4, <2>5, <3>3, <3>9, <4>1
      <4>3. l \in DOMAIN disk /\ disk[l].is = "link" /\ disk[l].to = t.to BY <3>6, <3>9 DEF Link
      <4>4. t.to \in {t.source, Nowhere} BY <3>5, <3>9 DEF LinkTask
      <4> QED BY <1>1, <4>2, <4>3, <4>4 DEF Agrees, Has
    <3> QED BY <3>5, <3>7, <3>8, <3>9
  <2> QED BY <1>1, <1>2, <2>1, <2>6, <2>7 DEF Settling
<1>11. (Planned \ (FilesOf \cap LinksOf))' = Planned \ (FilesOf \cap LinksOf) BY DEF Planned, FilesOf, LinksOf
<1> QED BY <1>1, <1>3, <1>10, <1>11 DEF AgreeInv, Settling

LEMMA BeginAgrees == ASSUME Base, AgreeInv, Begin PROVE AgreeInv'
<1>1. /\ doing = "idle" /\ at' = 1 /\ UNCHANGED <<disk, mem, clean>>
      /\ outcome' = "simulated" \/ outcome' = "running"
  BY DEF Begin
<1>2. outcome # "running" /\ doing \notin {"opened", "removed"} BY <1>1 DEF Base, BuildInv
<1>3. ASSUME clean, NEW l \in Planned \ (FilesOf \cap LinksOf) PROVE Settling(l)'
  <2>1. Agrees(l) BY <1>2, <1>3 DEF AgreeInv, Settling
  <2>2. Agrees(l)' BY <1>1, <2>1 DEF Agrees, Has
  <2>3. \A k \in 1 .. at' - 1 : FALSE BY <1>1
  <2> QED BY <1>1, <2>2, <2>3 DEF Settling
<1>4. (Planned \ (FilesOf \cap LinksOf))' = Planned \ (FilesOf \cap LinksOf) BY DEF Planned, FilesOf, LinksOf
<1> QED BY <1>1, <1>3, <1>4 DEF AgreeInv

LEMMA AgreeNext == Base /\ Base' /\ Named(mem) /\ AgreeInv /\ [Next]_vars => AgreeInv'
<1> SUFFICES ASSUME Base, Base', Named(mem), AgreeInv, [Next]_vars PROVE AgreeInv'
  OBVIOUS
<1>1. CASE ~ clean'
  BY <1>1 DEF AgreeInv
<1>2. CASE Execute BY <1>2, ExecuteAgrees
<1>3. CASE Begin BY <1>3, BeginAgrees
<1>4. CASE Crash BY <1>1, <1>4 DEF Crash, Fault, FaultAt
<1>5. CASE Work /\ ~ Execute
  <2>1. (\E places : FaultAt(places)) \/ NoFault \/ Skip
    BY <1>5 DEF Work, Fault, Mkdir, WriteFile, Open, FinishWrite, Finished, RemoveDest, Symlink, CopyFallback
  <2>2. CASE \E places : FaultAt(places) BY <1>1, <2>2 DEF FaultAt
  <2>3. CASE NoFault \/ Skip
    <3>1. clean' = clean BY <2>3 DEF NoFault, Skip
    <3>2. CASE clean BY <1>5, <2>3, <3>2, WorkAgrees
    <3> QED BY <1>1, <3>1, <3>2
  <2> QED BY <2>1, <2>2, <2>3
<1>6. CASE UNCHANGED vars
  <2>1. UNCHANGED <<disk, mem, tasks, at, doing, outcome, clean>> BY <1>6 DEF vars
  <2>2. ASSUME NEW l, Settling(l) PROVE Settling(l)'
    BY <2>1, <2>2 DEF Settling, Agrees, Has, IsLast, Made, Task, File, Link
  <2>3. (Planned \ (FilesOf \cap LinksOf))' = Planned \ (FilesOf \cap LinksOf) BY DEF Planned, FilesOf, LinksOf
  <2> QED BY <2>1, <2>2, <2>3 DEF AgreeInv
<1> QED BY <1>2, <1>3, <1>4, <1>5, <1>6 DEF Next

\* As long as nothing fails, MemFS holds what the disk does (MemFS.Materialize and
\* OSMaterializer.Materialize), but where a plan has a file and a plan a link.
THEOREM MemFSIsAFaithfulDouble == Spec => []MemFSAgrees
<1>1. Init => AgreeInv
  <2> SUFFICES ASSUME Init, NEW l \in Planned PROVE Agrees(l) /\ outcome # "running"
    BY DEF AgreeInv, Settling
  <2>1. l[1] \in Dirs BY PlacesAreTasks
  <2>2. l \notin Sources BY <2>1, PlaceFacts
  <2>3. DOMAIN <<>> = {} OBVIOUS
  <2>4. DOMAIN disk = Sources /\ mem.files = <<>> /\ mem.links = <<>> /\ outcome = "none" BY DEF Init
  <2> QED BY <2>2, <2>3, <2>4 DEF Agrees, Has
<1>2. Base /\ AgreeInv => MemFSAgrees
  <2> SUFFICES ASSUME Base, AgreeInv, clean, doing = "idle", NEW l \in Planned \ (FilesOf \cap LinksOf)
               PROVE  Agrees(l)
    BY DEF MemFSAgrees, Agrees
  <2>1. outcome # "running" BY DEF Base, BuildInv
  <2> QED BY <2>1 DEF AgreeInv, Settling
<1>3. Base /\ MemNamed /\ AgreeInv /\ [Next]_vars => AgreeInv' BY NextBase, AgreeNext DEF MemNamed
<1> QED BY <1>1, <1>2, <1>3, MemNamedIsInvariant, PTL DEF Spec

-----------------------------------------------------------------------------
(* The end of a build.                                                     *)

\* The most steps a build has left: four for each task, a link that is copied,
\* and the end.
WorkLeft ==
  IF doing = "idle" THEN 0
  ELSE 4 * (Len(tasks) + 1 - at) + (CASE doing = "task"    -> 1
                                      [] doing = "removed" -> 0
                                      [] doing = "copy"    -> -1
                                      [] doing = "opened"  -> -2)

\* What is said of the tasks holds in the next state, too.
LEMMA WorkFacts == BuildInv =>
  /\ Len(tasks) \in Nat /\ at \in Nat \ {0} /\ at <= Len(tasks) + 1
  /\ doing \in {"idle", "task", "opened", "removed", "copy"}
  /\ doing \in {"opened", "removed", "copy"} => at <= Len(tasks)
<1> SUFFICES ASSUME BuildInv
             PROVE  /\ Len(tasks) \in Nat /\ at \in Nat \ {0} /\ at <= Len(tasks) + 1
                    /\ doing \in {"idle", "task", "opened", "removed", "copy"}
                    /\ doing \in {"opened", "removed", "copy"} => at <= Len(tasks)
  OBVIOUS
<1>1. plan \in Plans \cup {<<>>} /\ tasks = Tasks(plan) /\ at \in 1 .. Len(tasks) + 1
  BY DEF BuildInv
<1>2. Len(tasks) \in Nat
  <2>1. TasksOK(tasks) BY <1>1, TasksOfPlan
  <2> QED BY <2>1 DEF TasksOK
<1>3. at \in Nat \ {0} /\ at <= Len(tasks) + 1
  <2>1. PICK n \in Nat : n = Len(tasks) BY <1>2
  <2>2. at \in 1 .. n + 1 BY <1>1, <2>1
  <2>3. at \in Nat \ {0} /\ at <= n + 1 BY <2>2
  <2> QED BY <2>1, <2>3
<1> QED BY <1>2, <1>3 DEF BuildInv

LEMMA WorkLeftType == BuildInv => WorkLeft \in Nat /\ (doing # "idle" => WorkLeft > 0)
<1> SUFFICES ASSUME BuildInv PROVE WorkLeft \in Nat /\ (doing # "idle" => WorkLeft > 0)
  OBVIOUS
<1>1. PICK n \in Nat, k \in Nat : n = Len(tasks) /\ k = at /\ k <= n + 1
  BY WorkFacts
<1>2. doing \in {"opened", "removed", "copy"} => k <= n
  BY <1>1, WorkFacts
<1>3. doing \in {"idle", "task", "opened", "removed", "copy"}
  BY WorkFacts
<1>4. WorkLeft = IF doing = "idle" THEN 0
                 ELSE 4 * (n + 1 - k) + (CASE doing = "task"    -> 1
                                           [] doing = "removed" -> 0
                                           [] doing = "copy"    -> -1
                                           [] doing = "opened"  -> -2)
  BY <1>1 DEF WorkLeft
<1>5. CASE doing = "idle"
  BY <1>4, <1>5
<1>6. CASE doing = "task"
  <2>1. WorkLeft = 4 * (n + 1 - k) + 1 BY <1>4, <1>6
  <2> QED BY <1>1, <1>6, <2>1
<1>7. CASE doing \in {"opened", "removed", "copy"}
  <2>1. WorkLeft \in {4 * (n + 1 - k), 4 * (n + 1 - k) - 1, 4 * (n + 1 - k) - 2}
    BY <1>1, <1>4, <1>7
  <2> QED BY <1>1, <1>2, <1>7, <2>1
<1> QED BY <1>3, <1>5, <1>6, <1>7

LEMMA WorkLeftFalls ==
  ASSUME BuildInv, BuildInv', WorkLeft \in Nat, WorkLeft' \in Nat,
         doing # "idle" => WorkLeft > 0, Next
  PROVE  /\ Begin => WorkLeft' <= 4 * Len(tasks') + 1
         /\ Work => WorkLeft' < WorkLeft
         /\ Crash => WorkLeft' = 0
<1>1. ASSUME Begin PROVE WorkLeft' <= 4 * Len(tasks') + 1
  <2>1. PICK n \in Nat : n = Len(tasks')
    <3>1. plan' \in Plans \cup {<<>>} /\ tasks' = Tasks(plan') BY DEF BuildInv
    <3>2. TasksOK(tasks') BY <3>1, TasksOfPlan
    <3> QED BY <3>2 DEF TasksOK
  <2>2. at' = 1 /\ doing' \in {"idle", "task"} BY <1>1 DEF Begin
  <2>3. WorkLeft' = 0 \/ WorkLeft' = 4 * (n + 1 - 1) + 1
    BY <2>1, <2>2 DEF WorkLeft
  <2> QED BY <2>1, <2>3
<1>2. ASSUME Crash PROVE WorkLeft' = 0
  BY <1>2 DEF Crash, WorkLeft
<1>3. ASSUME Work PROVE WorkLeft' < WorkLeft
  <2>1. doing # "idle" /\ tasks' = tasks
    BY <1>3 DEF Work, Mkdir, Skip, WriteFile, FinishWrite, RemoveDest, Symlink, CopyFallback, Execute, Turn
  <2>2. CASE doing' = "idle"
    BY <2>1, <2>2 DEF WorkLeft
  <2>3. PICK n \in Nat, k \in Nat : n = Len(tasks) /\ k = at
    BY WorkFacts
  <2>4. \/ doing' = "task" /\ at' > k
        \/ at' = k /\ \/ doing = "task" /\ doing' \in {"opened", "removed"}
                      \/ doing = "removed" /\ doing' = "copy"
                      \/ doing = "copy" /\ doing' = "opened"
        \/ doing' = "idle"
    <3>0. k + 1 > k BY <2>3
    <3>1. CASE Skip \/ Execute
      BY <2>3, <3>0, <3>1 DEF Skip, Execute, Turn
    <3>7. CASE Mkdir
      <4>1. PICK h \in Nat : h = Task.holds
        BY <3>7, TaskNow DEF Mkdir, Turn, MkdirTask
      <4>2. doing' = "task" /\ at' \in {k + 1, k + 1 + h}
        BY <2>3, <3>7, <4>1 DEF Mkdir, Record
      <4> QED BY <2>3, <4>1, <4>2
    <3>2. CASE WriteFile
      BY <2>3, <3>0, <3>2 DEF WriteFile, Open, Record, Turn
    <3>3. CASE FinishWrite
      BY <2>3, <3>0, <3>3 DEF FinishWrite, Finished, Record
    <3>4. CASE RemoveDest
      BY <2>3, <3>0, <3>4 DEF RemoveDest, Record, Turn
    <3>5. CASE Symlink
      BY <2>3, <3>0, <3>5 DEF Symlink, Record, Turn
    <3>6. CASE CopyFallback
      BY <2>3, <3>0, <3>6 DEF CopyFallback, Open, Record, Turn
    <3> QED BY <1>3, <3>1, <3>2, <3>3, <3>4, <3>5, <3>6, <3>7 DEF Work
  <2>5. PICK j \in Nat : j = at'
    BY DEF BuildInv
  <2>6. CASE doing' # "idle"
    <3>1. WorkLeft = 4 * (n + 1 - k) + (CASE doing = "task"    -> 1
                                           [] doing = "removed" -> 0
                                           [] doing = "copy"    -> -1
                                           [] doing = "opened"  -> -2)
      BY <2>1, <2>3 DEF WorkLeft
    <3>2. WorkLeft' = 4 * (n + 1 - j) + (CASE doing' = "task"    -> 1
                                           [] doing' = "removed" -> 0
                                           [] doing' = "copy"    -> -1
                                           [] doing' = "opened"  -> -2)
      BY <2>1, <2>3, <2>5, <2>6 DEF WorkLeft
    <3>3. doing \in {"task", "opened", "removed", "copy"}
      BY <2>1, WorkFacts
    <3>4. CASE doing' = "task" /\ at' > k
      <4>1. WorkLeft' = 4 * (n + 1 - j) + 1 BY <3>2, <3>4
      <4>2. WorkLeft \in {4 * (n + 1 - k) + 1, 4 * (n + 1 - k), 4 * (n + 1 - k) - 1, 4 * (n + 1 - k) - 2}
        BY <2>3, <3>1, <3>3
      <4> QED BY <2>3, <2>5, <3>4, <4>1, <4>2
    <3>5. CASE at' = k /\ doing = "task" /\ doing' \in {"opened", "removed"}
      <4>1. WorkLeft = 4 * (n + 1 - k) + 1 BY <3>1, <3>5
      <4>2. WorkLeft' \in {4 * (n + 1 - k), 4 * (n + 1 - k) - 2} BY <2>3, <2>5, <3>2, <3>5
      <4> QED BY <2>3, <4>1, <4>2
    <3>6. CASE at' = k /\ doing = "removed" /\ doing' = "copy"
      <4>1. WorkLeft = 4 * (n + 1 - k) BY <2>3, <3>1, <3>6
      <4>2. WorkLeft' = 4 * (n + 1 - k) - 1 BY <2>3, <2>5, <3>2, <3>6
      <4> QED BY <2>3, <4>1, <4>2
    <3>7. CASE at' = k /\ doing = "copy" /\ doing' = "opened"
      <4>1. WorkLeft = 4 * (n + 1 - k) - 1 BY <2>3, <3>1, <3>7
      <4>2. WorkLeft' = 4 * (n + 1 - k) - 2 BY <2>3, <2>5, <3>2, <3>7
      <4> QED BY <2>3, <4>1, <4>2
    <3> QED BY <2>4, <2>6, <3>4, <3>5, <3>6, <3>7
  <2> QED BY <2>2, <2>6
<1> QED BY <1>1, <1>2, <1>3

(* A build of n tasks takes at most 4 * n + 1 steps, whatever is on the    *)
(* disk and whichever calls fail: an error, too, leaves fewer (the loops   *)
(* of OSMaterializer.Materialize and copyOrSymlink).                       *)
THEOREM MaterializingComesToAnEnd ==
  /\ Spec => [](WorkLeft \in Nat)
  /\ Spec => [][/\ Begin => WorkLeft' <= 4 * Len(tasks') + 1
                /\ Work => WorkLeft' < WorkLeft
                /\ Crash => WorkLeft' = 0]_vars
<1>1. Base => BuildInv
  BY DEF Base
<1>2. Spec => [](WorkLeft \in Nat)
  BY <1>1, WorkLeftType, BaseIsInvariant, PTL
<1>3. /\ BuildInv /\ BuildInv' /\ WorkLeft \in Nat /\ (WorkLeft \in Nat)'
      /\ (doing # "idle" => WorkLeft > 0)
      /\ [Next]_vars
      => [/\ Begin => WorkLeft' <= 4 * Len(tasks') + 1
          /\ Work => WorkLeft' < WorkLeft
          /\ Crash => WorkLeft' = 0]_vars
  <2> SUFFICES ASSUME BuildInv, BuildInv', WorkLeft \in Nat, WorkLeft' \in Nat,
                      doing # "idle" => WorkLeft > 0, Next
               PROVE  /\ Begin => WorkLeft' <= 4 * Len(tasks') + 1
                      /\ Work => WorkLeft' < WorkLeft
                      /\ Crash => WorkLeft' = 0
    OBVIOUS
  <2> QED BY WorkLeftFalls
<1>4. Spec => [][/\ Begin => WorkLeft' <= 4 * Len(tasks') + 1
                 /\ Work => WorkLeft' < WorkLeft
                 /\ Crash => WorkLeft' = 0]_vars
  BY <1>1, <1>3, WorkLeftType, BaseIsInvariant, PTL DEF Spec
<1> QED BY <1>2, <1>4
=============================================================================
