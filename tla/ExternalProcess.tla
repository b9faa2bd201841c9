--------------------------- MODULE ExternalProcess ---------------------------
(***************************************************************************)
(* A pipeline stage that runs in another process: ExternalProcessStage of  *)
(* internal/adapter/plugin/external.go.  Describe and Execute each start a *)
(* new child, write one JSON request to its stdin, close it, read one JSON *)
(* object from its stdout and reap the child (roundTrip).  Both pipes are  *)
(* bounded.  The child may be any program: it may answer before it has     *)
(* read, write more than its answer, exit early, or leave a process of its *)
(* own behind that holds the pipes.  A "polite" child reads its request to *)
(* the end, answers once and exits with status 0.                          *)
(*                                                                         *)
(* Data is counted in chunks; stderr is left out, except that Wait waits   *)
(* for its end.                                                            *)
(***************************************************************************)
EXTENDS Naturals

CONSTANTS
    PipeSize,      \* chunks a pipe holds
    RequestSize,   \* a function: chunks of the request of each kind of call
    AnswerSize,    \* chunks of an answer
    ExtraSize      \* chunks a child may write after its answer

Calls == {"describe", "execute"}

ASSUME SizeAssumption ==
    /\ PipeSize \in Nat \ {0}
    /\ RequestSize \in [Calls -> Nat \ {0}]
    /\ AnswerSize \in Nat \ {0}
    /\ ExtraSize \in Nat

VARIABLES
    pc,          \* where roundTrip is; "idle" between calls
    call,        \* the call being made, or made last
    returned,    \* its result, "none" while it runs
    descriptor,  \* where the stage's descriptor comes from
    expired,     \* the context is done: timeout or cancellation
    child,       \* the child process, "none" when there is none to reap
    manner,      \* the kind of program: "polite" or "any"
    answer,      \* what it writes: "valid", "refusal" or "garbage"
    orphan,      \* a process the child started holds the pipes
    sent, taken, \* chunks of the request written by roundTrip, read by the child
    wrote, got   \* chunks written by the child, read by roundTrip

request == <<sent, taken>>
response == <<wrote, got>>
extVars == <<pc, call, returned, descriptor, expired, child, manner, answer,
          orphan, request, response>>

ExtTypeOK ==
    /\ pc \in {"idle", "write", "read", "wait"}
    /\ call \in Calls
    /\ returned \in {"none", "ok", "failed"}
    /\ descriptor \in {"manifest", "handshake"}
    /\ expired \in BOOLEAN /\ orphan \in BOOLEAN
    /\ child \in {"none", "running", "exited", "crashed", "killed"}
    /\ manner \in {"polite", "any"}
    /\ answer \in {"valid", "refusal", "garbage"}
    /\ sent \in 0 .. RequestSize[call] /\ taken \in 0 .. sent
    /\ wrote \in 0 .. AnswerSize + ExtraSize /\ got \in 0 .. wrote
    /\ got <= AnswerSize
    /\ sent - taken <= PipeSize /\ wrote - got <= PipeSize

\* NewExternalProcessStage: the descriptor is the manifest's.
ExtInit ==
    /\ pc = "idle" /\ call = "describe" /\ returned = "failed"
    /\ descriptor = "manifest"
    /\ expired = FALSE /\ orphan = FALSE /\ child = "none" /\ manner = "any" /\ answer = "valid"
    /\ sent = 0 /\ taken = 0 /\ wrote = 0 /\ got = 0

-----------------------------------------------------------------------------
(* The parent: roundTrip and its callers.                                  *)

\* A call begins: the command is found, the pipes made, the child started.
BeginCall(c) ==
    /\ pc = "idle"
    /\ call' = c
    /\ expired' = FALSE
    /\ sent' = 0 /\ taken' = 0 /\ wrote' = 0 /\ got' = 0
    /\ manner' \in {"polite", "any"} /\ answer' \in {"valid", "refusal", "garbage"}
    /\ \/ pc' = "write" /\ child' = "running" /\ returned' = "none"
       \/ pc' = "idle" /\ child' = "none" /\ returned' = "failed"
    /\ UNCHANGED <<descriptor, orphan>>

ReadersOfRequest == child = "running" \/ orphan
WritersOfResponse == child = "running" \/ orphan

Parent == <<call, descriptor, expired, child, manner, answer, orphan>>

WriteRequest ==
    /\ pc = "write" /\ sent < RequestSize[call] /\ ReadersOfRequest
    /\ sent - taken < PipeSize
    /\ sent' = sent + 1
    /\ UNCHANGED <<pc, returned, Parent, taken, response>>

\* Mutant: the failure to write returns at once.
WriteFails_NoReap ==
    /\ pc = "write" /\ sent < RequestSize[call] /\ ~ReadersOfRequest
    /\ pc' = "idle" /\ returned' = "failed"
    /\ UNCHANGED <<Parent, request, response>>

\* Encode fails with a broken pipe: close stdin, reap, report.
WriteFails ==
    /\ pc = "write" /\ sent < RequestSize[call] /\ ~ReadersOfRequest
    /\ pc' = "wait"
    /\ UNCHANGED <<returned, Parent, request, response>>

CloseStdin ==
    /\ pc = "write" /\ sent = RequestSize[call]
    /\ pc' = "read"
    /\ UNCHANGED <<returned, Parent, request, response>>

\* Mutant: the child is awaited before its answer is read.
ReadResponse_AfterExit ==
    /\ pc = "read" /\ got < wrote /\ child # "running"
    /\ got' = got + 1
    /\ pc' = IF answer = "garbage" \/ got' = AnswerSize THEN "wait" ELSE "read"
    /\ UNCHANGED <<returned, Parent, request, wrote>>

\* Mutant: the last chunk is not waited for.
ReadResponse_Short ==
    /\ pc = "read" /\ got < wrote
    /\ got' = got + 1
    /\ pc' = IF answer = "garbage" \/ got' + 1 >= AnswerSize THEN "wait" ELSE "read"
    /\ UNCHANGED <<returned, Parent, request, wrote>>

\* Decode reads until it has one JSON value, or sees that it is none.
ReadResponse ==
    /\ pc = "read" /\ got < wrote
    /\ got' = got + 1
    /\ pc' = IF answer = "garbage" \/ got' = AnswerSize THEN "wait" ELSE "read"
    /\ UNCHANGED <<returned, Parent, request, wrote>>

\* Decode meets the end of the file.
ResponseEnds ==
    /\ pc = "read" /\ got = wrote /\ ~WritersOfResponse
    /\ pc' = "wait"
    /\ UNCHANGED <<returned, Parent, request, response>>

Decoded == got = AnswerSize /\ answer # "garbage"

\* What is made of the answer and of Wait's error.  When the timer and the exit
\* coincide, Wait may report either.
Outcome ==
    IF ~(Decoded /\ child = "exited" /\ answer = "valid")
      THEN {"failed"}
      ELSE IF expired THEN {"ok", "failed"} ELSE {"ok"}

\* Describe sets the descriptor last; Execute does not touch it.
DescriptorAfter(r) == IF call = "describe" /\ r = "ok" THEN "handshake" ELSE descriptor

\* Wait: the child is gone and stderr has ended.  Then the call returns.
Return ==
    /\ pc = "wait" /\ child # "running" /\ ~orphan
    /\ pc' = "idle" /\ child' = "none"
    /\ returned' \in Outcome
    /\ descriptor' = DescriptorAfter(returned')
    /\ UNCHANGED <<call, expired, manner, answer, orphan, request, response>>

ParentStep ==
    WriteRequest \/ WriteFails \/ CloseStdin \/ ReadResponse \/ ResponseEnds \/ Return

-----------------------------------------------------------------------------
(* The timer and the goroutine that CommandContext starts.                 *)

Expire ==
    /\ pc # "idle" /\ ~expired
    /\ expired' = TRUE
    /\ UNCHANGED <<pc, call, returned, descriptor, child, manner, answer, orphan,
                   request, response>>

\* Mutant: the command is made without the context.
Kill_NoContext == FALSE /\ UNCHANGED extVars

\* Only the child itself is killed, not what it has started.
Kill ==
    /\ expired /\ child = "running"
    /\ child' = "killed"
    /\ UNCHANGED <<pc, call, returned, descriptor, expired, manner, answer, orphan,
                   request, response>>

-----------------------------------------------------------------------------
(* The child.                                                              *)

Child == <<pc, call, returned, descriptor, expired, manner, answer>>

ReadRequest ==
    /\ child = "running" /\ taken < sent
    /\ taken' = taken + 1
    /\ UNCHANGED <<Child, child, orphan, sent, response>>

SawEndOfRequest == taken = RequestSize[call] /\ pc # "write"

WriteResponse ==
    /\ child = "running" /\ wrote - got < PipeSize
    /\ wrote < AnswerSize + ExtraSize
    /\ manner = "polite" => SawEndOfRequest /\ wrote < AnswerSize
    /\ wrote' = wrote + 1
    /\ UNCHANGED <<Child, child, orphan, request, got>>

Exit ==
    /\ child = "running"
    /\ IF manner = "polite"
         THEN wrote = AnswerSize /\ child' = "exited" /\ UNCHANGED orphan
         ELSE child' \in {"exited", "crashed"} /\ orphan' \in BOOLEAN
    /\ UNCHANGED <<Child, request, response>>

\* What the child started ends, some day or never.
OrphanEnds ==
    /\ orphan
    /\ orphan' = FALSE
    /\ UNCHANGED <<Child, child, request, response>>

ChildStep == ReadRequest \/ WriteResponse \/ Exit

ExtNext ==
    \/ \E c \in Calls : BeginCall(c)
    \/ ParentStep
    \/ Expire \/ Kill
    \/ ChildStep \/ OrphanEnds

\* The Go runtime runs the parent, the timer and the goroutine that kills; a
\* child gets no fairness, since it may be any program.
ExtSpec == ExtInit /\ [][ExtNext]_extVars
        /\ WF_extVars(ParentStep) /\ WF_extVars(Expire) /\ WF_extVars(Kill)

-----------------------------------------------------------------------------
(* A call that has returned leaves no child behind, whichever of           *)
(* roundTrip's returns it took: each of them reaps.                        *)
NoChildIsLeft == ExtTypeOK /\ (pc = "idle" => child = "none")

\* Somebody has something to do: the guards of the steps of parent and child.
SomeoneCanMove ==
    \/ pc = "write" /\ (sent = RequestSize[call] \/ ~ReadersOfRequest \/ sent - taken < PipeSize)
    \/ pc = "read" /\ (got < wrote \/ ~WritersOfResponse)
    \/ pc = "wait" /\ child # "running" /\ ~orphan
    \/ child = "running" /\ taken < sent
    \/ child = "running" /\ manner = "any"
    \/ child = "running" /\ manner = "polite"
         /\ (wrote = AnswerSize \/ (SawEndOfRequest /\ wrote < AnswerSize /\ wrote - got < PipeSize))

\* Decode has given up on something that is not JSON, nobody reads on, and the
\* rest does not fit into the pipe.
WritesToNobody ==
    /\ pc = "wait" /\ answer = "garbage" /\ child = "running"
    /\ wrote < AnswerSize /\ wrote - got = PipeSize

\* With a polite child, parent and child never wait for each other otherwise.
NobodyIsStuck ==
    manner = "polite" /\ pc # "idle" /\ ~WritesToNobody => SomeoneCanMove

(* The parent writes all before it reads and reads all before it waits,    *)
(* over bounded pipes: with a polite child the two wait for each other in  *)
(* one case only, so that else only a child's own slowness can let the     *)
(* timer fire.  The case is an answer that is not JSON and larger than the *)
(* pipe: roundTrip awaits the child without reading the rest.              *)
NoStandstill ==
    /\ NobodyIsStuck
    /\ SomeoneCanMove <=> ENABLED (ParentStep \/ ChildStep)

\* A polite child with a valid answer is never reported as failed, unless the
\* timer fired: no order in which the two run loses the answer.
AnswerArrives ==
    pc # "idle" /\ pc' = "idle" /\ manner = "polite" /\ answer = "valid" /\ ~expired
      => returned' = "ok"

\* The descriptor changes only in a handshake that succeeded as a whole, the
\* exit status of the child included; a failed one leaves the old descriptor.
HandshakeIsWhole ==
    descriptor' # descriptor =>
      call = "describe" /\ child = "exited" /\ answer = "valid" /\ returned' = "ok"

(* What a call reports is what happened: neither is an answer lost, nor    *)
(* does a failed handshake leave its mark on the stage.                    *)
CallIsReported == [][AnswerArrives /\ HandshakeIsWhole]_extVars

(* The timeout bounds a call whatever the child does, with one exception:  *)
(* roundTrip waits on for a process the child has left with its pipes.     *)
CallEnds == pc # "idle" ~> pc = "idle" \/ orphan
=============================================================================
