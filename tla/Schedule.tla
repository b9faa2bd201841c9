----------------------------- MODULE Schedule -----------------------------
(***************************************************************************)
(* What a run of the compiler pipeline promises, without phases, loops or  *)
(* hook points: a fixed set of calls is made one after the other, in a     *)
(* fixed order, each at most once.  A call sees the value of the last call *)
(* that returned one.  The run may be abandoned between two calls, but it  *)
(* succeeds only when every call was made.                                 *)
(***************************************************************************)
EXTENDS Integers

CONSTANT Root      \* the value the first call sees

VARIABLES
  calls,     \* the calls of this run, as triples <<phase, part, index>>
  fatal,     \* the calls whose failure ends the run
  done,      \* the calls made so far
  failed,    \* those of them that returned an error
  value,     \* the call whose value the next call sees, or Root
  status     \* "running", "ok" or "failed"

vars == <<calls, fatal, done, failed, value, status>>

Call == Nat \X Nat \X Nat

\* The order of the calls: by phase, then by part, then by index.
Before(a, b) ==
  \/ a[1] < b[1]
  \/ a[1] = b[1] /\ a[2] < b[2]
  \/ a[1] = b[1] /\ a[2] = b[2] /\ a[3] < b[3]

Init ==
  /\ calls \subseteq Call
  /\ fatal \subseteq calls
  /\ done = {}
  /\ failed = {}
  /\ value = Root
  /\ status = "running"

\* c is the next call: all the calls before it, and no others, were made.
Due(c) ==
  /\ status = "running"
  /\ c \in calls \ done
  /\ done = {b \in calls : Before(b, c)}

Return(c) ==
  /\ Due(c)
  /\ done' = done \cup {c}
  /\ value' \in {value, c}
  /\ UNCHANGED <<calls, fatal, failed, status>>

Fail(c) ==
  /\ Due(c)
  /\ done' = done \cup {c}
  /\ failed' = failed \cup {c}
  /\ status' = IF c \in fatal THEN "failed" ELSE "running"
  /\ UNCHANGED <<calls, fatal, value>>

Abandon ==
  /\ status = "running"
  /\ status' = "failed"
  /\ UNCHANGED <<calls, fatal, done, failed, value>>

Succeed ==
  /\ status = "running"
  /\ done = calls
  /\ status' = "ok"
  /\ UNCHANGED <<calls, fatal, done, failed, value>>

Next ==
  \/ \E c \in calls : Return(c) \/ Fail(c)
  \/ Abandon
  \/ Succeed

Spec == Init /\ [][Next]_vars
=============================================================================
