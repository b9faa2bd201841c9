-------------------------- MODULE MCExternalProcess --------------------------
(* Pipes of one chunk, so that both a request and an answer can be larger  *)
(* than a pipe: a describe request fits, an execute request does not.      *)
EXTENDS ExternalProcess

MCRequestSize == [describe |-> 1, execute |-> 3]
=============================================================================
