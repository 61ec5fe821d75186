--------------------------- MODULE MCSessionFiles ---------------------------
(***************************************************************************)
(* A few requests on a directory with one stored session.                  *)
(***************************************************************************)
EXTENDS SessionFiles

CONSTANTS p1, p2

TwoProcs == {p1, p2}
OneBusy == [p \in Procs |-> IF p = p1 THEN 3 ELSE 1]
Simple == [p \in Procs |-> IF p = p1 THEN 2 ELSE 1]
OnFile == SystemCalls \ {"open"}
OfControl == {"open", "fstat", "unlink"}
OnlyOpen == {"open"}
=============================================================================
