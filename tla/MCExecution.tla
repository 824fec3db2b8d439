----------------------------- MODULE MCExecution -----------------------------
(* Small instances of Execution for TLC. *)
EXTENDS Execution

CONSTANTS t1, t2, g1, s1, p1

OneProject == [t \in Tasks |-> p1]

=============================================================================
