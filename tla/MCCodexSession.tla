--------------------------- MODULE MCCodexSession ---------------------------
(* One Session on a small instance: see the configurations for the bounds. *)
EXTENDS CodexSession, TLC

CONSTANTS i1, i2

MCMutation == 1 .. Requests

\* No handler tells one request id from another.
IdSymmetry == Permutations(Id)
=============================================================================
