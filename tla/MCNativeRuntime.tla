--------------------------- MODULE MCNativeRuntime ---------------------------
(* One turn, one prompt of it with its reply, two callers, two Sessions. *)
EXTENDS NativeRuntime, TLC

CONSTANTS t, k, r, p, a, b, c1, c2

MCReplyTo == [x \in Reply |-> p]

Symmetry == Permutations(Caller)
=============================================================================
