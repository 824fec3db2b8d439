--------------------------- MODULE MCHubProtocol ---------------------------
(* One client, owner and host: see the configurations for the bounds. *)
EXTENDS HubProtocol

CONSTANT c1
=============================================================================
