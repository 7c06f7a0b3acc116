--------------------------- MODULE MCCoreTopology ---------------------------
(* Instances of CoreTopology for TLC. *)
EXTENDS CoreTopology, TLC

CONSTANTS laptop, pi

MCIdRank == (laptop :> 1) @@ (pi :> 2)

\* Every Core is paired with every other.
MCPeers == [c \in Core |-> Core \ {c}]
=============================================================================
