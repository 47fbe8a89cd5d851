--------------------------- MODULE MCSocialGraph ---------------------------
(* Two accounts: on two servers, or neighbours on one of them.             *)
EXTENDS SocialGraph, TLC

CONSTANTS A, B, alice, bob

MCPeers      == {alice :> A @@ bob :> B}
MCNeighbours == {alice :> A @@ bob :> A}
MCEither     == MCPeers \cup MCNeighbours
=============================================================================
