---------------------------- MODULE MCA2ADigest ----------------------------
(* Five messages, the fourth of a second peer. *)
EXTENDS A2ADigest

MCPeerOf == [m \in Msgs |-> IF m = 4 THEN "q" ELSE "p"]

============================================================================
