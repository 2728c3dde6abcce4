------------------------------ MODULE MCServer ------------------------------
(* Bounds for LugasServer: a websocket request, which may also be answered *)
(* as an ordinary one is, and an unmatched one.                            *)
EXTENDS LugasServer

CONSTANTS chat, stray

MCKind == [r \in Requests |-> IF r = chat THEN "socket" ELSE "fallback"]
=============================================================================
