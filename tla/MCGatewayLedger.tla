-------------------------- MODULE MCGatewayLedger --------------------------
(* A small instance of GatewayLedger: an SSE request and an agent's, both  *)
(* of one account and one client.                                          *)
EXTENDS GatewayLedger

CONSTANTS r1, r2, u1, ip1

MCUserOf == [r \in Requests |-> u1]
MCIpOf == [r \in Requests |-> ip1]
MCInputBound == [r \in Requests |-> 1]
MCMinOutput == [r \in Requests |-> 1]
=============================================================================
