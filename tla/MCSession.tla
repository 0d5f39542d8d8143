------------------------------ MODULE MCSession ------------------------------
(* A small instance of Session for TLC: one client runs join, one mcp.       *)
EXTENDS Session

CONSTANTS c1, c2

TheClients == {c1, c2}
JoinAndMcp == [c \in Clients |-> IF c = c1 THEN "join" ELSE "mcp"]
=============================================================================
