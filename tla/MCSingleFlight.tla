--------------------------- MODULE MCSingleFlight ---------------------------
(* SingleFlight for TLC: an MCP server with two threads that query, and    *)
(* one or two single-threaded processes (watch daemon, CLI).               *)
EXTENDS SingleFlight

CONSTANTS p1, p2, p3, t1, t2, t3, t4

MCProcOf == [t \in Thread |-> IF t \in {t1, t2} THEN p1
                              ELSE IF t = t3 THEN p2 ELSE p3]
=============================================================================
