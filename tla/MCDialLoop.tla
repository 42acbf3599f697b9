----------------------------- MODULE MCDialLoop -----------------------------
EXTENDS DialLoop
CONSTANTS p1, p2, c1, c2, k
MCPeerOf == [c \in Conns |-> IF c = c1 THEN p1 ELSE p2]
MCDirOf  == [c \in Conns |-> "out"]
MCMaxConns == [d \in {"in", "out"} |-> 1]
=============================================================================
