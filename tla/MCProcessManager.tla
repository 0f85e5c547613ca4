--------------------------- MODULE MCProcessManager ---------------------------
EXTENDS ProcessManager
CONSTANTS p1, p2, p3, d1, d2
MCChildren == [p \in Processes |-> CASE p = p1 -> p2 [] p = d1 -> d2 [] OTHER -> NoProcess]
=============================================================================
