--------------------------- MODULE MCContextStore ---------------------------
(* Two connections, two threads, a critical and an ordinary event, for TLC. *)
EXTENDS ContextStore, TLC

CONSTANTS w1, w2, t1, t2, error, toolCall, h1, h2

MCPriority == [k \in Keys |-> IF k = error THEN 1 ELSE 2]
MCSymmetry == Permutations({w1, w2}) \cup Permutations({h1, h2})
=============================================================================
