---------------------------- MODULE MCAcpServer ----------------------------
(* Three prompts, two of them of the same session, for TLC. *)
EXTENDS AcpServer, TLC

CONSTANTS s1, s2, p1, p2, p3, m1, m2

MCSessions == {s1, s2}
MCPrompts == {p1, p2, p3}
MCSessionOf == [p \in Prompts |-> IF p = p3 THEN s2 ELSE s1]
=============================================================================
