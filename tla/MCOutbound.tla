----------------------------- MODULE MCOutbound -----------------------------
(* Outbound with two processes and two messages.                           *)
EXTENDS Outbound
CONSTANTS p1, p2, m1, m2
MCPids == {p1, p2}
MCMail == {m1, m2}
============================================================================
