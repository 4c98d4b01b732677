--------------------------- MODULE MCMockTransport ---------------------------
(* Callers of one target; in the transport tests their contexts have
   deadlines (line 322) or none (lines 357, 380, 394). *)
EXTENDS MockTransport

CONSTANTS c1, c2, c3

MCClients == {c1, c2, c3}
MCDeadlined == {c1, c2}
MCPair == {c1, c2}
MCNone == {}
\* One caller with a deadline: its giveUp write meets the others' checks.
MCOneDeadlined == {c1}
=============================================================================
