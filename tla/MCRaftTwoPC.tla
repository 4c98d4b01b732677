---------------------------- MODULE MCRaftTwoPC ----------------------------
(* Small instances of the coordinator and the test's RPC workers for TLC. *)
EXTENDS RaftTwoPC

MCHooks == {"beforePrepare", "beforeCommit"}
MCPolicies == {"AllGood", "FailOnPrepare", "FailOnCommit"}
=============================================================================
