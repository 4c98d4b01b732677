-------------------------- MODULE MCMockWorkerTwoPC --------------------------
(* Two workers, two Puts with batches from {1, 2}, both hooks may fail. *)
EXTENDS MockWorkerTwoPC

MCBatchValues == {1, 2}
MCHooks == {"beforePrepare", "beforeCommit"}
=============================================================================
