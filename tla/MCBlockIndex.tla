---------------------------- MODULE MCBlockIndex ----------------------------
(* Three block hashes of 5 bytes; the last two differ only in their last  *)
(* byte, which indexKey does not copy.                                     *)
EXTENDS BlockAncestor

MCHashes == { <<1, 0, 0, 0, 0>>, <<2, 0, 0, 0, 0>>, <<2, 0, 0, 0, 1>> }
=============================================================================
