------------------------------ MODULE MCOpenDB ------------------------------
(* Two callers of New.  The DSNs: a file on disk and a private in-memory
   database. *)
EXTENDS OpenDB

MCDisk == [file |-> "x", mode |-> "", cache |-> ""]
MCPrivateMem == [file |-> ":memory:", mode |-> "", cache |-> ""]

MCFileDSNs == {MCDisk, MCPrivateMem}
=============================================================================
