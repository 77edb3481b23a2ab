--------------------------- MODULE MCBatchWorker ----------------------------
(***************************************************************************)
(* Batches of up to three tests: two of one module, one of another.        *)
(***************************************************************************)
EXTENDS BatchWorker

InterleavedModules == <<"m", "n", "m">>
=============================================================================
