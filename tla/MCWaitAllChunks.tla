--------------------------- MODULE MCWaitAllChunks ---------------------------
(***************************************************************************)
(* Up to 3 futures in up to 4 chunks (more chunks than futures, and a     *)
(* last chunk larger than the others), ready or delayed, over 0 to 2       *)
(* samples.                                                                *)
(***************************************************************************)
EXTENDS WaitAllChunks

MCMaxTasks == 3
MCMaxChunks == 4
MCMaxSamples == 2

=============================================================================
