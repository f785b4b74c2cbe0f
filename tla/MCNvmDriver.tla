----------------------------- MODULE MCNvmDriver -----------------------------
(***************************************************************************)
(* NvmDriver for TLC: queues of four commands instead of 128.              *)
(***************************************************************************)
EXTENDS NvmDriver
=============================================================================
