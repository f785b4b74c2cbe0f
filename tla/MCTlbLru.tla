------------------------------ MODULE MCTlbLru ------------------------------
(***************************************************************************)
(* TlbLru for TLC: more translations than entries, a page shared by all    *)
(* processes and private ones.                                             *)
(***************************************************************************)
EXTENDS TlbLru

MCPages == 1 .. 3
MCGlobalPages == {1}
MCProcesses == {1, 2}
=============================================================================
