--------------------------- MODULE MCInterruptPath ---------------------------
(***************************************************************************)
(* InterruptPath for TLC: the vectors of the terminal, the keyboard and    *)
(* the first memory (tty.h:6, keyboard.h:6, nvm.h:7).                      *)
(***************************************************************************)
EXTENDS InterruptPath

MCTwoDevices == {126, 127}
MCThreeDevices == {125, 126, 127}
=============================================================================
