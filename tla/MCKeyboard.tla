----------------------------- MODULE MCKeyboard -----------------------------
(***************************************************************************)
(* Keyboard for TLC: printable characters with a line end, or every class  *)
(* of character readInput tells apart.                                     *)
(***************************************************************************)
EXTENDS Keyboard

MCPlain == {"a", "LF"}
MCAll == {"a", "BS", "CR", "LF"}
MCCrlf == {"CR", "LF"}
=============================================================================
