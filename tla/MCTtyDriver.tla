----------------------------- MODULE MCTtyDriver -----------------------------
(***************************************************************************)
(* TtyDriver for TLC: one call of each shape that ttyWrite tells apart.    *)
(***************************************************************************)
EXTENDS TtyDriver

CONSTANTS hello, x

AString == [kind |-> "string", text |-> hello, cant |-> 0]
AChar == [kind |-> "char", text |-> x, cant |-> 0]
ARun == [kind |-> "char", text |-> x, cant |-> 3]
ABackspace == [kind |-> "backspace", text |-> x, cant |-> 1]
AClear == [kind |-> "clear", text |-> x, cant |-> 0]

MCCalls == {AString, AChar, ARun, AClear}
MCFewCalls == {AString, AChar}
=============================================================================
