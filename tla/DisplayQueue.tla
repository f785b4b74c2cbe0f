---------------------------- MODULE DisplayQueue ----------------------------
(***************************************************************************)
(* What the display driver promises its callers, with none of its          *)
(* machinery: the requests accepted by ttyWrite wait in one line and       *)
(* appear on the terminal in that order, each exactly once.  A fatal       *)
(* exception replaces everything the terminal hardware does not hold yet   *)
(* by its message; an interrupt without a handler stops the machine.       *)
(* TtyDriver is shown to implement this specification.                     *)
(***************************************************************************)
EXTENDS Naturals, Sequences

CONSTANTS
  Request,      \* everything that can be asked of the terminal
  PanicMessage, \* what an exception handler asks for
  AbortMessage, \* what the default interrupt handler asks for
  Capacity      \* requests that can wait at once

VARIABLES
  pending,      \* accepted requests that are not on the screen yet, in order
  screen,       \* requests carried out, in order
  stopped       \* the machine has halted for good

vars == <<pending, screen, stopped>>

Init ==
  /\ pending = <<>>
  /\ screen = <<>>
  /\ stopped = FALSE

Ask(r) ==
  /\ ~stopped
  /\ Len(pending) < Capacity
  /\ pending' = Append(pending, r)
  /\ UNCHANGED <<screen, stopped>>

Show ==
  /\ pending # <<>>
  /\ screen' = Append(screen, Head(pending))
  /\ pending' = Tail(pending)
  /\ UNCHANGED stopped

(***************************************************************************)
(* A fatal exception: at most the request being drawn survives, and the    *)
(* message follows it.                                                     *)
(***************************************************************************)
Panic ==
  /\ ~stopped
  /\ stopped' = TRUE
  /\ \E k \in 0 .. 1 :
       /\ k <= Len(pending)
       /\ pending' = Append(SubSeq(pending, 1, k), PanicMessage)
  /\ UNCHANGED screen

(***************************************************************************)
(* An interrupt without a handler: only what the hardware already holds is *)
(* still drawn, and the message only if the hardware was free to take it.  *)
(***************************************************************************)
Abort ==
  /\ ~stopped
  /\ stopped' = TRUE
  /\ \E k \in 0 .. 2, tail \in {<<>>, <<AbortMessage>>} :
       /\ k <= Len(pending)
       /\ pending' = SubSeq(pending, 1, k) \o tail
  /\ UNCHANGED screen

Next ==
  \/ \E r \in Request : Ask(r)
  \/ Show
  \/ Panic
  \/ Abort

Spec == Init /\ [][Next]_vars
=============================================================================
