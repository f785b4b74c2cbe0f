----------------------------- MODULE KeyBuffer -----------------------------
(***************************************************************************)
(* What the keyboard driver promises the reader of a line: the characters  *)
(* its interrupt handler has read wait in one line of bounded length and   *)
(* are taken in the order they arrived, each at most once; one that finds  *)
(* the line full is dropped.  Keyboard is shown to implement this.         *)
(***************************************************************************)
EXTENDS Naturals, Sequences

CONSTANTS
  Keys,        \* characters, numbered in the order they are typed
  Nothing,     \* what the handler reads when there is no character
  Capacity     \* characters that can wait

VARIABLES
  waiting,     \* arrived, not taken yet, in order
  newest,      \* the last character that arrived
  taken        \* the character taken last

vars == <<waiting, newest, taken>>

Init == waiting = <<>> /\ newest = Nothing /\ taken = Nothing

\* A handler run with no character behind it stores a Nothing.
Later(k) == k = Nothing \/ newest = Nothing \/ k > newest

Arrive(k) ==
  /\ Later(k)
  /\ newest' = IF k = Nothing THEN newest ELSE k
  /\ \/ Len(waiting) < Capacity /\ waiting' = Append(waiting, k)
     \/ Len(waiting) = Capacity /\ UNCHANGED waiting
  /\ UNCHANGED taken

Take ==
  /\ waiting # <<>>
  /\ taken' = Head(waiting)
  /\ waiting' = Tail(waiting)
  /\ UNCHANGED newest

Next == (\E k \in Keys \cup {Nothing} : Arrive(k)) \/ Take

Spec == Init /\ [][Next]_vars
=============================================================================
