------------------------------ MODULE LruCache ------------------------------
(***************************************************************************)
(* A cache that evicts exactly what was used least recently, as a line of  *)
(* its contents in the order of their last use.  TlbLru, which keeps an    *)
(* age per entry instead, is shown to implement it.                        *)
(***************************************************************************)
EXTENDS Naturals, Sequences

CONSTANTS
  Items,        \* what can be cached
  Capacity      \* how much of it fits

VARIABLE recency   \* the cached items, the least recently used first

Cached == {recency[k] : k \in 1 .. Len(recency)}

Init == recency = <<>>

Without(k) == [j \in 1 .. Len(recency) - 1 |-> recency[IF j < k THEN j ELSE j + 1]]

Use(x) ==
  \E k \in 1 .. Len(recency) :
    /\ recency[k] = x
    /\ recency' = Append(Without(k), x)

Load(x) ==
  /\ x \notin Cached
  /\ recency' = Append(IF Len(recency) < Capacity THEN recency
                                                  ELSE Tail(recency), x)

Flush == recency' = <<>>

Next == (\E x \in Items : Use(x) \/ Load(x)) \/ Flush

Spec == Init /\ [][Next]_recency
=============================================================================
