--------------------------- MODULE Keyboard_proofs ---------------------------
(***************************************************************************)
(* For every set of characters, every size of the ring and of the line and *)
(* every number of keys: the keyboard never falls silent, the ring is a    *)
(* bounded queue, the line is what editing gives and all of it is sent for *)
(* echo.                                                                   *)
(*                                                                         *)
(* Characters are numbered as they are typed, so order is order of         *)
(* numbers: the inductive invariant places the numbers of the controller's *)
(* buffer after the one the handler holds, and that one after the last one *)
(* it stored.                                                              *)
(***************************************************************************)
EXTENDS Keyboard, SequenceTheorems, WellFoundedInduction, TLAPS

Known == 0 .. Len(typed)

\* Every number stands for a character that was typed, 0 for none.
IdsAreTyped ==
  /\ Len(typed) <= MaxKeys
  /\ fifo \in Seq(1 .. Len(typed))
  /\ key_queue \in [0 .. KEYQ_SIZE - 1 -> Known]
  /\ data \in Known /\ newest \in Known /\ key \in Known /\ taken \in Known
  /\ consumed \in Seq(Known)

EchoRequests ==
  [op: {"put"}, arg: Chars] \cup [op: {"erase"}, arg: {0}]
    \cup [op: {"string"}, arg: 0 .. MAX_SIZE - 1]

Types == TypeOK /\ IdsAreTyped /\ pending \in Seq(EchoRequests)

\* The controller's buffer, the character in the handler and the last one it
\* stored or dropped are in the order of typing.
FifoIsInOrder ==
  /\ \A i, j \in 1 .. Len(fifo) : i < j => fifo[i] < fifo[j]
  /\ \A i \in 1 .. Len(fifo) : newest < fifo[i]
  /\ hpc = "ack" /\ data # 0 => fifo # <<>> /\ data = fifo[1]
  /\ hpc = "store" /\ data # 0 =>
       newest < data /\ \A i \in 1 .. Len(fifo) : data < fifo[i]

\* The character read at the tail is still there when the tail moves past it.
KeyIsAtTail == pc = "advance" => ~Empty /\ key = key_queue[kq_tail]

\* Echo never runs ahead of the line.
EchoIsBehind ==
  /\ echoed_n <= n
  /\ EchoIsComplete
  /\ pc = "send" => echoed_n < n

\* The line is edited up to the character in hand.
LineSoFar ==
  IF pc = "edit"
    THEN consumed # <<>> /\ Last(consumed) = key /\ Line = Edited(Front(consumed))
    ELSE Line = Edited(consumed)

IInv ==
  /\ Types
  /\ ServiceIsAlive
  /\ FifoIsInOrder
  /\ KeyIsAtTail
  /\ EchoIsBehind
  /\ LineSoFar

-----------------------------------------------------------------------------
(***************************************************************************)
(* Sequences and numbers.                                                  *)
(***************************************************************************)
\* A set of numbers that is not empty has a least one.
LEMMA LeastOf ==
  ASSUME NEW S, S \subseteq Nat, S # {}
  PROVE  \E m \in S : \A k \in S : m <= k
<1> DEFINE R == OpToRel(<, Nat)
<1>1. \A x, y \in Nat : x < y => <<x, y>> \in R
  BY Zenon DEF OpToRel
<1>2. IsWellFoundedOn(R, Nat)
  BY NatLessThanWellFounded
<1> HIDE DEF R
<1>3. PICK m \in S : \A k \in S : ~ (<<k, m>> \in R)
  BY <1>2, WFMin
<1>4. \A k \in S : ~ (k < m)
  BY <1>1, <1>3
<1> QED
  BY <1>4

LEMMA SeqGrows ==
  ASSUME NEW S, NEW T, S \subseteq T, NEW s \in Seq(S)
  PROVE  s \in Seq(T)
OBVIOUS

LEMMA ItemIs ==
  ASSUME NEW S, NEW s \in Seq(S), NEW i \in 1 .. Len(s)
  PROVE  s[i] \in S
OBVIOUS

\* Front and Last undo Append.
LEMMA FrontOfAppend ==
  ASSUME NEW S, NEW s \in Seq(S), NEW x \in S
  PROVE  /\ Append(s, x) \in Seq(S) /\ Append(s, x) # <<>>
         /\ Front(Append(s, x)) = s /\ Last(Append(s, x)) = x
<1> DEFINE a == Append(s, x)
<1>1. /\ a \in Seq(S) /\ Len(a) = Len(s) + 1 /\ a[Len(s) + 1] = x
      /\ \A i \in 1 .. Len(s) : a[i] = s[i]
      /\ Len(s) \in Nat
  BY AppendProperties, LenProperties
<1> HIDE DEF a
<1>2. a # <<>> /\ Last(a) = x
  BY <1>1 DEF Last
<1>3. SubSeq(a, 1, Len(a) - 1) = s
  <2>1. Len(a) - 1 = Len(s)
    BY <1>1
  <2>2. /\ SubSeq(a, 1, Len(s)) \in Seq(S) /\ Len(SubSeq(a, 1, Len(s))) = Len(s)
        /\ \A i \in 1 .. Len(s) : SubSeq(a, 1, Len(s))[i] = a[i]
    BY <1>1
  <2> DEFINE f == SubSeq(a, 1, Len(s))
  <2> HIDE DEF f
  <2>3. f \in Seq(S) /\ Len(f) = Len(s) /\ \A i \in 1 .. Len(s) : f[i] = s[i]
    BY <1>1, <2>2 DEF f
  <2>4. f = s
    BY <2>3, SeqEqual
  <2> QED
    BY <2>1, <2>4 DEF f
<1> QED
  BY <1>1, <1>2, <1>3 DEF a, Front

\* A sequence that is not empty is its front and its last element.
LEMMA FrontAndLast ==
  ASSUME NEW S, NEW s \in Seq(S), s # <<>>
  PROVE  /\ Front(s) \in Seq(S) /\ Last(s) \in S
         /\ Len(Front(s)) = Len(s) - 1
         /\ s = Append(Front(s), Last(s))
<1>1. Len(s) \in Nat \ {0} /\ Len(s) - 1 \in Nat
  BY EmptySeq
<1> DEFINE f == SubSeq(s, 1, Len(s) - 1)
<1>2. /\ f \in Seq(S) /\ Len(f) = Len(s) - 1
      /\ \A i \in 1 .. Len(s) - 1 : f[i] = s[i]
  <2>1. Len(s) - 1 \in Int /\ \A i \in 1 .. Len(s) - 1 : s[i] \in S
    BY <1>1
  <2>2. /\ f \in Seq(S)
        /\ Len(f) = IF 1 <= Len(s) - 1 THEN Len(s) - 1 - 1 + 1 ELSE 0
        /\ \A i \in 1 .. Len(s) - 1 - 1 + 1 : f[i] = s[1 + i - 1]
    BY <2>1, SubSeqProperties
  <2>3. \A m \in Nat : /\ m - 1 + 1 = m
                       /\ (IF 1 <= m THEN m - 1 + 1 ELSE 0) = m
                       /\ \A i \in 1 .. m : 1 + i - 1 = i
    OBVIOUS
  <2> HIDE DEF f
  <2> QED
    BY <1>1, <2>2, <2>3
<1> HIDE DEF f
<1>3. s[Len(s)] \in S
  BY <1>1
<1>4. /\ Append(f, s[Len(s)]) \in Seq(S)
      /\ Len(Append(f, s[Len(s)])) = Len(f) + 1
      /\ \A i \in 1 .. Len(f) : Append(f, s[Len(s)])[i] = f[i]
      /\ Append(f, s[Len(s)])[Len(f) + 1] = s[Len(s)]
  BY <1>2, <1>3, AppendProperties
<1>5. Append(f, s[Len(s)]) = s
  <2> DEFINE a == Append(f, s[Len(s)])
  <2> HIDE DEF a
  <2>1. /\ a \in Seq(S) /\ Len(a) = Len(s) /\ a[Len(s)] = s[Len(s)]
        /\ \A i \in 1 .. Len(s) - 1 : a[i] = s[i]
    BY <1>1, <1>2, <1>4 DEF a
  <2>2. \A i \in 1 .. Len(s) : a[i] = s[i]
    BY <1>1, <2>1
  <2>3. a = s
    BY <2>1, <2>2, SeqEqual
  <2> QED
    BY <2>3 DEF a
<1> QED
  BY <1>2, <1>3, <1>5 DEF f, Front, Last

-----------------------------------------------------------------------------
(***************************************************************************)
(* What editing gives.  Edited depends on the characters typed; with them  *)
(* as an argument the lemmas serve the state before and after a step.      *)
(***************************************************************************)
CharOf(keys, i) == IF i = 0 THEN "NUL" ELSE keys[i]
EditStepOf(keys, line, i) ==
  IF CharOf(keys, i) = "BS" THEN (IF line = <<>> THEN <<>> ELSE Front(line))
  ELSE IF CharOf(keys, i) \in Control \/ Len(line) >= MAX_SIZE - 1 THEN line
  ELSE Append(line, CharOf(keys, i))

\* f[k] is the line after k characters.
IsEditing(keys, f, ids) ==
  f = [k \in 0 .. Len(ids) |->
         IF k = 0 THEN <<>> ELSE EditStepOf(keys, f[k - 1], ids[k])]
EditedOf(keys, ids) == (CHOOSE f : IsEditing(keys, f, ids))[Len(ids)]

LEMMA EditedNow == \A ids : Edited(ids) = EditedOf(typed, ids)
BY Zenon DEF Edited, EditedOf, IsEditing, EditStep, EditStepOf, Char, CharOf

LEMMA EditedNext ==
  /\ Edited(consumed)' = EditedOf(typed', consumed')
  /\ Edited(Front(consumed))' = EditedOf(typed', Front(consumed'))
BY Zenon DEF Edited, EditedOf, IsEditing, EditStep, EditStepOf, Char, CharOf, Front

IsLines(f, m) == f = [k \in 0 .. m |-> f[k]]

\* A function of the lines, point by point.
LEMMA EditingIs ==
  ASSUME NEW keys, NEW S, NEW ids \in Seq(S), NEW f
  PROVE  IsEditing(keys, f, ids) <=>
           /\ IsLines(f, Len(ids))
           /\ f[0] = <<>>
           /\ \A k \in 1 .. Len(ids) : f[k] = EditStepOf(keys, f[k - 1], ids[k])
<1> DEFINE step(k) == EditStepOf(keys, f[k - 1], ids[k])
<1>1. Len(ids) \in Nat
  BY LenProperties
<1>2. IsEditing(keys, f, ids)
        <=> f = [k \in 0 .. Len(ids) |-> IF k = 0 THEN <<>> ELSE step(k)]
  BY DEF IsEditing
<1> HIDE DEF step
<1>3. 0 \in 0 .. Len(ids) /\ \A k \in 0 .. Len(ids) : k = 0 \/ k \in 1 .. Len(ids)
  BY <1>1
<1>4. \A k \in 1 .. Len(ids) : k \in 0 .. Len(ids) /\ k # 0
  BY <1>1
<1>5. f = [k \in 0 .. Len(ids) |-> IF k = 0 THEN <<>> ELSE step(k)]
        <=> /\ f = [k \in 0 .. Len(ids) |-> f[k]]
            /\ f[0] = <<>>
            /\ \A k \in 1 .. Len(ids) : f[k] = step(k)
  BY <1>3, <1>4
<1> QED
  BY <1>2, <1>5 DEF step, IsLines

LEMMA EditingSteps ==
  ASSUME NEW keys, NEW S, NEW ids \in Seq(S), NEW f, IsEditing(keys, f, ids)
  PROVE  /\ IsLines(f, Len(ids))
         /\ f[0] = <<>>
         /\ \A k \in 1 .. Len(ids) : f[k] = EditStepOf(keys, f[k - 1], ids[k])
BY EditingIs

\* There is at most one.
LEMMA EditingIsOne ==
  ASSUME NEW keys, NEW S, NEW ids \in Seq(S), NEW f, NEW g,
         IsEditing(keys, f, ids), IsEditing(keys, g, ids)
  PROVE  \A k \in 0 .. Len(ids) : f[k] = g[k]
<1> DEFINE Differ == {k \in 0 .. Len(ids) : f[k] # g[k]}
<1>1. Len(ids) \in Nat
  BY LenProperties
<1>2. SUFFICES ASSUME Differ # {} PROVE FALSE
  OBVIOUS
<1>3. PICK m \in Differ : \A k \in Differ : m <= k
  <2>1. Differ \subseteq Nat
    BY <1>1
  <2> HIDE DEF Differ
  <2> QED
    BY <1>2, <2>1, LeastOf
<1>4. /\ f[0] = <<>> /\ g[0] = <<>>
      /\ \A k \in 1 .. Len(ids) : /\ f[k] = EditStepOf(keys, f[k - 1], ids[k])
                                  /\ g[k] = EditStepOf(keys, g[k - 1], ids[k])
  BY EditingIs
<1>5. m \in 1 .. Len(ids) /\ m - 1 \in 0 .. Len(ids) /\ ~ (m <= m - 1)
  BY <1>1, <1>3, <1>4
<1>6. f[m - 1] = g[m - 1]
  BY <1>3, <1>5
<1> QED
  BY <1>3, <1>4, <1>5, <1>6

LEMMA EditedIs ==
  ASSUME NEW keys, NEW S, NEW ids \in Seq(S), NEW f, IsEditing(keys, f, ids)
  PROVE  EditedOf(keys, ids) = f[Len(ids)]
<1> DEFINE g == CHOOSE h : IsEditing(keys, h, ids)
<1>1. IsEditing(keys, g, ids)
  OBVIOUS
<1>2. Len(ids) \in 0 .. Len(ids)
  BY LenProperties
<1>3. g[Len(ids)] = f[Len(ids)]
  <2> HIDE DEF g
  <2> QED
    BY <1>1, <1>2, EditingIsOne
<1> QED
  BY <1>3 DEF EditedOf

\* One character more is one step more.
LEMMA EditingExtends ==
  ASSUME NEW keys, NEW S, NEW ids \in Seq(S), NEW x \in S, NEW f,
         IsEditing(keys, f, ids)
  PROVE  LET g == [k \in 0 .. Len(ids) + 1 |->
                     IF k <= Len(ids) THEN f[k]
                                      ELSE EditStepOf(keys, f[Len(ids)], x)]
         IN  IsEditing(keys, g, Append(ids, x))
<1> DEFINE more == Append(ids, x)
           last == EditStepOf(keys, f[Len(ids)], x)
           g == [k \in 0 .. Len(ids) + 1 |-> IF k <= Len(ids) THEN f[k] ELSE last]
<1>1. /\ more \in Seq(S) /\ Len(more) = Len(ids) + 1 /\ more[Len(ids) + 1] = x
      /\ \A i \in 1 .. Len(ids) : more[i] = ids[i]
      /\ Len(ids) \in Nat
  BY AppendProperties, LenProperties
<1>2. /\ f[0] = <<>>
      /\ \A k \in 1 .. Len(ids) : f[k] = EditStepOf(keys, f[k - 1], ids[k])
  BY EditingSteps
<1>3. /\ \A k \in 0 .. Len(ids) : g[k] = f[k]
      /\ g[Len(ids) + 1] = last
      /\ IsLines(g, Len(ids) + 1)
  <2> HIDE DEF last
  <2> QED
    BY <1>1 DEF IsLines
<1> HIDE DEF g, more
<1>4. ASSUME NEW k \in 1 .. Len(ids) + 1
      PROVE  g[k] = EditStepOf(keys, g[k - 1], more[k])
  <2>1. CASE k = Len(ids) + 1
    <3>1. k - 1 = Len(ids) /\ k - 1 \in 0 .. Len(ids)
      BY <1>1, <2>1
    <3> QED
      BY <1>1, <1>3, <2>1, <3>1
  <2>2. CASE k # Len(ids) + 1
    <3>1. k \in 1 .. Len(ids) /\ k \in 0 .. Len(ids) /\ k - 1 \in 0 .. Len(ids)
      BY <1>1, <2>2
    <3> QED
      BY <1>1, <1>2, <1>3, <3>1
  <2> QED
    BY <2>1, <2>2
<1>5. 0 \in 0 .. Len(ids)
  BY <1>1
<1>6. IsEditing(keys, g, more)
  BY <1>1, <1>2, <1>3, <1>4, <1>5, EditingIs
<1> QED
  BY <1>6 DEF g, more

\* There is one for every sequence of characters.
LEMMA EditingExists ==
  ASSUME NEW keys, NEW S
  PROVE  \A ids \in Seq(S) : \E f : IsEditing(keys, f, ids)
<1> DEFINE Without == {m \in Nat : \E ids \in Seq(S) :
                         Len(ids) = m /\ \A f : ~ IsEditing(keys, f, ids)}
<1>1. SUFFICES ASSUME Without # {} PROVE FALSE
  BY LenProperties
<1>2. PICK m \in Without : \A k \in Without : m <= k
  BY <1>1, LeastOf
<1>3. PICK ids \in Seq(S) : Len(ids) = m /\ \A f : ~ IsEditing(keys, f, ids)
  BY <1>2
<1>4. m # 0
  <2> SUFFICES ASSUME m = 0 PROVE FALSE
    OBVIOUS
  <2> DEFINE f == [k \in 0 .. 0 |-> <<>>]
  <2>1. f[0] = <<>> /\ IsLines(f, 0)
    BY DEF IsLines
  <2>2. Len(ids) = 0 /\ \A k \in 1 .. 0 : FALSE
    BY <1>3
  <2> HIDE DEF f
  <2>3. IsEditing(keys, f, ids)
    BY <2>1, <2>2, EditingIs
  <2> QED
    BY <1>3, <2>3
<1>5. /\ ids # <<>> /\ Front(ids) \in Seq(S) /\ Last(ids) \in S
      /\ Len(Front(ids)) = m - 1 /\ ids = Append(Front(ids), Last(ids))
  <2>1. ids # <<>>
    BY <1>3, <1>4, EmptySeq
  <2> QED
    BY <1>3, <2>1, FrontAndLast
<1>6. m - 1 \in Nat /\ m - 1 \notin Without
  BY <1>2, <1>4
<1>7. PICK f : IsEditing(keys, f, Front(ids))
  BY <1>5, <1>6
<1>8. \E g : IsEditing(keys, g, Append(Front(ids), Last(ids)))
  BY <1>5, <1>7, EditingExtends
<1> QED
  BY <1>3, <1>5, <1>8

\* No characters give an empty line, one more is one step more.
LEMMA EditedOfNone ==
  ASSUME NEW keys
  PROVE  EditedOf(keys, <<>>) = <<>>
<1>1. ASSUME NEW ids \in Seq(Nat), Len(ids) = 0
      PROVE  EditedOf(keys, ids) = <<>>
  <2>1. PICK f : IsEditing(keys, f, ids)
    BY EditingExists
  <2>2. f[0] = <<>>
    BY <2>1, EditingSteps
  <2> QED
    BY <1>1, <2>1, <2>2, EditedIs
<1>2. <<>> \in Seq(Nat) /\ Len(<<>>) = 0
  BY EmptySeq
<1> QED
  BY <1>1, <1>2

LEMMA EditedOfMore ==
  ASSUME NEW keys, NEW S, NEW ids \in Seq(S), NEW x \in S
  PROVE  EditedOf(keys, Append(ids, x)) = EditStepOf(keys, EditedOf(keys, ids), x)
<1>1. PICK f : IsEditing(keys, f, ids)
  BY EditingExists
<1> DEFINE last == EditStepOf(keys, f[Len(ids)], x)
           g == [k \in 0 .. Len(ids) + 1 |-> IF k <= Len(ids) THEN f[k] ELSE last]
<1>2. IsEditing(keys, g, Append(ids, x))
  BY <1>1, EditingExtends
<1>3. g[Len(ids) + 1] = last
  <2> HIDE DEF last
  <2> QED
    BY LenProperties
<1> HIDE DEF g
<1>4. EditedOf(keys, Append(ids, x)) = g[Len(Append(ids, x))]
  <2>1. Append(ids, x) \in Seq(S)
    BY AppendProperties
  <2> QED
    BY <1>2, <2>1, EditedIs
<1>5. Len(Append(ids, x)) = Len(ids) + 1
  BY AppendProperties
<1>6. EditedOf(keys, ids) = f[Len(ids)]
  BY <1>1, EditedIs
<1> QED
  BY <1>3, <1>4, <1>5, <1>6

\* A key typed later changes nothing.
LEMMA EditedIsStable ==
  ASSUME NEW S, NEW keys \in Seq(S), NEW c \in S,
         NEW ids \in Seq(0 .. Len(keys))
  PROVE  EditedOf(Append(keys, c), ids) = EditedOf(keys, ids)
<1>1. PICK f : IsEditing(keys, f, ids)
  BY EditingExists
<1>2. \A i \in 0 .. Len(keys) : CharOf(Append(keys, c), i) = CharOf(keys, i)
  BY AppendProperties DEF CharOf
<1>3. \A k \in 1 .. Len(ids) :
        EditStepOf(Append(keys, c), f[k - 1], ids[k]) = EditStepOf(keys, f[k - 1], ids[k])
  <2>1. \A k \in 1 .. Len(ids) : ids[k] \in 0 .. Len(keys)
    OBVIOUS
  <2> QED
    BY <1>2, <2>1 DEF EditStepOf
<1>4. /\ IsLines(f, Len(ids))
      /\ f[0] = <<>>
      /\ \A k \in 1 .. Len(ids) : f[k] = EditStepOf(keys, f[k - 1], ids[k])
  BY <1>1, EditingSteps
<1>5. \A k \in 1 .. Len(ids) :
        f[k] = EditStepOf(Append(keys, c), f[k - 1], ids[k])
  BY <1>3, <1>4
<1>6. IsEditing(Append(keys, c), f, ids)
  BY <1>4, <1>5, EditingIs
<1> QED
  BY <1>1, <1>6, EditedIs

-----------------------------------------------------------------------------
(***************************************************************************)
(* The line in the caller's buffer and the text the terminal reads there.  *)
(***************************************************************************)
LineOf(buffer, m) == [k \in 1 .. m |-> buffer[k - 1]]
Buffers == [0 .. MAX_SIZE - 1 -> Chars]

LEMMA SizesAre ==
  /\ KEYQ_SIZE \in Nat /\ KEYQ_SIZE >= 2
  /\ MAX_SIZE \in Nat /\ MAX_SIZE >= 1 /\ MaxKeys \in Nat
BY RingAssumption, LineAssumption

LEMMA LineIs ==
  ASSUME NEW buffer \in Buffers, NEW m \in 0 .. MAX_SIZE
  PROVE  /\ LineOf(buffer, m) \in Seq(Chars) /\ Len(LineOf(buffer, m)) = m
         /\ LineOf(buffer, m) = <<>> <=> m = 0
         /\ \A k \in 1 .. m : LineOf(buffer, m)[k] = buffer[k - 1]
<1>1. m \in Nat /\ \A k \in 1 .. m : buffer[k - 1] \in Chars
  BY SizesAre DEF Buffers
<1> DEFINE line == LineOf(buffer, m)
<1>2. line \in Seq(Chars) /\ Len(line) = m /\ \A k \in 1 .. m : line[k] = buffer[k - 1]
  BY <1>1 DEF LineOf
<1> HIDE DEF line
<1>3. line = <<>> <=> m = 0
  BY <1>2, EmptySeq
<1> QED
  BY <1>2, <1>3 DEF line

\* Writing at the end or behind it leaves the line, writing at the end and
\* counting it appends.
LEMMA LineIsWritten ==
  ASSUME NEW buffer \in Buffers, NEW m \in 0 .. MAX_SIZE - 1, NEW c \in Chars,
         NEW i \in m .. MAX_SIZE - 1
  PROVE  /\ [buffer EXCEPT ![i] = c] \in Buffers
         /\ LineOf([buffer EXCEPT ![i] = c], m) = LineOf(buffer, m)
         /\ i = m => LineOf([buffer EXCEPT ![i] = c], m + 1)
                       = Append(LineOf(buffer, m), c)
<1> DEFINE wider == [buffer EXCEPT ![i] = c]
           line == LineOf(buffer, m)
<1>1. /\ wider \in Buffers /\ \A k \in 1 .. m : wider[k - 1] = buffer[k - 1]
      /\ wider[i] = c
      /\ m \in 0 .. MAX_SIZE /\ m + 1 \in 0 .. MAX_SIZE
  BY SizesAre DEF Buffers
<1> HIDE DEF wider
<1>2. LineOf(wider, m) = line
  BY <1>1 DEF LineOf
<1>3. ASSUME i = m PROVE LineOf(wider, m + 1) = Append(line, c)
  <2> DEFINE more == LineOf(wider, m + 1)
  <2>1. /\ more \in Seq(Chars) /\ Len(more) = m + 1
        /\ \A k \in 1 .. m + 1 : more[k] = wider[k - 1]
    BY <1>1, LineIs
  <2>2. /\ line \in Seq(Chars) /\ Len(line) = m
        /\ \A k \in 1 .. m : line[k] = buffer[k - 1]
    BY <1>1, LineIs
  <2> HIDE DEF more, line
  <2>3. /\ Append(line, c) \in Seq(Chars) /\ Len(Append(line, c)) = m + 1
        /\ Append(line, c)[m + 1] = c
        /\ \A k \in 1 .. m : Append(line, c)[k] = line[k]
    BY <2>2, AppendProperties
  <2>4. \A k \in 1 .. m + 1 : more[k] = Append(line, c)[k]
    <3>1. \A k \in 1 .. m + 1 : k = m + 1 \/ k \in 1 .. m
      BY <1>1, SizesAre
    <3>2. more[m + 1] = c
      BY <1>1, <1>3, <2>1, SizesAre
    <3>3. \A k \in 1 .. m : more[k] = buffer[k - 1]
      BY <1>1, <2>1, SizesAre
    <3> QED
      BY <2>2, <2>3, <3>1, <3>2, <3>3
  <2>5. more = Append(line, c)
    BY <2>1, <2>3, <2>4, SeqEqual
  <2> QED
    BY <2>5 DEF more
<1> QED
  BY <1>1, <1>2, <1>3 DEF wider

\* One character less is the front of the line.
LEMMA LineIsErased ==
  ASSUME NEW buffer \in Buffers, NEW m \in 1 .. MAX_SIZE - 1
  PROVE  LineOf(buffer, m - 1) = Front(LineOf(buffer, m))
<1> DEFINE line == LineOf(buffer, m)
           less == LineOf(buffer, m - 1)
<1>1. m \in 0 .. MAX_SIZE /\ m - 1 \in 0 .. MAX_SIZE
  BY SizesAre
<1>2. /\ line \in Seq(Chars) /\ Len(line) = m /\ line # <<>>
      /\ \A k \in 1 .. m : line[k] = buffer[k - 1]
      /\ less \in Seq(Chars) /\ Len(less) = m - 1
      /\ \A k \in 1 .. m - 1 : less[k] = buffer[k - 1]
  BY <1>1, LineIs
<1> HIDE DEF line, less
<1>3. /\ Front(line) \in Seq(Chars) /\ Last(line) \in Chars
      /\ Len(Front(line)) = m - 1
      /\ line = Append(Front(line), Last(line))
  BY <1>2, FrontAndLast
<1> DEFINE f == Front(line)
           x == Last(line)
<1> HIDE DEF f, x
<1>4. /\ f \in Seq(Chars) /\ x \in Chars /\ Len(f) = m - 1 /\ line = Append(f, x)
  BY <1>3 DEF f, x
<1>5. \A k \in 1 .. m - 1 : f[k] = line[k]
  BY <1>4, AppendProperties
<1>6. ASSUME NEW k \in 1 .. m - 1 PROVE less[k] = f[k]
  <2>1. k \in 1 .. m
    BY SizesAre
  <2>2. less[k] = buffer[k - 1] /\ line[k] = buffer[k - 1]
    BY <1>2, <2>1
  <2> QED
    BY <1>5, <2>2
<1>7. less = f
  BY <1>2, <1>4, <1>6, SeqEqual
<1> QED
  BY <1>7 DEF less, f, line

\* The text from an address to the first NUL behind it.
LEMMA TextIs ==
  ASSUME out_buffer \in Buffers, NEW at \in 0 .. MAX_SIZE - 1
  PROVE  Text(at) \in Seq(Chars)
<1> DEFINE ends == {j \in at .. MAX_SIZE - 1 : out_buffer[j] = "NUL"}
           end == IF ends = {} THEN MAX_SIZE ELSE Min(ends)
<1>1. ends # {} => Min(ends) \in ends
  <2> SUFFICES ASSUME ends # {} PROVE Min(ends) \in ends
    OBVIOUS
  <2>1. ends \subseteq Nat
    BY SizesAre
  <2> HIDE DEF ends
  <2>2. \E m \in ends : \A k \in ends : m <= k
    BY <2>1, LeastOf
  <2> QED
    BY <2>2 DEF Min
<1>2. end \in at .. MAX_SIZE
  <2>1. CASE ends = {}
    BY <2>1, SizesAre
  <2>2. CASE ends # {}
    <3>1. Min(ends) \in at .. MAX_SIZE - 1 /\ end = Min(ends)
      BY <1>1, <2>2
    <3> HIDE DEF end
    <3> QED
      BY <3>1, SizesAre
  <2> QED
    BY <2>1, <2>2
<1> HIDE DEF end
<1>3. end - at \in Nat /\ \A k \in 1 .. end - at : out_buffer[at + k - 1] \in Chars
  BY <1>2, SizesAre DEF Buffers
<1>4. [k \in 1 .. end - at |-> out_buffer[at + k - 1]] \in Seq(Chars)
  BY <1>3
<1> QED
  BY <1>4 DEF Text, end

\* Every number names a character.
LEMMA CharIs ==
  ASSUME Types, NEW i \in Known
  PROVE  Char(i) \in Chars
BY DEF Types, TypeOK, Known, Char, Chars, Control

-----------------------------------------------------------------------------
(***************************************************************************)
(* What a step leaves alone.                                               *)
(***************************************************************************)
LEMMA LineNow ==
  LineSoFar <=>
    IF pc = "edit"
      THEN /\ consumed # <<>> /\ Last(consumed) = key
           /\ LineOf(out_buffer, n) = EditedOf(typed, Front(consumed))
      ELSE LineOf(out_buffer, n) = EditedOf(typed, consumed)
BY EditedNow DEF LineSoFar, Line, LineOf

LEMMA LineNext ==
  LineSoFar' <=>
    IF pc' = "edit"
      THEN /\ consumed' # <<>> /\ Last(consumed') = key'
           /\ LineOf(out_buffer', n') = EditedOf(typed', Front(consumed'))
      ELSE LineOf(out_buffer', n') = EditedOf(typed', consumed')
<1>1. LineSoFar' <=>
        IF pc' = "edit"
          THEN /\ consumed' # <<>> /\ Last(consumed') = key'
               /\ LineOf(out_buffer', n') = Edited(Front(consumed))'
          ELSE LineOf(out_buffer', n') = Edited(consumed)'
  BY DEF LineSoFar, Line, LineOf, Last
<1> QED
  BY <1>1, EditedNext

\* The steps of the user, the controller, the handler and the terminal leave
\* the reader where it is.
LEMMA ReaderStays ==
  ASSUME Types, EchoIsBehind, LineSoFar, UNCHANGED reader,
         typed' = typed \/ \E c \in Keys : typed' = Append(typed, c)
  PROVE  EchoIsBehind' /\ LineSoFar'
<1>1. UNCHANGED <<pc, key, n, echoed_n, out_buffer, consumed>>
  BY DEF reader
<1>2. EchoIsBehind'
  BY <1>1 DEF EchoIsBehind, EchoIsComplete
<1>3. consumed # <<>> => Front(consumed) \in Seq(Known)
  BY FrontAndLast DEF Types, IdsAreTyped
<1>4. /\ EditedOf(typed', consumed) = EditedOf(typed, consumed)
      /\ consumed # <<>> =>
           EditedOf(typed', Front(consumed)) = EditedOf(typed, Front(consumed))
  <2>1. typed \in Seq(Keys) /\ consumed \in Seq(Known)
    BY DEF Types, TypeOK, IdsAreTyped
  <2>2. \A c \in Keys : \A ids \in Seq(Known) :
          EditedOf(Append(typed, c), ids) = EditedOf(typed, ids)
    BY <2>1, EditedIsStable DEF Known
  <2> QED
    BY <1>3, <2>1, <2>2
<1> QED
  BY <1>1, <1>2, <1>4, LineNow, LineNext

\* The reader's steps leave the controller and the handler where they are.
LEMMA HandlerStays ==
  ASSUME ServiceIsAlive, FifoIsInOrder, UNCHANGED <<typed, controller, handler>>
  PROVE  ServiceIsAlive' /\ FifoIsInOrder'
BY DEF ServiceIsAlive, FifoIsInOrder, controller, handler

\* The types of what a step does not touch.
LEMMA TypesStay ==
  ASSUME Types, UNCHANGED typed
  PROVE  /\ Len(typed') <= MaxKeys /\ typed' \in Seq(Keys)
         /\ UNCHANGED Known
         /\ Known \subseteq Ids
BY SizesAre DEF Types, TypeOK, IdsAreTyped, Known, Ids

\* The reader's steps keep the types when they keep those of the reader.
LEMMA ReaderTypes ==
  ASSUME Types, UNCHANGED <<typed, controller, handler, key_queue, kq_head>>,
         kq_tail' \in 0 .. KEYQ_SIZE - 1,
         key' \in Known, taken' \in Known, consumed' \in Seq(Known), pc' \in PCs,
         n' \in 0 .. MAX_SIZE - 1, echoed_n' \in 0 .. MAX_SIZE - 1,
         done' \in BOOLEAN, halted' \in BOOLEAN, out_buffer' \in Buffers,
         screen' \in Seq(Chars), pending' \in Seq(EchoRequests)
  PROVE  Types'
<1>1. Known \subseteq Ids /\ Known' = Known /\ IdsAreTyped'
  BY TypesStay DEF Types, IdsAreTyped, Known, controller, handler
<1>2. key' \in Ids /\ taken' \in Ids /\ consumed' \in Seq(Ids)
  BY <1>1, SeqGrows
<1>3. \A i \in 1 .. Len(pending') :
        pending'[i].op \in {"put", "erase"} \/ pending'[i].arg \in 0 .. MAX_SIZE - 1
  <2>1. \A i \in 1 .. Len(pending') : pending'[i] \in EchoRequests
    BY ItemIs
  <2> QED
    BY <2>1 DEF EchoRequests
<1>4. TypeOK'
  BY <1>2, <1>3 DEF Types, TypeOK, Buffers, controller, handler
<1> QED
  BY <1>1, <1>4 DEF Types

-----------------------------------------------------------------------------
(***************************************************************************)
(* The steps of the user, the controller, the handler and the terminal.    *)
(***************************************************************************)
LEMMA KeyPressKeeps ==
  ASSUME IInv, NEW c \in Keys, KeyPress(c)
  PROVE  IInv'
<1>1. /\ Types /\ typed \in Seq(Keys) /\ Len(typed) + spurious < MaxKeys
      /\ typed' = Append(typed, c)
      /\ fifo' = Append(fifo, Len(typed')) /\ service' = TRUE
      /\ irq' = (irq \/ ~service)
      /\ UNCHANGED <<lost, key_queue, kq_head, kq_tail, hpc, data, newest, spurious,
                     reader, halted, pending, screen>>
  BY DEF KeyPress, IInv, Types, TypeOK, ring, handler, display
<1> DEFINE m == Len(typed)
<1>2. /\ m \in Nat /\ Len(typed') = m + 1 /\ typed' \in Seq(Keys)
      /\ fifo' = Append(fifo, m + 1)
  BY <1>1, LenProperties, AppendProperties
<1>3. /\ fifo \in Seq(1 .. m) /\ Len(fifo) \in Nat
      /\ newest \in 0 .. m /\ data \in 0 .. m /\ key \in 0 .. m /\ taken \in 0 .. m
      /\ consumed \in Seq(0 .. m) /\ key_queue \in [0 .. KEYQ_SIZE - 1 -> 0 .. m]
  BY <1>1 DEF Types, IdsAreTyped, Known
<1> HIDE DEF m
<1>4. 1 .. m \subseteq 1 .. m + 1 /\ 0 .. m \subseteq 0 .. m + 1 /\ m + 1 \in 1 .. m + 1
  BY <1>2
<1>5. /\ fifo' \in Seq(1 .. m + 1) /\ Len(fifo') = Len(fifo) + 1
      /\ fifo'[Len(fifo) + 1] = m + 1
      /\ \A i \in 1 .. Len(fifo) : fifo'[i] = fifo[i] /\ fifo[i] \in 1 .. m
      /\ fifo' # <<>>
  <2>1. fifo \in Seq(1 .. m + 1)
    BY <1>3, <1>4, SeqGrows
  <2>2. /\ fifo' \in Seq(1 .. m + 1) /\ Len(fifo') = Len(fifo) + 1
        /\ fifo'[Len(fifo) + 1] = m + 1
        /\ \A i \in 1 .. Len(fifo) : fifo'[i] = fifo[i]
    BY <1>2, <1>4, <2>1, AppendProperties
  <2>3. \A i \in 1 .. Len(fifo) : fifo[i] \in 1 .. m
    BY <1>3, ItemIs
  <2> QED
    BY <1>3, <2>2, <2>3, EmptySeq
<1>6. Types'
  <2>1. IdsAreTyped'
    <3>1. /\ consumed \in Seq(0 .. m + 1)
          /\ key_queue \in [0 .. KEYQ_SIZE - 1 -> 0 .. m + 1]
      BY <1>3, <1>4, SeqGrows
    <3>2. m + 1 <= MaxKeys
      <4>1. spurious \in Nat
        BY <1>1, SizesAre DEF Types, TypeOK
      <4> QED
        BY <1>1, <1>2, <4>1, SizesAre DEF m
    <3> QED
      BY <1>1, <1>2, <1>3, <1>4, <1>5, <3>1, <3>2
      DEF IdsAreTyped, Known, reader
  <2>2. \A i \in 1 .. Len(pending) :
          pending[i].op \in {"put", "erase"} \/ pending[i].arg \in 0 .. MAX_SIZE - 1
    BY <1>1 DEF Types, TypeOK
  <2>3. fifo' \in Seq(Ids) /\ Known' \subseteq Ids
    <3>1. 1 .. m + 1 \subseteq Ids
      <4>1. m + 1 <= MaxKeys
        BY <1>2, <2>1 DEF IdsAreTyped
      <4> QED
        BY <1>2, <4>1, SizesAre DEF Ids
    <3> QED
      BY <1>1, <1>2, <1>5, <2>1, <3>1, SeqGrows, SizesAre
      DEF Ids, Known, IdsAreTyped
  <2>4. TypeOK'
    BY <1>1, <1>2, <2>2, <2>3 DEF Types, TypeOK, reader
  <2> QED
    BY <1>1, <2>1, <2>4 DEF Types
<1>7. FifoIsInOrder'
  <2>1. \A i \in 1 .. Len(fifo) + 1 : i = Len(fifo) + 1 \/ i \in 1 .. Len(fifo)
    BY <1>3
  <2>2. ASSUME NEW i \in 1 .. Len(fifo) + 1, NEW j \in 1 .. Len(fifo) + 1, i < j
        PROVE  fifo'[i] < fifo'[j]
    <3>1. i \in 1 .. Len(fifo)
      BY <1>3, <2>2
    <3>2. CASE j = Len(fifo) + 1
      BY <1>2, <1>5, <3>1, <3>2
    <3>3. CASE j \in 1 .. Len(fifo)
      BY <1>5, <2>2, <3>1, <3>3 DEF IInv, FifoIsInOrder
    <3> QED
      BY <2>1, <3>2, <3>3
  <2>3. ASSUME NEW i \in 1 .. Len(fifo) + 1
        PROVE  /\ newest < fifo'[i]
               /\ hpc = "store" /\ data # 0 => data < fifo'[i]
    <3>1. CASE i = Len(fifo) + 1
      BY <1>2, <1>3, <1>5, <3>1
    <3>2. CASE i \in 1 .. Len(fifo)
      BY <1>5, <3>2 DEF IInv, FifoIsInOrder
    <3> QED
      BY <2>1, <3>1, <3>2
  <2>4. hpc = "ack" /\ data # 0 => data = fifo'[1]
    <3> SUFFICES ASSUME hpc = "ack", data # 0 PROVE data = fifo'[1]
      OBVIOUS
    <3>1. fifo # <<>> /\ data = fifo[1]
      BY DEF IInv, FifoIsInOrder
    <3>2. 1 \in 1 .. Len(fifo)
      BY <1>3, <3>1
    <3> QED
      BY <1>5, <3>1, <3>2
  <2> QED
    BY <1>1, <1>5, <2>2, <2>3, <2>4 DEF IInv, FifoIsInOrder
<1>8. ServiceIsAlive'
  BY <1>1 DEF IInv, ServiceIsAlive
<1>9. KeyIsAtTail'
  BY <1>1 DEF IInv, KeyIsAtTail, Empty, reader
<1>10. EchoIsBehind' /\ LineSoFar'
  BY <1>1, ReaderStays DEF IInv
<1> QED
  BY <1>6, <1>7, <1>8, <1>9, <1>10 DEF IInv

LEMMA TakeIrqKeeps ==
  ASSUME IInv, TakeIrq \/ SpuriousRun
  PROVE  IInv'
<1>1. /\ hpc = "none" /\ hpc' = "read" /\ irq' \in {irq, FALSE} /\ halted' = FALSE
      /\ spurious' \in 0 .. MaxKeys
      /\ UNCHANGED <<typed, fifo, service, lost, key_queue, kq_head, kq_tail, data,
                     newest, reader, pending, screen>>
  <2>1. Len(typed) \in Nat /\ spurious \in 0 .. MaxKeys /\ MaxKeys \in Nat
    BY SizesAre DEF IInv, Types, TypeOK
  <2>2. CASE TakeIrq
    BY <2>1, <2>2 DEF TakeIrq, ring, display
  <2>3. CASE SpuriousRun
    BY <2>1, <2>3 DEF SpuriousRun, controller, ring, display
  <2> QED
    BY <2>2, <2>3
<1>2. Types'
  BY <1>1 DEF IInv, Types, TypeOK, IdsAreTyped, Known, reader
<1>3. ServiceIsAlive' /\ FifoIsInOrder' /\ KeyIsAtTail'
  BY <1>1
  DEF IInv, ServiceIsAlive, FifoIsInOrder, KeyIsAtTail, Empty, reader
<1>4. EchoIsBehind' /\ LineSoFar'
  BY <1>1, ReaderStays DEF IInv
<1> QED
  BY <1>2, <1>3, <1>4 DEF IInv

LEMMA LoseIrqKeeps ==
  ASSUME IInv, LoseIrq
  PROVE  IInv'
<1>1. /\ irq' = FALSE /\ lost' = service
      /\ UNCHANGED <<typed, fifo, service, key_queue, kq_head, kq_tail, hpc, data,
                     newest, spurious, reader, halted, pending, screen>>
  BY DEF LoseIrq, ring, handler, display
<1>2. Types'
  BY <1>1 DEF IInv, Types, TypeOK, IdsAreTyped, Known, reader
<1>3. ServiceIsAlive' /\ FifoIsInOrder' /\ KeyIsAtTail'
  BY <1>1
  DEF IInv, ServiceIsAlive, FifoIsInOrder, KeyIsAtTail, Empty, reader
<1>4. EchoIsBehind' /\ LineSoFar'
  BY <1>1, ReaderStays DEF IInv
<1> QED
  BY <1>2, <1>3, <1>4 DEF IInv

LEMMA ReadDataKeeps ==
  ASSUME IInv, ReadData
  PROVE  IInv'
<1>1. /\ hpc = "read" /\ hpc' = "ack"
      /\ data' = IF fifo = <<>> THEN 0 ELSE Head(fifo)
      /\ UNCHANGED <<typed, fifo, service, irq, lost, key_queue, kq_head, kq_tail,
                     newest, spurious, reader, halted, pending, screen>>
  BY DEF ReadData, controller, ring, display
<1>2. Len(typed) \in Nat /\ fifo \in Seq(1 .. Len(typed)) /\ Known \subseteq Ids
  <2>1. Types
    BY DEF IInv
  <2> QED
    BY <2>1, TypesStay, <1>1, LenProperties DEF Types, TypeOK, IdsAreTyped
<1>3. data' \in Known /\ (data' # 0 => fifo # <<>> /\ data' = fifo[1])
  <2>1. CASE fifo = <<>>
    BY <1>1, <1>2, <2>1 DEF Known
  <2>2. CASE fifo # <<>>
    <3>1. Head(fifo) = fifo[1] /\ Head(fifo) \in 1 .. Len(typed)
      BY <1>2, <2>2
    <3> QED
      BY <1>1, <1>2, <2>2, <3>1 DEF Known
  <2> QED
    BY <2>1, <2>2
<1>4. Types'
  BY <1>1, <1>2, <1>3 DEF IInv, Types, TypeOK, IdsAreTyped, Known, reader
<1>5. ServiceIsAlive' /\ FifoIsInOrder' /\ KeyIsAtTail'
  BY <1>1, <1>3
  DEF IInv, ServiceIsAlive, FifoIsInOrder, KeyIsAtTail, Empty, reader
<1>6. EchoIsBehind' /\ LineSoFar'
  BY <1>1, ReaderStays DEF IInv
<1> QED
  BY <1>4, <1>5, <1>6 DEF IInv

\* Acknowledging removes the first character of the controller's buffer, which
\* is the one the handler read unless it read none.
LEMMA AcknowledgeKeeps ==
  ASSUME IInv, Acknowledge
  PROVE  IInv'
<1>1. /\ hpc = "ack" /\ hpc' = "store"
      /\ fifo' = IF fifo = <<>> THEN <<>> ELSE Tail(fifo)
      /\ lost' = FALSE
      /\ UNCHANGED <<typed, key_queue, kq_head, kq_tail, data, newest, spurious,
                     reader, halted, pending, screen>>
  BY DEF Acknowledge, ring, display
<1>2. PICK again \in {fifo # <<>>, fifo' # <<>>} :
        irq' = (irq \/ again) /\ service' = again
  BY DEF Acknowledge
<1>3. fifo \in Seq(1 .. Len(typed))
  BY DEF IInv, Types, IdsAreTyped
<1>4. /\ fifo' \in Seq(1 .. Len(typed))
      /\ fifo # <<>> => /\ Len(fifo) \in Nat \ {0} /\ Len(fifo') = Len(fifo) - 1
                        /\ \A i \in 1 .. Len(fifo') : fifo'[i] = fifo[i + 1]
      /\ fifo = <<>> => fifo' = <<>> /\ Len(fifo') = 0
  <2>1. CASE fifo = <<>>
    BY <1>1, <2>1, EmptySeq
  <2>2. CASE fifo # <<>>
    <3>1. Len(fifo) \in Nat \ {0}
      BY <1>3, <2>2, EmptySeq
    <3>2. /\ Tail(fifo) \in Seq(1 .. Len(typed)) /\ Len(Tail(fifo)) = Len(fifo) - 1
          /\ \A i \in 1 .. Len(Tail(fifo)) : Tail(fifo)[i] = fifo[i + 1]
      BY <1>3, <2>2, HeadTailProperties
    <3> QED
      BY <1>1, <2>2, <3>1, <3>2
  <2> QED
    BY <2>1, <2>2
<1>5. again \in BOOLEAN /\ (fifo' # <<>> => again)
  BY <1>2, <1>4
<1>6. Types'
  <2>1. fifo' \in Seq(Ids)
    <3>1. 1 .. Len(typed) \subseteq Ids
      <4>1. Known \subseteq Ids
        BY <1>1, TypesStay DEF IInv
      <4>2. 1 .. Len(typed) \subseteq Known
        BY DEF Known
      <4> QED
        BY <4>1, <4>2
    <3> QED
      BY <1>4, <3>1, SeqGrows
  <2>2. irq' \in BOOLEAN /\ service' \in BOOLEAN
    BY <1>2, <1>5
  <2> QED
    BY <1>1, <1>4, <2>1, <2>2
    DEF IInv, Types, TypeOK, IdsAreTyped, Known, reader
<1>7. ServiceIsAlive'
  BY <1>1, <1>2, <1>5 DEF ServiceIsAlive
<1>8. FifoIsInOrder'
  <2>1. CASE fifo = <<>>
    BY <1>1, <1>4, <2>1 DEF IInv, FifoIsInOrder
  <2>2. CASE fifo # <<>>
    <3>1. ASSUME NEW i \in 1 .. Len(fifo')
          PROVE  i + 1 \in 1 .. Len(fifo) /\ 1 < i + 1 /\ i \in 1 .. Len(fifo)
      <4>1. Len(fifo') = Len(fifo) - 1 /\ Len(fifo) \in Nat \ {0}
        BY <1>4, <2>2
      <4> QED
        BY <4>1
    <3>2. 1 \in 1 .. Len(fifo)
      BY <1>4, <2>2
    <3>3. \A i, j \in 1 .. Len(fifo') : i < j => i + 1 < j + 1
      OBVIOUS
    <3>4. data # 0 => newest < data /\ \A i \in 1 .. Len(fifo') : data < fifo'[i]
      BY <1>1, <1>4, <2>2, <3>1, <3>2 DEF IInv, FifoIsInOrder
    <3> QED
      BY <1>1, <1>4, <2>2, <3>1, <3>3, <3>4 DEF IInv, FifoIsInOrder
  <2> QED
    BY <2>1, <2>2
<1>9. KeyIsAtTail'
  BY <1>1 DEF IInv, KeyIsAtTail, Empty, reader
<1>10. EchoIsBehind' /\ LineSoFar'
  BY <1>1, ReaderStays DEF IInv
<1> QED
  BY <1>6, <1>7, <1>8, <1>9, <1>10 DEF IInv

\* The slot written is the one at the head, which is not the one at the tail
\* unless the ring is empty.
LEMMA StoreKeyKeeps ==
  ASSUME IInv, StoreKey
  PROVE  IInv'
<1>1. /\ hpc = "store" /\ hpc' = "none" /\ data' = 0
      /\ newest' = IF data = 0 THEN newest ELSE data
      /\ \/ /\ NextKey(kq_head) # kq_tail /\ kq_head' = NextKey(kq_head)
            /\ key_queue' = [key_queue EXCEPT ![kq_head] = data]
         \/ UNCHANGED <<key_queue, kq_head>>
      /\ UNCHANGED <<typed, fifo, service, irq, lost, kq_tail, spurious, reader,
                     halted, pending, screen>>
  BY DEF StoreKey, controller, display
<1>2. /\ kq_head \in 0 .. KEYQ_SIZE - 1 /\ kq_tail \in 0 .. KEYQ_SIZE - 1
      /\ key_queue \in [0 .. KEYQ_SIZE - 1 -> Known]
      /\ data \in Known /\ newest \in Known /\ 0 \in Known /\ Known \subseteq Ids
  <2>1. Types
    BY DEF IInv
  <2>2. Known \subseteq Ids
    BY <1>1, <2>1, TypesStay
  <2>3. 0 \in Known
    BY <2>1, LenProperties DEF Types, TypeOK, Known
  <2> QED
    BY <2>1, <2>2, <2>3 DEF Types, TypeOK, IdsAreTyped
<1>3. kq_head' \in 0 .. KEYQ_SIZE - 1
  <2>1. NextKey(kq_head) \in 0 .. KEYQ_SIZE - 1
    BY <1>2, SizesAre DEF NextKey
  <2> QED
    BY <1>1, <1>2, <2>1
<1>4. key_queue' \in [0 .. KEYQ_SIZE - 1 -> Known]
  BY <1>1, <1>2
<1>5. Types'
  <2>1. key_queue' \in [0 .. KEYQ_SIZE - 1 -> Ids] /\ newest' \in Known
        /\ newest' \in Ids /\ data' \in Known /\ data' \in Ids
    BY <1>1, <1>2, <1>4
  <2> QED
    BY <1>1, <1>3, <1>4, <2>1 DEF IInv, Types, TypeOK, IdsAreTyped, Known, reader
<1>6. ServiceIsAlive' /\ FifoIsInOrder'
  BY <1>1 DEF IInv, ServiceIsAlive, FifoIsInOrder
<1>7. KeyIsAtTail'
  <2> SUFFICES ASSUME pc' = "advance"
               PROVE  kq_tail' # kq_head' /\ key' = key_queue'[kq_tail']
    BY DEF KeyIsAtTail, Empty
  <2>1. kq_tail # kq_head /\ key = key_queue[kq_tail]
    BY <1>1 DEF IInv, KeyIsAtTail, Empty, reader
  <2> QED
    BY <1>1, <1>2, <2>1 DEF reader
<1>8. EchoIsBehind' /\ LineSoFar'
  BY <1>1, ReaderStays DEF IInv
<1> QED
  BY <1>5, <1>6, <1>7, <1>8 DEF IInv

\* initKeyboard empties the controller between two runs of the handler.
LEMMA initKeyboardKeeps ==
  ASSUME IInv, initKeyboard
  PROVE  IInv'
<1>1. /\ pc = "idle" /\ hpc = "none" /\ fifo' = <<>> /\ service' = FALSE
      /\ lost' = FALSE
      /\ UNCHANGED <<typed, irq, key_queue, kq_head, kq_tail, hpc, data, newest,
                     spurious, reader, halted, pending, screen>>
  BY DEF initKeyboard, MainRuns, ring, handler, display
<1>2. Types'
  <2>1. \A S : fifo' \in Seq(S)
    BY <1>1, EmptySeq
  <2> QED
    BY <1>1, <2>1 DEF IInv, Types, TypeOK, IdsAreTyped, Known, reader
<1>3. ServiceIsAlive' /\ FifoIsInOrder'
  BY <1>1 DEF ServiceIsAlive, FifoIsInOrder
<1>4. KeyIsAtTail'
  BY <1>1 DEF IInv, KeyIsAtTail, Empty, reader
<1>5. EchoIsBehind' /\ LineSoFar'
  BY <1>1, ReaderStays DEF IInv
<1> QED
  BY <1>2, <1>3, <1>4, <1>5 DEF IInv

LEMMA ShowKeeps ==
  ASSUME IInv, Show
  PROVE  IInv'
<1>1. /\ pending # <<>> /\ screen' = Drawn(Head(pending)) /\ pending' = Tail(pending)
      /\ UNCHANGED <<typed, controller, handler, fifo, service, irq, lost, key_queue,
                     kq_head, kq_tail, hpc, data, newest, spurious, reader,
                     halted>>
  BY DEF Show, controller, ring, handler
<1>2. /\ pending \in Seq(EchoRequests) /\ screen \in Seq(Chars)
      /\ out_buffer \in Buffers
  BY DEF IInv, Types, TypeOK, Buffers
<1>3. Head(pending) \in EchoRequests /\ pending' \in Seq(EchoRequests)
  BY <1>1, <1>2, HeadTailProperties
<1>4. screen' \in Seq(Chars)
  <2> DEFINE r == Head(pending)
  <2> HIDE DEF r
  <2>1. r \in EchoRequests /\ screen' = Drawn(r)
    BY <1>1, <1>3 DEF r
  <2>2. CASE r.op = "put"
    <3>1. r.arg \in Chars
      BY <2>1, <2>2 DEF EchoRequests
    <3> QED
      BY <1>2, <2>1, <2>2, <3>1 DEF Drawn
  <2>3. CASE r.op = "string"
    <3>1. r.arg \in 0 .. MAX_SIZE - 1
      BY <2>1, <2>3 DEF EchoRequests
    <3>2. Text(r.arg) \in Seq(Chars)
      BY <1>2, <3>1, TextIs
    <3>3. screen' = screen \o Text(r.arg)
      BY <2>1, <2>3 DEF Drawn
    <3> QED
      BY <1>2, <3>2, <3>3, ConcatProperties
  <2>4. CASE r.op \notin {"put", "string"}
    <3>1. screen' = IF screen = <<>> THEN <<>> ELSE Front(screen)
      BY <2>1, <2>4 DEF Drawn
    <3> QED
      BY <1>2, <3>1, FrontAndLast
  <2> QED
    BY <2>2, <2>3, <2>4
<1>5. Types'
  <2>1. \A i \in 1 .. Len(pending') :
          pending'[i].op \in {"put", "erase"} \/ pending'[i].arg \in 0 .. MAX_SIZE - 1
    <3>1. \A i \in 1 .. Len(pending') : pending'[i] \in EchoRequests
      BY <1>3, ItemIs
    <3> QED
      BY <3>1 DEF EchoRequests
  <2> QED
    BY <1>1, <1>3, <1>4, <2>1
    DEF IInv, Types, TypeOK, IdsAreTyped, Known, reader
<1>6. ServiceIsAlive' /\ FifoIsInOrder'
  BY <1>1, HandlerStays DEF IInv
<1>7. KeyIsAtTail'
  BY <1>1 DEF IInv, KeyIsAtTail, Empty, reader
<1>8. EchoIsBehind' /\ LineSoFar'
  BY <1>1, ReaderStays DEF IInv
<1> QED
  BY <1>5, <1>6, <1>7, <1>8 DEF IInv

-----------------------------------------------------------------------------
(***************************************************************************)
(* The steps of readInput.                                                 *)
(***************************************************************************)
\* Testing the ring, halting and taking a character leave the line alone.
LEMMA MoveKeeps ==
  ASSUME IInv, WaitForKey \/ HLT \/ TakeKey
  PROVE  IInv'
<1>1. /\ UNCHANGED <<typed, controller, handler, key_queue, kq_head, kq_tail, n,
                     echoed_n, done, out_buffer, taken, consumed, pending, screen>>
      /\ pc # "edit" /\ pc' # "edit" /\ pc' \in PCs /\ halted' \in BOOLEAN
      /\ pc' \notin {"finish", "newline", "send"}
      /\ pc' \in {"wait", "hlt"} => pc \in {"wait", "hlt"}
      /\ pc' = "advance" => ~Empty /\ key' = key_queue[kq_tail]
      /\ key' \in {key, key_queue[kq_tail]}
  BY DEF WaitForKey, HLT, TakeKey, ring, display, PCs, IInv, Types, TypeOK
<1>2. Types'
  <2>1. kq_tail \in 0 .. KEYQ_SIZE - 1 /\ key' \in Known /\ key' \in Ids
    BY <1>1, TypesStay DEF IInv, Types, TypeOK, IdsAreTyped
  <2> QED
    BY <1>1, <2>1
    DEF IInv, Types, TypeOK, IdsAreTyped, Known, controller, handler
<1>3. ServiceIsAlive' /\ FifoIsInOrder'
  BY <1>1, HandlerStays DEF IInv
<1>4. KeyIsAtTail'
  BY <1>1 DEF KeyIsAtTail, Empty
<1>5. EchoIsBehind'
  BY <1>1 DEF IInv, EchoIsBehind, EchoIsComplete
<1>6. LineSoFar'
  BY <1>1, LineNow, LineNext DEF IInv
<1> QED
  BY <1>2, <1>3, <1>4, <1>5, <1>6 DEF IInv

\* A line begins empty.
LEMMA readInputKeeps ==
  ASSUME IInv, readInput
  PROVE  IInv'
<1>1. /\ out_buffer' = [out_buffer EXCEPT ![0] = "NUL"]
      /\ n' = 0 /\ echoed_n' = 0 /\ done' = FALSE /\ consumed' = <<>> /\ screen' = <<>>
      /\ pc' = "wait"
      /\ UNCHANGED <<typed, controller, handler, key_queue, kq_head, kq_tail, key,
                     taken, halted, pending>>
  BY DEF readInput, ring
<1>2. Types /\ out_buffer \in Buffers /\ "NUL" \in Chars
  BY DEF IInv, Types, TypeOK, Buffers, Chars, Control
<1>3. out_buffer' \in Buffers
  BY <1>1, <1>2 DEF Buffers
<1>4. Types'
  <2>1. 0 \in 0 .. MAX_SIZE - 1 /\ pc' \in PCs
    BY <1>1, SizesAre DEF PCs
  <2>2. consumed' \in Seq(Known) /\ screen' \in Seq(Chars)
    BY <1>1, EmptySeq
  <2> QED
    BY <1>1, <1>2, <1>3, <2>1, <2>2, ReaderTypes DEF Types, TypeOK, IdsAreTyped
<1>5. ServiceIsAlive' /\ FifoIsInOrder'
  BY <1>1, HandlerStays DEF IInv
<1>6. KeyIsAtTail' /\ EchoIsBehind'
  BY <1>1 DEF KeyIsAtTail, EchoIsBehind, EchoIsComplete
<1>7. LineSoFar'
  <2>1. LineOf(out_buffer', 0) = <<>>
    BY <1>3, LineIs, SizesAre
  <2>2. EditedOf(typed', <<>>) = <<>>
    BY EditedOfNone
  <2> QED
    BY <1>1, <2>1, <2>2, LineNext
<1> QED
  BY <1>4, <1>5, <1>6, <1>7 DEF IInv

\* The character in hand joins the ones taken and is edited next.
LEMMA AdvanceTailKeeps ==
  ASSUME IInv, AdvanceTail
  PROVE  IInv'
<1>1. /\ pc = "advance" /\ pc' = "edit"
      /\ kq_tail' = NextKey(kq_tail) /\ taken' = key
      /\ consumed' = Append(consumed, key)
      /\ UNCHANGED <<typed, controller, handler, key_queue, kq_head, key, n,
                     echoed_n, done, out_buffer, halted, pending, screen>>
  BY DEF AdvanceTail, display
<1>2. Types /\ key \in Known /\ consumed \in Seq(Known)
  BY DEF IInv, Types, IdsAreTyped
<1>3. /\ consumed' \in Seq(Known) /\ consumed' # <<>>
      /\ Front(consumed') = consumed /\ Last(consumed') = key
  BY <1>1, <1>2, FrontOfAppend
<1>4. Types'
  <2>1. kq_tail' \in 0 .. KEYQ_SIZE - 1 /\ pc' \in PCs
    BY <1>1, <1>2, SizesAre, SMTT(30) DEF Types, TypeOK, NextKey, PCs
  <2> QED
    BY <1>1, <1>2, <1>3, <2>1, ReaderTypes DEF Types, TypeOK, IdsAreTyped, Buffers
<1>5. ServiceIsAlive' /\ FifoIsInOrder'
  BY <1>1, HandlerStays DEF IInv
<1>6. KeyIsAtTail' /\ EchoIsBehind'
  BY <1>1 DEF KeyIsAtTail, IInv, EchoIsBehind, EchoIsComplete
<1>7. LineSoFar'
  BY <1>1, <1>3, LineNow, LineNext DEF IInv
<1> QED
  BY <1>4, <1>5, <1>6, <1>7 DEF IInv

\* What the line is once the character in hand has been edited.
LEMMA EditingDone ==
  ASSUME IInv, pc = "edit"
  PROVE  /\ key \in Known /\ consumed \in Seq(Known)
         /\ EditedOf(typed, consumed)
              = EditStepOf(typed, LineOf(out_buffer, n), key)
<1>1. /\ key \in Known /\ consumed \in Seq(Known)
      /\ consumed # <<>> /\ Last(consumed) = key
      /\ LineOf(out_buffer, n) = EditedOf(typed, Front(consumed))
  BY LineNow DEF IInv, Types, IdsAreTyped
<1>2. Front(consumed) \in Seq(Known) /\ consumed = Append(Front(consumed), key)
  BY <1>1, FrontAndLast
<1>3. EditedOf(typed, Append(Front(consumed), key))
        = EditStepOf(typed, EditedOf(typed, Front(consumed)), key)
  BY <1>1, <1>2, EditedOfMore
<1> QED
  BY <1>1, <1>2, <1>3

LEMMA EndLineKeeps ==
  ASSUME IInv, EndLine
  PROVE  IInv'
<1>1. /\ pc = "edit" /\ pc' = "echo" /\ done' = TRUE
      /\ Char(key) \in {"CR", "LF"}
      /\ \/ /\ Char(key_queue[kq_tail]) = "LF"
            /\ kq_tail' = NextKey(kq_tail) /\ taken' = key_queue[kq_tail]
            /\ consumed' = Append(consumed, key_queue[kq_tail])
         \/ UNCHANGED <<kq_tail, taken, consumed>>
      /\ UNCHANGED <<typed, controller, handler, key_queue, kq_head, key, n,
                     echoed_n, out_buffer, halted, pending, screen>>
  BY DEF EndLine, Editing, display
<1>2. /\ Types /\ kq_tail \in 0 .. KEYQ_SIZE - 1 /\ key_queue[kq_tail] \in Known
      /\ NextKey(kq_tail) \in 0 .. KEYQ_SIZE - 1
  <2>1. /\ Types /\ kq_tail \in 0 .. KEYQ_SIZE - 1
        /\ key_queue \in [0 .. KEYQ_SIZE - 1 -> Known]
    BY DEF IInv, Types, TypeOK, IdsAreTyped
  <2>2. NextKey(kq_tail) \in 0 .. KEYQ_SIZE - 1
    BY <2>1, SizesAre DEF NextKey
  <2> QED
    BY <2>1, <2>2
<1>3. /\ key \in Known /\ consumed \in Seq(Known)
      /\ EditedOf(typed, consumed) = EditStepOf(typed, LineOf(out_buffer, n), key)
  BY <1>1, EditingDone
<1>4. \A line, i : Char(i) \in {"CR", "LF"} => EditStepOf(typed, line, i) = line
  BY DEF EditStepOf, CharOf, Char, Control
<1>5. EditedOf(typed, consumed) = LineOf(out_buffer, n)
  BY <1>1, <1>3, <1>4
<1>6. consumed' \in Seq(Known) /\ EditedOf(typed, consumed') = LineOf(out_buffer, n)
  <2>1. CASE UNCHANGED consumed
    BY <1>3, <1>5, <2>1
  <2>2. CASE /\ Char(key_queue[kq_tail]) = "LF"
             /\ consumed' = Append(consumed, key_queue[kq_tail])
    BY <1>2, <1>3, <1>4, <1>5, <2>2, EditedOfMore, AppendProperties
  <2> QED
    BY <1>1, <2>1, <2>2
<1>7. Types'
  <2>1. pc' \in PCs /\ done' \in BOOLEAN /\ taken' \in Known
        /\ kq_tail' \in 0 .. KEYQ_SIZE - 1
    BY <1>1, <1>2 DEF PCs, Types, IdsAreTyped
  <2> QED
    BY <1>1, <1>2, <1>3, <1>6, <2>1, ReaderTypes DEF Types, TypeOK, IdsAreTyped, Buffers
<1>8. ServiceIsAlive' /\ FifoIsInOrder'
  BY <1>1, HandlerStays DEF IInv
<1>9. KeyIsAtTail' /\ EchoIsBehind'
  BY <1>1 DEF KeyIsAtTail, IInv, EchoIsBehind, EchoIsComplete
<1>10. LineSoFar'
  BY <1>1, <1>6, LineNext
<1> QED
  BY <1>7, <1>8, <1>9, <1>10 DEF IInv

LEMMA EraseKeeps ==
  ASSUME IInv, Erase
  PROVE  IInv'
<1>1. /\ pc = "edit" /\ pc' = "inner" /\ Char(key) = "BS"
      /\ n' = IF n > 0 THEN n - 1 ELSE n
      /\ \/ /\ echoed_n > n' /\ echoed_n' = n'
            /\ pending' = <<[op |-> "erase", arg |-> 0]>>
         \/ echoed_n <= n' /\ UNCHANGED <<echoed_n, pending>>
      /\ UNCHANGED <<typed, controller, handler, key_queue, kq_head, kq_tail, key,
                     done, out_buffer, taken, consumed, halted, screen>>
  BY DEF Erase, Editing, Direct, ring
<1>2. /\ Types /\ n \in 0 .. MAX_SIZE - 1 /\ echoed_n \in 0 .. MAX_SIZE - 1
      /\ out_buffer \in Buffers /\ pending \in Seq(EchoRequests)
  BY DEF IInv, Types, TypeOK, Buffers
<1>3. n' \in 0 .. MAX_SIZE - 1 /\ echoed_n' \in 0 .. MAX_SIZE - 1 /\ echoed_n' <= n'
  BY <1>1, <1>2, SizesAre
<1>4. pending' \in Seq(EchoRequests)
  <2>1. [op |-> "erase", arg |-> 0] \in EchoRequests
    BY DEF EchoRequests
  <2> QED
    BY <1>1, <1>2, <2>1
<1>5. Types'
  <2>1. pc' \in PCs
    BY <1>1 DEF PCs
  <2> QED
    BY <1>1, <1>2, <1>3, <1>4, <2>1, ReaderTypes DEF Types, TypeOK, IdsAreTyped
<1>6. ServiceIsAlive' /\ FifoIsInOrder'
  BY <1>1, HandlerStays DEF IInv
<1>7. KeyIsAtTail' /\ EchoIsBehind'
  BY <1>1, <1>3 DEF KeyIsAtTail, EchoIsBehind, EchoIsComplete
<1>8. LineOf(out_buffer, n') = EditedOf(typed, consumed)
  <2>1. EditedOf(typed, consumed) = EditStepOf(typed, LineOf(out_buffer, n), key)
    BY <1>1, EditingDone
  <2>2. CharOf(typed, key) = "BS"
    BY <1>1 DEF Char, CharOf
  <2>3. n \in 0 .. MAX_SIZE /\ (n = 0 \/ n \in 1 .. MAX_SIZE - 1)
    BY <1>2, SizesAre
  <2>4. LineOf(out_buffer, n) = <<>> <=> n = 0
    BY <1>2, <2>3, LineIs
  <2>5. CASE n = 0
    BY <1>1, <2>1, <2>2, <2>4, <2>5 DEF EditStepOf
  <2>6. CASE n \in 1 .. MAX_SIZE - 1
    <3>1. n' = n - 1 /\ n # 0
      BY <1>1, <2>6
    <3>2. LineOf(out_buffer, n - 1) = Front(LineOf(out_buffer, n))
      BY <1>2, <2>6, LineIsErased
    <3> QED
      BY <2>1, <2>2, <2>4, <3>1, <3>2 DEF EditStepOf
  <2> QED
    BY <2>3, <2>5, <2>6
<1>9. LineSoFar'
  BY <1>1, <1>8, LineNext
<1> QED
  BY <1>5, <1>6, <1>7, <1>9 DEF IInv

LEMMA InsertKeeps ==
  ASSUME IInv, Insert
  PROVE  IInv'
<1>1. /\ pc = "edit" /\ pc' = "inner" /\ Char(key) \in Keys \ Control
      /\ \/ /\ n < MAX_SIZE - 1 /\ n' = n + 1
            /\ out_buffer' = [out_buffer EXCEPT ![n] = Char(key)]
         \/ n >= MAX_SIZE - 1 /\ UNCHANGED <<out_buffer, n>>
      /\ UNCHANGED <<typed, controller, handler, key_queue, kq_head, kq_tail, key,
                     echoed_n, done, taken, consumed, halted, pending, screen>>
  BY DEF Insert, Editing, ring, display
<1>2. /\ Types /\ n \in 0 .. MAX_SIZE - 1 /\ echoed_n \in 0 .. MAX_SIZE - 1
      /\ out_buffer \in Buffers /\ Char(key) \in Chars /\ echoed_n <= n
  BY <1>1 DEF IInv, Types, TypeOK, Buffers, EchoIsBehind, Chars
<1>3. /\ LineOf(out_buffer, n) \in Seq(Chars) /\ Len(LineOf(out_buffer, n)) = n
      /\ n \in 0 .. MAX_SIZE
  <2>1. n \in 0 .. MAX_SIZE
    BY <1>2, SizesAre
  <2> QED
    BY <1>2, <2>1, LineIs
<1>4. EditedOf(typed, consumed)
        = IF n >= MAX_SIZE - 1 THEN LineOf(out_buffer, n)
          ELSE Append(LineOf(out_buffer, n), Char(key))
  <2>1. EditedOf(typed, consumed) = EditStepOf(typed, LineOf(out_buffer, n), key)
    BY <1>1, EditingDone
  <2>2. CharOf(typed, key) = Char(key) /\ Char(key) # "BS" /\ Char(key) \notin Control
    BY <1>1 DEF Char, CharOf, Control
  <2> QED
    BY <1>3, <2>1, <2>2 DEF EditStepOf
<1>5. /\ n' \in 0 .. MAX_SIZE - 1 /\ echoed_n <= n' /\ out_buffer' \in Buffers
      /\ LineOf(out_buffer', n') = EditedOf(typed, consumed)
  <2>1. CASE n < MAX_SIZE - 1
    <3>1. n \in n .. MAX_SIZE - 1 /\ ~ (n >= MAX_SIZE - 1)
      BY <1>2, <2>1, SizesAre
    <3>2. n' = n + 1 /\ out_buffer' = [out_buffer EXCEPT ![n] = Char(key)]
      BY <1>1, <3>1
    <3>3. /\ out_buffer' \in Buffers
          /\ LineOf(out_buffer', n + 1) = Append(LineOf(out_buffer, n), Char(key))
      BY <1>2, <3>1, <3>2, LineIsWritten
    <3>4. n' \in 0 .. MAX_SIZE - 1 /\ echoed_n <= n'
      BY <1>2, <2>1, <3>2, SizesAre
    <3> QED
      BY <1>4, <3>1, <3>2, <3>3, <3>4
  <2>2. CASE ~ (n < MAX_SIZE - 1)
    <3>1. n >= MAX_SIZE - 1
      BY <1>2, <2>2, SizesAre
    <3>2. UNCHANGED <<out_buffer, n>>
      BY <1>1, <2>2
    <3> QED
      BY <1>2, <1>4, <3>1, <3>2
  <2> QED
    BY <2>1, <2>2
<1>6. Types'
  <2>1. pc' \in PCs
    BY <1>1 DEF PCs
  <2> QED
    BY <1>1, <1>2, <1>5, <2>1, ReaderTypes DEF Types, TypeOK, IdsAreTyped
<1>7. ServiceIsAlive' /\ FifoIsInOrder'
  BY <1>1, HandlerStays DEF IInv
<1>8. KeyIsAtTail' /\ EchoIsBehind'
  BY <1>1, <1>5 DEF KeyIsAtTail, EchoIsBehind, EchoIsComplete
<1>9. LineSoFar'
  BY <1>1, <1>5, LineNext
<1> QED
  BY <1>6, <1>7, <1>8, <1>9 DEF IInv

LEMMA IgnoreKeeps ==
  ASSUME IInv, Ignore
  PROVE  IInv'
<1>1. /\ pc = "edit" /\ pc' = "inner" /\ Char(key) = "NUL"
      /\ UNCHANGED <<typed, controller, handler, key_queue, kq_head, kq_tail, key, n,
                     echoed_n, done, out_buffer, taken, consumed, halted, pending,
                     screen>>
  BY DEF Ignore, Editing, ring, display
<1>2. Types'
  <2>1. pc' \in PCs
    BY <1>1 DEF PCs
  <2> QED
    BY <1>1, <2>1, ReaderTypes DEF IInv, Types, TypeOK, IdsAreTyped, Buffers
<1>3. ServiceIsAlive' /\ FifoIsInOrder'
  BY <1>1, HandlerStays DEF IInv
<1>4. KeyIsAtTail' /\ EchoIsBehind'
  BY <1>1 DEF KeyIsAtTail, IInv, EchoIsBehind, EchoIsComplete
<1>5. LineSoFar'
  <2>1. EditedOf(typed, consumed) = EditStepOf(typed, LineOf(out_buffer, n), key)
    BY <1>1, EditingDone
  <2>2. EditStepOf(typed, LineOf(out_buffer, n), key) = LineOf(out_buffer, n)
    BY <1>1 DEF EditStepOf, CharOf, Char, Control
  <2> QED
    BY <1>1, <2>1, <2>2, LineNext
<1> QED
  BY <1>2, <1>3, <1>4, <1>5 DEF IInv

\* The terminator is written behind the line.
LEMMA TerminateKeeps ==
  ASSUME IInv, Terminate \/ FinishLine
  PROVE  IInv'
<1>1. /\ pc # "edit" /\ pc' \in {"send", "finish", "wait", "newline"}
      /\ out_buffer' = [out_buffer EXCEPT ![n] = "NUL"] \/ UNCHANGED out_buffer
      /\ UNCHANGED <<typed, controller, handler, key_queue, kq_head, kq_tail, key, n,
                     echoed_n, done, taken, consumed, halted, pending, screen>>
  BY DEF Terminate, FinishLine, ring, display
<1>2. /\ pc' = "send" => n > echoed_n
      /\ pc' \in {"finish", "wait"} => n <= echoed_n
      /\ pc' = "newline" => pc = "finish"
  BY DEF Terminate, FinishLine
<1>3. /\ Types /\ n \in 0 .. MAX_SIZE - 1 /\ echoed_n \in 0 .. MAX_SIZE - 1
      /\ out_buffer \in Buffers /\ "NUL" \in Chars
  BY DEF IInv, Types, TypeOK, Buffers, Chars, Control
<1>4. out_buffer' \in Buffers /\ LineOf(out_buffer', n) = LineOf(out_buffer, n)
  <2>1. n \in n .. MAX_SIZE - 1
    BY <1>3, SizesAre
  <2>2. /\ [out_buffer EXCEPT ![n] = "NUL"] \in Buffers
        /\ LineOf([out_buffer EXCEPT ![n] = "NUL"], n) = LineOf(out_buffer, n)
    BY <1>3, <2>1, LineIsWritten
  <2> QED
    BY <1>1, <1>3, <2>2
<1>5. Types'
  <2>1. pc' \in PCs
    BY <1>1 DEF PCs
  <2> QED
    BY <1>1, <1>3, <1>4, <2>1, ReaderTypes DEF Types, TypeOK, IdsAreTyped
<1>6. ServiceIsAlive' /\ FifoIsInOrder'
  BY <1>1, HandlerStays DEF IInv
<1>7. KeyIsAtTail' /\ pc' # "edit"
  BY <1>1 DEF KeyIsAtTail
<1>8. EchoIsBehind'
  <2>1. echoed_n <= n
    BY DEF IInv, EchoIsBehind
  <2>2. pc' \in {"finish", "wait"} => echoed_n = n
    BY <1>2, <1>3, <2>1
  <2>3. pc' = "newline" => echoed_n = n
    BY <1>2 DEF IInv, EchoIsBehind, EchoIsComplete
  <2>4. pc' = "send" => echoed_n < n
    BY <1>2, <1>3
  <2> QED
    BY <1>1, <2>1, <2>2, <2>3, <2>4 DEF EchoIsBehind, EchoIsComplete
<1>9. LineSoFar'
  BY <1>1, <1>4, <1>7, LineNow, LineNext DEF IInv
<1> QED
  BY <1>5, <1>6, <1>7, <1>8, <1>9 DEF IInv

\* All that was not sent yet is sent at once, or the line feed behind it.
LEMMA SendKeeps ==
  ASSUME IInv, Echo \/ NewLine
  PROVE  IInv'
<1>1. /\ pc \in {"send", "newline"} /\ pc' \in {"finish", "wait", "idle"}
      /\ pc' # "idle" => echoed_n' = n
      /\ echoed_n' \in {n, echoed_n}
      /\ UNCHANGED <<typed, controller, handler, key_queue, kq_head, kq_tail, key, n,
                     done, out_buffer, taken, consumed, halted, screen>>
  BY DEF Echo, NewLine, ring
<1>2. /\ Types /\ n \in 0 .. MAX_SIZE - 1 /\ echoed_n \in 0 .. MAX_SIZE - 1
      /\ echoed_n <= n
      /\ out_buffer \in Buffers /\ pending \in Seq(EchoRequests)
  BY DEF IInv, Types, TypeOK, Buffers, EchoIsBehind
<1>3. pending' \in Seq(EchoRequests)
  <2>1. \/ pending' = <<[op |-> "put", arg |-> out_buffer[echoed_n]]>>
        \/ pending' = Append(pending, [op |-> "string", arg |-> echoed_n])
        \/ pending' = <<[op |-> "put", arg |-> "LF"]>>
    BY DEF Echo, NewLine, Direct
  <2>2. /\ [op |-> "put", arg |-> out_buffer[echoed_n]] \in EchoRequests
        /\ [op |-> "string", arg |-> echoed_n] \in EchoRequests
        /\ [op |-> "put", arg |-> "LF"] \in EchoRequests
    <3>1. out_buffer[echoed_n] \in Chars /\ "LF" \in Chars
      BY <1>2 DEF Buffers, Chars, Control
    <3> QED
      BY <1>2, <3>1 DEF EchoRequests
  <2>3. \A r \in EchoRequests :
          <<r>> \in Seq(EchoRequests) /\ Append(pending, r) \in Seq(EchoRequests)
    BY <1>2, AppendProperties
  <2> QED
    BY <2>1, <2>2, <2>3
<1>4. Types'
  <2>1. pc' \in PCs /\ echoed_n' \in 0 .. MAX_SIZE - 1
    BY <1>1, <1>2 DEF PCs
  <2> QED
    BY <1>1, <1>2, <1>3, <2>1, ReaderTypes DEF Types, TypeOK, IdsAreTyped
<1>5. ServiceIsAlive' /\ FifoIsInOrder'
  BY <1>1, HandlerStays DEF IInv
<1>6. KeyIsAtTail'
  BY <1>1 DEF KeyIsAtTail
<1>7. EchoIsBehind'
  BY <1>1, <1>2 DEF EchoIsBehind, EchoIsComplete
<1>8. LineSoFar'
  BY <1>1, LineNow, LineNext DEF IInv
<1> QED
  BY <1>4, <1>5, <1>6, <1>7, <1>8 DEF IInv

-----------------------------------------------------------------------------
(***************************************************************************)
(* The invariant.                                                          *)
(***************************************************************************)
LEMMA InitEstablishes == Init => IInv
<1> SUFFICES ASSUME Init PROVE IInv
  OBVIOUS
<1>1. /\ typed = <<>> /\ fifo = <<>> /\ service = FALSE /\ irq = FALSE
      /\ lost = FALSE /\ spurious = 0
      /\ key_queue = [i \in 0 .. KEYQ_SIZE - 1 |-> 0]
      /\ kq_head = 0 /\ kq_tail = 0
      /\ hpc = "none" /\ data = 0 /\ newest = 0
      /\ pc = "idle" /\ key = 0 /\ n = 0 /\ echoed_n = 0 /\ done = FALSE
      /\ out_buffer = [i \in 0 .. MAX_SIZE - 1 |-> "NUL"]
      /\ taken = 0 /\ consumed = <<>> /\ halted = FALSE
      /\ pending = <<>> /\ screen = <<>>
  BY DEF Init
<1>2. \A S : <<>> \in Seq(S) /\ Len(<<>>) = 0
  BY EmptySeq
<1>3. /\ 0 \in Ids /\ 0 \in Known /\ 0 \in 0 .. KEYQ_SIZE - 1
      /\ 0 \in 0 .. MAX_SIZE - 1 /\ "NUL" \in Chars
      /\ 0 <= MaxKeys
  BY <1>1, <1>2, SizesAre DEF Ids, Known, Chars, Control
<1>4. Types
  <2>1. TypeOK
    <3>1. /\ typed \in Seq(Keys) /\ fifo \in Seq(Ids) /\ consumed \in Seq(Ids)
          /\ screen \in Seq(Chars) /\ Len(pending) = 0
      BY <1>1, <1>2
    <3>2. \A i \in 1 .. Len(pending) : FALSE
      BY <3>1
    <3>3. /\ key_queue \in [0 .. KEYQ_SIZE - 1 -> Ids]
          /\ out_buffer \in [0 .. MAX_SIZE - 1 -> Chars]
      BY <1>1, <1>3
    <3>4. pc \in PCs
      BY <1>1 DEF PCs
    <3>5. spurious \in 0 .. MaxKeys
      BY <1>1, SizesAre
    <3> QED
      BY <1>1, <1>3, <3>1, <3>2, <3>3, <3>4, <3>5 DEF TypeOK
  <2>2. IdsAreTyped
    BY <1>1, <1>2, <1>3 DEF IdsAreTyped
  <2> QED
    BY <1>1, <1>2, <2>1, <2>2 DEF Types
<1>5. ServiceIsAlive /\ FifoIsInOrder /\ KeyIsAtTail /\ EchoIsBehind
  BY <1>1, <1>2 DEF ServiceIsAlive, FifoIsInOrder, KeyIsAtTail, EchoIsBehind,
                    EchoIsComplete
<1>6. LineSoFar
  <2>1. out_buffer \in Buffers /\ 0 \in 0 .. MAX_SIZE
    BY <1>1, <1>3, SizesAre DEF Buffers
  <2>2. LineOf(out_buffer, 0) = <<>>
    BY <2>1, LineIs
  <2>3. EditedOf(typed, <<>>) = <<>>
    BY EditedOfNone
  <2> QED
    BY <1>1, <2>2, <2>3, LineNow
<1> QED
  BY <1>4, <1>5, <1>6 DEF IInv

LEMMA StepKeeps ==
  ASSUME IInv, [Next]_vars
  PROVE  IInv'
<1>1. CASE \E c \in Keys : KeyPress(c)
  BY <1>1, KeyPressKeeps
<1>2. CASE TakeIrq \/ LoseIrq \/ SpuriousRun
  BY <1>2, TakeIrqKeeps, LoseIrqKeeps
<1>3. CASE keyboard_IRQHandler
  BY <1>3, ReadDataKeeps, AcknowledgeKeeps, StoreKeyKeeps DEF keyboard_IRQHandler
<1>4. CASE readInput
  BY <1>4, readInputKeeps
<1>5. CASE Reader
  BY <1>5, MoveKeeps, AdvanceTailKeeps, EndLineKeeps, EraseKeeps, InsertKeeps,
     IgnoreKeeps, TerminateKeeps, SendKeeps DEF Reader
<1>6. CASE initKeyboard
  BY <1>6, initKeyboardKeeps
<1>7. CASE Show
  BY <1>7, ShowKeeps
<1>8. CASE UNCHANGED vars
  <2>1. /\ UNCHANGED <<typed, controller, handler, key_queue, kq_head, kq_tail,
                       reader, halted, pending, screen>>
    BY <1>8 DEF vars, ring, display
  <2>2. Types'
    BY <2>1 DEF IInv, Types, TypeOK, IdsAreTyped, Known, controller, handler, reader
  <2>3. KeyIsAtTail'
    BY <2>1 DEF IInv, KeyIsAtTail, Empty, reader
  <2>4. ServiceIsAlive' /\ FifoIsInOrder' /\ EchoIsBehind' /\ LineSoFar'
    BY <2>1, HandlerStays, ReaderStays DEF IInv
  <2> QED
    BY <2>2, <2>3, <2>4 DEF IInv
<1> QED
  BY <1>1, <1>2, <1>3, <1>4, <1>5, <1>6, <1>7, <1>8 DEF Next

LEMMA Inductive == Spec => []IInv
<1>1. IInv /\ [Next]_vars => IInv'
  BY StepKeeps
<1> QED
  BY InitEstablishes, <1>1, PTL DEF Spec

\* The variables keep their types and the indices stay inside their arrays
\* (keyboard.c:35-39, 77-126).
THEOREM TypesAreKept == Spec => []TypeOK
<1>1. IInv => TypeOK
  BY DEF IInv, Types
<1> QED
  BY <1>1, Inductive, PTL

\* The keyboard never falls silent: a character in the controller always has an
\* interrupt on its way or a handler that will acknowledge (keyboard.c:29-32,
\* 57).
THEOREM ServiceIsAlwaysAlive == Spec => []ServiceIsAlive
<1>1. IInv => ServiceIsAlive
  BY DEF IInv
<1> QED
  BY <1>1, Inductive, PTL

\* However the user, the handler and the terminal interleave with the reader,
\* the line in the caller's buffer is what editing the characters taken gives
\* (keyboard.c:94-119).
THEOREM LineIsAlwaysEdited == Spec => []LineIsEdited
<1>1. IInv => LineIsEdited
  BY DEF IInv, LineSoFar, LineIsEdited
<1> QED
  BY <1>1, Inductive, PTL

\* Whenever the reader waits or has finished, exactly the line has been sent for
\* echo (keyboard.c:106-112, 120-124).
THEOREM EchoIsAlwaysComplete == Spec => []EchoIsComplete
<1>1. IInv => EchoIsComplete
  BY DEF IInv, EchoIsBehind
<1> QED
  BY <1>1, Inductive, PTL

-----------------------------------------------------------------------------
(***************************************************************************)
(* The ring implements KeyBuffer.  What waits is a function of the ring    *)
(* and its two ends, so one lemma serves the state before a step and the   *)
(* state after it.                                                         *)
(***************************************************************************)
Slots == 0 .. KEYQ_SIZE - 1
Rings == [Slots -> Ids]
Filled(tail, head) == (head - tail) % KEYQ_SIZE
Slice(queue, first, m) == [k \in 1 .. m |-> queue[(first + k - 1) % KEYQ_SIZE]]
PlaceFrom(first, k) == IF first + k < KEYQ_SIZE THEN first + k ELSE first + k - KEYQ_SIZE

LEMMA NextKeyIs ==
  ASSUME NEW i \in Slots
  PROVE  /\ NextKey(i) \in Slots
         /\ NextKey(i) = IF i = KEYQ_SIZE - 1 THEN 0 ELSE i + 1
BY RingAssumption DEF Slots, NextKey

LEMMA FilledIs ==
  ASSUME NEW tail \in Slots, NEW head \in Slots
  PROVE  Filled(tail, head) = IF head >= tail THEN head - tail
                                              ELSE head - tail + KEYQ_SIZE
BY RingAssumption DEF Slots, Filled

\* How many wait, when one is stored and when one is taken.
LEMMA FilledMoves ==
  ASSUME NEW tail \in Slots, NEW head \in Slots
  PROVE  LET m == Filled(tail, head) IN
         /\ m \in Slots
         /\ m = 0 <=> head = tail
         /\ m = KEYQ_SIZE - 1 <=> NextKey(head) = tail
         /\ NextKey(head) # tail => /\ Filled(tail, NextKey(head)) = m + 1
                                    /\ PlaceFrom(tail, m) = head
         /\ head # tail => Filled(NextKey(tail), head) = m - 1
<1> DEFINE m == Filled(tail, head)
           headN == NextKey(head)
           tailN == NextKey(tail)
<1>1. /\ m = IF head >= tail THEN head - tail ELSE head - tail + KEYQ_SIZE
      /\ headN \in Slots /\ headN = IF head = KEYQ_SIZE - 1 THEN 0 ELSE head + 1
      /\ tailN \in Slots /\ tailN = IF tail = KEYQ_SIZE - 1 THEN 0 ELSE tail + 1
  BY FilledIs, NextKeyIs
<1>2. /\ Filled(tail, headN)
           = IF headN >= tail THEN headN - tail ELSE headN - tail + KEYQ_SIZE
      /\ Filled(tailN, head)
           = IF head >= tailN THEN head - tailN ELSE head - tailN + KEYQ_SIZE
  BY <1>1, FilledIs
<1> HIDE DEF m, headN, tailN
<1>3. m \in Slots /\ (m = 0 <=> head = tail)
  BY <1>1, SizesAre DEF Slots
<1>4. m = KEYQ_SIZE - 1 <=> headN = tail
  BY <1>1, SizesAre DEF Slots
<1>5. headN # tail => Filled(tail, headN) = m + 1
  BY <1>1, <1>2, SizesAre DEF Slots
<1>6. headN # tail => PlaceFrom(tail, m) = head
  BY <1>1, SizesAre DEF Slots, PlaceFrom
<1>7. head # tail => Filled(tailN, head) = m - 1
  BY <1>1, <1>2, SizesAre DEF Slots
<1> QED
  BY <1>3, <1>4, <1>5, <1>6, <1>7 DEF m, headN, tailN

\* What a stretch of the ring holds.
LEMMA SliceIs ==
  ASSUME NEW queue \in Rings, NEW first \in Slots, NEW m \in Slots
  PROVE  /\ Slice(queue, first, m) \in Seq(Ids)
         /\ Len(Slice(queue, first, m)) = m
         /\ \A k \in 1 .. m :
              /\ PlaceFrom(first, k - 1) \in Slots
              /\ Slice(queue, first, m)[k] = queue[PlaceFrom(first, k - 1)]
<1>1. ASSUME NEW k \in 1 .. m
      PROVE  /\ PlaceFrom(first, k - 1) \in Slots
             /\ (first + k - 1) % KEYQ_SIZE = PlaceFrom(first, k - 1)
             /\ queue[(first + k - 1) % KEYQ_SIZE] \in Ids
  <2>1. PlaceFrom(first, k - 1) \in Slots
    BY SizesAre DEF PlaceFrom, Slots
  <2>2. (first + k - 1) % KEYQ_SIZE = PlaceFrom(first, k - 1)
    BY RingAssumption DEF PlaceFrom, Slots
  <2> QED
    BY <2>1, <2>2 DEF Rings
<1>2. m \in Nat
  BY SizesAre DEF Slots
<1> QED
  BY <1>1, <1>2 DEF Slice

\* A character stored behind the last one lengthens the stretch by it.
LEMMA SliceGrows ==
  ASSUME NEW queue \in Rings, NEW first \in Slots, NEW m \in Slots,
         m # KEYQ_SIZE - 1, NEW x \in Ids
  PROVE  Slice([queue EXCEPT ![PlaceFrom(first, m)] = x], first, m + 1)
           = Append(Slice(queue, first, m), x)
<1> DEFINE longer == [queue EXCEPT ![PlaceFrom(first, m)] = x]
           before == Slice(queue, first, m)
           after == Slice(longer, first, m + 1)
<1>1. longer \in Rings /\ m + 1 \in Slots /\ m \in Nat
  <2>1. longer \in Rings
    BY DEF Rings
  <2>2. m + 1 \in Slots /\ m \in Nat
    BY SizesAre DEF Slots
  <2> QED
    BY <2>1, <2>2
<1>2. /\ before \in Seq(Ids) /\ Len(before) = m
      /\ \A k \in 1 .. m : before[k] = queue[PlaceFrom(first, k - 1)]
      /\ after \in Seq(Ids) /\ Len(after) = m + 1
      /\ \A k \in 1 .. m + 1 : after[k] = longer[PlaceFrom(first, k - 1)]
  <2>1. /\ before \in Seq(Ids) /\ Len(before) = m
        /\ \A k \in 1 .. m : before[k] = queue[PlaceFrom(first, k - 1)]
    BY SliceIs
  <2> HIDE DEF longer
  <2>2. /\ after \in Seq(Ids) /\ Len(after) = m + 1
        /\ \A k \in 1 .. m + 1 : after[k] = longer[PlaceFrom(first, k - 1)]
    BY <1>1, SliceIs
  <2> QED
    BY <2>1, <2>2
<1>3. \A k \in 1 .. m + 1 :
        /\ PlaceFrom(first, k - 1) \in Slots
        /\ PlaceFrom(first, k - 1) = PlaceFrom(first, m) <=> k = m + 1
  BY SizesAre DEF PlaceFrom, Slots
<1>4. ASSUME NEW k \in 1 .. m + 1
      PROVE  after[k] = Append(before, x)[k]
  <2>1. after[k] = longer[PlaceFrom(first, k - 1)]
    BY <1>2
  <2>2. CASE k = m + 1
    <3>1. Append(before, x)[k] = x
      BY <1>2, <2>2, AppendProperties
    <3> QED
      BY <1>3, <2>1, <2>2, <3>1 DEF Rings
  <2>3. CASE k # m + 1
    <3>1. k \in 1 .. m
      BY <1>1, <2>3
    <3>2. Append(before, x)[k] = before[k]
      BY <1>2, <3>1, AppendProperties
    <3> QED
      BY <1>2, <1>3, <2>1, <2>3, <3>1, <3>2 DEF Rings
  <2> QED
    BY <2>2, <2>3
<1>5. Append(before, x) \in Seq(Ids) /\ Len(Append(before, x)) = m + 1
  BY <1>2, AppendProperties
<1> HIDE DEF before, after
<1>6. after = Append(before, x)
  BY <1>2, <1>4, <1>5, SeqEqual
<1> QED
  BY <1>6 DEF before, after

\* Without its first character the stretch begins one slot later.
LEMMA SliceShrinks ==
  ASSUME NEW queue \in Rings, NEW first \in Slots, NEW m \in Slots, m # 0
  PROVE  /\ Slice(queue, first, m) # <<>>
         /\ Slice(queue, NextKey(first), m - 1) = Tail(Slice(queue, first, m))
         /\ Head(Slice(queue, first, m)) = queue[first]
<1> DEFINE before == Slice(queue, first, m)
           after == Slice(queue, NextKey(first), m - 1)
<1>1. NextKey(first) \in Slots /\ m - 1 \in Slots /\ m \in Nat \ {0}
  BY NextKeyIs, SizesAre DEF Slots
<1>2. /\ before \in Seq(Ids) /\ Len(before) = m
      /\ \A k \in 1 .. m : before[k] = queue[PlaceFrom(first, k - 1)]
  BY SliceIs
<1>3. /\ after \in Seq(Ids) /\ Len(after) = m - 1
      /\ \A k \in 1 .. m - 1 : after[k] = queue[PlaceFrom(NextKey(first), k - 1)]
  <2> PICK p, next : p = m - 1 /\ next = NextKey(first)
    OBVIOUS
  <2>1. p \in Slots /\ next \in Slots
    BY <1>1
  <2>2. /\ Slice(queue, next, p) \in Seq(Ids) /\ Len(Slice(queue, next, p)) = p
        /\ \A k \in 1 .. p : Slice(queue, next, p)[k] = queue[PlaceFrom(next, k - 1)]
    BY <2>1, SliceIs
  <2> QED
    BY <2>2
<1>4. \A k \in 1 .. m - 1 : PlaceFrom(NextKey(first), k - 1) = PlaceFrom(first, k)
  BY NextKeyIs, SizesAre DEF PlaceFrom, Slots
<1>5. PlaceFrom(first, 0) = first
  BY SizesAre DEF PlaceFrom, Slots
<1>6. ASSUME NEW k \in 1 .. m - 1 PROVE after[k] = before[k + 1]
  <2>1. k + 1 \in 1 .. m /\ k + 1 - 1 = k
    BY <1>1
  <2>2. before[k + 1] = queue[PlaceFrom(first, k)]
    BY <1>2, <2>1
  <2>3. after[k] = queue[PlaceFrom(first, k)]
    BY <1>3, <1>4
  <2> QED
    BY <2>2, <2>3
<1>7. before[1] = queue[first]
  BY <1>1, <1>2, <1>5
<1> HIDE DEF before, after
<1>8. before # <<>>
  BY <1>1, <1>2, EmptySeq
<1>9. after = Tail(before)
  BY <1>1, <1>2, <1>3, <1>6, <1>8, HeadTailProperties, SeqEqual
<1> QED
  BY <1>2, <1>7, <1>8, <1>9 DEF before, after

LEMMA InRingIs ==
  /\ InRing = Slice(key_queue, kq_tail, Filled(kq_tail, kq_head))
  /\ InRing' = Slice(key_queue', kq_tail', Filled(kq_tail', kq_head'))
BY DEF InRing, Slice, Filled

\* What the invariant says of the ring.
LEMMA RingIs ==
  ASSUME IInv
  PROVE  /\ key_queue \in Rings /\ kq_tail \in Slots /\ kq_head \in Slots
         /\ data \in Ids /\ Filled(kq_tail, kq_head) \in Slots
         /\ InRing \in Seq(Ids) /\ Len(InRing) = Filled(kq_tail, kq_head)
<1>1. /\ key_queue \in Rings /\ kq_tail \in Slots /\ kq_head \in Slots
      /\ data \in Ids
  BY DEF IInv, Types, TypeOK, Rings, Slots
<1>2. Filled(kq_tail, kq_head) \in Slots
  BY <1>1, FilledMoves
<1> QED
  BY <1>1, <1>2, InRingIs, SliceIs

\* Storing a character is an arrival.
LEMMA StoreArrives ==
  ASSUME IInv, StoreKey
  PROVE  Buffer!Arrive(data) /\ data \in (1 .. MaxKeys) \cup {0}
<1> DEFINE m == Filled(kq_tail, kq_head)
<1>1. /\ key_queue \in Rings /\ kq_tail \in Slots /\ kq_head \in Slots
      /\ data \in Ids /\ m \in Slots /\ Len(InRing) = m
      /\ InRing = Slice(key_queue, kq_tail, m)
  BY RingIs, InRingIs
<1>2. /\ hpc = "store" /\ UNCHANGED <<kq_tail, taken>>
      /\ newest' = IF data = 0 THEN newest ELSE data
      /\ \/ /\ NextKey(kq_head) # kq_tail /\ kq_head' = NextKey(kq_head)
            /\ key_queue' = [key_queue EXCEPT ![kq_head] = data]
         \/ NextKey(kq_head) = kq_tail /\ UNCHANGED <<key_queue, kq_head>>
  BY DEF StoreKey, reader
<1>3. Buffer!Later(data)
  <2>1. data = 0 \/ data > newest
    BY <1>2 DEF IInv, FifoIsInOrder
  <2> QED
    BY <2>1 DEF Buffer!Later
<1>4. \/ m < KEYQ_SIZE - 1 /\ InRing' = Append(InRing, data)
      \/ m = KEYQ_SIZE - 1 /\ InRing' = InRing
  <2>1. CASE NextKey(kq_head) # kq_tail
    <3>1. /\ m # KEYQ_SIZE - 1 /\ Filled(kq_tail, NextKey(kq_head)) = m + 1
          /\ PlaceFrom(kq_tail, m) = kq_head
      BY <1>1, <2>1, FilledMoves
    <3>2. InRing' = Slice([key_queue EXCEPT ![kq_head] = data], kq_tail, m + 1)
      BY <1>2, <2>1, <3>1, InRingIs
    <3>3. InRing' = Append(InRing, data)
      <4>1. Slice([key_queue EXCEPT ![PlaceFrom(kq_tail, m)] = data], kq_tail, m + 1)
              = Append(Slice(key_queue, kq_tail, m), data)
        <5> HIDE DEF m
        <5> QED
          BY <1>1, <3>1, SliceGrows, ZenonT(30)
      <4> QED
        BY <1>1, <3>1, <3>2, <4>1
    <3>4. m < KEYQ_SIZE - 1
      <4> HIDE DEF m
      <4> QED
        BY <1>1, <3>1, SizesAre DEF Slots
    <3> QED
      BY <3>3, <3>4
  <2>2. CASE NextKey(kq_head) = kq_tail
    <3>1. m = KEYQ_SIZE - 1
      BY <1>1, <2>2, FilledMoves
    <3>2. UNCHANGED <<key_queue, kq_head, kq_tail>>
      BY <1>2, <2>2
    <3> QED
      BY <3>1, <3>2, InRingIs
  <2> QED
    BY <2>1, <2>2
<1> HIDE DEF m
<1>5. data \in (1 .. MaxKeys) \cup {0}
  BY <1>1, SizesAre DEF Ids
<1> QED
  BY <1>1, <1>2, <1>3, <1>4, <1>5 DEF Buffer!Arrive

\* Moving the tail takes the character at it.
LEMMA TailTakes ==
  ASSUME IInv, ~Empty, kq_tail' = NextKey(kq_tail), taken' = key_queue[kq_tail],
         UNCHANGED <<key_queue, kq_head, newest>>
  PROVE  Buffer!Take
<1> DEFINE m == Filled(kq_tail, kq_head)
<1>1. /\ key_queue \in Rings /\ kq_tail \in Slots /\ kq_head \in Slots
      /\ m \in Slots /\ InRing = Slice(key_queue, kq_tail, m)
  BY RingIs, InRingIs
<1>2. m # 0 /\ Filled(NextKey(kq_tail), kq_head) = m - 1
  BY <1>1, FilledMoves DEF Empty
<1> HIDE DEF m
<1>3. InRing' = Slice(key_queue, NextKey(kq_tail), m - 1)
  BY <1>2, InRingIs
<1>4. InRing # <<>> /\ InRing' = Tail(InRing) /\ Head(InRing) = key_queue[kq_tail]
  BY <1>1, <1>2, <1>3, SliceShrinks
<1> QED
  BY <1>4 DEF Buffer!Take

LEMMA StepImplements ==
  ASSUME IInv, [Next]_vars
  PROVE  [Buffer!Next]_(Buffer!vars)
<1> DEFINE Still == UNCHANGED <<key_queue, kq_head, kq_tail, newest, taken>>
<1>1. ASSUME Still PROVE UNCHANGED Buffer!vars
  <2>1. InRing' = InRing
    BY <1>1, InRingIs
  <2> QED
    BY <1>1, <2>1 DEF Buffer!vars
<1>2. CASE StoreKey
  BY <1>2, StoreArrives DEF Buffer!Next
<1>3. CASE AdvanceTail
  <2>1. /\ ~Empty /\ kq_tail' = NextKey(kq_tail) /\ taken' = key_queue[kq_tail]
        /\ UNCHANGED <<key_queue, kq_head, newest>>
    BY <1>3 DEF AdvanceTail, IInv, KeyIsAtTail, handler
  <2> QED
    BY <2>1, TailTakes DEF Buffer!Next
<1>4. CASE EndLine
  <2>1. /\ UNCHANGED <<key_queue, kq_head, newest>>
        /\ \/ ~Empty /\ kq_tail' = NextKey(kq_tail) /\ taken' = key_queue[kq_tail]
           \/ UNCHANGED <<kq_tail, taken>>
    BY <1>4 DEF EndLine, handler
  <2> QED
    BY <1>1, <2>1, TailTakes DEF Buffer!Next
<1>5. CASE \/ \E c \in Keys : KeyPress(c)
           \/ TakeIrq \/ LoseIrq \/ SpuriousRun \/ ReadData \/ Acknowledge
  BY <1>1, <1>5
  DEF KeyPress, TakeIrq, LoseIrq, SpuriousRun, ReadData, Acknowledge, ring, handler,
      reader
<1>6. CASE readInput \/ initKeyboard \/ Show
  BY <1>1, <1>6 DEF readInput, initKeyboard, Show, ring, handler, reader
<1>7. CASE WaitForKey \/ HLT \/ TakeKey
  BY <1>1, <1>7 DEF WaitForKey, HLT, TakeKey, ring, handler
<1>8. CASE Erase \/ Insert \/ Ignore
  BY <1>1, <1>8 DEF Erase, Insert, Ignore, ring, handler
<1>9. CASE Terminate \/ Echo \/ FinishLine \/ NewLine
  BY <1>1, <1>9 DEF Terminate, Echo, FinishLine, NewLine, ring, handler
<1>10. CASE UNCHANGED vars
  BY <1>1, <1>10 DEF vars, ring, handler, reader
<1> QED
  BY <1>2, <1>3, <1>4, <1>5, <1>6, <1>7, <1>8, <1>9, <1>10
  DEF Next, keyboard_IRQHandler, Reader

\* The ring is the bounded queue KeyBuffer promises, although reader and
\* interrupt handler move its two ends without a critical section: no character
\* is delivered twice, out of order or damaged (keyboard.c:35-39, 94-97,
\* 101-103).
THEOREM ImplementsBuffer == Spec => ImplementsKeyBuffer
<1>1. Init => Buffer!Init
  <2> SUFFICES ASSUME Init PROVE Buffer!Init
    OBVIOUS
  <2>1. kq_head = kq_tail /\ newest = 0 /\ taken = 0
    BY DEF Init
  <2>2. IInv
    BY InitEstablishes
  <2>3. InRing \in Seq(Ids) /\ Len(InRing) = 0
    BY <2>1, <2>2, RingIs, FilledMoves
  <2> QED
    BY <2>1, <2>3, EmptySeq DEF Buffer!Init
<1>2. IInv /\ [Next]_vars => [Buffer!Next]_(Buffer!vars)
  BY StepImplements
<1> QED
  BY <1>1, <1>2, Inductive, PTL DEF Spec, ImplementsKeyBuffer, Buffer!Spec

=============================================================================
