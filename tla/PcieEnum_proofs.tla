-------------------------- MODULE PcieEnum_proofs --------------------------
(***************************************************************************)
(* What the enumeration gives out, for every board, size of the table and  *)
(* number of resets: no address of the configuration space has two         *)
(* answers and no two windows overlap; and, if the table has an even       *)
(* number of entries, no window takes an address of RAM and every device   *)
(* stays reachable by the entry that its driver takes.                     *)
(*                                                                         *)
(* Every enumeration gives a port the same bus number and, unless the full *)
(* table cuts it short, the same window, so the registers of the time      *)
(* before agree with the ones given out: a port has either nothing, or a   *)
(* closed window, or the one that the board decides.                       *)
(***************************************************************************)
EXTENDS PcieEnum, TLAPS, SequenceTheorems, WellFoundedInduction

HIGH == 49152                      \* MIN_BAR_POS in units of a window

\* The room of what is behind a port, in units of an address and of a window.
Total(p) ==
  IF board[p] # Nothing /\ board[p].header = 0
  THEN BarRoom(board[p].bars[1]) + BarRoom(board[p].bars[2])
         + BarRoom(board[p].bars[3]) + BarRoom(board[p].bars[4])
  ELSE 0
Up(n) == (n + GRANULE - 1) \div GRANULE

\* Where the window of a port begins, and the end of the last for p = 4.
First(p) ==
  IF p = 1 THEN 0
  ELSE IF p = 2 THEN Up(Total(1))
  ELSE IF p = 3 THEN Up(Total(1)) + Up(Total(2))
  ELSE Up(Total(1)) + Up(Total(2)) + Up(Total(3))
NextPort(d) == IF d <= 1 THEN 1 ELSE IF d = 2 THEN 2 ELSE IF d = 3 THEN 3 ELSE 4

PortType == [command : BOOLEAN, primary : Nat, secondary : Nat, subordinate : Nat,
             mbase : Int, mlimit : Int]
FrameType == [bus : Nat, dev : 0 .. DEVICES, bridge : Nat]

Closed(p) == port[p].mbase = 0 /\ port[p].mlimit = 0
Given(p) ==
  /\ First(p) < First(p + 1)
  /\ port[p].mbase = HIGH + First(p) /\ port[p].mlimit = HIGH + First(p + 1) - 1
PortInv(p) ==
  /\ port[p].primary = 0 /\ port[p].secondary \in {0, p}
  /\ port[p].subordinate = port[p].secondary
  /\ port[p].command => Closed(p) \/ Given(p)


\* The walk of bus 0, inside a bridge or between two.  Only an enumeration
\* that fills the table takes a window away, from the port it is then in.
Full == ~Room
Cut(p) == port[p].command /\ Closed(p)
Between(f) ==
  /\ f.bridge = 0
  /\ ~Full => /\ next_bus_number = NextPort(f.dev)
              /\ offset_BAR_Pos = GRANULE * First(NextPort(f.dev))
Inside(f) ==
  /\ f.dev \in Ports /\ f.bridge \in DOMAIN mapa
  /\ mapa[f.bridge].start_address = MIN_BAR_POS + (GRANULE * First(f.dev))
  /\ next_bus_number = f.dev + 1 /\ port[f.dev].secondary = f.dev
  /\ \A p \in Ports : ~Cut(p)
Returned(f) ==
  /\ Inside(f)
  /\ \/ offset_BAR_Pos = (GRANULE * First(f.dev)) + Total(f.dev)
     \/ Full /\ offset_BAR_Pos = GRANULE * First(f.dev)
Below(f, g) ==
  /\ Inside(f) /\ g.bus = f.dev /\ g.bridge = 0
  /\ offset_BAR_Pos = GRANULE * First(f.dev)
  /\ g.dev > 0 => Total(f.dev) = 0

StackInv ==
  /\ stack \in Seq(FrameType) /\ Len(stack) <= 2
  /\ Len(stack) > 0 => stack[1].bus = 0
  /\ Len(stack) = 1 => Between(stack[1]) \/ Returned(stack[1])
  /\ Len(stack) = 2 => Below(stack[1], stack[2])

Classes == {BRIDGE} \union {b[p].class : b \in Boards, p \in Ports}
EntryType == [bus : Nat, dev : 0 .. DEVICES, ClassCode : Classes,
              start_address : Int, end_address : Int]
Tables ==
  /\ board \in Boards /\ mapa \in Seq(EntryType)
  /\ next_bus_number \in Nat /\ offset_BAR_Pos \in Int
PortsInv == port \in [Ports -> PortType] /\ \A p \in Ports : PortInv(p)
CutInv == \A p \in Ports : Cut(p) => Full /\ \A q \in Ports : Cut(q) => p = q
IInv == Tables /\ PortsInv /\ CutInv /\ StackInv

-----------------------------------------------------------------------------
(***************************************************************************)
(* A table of an even number of entries, six or more, is never full between *)
(* a port and its device: the shell starts only on a board whose three     *)
(* ports are occupied, and there every enumeration records them in pairs.  *)
(* So no window is ever taken away, and a port that once claims addresses  *)
(* claims its own for good.                                                *)
(***************************************************************************)
Whole == \A p \in Ports : board[p] # Nothing /\ board[p].header = 0
Named == {BRIDGE} \union {board[p].class : p \in {q \in Ports : board[q].header = 0}}
Twice(n) == \E k \in Nat : n = 2 * k
Count(ahead, ports) ==
  /\ Whole => Twice(Len(mapa) + ahead)
  /\ resets = 0 => Len(mapa) + ahead <= 2 * ports
Table ==
  /\ \A i \in DOMAIN mapa : mapa[i].ClassCode \in Named
  /\ Whole \/ resets = 0
  /\ resets \in Nat
  /\ \A p \in Ports : ~Cut(p)
Waiting(f) == Count(0, NextPort(f.dev) - 1)
Placed(f) ==
  Count(0, f.dev) /\ offset_BAR_Pos = (GRANULE * First(f.dev)) + Total(f.dev)
Placing(f, g) == Count(1, f.dev) /\ Room /\ (g.dev > 0 => ~Whole)
Counts ==
  /\ stack = <<>> => Count(0, 3)
  /\ Len(stack) = 1 => IF stack[1].bridge = 0 THEN Waiting(stack[1]) ELSE Placed(stack[1])
  /\ Len(stack) = 2 => Placing(stack[1], stack[2])
TableInv == Table /\ Counts

TableIsEven == \E k \in Nat : k >= 3 /\ MAX_PCIE_DEVICES = 2 * k
WindowsFit == GRANULE * First(4) <= ECAM_BASE - MIN_BAR_POS

-----------------------------------------------------------------------------
(***************************************************************************)
(* What makes a device reachable is there once its port has been left, and *)
(* every later enumeration writes the same again: its entry, its BARs one  *)
(* behind the other from the edge of its window, the bus number and the    *)
(* window of its port.  So the table holds nothing but bridges and those   *)
(* entries, each as often as it was recorded.                              *)
(***************************************************************************)
RoomOf(p, i) == BarRoom(board[p].bars[i])
Place(p, i) ==
  IF i = 1 THEN 0
  ELSE IF i = 2 THEN RoomOf(p, 1)
  ELSE IF i = 3 THEN RoomOf(p, 1) + RoomOf(p, 2)
  ELSE RoomOf(p, 1) + RoomOf(p, 2) + RoomOf(p, 3)
Edge(p) == GRANULE * First(p)
Device(p) == board[p].header = 0
DeviceEntry(p) ==
  [bus |-> p, dev |-> 0, ClassCode |-> board[p].class,
   start_address |-> MIN_BAR_POS + Edge(p),
   end_address |-> MIN_BAR_POS + (Edge(p) + Total(p))]

Recorded(p) == Device(p) =>
  /\ \E i \in DOMAIN mapa : mapa[i] = DeviceEntry(p)
  /\ \A i \in 1 .. 4 : board[p].bars[i] # 0 =>
       bar[p][i] = MIN_BAR_POS + (Edge(p) + Place(p, i))
Opened(p) == Device(p) =>
  port[p].secondary = p /\ (Total(p) > 0 => port[p].command)
Ready(p) == Recorded(p) /\ Opened(p)

Entries == \A i \in DOMAIN mapa :
  \/ mapa[i].ClassCode = BRIDGE
  \/ \E p \in Ports : Device(p) /\ mapa[i] = DeviceEntry(p)
Walked ==
  /\ resets # 0 \/ stack = <<>> => \A p \in Ports : Ready(p)
  /\ \A p \in Ports :
       /\ Len(stack) = 1 /\ stack[1].bridge = 0 /\ p < NextPort(stack[1].dev) => Ready(p)
       /\ stack # <<>> /\ stack[1].bridge # 0 /\ p < stack[1].dev => Ready(p)
       /\ Len(stack) = 1 /\ stack[1].bridge # 0 /\ p = stack[1].dev => Recorded(p)
       /\ Len(stack) = 2 /\ stack[2].dev > 0 /\ p = stack[1].dev => ~Device(p)
  /\ stack # <<>> /\ stack[1].bridge # 0 => mapa[stack[1].bridge].ClassCode = BRIDGE
ReachInv == bar \in [Ports -> [1 .. 4 -> Int]] /\ Entries /\ Walked

\* A class tells a device from a bridge.
ClassesApart == \A b \in Boards : \A p \in Ports : b[p].class # BRIDGE
\* A BAR in front of another does not fill its last page: the hardware compares
\* both ends with "not beyond", so a full one also answers the first address
\* of the next.
PagesEnd ==
  \A b \in Boards : \A p \in Ports : \A i, j \in 1 .. 4 :
    i < j /\ b[p].bars[i] # 0 /\ b[p].bars[j] # 0 => b[p].bars[i] < BarRoom(b[p].bars[i])

-----------------------------------------------------------------------------
\* Arithmetic of units, in which everything but the unit is linear.
LEMMA Products ==
  ASSUME NEW d \in Nat, NEW a \in Int, NEW b \in Int, a <= b
  PROVE  d * a <= d * b
<1>1. b - a \in Nat /\ d * (b - a) \in Nat
  OBVIOUS
<1>2. d * b = (d * a) + (d * (b - a))
  OBVIOUS
<1> QED BY <1>1, <1>2

\* What \div gives of a whole number of units and a rest.
LEMMA Quotient ==
  ASSUME NEW d \in Nat \ {0}, NEW q \in Int, NEW r \in 0 .. (d - 1)
  PROVE  ((d * q) + r) \div d = q
<1> DEFINE n == (d * q) + r
           k == n \div d
           s == n % d
<1>1. n \in Int /\ k \in Int /\ s \in 0 .. (d - 1) /\ n = (d * k) + s
  OBVIOUS
<1>2. (d * q) + r = (d * k) + s
  BY <1>1
<1> HIDE DEF n, k, s
<1>3. ASSUME k <= q - 1 PROVE FALSE
  <2>1. d * k <= d * (q - 1) /\ d * (q - 1) = (d * q) - d
    BY <1>1, <1>3, Products
  <2> QED BY <1>1, <1>2, <2>1
<1>4. ASSUME q <= k - 1 PROVE FALSE
  <2>1. d * q <= d * (k - 1) /\ d * (k - 1) = (d * k) - d
    BY <1>1, <1>4, Products
  <2> QED BY <1>1, <1>2, <2>1
<1>5. k = q
  BY <1>1, <1>3, <1>4
<1> QED BY <1>5 DEF k, n

\* The constants as numbers, all of them of the one unit that is not fixed.
LEMMA Units ==
  /\ PAGE \in Nat \ {0} /\ GRANULE \in Nat \ {0}
  /\ MIN_BAR_POS = GRANULE * HIGH
  /\ DEVICES = 32 /\ BUSES = 256 /\ Ports = {1, 2, 3}
  BY PageAssumption DEF GRANULE, MIN_BAR_POS, HIGH, DEVICES, BUSES, Ports

\* Rounding up from the edge of a unit is counting the units begun.
LEMMA UpIsNat ==
  ASSUME NEW n \in Nat
  PROVE  /\ Up(n) \in Nat /\ (n = 0 <=> Up(n) = 0)
         /\ \A k \in Nat : RoundUp((GRANULE * k) + n, GRANULE) = GRANULE * (k + Up(n))
<1> DEFINE G == GRANULE
           r == (n + G - 1) % G
           u == (n + G - 1) \div G
<1>1. G \in Nat \ {0}
  BY Units
<1> HIDE DEF G
<1>2. n + G - 1 \in Nat
  BY <1>1
<1>3. u \in Int /\ r \in 0 .. (G - 1) /\ n + G - 1 = (G * u) + r
  BY <1>1, <1>2
<1>4. Up(n) = u
  BY DEF Up, G, u
<1> HIDE DEF u, r
<1>5. u \in Nat
  <2>1. ASSUME u <= -1 PROVE FALSE
    <3>1. G * u <= G * (-1) /\ G * (-1) = -G
      BY <1>1, <1>3, <2>1, Products
    <3> QED BY <1>1, <1>3, <3>1
  <2> QED BY <1>3, <2>1
<1>6. ASSUME n = 0 PROVE u = 0
  <2>1. ASSUME u >= 1 PROVE FALSE
    <3>1. G * 1 <= G * u
      BY <1>1, <1>3, <2>1, Products
    <3> QED BY <1>1, <1>3, <1>6, <3>1
  <2> QED BY <1>5, <2>1
<1>8. ASSUME u = 0 PROVE n = 0
  BY <1>1, <1>3, <1>8
<1>7. ASSUME NEW k \in Nat PROVE RoundUp((G * k) + n, G) = G * (k + u)
  <2>1. ((G * k) + n) + G - 1 = (G * (k + u)) + r
    <3>1. G * (k + u) = (G * k) + (G * u)
      BY <1>1, <1>3
    <3>2. G * k \in Int /\ G * u \in Int
      BY <1>1, <1>3
    <3> QED BY <1>1, <1>3, <3>1, <3>2
  <2>2. ((G * (k + u)) + r) \div G = k + u
    BY <1>1, <1>3, Quotient
  <2>3. (k + u) * G = G * (k + u)
    BY <1>1, <1>3
  <2> QED BY <2>1, <2>2, <2>3 DEF RoundUp
<1> QED BY <1>4, <1>5, <1>6, <1>7, <1>8 DEF G

\* The unit of a window that an address begins, and the one before it.
LEMMA WindowUnits ==
  ASSUME NEW k \in Nat
  PROVE  /\ (MIN_BAR_POS + (GRANULE * k)) \div GRANULE = HIGH + k
         /\ WindowLimit(MIN_BAR_POS + (GRANULE * k)) = HIGH + k - 1
<1> DEFINE G == GRANULE
<1>1. G \in Nat \ {0} /\ MIN_BAR_POS = G * HIGH /\ HIGH \in Nat
  BY Units DEF HIGH
<1> HIDE DEF G
<1>2. (G * HIGH) + (G * k) = (G * (HIGH + k)) + 0
  BY <1>1
<1>3. ((G * HIGH) + (G * k)) - 1 = (G * (HIGH + k - 1)) + (G - 1)
  <2>1. G * (HIGH + k - 1) = (G * HIGH) + (G * k) - G
    BY <1>1
  <2> QED BY <1>1, <2>1
<1>4. ((G * (HIGH + k)) + 0) \div G = HIGH + k
  BY <1>1, Quotient
<1>5. ((G * (HIGH + k - 1)) + (G - 1)) \div G = HIGH + k - 1
  BY <1>1, Quotient
<1> QED BY <1>1, <1>2, <1>3, <1>4, <1>5 DEF WindowLimit, G

-----------------------------------------------------------------------------
\* A configuration address names its bus and its device.
LEMMA AddressParts ==
  ASSUME NEW b \in 0 .. 3, NEW d \in 0 .. 31
  PROVE  /\ Is_ECAM(ECAM_ADDR(b, d))
         /\ BusOf(ECAM_ADDR(b, d)) = b /\ DevOf(ECAM_ADDR(b, d)) = d
<1> DEFINE W == PAGE
           n == (256 * b) + (8 * d)
           o == W * n
<1>1. W \in Nat \ {0} /\ n \in 0 .. 1016
  BY Units
<1>2. ECAM_ADDR(b, d) = ECAM_BASE + o /\ ECAM_BASE \in Nat
  BY Units DEF ECAM_ADDR, ECAM_BASE
<1>3. o = ((256 * W) * b) + (W * (8 * d)) /\ o = ((8 * W) * ((32 * b) + d)) + 0
  BY <1>1
<1> HIDE DEF W, n
<1>4. o \in Nat /\ o <= W * 1016 /\ W * 1016 < 16384 * W
  BY <1>1, Products
<1>5. Is_ECAM(ECAM_ADDR(b, d))
  <2>1. ECAM_SIZE = 16384 * W /\ ECAM_SIZE \in Nat
    BY <1>1 DEF ECAM_SIZE, W
  <2>2. o < ECAM_SIZE
    BY <1>1, <1>4, <2>1
  <2> HIDE DEF o
  <2> QED BY <1>2, <1>4, <2>1, <2>2 DEF Is_ECAM
<1>6. W * (8 * d) \in 0 .. ((256 * W) - 1)
  <2>1. W * (8 * d) <= W * 248 /\ W * 0 <= W * (8 * d)
    BY <1>1, Products
  <2> QED BY <1>1, <2>1
<1>7. (((256 * W) * b) + (W * (8 * d))) \div (256 * W) = b
  BY <1>1, <1>6, Quotient
<1>8. (((8 * W) * ((32 * b) + d)) + 0) \div (8 * W) = (32 * b) + d
  BY <1>1, Quotient
<1>9. (ECAM_BASE + o) - ECAM_BASE = o
  BY <1>2, <1>4
<1>10. BusOf(ECAM_ADDR(b, d)) = b
  BY <1>2, <1>3, <1>7, <1>9 DEF BusOf, W
<1>11. DevOf(ECAM_ADDR(b, d)) = ((32 * b) + d) % 32
  BY <1>2, <1>3, <1>8, <1>9 DEF DevOf, W, DEVICES
<1>12. ((32 * b) + d) % 32 = d
  OBVIOUS
<1> QED BY <1>5, <1>10, <1>11, <1>12

\* The ports answer on bus 0, each for its device number, and nothing else.
LEMMA RootAnswers ==
  ASSUME PortsInv, NEW d \in 0 .. 31
  PROVE  Answering(ECAM_ADDR(0, d)) = IF d \in Ports THEN {Port(d)} ELSE {}
<1> DEFINE a == ECAM_ADDR(0, d)
<1>1. Is_ECAM(a) /\ BusOf(a) = 0 /\ DevOf(a) = d
  BY AddressParts
<1>2. \A p \in Ports : port[p].primary = 0 /\ port[p].secondary \in Nat
  BY DEF PortsInv, PortInv, PortType
<1> HIDE DEF a
<1>3. \A p \in Ports : Internal_ECAM(p, a) <=> d = p
  BY <1>1, <1>2 DEF Internal_ECAM
<1>4. \A p \in Ports : ~Downstream_ECAM(p, a)
  BY <1>1, <1>2 DEF Downstream_ECAM
<1>5. Answering(a) = {Port(p) : p \in {q \in Ports : d = q}}
  BY <1>3, <1>4 DEF Answering
<1> QED BY <1>5 DEF a

\* On the bus of a port what is behind it answers, for every device number.
LEMMA LinkAnswers ==
  ASSUME PortsInv, NEW p \in Ports, port[p].secondary = p, NEW d \in 0 .. 31
  PROVE  Answering(ECAM_ADDR(p, d)) = IF board[p] # Nothing THEN {EndPoint(p)} ELSE {}
<1> DEFINE a == ECAM_ADDR(p, d)
<1>1. Is_ECAM(a) /\ BusOf(a) = p /\ p \in 1 .. 3
  BY AddressParts DEF Ports
<1>2. \A q \in Ports : /\ port[q].primary = 0 /\ port[q].secondary \in {0, q}
                       /\ port[q].subordinate = port[q].secondary
                       /\ q \in 1 .. 3
  BY DEF PortsInv, PortInv, Ports
<1> HIDE DEF a
<1>3. \A q \in Ports : ~Internal_ECAM(q, a)
  BY <1>1, <1>2 DEF Internal_ECAM
<1>4. \A q \in Ports : Downstream_ECAM(q, a) <=> q = p
  BY <1>1, <1>2, <1>3 DEF Downstream_ECAM
<1>5. Answering(a) = {EndPoint(q) : q \in {r \in Ports : r = p /\ board[r] # Nothing}}
  BY <1>3, <1>4 DEF Answering
<1> QED BY <1>5 DEF a

\* Bus numbers tell the ports apart, whatever has been given out so far.
LEMMA AnswersOnce ==
  ASSUME PortsInv, NEW a \in Nat
  PROVE  AnsweredOnce(a)
<1>1. BusOf(a) \in Int \/ ~Is_ECAM(a)
  BY Units DEF BusOf, ECAM_BASE
<1>2. \A q \in Ports : /\ port[q].primary = 0 /\ port[q].secondary \in {0, q}
                       /\ port[q].subordinate = port[q].secondary
                       /\ q \in 1 .. 3
  BY DEF PortsInv, PortInv, Ports
<1>3. \A p \in Ports : Internal_ECAM(p, a) => BusOf(a) = 0 /\ p = DevOf(a)
  BY <1>2 DEF Internal_ECAM
<1>4. \A p \in Ports : Downstream_ECAM(p, a) => BusOf(a) = p
  BY <1>1, <1>2 DEF Downstream_ECAM
<1>5. SUFFICES ASSUME NEW f \in Answering(a), NEW g \in Answering(a)
               PROVE  f = g
  BY DEF AnsweredOnce
<1>6. PICK p \in Ports : \/ f = Port(p) /\ Internal_ECAM(p, a)
                         \/ f = EndPoint(p) /\ Downstream_ECAM(p, a)
  BY DEF Answering
<1>7. PICK q \in Ports : \/ g = Port(q) /\ Internal_ECAM(q, a)
                         \/ g = EndPoint(q) /\ Downstream_ECAM(q, a)
  BY DEF Answering
<1>8. p = q /\ (Internal_ECAM(p, a) <=> Internal_ECAM(q, a))
      /\ ~(Internal_ECAM(p, a) /\ Downstream_ECAM(q, a))
      /\ ~(Internal_ECAM(q, a) /\ Downstream_ECAM(p, a))
  BY <1>2, <1>3, <1>4, <1>6, <1>7
<1> QED BY <1>6, <1>7, <1>8

-----------------------------------------------------------------------------
\* The room behind each port, and where one window begins after another.
LEMMA BarRoomIsNat ==
  ASSUME NEW n \in Nat
  PROVE  BarRoom(n) \in Nat
<1>1. CASE n = 0 \/ n <= PAGE
  BY <1>1, Units DEF BarRoom
<1>2. CASE ~(n = 0 \/ n <= PAGE)
  <2> DEFINE W == PAGE
             k == (n + W - 1) \div W
  <2>1. W \in Nat \ {0} /\ n + W - 1 \in Nat
    BY Units
  <2> HIDE DEF W
  <2>2. k \in Nat
    BY <2>1
  <2> HIDE DEF k
  <2>3. k * W \in Nat
    BY <2>1, <2>2
  <2> QED BY <1>2, <2>3 DEF BarRoom, RoundUp, k, W
<1> QED BY <1>1, <1>2

\* The windows of the board follow each other in the order of the ports.
LEMMA Rooms ==
  ASSUME board \in Boards
  PROVE  /\ \A p \in Ports : Total(p) \in Nat
         /\ \A p \in 1 .. 4 : First(p) \in Nat
         /\ First(1) = 0
         /\ \A p \in Ports : First(p + 1) = First(p) + Up(Total(p))
         /\ \A p, q \in Ports : p < q => First(p + 1) <= First(q)
<1>1. \A p \in Ports : \A i \in 1 .. 4 : board[p].bars[i] \in Nat
  BY BoardAssumption
<1>2. \A p \in Ports : Total(p) \in Nat
  <2> TAKE p \in Ports
  <2>1. /\ BarRoom(board[p].bars[1]) \in Nat /\ BarRoom(board[p].bars[2]) \in Nat
        /\ BarRoom(board[p].bars[3]) \in Nat /\ BarRoom(board[p].bars[4]) \in Nat
    BY <1>1, BarRoomIsNat
  <2> QED BY <2>1 DEF Total
<1>3. \A p \in Ports : Up(Total(p)) \in Nat
  BY <1>2, UpIsNat
<1>4. Up(Total(1)) \in Nat /\ Up(Total(2)) \in Nat /\ Up(Total(3)) \in Nat
  BY <1>3, Units
<1>5. /\ First(1) = 0 /\ First(2) = Up(Total(1))
      /\ First(3) = Up(Total(1)) + Up(Total(2))
      /\ First(4) = Up(Total(1)) + Up(Total(2)) + Up(Total(3))
  BY DEF First
<1> QED BY <1>2, <1>4, <1>5, Units

\* What the board decides stays while the board does.
LEMMA BoardDecides ==
  ASSUME board' = board
  PROVE  \A p \in Nat : Total(p)' = Total(p) /\ First(p)' = First(p)
<1>1. \A p \in Nat : Total(p)' = Total(p)
  BY DEF Total
<1> QED BY <1>1 DEF First

-----------------------------------------------------------------------------
\* What the code does to the stack: the callers of the running call stay.
LEMMA Frames ==
  ASSUME stack \in Seq(FrameType), NEW n \in {1, 2}, Len(stack) = n
  PROVE  /\ Top = stack[n] /\ \A i \in 1 .. n : stack[i] \in FrameType
         /\ Callers \in Seq(FrameType) /\ Len(Callers) = n - 1
         /\ n = 2 => Callers[1] = stack[1]
         /\ \A e \in FrameType :
              /\ Append(Callers, e) \in Seq(FrameType) /\ Len(Append(Callers, e)) = n
              /\ Append(Callers, e)[n] = e
              /\ n = 2 => Append(Callers, e)[1] = stack[1]
<1>1. \A i \in 1 .. n : stack[i] \in FrameType
  BY ElementOfSeq
<1>2. Top = stack[n]
  BY DEF Top
<1>3. /\ SubSeq(stack, 1, n - 1) \in Seq(FrameType)
      /\ Len(SubSeq(stack, 1, n - 1)) = n - 1
      /\ \A i \in 1 .. (n - 1) : SubSeq(stack, 1, n - 1)[i] = stack[i]
  <2>1. \A i \in 1 .. (n - 1) : stack[i] \in FrameType
    BY <1>1
  <2>2. n - 1 \in Int /\ (IF 1 <= n - 1 THEN (n - 1) - 1 + 1 ELSE 0) = n - 1
    OBVIOUS
  <2>3. /\ SubSeq(stack, 1, n - 1) \in Seq(FrameType)
        /\ Len(SubSeq(stack, 1, n - 1)) = IF 1 <= n - 1 THEN (n - 1) - 1 + 1 ELSE 0
        /\ \A i \in 1 .. ((n - 1) - 1 + 1) : SubSeq(stack, 1, n - 1)[i] = stack[1 + i - 1]
    BY <2>1, <2>2, SubSeqProperties
  <2> QED BY <2>2, <2>3
<1>4. /\ Callers \in Seq(FrameType) /\ Len(Callers) = n - 1
      /\ n = 2 => Callers[1] = stack[1]
  BY <1>3 DEF Callers
<1>5. ASSUME NEW e \in FrameType
      PROVE  /\ Append(Callers, e) \in Seq(FrameType) /\ Len(Append(Callers, e)) = n
             /\ Append(Callers, e)[n] = e
             /\ n = 2 => Append(Callers, e)[1] = stack[1]
  BY <1>4, AppendProperties
<1> QED BY <1>1, <1>2, <1>4, <1>5

\* There are never more than the calls for bus 0 and for one bus below.
LEMMA LengthOfStack ==
  ASSUME StackInv, stack # <<>>
  PROVE  stack \in Seq(FrameType) /\ Len(stack) \in {1, 2} /\ stack[1].bus = 0
<1>1. stack \in Seq(FrameType) /\ Len(stack) <= 2
  BY DEF StackInv
<1>2. Len(stack) \in Nat \ {0}
  BY <1>1, EmptySeq
<1>3. Len(stack) \in {1, 2}
  <2> DEFINE n == Len(stack)
  <2>1. n \in Nat /\ n # 0 /\ n <= 2
    BY <1>1, <1>2
  <2> HIDE DEF n
  <2>2. n \in {1, 2}
    BY <2>1
  <2> QED BY <2>2 DEF n
<1> QED BY <1>1, <1>3 DEF StackInv

\* A scan is of bus 0, or of the bus of the bridge that the frame below is in.
LEMMA ScanIsBetweenOrBelow ==
  ASSUME IInv, stack # <<>>, Top.bridge = 0
  PROVE  \/ Len(stack) = 1 /\ Between(stack[1])
         \/ Len(stack) = 2 /\ Below(stack[1], stack[2])
<1>1. stack \in Seq(FrameType) /\ Len(stack) \in {1, 2}
  BY LengthOfStack DEF IInv
<1>2. CASE Len(stack) = 1
  <2>1. stack[1].bridge = 0
    BY <1>1, <1>2, Frames
  <2>2. 0 \notin DOMAIN mapa
    <3>1. mapa \in Seq(EntryType)
      BY DEF IInv, Tables
    <3> QED BY <3>1, LenProperties
  <2>3. ~Returned(stack[1])
    BY <2>1, <2>2 DEF Returned, Inside
  <2> QED BY <1>2, <2>3 DEF IInv, StackInv
<1>3. CASE Len(stack) = 2
  BY <1>3 DEF IInv, StackInv
<1> QED BY <1>1, <1>2, <1>3

\* Only a call that has come back to a bridge is in one on the top.
LEMMA BridgeIsReturned ==
  ASSUME IInv, stack # <<>>, Top.bridge # 0
  PROVE  Len(stack) = 1 /\ Top = stack[1] /\ Returned(stack[1])
<1>1. stack \in Seq(FrameType) /\ Len(stack) \in {1, 2}
  BY LengthOfStack DEF IInv
<1>2. CASE Len(stack) = 1
  <2>1. Top = stack[1]
    BY <1>1, <1>2, Frames
  <2> QED BY <1>2, <2>1 DEF IInv, StackInv, Between
<1>3. CASE Len(stack) = 2
  <2>1. Top = stack[2]
    BY <1>1, <1>3, Frames
  <2> QED BY <1>3, <2>1 DEF IInv, StackInv, Below
<1> QED BY <1>1, <1>2, <1>3

\* What answers the scan of bus 0 and of a bus below.
LEMMA ScanAnswers ==
  ASSUME IInv, Scanning
  PROVE  \/ /\ Len(stack) = 1 /\ Between(stack[1])
            /\ Answering(Base) = IF stack[1].dev \in Ports THEN {Port(stack[1].dev)} ELSE {}
         \/ /\ Len(stack) = 2 /\ Below(stack[1], stack[2])
            /\ Answering(Base) = IF board[stack[1].dev] # Nothing
                                 THEN {EndPoint(stack[1].dev)} ELSE {}
<1>1. /\ stack \in Seq(FrameType) /\ stack # <<>> /\ Len(stack) \in {1, 2}
      /\ stack[1].bus = 0 /\ Top.bridge = 0 /\ Top.dev < 32 /\ PortsInv
  BY Units, LengthOfStack DEF IInv, Scanning
<1>2. CASE Len(stack) = 1 /\ Between(stack[1])
  <2>1. Top = stack[1] /\ stack[1] \in FrameType
    BY <1>1, <1>2, Frames
  <2>2. stack[1].bus = 0 /\ stack[1].dev \in 0 .. 31
    BY <1>1, <2>1, Units DEF FrameType
  <2>3. Base = ECAM_ADDR(0, stack[1].dev)
    BY <2>1, <2>2 DEF Base
  <2> QED BY <1>1, <1>2, <2>2, <2>3, RootAnswers
<1>3. CASE Len(stack) = 2 /\ Below(stack[1], stack[2])
  <2>1. Top = stack[2] /\ stack[2] \in FrameType
    BY <1>1, <1>3, Frames
  <2>2. Top.dev \in 0 .. 31
    BY <1>1, <2>1, Units DEF FrameType
  <2>3. /\ stack[1].dev \in Ports /\ Top.bus = stack[1].dev
        /\ port[stack[1].dev].secondary = stack[1].dev
    BY <1>3, <2>1 DEF Below, Inside
  <2>4. Base = ECAM_ADDR(stack[1].dev, Top.dev)
    BY <2>3 DEF Base
  <2> QED BY <1>1, <1>3, <2>2, <2>3, <2>4, LinkAnswers
<1> QED BY <1>1, <1>2, <1>3, ScanIsBetweenOrBelow

-----------------------------------------------------------------------------
Walk == <<board, port, mapa, next_bus_number, offset_BAR_Pos>>

\* A step that only moves the stack leaves what the frames are said to be in.
LEMMA WalkStays ==
  ASSUME IInv, UNCHANGED Walk
  PROVE  /\ Tables' /\ PortsInv' /\ CutInv'
         /\ \A f \in FrameType : Between(f) => Between(f)'
         /\ \A f \in FrameType : Returned(f) => Returned(f)'
         /\ \A f, g \in FrameType : Below(f, g) => Below(f, g)'
<1>1. board' = board /\ port' = port /\ mapa' = mapa
      /\ next_bus_number' = next_bus_number /\ offset_BAR_Pos' = offset_BAR_Pos
  BY DEF Walk
<1>2. \A p \in Nat : Total(p)' = Total(p) /\ First(p)' = First(p)
  BY <1>1, BoardDecides
<1>3. \A f \in FrameType : f.dev \in Nat /\ NextPort(f.dev) \in Nat
  BY Units DEF FrameType, NextPort
<1>4. Tables'
  BY <1>1 DEF IInv, Tables
<1>5. PortsInv' /\ CutInv'
  <2>1. \A p \in Ports : p \in Nat /\ p + 1 \in Nat
    BY Units
  <2>2. \A p \in Ports : Given(p)' <=> Given(p)
    BY <1>1, <1>2, <2>1 DEF Given
  <2>3. \A p \in Ports : (Closed(p)' <=> Closed(p)) /\ (Cut(p)' <=> Cut(p))
    BY <1>1 DEF Closed, Cut
  <2>4. Full' <=> Full
    BY <1>1 DEF Full, Room
  <2>5. \A p \in Ports : PortInv(p)' <=> PortInv(p)
    BY <1>1, <2>2, <2>3 DEF PortInv
  <2> QED BY <1>1, <2>3, <2>4, <2>5 DEF IInv, PortsInv, CutInv
<1>6. \A f \in FrameType : Inside(f)' <=> Inside(f)
  BY <1>1, <1>2, <1>3 DEF Inside, Cut, Closed
<1>7. Full' <=> Full
  BY <1>1 DEF Full, Room
<1>8. \A f \in FrameType : Between(f) => Between(f)'
  BY <1>1, <1>2, <1>3, <1>7 DEF Between
<1>9. \A f \in FrameType : Returned(f) => Returned(f)'
  BY <1>1, <1>2, <1>3, <1>6, <1>7 DEF Returned
<1>10. \A f, g \in FrameType : Below(f, g) => Below(f, g)'
  BY <1>1, <1>2, <1>3, <1>6 DEF Below
<1> QED BY <1>4, <1>5, <1>8, <1>9, <1>10

\* A call that returns having placed nothing, to a bridge that needs nothing.
LEMMA Returns ==
  ASSUME IInv, stack # <<>>, stack' = Callers, UNCHANGED Walk,
         Len(stack) = 2 => Returned(stack[1])
  PROVE  IInv'
<1>1. stack \in Seq(FrameType) /\ Len(stack) \in {1, 2} /\ stack[1].bus = 0
  BY LengthOfStack DEF IInv
<1>2. CASE Len(stack) = 1
  <2>1. stack' \in Seq(FrameType) /\ Len(stack') = 0
    BY <1>1, <1>2, Frames
  <2> QED BY <2>1, WalkStays DEF IInv, StackInv
<1>3. CASE Len(stack) = 2
  <2>1. /\ stack' \in Seq(FrameType) /\ Len(stack') = 1
        /\ stack'[1] = stack[1] /\ stack[1] \in FrameType
    BY <1>1, <1>3, Frames
  <2>2. Returned(stack[1])'
    <3>1. \A f \in FrameType : Returned(f) => Returned(f)'
      BY WalkStays
    <3>2. ASSUME NEW f \in FrameType, Returned(f), stack'[1] = f PROVE Returned(stack[1])'
      BY <3>1, <3>2 DEF Returned, Inside
    <3> QED BY <1>3, <2>1, <3>2
  <2> QED BY <1>1, <2>1, <2>2, WalkStays DEF IInv, StackInv
<1> QED BY <1>1, <1>2, <1>3

\* A call that goes on to the next device having placed nothing.
LEMMA Continues ==
  ASSUME IInv, Scanning, stack' = NextDevice, UNCHANGED Walk,
         Len(stack) = 1 => NextPort(stack[1].dev + 1) = NextPort(stack[1].dev),
         Len(stack) = 2 => Total(stack[1].dev) = 0
  PROVE  IInv'
<1> DEFINE e == [bus |-> Top.bus, dev |-> Top.dev + 1, bridge |-> 0]
<1>1. /\ stack \in Seq(FrameType) /\ Len(stack) \in {1, 2} /\ stack[1].bus = 0
      /\ stack # <<>> /\ Top.bridge = 0 /\ Top.dev < 32
  BY LengthOfStack, Units DEF IInv, Scanning
<1>2. ASSUME Top \in FrameType
      PROVE  e \in FrameType /\ e.bus = Top.bus /\ e.dev = Top.dev + 1 /\ e.bridge = 0
  <2>1. Top.bus \in Nat /\ Top.dev \in 0 .. 32
    BY <1>2, Units DEF FrameType
  <2>2. Top.dev + 1 \in 0 .. DEVICES
    <3> DEFINE d == Top.dev
    <3>1. d \in 0 .. 32 /\ d < 32
      BY <1>1, <2>1
    <3> HIDE DEF d
    <3>2. d + 1 \in 0 .. DEVICES
      BY <3>1 DEF DEVICES
    <3> QED BY <3>2 DEF d
  <2> QED BY <2>1, <2>2 DEF FrameType
<1>3. stack' = Append(Callers, e)
  BY DEF NextDevice
<1> HIDE DEF e
<1>4. CASE Len(stack) = 1
  <2>1. /\ Top = stack[1] /\ Top \in FrameType /\ stack' \in Seq(FrameType)
        /\ e \in FrameType /\ Len(stack') = 1 /\ stack'[1] = e
    BY <1>1, <1>2, <1>3, <1>4, Frames
  <2>2. Between(stack[1])
    BY <1>1, <1>4, ScanIsBetweenOrBelow
  <2>3. Between(e)
    BY <1>2, <1>4, <2>1, <2>2 DEF Between
  <2>4. \A f \in FrameType : Between(f) => Between(f)'
    BY WalkStays
  <2>5. Between(stack[1])'
    <3>1. ASSUME NEW f \in FrameType, Between(f), stack'[1] = f PROVE Between(stack[1])'
      BY <2>4, <3>1 DEF Between
    <3> QED BY <2>1, <2>3, <3>1
  <2> QED BY <1>1, <1>2, <2>1, <2>5, WalkStays DEF IInv, StackInv
<1>5. CASE Len(stack) = 2
  <2>1. /\ Top = stack[2] /\ Top \in FrameType /\ stack' \in Seq(FrameType)
        /\ e \in FrameType /\ Len(stack') = 2 /\ stack'[2] = e /\ stack'[1] = stack[1]
        /\ stack[1] \in FrameType
    BY <1>1, <1>2, <1>3, <1>5, Frames
  <2>2. Below(stack[1], stack[2])
    BY <1>1, <1>5, ScanIsBetweenOrBelow
  <2>3. Below(stack[1], e)
    BY <1>2, <1>5, <2>1, <2>2 DEF Below
  <2>4. \A f, g \in FrameType : Below(f, g) => Below(f, g)'
    BY WalkStays
  <2>5. Below(stack[1], stack[2])'
    <3>1. ASSUME NEW f \in FrameType, NEW g \in FrameType, Below(f, g),
                 stack'[1] = f, stack'[2] = g
          PROVE  Below(stack[1], stack[2])'
      BY <2>4, <3>1 DEF Below, Inside
    <3> QED BY <2>1, <2>3, <3>1
  <2> QED BY <1>1, <2>1, <2>5, WalkStays DEF IInv, StackInv
<1> QED BY <1>1, <1>4, <1>5

\* A step that only moves the stack leaves what is counted.
LEMMA CountStays ==
  ASSUME IInv, TableInv, UNCHANGED <<Walk, resets>>
  PROVE  /\ Table'
         /\ \A n, k \in Nat : Count(n, k) => Count(n, k)'
         /\ \A f \in FrameType : Waiting(f) => Waiting(f)'
         /\ \A f \in FrameType : Placed(f) => Placed(f)'
         /\ \A f, g \in FrameType : Placing(f, g) => Placing(f, g)'
<1>1. board' = board /\ port' = port /\ mapa' = mapa /\ offset_BAR_Pos' = offset_BAR_Pos
      /\ resets' = resets
  BY DEF Walk
<1>2. \A p \in Nat : Total(p)' = Total(p) /\ First(p)' = First(p)
  BY <1>1, BoardDecides
<1>3. Table'
  BY <1>1 DEF TableInv, Table, Named, Whole, Cut, Closed
<1>4. \A n, k : Count(n, k) => Count(n, k)'
  BY <1>1 DEF Count, Whole
<1>5. \A f \in FrameType : Waiting(f) => Waiting(f)'
  BY <1>4 DEF Waiting
<1>6. \A f \in FrameType : f.dev \in Nat
  BY Units DEF FrameType
<1>7. \A f \in FrameType : Placed(f) => Placed(f)'
  BY <1>1, <1>2, <1>4, <1>6 DEF Placed
<1>8. \A f, g \in FrameType : Placing(f, g) => Placing(f, g)'
  BY <1>1, <1>4 DEF Placing, Room, Whole
<1> QED BY <1>3, <1>4, <1>5, <1>7, <1>8

\* A return, and going on to the next device, with what they have to count.
LEMMA ReturnsCounts ==
  ASSUME IInv, TableInv, stack # <<>>, stack' = Callers, UNCHANGED <<Walk, resets>>,
         Len(stack) = 1 => Count(0, 3),
         Len(stack) = 2 => Placed(stack[1])
  PROVE  TableInv'
<1>1. stack \in Seq(FrameType) /\ Len(stack) \in {1, 2}
  BY LengthOfStack DEF IInv
<1>2. CASE Len(stack) = 1
  <2>1. Len(stack') = 0
    BY <1>1, <1>2, Frames
  <2>2. Count(0, 3)'
    BY <1>2, CountStays
  <2> QED BY <2>1, <2>2, CountStays DEF TableInv, Counts
<1>3. CASE Len(stack) = 2
  <2>1. /\ Callers \in Seq(FrameType) /\ Len(Callers) = 2 - 1 /\ Callers[1] = stack[1]
        /\ \A i \in 1 .. 2 : stack[i] \in FrameType
    BY <1>1, <1>3, Frames
  <2>2. /\ stack' \in Seq(FrameType) /\ Len(stack') = 1 /\ stack'[1] = stack[1]
        /\ stack[1] \in FrameType /\ stack' # <<>>
    BY <2>1, EmptySeq
  <2>3. stack[1].bridge # 0
    <3>1. stack[1].bridge \in DOMAIN mapa /\ mapa \in Seq(EntryType)
      BY <1>3 DEF IInv, StackInv, Below, Inside, Tables
    <3> QED BY <3>1, LenProperties
  <2>4. ASSUME NEW t \in FrameType, t = stack[1] PROVE Counts'
    <3>1. Placed(t)
      BY <1>3, <2>4 DEF Placed
    <3>2. Placed(t)'
      BY <3>1, CountStays
    <3> QED BY <2>2, <2>3, <2>4, <3>2 DEF Counts, Placed
  <2> QED BY <2>2, <2>4, CountStays DEF TableInv
<1> QED BY <1>1, <1>2, <1>3

\* Only a bus whose device is missing, or is no device, is scanned further.
LEMMA ContinuesCounts ==
  ASSUME IInv, TableInv, Scanning, stack' = NextDevice, UNCHANGED <<Walk, resets>>,
         Len(stack) = 1 => NextPort(stack[1].dev + 1) = NextPort(stack[1].dev),
         Len(stack) = 2 => ~Whole
  PROVE  TableInv'
<1> DEFINE e == [bus |-> Top.bus, dev |-> Top.dev + 1, bridge |-> 0]
<1>1. /\ stack \in Seq(FrameType) /\ Len(stack) \in {1, 2}
      /\ stack # <<>> /\ Top.bridge = 0 /\ Top.dev < 32
  BY LengthOfStack, Units DEF IInv, Scanning
<1>2. ASSUME Top \in FrameType
      PROVE  e \in FrameType /\ e.dev = Top.dev + 1 /\ e.bridge = 0
  <2>1. Top.bus \in Nat /\ Top.dev \in 0 .. 32
    BY <1>2, Units DEF FrameType
  <2>2. \A n \in 0 .. 32 : n < 32 => n + 1 \in 0 .. DEVICES
    BY DEF DEVICES
  <2>3. Top.dev + 1 \in 0 .. DEVICES
    BY <1>1, <2>1, <2>2
  <2> QED BY <2>1, <2>3 DEF FrameType
<1>3. stack' = Append(Callers, e)
  BY DEF NextDevice
<1> HIDE DEF e
<1>4. CASE Len(stack) = 1
  <2>1. /\ Top = stack[1] /\ Top \in FrameType /\ e \in FrameType
        /\ Len(stack') = 1 /\ stack'[1] = e /\ stack' # <<>>
    BY <1>1, <1>2, <1>3, <1>4, Frames, EmptySeq
  <2>2. ASSUME NEW t \in FrameType, t = e PROVE Counts'
    <3>1. t.bridge = 0 /\ NextPort(t.dev) = NextPort(stack[1].dev)
      BY <1>2, <1>4, <2>1, <2>2
    <3>2. Waiting(t)
      BY <1>1, <1>4, <2>1, <3>1 DEF TableInv, Counts, Waiting
    <3>3. Waiting(t)'
      BY <3>2, CountStays
    <3> QED BY <2>1, <2>2, <3>1, <3>3 DEF Counts, Waiting
  <2> QED BY <2>1, <2>2, CountStays DEF TableInv
<1>5. CASE Len(stack) = 2
  <2>1. /\ Top = stack[2] /\ Top \in FrameType /\ e \in FrameType
        /\ Append(Callers, e) \in Seq(FrameType) /\ Len(Append(Callers, e)) = 2
        /\ Append(Callers, e)[2] = e /\ Append(Callers, e)[1] = stack[1]
        /\ stack[1] \in FrameType
    BY <1>1, <1>2, <1>5, Frames
  <2>2. Len(stack') = 2 /\ stack'[1] = stack[1] /\ stack'[2] = e /\ stack' # <<>>
    BY <1>3, <2>1, EmptySeq
  <2>3. ASSUME NEW t \in FrameType, NEW g \in FrameType, t = stack[1], g = e PROVE Counts'
    <3>1. Placing(t, g)
      BY <1>5, <2>3 DEF TableInv, Counts, Placing
    <3>2. Placing(t, g)'
      BY <3>1, CountStays
    <3> QED BY <2>2, <2>3, <3>2 DEF Counts, Placing
  <2> QED BY <2>1, <2>3, CountStays DEF TableInv
<1> QED BY <1>1, <1>4, <1>5
\* At the end of bus 0 all its ports are counted.
LEMMA WaitingCounts ==
  ASSUME IInv, TableInv, stack # <<>>, Top.bridge = 0, Len(stack) = 1
  PROVE  Count(0, 3)
<1>1. stack \in Seq(FrameType)
  BY LengthOfStack DEF IInv
<1>2. Waiting(stack[1])
  <2>1. stack[1].bridge = 0
    BY <1>1, Frames
  <2> QED BY <2>1 DEF TableInv, Counts
<1>3. NextPort(stack[1].dev) - 1 \in 0 .. 3
  BY DEF NextPort
<1>4. Len(mapa) \in Nat
  BY LenProperties DEF IInv, Tables
<1> QED BY <1>2, <1>3, <1>4 DEF Waiting, Count

\* A bridge with nothing to place behind it.
LEMMA NothingPlaced ==
  ASSUME IInv, TableInv, Len(stack) = 2, ~Whole, Total(stack[1].dev) = 0
  PROVE  Placed(stack[1])
<1>1. Below(stack[1], stack[2]) /\ Placing(stack[1], stack[2])
  BY DEF IInv, StackInv, TableInv, Counts
<1>2. /\ offset_BAR_Pos = GRANULE * First(stack[1].dev) /\ offset_BAR_Pos \in Int
      /\ stack[1].dev \in Ports /\ Len(mapa) \in Nat
  BY <1>1, LenProperties DEF Below, Inside, IInv, Tables
<1>3. offset_BAR_Pos = (GRANULE * First(stack[1].dev)) + Total(stack[1].dev)
  BY <1>2
<1>4. Count(0, stack[1].dev)
  BY <1>1, <1>2, Units DEF Placing, Count
<1> QED BY <1>3, <1>4 DEF Placed

\* The steps that place nothing.
LEMMA EmptyBusKeeps ==
  ASSUME IInv, EmptyBus
  PROVE  IInv' /\ (TableIsEven /\ TableInv => TableInv')
<1>1. /\ Scanning /\ stack # <<>> /\ Answering(Base) = {} /\ Top.bus # 0
      /\ stack' = Callers /\ UNCHANGED Walk /\ UNCHANGED resets
  BY DEF EmptyBus, Scanning, Walk, Registers
<1>2. stack \in Seq(FrameType) /\ stack[1].bus = 0 /\ Len(stack) \in {1, 2}
  BY <1>1, LengthOfStack DEF IInv
<1>4. Len(stack) = 2
  <2>1. ASSUME Len(stack) = 1 PROVE Top = stack[1]
    BY <1>2, <2>1, Frames
  <2> QED BY <1>1, <1>2, <2>1
<1>5. ASSUME TableInv PROVE TableInv'
  <2>1. Below(stack[1], stack[2]) /\ board[stack[1].dev] = Nothing
    BY <1>1, <1>4, ScanAnswers
  <2>2. ~Whole /\ Total(stack[1].dev) = 0
    BY <2>1 DEF Whole, Total, Below, Inside
  <2>3. Placed(stack[1])
    BY <1>4, <1>5, <2>2, NothingPlaced
  <2> QED BY <1>1, <1>4, <1>5, <2>3, ReturnsCounts
<1>3. ASSUME Len(stack) = 2 PROVE Returned(stack[1])
  <2>1. Below(stack[1], stack[2]) /\ board[stack[1].dev] = Nothing
    BY <1>1, <1>3, ScanAnswers
  <2>2. Total(stack[1].dev) = 0
    BY <2>1 DEF Total
  <2> QED BY <2>1, <2>2, Rooms DEF Returned, Below, Inside, IInv, Tables
<1> QED BY <1>1, <1>3, <1>5, Returns

\* A slot of bus 0 without a port, or what is left of an empty link.
LEMMA EmptySlotKeeps ==
  ASSUME IInv, EmptySlot
  PROVE  IInv' /\ (TableIsEven /\ TableInv => TableInv')
<1>1. /\ Scanning /\ stack # <<>> /\ Answering(Base) = {} /\ ~(Top.bus # 0 /\ Top.dev = 0)
      /\ stack' = NextDevice /\ UNCHANGED Walk /\ UNCHANGED resets
  BY DEF EmptySlot, Scanning, Walk, Registers
<1>2. stack \in Seq(FrameType) /\ Top.dev < 32
  BY <1>1, LengthOfStack, Units DEF IInv, Scanning
<1>3. ASSUME Len(stack) = 1 PROVE NextPort(stack[1].dev + 1) = NextPort(stack[1].dev)
  <2>1. stack[1].dev \notin Ports
    BY <1>1, <1>3, ScanAnswers
  <2>2. stack[1].dev \in 0 .. 32
    BY <1>2, <1>3, Frames, Units DEF FrameType
  <2> QED BY <2>1, <2>2, Units DEF NextPort
<1>4. ASSUME Len(stack) = 2 PROVE Total(stack[1].dev) = 0
  <2>1. Below(stack[1], stack[2]) /\ board[stack[1].dev] = Nothing
    BY <1>1, <1>4, ScanAnswers
  <2> QED BY <2>1 DEF Total
<1>5. ASSUME TableInv PROVE TableInv'
  <2>1. ASSUME Len(stack) = 2 PROVE ~Whole
    <3>1. Below(stack[1], stack[2]) /\ board[stack[1].dev] = Nothing
      BY <1>1, <2>1, ScanAnswers
    <3> QED BY <3>1 DEF Whole, Below, Inside
  <2> QED BY <1>1, <1>3, <1>5, <2>1, ContinuesCounts
<1> QED BY <1>1, <1>3, <1>4, <1>5, Continues

\* With a full table the call for bus 0 ends; one below was not begun with it.
LEMMA TableFullKeeps ==
  ASSUME IInv, TableFull
  PROVE  IInv' /\ (TableIsEven /\ TableInv => TableInv')
<1>1. /\ Scanning /\ stack # <<>> /\ Full /\ Top.bridge = 0
      /\ stack' = Callers /\ UNCHANGED Walk /\ UNCHANGED resets
  BY DEF TableFull, Scanning, Walk, Registers, Full
<1>2. ASSUME Len(stack) = 2 PROVE Returned(stack[1])
  <2>1. Below(stack[1], stack[2])
    BY <1>1, <1>2, ScanIsBetweenOrBelow
  <2> QED BY <1>1, <2>1 DEF Returned, Below
<1>3. ASSUME TableInv PROVE TableInv'
  <2>1. Len(stack) # 2
    BY <1>1, <1>3 DEF TableInv, Counts, Placing, Full
  <2>2. Len(stack) = 1 => Count(0, 3)
    BY <1>1, <1>3, WaitingCounts
  <2> QED BY <1>1, <1>3, <2>1, <2>2, ReturnsCounts
<1> QED BY <1>1, <1>2, <1>3, Returns

\* All 32 devices of bus 0, or of a link with nothing to place.
LEMMA EndOfBusKeeps ==
  ASSUME IInv, EndOfBus
  PROVE  IInv' /\ (TableIsEven /\ TableInv => TableInv')
<1>1. /\ stack # <<>> /\ Top.bridge = 0 /\ Top.dev = 32
      /\ stack' = Callers /\ UNCHANGED Walk /\ UNCHANGED resets
  BY Units DEF EndOfBus, Walk, Registers
<1>2. stack \in Seq(FrameType)
  BY <1>1, LengthOfStack DEF IInv
<1>3. ASSUME Len(stack) = 2 PROVE Returned(stack[1])
  <2>1. Below(stack[1], stack[2])
    BY <1>1, <1>3, ScanIsBetweenOrBelow
  <2>2. stack[2].dev = 32
    BY <1>1, <1>2, <1>3, Frames
  <2>3. Total(stack[1].dev) = 0 /\ offset_BAR_Pos = GRANULE * First(stack[1].dev)
    BY <2>1, <2>2 DEF Below
  <2>4. GRANULE * First(stack[1].dev) \in Int
    BY <2>3 DEF IInv, Tables
  <2> QED BY <2>1, <2>3, <2>4 DEF Returned, Below
<1>4. ASSUME TableInv PROVE TableInv'
  <2>1. ASSUME Len(stack) = 2 PROVE Placed(stack[1])
    <3>1. Below(stack[1], stack[2]) /\ stack[2].dev = 32
      BY <1>1, <1>2, <2>1, Frames, ScanIsBetweenOrBelow
    <3>2. ~Whole /\ Total(stack[1].dev) = 0
      BY <1>4, <2>1, <3>1 DEF TableInv, Counts, Placing, Below
    <3> QED BY <1>4, <2>1, <3>2, NothingPlaced
  <2>2. Len(stack) = 1 => Count(0, 3)
    BY <1>1, <1>4, WaitingCounts
  <2> QED BY <1>1, <1>4, <2>1, <2>2, ReturnsCounts
<1> QED BY <1>1, <1>3, <1>4, Returns

\* What is no device and no bridge gets no room.
LEMMA SkipOtherKeeps ==
  ASSUME IInv, NEW f \in Functions, SkipOther(f)
  PROVE  IInv' /\ (TableIsEven /\ TableInv => TableInv')
<1>1. /\ Scanning /\ stack # <<>> /\ f \in Answering(Base) /\ Header(f) \notin {0, 1}
      /\ stack' = NextDevice /\ UNCHANGED Walk /\ UNCHANGED resets
  BY DEF SkipOther, Present, Scanning, Walk, Registers
<1>2. Len(stack) = 2 /\ f = EndPoint(stack[1].dev)
  BY <1>1, ScanAnswers DEF Header, Port
<1>3. Total(stack[1].dev) = 0
  BY <1>1, <1>2 DEF Header, EndPoint, Total
<1>4. ASSUME TableInv PROVE TableInv'
  <2>1. stack[1].dev \in Ports
    BY <1>1, <1>2, ScanAnswers DEF Below, Inside, Port, EndPoint
  <2>2. ~Whole
    BY <1>1, <1>2, <2>1 DEF Whole, Header, EndPoint
  <2> QED BY <1>1, <1>2, <1>4, <2>2, ContinuesCounts
<1> QED BY <1>1, <1>2, <1>3, <1>4, Continues

\* A device is placed from where its bridge begins, whole.
LEMMA EnumerateDeviceKeeps ==
  ASSUME IInv, NEW f \in Functions, EnumerateDevice(f)
  PROVE  IInv' /\ (TableIsEven /\ TableInv => TableInv')
<1> DEFINE p == stack[1].dev
           sizes == board[p].bars
           o == offset_BAR_Pos
<1>1. /\ Scanning /\ stack # <<>> /\ f \in Answering(Base) /\ Header(f) = 0
      /\ board' = board /\ port' = port /\ next_bus_number' = next_bus_number
      /\ stack' = Callers
  BY DEF EnumerateDevice, Present, Scanning
<1>2. /\ Len(stack) = 2 /\ Below(stack[1], stack[2]) /\ f = EndPoint(p)
      /\ board[p] # Nothing
  BY <1>1, ScanAnswers DEF Header, Port
<1>3. f.at = p /\ board[p].header = 0 /\ ClassCode(f) = board[p].class
  BY <1>1, <1>2 DEF Header, EndPoint, ClassCode
<1>4. /\ p \in Ports /\ \A i \in 1 .. 4 : sizes[i] \in Nat /\ BarRoom(sizes[i]) \in Nat
      /\ o = GRANULE * First(p) /\ o \in Int
  <2>1. p \in Ports /\ o = GRANULE * First(p) /\ o \in Int
    BY <1>2 DEF Below, Inside, IInv, Tables
  <2>2. \A i \in 1 .. 4 : sizes[i] \in Nat
    BY <2>1, BoardAssumption DEF IInv, Tables
  <2> QED BY <2>1, <2>2, BarRoomIsNat
<1>5. /\ BarOffset(sizes)[1] = o
      /\ BarOffset(sizes)[5] = o + BarRoom(sizes[1]) + BarRoom(sizes[2])
                               + BarRoom(sizes[3]) + BarRoom(sizes[4])
  BY DEF BarOffset
<1>6. Total(p) = BarRoom(sizes[1]) + BarRoom(sizes[2]) + BarRoom(sizes[3]) + BarRoom(sizes[4])
  BY <1>2, <1>3 DEF Total
<1>7. BarOffset(sizes)[5] = o + Total(p) /\ o + Total(p) \in Int
  BY <1>4, <1>5, <1>6
<1>8. /\ offset_BAR_Pos' = o + Total(p)
      /\ mapa' = Append(mapa, Entry(f, o, o + Total(p)))
  BY <1>3, <1>5, <1>7 DEF EnumerateDevice
<1>9. stack \in Seq(FrameType) /\ stack[1].bus = 0 /\ mapa \in Seq(EntryType)
  BY <1>1, LengthOfStack DEF IInv, Tables
<1>10. Entry(f, o, o + Total(p)) \in EntryType
  <2>1. Top \in FrameType
    BY <1>2, <1>9, Frames
  <2>2. board[p].class \in Classes
    BY <1>4, SMTT(30) DEF IInv, Tables, Classes
  <2>3. MIN_BAR_POS \in Int
    BY Units DEF MIN_BAR_POS
  <2>4. MIN_BAR_POS + o \in Int /\ MIN_BAR_POS + (o + Total(p)) \in Int
    BY <1>4, <1>7, <2>3
  <2> QED BY <1>3, <2>1, <2>2, <2>4 DEF Entry, EntryType, FrameType
<1>11. /\ mapa' \in Seq(EntryType) /\ Len(mapa') = Len(mapa) + 1
       /\ \A i \in DOMAIN mapa : i \in DOMAIN mapa' /\ mapa'[i] = mapa[i]
  BY <1>8, <1>9, <1>10, AppendProperties, LenProperties
<1> HIDE DEF o, sizes
<1>12. \A q \in Nat : Total(q)' = Total(q) /\ First(q)' = First(q)
  BY <1>1, BoardDecides
<1>13. Tables'
  BY <1>1, <1>7, <1>8, <1>11 DEF IInv, Tables
<1>14. \A q \in Ports : ~Cut(q) /\ ~Cut(q)'
  BY <1>1, <1>2 DEF Below, Inside, Cut, Closed
<1>15. PortsInv' /\ CutInv'
  <2>1. \A q \in Ports : q \in Nat /\ q + 1 \in Nat
    BY Units
  <2>2. \A q \in Ports : Given(q) => Given(q)'
    BY <1>1, <1>12, <2>1 DEF Given
  <2>3. \A q \in Ports : PortInv(q) => PortInv(q)'
    BY <1>1, <2>2 DEF PortInv, Closed
  <2> QED BY <1>1, <1>14, <2>3 DEF IInv, PortsInv, CutInv
<1>16. /\ stack' \in Seq(FrameType) /\ Len(stack') = 1 /\ stack'[1] = stack[1]
       /\ stack[1] \in FrameType
  <2>1. /\ Callers \in Seq(FrameType) /\ Len(Callers) = 2 - 1 /\ Callers[1] = stack[1]
        /\ \A i \in 1 .. 2 : stack[i] \in FrameType
    BY <1>2, <1>9, Frames
  <2> QED BY <1>1, <2>1
<1>17. Returned(stack[1])'
  <2>1. p \in Nat
    BY <1>4, Units
  <2>2. Inside(stack[1])'
    BY <1>1, <1>2, <1>11, <1>12, <1>14, <1>16, <2>1 DEF Below, Inside
  <2>3. offset_BAR_Pos' = (GRANULE * First(p)) + Total(p)
    BY <1>4, <1>8
  <2>4. (offset_BAR_Pos = (GRANULE * First(stack[1].dev)) + Total(stack[1].dev))'
    BY <1>12, <1>16, <2>1, <2>3
  <2> QED BY <2>2, <2>4 DEF Returned
<1>18. IInv'
  BY <1>9, <1>13, <1>15, <1>16, <1>17 DEF IInv, StackInv
<1>19. ASSUME TableInv PROVE TableInv'
  <2>1. Len(mapa) \in Nat /\ resets' = resets /\ Placing(stack[1], stack[2])
    BY <1>2, <1>9, <1>19, LenProperties DEF EnumerateDevice, TableInv, Counts
  <2>2. \A i \in DOMAIN mapa' : mapa'[i].ClassCode \in Named
    <3>1. mapa'[Len(mapa) + 1].ClassCode = board[p].class
      BY <1>3, <1>8, <1>9, <1>10, AppendProperties DEF Entry
    <3>2. board[p].class \in Named
      BY <1>3, <1>4 DEF Named
    <3>3. DOMAIN mapa' = 1 .. (Len(mapa) + 1) /\ DOMAIN mapa = 1 .. Len(mapa)
      BY <1>9, <1>11, LenProperties
    <3>4. \A i \in DOMAIN mapa : mapa[i].ClassCode \in Named
      BY <1>19 DEF TableInv, Table
    <3> QED BY <1>11, <2>1, <3>1, <3>2, <3>3, <3>4
  <2>3. Table'
    BY <1>1, <1>14, <1>19, <2>1, <2>2 DEF TableInv, Table, Named, Whole
  <2>4. stack[1].bridge # 0
    BY <1>2, <1>9, LenProperties DEF Below, Inside
  <2>5. ASSUME NEW t \in FrameType, t = stack[1] PROVE Placed(t)'
    <3>1. t.dev = p /\ t.dev \in Nat
      BY <1>4, <2>5, Units
    <3>2. Total(t.dev)' = Total(p) /\ First(t.dev)' = First(p)
      BY <1>12, <3>1
    <3>3. offset_BAR_Pos' = (GRANULE * First(p)) + Total(p)
      BY <1>4, <1>8
    <3>4. Count(0, t.dev)'
      BY <1>1, <1>11, <2>1, <3>1 DEF Placing, Count, Whole
    <3> QED BY <3>2, <3>3, <3>4 DEF Placed
  <2>6. ASSUME NEW t \in FrameType, t = stack[1] PROVE Counts'
    <3>1. Placed(t)'
      BY <2>5, <2>6
    <3>2. Len(<<>>) = 0 /\ Len(stack') = 1
      BY <1>16, EmptySeq
    <3>3. stack' # <<>>
      BY <3>2
    <3> QED BY <1>16, <2>4, <2>6, <3>1, <3>3 DEF Counts, Placed
  <2> QED BY <1>16, <2>3, <2>6 DEF TableInv
<1> QED BY <1>18, <1>19

\* A bridge is entered on a window's edge, with the bus number of its port,
\* and only while the table has room: no window has been taken away then.
LEMMA EnterBridgeIs ==
  ASSUME IInv, NEW f \in Functions, EnterBridge(f), NEW d, d = stack[1].dev
  PROVE  /\ stack \in Seq(FrameType) /\ Len(stack) = 1 /\ Between(stack[1])
         /\ stack[1].bridge = 0 /\ d \in Ports /\ d \in 1 .. 3 /\ Room
         /\ next_bus_number = d /\ First(d) \in Nat /\ GRANULE * First(d) \in Int
         /\ next_bus_number' = d + 1 /\ offset_BAR_Pos' = GRANULE * First(d)
         /\ board' = board /\ bar' = bar /\ resets' = resets
         /\ Len(mapa) \in Nat /\ mapa' \in Seq(EntryType) /\ Len(mapa') = Len(mapa) + 1
         /\ DOMAIN mapa = 1 .. Len(mapa) /\ DOMAIN mapa' = 1 .. (Len(mapa) + 1)
         /\ \A i \in DOMAIN mapa : mapa'[i] = mapa[i]
         /\ mapa'[Len(mapa) + 1].ClassCode = BRIDGE
         /\ mapa'[Len(mapa) + 1].start_address = MIN_BAR_POS + (GRANULE * First(d))
         /\ stack' \in Seq(FrameType) /\ Len(stack') = 2
         /\ \A k \in {1, 2} : stack'[k] \in FrameType
         /\ stack'[1].bus = 0 /\ stack'[1].dev = d /\ stack'[1].bridge = Len(mapa) + 1
         /\ stack'[2].bus = d /\ stack'[2].dev = 0 /\ stack'[2].bridge = 0
         /\ port' \in [Ports -> PortType]
         /\ \A q \in Ports : /\ port'[q].command = port[q].command
                            /\ port'[q].mbase = port[q].mbase
                            /\ port'[q].mlimit = port[q].mlimit
         /\ \A q \in Ports \ {d} : port'[q] = port[q]
         /\ port'[d].primary = 0 /\ port'[d].secondary = d /\ port'[d].subordinate = d
<1> DEFINE o == GRANULE * First(d)
           e == Entry(f, o, o)
           top == [Top EXCEPT !.bridge = Len(mapa) + 1]
<1>1. /\ Scanning /\ stack # <<>> /\ f \in Answering(Base) /\ Header(f) = 1 /\ Room
      /\ board' = board /\ bar' = bar /\ resets' = resets
      /\ next_bus_number' = next_bus_number + 1
      /\ port' = [port EXCEPT ![f.at] = Forwarding(@, Top.bus, next_bus_number)]
  BY DEF EnterBridge, Present, Scanning
<1>2. stack \in Seq(FrameType) /\ stack[1].bus = 0 /\ mapa \in Seq(EntryType)
  BY <1>1, LengthOfStack DEF IInv, Tables
<1>3. /\ Len(stack) = 1 /\ Between(stack[1]) /\ d \in Ports /\ f = Port(d)
  <2>1. ASSUME Len(stack) = 2, Below(stack[1], stack[2]), f = EndPoint(stack[1].dev)
        PROVE  FALSE
    <3>1. board[stack[1].dev].header = 1 /\ stack[1].dev \in Ports
      BY <1>1, <2>1 DEF Header, EndPoint, Below, Inside
    <3> QED BY <3>1, BoardAssumption DEF IInv, Tables
  <2> QED BY <1>1, <2>1, ScanAnswers
<1>4. f.at = d /\ ClassCode(f) = BRIDGE /\ d \in 1 .. 3
  BY <1>3, Units DEF Port, ClassCode
<1>5. Top = stack[1] /\ stack[1] \in FrameType
  BY <1>2, <1>3, Frames
<1>6. next_bus_number = d /\ offset_BAR_Pos = o /\ First(d) \in Nat /\ o \in Int
  <2>1. NextPort(d) = d
    BY <1>4 DEF NextPort
  <2>2. next_bus_number = d /\ offset_BAR_Pos = o
    BY <1>1, <1>3, <2>1 DEF Between, Full
  <2> QED BY <1>4, <2>2, Rooms DEF IInv, Tables
<1>7. RoundUp(offset_BAR_Pos, GRANULE) = o
  <2>1. RoundUp((GRANULE * First(d)) + 0, GRANULE) = GRANULE * (First(d) + Up(0)) /\ Up(0) = 0
    BY <1>6, UpIsNat
  <2>2. (GRANULE * First(d)) + 0 = GRANULE * First(d) /\ First(d) + 0 = First(d)
    BY <1>6
  <2> QED BY <1>6, <2>1, <2>2
<1>8. ~(next_bus_number >= BUSES)
  BY <1>4, <1>6, Units
<1>9. /\ offset_BAR_Pos' = o /\ mapa' = Append(mapa, e)
      /\ stack' = Append(Append(Callers, top), Frame(d))
  BY <1>6, <1>7, <1>8 DEF EnterBridge
<1>10. e \in EntryType /\ e.start_address = MIN_BAR_POS + o /\ e.ClassCode = BRIDGE
  <2>1. MIN_BAR_POS \in Int
    BY Units DEF MIN_BAR_POS
  <2>2. MIN_BAR_POS + o \in Int
    BY <1>6, <2>1
  <2>3. BRIDGE \in Classes
    BY DEF Classes
  <2> QED BY <1>4, <1>5, <2>2, <2>3 DEF Entry, EntryType, FrameType
<1> HIDE DEF e
<1>11. /\ Len(mapa) \in Nat /\ mapa' \in Seq(EntryType)
       /\ mapa'[Len(mapa) + 1] = e /\ Len(mapa') = Len(mapa) + 1
       /\ DOMAIN mapa = 1 .. Len(mapa) /\ DOMAIN mapa' = 1 .. (Len(mapa) + 1)
       /\ \A k \in DOMAIN mapa : mapa'[k] = mapa[k]
  BY <1>2, <1>9, <1>10, AppendProperties, LenProperties
<1>12. /\ top \in FrameType /\ top.dev = d /\ top.bus = 0 /\ top.bridge = Len(mapa) + 1
  <2>1. Len(mapa) + 1 \in Nat
    BY <1>11
  <2> QED BY <1>2, <1>5, <2>1 DEF FrameType
<1>13. Frame(d) \in FrameType /\ Frame(d).bus = d /\ Frame(d).dev = 0 /\ Frame(d).bridge = 0
  BY <1>4, Units DEF Frame, FrameType
<1> HIDE DEF top
<1>14. /\ stack' \in Seq(FrameType) /\ Len(stack') = 2
       /\ stack'[1] = top /\ stack'[2] = Frame(d)
  <2>1. /\ Append(Callers, top) \in Seq(FrameType) /\ Len(Append(Callers, top)) = 1
        /\ Append(Callers, top)[1] = top
    BY <1>2, <1>3, <1>12, Frames
  <2> QED BY <1>9, <1>13, <2>1, AppendProperties
<1>15. /\ port' \in [Ports -> PortType]
       /\ \A q \in Ports : /\ port'[q].command = port[q].command
                          /\ port'[q].mbase = port[q].mbase
                          /\ port'[q].mlimit = port[q].mlimit
       /\ \A q \in Ports \ {d} : port'[q] = port[q]
       /\ port'[d].primary = 0 /\ port'[d].secondary = d /\ port'[d].subordinate = d
  <2>1. port \in [Ports -> PortType] /\ Top.bus = 0 /\ d \in Ports /\ d \in Nat
    BY <1>2, <1>3, <1>4, <1>5, Units DEF IInv, PortsInv
  <2>2. port' = [port EXCEPT ![d] = Forwarding(port[d], 0, d)]
    BY <1>1, <1>4, <1>6, <2>1
  <2>3. Forwarding(port[d], 0, d) \in PortType
    BY <2>1 DEF Forwarding, PortType
  <2> QED BY <2>1, <2>2, <2>3 DEF Forwarding, PortType
<1>16. \A k \in {1, 2} : stack'[k] \in FrameType
  BY <1>12, <1>13, <1>14
<1>17. next_bus_number' = d + 1
  BY <1>1, <1>6
<1>18. stack[1].bridge = 0
  BY <1>3 DEF Between
<1> HIDE DEF o
<1> QED BY <1>1, <1>2, <1>3, <1>4, <1>6, <1>9, <1>10, <1>11, <1>12, <1>13, <1>14,
           <1>15, <1>16, <1>17, <1>18 DEF o

\* So entered, it keeps to what the board decides; the table had room, so no
\* window has been taken away.
LEMMA EnterBridgeKeeps ==
  ASSUME IInv, NEW f \in Functions, EnterBridge(f)
  PROVE  IInv' /\ (TableIsEven /\ TableInv => TableInv')
<1> DEFINE d == stack[1].dev
           o == GRANULE * First(d)
<1>1. /\ Len(stack) = 1 /\ Between(stack[1]) /\ d \in Ports /\ d \in 1 .. 3 /\ Room
      /\ stack[1].bridge = 0 /\ First(d) \in Nat /\ o \in Int
      /\ next_bus_number' = d + 1 /\ offset_BAR_Pos' = o
      /\ board' = board /\ resets' = resets
  BY EnterBridgeIs
<1>2. /\ Len(mapa) \in Nat /\ mapa' \in Seq(EntryType) /\ Len(mapa') = Len(mapa) + 1
      /\ DOMAIN mapa = 1 .. Len(mapa) /\ DOMAIN mapa' = 1 .. (Len(mapa) + 1)
      /\ \A i \in DOMAIN mapa : mapa'[i] = mapa[i]
      /\ mapa'[Len(mapa) + 1].ClassCode = BRIDGE
      /\ mapa'[Len(mapa) + 1].start_address = MIN_BAR_POS + o
  BY EnterBridgeIs
<1>3. /\ stack' \in Seq(FrameType) /\ Len(stack') = 2
      /\ \A k \in {1, 2} : stack'[k] \in FrameType
      /\ stack'[1].bus = 0 /\ stack'[1].dev = d /\ stack'[1].bridge = Len(mapa) + 1
      /\ stack'[2].bus = d /\ stack'[2].dev = 0 /\ stack'[2].bridge = 0
  BY EnterBridgeIs
<1>4. /\ port' \in [Ports -> PortType]
      /\ \A q \in Ports : /\ port'[q].command = port[q].command
                         /\ port'[q].mbase = port[q].mbase
                         /\ port'[q].mlimit = port[q].mlimit
      /\ \A q \in Ports \ {d} : port'[q] = port[q]
      /\ port'[d].primary = 0 /\ port'[d].secondary = d /\ port'[d].subordinate = d
  BY EnterBridgeIs
<1> HIDE DEF d, o
<1>5. \A q \in Nat : Total(q)' = Total(q) /\ First(q)' = First(q)
  BY <1>1, BoardDecides
<1>6. Tables'
  BY <1>1, <1>2 DEF IInv, Tables
<1>7. \A q \in Ports : ~Cut(q) /\ ~Cut(q)'
  BY <1>1, <1>4 DEF IInv, CutInv, Full, Cut, Closed
<1>8. PortsInv' /\ CutInv'
  <2>1. \A q \in Ports : q \in Nat /\ q + 1 \in Nat
    BY Units
  <2>2. \A q \in Ports : Given(q) => Given(q)'
    BY <1>4, <1>5, <2>1 DEF Given
  <2>3. ASSUME NEW q \in Ports PROVE PortInv(q)'
    <3>1. PortInv(q)
      BY DEF IInv, PortsInv
    <3>2. q # d => port'[q] = port[q]
      BY <1>4
    <3> QED BY <1>4, <2>2, <3>1, <3>2 DEF PortInv, Closed
  <2> QED BY <1>4, <1>7, <2>3 DEF PortsInv, CutInv
<1>9. ASSUME NEW t \in FrameType, NEW g \in FrameType, t = stack'[1], g = stack'[2]
       PROVE  Below(t, g)'
  <2>1. /\ t.dev \in Ports /\ t.dev \in Nat /\ t.dev = d /\ t.bridge = Len(mapa) + 1
        /\ g.bus = t.dev /\ g.dev = 0 /\ g.bridge = 0
    BY <1>1, <1>3, <1>9, Units
  <2>2. First(t.dev)' = First(t.dev)
    BY <1>5, <2>1
  <2>3. First(d) = First(t.dev)
    BY <2>1
  <2>4. /\ offset_BAR_Pos' = GRANULE * First(t.dev)'
        /\ mapa'[t.bridge].start_address = MIN_BAR_POS + (GRANULE * First(t.dev)')
    BY <1>1, <1>2, <2>1, <2>2, <2>3 DEF o
  <2>5. Inside(t)'
    BY <1>1, <1>2, <1>4, <1>7, <2>1, <2>4 DEF Inside, d
  <2> QED BY <2>1, <2>4, <2>5 DEF Below
<1>10. Below(stack[1], stack[2])'
  <2>1. ASSUME NEW t \in FrameType, NEW g \in FrameType, t = stack'[1], g = stack'[2]
        PROVE  Below(stack[1], stack[2])'
    BY <1>9, <2>1 DEF Below, Inside
  <2> QED BY <1>3, <2>1
<1>11. IInv'
  BY <1>3, <1>6, <1>8, <1>10 DEF IInv, StackInv
<1>12. ASSUME TableIsEven, TableInv PROVE TableInv'
  <2>1. resets' = resets /\ Len(mapa') = Len(mapa) + 1
    BY <1>1, <1>2
  <2>2. Waiting(stack[1]) /\ NextPort(d) - 1 = d - 1
    BY <1>1, <1>12 DEF TableInv, Counts, NextPort, d
  <2>3. /\ Whole => Twice(Len(mapa))
        /\ resets = 0 => Len(mapa) <= 2 * (d - 1)
        /\ Whole \/ resets = 0
    BY <1>2, <1>12, <2>2 DEF Waiting, Count, d, TableInv, Table
  <2>4. Room'
    <3>1. PICK k \in Nat : k >= 3 /\ MAX_PCIE_DEVICES = 2 * k
      BY <1>12 DEF TableIsEven
    <3>2. CASE Whole
      <4>1. PICK n \in Nat : Len(mapa) = 2 * n
        BY <2>3, <3>2 DEF Twice
      <4>2. 2 * n < 2 * k
        BY <1>1, <3>1, <4>1 DEF Room
      <4> QED BY <2>1, <3>1, <4>1, <4>2 DEF Room
    <3>3. CASE resets = 0
      BY <1>1, <1>2, <2>1, <2>3, <3>1, <3>3 DEF Room
    <3> QED BY <2>3, <3>2, <3>3
  <2>5. \A i \in DOMAIN mapa' : mapa'[i].ClassCode \in Named
    <3>1. BRIDGE \in Named
      BY DEF Named
    <3>2. \A i \in DOMAIN mapa : mapa[i].ClassCode \in Named
      BY <1>12 DEF TableInv, Table
    <3> QED BY <1>2, <3>1, <3>2
  <2>6. Table'
    BY <1>1, <1>7, <1>12, <2>1, <2>5 DEF TableInv, Table, Named, Whole
  <2>7. ASSUME NEW t \in FrameType, NEW g \in FrameType, t = stack'[1], g = stack'[2]
        PROVE  Counts'
    <3>1. t.dev = d /\ g.dev = 0
      BY <1>3, <2>7
    <3>2. \A n \in Nat : n = Len(mapa) /\ Twice(n) => Twice(n + 1 + 1)
      <4>1. ASSUME NEW n \in Nat, Twice(n) PROVE Twice(n + 1 + 1)
        <5>1. PICK k \in Nat : n = 2 * k
          BY <4>1 DEF Twice
        <5>2. k + 1 \in Nat /\ n + 1 + 1 = 2 * (k + 1)
          BY <5>1
        <5> QED BY <5>2 DEF Twice
      <4> QED BY <4>1
    <3>3. Count(1, t.dev)'
      <4>1. Whole' => Twice(Len(mapa') + 1)
        BY <1>1, <1>2, <2>1, <2>3, <3>2 DEF Whole
      <4>2. resets' = 0 => Len(mapa') + 1 <= 2 * t.dev
        BY <1>1, <1>2, <2>1, <2>3, <3>1
      <4> QED BY <4>1, <4>2 DEF Count
    <3>4. Placing(t, g)'
      BY <2>4, <3>1, <3>3 DEF Placing
    <3>5. stack' # <<>> /\ Len(stack') # 1
      <4>1. Len(<<>>) = 0 /\ Len(stack') = 2
        BY <1>3, EmptySeq
      <4> QED BY <4>1
    <3> QED BY <2>7, <3>4, <3>5 DEF Counts, Placing
  <2> QED BY <1>3, <2>6, <2>7 DEF TableInv
<1> QED BY <1>11, <1>12

\* A bridge is left on a window's edge: with the window the board decides, or
\* with none, if nothing behind it needs one or the table was full.
LEMMA LeaveBridgeIs ==
  ASSUME IInv, NEW f \in Functions, LeaveBridge(f), NEW d, d = stack[1].dev
  PROVE  /\ stack \in Seq(FrameType) /\ Len(stack) = 1 /\ Returned(stack[1])
         /\ stack[1].bridge # 0 /\ stack[1].bridge \in DOMAIN mapa
         /\ d \in Ports /\ d \in 1 .. 3 /\ next_bus_number = d + 1
         /\ \A q \in Ports : ~Cut(q)
         /\ board' = board /\ bar' = bar /\ resets' = resets
         /\ next_bus_number' = next_bus_number /\ offset_BAR_Pos' \in Int
         /\ mapa' \in Seq(EntryType) /\ Len(mapa') = Len(mapa) /\ DOMAIN mapa' = DOMAIN mapa
         /\ \A i \in DOMAIN mapa : mapa'[i].ClassCode = mapa[i].ClassCode
         /\ \A i \in DOMAIN mapa : i # stack[1].bridge => mapa'[i] = mapa[i]
         /\ stack' \in Seq(FrameType) /\ Len(stack') = 1 /\ stack'[1] \in FrameType
         /\ stack'[1].bus = 0 /\ stack'[1].dev = d + 1 /\ stack'[1].bridge = 0
         /\ First(d) \in Nat /\ Total(d) \in Nat /\ First(d + 1) = First(d) + Up(Total(d))
         /\ Up(Total(d)) \in Nat /\ (Total(d) = 0 <=> Up(Total(d)) = 0)
         /\ GRANULE * First(d) \in Int
         /\ port' \in [Ports -> PortType]
         /\ \A q \in Ports \ {d} : port'[q] = port[q]
         /\ port'[d].primary = 0 /\ port'[d].secondary = d /\ port'[d].subordinate = d
         /\ \/ /\ Total(d) > 0 /\ First(d) < First(d + 1)
               /\ offset_BAR_Pos' = GRANULE * First(d + 1) /\ port'[d].command
               /\ port'[d].mbase = HIGH + First(d)
               /\ port'[d].mlimit = HIGH + First(d + 1) - 1
            \/ /\ Total(d) = 0 \/ Full
               /\ offset_BAR_Pos = GRANULE * First(d) /\ offset_BAR_Pos' = GRANULE * First(d)
               /\ port'[d].command = port[d].command
               /\ port'[d].mbase = 0 /\ port'[d].mlimit = 0
<1> DEFINE start == MIN_BAR_POS + (GRANULE * First(d))
           offset == IF offset_BAR_Pos > start - MIN_BAR_POS
                     THEN RoundUp(offset_BAR_Pos, GRANULE) ELSE offset_BAR_Pos
           end == MIN_BAR_POS + offset
           e == [bus |-> Top.bus, dev |-> Top.dev + 1, bridge |-> 0]
<1>1. /\ stack # <<>> /\ Top.bridge # 0 /\ f \in Answering(Base)
      /\ board' = board /\ next_bus_number' = next_bus_number
      /\ bar' = bar /\ resets' = resets /\ stack' = Append(Callers, e)
  BY DEF LeaveBridge, NextDevice
<1>2. /\ Len(stack) = 1 /\ Top = stack[1] /\ Returned(stack[1])
      /\ stack \in Seq(FrameType) /\ stack[1].bus = 0 /\ mapa \in Seq(EntryType)
  BY <1>1, BridgeIsReturned, LengthOfStack DEF IInv, Tables
<1>3. /\ d \in Ports /\ d \in 1 .. 3 /\ stack[1] \in FrameType /\ Top.bridge \in DOMAIN mapa
      /\ mapa[Top.bridge].start_address = start
      /\ next_bus_number = d + 1 /\ port[d].secondary = d
      /\ \A p \in Ports : ~Cut(p)
  BY <1>2, Frames, Units DEF Returned, Inside
<1>4. f.at = d
  <2>1. Base = ECAM_ADDR(0, d) /\ d \in 0 .. 31
    BY <1>2, <1>3 DEF Base
  <2>2. Answering(Base) = {Port(d)}
    BY <1>3, <2>1, RootAnswers DEF IInv, PortsInv
  <2> QED BY <1>1, <2>2 DEF Port
<1>5. /\ offset_BAR_Pos' = offset
      /\ mapa' = [mapa EXCEPT ![Top.bridge].end_address = end]
      /\ port' = [port EXCEPT ![d] =
                    WithWindow([@ EXCEPT !.subordinate = next_bus_number - 1], start, end)]
  BY <1>3, <1>4 DEF LeaveBridge
<1>6. /\ First(d) \in Nat /\ Total(d) \in Nat /\ First(d + 1) = First(d) + Up(Total(d))
      /\ Up(Total(d)) \in Nat /\ (Total(d) = 0 <=> Up(Total(d)) = 0)
      /\ GRANULE * First(d) \in Int /\ MIN_BAR_POS \in Int /\ GRANULE \in Nat \ {0}
  <2>1. GRANULE \in Nat \ {0} /\ MIN_BAR_POS \in Int
    BY Units DEF MIN_BAR_POS
  <2>2. First(d) \in Nat /\ Total(d) \in Nat /\ First(d + 1) = First(d) + Up(Total(d))
    BY <1>3, Rooms, SMTT(30) DEF IInv, Tables
  <2>3. Up(Total(d)) \in Nat /\ (Total(d) = 0 <=> Up(Total(d)) = 0)
    BY <2>2, UpIsNat
  <2> QED BY <2>1, <2>2, <2>3
\* Either the window of the board, or none.
<1>7. \/ /\ Total(d) > 0 /\ First(d) < First(d + 1)
         /\ offset = GRANULE * First(d + 1) /\ end > start
      \/ /\ offset_BAR_Pos = GRANULE * First(d) /\ (Total(d) = 0 \/ Full)
         /\ offset = GRANULE * First(d) /\ ~(end > start)
  <2>1. CASE offset_BAR_Pos = (GRANULE * First(d)) + Total(d) /\ Total(d) > 0
    <3>1. offset_BAR_Pos > start - MIN_BAR_POS
      BY <1>6, <2>1
    <3>2. RoundUp((GRANULE * First(d)) + Total(d), GRANULE) = GRANULE * (First(d) + Up(Total(d)))
      BY <1>6, UpIsNat
    <3>3. offset = GRANULE * First(d + 1)
      BY <1>6, <2>1, <3>1, <3>2
    <3>4. First(d) + 1 <= First(d + 1)
      BY <1>6, <2>1
    <3>5. GRANULE * (First(d) + 1) <= GRANULE * First(d + 1)
      BY <1>6, <3>4, Products
    <3>6. GRANULE * (First(d) + 1) = (GRANULE * First(d)) + GRANULE
      BY <1>6
    <3>7. end > start
      <4> DEFINE x == GRANULE * First(d)
                 y == GRANULE * First(d + 1)
                 G == GRANULE
      <4>1. x \in Int /\ y \in Int /\ G \in Nat \ {0} /\ x + G <= y
        BY <1>6, <3>4, <3>5, <3>6
      <4>2. end = MIN_BAR_POS + y /\ start = MIN_BAR_POS + x
        BY <3>3
      <4> HIDE DEF x, y, G, end, start
      <4> QED BY <1>6, <4>1, <4>2
    <3> QED BY <1>6, <2>1, <3>3, <3>4, <3>7
  <2>2. CASE offset_BAR_Pos = GRANULE * First(d) /\ (Total(d) = 0 \/ Full)
    <3>1. ~(offset_BAR_Pos > start - MIN_BAR_POS)
      BY <1>6, <2>2
    <3>2. offset = GRANULE * First(d)
      BY <2>2, <3>1
    <3>3. ~(end > start)
      BY <1>6, <3>2
    <3> QED BY <2>2, <3>2, <3>3
  <2>3. \/ offset_BAR_Pos = (GRANULE * First(d)) + Total(d) /\ Total(d) > 0
        \/ offset_BAR_Pos = GRANULE * First(d) /\ (Total(d) = 0 \/ Full)
    BY <1>2, <1>6 DEF Returned
  <2> QED BY <2>1, <2>2, <2>3
<1>8. offset \in Int /\ end \in Int /\ start \in Int
  <2>1. GRANULE * First(d + 1) \in Int
    BY <1>6
  <2> HIDE DEF offset
  <2>2. offset \in Int
    BY <1>6, <1>7, <2>1
  <2> QED BY <1>6, <2>2
<1> HIDE DEF offset
<1>9. /\ mapa' \in Seq(EntryType) /\ Len(mapa') = Len(mapa) /\ DOMAIN mapa' = DOMAIN mapa
      /\ \A i \in DOMAIN mapa : mapa'[i].ClassCode = mapa[i].ClassCode
      /\ \A i \in DOMAIN mapa : i # Top.bridge => mapa'[i] = mapa[i]
  <2> DEFINE b == Top.bridge
             r == [mapa[b] EXCEPT !.end_address = end]
  <2>1. b \in 1 .. Len(mapa)
    BY <1>2, <1>3, LenProperties
  <2>2. mapa[b] \in EntryType
    BY <1>2, <2>1, ElementOfSeq
  <2>3. r \in EntryType
    BY <1>8, <2>2 DEF EntryType
  <2>4. mapa' = [mapa EXCEPT ![b] = r] /\ r.ClassCode = mapa[b].ClassCode
    BY <1>5, <2>2 DEF EntryType
  <2> HIDE DEF r
  <2>5. mapa' \in Seq(EntryType) /\ Len(mapa') = Len(mapa) /\ DOMAIN mapa' = DOMAIN mapa
    BY <1>2, <2>1, <2>3, <2>4, ExceptSeq, LenProperties
  <2>6. \A i \in DOMAIN mapa : i # b => mapa'[i] = mapa[i]
    BY <2>4
  <2>7. mapa'[b].ClassCode = mapa[b].ClassCode
    BY <1>3, <2>4
  <2> QED BY <2>5, <2>6, <2>7
<1>10. e \in FrameType /\ e.dev = d + 1 /\ e.bus = 0 /\ e.bridge = 0
  <2>1. Top.bus = 0 /\ Top.dev = d
    BY <1>2
  <2>2. \A n \in 1 .. 3 : n + 1 \in 0 .. DEVICES
    BY DEF DEVICES
  <2>3. d + 1 \in 0 .. DEVICES
    BY <1>3, <2>2
  <2> QED BY <2>1, <2>3 DEF FrameType
<1> HIDE DEF e
<1>11. stack' \in Seq(FrameType) /\ Len(stack') = 1 /\ stack'[1] = e
  BY <1>1, <1>2, <1>10, Frames
<1> DEFINE r == [port[d] EXCEPT !.subordinate = d]
           w == WithWindow(r, start, end)
<1>14. port \in [Ports -> PortType] /\ port' = [port EXCEPT ![d] = w]
  <2>1. next_bus_number - 1 = d
    BY <1>3
  <2> QED BY <1>5, <2>1 DEF IInv, PortsInv
<1>15. /\ r \in PortType /\ r.primary = 0 /\ r.secondary = d /\ r.subordinate = d
       /\ r.command = port[d].command
  BY <1>3, <1>14 DEF PortType, IInv, PortsInv, PortInv
<1> HIDE DEF r, start, end
<1>16. /\ w.primary = 0 /\ w.secondary = d /\ w.subordinate = d
       /\ w.command = (port[d].command \/ end > start)
       /\ end > start => w.mbase = start \div GRANULE /\ w.mlimit = WindowLimit(end)
       /\ ~(end > start) => w.mbase = 0 /\ w.mlimit = 0
  BY <1>15 DEF WithWindow
<1>17. start \div GRANULE = HIGH + First(d)
  BY <1>6, WindowUnits DEF start
<1>18. ASSUME end > start
       PROVE  /\ w.mbase = HIGH + First(d) /\ w.mlimit = HIGH + First(d + 1) - 1
              /\ First(d) < First(d + 1)
  <2>1. end = MIN_BAR_POS + (GRANULE * First(d + 1)) /\ First(d) < First(d + 1)
    BY <1>7, <1>18 DEF end
  <2>2. First(d + 1) \in Nat
    BY <1>6
  <2> QED BY <1>16, <1>17, <1>18, <2>1, <2>2, WindowUnits
<1>19. w \in PortType
  <2>1. w.mbase \in Int /\ w.mlimit \in Int
    <3>1. CASE end > start
      BY <1>6, <1>18, <3>1 DEF HIGH
    <3>2. CASE ~(end > start)
      BY <1>16, <3>2
    <3> QED BY <3>1, <3>2
  <2>2. w.command \in BOOLEAN
    BY <1>16
  <2>3. w = [command |-> w.command, primary |-> w.primary, secondary |-> w.secondary,
             subordinate |-> w.subordinate, mbase |-> w.mbase, mlimit |-> w.mlimit]
    BY DEF WithWindow
  <2>4. w.primary \in Nat /\ w.secondary \in Nat /\ w.subordinate \in Nat
    BY <1>3, <1>16
  <2> HIDE DEF w
  <2> QED BY <2>1, <2>2, <2>3, <2>4 DEF PortType
<1> HIDE DEF w
<1>20. /\ port' \in [Ports -> PortType] /\ port'[d] = w
       /\ \A q \in Ports \ {d} : port'[q] = port[q]
  BY <1>3, <1>14, <1>19
<1>21. stack'[1] \in FrameType
  BY <1>10, <1>11
<1>22. \/ /\ Total(d) > 0 /\ First(d) < First(d + 1)
          /\ offset_BAR_Pos' = GRANULE * First(d + 1) /\ w.command
          /\ w.mbase = HIGH + First(d) /\ w.mlimit = HIGH + First(d + 1) - 1
       \/ /\ Total(d) = 0 \/ Full
          /\ offset_BAR_Pos = GRANULE * First(d) /\ offset_BAR_Pos' = GRANULE * First(d)
          /\ w.command = port[d].command /\ w.mbase = 0 /\ w.mlimit = 0
  <2>1. CASE end > start
    BY <1>5, <1>7, <1>16, <1>18, <2>1
  <2>2. CASE ~(end > start)
    <3>1. w.command = port[d].command
      <4>1. port[d].command \in BOOLEAN
        BY <1>3, <1>14 DEF PortType
      <4> QED BY <1>16, <2>2, <4>1
    <3> QED BY <1>5, <1>7, <1>16, <2>2, <3>1
  <2> QED BY <2>1, <2>2
<1>23. offset_BAR_Pos' \in Int
  BY <1>5, <1>8
<1> QED BY <1>1, <1>2, <1>3, <1>6, <1>9, <1>10, <1>11, <1>16, <1>20, <1>21, <1>22, <1>23

\* So left, it keeps to what the board decides.
LEMMA LeaveBridgeKeeps ==
  ASSUME IInv, NEW f \in Functions, LeaveBridge(f)
  PROVE  IInv' /\ (TableIsEven /\ TableInv => TableInv')
<1> DEFINE d == stack[1].dev
<1>1. /\ Len(stack) = 1 /\ stack[1].bridge # 0 /\ d \in Ports /\ d \in 1 .. 3
      /\ next_bus_number = d + 1 /\ next_bus_number' = next_bus_number
      /\ board' = board /\ resets' = resets /\ \A q \in Ports : ~Cut(q)
  BY LeaveBridgeIs
<1>2. /\ mapa' \in Seq(EntryType) /\ Len(mapa') = Len(mapa) /\ DOMAIN mapa' = DOMAIN mapa
      /\ \A i \in DOMAIN mapa : mapa'[i].ClassCode = mapa[i].ClassCode
      /\ stack'[1].dev = d + 1
  BY LeaveBridgeIs
<1>3. /\ stack' \in Seq(FrameType) /\ Len(stack') = 1 /\ stack'[1] \in FrameType
      /\ stack'[1].bus = 0 /\ stack'[1].dev = d + 1 /\ stack'[1].bridge = 0
  BY LeaveBridgeIs
<1>4. /\ First(d) \in Nat /\ Total(d) \in Nat /\ First(d + 1) = First(d) + Up(Total(d))
      /\ Up(Total(d)) \in Nat /\ (Total(d) = 0 <=> Up(Total(d)) = 0)
      /\ GRANULE * First(d) \in Int
  BY LeaveBridgeIs
<1>5. /\ port' \in [Ports -> PortType]
      /\ \A q \in Ports \ {d} : port'[q] = port[q]
      /\ port'[d].primary = 0 /\ port'[d].secondary = d /\ port'[d].subordinate = d
  BY LeaveBridgeIs
<1>6. \/ /\ Total(d) > 0 /\ First(d) < First(d + 1)
         /\ offset_BAR_Pos' = GRANULE * First(d + 1) /\ port'[d].command
         /\ port'[d].mbase = HIGH + First(d)
         /\ port'[d].mlimit = HIGH + First(d + 1) - 1
      \/ /\ Total(d) = 0 \/ Full
         /\ offset_BAR_Pos = GRANULE * First(d) /\ offset_BAR_Pos' = GRANULE * First(d)
         /\ port'[d].command = port[d].command
         /\ port'[d].mbase = 0 /\ port'[d].mlimit = 0
  BY LeaveBridgeIs
<1>7. offset_BAR_Pos' \in Int
  BY LeaveBridgeIs
<1> HIDE DEF d
<1>8. \A q \in Nat : Total(q)' = Total(q) /\ First(q)' = First(q)
  BY <1>1, BoardDecides
<1>9. Tables'
  BY <1>1, <1>2, <1>7 DEF IInv, Tables
<1>10. (Full' <=> Full) /\ \A q \in Ports : q \in Nat /\ q + 1 \in Nat
  BY <1>2, Units DEF Full, Room
\* A port that already claims addresses has room behind it.
<1>11. port[d].command => Total(d) > 0
  <2>1. port[d].command => Given(d)
    BY <1>1 DEF IInv, PortsInv, PortInv, Cut
  <2> QED BY <1>4, <2>1 DEF Given
<1>12. ASSUME NEW c \in Ports, c = d PROVE PortInv(c)' /\ (Cut(c)' => Full' /\ Full)
  <2>1. First(c)' = First(d) /\ First(c + 1)' = First(d + 1)
    BY <1>8, <1>10, <1>12
  <2>2. CASE Total(d) > 0 /\ port'[d].mbase = HIGH + First(d)
    <3>1. First(d) < First(d + 1) /\ port'[d].mlimit = HIGH + First(d + 1) - 1
      BY <1>4, <1>6, <2>2 DEF HIGH
    <3>2. Given(c)' /\ ~Cut(c)'
      BY <1>4, <1>12, <2>1, <2>2, <3>1 DEF Given, Cut, Closed, HIGH
    <3> QED BY <1>5, <1>12, <3>2 DEF PortInv
  <2>3. CASE /\ Total(d) = 0 \/ Full
             /\ port'[d].command = port[d].command
             /\ port'[d].mbase = 0 /\ port'[d].mlimit = 0
    <3>1. Closed(c)'
      BY <1>12, <2>3 DEF Closed
    <3>2. Cut(c)' => Full' /\ Full
      BY <1>10, <1>11, <1>12, <2>3 DEF Cut
    <3> QED BY <1>5, <1>12, <3>1, <3>2 DEF PortInv
  <2> QED BY <1>6, <2>2, <2>3
<1>13. ASSUME NEW q \in Ports, q # d PROVE PortInv(q)' /\ ~Cut(q)'
  <2>1. port'[q] = port[q] /\ First(q)' = First(q) /\ First(q + 1)' = First(q + 1)
    BY <1>5, <1>8, <1>10, <1>13
  <2>2. Given(q) => Given(q)'
    BY <2>1 DEF Given
  <2>3. PortInv(q) /\ ~Cut(q)
    BY <1>1 DEF IInv, PortsInv
  <2> QED BY <2>1, <2>2, <2>3 DEF PortInv, Closed, Cut
<1>14. PortsInv' /\ CutInv'
  BY <1>5, <1>12, <1>13 DEF PortsInv, CutInv
<1>15. ASSUME NEW t \in FrameType, t = stack'[1] PROVE Between(t)'
  <2>1. /\ t.bridge = 0 /\ t.dev = d + 1 /\ NextPort(t.dev) = d + 1
        /\ First(NextPort(t.dev))' = First(d + 1)
    BY <1>1, <1>3, <1>8, <1>15 DEF NextPort
  <2>2. ~Full => offset_BAR_Pos' = GRANULE * First(d + 1)
    BY <1>4, <1>6
  <2> QED BY <1>1, <1>10, <2>1, <2>2 DEF Between
<1>16. Between(stack[1])'
  <2>1. ASSUME NEW t \in FrameType, t = stack'[1] PROVE Between(stack[1])'
    BY <1>15, <2>1 DEF Between
  <2> QED BY <1>3, <2>1
<1>17. IInv'
  BY <1>3, <1>9, <1>14, <1>16 DEF IInv, StackInv
<1>18. ASSUME TableInv PROVE TableInv'
  <2>1. Placed(stack[1])
    BY <1>1, <1>18 DEF TableInv, Counts
  <2>2. ASSUME NEW c \in Ports, c = d PROVE ~Cut(c)'
    <3>1. Total(d) > 0 => offset_BAR_Pos # GRANULE * First(d)
      BY <1>4, <2>1 DEF Placed, d
    <3>2. CASE port'[d].mbase = HIGH + First(d)
      BY <1>4, <2>2, <3>2 DEF Cut, Closed, HIGH
    <3>3. CASE port'[d].command = port[d].command /\ offset_BAR_Pos = GRANULE * First(d)
      BY <1>11, <2>2, <3>1, <3>3 DEF Cut
    <3> QED BY <1>6, <3>2, <3>3
  <2>3. \A q \in Ports : ~Cut(q)'
    BY <1>13, <2>2
  <2>4. \A i \in DOMAIN mapa' : mapa'[i].ClassCode \in Named
    BY <1>2, <1>18 DEF TableInv, Table
  <2>5. Table'
    BY <1>1, <1>18, <2>3, <2>4 DEF TableInv, Table, Named, Whole
  <2>6. ASSUME NEW t \in FrameType, t = stack'[1] PROVE Counts'
    <3>1. t.bridge = 0 /\ NextPort(t.dev) - 1 = d
      BY <1>1, <1>3, <2>6 DEF NextPort
    <3>2. Waiting(t)'
      BY <1>1, <1>2, <2>1, <3>1 DEF Waiting, Placed, Count, Whole, d
    <3>3. stack' # <<>>
      BY <1>3, EmptySeq
    <3> QED BY <1>3, <2>6, <3>1, <3>2, <3>3 DEF Counts, Waiting
  <2> QED BY <1>3, <2>5, <2>6 DEF TableInv
<1> QED BY <1>17, <1>18

\* The enumeration begins on bus 0, over whatever registers there are.
LEMMA EmptyRoot ==
  /\ <<Frame(0)>> \in Seq(FrameType) /\ Len(<<Frame(0)>>) = 1
  /\ <<Frame(0)>>[1] = Frame(0) /\ Frame(0) \in FrameType
  /\ Frame(0).bus = 0 /\ Frame(0).dev = 0 /\ Frame(0).bridge = 0
  /\ NextPort(0) = 1 /\ First(1) = 0 /\ GRANULE * 0 = 0
<1>1. /\ Frame(0) \in FrameType /\ Frame(0).bus = 0 /\ Frame(0).dev = 0
      /\ Frame(0).bridge = 0
  BY DEF Frame, FrameType, DEVICES
<1>2. GRANULE * 0 = 0
  BY Units
<1> HIDE DEF Frame
<1> QED BY <1>1, <1>2 DEF NextPort, First

\* The shell starts only when each port has its device, and begins again at 0.
LEMMA ResetKeeps ==
  ASSUME IInv, Reset
  PROVE  IInv' /\ (TableIsEven /\ TableInv => TableInv')
<1>1. /\ board' = board /\ port' = port /\ mapa' = mapa
      /\ next_bus_number' = 1 /\ offset_BAR_Pos' = 0 /\ stack' = <<Frame(0)>>
  BY DEF Reset, Registers
<1>2. \A q \in Nat : Total(q)' = Total(q) /\ First(q)' = First(q)
  BY <1>1, BoardDecides
<1>3. Tables'
  BY <1>1 DEF IInv, Tables
<1>4. PortsInv' /\ CutInv'
  <2>1. \A p \in Ports : p \in Nat /\ p + 1 \in Nat
    BY Units
  <2>2. \A p \in Ports : Given(p) => Given(p)'
    BY <1>1, <1>2, <2>1 DEF Given
  <2>3. Full' <=> Full
    BY <1>1 DEF Full, Room
  <2>4. \A p \in Ports : PortInv(p) => PortInv(p)'
    BY <1>1, <2>2 DEF PortInv, Closed
  <2>5. \A p \in Ports : Cut(p)' <=> Cut(p)
    BY <1>1 DEF Cut, Closed
  <2> QED BY <1>1, <2>3, <2>4, <2>5 DEF IInv, PortsInv, CutInv
<1>5. Between(stack[1])'
  <2>1. ASSUME NEW t \in FrameType, t = Frame(0) PROVE Between(t)'
    <3>1. First(1)' = 0 /\ t.bridge = 0 /\ NextPort(t.dev) = 1
      BY <1>2, <2>1, EmptyRoot
    <3> QED BY <1>1, <3>1, EmptyRoot DEF Between
  <2>2. ASSUME NEW t \in FrameType, t = Frame(0) PROVE Between(stack[1])'
    BY <1>1, <2>1, <2>2, EmptyRoot DEF Between
  <2> QED BY <2>2, EmptyRoot
<1>6. IInv'
  BY <1>1, <1>3, <1>4, <1>5, EmptyRoot DEF IInv, StackInv
<1>7. ASSUME TableInv PROVE TableInv'
  <2>1. /\ stack = <<>> /\ resets \in Nat /\ resets' # 0 /\ resets' \in Nat
        /\ \A c \in {TTY, NVM, KEYBOARD} : \E i \in DOMAIN mapa : mapa[i].ClassCode = c
    BY <1>7 DEF Reset, Booted, Enumerated, EntriesOf, TableInv, Table
  <2>2. \A c \in {TTY, NVM, KEYBOARD} : \E p \in Ports : board[p].header = 0 /\ board[p].class = c
    <3>1. BRIDGE \notin {TTY, NVM, KEYBOARD}
      BY DEF BRIDGE, TTY, NVM, KEYBOARD
    <3>2. \A i \in DOMAIN mapa : mapa[i].ClassCode \in Named
      BY <1>7 DEF TableInv, Table
    <3> QED BY <2>1, <3>1, <3>2 DEF Named
  <2>3. PICK p \in Ports : board[p].header = 0 /\ board[p].class = TTY
    BY <2>2
  <2>4. PICK q \in Ports : board[q].header = 0 /\ board[q].class = NVM
    BY <2>2
  <2>5. PICK o \in Ports : board[o].header = 0 /\ board[o].class = KEYBOARD
    BY <2>2
  <2>6. p # q /\ q # o /\ p # o
    BY <2>3, <2>4, <2>5 DEF TTY, NVM, KEYBOARD
  <2>7. \A n \in Ports : board[n].header = 0
    BY <2>3, <2>4, <2>5, <2>6, Units
  <2>8. Whole
    BY <2>7 DEF Whole, Nothing
  <2>9. Whole' /\ Twice(Len(mapa))
    BY <1>1, <1>7, <2>1, <2>8, LenProperties DEF Whole, TableInv, Counts, Count, IInv, Tables
  <2>10. Table'
    BY <1>1, <1>7, <2>1, <2>9 DEF TableInv, Table, Named, Cut, Closed
  <2>11. Len(mapa) + 0 = Len(mapa)
    BY LenProperties DEF IInv, Tables
  <2>12. \A k : Count(0, k)'
    BY <1>1, <2>1, <2>9, <2>11 DEF Count
  <2>13. stack' # <<>> /\ Len(stack') = 1 /\ stack'[1].bridge = 0
    BY <1>1, EmptyRoot, EmptySeq
  <2>14. Waiting(stack[1])'
    BY <2>12 DEF Waiting
  <2> QED BY <2>10, <2>13, <2>14 DEF TableInv, Counts
<1> QED BY <1>6, <1>7

\* Before the first enumeration no port forwards or claims anything.
LEMMA InitHolds ==
  ASSUME Init
  PROVE  IInv
<1>1. Tables
  <2>1. mapa = <<>> /\ board \in Boards /\ next_bus_number = 1 /\ offset_BAR_Pos = 0
    BY DEF Init
  <2> QED BY <2>1, EmptySeq DEF Tables
<1>2. PortsInv /\ CutInv
  <2>1. PortOff \in PortType /\ \A p \in Ports : port[p] = PortOff
    BY DEF Init, PortOff, PortType
  <2>2. port \in [Ports -> PortType]
    BY <2>1 DEF Init
  <2> QED BY <2>1, <2>2 DEF PortsInv, CutInv, PortInv, PortOff, Cut
<1>3. StackInv
  BY EmptyRoot DEF Init, StackInv, Between
<1> QED BY <1>1, <1>2, <1>3 DEF IInv

\* Every step of the enumeration keeps both invariants.
LEMMA StepKeeps ==
  ASSUME IInv, [Next]_vars
  PROVE  IInv' /\ (TableIsEven /\ TableInv => TableInv')
<1>1. CASE EmptyBus
  BY <1>1, EmptyBusKeeps
<1>2. CASE EmptySlot
  BY <1>2, EmptySlotKeeps
<1>3. CASE TableFull
  BY <1>3, TableFullKeeps
<1>4. CASE EndOfBus
  BY <1>4, EndOfBusKeeps
<1>5. CASE Reset
  BY <1>5, ResetKeeps
<1>6. ASSUME NEW f \in Functions, EnumerateDevice(f)
      PROVE  IInv' /\ (TableIsEven /\ TableInv => TableInv')
  BY <1>6, EnumerateDeviceKeeps
<1>7. ASSUME NEW f \in Functions, EnterBridge(f)
      PROVE  IInv' /\ (TableIsEven /\ TableInv => TableInv')
  BY <1>7, EnterBridgeKeeps
<1>8. ASSUME NEW f \in Functions, LeaveBridge(f)
      PROVE  IInv' /\ (TableIsEven /\ TableInv => TableInv')
  BY <1>8, LeaveBridgeKeeps
<1>9. ASSUME NEW f \in Functions, SkipOther(f)
      PROVE  IInv' /\ (TableIsEven /\ TableInv => TableInv')
  BY <1>9, SkipOtherKeeps
<1>10. CASE UNCHANGED vars
  <2>1. /\ UNCHANGED Walk /\ stack' = stack /\ resets' = resets
        /\ board' = board /\ port' = port /\ mapa' = mapa
        /\ next_bus_number' = next_bus_number /\ offset_BAR_Pos' = offset_BAR_Pos
    BY <1>10 DEF vars, Walk
  <2>2. StackInv'
    <3>1. Between(stack[1]) => Between(stack[1])'
      BY <2>1 DEF Between, Full, Room, First, Total
    <3>2. Inside(stack[1]) => Inside(stack[1])'
      BY <2>1 DEF Inside, Cut, Closed, First, Total
    <3>3. Returned(stack[1]) => Returned(stack[1])'
      BY <2>1, <3>2 DEF Returned, Full, Room, First, Total
    <3>4. Below(stack[1], stack[2]) => Below(stack[1], stack[2])'
      BY <2>1, <3>2 DEF Below, First, Total
    <3> QED BY <2>1, <3>1, <3>3, <3>4 DEF IInv, StackInv
  <2>3. IInv'
    BY <2>1, <2>2, WalkStays DEF IInv
  <2>4. TableInv => TableInv'
    BY <2>1 DEF TableInv, Table, Counts, Waiting, Placed, Placing, Count, Named, Whole,
                Room, Cut, Closed, First, Total
  <2> QED BY <2>3, <2>4
<1> QED BY <1>1, <1>2, <1>3, <1>4, <1>5, <1>6, <1>7, <1>8, <1>9, <1>10 DEF Next

-----------------------------------------------------------------------------
\* For every board, size of the table and number of resets, the walk, the
\* registers of the ports and the table are as the invariant says.
THEOREM Walking == Spec => []IInv
<1> QED BY InitHolds, StepKeeps, PTL DEF Spec

\* ecam.c:69: at no moment do two functions answer one address of the
\* configuration space: bus numbers tell the ports apart also while those of
\* the enumeration before are still in the ports.
THEOREM AddressesAnswerOnce == Spec => [](\A a \in Nat : AnsweredOnce(a))
<1>1. IInv => \A a \in Nat : AnsweredOnce(a)
  BY AnswersOnce DEF IInv
<1> QED BY <1>1, Walking, PTL

\* What the invariant says of two windows.
LEMMA ApartByUnits ==
  ASSUME IInv
  PROVE  WindowsAreApart
<1>1. SUFFICES ASSUME NEW p \in Ports, NEW q \in Ports, p < q,
                      port[p].command, port[q].command
               PROVE  port[p].mlimit < port[q].mbase \/ port[q].mlimit < port[p].mbase
  BY DEF WindowsAreApart
<1>2. /\ Closed(p) \/ Given(p)
      /\ Closed(q) \/ Given(q)
      /\ ~(Closed(p) /\ Closed(q))
  BY <1>1, Units DEF IInv, PortsInv, PortInv, CutInv, Cut
<1>3. /\ First(p) \in Nat /\ First(q) \in Nat /\ First(p + 1) \in Nat
      /\ First(p + 1) <= First(q)
  <2>1. p \in 1 .. 4 /\ q \in 1 .. 4 /\ p + 1 \in 1 .. 4
    BY Units
  <2> QED BY <1>1, <2>1, Rooms DEF IInv, Tables
<1> QED BY <1>2, <1>3 DEF Closed, Given, HIGH

\* ecam.c:88: at no moment do the windows of two ports share an address,
\* whatever the sizes of the BARs and wherever a full table cuts it short.
THEOREM WindowsStayApart == Spec => []WindowsAreApart
<1> QED BY ApartByUnits, Walking, PTL

\* Before the first enumeration the table is empty.
LEMMA InitCounts ==
  ASSUME Init
  PROVE  TableInv
<1>1. IInv
  BY InitHolds
<1>2. Len(mapa) = 0 /\ DOMAIN mapa = {}
  BY EmptySeq, LenProperties DEF Init
<1>3. Table
  BY <1>2 DEF Init, Table, Cut, PortOff
<1>4. /\ stack # <<>> /\ Len(stack) = 1 /\ stack[1].bridge = 0
      /\ NextPort(stack[1].dev) = 1 /\ resets = 0
  BY EmptyRoot, EmptySeq DEF Init
<1>5. Twice(0)
  BY DEF Twice
<1>6. Waiting(stack[1])
  BY <1>2, <1>4, <1>5 DEF Waiting, Count
<1> QED BY <1>3, <1>4, <1>6 DEF TableInv, Counts

\* ecam.c:88: with a table of an even number of entries and BARs that fit
\* below the configuration space, no window ever takes addresses of RAM or of
\* that space either: all that OneClaimant says, after any number of resets.
THEOREM OneClaimantHolds ==
  ASSUME TableIsEven
  PROVE  Spec => [](WindowsFit => OneClaimant)
<1>1. IInv /\ TableInv /\ [Next]_vars => (IInv /\ TableInv)'
  BY StepKeeps
<1>2. ASSUME IInv, TableInv, WindowsFit PROVE OneClaimant
  <2>1. WindowsAreHigh
    <3>1. SUFFICES ASSUME NEW p \in Ports, port[p].command
                   PROVE  /\ port[p].mbase * GRANULE >= MIN_BAR_POS
                          /\ (port[p].mlimit + 1) * GRANULE <= ECAM_BASE
      BY DEF WindowsAreHigh
    <3>2. /\ port[p].mbase = HIGH + First(p) /\ port[p].mlimit = HIGH + First(p + 1) - 1
      BY <1>2, <3>1 DEF IInv, PortsInv, PortInv, TableInv, Table, Cut, Given
    <3>3. First(p) \in Nat /\ First(p + 1) \in Nat /\ First(4) \in Nat /\ First(p + 1) <= First(4)
      <4>1. p \in {1, 2, 3} /\ p + 1 \in {2, 3, 4}
        BY Units
      <4>2. \A n \in Ports : First(n + 1) = First(n) + Up(Total(n)) /\ Up(Total(n)) \in Nat
        BY <1>2, Rooms, UpIsNat DEF IInv, Tables
      <4>3. \A n \in 1 .. 4 : First(n) \in Nat
        BY <1>2, Rooms DEF IInv, Tables
      <4>4. First(2) <= First(3) /\ First(3) <= First(4)
        BY <4>2, <4>3, Units
      <4> QED BY <4>1, <4>3, <4>4
    <3> DEFINE G == GRANULE
    <3>4. G \in Nat \ {0} /\ MIN_BAR_POS = G * HIGH /\ HIGH \in Nat /\ ECAM_BASE \in Int
      BY Units DEF HIGH, ECAM_BASE
    <3>5. G * First(4) <= ECAM_BASE - MIN_BAR_POS
      BY <1>2 DEF WindowsFit
    <3> HIDE DEF G
    <3>6. G * HIGH <= G * (HIGH + First(p)) /\ G * (HIGH + First(p)) = (HIGH + First(p)) * G
      BY <3>3, <3>4, Products
    <3>7. G * (HIGH + First(p + 1)) <= G * (HIGH + First(4))
      BY <3>3, <3>4, Products
    <3>8. G * (HIGH + First(4)) = MIN_BAR_POS + (G * First(4)) /\ G * First(4) \in Int
          /\ MIN_BAR_POS \in Int
      BY <3>3, <3>4
    <3>9. (HIGH + First(p + 1)) * G <= ECAM_BASE
      <4>1. /\ (HIGH + First(p + 1)) * G = G * (HIGH + First(p + 1))
            /\ G * (HIGH + First(p + 1)) \in Int
        BY <3>3, <3>4
      <4> QED BY <3>4, <3>5, <3>7, <3>8, <4>1
    <3>10. (HIGH + First(p + 1) - 1) + 1 = HIGH + First(p + 1)
      BY <3>3, <3>4
    <3> QED BY <3>2, <3>4, <3>6, <3>9, <3>10 DEF G
  <2>2. \A bus \in 0 .. 4, dev \in 0 .. 4 : AnsweredOnce(ECAM_ADDR(bus, dev))
    <3>1. \A bus \in 0 .. 4, dev \in 0 .. 4 : ECAM_ADDR(bus, dev) \in Nat
      BY Units DEF ECAM_ADDR, ECAM_BASE
    <3> QED BY <1>2, <3>1, AnswersOnce DEF IInv
  <2> QED BY <1>2, <2>1, <2>2, ApartByUnits DEF OneClaimant
<1> QED BY <1>1, <1>2, InitCounts, InitHolds, PTL DEF Spec

-----------------------------------------------------------------------------
(***************************************************************************)
(* The devices stay reachable.                                             *)
(***************************************************************************)
Rooms4 == [Ports -> [1 .. 4 -> Int]]
Coded == \A i \in DOMAIN mapa :
  i \in DOMAIN mapa' /\ mapa'[i].ClassCode = mapa[i].ClassCode
Stays ==
  /\ bar' \in Rooms4 /\ Entries' /\ Coded
  /\ \A p \in Ports : /\ Device(p)' <=> Device(p)
                      /\ Recorded(p) => Recorded(p)'
                      /\ Opened(p) => Opened(p)'

LEMMA EntryDecides ==
  ASSUME board' = board
  PROVE  \A p \in Ports :
           /\ Device(p)' <=> Device(p)
           /\ Edge(p)' = Edge(p) /\ DeviceEntry(p)' = DeviceEntry(p)
           /\ Total(p)' = Total(p) /\ \A i \in 1 .. 4 : Place(p, i)' = Place(p, i)
<1> SUFFICES ASSUME NEW p \in Ports
             PROVE  /\ Device(p)' <=> Device(p)
                    /\ Edge(p)' = Edge(p) /\ DeviceEntry(p)' = DeviceEntry(p)
                    /\ Total(p)' = Total(p) /\ \A i \in 1 .. 4 : Place(p, i)' = Place(p, i)
  OBVIOUS
<1>1. Total(p)' = Total(p) /\ First(p)' = First(p)
  BY BoardDecides, Units
<1>2. Edge(p)' = Edge(p)
  BY <1>1 DEF Edge
<1>3. DeviceEntry(p)' = DeviceEntry(p)
  BY <1>1, <1>2 DEF DeviceEntry
<1>4. \A i \in 1 .. 4 : Place(p, i)' = Place(p, i)
  BY DEF Place, RoomOf
<1> QED BY <1>1, <1>2, <1>3, <1>4 DEF Device

\* A step that leaves the table and the registers alone.
LEMMA ReachStays ==
  ASSUME IInv, ReachInv, UNCHANGED <<board, port, bar, mapa>>
  PROVE  Stays
<1>1. /\ board' = board /\ port' = port /\ bar' = bar /\ mapa' = mapa
  OBVIOUS
<1>2. \A p \in Ports : Device(p)' <=> Device(p)
  BY <1>1, EntryDecides
<1>6. \A p \in Ports : Recorded(p) => Recorded(p)'
  BY <1>1, EntryDecides DEF Recorded
<1>7. \A p \in Ports : Opened(p) => Opened(p)'
  BY <1>1, EntryDecides DEF Opened
<1>3. Entries'
  BY <1>1, EntryDecides DEF ReachInv, Entries
<1>4. bar' \in Rooms4
  BY <1>1 DEF ReachInv, Rooms4
<1>5. Coded
  BY <1>1 DEF Coded
<1> QED BY <1>2, <1>3, <1>4, <1>5, <1>6, <1>7 DEF Stays

\* A call that returns.
LEMMA ReachReturns ==
  ASSUME IInv, ReachInv, stack # <<>>, stack' = Callers, Stays, resets' = resets,
         Len(stack) = 1 => \A p \in Ports : Ready(p),
         Len(stack) = 2 => \A p \in Ports : p = stack[1].dev => Recorded(p)'
  PROVE  ReachInv'
<1>1. stack \in Seq(FrameType) /\ Len(stack) \in {1, 2}
  BY LengthOfStack DEF IInv
<1>2. \A p \in Ports : Ready(p) => Ready(p)'
  BY DEF Stays, Ready
<1>3. CASE Len(stack) = 1
  <2>1. stack' \in Seq(FrameType) /\ Len(stack') = 0
    BY <1>1, <1>3, Frames
  <2>2. stack' = <<>>
    BY <2>1, EmptySeq
  <2>3. Walked'
    BY <1>2, <1>3, <2>1, <2>2 DEF Walked
  <2> QED BY <2>3 DEF ReachInv, Stays, Rooms4
<1>4. CASE Len(stack) = 2
  <2>0. /\ Callers \in Seq(FrameType) /\ Len(Callers) = 2 - 1 /\ Callers[1] = stack[1]
    BY <1>1, <1>4, Frames
  <2>1. /\ stack' \in Seq(FrameType) /\ Len(stack') = 1 /\ stack'[1] = stack[1]
    BY <2>0
  <2>2. stack' # <<>>
    BY <2>1, EmptySeq
  <2>3. stack[1].bridge # 0 /\ stack[1].bridge \in DOMAIN mapa
    <3>1. stack[1].bridge \in DOMAIN mapa /\ mapa \in Seq(EntryType)
      BY <1>4 DEF IInv, StackInv, Below, Inside, Tables
    <3> QED BY <3>1, LenProperties
  <2>4. /\ resets # 0 => \A p \in Ports : Ready(p)
        /\ \A p \in Ports : p < stack[1].dev => Ready(p)
        /\ mapa[stack[1].bridge].ClassCode = BRIDGE
    BY <2>3, <1>4 DEF ReachInv, Walked
  <2>5. mapa'[stack[1].bridge].ClassCode = BRIDGE
    BY <2>3, <2>4 DEF Stays, Coded
  <2>6. Walked'
    BY <1>2, <1>4, <2>1, <2>2, <2>3, <2>4, <2>5 DEF Walked
  <2> QED BY <2>6 DEF ReachInv, Stays, Rooms4
<1> QED BY <1>1, <1>3, <1>4

\* A call that goes on to the next device of its bus.
LEMMA ReachContinues ==
  ASSUME IInv, ReachInv, Scanning, stack' = NextDevice, Stays, resets' = resets,
         Len(stack) = 1 => NextPort(stack[1].dev + 1) = NextPort(stack[1].dev),
         Len(stack) = 2 => \A p \in Ports : p = stack[1].dev => ~Device(p)
  PROVE  ReachInv'
<1> DEFINE e == [bus |-> Top.bus, dev |-> Top.dev + 1, bridge |-> 0]
<1>1. /\ stack \in Seq(FrameType) /\ Len(stack) \in {1, 2}
      /\ stack # <<>> /\ Top.bridge = 0 /\ Top.dev < 32
  BY LengthOfStack, Units DEF IInv, Scanning
<1>2. ASSUME Top \in FrameType
      PROVE  e \in FrameType /\ e.dev = Top.dev + 1 /\ e.bridge = 0
  <2>1. Top.bus \in Nat /\ Top.dev \in 0 .. 32
    BY <1>2, Units DEF FrameType
  <2>2. \A n \in 0 .. 32 : n < 32 => n + 1 \in 0 .. DEVICES
    BY DEF DEVICES
  <2>3. Top.dev + 1 \in 0 .. DEVICES
    BY <1>1, <2>1, <2>2
  <2> QED BY <2>1, <2>3 DEF FrameType
<1>3. stack' = Append(Callers, e)
  BY DEF NextDevice
<1>4. \A p \in Ports : Ready(p) => Ready(p)'
  BY DEF Stays, Ready
<1> HIDE DEF e
<1>5. CASE Len(stack) = 1
  <2>1. /\ Top = stack[1] /\ Top \in FrameType /\ e \in FrameType
        /\ Len(stack') = 1 /\ stack'[1] = e /\ stack' # <<>>
    BY <1>1, <1>2, <1>3, <1>5, Frames, EmptySeq
  <2>2. /\ resets # 0 => \A p \in Ports : Ready(p)
        /\ \A p \in Ports : p < NextPort(stack[1].dev) => Ready(p)
    BY <1>1, <1>5, <2>1 DEF ReachInv, Walked
  <2>3. e.bridge = 0 /\ NextPort(e.dev) = NextPort(stack[1].dev)
    BY <1>2, <1>5, <2>1
  <2>4. Walked'
    BY <1>4, <1>5, <2>1, <2>2, <2>3 DEF Walked
  <2> QED BY <2>4 DEF ReachInv, Stays, Rooms4
<1>6. CASE Len(stack) = 2
  <2>1. /\ Top = stack[2] /\ Top \in FrameType /\ e \in FrameType
        /\ Append(Callers, e) \in Seq(FrameType) /\ Len(Append(Callers, e)) = 2
        /\ Append(Callers, e)[1] = stack[1]
    BY <1>1, <1>2, <1>6, Frames
  <2>2. Len(stack') = 2 /\ stack'[1] = stack[1] /\ stack' # <<>>
    BY <1>3, <2>1, EmptySeq
  <2>3. stack[1].bridge \in DOMAIN mapa
    BY <1>6 DEF IInv, StackInv, Below, Inside
  <2>4. /\ resets # 0 => \A p \in Ports : Ready(p)
        /\ \A p \in Ports : stack[1].bridge # 0 /\ p < stack[1].dev => Ready(p)
        /\ stack[1].bridge # 0 => mapa[stack[1].bridge].ClassCode = BRIDGE
    BY <1>1 DEF ReachInv, Walked
  <2>5. stack[1].bridge # 0 => mapa'[stack[1].bridge].ClassCode = BRIDGE
    BY <2>3, <2>4 DEF Stays, Coded
  <2>6. \A p \in Ports : p = stack[1].dev => ~Device(p)'
    BY <1>6 DEF Stays
  <2>7. Walked'
    BY <1>4, <2>2, <2>4, <2>5, <2>6 DEF Walked
  <2> QED BY <2>7 DEF ReachInv, Stays, Rooms4
<1> QED BY <1>1, <1>5, <1>6

\* The steps that place nothing: what they pass by is no device.
LEMMA NothingReaches ==
  ASSUME IInv, TableInv, TableIsEven, ReachInv,
         EmptyBus \/ EmptySlot \/ TableFull \/ EndOfBus \/ \E f \in Functions : SkipOther(f)
  PROVE  ReachInv'
<1>1. /\ stack # <<>> /\ Top.bridge = 0 /\ resets' = resets
      /\ UNCHANGED <<board, port, bar, mapa>>
  BY DEF EmptyBus, EmptySlot, TableFull, EndOfBus, SkipOther, Present, Scanning, Registers
<1>2. Stays
  BY <1>1, ReachStays
<1>3. /\ stack \in Seq(FrameType) /\ stack[1].bus = 0 /\ Len(stack) \in {1, 2}
  BY <1>1, LengthOfStack DEF IInv
<1>4. ASSUME NEW p \in Ports, ~Device(p) PROVE Recorded(p)'
  BY <1>2, <1>4 DEF Stays, Recorded
<1>5. CASE EmptyBus
  <2>1. Scanning /\ Answering(Base) = {} /\ Top.bus # 0 /\ stack' = Callers
    BY <1>5 DEF EmptyBus
  <2>2. ASSUME Len(stack) = 1 PROVE FALSE
    BY <1>3, <2>1, <2>2, Frames
  <2>3. ASSUME Len(stack) = 2, NEW p \in Ports, p = stack[1].dev PROVE ~Device(p)
    <3>1. board[stack[1].dev] = Nothing
      BY <2>1, <2>3, ScanAnswers
    <3> QED BY <2>3, <3>1 DEF Device, Nothing
  <2>4. Len(stack) = 2 => \A p \in Ports : p = stack[1].dev => Recorded(p)'
    BY <1>4, <2>3
  <2> QED BY <1>1, <1>2, <2>1, <2>2, <2>4, ReachReturns
<1>6. CASE EmptySlot
  <2>1. Scanning /\ Answering(Base) = {} /\ stack' = NextDevice
    BY <1>6 DEF EmptySlot
  <2>2. ASSUME Len(stack) = 1 PROVE NextPort(stack[1].dev + 1) = NextPort(stack[1].dev)
    <3>1. stack[1].dev \notin Ports
      BY <2>1, <2>2, ScanAnswers
    <3>2. stack[1].dev \in 0 .. 32
      BY <1>3, <2>2, Frames, Units DEF FrameType
    <3> QED BY <3>1, <3>2, Units DEF NextPort
  <2>3. ASSUME Len(stack) = 2, NEW p \in Ports, p = stack[1].dev PROVE ~Device(p)
    <3>1. board[stack[1].dev] = Nothing
      BY <2>1, <2>3, ScanAnswers
    <3> QED BY <2>3, <3>1 DEF Device, Nothing
  <2> QED BY <1>1, <1>2, <2>1, <2>2, <2>3, ReachContinues
<1>7. CASE TableFull
  <2>1. Scanning /\ Answering(Base) # {} /\ ~Room /\ stack' = Callers
    BY <1>7 DEF TableFull
  <2>2. Len(stack) = 1
    BY <1>3, <2>1 DEF TableInv, Counts, Placing
  <2>3. resets # 0
    <3>1. SUFFICES ASSUME resets = 0 PROVE FALSE
      OBVIOUS
    <3>2. stack[1].dev \in Ports /\ stack[1].bridge = 0
      BY <2>1, <2>2, ScanAnswers DEF Between
    <3>3. Waiting(stack[1]) /\ NextPort(stack[1].dev) \in {1, 2, 3}
      BY <2>2, <3>2, Units DEF TableInv, Counts, NextPort
    <3>4. Len(mapa) + 0 <= 2 * (NextPort(stack[1].dev) - 1)
      BY <3>1, <3>3 DEF Waiting, Count
    <3>5. Len(mapa) \in Nat
      BY LenProperties DEF IInv, Tables
    <3> QED BY <2>1, <3>3, <3>4, <3>5 DEF Room, TableIsEven
  <2>4. \A p \in Ports : Ready(p)
    BY <2>3 DEF ReachInv, Walked
  <2> QED BY <1>1, <1>2, <2>1, <2>2, <2>4, ReachReturns
<1>8. CASE EndOfBus
  <2>1. Top.dev = 32 /\ stack' = Callers
    BY <1>8, Units DEF EndOfBus
  <2>2. ASSUME Len(stack) = 1, NEW p \in Ports PROVE Ready(p)
    <3>1. stack[1].dev = 32 /\ stack[1].bridge = 0
      BY <1>1, <1>3, <2>1, <2>2, Frames
    <3>2. p < NextPort(stack[1].dev)
      BY <3>1, Units DEF NextPort
    <3> QED BY <2>2, <3>1, <3>2 DEF ReachInv, Walked
  <2>3. ASSUME Len(stack) = 2, NEW p \in Ports, p = stack[1].dev PROVE ~Device(p)
    <3>1. stack[2].dev = 32
      BY <1>3, <2>1, <2>3, Frames
    <3>2. stack[2].dev > 0
      BY <3>1
    <3> QED BY <2>3, <3>2 DEF ReachInv, Walked
  <2>4. Len(stack) = 2 => \A p \in Ports : p = stack[1].dev => Recorded(p)'
    BY <1>4, <2>3
  <2> QED BY <1>1, <1>2, <2>1, <2>2, <2>4, ReachReturns
<1>9. ASSUME NEW f \in Functions, SkipOther(f) PROVE ReachInv'
  <2>1. Scanning /\ f \in Answering(Base) /\ Header(f) \notin {0, 1} /\ stack' = NextDevice
    BY <1>9 DEF SkipOther, Present
  <2>2. Len(stack) = 2 /\ f = EndPoint(stack[1].dev)
    BY <2>1, ScanAnswers DEF Header, Port
  <2>3. ASSUME NEW p \in Ports, p = stack[1].dev PROVE ~Device(p)
    BY <2>1, <2>2, <2>3 DEF Header, EndPoint, Device
  <2> QED BY <1>1, <1>2, <2>1, <2>2, <2>3, ReachContinues
<1> QED BY <1>5, <1>6, <1>7, <1>8, <1>9

\* A device is recorded with its BARs, on the first look at its bus.
LEMMA EnumerateDeviceReaches ==
  ASSUME IInv, IInv', ReachInv, NEW f \in Functions, EnumerateDevice(f)
  PROVE  ReachInv'
<1> DEFINE d == stack[1].dev
           sizes == board[d].bars
           o == offset_BAR_Pos
           e == Entry(f, o, o + Total(d))
           placed == [i \in 1 .. 4 |-> IF sizes[i] = 0 THEN ALL_ONES
                                       ELSE MIN_BAR_POS + BarOffset(sizes)[i]]
<1>1. /\ Scanning /\ stack # <<>> /\ f \in Answering(Base) /\ Header(f) = 0
      /\ board' = board /\ port' = port /\ resets' = resets /\ stack' = Callers
  BY DEF EnumerateDevice, Present, Scanning
<1>2. /\ Len(stack) = 2 /\ Below(stack[1], stack[2]) /\ f = EndPoint(d)
      /\ board[d] # Nothing
  BY <1>1, ScanAnswers DEF Header, Port
<1>3. /\ f.at = d /\ board[d].header = 0 /\ ClassCode(f) = board[d].class
      /\ d \in Ports /\ o = Edge(d) /\ o \in Int
  BY <1>1, <1>2 DEF Header, EndPoint, ClassCode, Below, Inside, Edge, IInv, Tables
<1>4. \A i \in 1 .. 4 : RoomOf(d, i) \in Nat /\ RoomOf(d, i) = BarRoom(sizes[i])
  <2>1. \A i \in 1 .. 4 : sizes[i] \in Nat
    BY <1>3, BoardAssumption DEF IInv, Tables
  <2> QED BY <2>1, BarRoomIsNat DEF RoomOf
<1>5. Total(d) = RoomOf(d, 1) + RoomOf(d, 2) + RoomOf(d, 3) + RoomOf(d, 4)
  BY <1>2, <1>3, <1>4 DEF Total
<1>6. /\ \A i \in 1 .. 4 : BarOffset(sizes)[i] = Edge(d) + Place(d, i)
      /\ BarOffset(sizes)[1] = o /\ BarOffset(sizes)[5] = o + Total(d)
  <2>1. BarOffset(sizes) =
          <<o, o + RoomOf(d, 1), o + RoomOf(d, 1) + RoomOf(d, 2),
            o + RoomOf(d, 1) + RoomOf(d, 2) + RoomOf(d, 3),
            o + RoomOf(d, 1) + RoomOf(d, 2) + RoomOf(d, 3) + RoomOf(d, 4)>>
    BY <1>4 DEF BarOffset
  <2> HIDE DEF o, sizes, d
  <2>2. /\ Place(d, 1) = 0 /\ Place(d, 2) = RoomOf(d, 1)
        /\ Place(d, 3) = RoomOf(d, 1) + RoomOf(d, 2)
        /\ Place(d, 4) = RoomOf(d, 1) + RoomOf(d, 2) + RoomOf(d, 3)
    BY DEF Place
  <2> QED BY <1>3, <1>4, <1>5, <2>1, <2>2
<1>7. /\ bar' = [bar EXCEPT ![d] = placed]
      /\ mapa' = Append(mapa, e)
  <2>1. /\ bar' = [bar EXCEPT ![f.at] = [i \in 1 .. 4 |->
                    IF board[f.at].bars[i] = 0 THEN ALL_ONES
                    ELSE MIN_BAR_POS + BarOffset(board[f.at].bars)[i]]]
        /\ mapa' = Append(mapa, Entry(f, BarOffset(board[f.at].bars)[1],
                                        BarOffset(board[f.at].bars)[5]))
    BY DEF EnumerateDevice
  <2> HIDE DEF d, o
  <2> QED BY <1>3, <1>6, <2>1
<1>8. /\ stack \in Seq(FrameType) /\ mapa \in Seq(EntryType) /\ mapa' \in Seq(EntryType)
      /\ Len(mapa) \in Nat
  BY <1>1, LengthOfStack, LenProperties DEF IInv, Tables
<1>9. Top = stack[2] /\ stack[2].bus = d /\ stack[2].dev = 0
  <2>1. Top = stack[2] /\ stack[2] \in FrameType
    BY <1>2, <1>8, Frames
  <2>2. ~(stack[2].dev > 0)
    BY <1>2, <1>3 DEF ReachInv, Walked, Device
  <2> QED BY <1>2, <2>1, <2>2, Units DEF FrameType, Below
<1>10. e = DeviceEntry(d)
  BY <1>3, <1>9 DEF Entry, DeviceEntry
<1>11. placed \in [1 .. 4 -> Int]
  <2>1. MIN_BAR_POS \in Int /\ ALL_ONES \in Int
    BY Units DEF MIN_BAR_POS, ALL_ONES, SPACE
  <2>2. \A i \in 1 .. 4 : MIN_BAR_POS + BarOffset(sizes)[i] \in Int
    <3>1. \A i \in 1 .. 4 : Place(d, i) \in Int
      BY <1>4 DEF Place
    <3> HIDE DEF o, sizes, d
    <3> QED BY <1>3, <1>6, <2>1, <3>1
  <2> HIDE DEF sizes
  <2> QED BY <2>1, <2>2
<1>12. \A i \in 1 .. 4 : sizes[i] # 0 => placed[i] = MIN_BAR_POS + (Edge(d) + Place(d, i))
  BY <1>6
<1> HIDE DEF e, placed, o, sizes
<1>13. /\ bar' \in Rooms4 /\ bar'[d] = placed
       /\ \A p \in Ports : p # d => bar'[p] = bar[p]
  BY <1>3, <1>7, <1>11 DEF ReachInv, Rooms4
<1>14. /\ Len(mapa') = Len(mapa) + 1 /\ mapa'[Len(mapa) + 1] = DeviceEntry(d)
       /\ DOMAIN mapa = 1 .. Len(mapa) /\ DOMAIN mapa' = 1 .. (Len(mapa) + 1)
       /\ \A i \in DOMAIN mapa : mapa'[i] = mapa[i]
  <2>1. e \in EntryType
    <3>1. Top.dev \in 0 .. DEVICES /\ d \in Nat
      BY <1>3, <1>9, Units
    <3>2. board[d].class \in Classes
      BY <1>3 DEF IInv, Tables, Classes
    <3>3. MIN_BAR_POS \in Int /\ Total(d) \in Nat
      <4>1. MIN_BAR_POS \in Int
        BY Units DEF MIN_BAR_POS
      <4>2. board \in Boards
        BY DEF IInv, Tables
      <4>3. Total(d) \in Nat
        BY <1>3, <4>2, Rooms
      <4> QED BY <4>1, <4>3
    <3>4. MIN_BAR_POS + Edge(d) \in Int /\ MIN_BAR_POS + (Edge(d) + Total(d)) \in Int
      BY <1>3, <3>3
    <3> QED BY <1>9, <1>10, <3>1, <3>2, <3>4 DEF DeviceEntry, EntryType
  <2> QED BY <1>7, <1>8, <1>10, <2>1, AppendProperties, LenProperties
<1>15. \A i \in DOMAIN mapa : i \in DOMAIN mapa'
  BY <1>8, <1>14
<1>16. \A p \in Ports :
         /\ Device(p)' <=> Device(p)
         /\ Edge(p)' = Edge(p) /\ DeviceEntry(p)' = DeviceEntry(p)
         /\ Total(p)' = Total(p) /\ \A i \in 1 .. 4 : Place(p, i)' = Place(p, i)
  BY <1>1, EntryDecides
<1>17. ASSUME NEW p \in Ports, p = d PROVE Recorded(p)'
  <2>1. mapa'[Len(mapa) + 1] = DeviceEntry(p)' /\ Len(mapa) + 1 \in DOMAIN mapa'
    BY <1>8, <1>14, <1>16, <1>17
  <2>2. ASSUME NEW i \in 1 .. 4, board'[p].bars[i] # 0
        PROVE  bar'[p][i] = MIN_BAR_POS + (Edge(p)' + Place(p, i)')
    <3>1. sizes[i] # 0
      BY <1>1, <1>17, <2>2 DEF sizes
    <3>2. bar'[p][i] = MIN_BAR_POS + (Edge(p) + Place(p, i))
      BY <1>12, <1>13, <1>17, <3>1
    <3> QED BY <1>16, <3>2
  <2> QED BY <2>1, <2>2 DEF Recorded
<1>18. ASSUME NEW p \in Ports, p # d, Recorded(p) PROVE Recorded(p)'
  BY <1>1, <1>13, <1>14, <1>15, <1>16, <1>18 DEF Recorded
<1>19. \A p \in Ports : Recorded(p) => Recorded(p)'
  BY <1>17, <1>18
<1>20. \A p \in Ports : Opened(p) => Opened(p)'
  BY <1>1, <1>16 DEF Opened
<1>21. Entries'
  <2>1. SUFFICES ASSUME NEW i \in DOMAIN mapa'
                 PROVE  \/ mapa'[i].ClassCode = BRIDGE
                        \/ \E p \in Ports : Device(p)' /\ mapa'[i] = DeviceEntry(p)'
    BY DEF Entries
  <2>2. CASE i \in DOMAIN mapa
    BY <1>14, <1>16, <2>2 DEF ReachInv, Entries
  <2>3. CASE i = Len(mapa) + 1
    BY <1>3, <1>14, <1>16, <2>3 DEF Device
  <2> QED BY <1>8, <1>14, <2>1, <2>2, <2>3
<1>22. Coded
  BY <1>14, <1>15 DEF Coded
<1>23. \A p \in Ports : Device(p)' <=> Device(p)
  BY <1>16
<1>24. Stays
  BY <1>13, <1>19, <1>20, <1>21, <1>22, <1>23 DEF Stays
<1>25. \A p \in Ports : p = stack[1].dev => Recorded(p)'
  BY <1>17 DEF d
<1> QED BY <1>1, <1>2, <1>24, <1>25, ReachReturns

\* A bridge is recorded as one, and its port keeps what it claims.
LEMMA EnterBridgeReaches ==
  ASSUME IInv, ReachInv, NEW f \in Functions, EnterBridge(f)
  PROVE  ReachInv'
<1> DEFINE d == stack[1].dev
<1>1. /\ Len(stack) = 1 /\ stack[1].bridge = 0 /\ d \in Ports /\ d \in 1 .. 3
      /\ board' = board /\ bar' = bar /\ resets' = resets
  BY EnterBridgeIs
<1>2. /\ Len(mapa) \in Nat /\ Len(mapa') = Len(mapa) + 1
      /\ DOMAIN mapa = 1 .. Len(mapa) /\ DOMAIN mapa' = 1 .. (Len(mapa) + 1)
      /\ \A i \in DOMAIN mapa : mapa'[i] = mapa[i]
      /\ mapa'[Len(mapa) + 1].ClassCode = BRIDGE
  BY EnterBridgeIs
<1>3. /\ Len(stack') = 2 /\ stack'[1].dev = d /\ stack'[1].bridge = Len(mapa) + 1
      /\ stack'[2].dev = 0
  BY EnterBridgeIs
<1>4. /\ \A q \in Ports : port'[q].command = port[q].command
      /\ \A q \in Ports \ {d} : port'[q] = port[q]
      /\ port'[d].secondary = d
  BY EnterBridgeIs
<1>5. \A p \in Ports : p < d => Ready(p)
  <2>1. NextPort(d) = d
    BY <1>1 DEF NextPort
  <2> QED BY <1>1, <2>1 DEF ReachInv, Walked
<1>6. resets # 0 => \A p \in Ports : Ready(p)
  BY DEF ReachInv, Walked
<1> HIDE DEF d
<1>7. \A p \in Ports :
        /\ Device(p)' <=> Device(p)
        /\ Edge(p)' = Edge(p) /\ DeviceEntry(p)' = DeviceEntry(p)
        /\ Total(p)' = Total(p) /\ \A i \in 1 .. 4 : Place(p, i)' = Place(p, i)
  BY <1>1, EntryDecides
<1>8. \A i \in DOMAIN mapa : i \in DOMAIN mapa'
  BY <1>2
<1>9. \A p \in Ports : Recorded(p) => Recorded(p)'
  <2>1. ASSUME NEW p \in Ports, Recorded(p) PROVE Recorded(p)'
    <3>1. Device(p) => \E i \in DOMAIN mapa' : mapa'[i] = DeviceEntry(p)
      BY <1>2, <1>8, <2>1 DEF Recorded
    <3> QED BY <1>1, <1>7, <2>1, <3>1 DEF Recorded
  <2> QED BY <2>1
<1>10. \A p \in Ports : Opened(p) => Opened(p)'
  <2>1. \A p \in Ports : port[p].secondary = p => port'[p].secondary = p
    BY <1>4
  <2> QED BY <1>4, <1>7, <2>1 DEF Opened
<1>11. Entries'
  <2>1. SUFFICES ASSUME NEW i \in DOMAIN mapa'
                 PROVE  \/ mapa'[i].ClassCode = BRIDGE
                        \/ \E p \in Ports : Device(p)' /\ mapa'[i] = DeviceEntry(p)'
    BY DEF Entries
  <2>2. CASE i \in DOMAIN mapa
    BY <1>2, <1>7, <2>2 DEF ReachInv, Entries
  <2>3. CASE i = Len(mapa) + 1
    BY <1>2, <2>3
  <2> QED BY <1>2, <2>1, <2>2, <2>3
<1>12. \A p \in Ports : Ready(p) => Ready(p)'
  BY <1>9, <1>10 DEF Ready
<1>13. stack' # <<>>
  <2>1. Len(<<>>) = 0 /\ Len(stack') = 2
    BY <1>3, EmptySeq
  <2> QED BY <2>1
<1>14. Walked'
  <2>1. (resets # 0 \/ stack = <<>> => \A p \in Ports : Ready(p))'
    BY <1>1, <1>6, <1>12, <1>13
  <2>2. \A p \in Ports : p < stack'[1].dev => Ready(p)'
    BY <1>3, <1>5, <1>12
  <2>3. Len(stack') # 1 /\ ~(stack'[2].dev > 0)
    BY <1>3
  <2>4. mapa'[stack'[1].bridge].ClassCode = BRIDGE
    BY <1>2, <1>3
  <2> QED BY <2>1, <2>2, <2>3, <2>4 DEF Walked
<1> QED BY <1>1, <1>11, <1>14 DEF ReachInv

\* A bridge left with everything behind it placed opens what its device needs;
\* the end it writes into its own entry is not a device's.
LEMMA LeaveBridgeReaches ==
  ASSUME ClassesApart, IInv, TableInv, ReachInv, NEW f \in Functions, LeaveBridge(f)
  PROVE  ReachInv'
<1> DEFINE d == stack[1].dev
           b == stack[1].bridge
<1>1. /\ Len(stack) = 1 /\ b # 0 /\ b \in DOMAIN mapa /\ d \in Ports /\ d \in 1 .. 3
      /\ board' = board /\ bar' = bar /\ resets' = resets
  BY LeaveBridgeIs
<1>2. /\ DOMAIN mapa' = DOMAIN mapa
      /\ \A i \in DOMAIN mapa : mapa'[i].ClassCode = mapa[i].ClassCode
      /\ \A i \in DOMAIN mapa : i # b => mapa'[i] = mapa[i]
      /\ Len(stack') = 1 /\ stack'[1].dev = d + 1 /\ stack'[1].bridge = 0
  BY LeaveBridgeIs
<1>3. /\ \A q \in Ports \ {d} : port'[q] = port[q]
      /\ port'[d].secondary = d
  BY LeaveBridgeIs
<1>4. \/ port'[d].command
      \/ offset_BAR_Pos = GRANULE * First(d)
  BY LeaveBridgeIs
<1>5. Total(d) \in Nat /\ GRANULE * First(d) \in Int
  BY LeaveBridgeIs
<1>6. Total(d) > 0 => port'[d].command
  <2>1. offset_BAR_Pos = (GRANULE * First(d)) + Total(d)
    BY <1>1 DEF TableInv, Counts, Placed
  <2> HIDE DEF d
  <2> QED BY <1>4, <1>5, <2>1
<1>7. /\ \A p \in Ports : p < d => Ready(p)
      /\ Recorded(d) /\ mapa[b].ClassCode = BRIDGE
  <2>1. stack # <<>>
    BY DEF LeaveBridge
  <2> QED BY <1>1, <2>1 DEF ReachInv, Walked
<1>8. resets # 0 => \A p \in Ports : Ready(p)
  BY DEF ReachInv, Walked
<1> HIDE DEF d, b
<1>9. \A p \in Ports :
        /\ Device(p)' <=> Device(p)
        /\ Edge(p)' = Edge(p) /\ DeviceEntry(p)' = DeviceEntry(p)
        /\ Total(p)' = Total(p) /\ \A i \in 1 .. 4 : Place(p, i)' = Place(p, i)
  BY <1>1, EntryDecides
<1>10. \A p \in Ports : DeviceEntry(p).ClassCode # BRIDGE
  BY DEF ClassesApart, DeviceEntry, IInv, Tables
<1>11. \A p \in Ports : Recorded(p) => Recorded(p)'
  <2>1. ASSUME NEW p \in Ports, Recorded(p) PROVE Recorded(p)'
    <3>1. ASSUME Device(p) PROVE \E i \in DOMAIN mapa' : mapa'[i] = DeviceEntry(p)
      <4>1. PICK i \in DOMAIN mapa : mapa[i] = DeviceEntry(p)
        BY <2>1, <3>1 DEF Recorded
      <4>2. i # b
        BY <1>7, <1>10, <4>1
      <4> QED BY <1>2, <4>1, <4>2
    <3> QED BY <1>1, <1>9, <2>1, <3>1 DEF Recorded
  <2> QED BY <2>1
<1>12. \A p \in Ports : p = d \/ Opened(p) => Opened(p)'
  <2>1. ASSUME NEW p \in Ports, p = d PROVE Opened(p)'
    BY <1>3, <1>6, <1>9, <2>1 DEF Opened
  <2>2. ASSUME NEW p \in Ports, p # d, Opened(p) PROVE Opened(p)'
    BY <1>3, <1>9, <2>2 DEF Opened
  <2> QED BY <2>1, <2>2
<1>13. Entries'
  <2>1. SUFFICES ASSUME NEW i \in DOMAIN mapa'
                 PROVE  \/ mapa'[i].ClassCode = BRIDGE
                        \/ \E p \in Ports : Device(p)' /\ mapa'[i] = DeviceEntry(p)'
    BY DEF Entries
  <2>2. CASE i # b
    BY <1>2, <1>9, <2>2 DEF ReachInv, Entries
  <2>3. CASE i = b
    BY <1>2, <1>7, <2>3
  <2> QED BY <2>2, <2>3
<1>14. \A p \in Ports : Ready(p) => Ready(p)'
  BY <1>11, <1>12 DEF Ready
<1>15. \A p \in Ports : p < d + 1 => Ready(p)'
  <2>1. \A p \in Ports : p < d + 1 => p < d \/ p = d
    BY <1>1, Units
  <2>2. \A p \in Ports : p = d => Ready(p)'
    BY <1>7, <1>11, <1>12 DEF Ready
  <2> QED BY <1>7, <1>14, <2>1, <2>2
<1>16. stack' # <<>>
  <2>1. Len(<<>>) = 0 /\ Len(stack') = 1
    BY <1>2, EmptySeq
  <2> QED BY <2>1
<1>17. NextPort(stack'[1].dev) = d + 1
  BY <1>1, <1>2 DEF NextPort
<1>18. Walked'
  <2>1. (resets # 0 \/ stack = <<>> => \A p \in Ports : Ready(p))'
    BY <1>1, <1>8, <1>14, <1>16
  <2>2. (\A p \in Ports : p < NextPort(stack[1].dev) => Ready(p))'
    BY <1>15, <1>17
  <2>3. (stack[1].bridge = 0 /\ Len(stack) # 2)'
    BY <1>2
  <2> QED BY <2>1, <2>2, <2>3 DEF Walked
<1> QED BY <1>1, <1>13, <1>18 DEF ReachInv

\* The next enumeration begins with everything of the last.
LEMMA ResetReaches ==
  ASSUME IInv, ReachInv, Reset
  PROVE  ReachInv'
<1>1. /\ UNCHANGED <<board, port, bar, mapa>> /\ stack = <<>> /\ stack' = <<Frame(0)>>
  BY DEF Reset, Booted, Enumerated, Registers
<1>2. Stays
  BY <1>1, ReachStays
<1>3. \A p \in Ports : Ready(p)'
  BY <1>1, <1>2 DEF ReachInv, Walked, Stays, Ready
<1>4. (stack[1].bridge = 0 /\ Len(stack) # 2)'
  BY <1>1, EmptyRoot
<1>5. Walked'
  BY <1>3, <1>4 DEF Walked
<1> QED BY <1>2, <1>5 DEF ReachInv, Stays, Rooms4

\* Before the first there is nothing, and no port is behind the walk.
LEMMA InitReaches ==
  ASSUME Init
  PROVE  ReachInv
<1>1. DOMAIN mapa = {}
  BY EmptySeq, LenProperties DEF Init
<1>2. bar \in [Ports -> [1 .. 4 -> Int]]
  <2>1. <<0, 0, 0, 0>> \in [1 .. 4 -> Int]
    OBVIOUS
  <2> QED BY <2>1 DEF Init
<1>3. /\ stack # <<>> /\ Len(stack) = 1 /\ stack[1].bridge = 0
      /\ NextPort(stack[1].dev) = 1 /\ resets = 0
  BY EmptyRoot, EmptySeq DEF Init
<1>4. \A p \in Ports : ~(p < 1)
  BY Units
<1>5. Walked
  BY <1>3, <1>4 DEF Walked
<1> QED BY <1>1, <1>2, <1>5 DEF ReachInv, Entries

\* Every step of the enumeration keeps what has been reached.
LEMMA StepReaches ==
  ASSUME TableIsEven, ClassesApart, IInv, TableInv, ReachInv, [Next]_vars
  PROVE  ReachInv'
<1>1. CASE EmptyBus \/ EmptySlot \/ TableFull \/ EndOfBus \/ \E f \in Functions : SkipOther(f)
  BY <1>1, NothingReaches
<1>2. CASE Reset
  BY <1>2, ResetReaches
<1>3. ASSUME NEW f \in Functions, EnumerateDevice(f) PROVE ReachInv'
  BY <1>3, EnumerateDeviceReaches, EnumerateDeviceKeeps
<1>4. ASSUME NEW f \in Functions, EnterBridge(f) PROVE ReachInv'
  BY <1>4, EnterBridgeReaches
<1>5. ASSUME NEW f \in Functions, LeaveBridge(f) PROVE ReachInv'
  BY <1>5, LeaveBridgeReaches
<1>6. CASE UNCHANGED vars
  <2>1. UNCHANGED <<board, port, bar, mapa>> /\ stack' = stack /\ resets' = resets
    BY <1>6 DEF vars
  <2>2. Stays
    BY <2>1, ReachStays
  <2>3. \A p \in Ports : /\ Ready(p) => Ready(p)'
                         /\ Recorded(p) => Recorded(p)'
                         /\ Device(p)' <=> Device(p)
    BY <2>2 DEF Stays, Ready
  <2>4. Walked'
    BY <2>1, <2>3 DEF ReachInv, Walked
  <2> QED BY <2>2, <2>4 DEF ReachInv, Stays, Rooms4
<1> QED BY <1>1, <1>2, <1>3, <1>4, <1>5, <1>6 DEF Next

-----------------------------------------------------------------------------
\* A set of numbers that is not empty has a least one.
LEMMA LeastOf ==
  ASSUME NEW S, S \subseteq Nat, S # {}
  PROVE  \E m \in S : \A k \in S : m <= k
<1> DEFINE R == OpToRel(<, Nat)
<1>1. \A x, y \in Nat : x < y => <<x, y>> \in R
  BY Zenon DEF OpToRel
<1>2. IsWellFoundedOn(R, Nat)
  BY NatLessThanWellFounded
<1> HIDE DEF R
<1>3. PICK m \in S : \A k \in S : ~ (<<k, m>> \in R)
  BY <1>2, WFMin
<1>4. \A k \in S : ~ (k < m)
  BY <1>1, <1>3
<1> QED BY <1>4

\* The room of a BAR holds what it spans.
LEMMA BarRoomCovers ==
  ASSUME NEW n \in Nat
  PROVE  BarRoom(n) \in Nat /\ n <= BarRoom(n)
<1>1. CASE n = 0 \/ n <= PAGE
  BY <1>1, Units DEF BarRoom
<1>2. CASE ~(n = 0 \/ n <= PAGE)
  <2> DEFINE W == PAGE
             k == (n + W - 1) \div W
             r == (n + W - 1) % W
  <2>1. W \in Nat \ {0} /\ n + W - 1 \in Nat
    BY Units
  <2> HIDE DEF W
  <2>2. k \in Int /\ r \in 0 .. (W - 1) /\ n + W - 1 = (W * k) + r
    BY <2>1
  <2>3. BarRoom(n) = k * W
    BY <1>2 DEF BarRoom, RoundUp, k, W
  <2> HIDE DEF k, r
  <2>4. k * W = W * k /\ W * k \in Int
    BY <2>1, <2>2
  <2>5. n <= k * W
    BY <2>1, <2>2, <2>4
  <2> QED BY <2>3, <2>5, BarRoomIsNat
<1> QED BY <1>1, <1>2

\* The BARs of a device lie one behind the other, all in its room.
LEMMA PlacesFollow ==
  ASSUME board \in Boards, NEW p \in Ports, Device(p)
  PROVE  /\ \A i \in 1 .. 4 : /\ board[p].bars[i] \in Nat /\ RoomOf(p, i) \in Nat
                              /\ Place(p, i) \in Nat /\ board[p].bars[i] <= RoomOf(p, i)
                              /\ Place(p, i) + RoomOf(p, i) <= Total(p)
         /\ \A i, j \in 1 .. 4 : i < j => Place(p, i) + RoomOf(p, i) <= Place(p, j)
<1>1. \A i \in 1 .. 4 : board[p].bars[i] \in Nat
  BY BoardAssumption
<1>2. \A i \in 1 .. 4 : RoomOf(p, i) \in Nat /\ board[p].bars[i] <= RoomOf(p, i)
  BY <1>1, BarRoomCovers DEF RoomOf
<1>3. Total(p) = RoomOf(p, 1) + RoomOf(p, 2) + RoomOf(p, 3) + RoomOf(p, 4)
  BY DEF Device, Nothing, Total, RoomOf
<1>4. /\ Place(p, 1) = 0 /\ Place(p, 2) = RoomOf(p, 1)
      /\ Place(p, 3) = RoomOf(p, 1) + RoomOf(p, 2)
      /\ Place(p, 4) = RoomOf(p, 1) + RoomOf(p, 2) + RoomOf(p, 3)
  BY DEF Place
<1>5. 1 .. 4 = {1, 2, 3, 4}
  OBVIOUS
<1>6. /\ RoomOf(p, 1) \in Nat /\ RoomOf(p, 2) \in Nat
      /\ RoomOf(p, 3) \in Nat /\ RoomOf(p, 4) \in Nat
  BY <1>2
<1>7. \A i \in {1, 2, 3, 4} : /\ Place(p, i) \in Nat
                              /\ Place(p, i) + RoomOf(p, i) <= Total(p)
  BY <1>3, <1>4, <1>6
<1>8. \A i, j \in {1, 2, 3, 4} : i < j => Place(p, i) + RoomOf(p, i) <= Place(p, j)
  BY <1>4, <1>6
<1> QED BY <1>1, <1>2, <1>5, <1>7, <1>8

\* The window that a port opens holds all the room of its device.
LEMMA WindowCovers ==
  ASSUME IInv, TableInv, NEW p \in Ports, port[p].command,
         NEW n \in Nat, n < Total(p)
  PROVE  MIN_BAR_POS + (Edge(p) + n) \in Window(p)
<1> DEFINE G == GRANULE
           T == Total(p)
           F == First(p)
<1>1. /\ port[p].mbase = HIGH + First(p) /\ port[p].mlimit = HIGH + First(p + 1) - 1
  BY DEF IInv, PortsInv, PortInv, TableInv, Table, Cut, Given
<1>2. G \in Nat \ {0} /\ MIN_BAR_POS = G * HIGH /\ HIGH \in Nat
  BY Units DEF HIGH
<1>3. /\ F \in Nat /\ T \in Nat /\ First(p + 1) = F + Up(T) /\ Up(T) \in Nat
  <2>1. p \in 1 .. 4
    BY Units
  <2>2. First(p) \in Nat /\ Total(p) \in Nat /\ First(p + 1) = First(p) + Up(Total(p))
    BY <2>1, Rooms DEF IInv, Tables
  <2> QED BY <2>2, UpIsNat
<1>4. T <= G * Up(T)
  <2> DEFINE k == (T + G - 1) \div G
             r == (T + G - 1) % G
  <2>1. Up(T) = k
    BY DEF Up
  <2> HIDE DEF G, T
  <2>2. k \in Int /\ r \in 0 .. (G - 1) /\ T + G - 1 = (G * k) + r
    BY <1>2, <1>3
  <2> HIDE DEF k, r
  <2>3. G * k \in Int
    BY <1>2, <2>2
  <2>4. T <= G * k
    BY <1>2, <1>3, <2>2, <2>3
  <2> QED BY <2>1, <2>4
<1>5. Edge(p) = G * F
  BY DEF Edge
<1>6. n < T
  OBVIOUS
<1> HIDE DEF G, T, F
<1>7. /\ (HIGH + F) * G = (G * HIGH) + (G * F)
      /\ ((HIGH + (F + Up(T)) - 1) * G) + G - 1 = (G * HIGH) + (G * F) + (G * Up(T)) - 1
      /\ G * HIGH \in Int /\ G * F \in Int /\ G * Up(T) \in Int
  BY <1>2, <1>3
<1>8. /\ (G * HIGH) + (G * F) <= MIN_BAR_POS + (Edge(p) + n)
      /\ MIN_BAR_POS + (Edge(p) + n) <= (G * HIGH) + (G * F) + (G * Up(T)) - 1
      /\ MIN_BAR_POS + (Edge(p) + n) \in Int
  BY <1>2, <1>3, <1>4, <1>5, <1>6, <1>7
<1>9. Window(p) = ((G * HIGH) + (G * F)) .. ((G * HIGH) + (G * F) + (G * Up(T)) - 1)
  BY <1>1, <1>3, <1>7 DEF Window, G, F
<1> QED BY <1>7, <1>8, <1>9

\* An address is in the window of one port at most.
LEMMA InOneWindow ==
  ASSUME IInv, NEW p \in Ports, NEW q \in Ports, NEW a \in Int,
         InWindow(p, a), InWindow(q, a)
  PROVE  p = q
<1>1. ASSUME NEW m \in Ports, NEW n \in Ports, m < n, InWindow(m, a), InWindow(n, a)
      PROVE  FALSE
  <2> DEFINE G == GRANULE
             k == port[m].mlimit
             l == port[n].mbase
             k0 == port[m].mbase
             l0 == port[n].mlimit
  <2>1. G \in Nat \ {0} /\ k \in Int /\ l \in Int /\ k0 \in Int /\ l0 \in Int
    BY Units DEF IInv, PortsInv, PortType
  <2>2. k < l \/ l0 < k0
    BY <1>1, ApartByUnits DEF WindowsAreApart, InWindow
  <2>3. a \in (k0 * G) .. ((k * G) + G - 1) /\ a \in (l * G) .. ((l0 * G) + G - 1)
    BY <1>1 DEF InWindow, Window
  <2> HIDE DEF G, k, l, k0, l0
  <2>4. k * G = G * k /\ l * G = G * l /\ k0 * G = G * k0 /\ l0 * G = G * l0
        /\ G * k \in Int /\ G * l \in Int /\ G * k0 \in Int /\ G * l0 \in Int
    BY <2>1
  <2>5. CASE k < l
    <3>1. G * (k + 1) <= G * l /\ G * (k + 1) = (G * k) + G
      BY <2>1, <2>5, Products
    <3> QED BY <2>1, <2>3, <2>4, <3>1
  <2>6. CASE l0 < k0
    <3>1. G * (l0 + 1) <= G * k0 /\ G * (l0 + 1) = (G * l0) + G
      BY <2>1, <2>6, Products
    <3> QED BY <2>1, <2>3, <2>4, <3>1
  <2> QED BY <2>2, <2>5, <2>6
<1>2. p < q \/ q < p \/ p = q
  BY Units
<1> QED BY <1>1, <1>2

\* Every address of a BAR reaches that BAR and no other.
LEMMA DecodesOnce ==
  ASSUME PagesEnd, IInv, TableInv, ReachInv, \A q \in Ports : Ready(q),
         NEW p \in Ports, Device(p), NEW i \in 1 .. 4, board[p].bars[i] # 0,
         NEW n \in 0 .. (board[p].bars[i] - 1)
  PROVE  Decoding(bar[p][i] + n) = {<<p, i>>}
<1> DEFINE a == bar[p][i] + n
           base == MIN_BAR_POS + Edge(p)
<1>1. board \in Boards /\ MIN_BAR_POS \in Int /\ Edge(p) \in Int
  <2>1. First(p) \in Nat /\ p \in 1 .. 4
    <3>1. p \in 1 .. 4
      BY Units
    <3> QED BY <3>1, Rooms DEF IInv, Tables
  <2>2. GRANULE \in Nat /\ MIN_BAR_POS \in Int
    BY Units DEF MIN_BAR_POS
  <2>3. Edge(p) \in Int
    BY <2>1, <2>2 DEF Edge
  <2> QED BY <2>2, <2>3 DEF IInv, Tables
<1>2. /\ \A j \in 1 .. 4 : /\ board[p].bars[j] \in Nat /\ RoomOf(p, j) \in Nat
                           /\ Place(p, j) \in Nat /\ board[p].bars[j] <= RoomOf(p, j)
                           /\ Place(p, j) + RoomOf(p, j) <= Total(p)
      /\ \A j, k \in 1 .. 4 : j < k => Place(p, j) + RoomOf(p, j) <= Place(p, k)
  BY <1>1, PlacesFollow
<1>3. Total(p) \in Nat /\ Place(p, i) + n \in Nat /\ Place(p, i) + n < Total(p)
  <2>1. Total(p) \in Nat
    BY <1>1, Rooms
  <2> QED BY <1>2, <2>1
<1>4. \A j \in 1 .. 4 : board[p].bars[j] # 0 =>
        bar[p][j] = MIN_BAR_POS + (Edge(p) + Place(p, j))
  BY DEF Ready, Recorded
<1>5. a = MIN_BAR_POS + (Edge(p) + (Place(p, i) + n)) /\ a \in Int
  <2>1. bar[p][i] = MIN_BAR_POS + (Edge(p) + Place(p, i)) /\ Place(p, i) \in Nat
    BY <1>2, <1>4
  <2> QED BY <1>1, <2>1
<1>6. port[p].command
  <2>1. Total(p) > 0
    BY <1>3
  <2> QED BY <2>1 DEF Ready, Opened
<1> HIDE DEF a
<1>7. InWindow(p, a)
  BY <1>3, <1>5, <1>6, WindowCovers DEF InWindow
<1>8. Decodes(p, i, a)
  <2>1. a \in bar[p][i] .. (bar[p][i] + board[p].bars[i])
    <3>1. bar[p][i] \in Int /\ board[p].bars[i] \in Nat
      BY <1>2 DEF ReachInv
    <3> QED BY <3>1 DEF a
  <2> QED BY <1>7, <2>1 DEF Decodes
<1>9. ASSUME NEW q \in Ports, NEW j \in 1 .. 4, Decodes(q, j, a)
      PROVE  q = p /\ j = i
  <2>1. q = p
    BY <1>5, <1>7, <1>9, InOneWindow DEF Decodes
  <2>2. /\ board[p].bars[j] # 0 /\ bar[p][j] <= a /\ a <= bar[p][j] + board[p].bars[j]
        /\ bar[p][j] = MIN_BAR_POS + (Edge(p) + Place(p, j))
    BY <1>4, <1>9, <2>1 DEF Decodes
  <2>3. ASSUME j < i PROVE FALSE
    <3>1. board[p].bars[j] < RoomOf(p, j)
      BY <1>1, <2>2, <2>3 DEF PagesEnd, RoomOf
    <3>2. Place(p, j) + RoomOf(p, j) <= Place(p, i)
      BY <1>2, <2>3
    <3> QED BY <1>1, <1>2, <1>5, <2>2, <3>1, <3>2
  <2>4. ASSUME i < j PROVE FALSE
    <3>1. Place(p, i) + RoomOf(p, i) <= Place(p, j)
      BY <1>2, <2>4
    <3>2. n < RoomOf(p, i)
      BY <1>2
    <3> QED BY <1>1, <1>2, <1>5, <2>2, <3>1, <3>2
  <2> QED BY <2>1, <2>3, <2>4
<1>10. Decoding(a) = {<<p, i>>}
  <2>1. \A x \in Ports \X (1 .. 4) : Decodes(x[1], x[2], a) <=> x = <<p, i>>
    BY <1>8, <1>9
  <2>2. <<p, i>> \in Ports \X (1 .. 4)
    OBVIOUS
  <2> QED BY <2>1, <2>2 DEF Decoding
<1> QED BY <1>10 DEF a

\* A class that one device has is found in the entry of that device.
LEMMA FoundByClass ==
  ASSUME ClassesApart, IInv, ReachInv, \A q \in Ports : Ready(q),
         NEW p \in Ports, Device(p),
         \A q \in Ports \ {p} : board[q].class # board[p].class
  PROVE  /\ EntriesOf(board[p].class) # {}
         /\ mapa[searchFirst(board[p].class)] = DeviceEntry(p)
<1> DEFINE c == board[p].class
<1>1. c # BRIDGE
  BY DEF ClassesApart, IInv, Tables
<1>2. \A q \in Ports : DeviceEntry(q).ClassCode = board[q].class
  BY DEF DeviceEntry
<1>3. \A i \in EntriesOf(c) : mapa[i] = DeviceEntry(p)
  BY <1>1, <1>2 DEF EntriesOf, ReachInv, Entries
<1>4. EntriesOf(c) # {}
  <2>1. PICK i \in DOMAIN mapa : mapa[i] = DeviceEntry(p)
    BY DEF Ready, Recorded
  <2> QED BY <1>2, <2>1 DEF EntriesOf
<1>5. \E i \in EntriesOf(c) : \A j \in EntriesOf(c) : i <= j
  <2>1. EntriesOf(c) \subseteq Nat
    BY LenProperties DEF EntriesOf, IInv, Tables
  <2> QED BY <1>4, <2>1, LeastOf
<1>6. searchFirst(c) \in EntriesOf(c)
  BY <1>5 DEF searchFirst
<1> QED BY <1>3, <1>4, <1>6

\* All of it, once an enumeration has ended.
LEMMA ReachInvReaches ==
  ASSUME ClassesApart, PagesEnd, IInv, TableInv, ReachInv
  PROVE  DevicesAreReachable
<1>1. SUFFICES ASSUME Enumerated, NEW p \in Ports, Device(p),
                      \A q \in Ports \ {p} : board[q].class # board[p].class,
                      NEW e, e = mapa[searchFirst(board[p].class)]
               PROVE  /\ EntriesOf(board[p].class) # {}
                      /\ Answering(ECAM_ADDR(e.bus, e.dev)) = {EndPoint(p)}
                      /\ \A i \in 1 .. 4 : board[p].bars[i] # 0 =>
                           /\ bar[p][i] \in e.start_address .. (e.end_address - board[p].bars[i])
                           /\ \A n \in 0 .. (board[p].bars[i] - 1) :
                                Decoding(bar[p][i] + n) = {<<p, i>>}
  BY DEF DevicesAreReachable, Device
<1>2. \A q \in Ports : Ready(q)
  BY <1>1 DEF ReachInv, Walked, Enumerated
<1>3. EntriesOf(board[p].class) # {} /\ e = DeviceEntry(p)
  BY <1>1, <1>2, FoundByClass
<1>4. Answering(ECAM_ADDR(e.bus, e.dev)) = {EndPoint(p)}
  <2>1. port[p].secondary = p /\ board[p] # Nothing
    BY <1>1, <1>2 DEF Ready, Opened, Device, Nothing
  <2>2. e.bus = p /\ e.dev = 0 /\ 0 \in 0 .. 31
    BY <1>3 DEF DeviceEntry
  <2>3. Answering(ECAM_ADDR(p, 0)) = {EndPoint(p)}
    BY <2>1, <2>2, LinkAnswers DEF IInv
  <2> QED BY <2>2, <2>3
<1>5. ASSUME NEW i \in 1 .. 4, board[p].bars[i] # 0
      PROVE  bar[p][i] \in e.start_address .. (e.end_address - board[p].bars[i])
  <2>1. /\ board[p].bars[i] \in Nat /\ RoomOf(p, i) \in Nat /\ Place(p, i) \in Nat
        /\ board[p].bars[i] <= RoomOf(p, i) /\ Place(p, i) + RoomOf(p, i) <= Total(p)
    BY <1>1, PlacesFollow DEF IInv, Tables
  <2>2. bar[p][i] = MIN_BAR_POS + (Edge(p) + Place(p, i))
    BY <1>1, <1>2, <1>5 DEF Ready, Recorded
  <2>3. /\ e.start_address = MIN_BAR_POS + Edge(p)
        /\ e.end_address = MIN_BAR_POS + (Edge(p) + Total(p))
    BY <1>3 DEF DeviceEntry
  <2>4. MIN_BAR_POS \in Int /\ Edge(p) \in Int /\ Total(p) \in Nat
    <3>1. First(p) \in Nat /\ Total(p) \in Nat
      <4>1. p \in 1 .. 4
        BY Units
      <4> QED BY <4>1, Rooms DEF IInv, Tables
    <3>2. GRANULE \in Nat /\ MIN_BAR_POS \in Int
      BY Units DEF MIN_BAR_POS
    <3> QED BY <3>1, <3>2 DEF Edge
  <2> QED BY <2>1, <2>2, <2>3, <2>4
<1>6. \A i \in 1 .. 4 : board[p].bars[i] # 0 =>
        \A n \in 0 .. (board[p].bars[i] - 1) : Decoding(bar[p][i] + n) = {<<p, i>>}
  BY <1>1, <1>2, DecodesOnce
<1> QED BY <1>3, <1>4, <1>5, <1>6
\* ecam.c:115: once an enumeration has ended, the first or one that a reset runs
\* over the registers and the table of another, the entry that searchFirst gives of
\* a device that is the only one of its class leads to its configuration space,
\* and every address of its BARs reaches that BAR and no other.  It takes a
\* table of an even number of entries, six or more, a class that is not a
\* bridge's, and BARs that leave the last address of their pages free; the
\* addresses of the model do not wrap, so it speaks of boards whose BARs fit.
THEOREM DevicesAreAlwaysReachable ==
  ASSUME TableIsEven, ClassesApart, PagesEnd
  PROVE  Spec => []DevicesAreReachable
<1> DEFINE Inv == IInv /\ TableInv /\ ReachInv
<1>1. Init => Inv
  BY InitHolds, InitCounts, InitReaches
<1>2. Inv /\ [Next]_vars => Inv'
  BY StepKeeps, StepReaches
<1>3. Inv => DevicesAreReachable
  BY ReachInvReaches
<1> QED BY <1>1, <1>2, <1>3, PTL DEF Spec

=============================================================================
