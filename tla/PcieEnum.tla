------------------------------ MODULE PcieEnum ------------------------------
(***************************************************************************)
(* The enumeration of the PCIe buses by the BIOS (hal/ecam.c) over the     *)
(* root complex and the configuration spaces of its ports and of the       *)
(* devices behind them.                                                    *)
(*                                                                         *)
(* bus_Enumeration walks a bus, records what answers in mapa, places the   *)
(* BARs of a device and opens the window of a bridge once everything       *)
(* behind it is placed.  Its recursion is a stack of frames.  The          *)
(* configuration space is reached through the ports it is setting up: a    *)
(* read or a write goes to whatever answers the address at that moment.    *)
(*                                                                         *)
(* The shell's reset runs all of it again while the ports keep the         *)
(* registers, and mapa the entries, of the time before.                    *)
(*                                                                         *)
(* No function of this hardware has more than function 0 in its header,    *)
(* so the loop over functions always ends at the first.                    *)
(***************************************************************************)
EXTENDS Integers, Sequences, FiniteSets

CONSTANTS
  PAGE,                \* units of address in a page, 4096 in the hardware
  MAX_PCIE_DEVICES,    \* entries of mapa
  Boards,              \* what may be behind the three ports
  MaxResets

SPACE == 1048576 * PAGE            \* 2^32
MIN_BAR_POS == 786432 * PAGE       \* 0xC0000000
ECAM_BASE == 917504 * PAGE         \* 0xE0000000
ECAM_SIZE == 16384 * PAGE          \* the six bits of a bus number
GRANULE == 16 * PAGE               \* 64 KiB, the unit of a window
DEVICES == 32
BUSES == 256
MAX_SEARCH_CAPACITY == 32
ALL_ONES == SPACE - 1

Ports == 1 .. 3                    \* their device numbers on bus 0
BRIDGE == "bridge"                 \* class 0x060400
TTY == "tty"                       \* class 0x070000
KEYBOARD == "keyboard"             \* class 0x090000
NVM == "nvm"                       \* class 0x010802
Nothing == [class |-> "none", header |-> 127, bars |-> <<0, 0, 0, 0>>]

ASSUME PageAssumption == PAGE \in Nat \ {0}
\* An endpoint says of itself that it is no bridge.
ASSUME BoardAssumption ==
  \A b \in Boards : \A p \in Ports :
    b[p].header \in Nat \ {1} /\ b[p].bars \in [1 .. 4 -> Nat]


VARIABLES
  board,             \* [Ports -> an endpoint [class, header, bars], or Nothing]
  port,              \* registers of the ports
  bar,               \* the four BAR registers of each endpoint
  mapa,              \* the table; map_size is its length
  stack,             \* frames of bus_Enumeration, the running one last
  next_bus_number,
  offset_BAR_Pos,
  resets

vars == <<board, port, bar, mapa, stack, next_bus_number, offset_BAR_Pos, resets>>

RoundUp(n, unit) == ((n + unit - 1) \div unit) * unit

-----------------------------------------------------------------------------
(***************************************************************************)
(* The root complex: who answers an address.                               *)
(***************************************************************************)
ECAM_ADDR(bus, dev) == ECAM_BASE + PAGE * ((256 * bus) + (8 * dev))
Is_ECAM(a) == a \in ECAM_BASE .. (ECAM_BASE + ECAM_SIZE - 1)
BusOf(a) == (a - ECAM_BASE) \div (256 * PAGE)
DevOf(a) == ((a - ECAM_BASE) \div (8 * PAGE)) % DEVICES

Internal_ECAM(p, a) ==
  Is_ECAM(a) /\ port[p].primary = BusOf(a) /\ DevOf(a) = p

Downstream_ECAM(p, a) ==
  /\ Is_ECAM(a) /\ ~Internal_ECAM(p, a)
  /\ \/ port[p].secondary = BusOf(a) /\ port[p].primary # BusOf(a)
     \/ port[p].secondary < BusOf(a) /\ BusOf(a) <= port[p].subordinate

\* The addresses of the window of a port, those it opens at least.
Window(p) == (port[p].mbase * GRANULE) .. ((port[p].mlimit * GRANULE) + GRANULE - 1)
InWindow(p, a) == port[p].command /\ a \in Window(p)

Port(p) == [kind |-> "port", at |-> p]
EndPoint(p) == [kind |-> "endpoint", at |-> p]
Functions == {Port(p) : p \in Ports} \union {EndPoint(p) : p \in Ports}

\* The functions whose configuration space an address reads and writes.  An
\* endpoint answers for every device of its link.
Answering(a) ==
  {Port(p) : p \in {q \in Ports : Internal_ECAM(q, a)}}
    \union {EndPoint(p) : p \in {q \in Ports : Downstream_ECAM(q, a) /\ board[q] # Nothing}}

Header(f) == IF f.kind = "port" THEN 1 ELSE board[f.at].header
ClassCode(f) == IF f.kind = "port" THEN BRIDGE ELSE board[f.at].class

\* The registers of devices that an address reads and writes: both ends of
\* what a BAR spans are compared with "not beyond".
Decodes(p, i, a) ==
  /\ InWindow(p, a) /\ board[p].bars[i] # 0
  /\ a \in bar[p][i] .. (bar[p][i] + board[p].bars[i])
Decoding(a) == {x \in Ports \X (1 .. 4) : Decodes(x[1], x[2], a)}

-----------------------------------------------------------------------------
Frame(bus) == [bus |-> bus, dev |-> 0, bridge |-> 0]
Top == stack[Len(stack)]
Callers == SubSeq(stack, 1, Len(stack) - 1)
Base == ECAM_ADDR(Top.bus, Top.dev)
NextDevice == Append(Callers, [bus |-> Top.bus, dev |-> Top.dev + 1, bridge |-> 0])

PortOff == [command |-> FALSE, primary |-> 0, secondary |-> 0, subordinate |-> 0,
            mbase |-> 0, mlimit |-> 0]

Init ==
  /\ board \in Boards
  /\ port = [p \in Ports |-> PortOff]
  /\ bar = [p \in Ports |-> <<0, 0, 0, 0>>]
  /\ mapa = <<>>
  /\ stack = <<Frame(0)>> /\ next_bus_number = 1 /\ offset_BAR_Pos = 0
  /\ resets = 0

Scanning == stack # <<>> /\ Top.bridge = 0 /\ Top.dev < DEVICES

RoomButOne == Len(mapa) < MAX_PCIE_DEVICES - 1
Room == Len(mapa) < MAX_PCIE_DEVICES
Present(f) == Scanning /\ f \in Answering(Base) /\ Room
Entry(f, start, end) ==
  [bus |-> Top.bus, dev |-> Top.dev, ClassCode |-> ClassCode(f),
   start_address |-> MIN_BAR_POS + start, end_address |-> MIN_BAR_POS + end]
Registers == <<board, port, bar>>

EmptyBus ==
  /\ Scanning /\ Answering(Base) = {} /\ Top.bus # 0 /\ Top.dev = 0
  /\ stack' = Callers
  /\ UNCHANGED <<Registers, mapa, next_bus_number, offset_BAR_Pos, resets>>

EmptySlot ==
  /\ Scanning /\ Answering(Base) = {} /\ ~(Top.bus # 0 /\ Top.dev = 0)
  /\ stack' = NextDevice
  /\ UNCHANGED <<Registers, mapa, next_bus_number, offset_BAR_Pos, resets>>

TableFull ==
  /\ Scanning /\ Answering(Base) # {} /\ ~Room
  /\ stack' = Callers
  /\ UNCHANGED <<Registers, mapa, next_bus_number, offset_BAR_Pos, resets>>

\* The room a BAR takes, and the offsets before each BAR and after the last.
BarRoomUnrounded(size) == IF size = 0 THEN 0 ELSE IF size <= PAGE THEN PAGE ELSE size
BarRoom(size) ==
  IF size = 0 THEN 0 ELSE IF size <= PAGE THEN PAGE ELSE RoundUp(size, PAGE)
BarOffset(sizes) ==
  LET second == offset_BAR_Pos + BarRoom(sizes[1])
      third == second + BarRoom(sizes[2])
      fourth == third + BarRoom(sizes[3])
  IN  <<offset_BAR_Pos, second, third, fourth, fourth + BarRoom(sizes[4])>>

\* A device: its BARs are sized and placed, and nothing more of its bus is
\* looked at.
EnumerateDevice(f) ==
  /\ Present(f) /\ Header(f) = 0
  /\ LET sizes == board[f.at].bars
         before == BarOffset(sizes)
     IN  /\ bar' = [bar EXCEPT ![f.at] = [i \in 1 .. 4 |->
                      IF sizes[i] = 0 THEN ALL_ONES ELSE MIN_BAR_POS + before[i]]]
         /\ offset_BAR_Pos' = before[5]
         /\ mapa' = Append(mapa, Entry(f, before[1], before[5]))
  /\ stack' = Callers
  /\ UNCHANGED <<board, port, next_bus_number, resets>>

\* A bridge: it forwards its new bus only while that is enumerated.
Forwarding(registers, from, to) ==
  [command |-> registers.command, primary |-> from, secondary |-> to, subordinate |-> to,
   mbase |-> registers.mbase, mlimit |-> registers.mlimit]
EnterBridge(f) ==
  /\ Present(f) /\ Header(f) = 1
  /\ LET start == RoundUp(offset_BAR_Pos, GRANULE)
         within == Append(Callers, [Top EXCEPT !.bridge = Len(mapa) + 1])
     IN  /\ offset_BAR_Pos' = start
         /\ mapa' = Append(mapa, Entry(f, start, start))
         /\ stack' = IF next_bus_number >= BUSES THEN within
                     ELSE Append(within, Frame(next_bus_number))
  /\ port' = [port EXCEPT ![f.at] = Forwarding(@, Top.bus, next_bus_number)]
  /\ next_bus_number' = next_bus_number + 1
  /\ UNCHANGED <<board, bar, resets>>

\* The window a bridge gets between the two ends of its entry.
WindowLimit(end) == (end - 1) \div GRANULE
WithWindow(registers, start, end) ==
  [command |-> registers.command \/ end > start, primary |-> registers.primary,
   secondary |-> registers.secondary, subordinate |-> registers.subordinate,
   mbase |-> IF end > start THEN start \div GRANULE ELSE 0,
   mlimit |-> IF end > start THEN WindowLimit(end) ELSE 0]

LeaveBridge(f) ==
  /\ stack # <<>> /\ Top.bridge # 0 /\ f \in Answering(Base)
  /\ LET start == mapa[Top.bridge].start_address
         offset == IF offset_BAR_Pos > start - MIN_BAR_POS
                   THEN RoundUp(offset_BAR_Pos, GRANULE) ELSE offset_BAR_Pos
         end == MIN_BAR_POS + offset
     IN  /\ offset_BAR_Pos' = offset
         /\ mapa' = [mapa EXCEPT ![Top.bridge].end_address = end]
         /\ port' = [port EXCEPT ![f.at] =
                       WithWindow([@ EXCEPT !.subordinate = next_bus_number - 1],
                                  start, end)]
  /\ stack' = NextDevice
  /\ UNCHANGED <<board, bar, next_bus_number, resets>>

\* A header of another type: the entry written is not counted.
SkipOther(f) ==
  /\ Present(f) /\ Header(f) \notin {0, 1}
  /\ stack' = NextDevice
  /\ UNCHANGED <<Registers, mapa, next_bus_number, offset_BAR_Pos, resets>>

EndOfBus ==
  /\ stack # <<>> /\ Top.bridge = 0 /\ Top.dev = DEVICES
  /\ stack' = Callers
  /\ UNCHANGED <<Registers, mapa, next_bus_number, offset_BAR_Pos, resets>>

-----------------------------------------------------------------------------
Enumerated == stack = <<>>
EntriesOf(class) == {i \in DOMAIN mapa : mapa[i].ClassCode = class}
searchFirst(class) ==
  CHOOSE i \in EntriesOf(class) : \A j \in EntriesOf(class) : i <= j

\* The addresses search gives for a class: the sum in 32 bits.
search(class) ==
  LET found == {i \in EntriesOf(class) :
                  Cardinality({j \in EntriesOf(class) : j < i}) < MAX_SEARCH_CAPACITY}
  IN  {(ECAM_BASE + ECAM_ADDR(mapa[i].bus, mapa[i].dev)) % SPACE : i \in found}

\* main goes on to the shell only with a terminal, a memory and a keyboard,
\* and the shell's reset is main again.
Booted == Enumerated /\ \A class \in {TTY, NVM, KEYBOARD} : EntriesOf(class) # {}
Reset ==
  /\ Booted /\ resets < MaxResets
  /\ stack' = <<Frame(0)>> /\ next_bus_number' = 1 /\ offset_BAR_Pos' = 0
  /\ resets' = resets + 1
  /\ UNCHANGED <<Registers, mapa>>

Next ==
  \/ EmptyBus \/ EmptySlot \/ TableFull \/ EndOfBus \/ Reset
  \/ \E f \in Functions :
       EnumerateDevice(f) \/ EnterBridge(f) \/ LeaveBridge(f) \/ SkipOther(f)

Spec == Init /\ [][Next]_vars

-----------------------------------------------------------------------------
TypeOK ==
  /\ board \in Boards
  /\ port \in [Ports -> [command : BOOLEAN, primary : 0 .. 255, secondary : 0 .. 255,
                         subordinate : 0 .. 255, mbase : 0 .. 65535, mlimit : 0 .. 65535]]
  /\ \A p \in Ports : bar[p] \in [1 .. 4 -> 0 .. ALL_ONES]
  /\ Len(mapa) <= MAX_PCIE_DEVICES
  /\ \A k \in DOMAIN stack : stack[k].dev \in 0 .. DEVICES /\ stack[k].bridge \in 0 .. Len(mapa)
  /\ next_bus_number \in 1 .. BUSES /\ offset_BAR_Pos \in Nat /\ resets \in 0 .. MaxResets

\* At every moment of an enumeration, the first or one that a reset runs over
\* the registers of another, an address of the configuration space has at most
\* one answer, no two ports forward the same address to their devices, and
\* none takes an address of RAM or of the configuration space (bus numbers and
\* windows are given out while the ports still hold their former ones).
AnsweredOnce(a) == \A f, g \in Answering(a) : f = g
WindowsAreApart ==
  \A p, q \in Ports : p < q /\ port[p].command /\ port[q].command =>
    port[p].mlimit < port[q].mbase \/ port[q].mlimit < port[p].mbase
WindowsAreHigh ==
  \A p \in Ports : port[p].command =>
    /\ port[p].mbase * GRANULE >= MIN_BAR_POS
    /\ (port[p].mlimit + 1) * GRANULE <= ECAM_BASE
OneClaimant ==
  /\ \A bus \in 0 .. 4, dev \in 0 .. 4 : AnsweredOnce(ECAM_ADDR(bus, dev))
  /\ WindowsAreApart /\ WindowsAreHigh

\* What the drivers rely on when they take the first entry of their class: its
\* bus and device number reach the configuration space of that very device,
\* and every address of every BAR reaches that BAR and no other, through the
\* windows as the enumeration left them; also after any number of resets, when
\* the entry is the one of the first enumeration and the table may be full.
DevicesAreReachable ==
  Enumerated => \A p \in Ports :
    LET class == board[p].class
        e == mapa[searchFirst(class)]
    IN  board[p].header = 0 /\ (\A q \in Ports \ {p} : board[q].class # class) =>
          /\ EntriesOf(class) # {}
          /\ Answering(ECAM_ADDR(e.bus, e.dev)) = {EndPoint(p)}
          /\ \A i \in 1 .. 4 : board[p].bars[i] # 0 =>
               /\ bar[p][i] \in e.start_address .. (e.end_address - board[p].bars[i])
               /\ \A n \in 0 .. (board[p].bars[i] - 1) : Decoding(bar[p][i] + n) = {<<p, i>>}

\* ecam.c:125 and nvm.c:103: search finds the devices of a class, and nvmSearch
\* initialises each memory through the address it is given.
SearchFindsConfig ==
  Enumerated => \A a \in search(NVM) :
    \E p \in Ports : Answering(a) = {EndPoint(p)} /\ board[p].class = NVM
=============================================================================
