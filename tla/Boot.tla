-------------------------------- MODULE Boot --------------------------------
(***************************************************************************)
(* From a source to a running program: the assembler writes its image to   *)
(* the ROM with a reset vector in its last row (write_rom_logisim), and    *)
(* the processor executes it, through .start if there is one, to the entry *)
(* of the program.                                                         *)
(*                                                                         *)
(* The processor is the part of it that a boot and a first access to a     *)
(* variable need: LDI, ADI, INT LOD, INT STR, JMP, NOP and HLT, one after  *)
(* the other.  RAM holds zeros when it is switched on.                     *)
(***************************************************************************)
EXTENDS Assembler

VARIABLES
  rom_file,    \* [words, target]: the image and where the reset vector goes
  cpu,         \* [status, pc, regs, mem]
  entered      \* history: the processor has been at the entry of the program

vars == <<asm_vars, rom_file, cpu, entered>>

RESET_ROW == (ROM_SIZE \div 4) - 4       \* 0xFFFF0, in words
NoRom == [words |-> <<>>, target |-> 0]

Number(n) == [kind |-> "num", n |-> n]
Content(bytes) == [kind |-> "data", bytes |-> bytes]
CpuOff == [status |-> "off", pc |-> SPACE - 16,
           regs |-> [r \in 0 .. 15 |-> Number(0)], mem |-> <<>>]

BootInit == Init /\ rom_file = NoRom /\ cpu = CpuOff /\ entered = FALSE

-----------------------------------------------------------------------------
(***************************************************************************)
(* The ROM is written only if there were no errors.                        *)
(***************************************************************************)
ResetTarget ==
  IF mode = "rom" /\ ".start" \in DOMAIN label_map THEN label_map[".start"]
  ELSE IF "main" \in DOMAIN label_map THEN label_map["main"]
  ELSE IF rom.text_start_word # None THEN rom.text_start_word
  ELSE 0

write_rom_logisim ==
  /\ phase = "assembled" /\ errors = 0 /\ image # <<>>
  /\ rom_file' = [words |-> [i \in DOMAIN image |-> image[i].word],
                  target |-> ResetTarget]
  /\ cpu' = [CpuOff EXCEPT !.status = "on"] /\ entered' = FALSE
  /\ phase' = "running"
  /\ UNCHANGED <<batch, job, line, section, rom, ram, label_map, relocs, errors, image>>

ResetVector ==
  LET split == compute_hi_lo(rom_file.target)
  IN  <<build_word(4, OPCODES.LDI, (15 * Weight("A")) + split.hi),
        build_word(4, OPCODES.ADI, (15 * Weight("A")) + split.lo),
        build_word(0, OPCODES.JMP, 15 * Weight("B")),
        build_word(0, OPCODES.NOP, 0)>>

-----------------------------------------------------------------------------
(***************************************************************************)
(* Where the program begins: at the first instruction after main, or else  *)
(* at the first one of .text.                                              *)
(***************************************************************************)
Indices(dir) == {k \in DOMAIN lines : lines[k].dir = dir}

\* Where a line of code went, by the line number that goes with its word.
IndexOf(b) == CHOOSE i \in DOMAIN image : image[i].line = b
CodeAddress(b) == ROM_BASE + (4 * (IndexOf(b) - 1))

SectionAt(k) ==
  LET before == {i \in Indices("section") : i < k}
  IN  IF before = {} THEN "text"
      ELSE lines[CHOOSE i \in before : \A j \in before : j <= i].name

MainLabels == {k \in Indices("label") : lines[k].name = "main"}
EntryCode ==
  {b \in Indices("ins") : SectionAt(b) = "text" /\ (MainLabels = {} \/ \E k \in MainLabels : b > k)}
EntryLine == CHOOSE b \in EntryCode : \A c \in EntryCode : b <= c

\* The program gets control; what it does later is its own business.
AtEntry ==
  /\ phase = "running" /\ cpu.status = "on" /\ ~entered
  /\ EntryCode # {} /\ cpu.pc = CodeAddress(EntryLine)

-----------------------------------------------------------------------------
(***************************************************************************)
(* Memory: ROM at the top of the addresses, RAM below.                     *)
(***************************************************************************)
InRom(a) == a \in ROM_BASE .. (SPACE - 1)
RomWord(i) ==
  IF i >= RESET_ROW THEN ResetVector[i - RESET_ROW + 1]
  ELSE IF i + 1 \in DOMAIN rom_file.words THEN rom_file.words[i + 1]
  ELSE DataWord(Zeros(4))
WordAt(a) == RomWord((a - ROM_BASE) \div 4)

Opaque(word) == [i \in 1 .. 4 |-> <<i, word.op>>]     \* code read as data
BytesOf(word) == IF word.kind = "data" THEN word.bytes ELSE Opaque(word)
MemoryByte(a) ==
  IF InRom(a) THEN BytesOf(WordAt(a))[(a % 4) + 1]
  ELSE IF a \in DOMAIN cpu.mem THEN cpu.mem[a] ELSE ZeroByte
Bytes(a, n) == [i \in 1 .. n |-> MemoryByte(a + i - 1)]

\* A word of zeros is NOP, any other data is some instruction or none.
Nop == build_word(0, OPCODES.NOP, 0)
Fetched ==
  IF ~InRom(cpu.pc) THEN DataWord(<<>>)
  ELSE IF WordAt(cpu.pc) = DataWord(Zeros(4)) THEN Nop
  ELSE WordAt(cpu.pc)

Executing(op) ==
  /\ phase = "running" /\ cpu.status = "on"
  /\ Fetched.kind = "ins" /\ Fetched.op = op
  /\ UNCHANGED <<asm_vars, rom_file>>

Advance(c) == cpu' = [c EXCEPT !.pc = (@ + 4) % SPACE]
Reg(r) == cpu.regs[r]
RegBytes(r) == IF Reg(r).kind = "data" THEN Reg(r).bytes ELSE AddressBytes(Reg(r).n)
Displaced(r) == (Reg(r).n + SignExtend(Inmd(Fetched))) % SPACE

CpuNop == Executing(OPCODES.NOP) /\ Advance(cpu)

\* H loads the upper half, the lower one is zero.
CpuLdi ==
  /\ Executing(OPCODES.LDI)
  /\ LET value == IF Fetched.tipo = 4 THEN Inmd(Fetched) * HALF ELSE Inmd(Fetched)
     IN  Advance([cpu EXCEPT !.regs[FieldA(Fetched)] = Number(value)])

CpuAdi ==
  /\ Executing(OPCODES.ADI) /\ Reg(FieldA(Fetched)).kind = "num"
  /\ Advance([cpu EXCEPT !.regs[FieldA(Fetched)] = Number(Displaced(FieldA(Fetched)))])

CpuLod ==
  /\ Executing(OPCODES.LOD) /\ Reg(FieldA(Fetched)).kind = "num"
  /\ Advance([cpu EXCEPT !.regs[FieldB(Fetched)] =
                Content(Bytes(Displaced(FieldA(Fetched)), 4))])

CpuStr ==
  /\ Executing(OPCODES.STR) /\ Reg(FieldA(Fetched)).kind = "num"
  /\ LET a == Displaced(FieldA(Fetched))
         stored == RegBytes(FieldB(Fetched))
     IN  Advance([cpu EXCEPT !.mem =
                    [x \in DOMAIN cpu.mem \union a .. (a + 3) |->
                       IF x \in a .. (a + 3) THEN stored[x - a + 1] ELSE cpu.mem[x]]])

CpuJmp ==
  /\ Executing(OPCODES.JMP) /\ Reg(FieldB(Fetched)).kind = "num"
  /\ cpu' = [cpu EXCEPT !.pc = Reg(FieldB(Fetched)).n]

CpuHlt ==
  /\ Executing(OPCODES.HLT)
  /\ cpu' = [cpu EXCEPT !.status = "halted"]

\* Data executed as an instruction, and instructions left out of the model.
CpuLost ==
  /\ phase = "running" /\ cpu.status = "on"
  /\ Fetched.kind = "ins" =>
       Fetched.op \notin {OPCODES.NOP, OPCODES.LDI, OPCODES.ADI, OPCODES.LOD,
                          OPCODES.STR, OPCODES.JMP, OPCODES.HLT}
  /\ cpu' = [cpu EXCEPT !.status = "lost"]
  /\ UNCHANGED <<asm_vars, rom_file>>

Cpu ==
  /\ CpuNop \/ CpuLdi \/ CpuAdi \/ CpuLod \/ CpuStr \/ CpuJmp \/ CpuHlt \/ CpuLost
  /\ entered' = (entered \/ AtEntry)

-----------------------------------------------------------------------------
\* A rejected source leaves the ROM as it was; a new run needs the processor
\* stopped only so that the model has an end.
Rejected == phase = "raised" \/ (phase = "assembled" /\ (errors > 0 \/ image = <<>>))
Stopped == phase = "running" /\ cpu.status \in {"halted", "lost"}

Running ==
  \/ Assemble /\ UNCHANGED <<rom_file, cpu, entered>>
  \/ write_rom_logisim
  \/ Cpu
BootNext ==
  \/ Running
  \/ (Rejected \/ Stopped) /\ NextJob /\ UNCHANGED <<rom_file, cpu, entered>>

\* An assembly and a processor that can go on do; nobody has to ask for more.
BootSpec == BootInit /\ [][BootNext]_vars /\ WF_vars(Running)

-----------------------------------------------------------------------------
(***************************************************************************)
(* What a source says, apart from how it is assembled.  An object is a     *)
(* label with the lines that follow it, or a .comm symbol.                 *)
(***************************************************************************)
Emits == {"long", "data", "zero", "ins"}

\* The lines of the object at k.
Body(k) ==
  IF lines[k].dir = "comm" THEN {k}
  ELSE {b \in DOMAIN lines : /\ b > k
                              /\ \A i \in (k + 1) .. b : lines[i].dir \in Emits}

\* The bytes a line stands for, and how many the lines up to b do.
Size(b) ==
  CASE lines[b].dir = "data" -> Len(lines[b].data)
    [] lines[b].dir = "zero" -> lines[b].n
    [] lines[b].dir \in {"long", "ins"} -> 4
    [] lines[b].dir = "comm" -> lines[b].size
    [] OTHER -> 0
SizeUpTo[b \in 0 .. Len(lines)] == IF b = 0 THEN 0 ELSE SizeUpTo[b - 1] + Size(b)

\* Where line b is in the object at k: its lines follow one another.
Offset(k, b) == SizeUpTo[b - 1] - SizeUpTo[k - 1]

LineBytes(b) ==
  CASE lines[b].dir = "data" -> DataBytes(lines[b].data)
    [] lines[b].dir \in {"zero", "comm"} -> Zeros(Size(b))
    [] lines[b].dir = "long" ->
         IF lines[b].expr = NoExpr THEN DataBytes(lines[b].data)
         ELSE AddressBytes(physical(label_map[lines[b].expr.sym]) + lines[b].expr.off)

Objects == Indices("label") \union Indices("comm")
Address(name) == physical(label_map[name])
LinePlace(k, b) == LET a == Address(lines[k].name) + Offset(k, b) IN a .. (a + Size(b) - 1)
Place(k) == UNION {LinePlace(k, b) : b \in Body(k)}

Alignment(k) ==
  IF lines[k].dir = "comm" THEN IF lines[k].align > 0 THEN lines[k].align ELSE 1
  ELSE IF k > 1 /\ lines[k - 1].dir = "align" THEN lines[k - 1].bytes ELSE 1

\* Objects that the program finds in RAM.
InBss(k) == mode = "rom" /\ (lines[k].dir = "comm" \/ SectionAt(k) = "bss")
InData(k) == mode = "rom" /\ lines[k].dir # "comm" /\ SectionAt(k) \in {"data", "rodata"}

-----------------------------------------------------------------------------
(***************************************************************************)
(* The sources the promises below are about.  Each condition is a limit of *)
(* the assembler, which reports no error beyond it.                        *)
(***************************************************************************)
\* A line that packs the bytes that wait.
Packs(k) == lines[k].dir \in {"label", "align", "long", "ins"}

\* In ram mode .comm takes its address before the bytes that wait for a word
\* are emitted, so it must not follow any.
CommIsPacked ==
  mode = "ram" => \A k \in Indices("comm"), b \in Indices("data") \union Indices("zero") :
    b < k => \E i \in b .. k : Packs(i)

\* Code is in .text, and there is some to enter.  Without main, .text must begin
\* with it; and bytes of another section that wait for a line of .text mark its
\* beginning before it.
CodeIsText == \A b \in Indices("ins") : SectionAt(b) = "text"
EntryIsCode ==
  /\ EntryCode # {}
  /\ \A k \in Objects : lines[k].name = "main" =>
       lines[k].dir = "label" /\ SectionAt(k) = "text"
  /\ MainLabels = {} =>
       \A b \in Indices("long") \union Indices("data") \union Indices("zero") :
         b < EntryLine =>
           /\ SectionAt(b) # "text"
           /\ mode = "ram" /\ lines[b].dir # "long" =>
                \E i \in b .. EntryLine : Packs(i) /\ SectionAt(i) # "text"

\* A name of the assembler's own replaces the label of the source.
StartIsFree == \A k \in Objects : lines[k].name # ".start"

\* A directive that aligns its value does so between a label and what the
\* label names, or in the middle of it.
Unit(b) ==
  CASE lines[b].dir \in {"long", "ins"} -> 4
    [] lines[b].dir = "data" /\ InData(b) -> lines[b].unit
    [] OTHER -> 1
ValuesAreAligned ==
  \A k \in Indices("label") : \A b \in Body(k) :
    /\ Offset(k, b) % Unit(b) = 0
    /\ InData(k) \/ InBss(k) => Alignment(k) % Unit(b) = 0

\* The bases of ROM and of RAM are as aligned as any object.
BasesAreAligned ==
  \A k \in Objects :
    /\ RAM_BASE % Alignment(k) = 0 /\ ROM_BASE % Alignment(k) = 0
    /\ Alignment(k) \in {1, 2} \/ Alignment(k) % 4 = 0

\* The displacements of the copy are signed.
CopyIsShort == Len(ram.rom_data_bytes) <= HALF \div 2

\* .bss starts at a multiple of four bytes and holds zeros, and its labels are
\* told from others by their addresses.
BssIsPlain ==
  /\ \A k \in Objects : InBss(k) => Alignment(k) \in {1, 2, 4}
  /\ \A b \in Indices("long") \union Indices("data") :
       InBss(b) => /\ DataBytes(lines[b].data) = Zeros(Size(b))
                   /\ lines[b].dir = "long" => lines[b].expr = NoExpr
  /\ ram.ram_bss_offset < BSS_END - BSS_MARK

\* The last row of the ROM is for the reset vector.
ImageFits == Len(image) <= RESET_ROW

\* An offset is in words when its label is an index of the ROM.
OffsetIsBytes(arg) ==
  \/ arg.off = 0
  \/ label_map[arg.sym] >= WORD_LIMIT /\ label_map[arg.sym] + arg.off >= WORD_LIMIT
OffsetsAreBytes ==
  \A k \in Indices("long") \union Indices("ins") :
    LET args == IF lines[k].dir = "long" THEN {lines[k].expr} ELSE ToSet(lines[k].ins.args)
    IN  \A arg \in args : arg.kind \in {"hi", "lo", "sym"} => OffsetIsBytes(arg)

\* An assembly that ended in an exception leaves its relocations behind.
NothingRaised == \A j \in 1 .. (job - 1) :
                   \A k \in DOMAIN batch[j].lines : batch[j].lines[k].dir # "raise"

Plain ==
  /\ CommIsPacked /\ CodeIsText /\ EntryIsCode /\ StartIsFree
  /\ ValuesAreAligned /\ BasesAreAligned
  /\ CopyIsShort /\ BssIsPlain /\ ImageFits
  /\ OffsetsAreBytes /\ NothingRaised

-----------------------------------------------------------------------------
TypeOK ==
  /\ batch \in Batches /\ job \in DOMAIN batch /\ line \in 1 .. (Len(lines) + 1)
  /\ phase \in {"first", "second", "raised", "assembled", "running"}
  /\ section \in {"text", "data", "bss"}
  /\ errors \in Nat /\ entered \in BOOLEAN
  /\ cpu.status \in {"off", "on", "halted", "lost"}
  /\ cpu.pc \in 0 .. (SPACE - 1)
  /\ DOMAIN cpu.regs = 0 .. 15
  /\ \A r \in 0 .. 15 : Reg(r).kind = "num" => Reg(r).n \in 0 .. (SPACE - 1)
  /\ DOMAIN cpu.mem \subseteq 0 .. (SPACE + 2)

(***************************************************************************)
(* When the program gets control, every object of the source is where its  *)
(* label says: its bytes and its instructions one after the other in RAM   *)
(* or ROM, aligned as asked, no two objects on the same byte, all of them  *)
(* in the RAM counted for them, nothing written but the data.  It takes    *)
(* both passes, the words of .data appended to the image, the fixed up     *)
(* .bss and every word copied by .start.                                   *)
(***************************************************************************)
LineIsInPlace(k, b) ==
  LET a == Address(lines[k].name) + Offset(k, b)
  IN  IF lines[b].dir = "ins" THEN CodeAddress(b) = a ELSE Bytes(a, Size(b)) = LineBytes(b)
ObjectIsInPlace(k) ==
  /\ \A b \in Body(k) : LineIsInPlace(k, b)
  /\ Address(lines[k].name) % Alignment(k) = 0
DataEnd == RAM_BASE + Len(ram.rom_data_bytes) + 3
MemoryIsAsWritten ==
  AtEntry /\ Plain =>
    /\ \A k \in Objects : ObjectIsInPlace(k)
    /\ \A k, m \in Objects : k # m => Place(k) \cap Place(m) = {}
    /\ DOMAIN cpu.mem \subseteq RAM_BASE .. DataEnd
    /\ \A k \in Objects : Address(lines[k].name) < ROM_BASE =>
         Place(k) \subseteq RAM_BASE .. (DataEnd + ram.ram_bss_offset)

(***************************************************************************)
(* An instruction that names a symbol gets its address, offset included,   *)
(* and what it loads from there is the object: the halves of every address *)
(* are split, resolved and joined again on the way.  The program leaves    *)
(* the address in R4 and the word in R5.                                   *)
(***************************************************************************)
Referenced == CHOOSE arg \in UNION {ToSet(lines[k].ins.args) : k \in Indices("ins")} :
                arg.kind \in {"hi", "sym"}
HasReference == \E k \in Indices("ins") : \E arg \in ToSet(lines[k].ins.args) :
                  arg.kind \in {"hi", "sym"}
ReferencesResolve ==
  phase = "running" /\ cpu.status = "halted" /\ HasReference /\ Plain =>
    /\ cpu.regs[4] = Number(Address(Referenced.sym) + Referenced.off)
    /\ \A k \in Objects : lines[k].name = Referenced.sym =>
         \A b \in Body(k) : \A j \in 1 .. Size(b) :
           LET i == Offset(k, b) + j - Referenced.off
           IN  lines[b].dir # "ins" /\ i \in 1 .. 4 =>
                 cpu.regs[5].bytes[i] = LineBytes(b)[j]

(***************************************************************************)
(* An instruction that was accepted decodes, in the processor, to the      *)
(* mnemonic and the operands written; a number it cannot hold is never cut *)
(* to one it can.  Two instructions that name the halves of one expression *)
(* hold what the processor joins to its address, wherever they stand.      *)
(***************************************************************************)
Decoded(word) ==
  LET op == CHOOSE m \in DOMAIN OPCODES : OPCODES[m] = word.op
  IN  [mnemonic |-> op,
       operands |->
         CASE op \in ThreeRegisters -> <<FieldA(word), FieldB(word), FieldC(word)>>
           [] op \in {"LOD", "STR"} -> <<FieldA(word), FieldB(word), Inmd(word)>>
           [] op \in {"LDI", "ADI"} -> <<FieldA(word), Inmd(word)>>
           [] op \in {"BRH", "CYE", "CYR"} -> <<FieldA(word), FieldB(word)>>
           [] op \in {"JMP", "CAL"} -> <<FieldB(word)>>
           [] op = "GOF" -> <<FieldA(word)>>
           [] OTHER -> <<>>]
Means(operand, arg) ==
  CASE arg.kind \in {"R", "SR"} -> operand = arg.n
    [] arg.kind = "num" -> arg.n \in {operand, operand - HALF}
    [] arg.kind = "cond" -> operand = CONDITIONS[arg.cond]
    [] OTHER -> TRUE
AsWritten(ins, word) ==
  /\ Decoded(word).mnemonic = ins.mnemonic
  /\ Len(Decoded(word).operands) = Len(ins.args)
  /\ \A i \in DOMAIN ins.args : Means(Decoded(word).operands[i], ins.args[i])
  /\ ins.prefix \in DOMAIN MEM_TYPES => word.tipo = MEM_TYPES[ins.prefix]
  /\ ins.prefix \in {"H", "SLT"} <=> word.tipo = 4

Symbols(ins) == {arg \in ToSet(ins.args) : arg.kind \in {"hi", "lo", "sym"}}
HalfNamed(ins, arg) == IF arg.kind = "sym" THEN PseudoKind(ins) ELSE arg.kind
ArePair(upper, x, lower, y) ==
  /\ HalfNamed(upper, x) = "hi" /\ HalfNamed(lower, y) = "lo"
  /\ x.sym = y.sym /\ x.off = y.off
PairReaches(upper, lower, address) ==
  address \in 0 .. (SPACE - 1) => Joined(Inmd(upper), Inmd(lower)) = address

CodeWord(b) == image[IndexOf(b)].word
EncodedAsWritten ==
  phase = "assembled" /\ errors = 0 =>
    /\ \A b \in Indices("ins") : AsWritten(lines[b].ins, CodeWord(b))
    /\ \A b, c \in Indices("ins") :
         \A x \in Symbols(lines[b].ins), y \in Symbols(lines[c].ins) :
           ArePair(lines[b].ins, x, lines[c].ins, y) /\ OffsetIsBytes(x) =>
             PairReaches(CodeWord(b), CodeWord(c), Address(x.sym) + x.off)

(***************************************************************************)
(* A source with nothing wrong in it is accepted; out of reset, through    *)
(* the vector and .start, the processor reaches main or else the first     *)
(* instruction of .text.                                                   *)
(***************************************************************************)
Correct ==
  /\ \A k, m \in Objects : lines[k].name = lines[m].name => k = m
  /\ \A k \in Indices("long") : lines[k].expr = NoExpr \/ Defined(lines[k].expr, label_map)
  /\ \A k \in Indices("ins") : Encodable(lines[k].ins, label_map)
BootReachesEntry == (phase = "assembled" /\ Correct /\ Plain) ~> AtEntry

\* The documented map of ram mode: .data and .bss are assembled contiguously.
RamSectionsAreContiguous ==
  AtEntry /\ mode = "ram" =>
    \A k, m \in Objects : k # m => Place(k) \cap Place(m) = {}
=============================================================================
