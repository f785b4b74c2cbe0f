----------------------------- MODULE Assembler -----------------------------
(***************************************************************************)
(* The two passes of Ensamblador/assembler.py, line by line: one action    *)
(* per kind of line of the first pass, the routine .start it injects, and  *)
(* the second pass.  The process may assemble several sources, as the      *)
(* graphical interface does; relocs outlives an assembly because the code  *)
(* keeps it as an attribute of the function first_pass.                    *)
(*                                                                         *)
(* A job is [lines, mode].  A line is a record with the field dir:         *)
(*   section name | label name | comm name size align | align bytes |      *)
(*   long data expr | data data unit | zero n | ignored | ins ins | raise  *)
(* A directive with several values is several lines, which is how its loop *)
(* treats them; .byte, .ascii and .asciz are data of unit 1, .short is     *)
(* data of unit 2; raise is a string that _decode_c_string cannot turn     *)
(* into bytes.  A byte is a pair <<0, value>>; the bytes of an address a   *)
(* are <<-1, a>> to <<-4, a>>.                                             *)
(***************************************************************************)
EXTENDS Encoder, FiniteSets

CONSTANTS
  Batches,     \* the sequences of jobs that a process may be given
  RAM_BASE,    \* 0x04000000
  BSS_MARK,    \* 0x0B550000, stands for the start of .bss in the first pass
  BSS_END      \* 0x0B600000

\* There is something to assemble.
ASSUME BatchesStart == \A b \in Batches : 1 \in DOMAIN b

\* A source is assembled in one of two modes; its lines are numbered from 1.
ASSUME LinesAssumption ==
  \A b \in Batches : \A j \in DOMAIN b :
    /\ b[j].mode \in {"rom", "ram"}
    /\ Len(b[j].lines) \in Nat /\ DOMAIN b[j].lines = 1 .. Len(b[j].lines)

NoExpr == [kind |-> "none"]

\* What the regular expressions of the first pass let through; the bytes of
\* an alignment are a power of two.
ASSUME BatchAssumption ==
  \A b \in Batches : \A j \in DOMAIN b : \A k \in DOMAIN b[j].lines :
    LET l == b[j].lines[k]
    IN  /\ l.dir = "section" => l.name \in {"text", "data", "rodata", "bss"}
        /\ l.dir = "ins" => l.ins.args \in Seq(Argument)
        /\ l.dir = "comm" => l.size \in Nat /\ l.align \in Nat
        /\ l.dir = "align" => /\ l.bytes \in Nat \ {0}
                              /\ l.bytes \in {1, 2} \/ l.bytes % 4 = 0
        /\ l.dir = "long" => /\ l.data \in Seq(Nat) /\ Len(l.data) = 4
                             /\ \/ l.expr = NoExpr
                                \/ l.expr.kind = "sym" /\ l.expr.off \in Int
        /\ l.dir = "data" => l.data \in Seq(Nat) /\ l.unit \in {1, 2}
        /\ l.dir = "zero" => l.n \in Nat

\* The ROM is made of rows of 16 bytes and its indices are told from the
\* addresses of RAM, which has room for what .start can copy and then for .bss.
ASSUME MapAssumption ==
  /\ RAM_BASE \in Nat /\ BSS_MARK \in Nat /\ BSS_END \in Nat
  /\ ROM_SIZE % 16 = 0 /\ ROM_SIZE \div 4 <= WORD_LIMIT
  /\ WORD_LIMIT <= RAM_BASE /\ RAM_BASE + HALF <= BSS_MARK /\ BSS_MARK <= BSS_END
  /\ BSS_END <= ROM_BASE

VARIABLES
  batch, job, line,      \* the jobs, the one assembled and its next line
  phase,
  section,               \* current_section
  rom,                   \* what goes to the image, see EmptyRom
  ram,                   \* what goes to RAM, see EmptyRam
  label_map,
  relocs,                \* first_pass.rom_data_relocs
  errors,                \* how many were reported
  image                  \* the words of the second pass

None == -1

lines == batch[job].lines
mode == batch[job].mode
ThisLine == lines[line]

ZeroByte == <<0, 0>>
Zeros(n) == [i \in 1 .. n |-> ZeroByte]
DataBytes(data) == [i \in DOMAIN data |-> <<0, data[i]>>]
AddressBytes(a) == [i \in 1 .. 4 |-> <<-i, a>>]

\* table[key] = value, in a dictionary
Assigned(table, key, value) ==
  [k \in DOMAIN table \union {key} |-> IF k = key THEN value ELSE table[k]]

\* Bytes to add to n to reach a multiple of k.
Pad(n, k) == (k - (n % k)) % k

EmptyRom == [rom_address |-> 0, pending |-> <<>>, pending_bytes |-> <<>>,
             text_start_word |-> None]
EmptyRam == [rom_data_bytes |-> <<>>, ram_data_offset |-> 0,
             ram_bss_offset |-> 0]

-----------------------------------------------------------------------------
(***************************************************************************)
(* What a line adds to the image.  An item of pending remembers its line.  *)
(***************************************************************************)
Raw(bytes, expr, l) == [kind |-> "raw", bytes |-> bytes, expr |-> expr, line |-> l]
Pending(ins, l) == [kind |-> "tokens", ins |-> ins, line |-> l]
Encoded(word) == [kind |-> "word", word |-> word, line |-> 0]

ZeroWords(n, l) == [i \in 1 .. n |-> Raw(Zeros(4), NoExpr, l)]

\* Four bytes to a word, the last one filled with zeros.
ByteAt(bytes, i) == IF i \in DOMAIN bytes THEN bytes[i] ELSE ZeroByte
Packed(bytes) ==
  [w \in 1 .. ((Len(bytes) + 3) \div 4) |->
     Raw([k \in 1 .. 4 |-> ByteAt(bytes, (4 * (w - 1)) + k)], NoExpr, 0)]

\* _mark_text_start
MarkedAnywhere(r) ==
  IF r.text_start_word = None THEN [r EXCEPT !.text_start_word = r.rom_address] ELSE r
Marked(r) ==
  IF section = "text" /\ r.text_start_word = None
    THEN [r EXCEPT !.text_start_word = r.rom_address] ELSE r

Emitted(r, items) ==
  [rom_address |-> r.rom_address + Len(items), pending |-> r.pending \o items,
   pending_bytes |-> r.pending_bytes, text_start_word |-> r.text_start_word]

flush_pending_bytesUnfilled(r) ==
  IF r.pending_bytes = <<>> THEN r
  ELSE [Emitted(Marked(r), Packed(r.pending_bytes)) EXCEPT
          !.pending_bytes = <<>>,
          !.rom_address = r.rom_address + (Len(r.pending_bytes) \div 4)]
flush_pending_bytes(r) ==
  IF r.pending_bytes = <<>> THEN r
  ELSE [Emitted(Marked(r), Packed(r.pending_bytes)) EXCEPT !.pending_bytes = <<>>]

\* Zero words up to a multiple of k bytes.
AlignedWords(r, k, l) ==
  Emitted(r, ZeroWords(IF k > 4 THEN Pad(r.rom_address, k \div 4) ELSE 0, l))

\* Where the bytes of a section go.
ToRam(s) == mode = "rom" /\ section = s
ToImage == ~ToRam("data") /\ ~ToRam("bss")

AppendedData(r, bytes) ==
  [rom_data_bytes |-> r.rom_data_bytes \o bytes,
   ram_data_offset |-> r.ram_data_offset + Len(bytes),
   ram_bss_offset |-> r.ram_bss_offset]
ReservedBss(r, n) == [r EXCEPT !.ram_bss_offset = @ + n]

DataPad(k) == Zeros(Pad(ram.ram_data_offset, k))
BssPad(k) == Pad(ram.ram_bss_offset, k)

-----------------------------------------------------------------------------
(***************************************************************************)
(* The first pass.                                                         *)
(***************************************************************************)
Begin(j) ==
  /\ job' = j /\ line' = 1 /\ phase' = "first"
  /\ section' = "text"
  /\ rom' = EmptyRom /\ ram' = EmptyRam
  /\ label_map' = <<>> /\ errors' = 0 /\ image' = <<>>

Init ==
  /\ batch \in Batches
  /\ job = 1 /\ line = 1 /\ phase = "first"
  /\ section = "text"
  /\ rom = EmptyRom /\ ram = EmptyRam
  /\ label_map = <<>> /\ errors = 0 /\ image = <<>>
  /\ relocs = <<>>

Reading(dir) ==
  /\ phase = "first" /\ line \in DOMAIN lines /\ ThisLine.dir = dir
  /\ line' = line + 1
  /\ UNCHANGED <<batch, job, phase, image>>

SectionAsNamed ==
  /\ Reading("section")
  /\ section' = ThisLine.name
  /\ UNCHANGED <<rom, ram, label_map, relocs, errors>>
\* .rodata is kept with .data, to be copied to RAM.
Section ==
  /\ Reading("section")
  /\ section' = IF ThisLine.name = "rodata" THEN "data" ELSE ThisLine.name
  /\ UNCHANGED <<rom, ram, label_map, relocs, errors>>

\* A symbol of .bss with its size.  In ram mode its words go straight to the
\* image, whatever bytes are waiting to be packed.
CommRom ==
  LET pad == BssPad(IF ThisLine.align > 0 THEN ThisLine.align ELSE 1)
  IN  /\ label_map' = Assigned(label_map, ThisLine.name,
                                 BSS_MARK + ram.ram_bss_offset + pad)
      /\ ram' = ReservedBss(ram, pad + ThisLine.size)
      /\ UNCHANGED rom
CommRam ==
  LET aligned == AlignedWords(rom, ThisLine.align, line)
  IN  /\ label_map' = Assigned(label_map, ThisLine.name, aligned.rom_address)
      /\ rom' = Emitted(aligned, ZeroWords((ThisLine.size + 3) \div 4, line))
      /\ UNCHANGED ram
Comm ==
  /\ Reading("comm")
  /\ IF ThisLine.name \in DOMAIN label_map
       THEN errors' = errors + 1 /\ UNCHANGED <<rom, ram, label_map>>
       ELSE UNCHANGED errors /\ IF mode = "rom" THEN CommRom ELSE CommRam
  /\ UNCHANGED <<section, relocs>>

\* .p2align and .align, whose n stands here for the 2^n bytes.
Align ==
  /\ Reading("align")
  /\ LET k == ThisLine.bytes
     IN  \/ /\ ToImage
            /\ LET flushed == flush_pending_bytes(rom)
                   aligned == AlignedWords(flushed, k, line)
               IN  rom' = IF aligned = flushed THEN flushed
                          ELSE AlignedWords(Marked(flushed), k, line)
            /\ UNCHANGED ram
         \/ /\ ToRam("data")
            /\ ram' = AppendedData(ram, DataPad(k))
            /\ UNCHANGED rom
         \/ /\ ToRam("bss")
            /\ ram' = ReservedBss(ram, BssPad(k))
            /\ UNCHANGED rom
  /\ UNCHANGED <<section, label_map, relocs, errors>>

\* .long and .word: a number, or a label for the second pass to resolve.
Long ==
  /\ Reading("long")
  /\ \/ /\ ToImage
        /\ rom' = Emitted(Marked(flush_pending_bytes(rom)),
                          <<Raw(DataBytes(ThisLine.data), ThisLine.expr, line)>>)
        /\ UNCHANGED <<ram, relocs>>
     \/ /\ ToRam("data")
        /\ LET padded == AppendedData(ram, DataPad(4))
           IN  /\ ram' = AppendedData(padded, DataBytes(ThisLine.data))
               /\ relocs' = IF ThisLine.expr = NoExpr THEN relocs
                            ELSE Assigned(relocs, padded.ram_data_offset, ThisLine.expr)
        /\ UNCHANGED rom
     \/ /\ ToRam("bss")
        /\ ram' = ReservedBss(ram, BssPad(4) + 4)
        /\ UNCHANGED <<rom, relocs>>
  /\ UNCHANGED <<section, label_map, errors>>

\* .short, .byte, .ascii and .asciz
Data ==
  /\ Reading("data")
  /\ LET data == DataBytes(ThisLine.data)
         k == ThisLine.unit
     IN  \/ /\ ToImage
            /\ rom' = [rom EXCEPT !.pending_bytes = @ \o data]
            /\ UNCHANGED ram
         \/ /\ ToRam("data")
            /\ ram' = AppendedData(ram, DataPad(k) \o data)
            /\ UNCHANGED rom
         \/ /\ ToRam("bss")
            /\ ram' = ReservedBss(ram, BssPad(k) + Len(data))
            /\ UNCHANGED rom
  /\ UNCHANGED <<section, label_map, relocs, errors>>

\* .zero, .space and .skip
Zero ==
  /\ Reading("zero")
  /\ \/ /\ ToImage
        /\ rom' = [rom EXCEPT !.pending_bytes = @ \o Zeros(ThisLine.n)]
        /\ UNCHANGED ram
     \/ /\ ToRam("data")
        /\ ram' = AppendedData(ram, Zeros(ThisLine.n))
        /\ UNCHANGED rom
     \/ /\ ToRam("bss")
        /\ ram' = ReservedBss(ram, ThisLine.n)
        /\ UNCHANGED rom
  /\ UNCHANGED <<section, label_map, relocs, errors>>

\* A label is where the next byte of its section goes.
LabelAddress(r) ==
  IF ToRam("data") THEN RAM_BASE + ram.ram_data_offset
  ELSE IF ToRam("bss") THEN BSS_MARK + ram.ram_bss_offset
  ELSE r.rom_address
Label ==
  /\ Reading("label")
  /\ rom' = flush_pending_bytes(rom)
  /\ IF ThisLine.name \in DOMAIN label_map
       THEN errors' = errors + 1 /\ UNCHANGED label_map
       ELSE /\ label_map' = Assigned(label_map, ThisLine.name, LabelAddress(rom'))
            /\ UNCHANGED errors
  /\ UNCHANGED <<section, ram, relocs>>

Ignored ==
  /\ Reading("ignored")
  /\ UNCHANGED <<section, rom, ram, label_map, relocs, errors>>

\* Every mnemonic looks like a label to _tokens_need_second_pass, so every
\* instruction is encoded in the second pass.
Instruction ==
  /\ Reading("ins")
  /\ rom' = Emitted(Marked(flush_pending_bytes(rom)), <<Pending(ThisLine.ins, line)>>)
  /\ UNCHANGED <<section, ram, label_map, relocs, errors>>

\* A string with a character above 255: the exception ends the assembly.
Raise ==
  /\ phase = "first" /\ line \in DOMAIN lines /\ ThisLine.dir = "raise"
  /\ phase' = "raised"
  /\ UNCHANGED <<batch, job, line, section, rom, ram, label_map, relocs, errors, image>>

-----------------------------------------------------------------------------
(***************************************************************************)
(* The end of the first pass.  Labels of .bss move to their place after    *)
(* .data, and in rom mode the words of .data and the routine that copies   *)
(* them are appended to the image.                                         *)
(***************************************************************************)
FixedUpUnrounded(labels) ==
  [name \in DOMAIN labels |->
     IF mode = "rom" /\ labels[name] \in BSS_MARK .. (BSS_END - 1)
       THEN RAM_BASE + ram.ram_data_offset + (labels[name] - BSS_MARK) ELSE labels[name]]
FixedUp(labels) ==
  LET bss_start == RAM_BASE + ram.ram_data_offset + Pad(ram.ram_data_offset, 4)
  IN  [name \in DOMAIN labels |->
         IF mode = "rom" /\ labels[name] \in BSS_MARK .. (BSS_END - 1)
           THEN bss_start + (labels[name] - BSS_MARK) ELSE labels[name]]

Reloc(byte_offset) ==
  IF byte_offset \in DOMAIN relocs THEN relocs[byte_offset] ELSE NoExpr
DataWords ==
  LET words == Packed(ram.rom_data_bytes)
  IN  [w \in DOMAIN words |-> [words[w] EXCEPT !.expr = Reloc(4 * (w - 1))]]

Ldi(r, imm) == Encoded(build_word(4, OPCODES.LDI, (r * Weight("A")) + imm))
Adi(r, imm) == Encoded(build_word(4, OPCODES.ADI, (r * Weight("A")) + imm))
LoadAddress(r, address) ==
  <<Ldi(r, compute_hi_lo(address).hi), Adi(r, compute_hi_lo(address).lo)>>
Move(op, r, offset) ==
  Encoded(build_word(MEM_TYPES.INT, op,
                     (r * Weight("A")) + (2 * Weight("B")) + (offset % HALF)))

\* R15 points to the words in ROM, R1 to RAM; each goes through R2.
CopyData(start, n) ==
  IF n = 0 THEN <<>>
  ELSE LoadAddress(15, start) \o LoadAddress(1, RAM_BASE)
       \o [i \in 1 .. (2 * n) |->
             IF i % 2 = 1 THEN Move(OPCODES.LOD, 15, 4 * ((i - 1) \div 2))
                          ELSE Move(OPCODES.STR, 1, 4 * ((i - 1) \div 2))]

MainOperand(kind) == [kind |-> kind, sym |-> "main", off |-> 0]
R15 == [kind |-> "R", n |-> 15]
JumpToMain(labels, text_start_word) ==
  (IF "main" \in DOMAIN labels
     THEN <<Pending([prefix |-> "H", mnemonic |-> "LDI", args |-> <<R15, MainOperand("hi")>>], 0),
            Pending([prefix |-> "SLT", mnemonic |-> "ADI", args |-> <<R15, MainOperand("lo")>>], 0)>>
     ELSE LoadAddress(15, IF text_start_word = None THEN 0 ELSE text_start_word))
  \o <<Encoded(build_word(0, OPCODES.JMP, 15 * Weight("B")))>>

NeedsStart == mode = "rom" /\ (ram.rom_data_bytes # <<>> \/ ram.ram_bss_offset > 0)

InjectStart(r, labels) ==
  LET withData == Emitted(r, DataWords)
      named == Assigned(labels, ".start", withData.rom_address)
  IN  /\ rom' = [withData EXCEPT
                   !.pending = @ \o CopyData(r.rom_address, Len(DataWords))
                                 \o JumpToMain(named, r.text_start_word)]
      /\ label_map' = named
      /\ relocs' = <<>>
      /\ errors' = IF "main" \notin DOMAIN labels /\ r.text_start_word = None
                     THEN errors + 1 ELSE errors

EndFirstPass ==
  /\ phase = "first" /\ line \notin DOMAIN lines
  /\ LET flushed == flush_pending_bytes(rom)
         labels == FixedUp(label_map)
     IN  IF NeedsStart THEN InjectStart(flushed, labels)
         ELSE /\ rom' = flushed /\ label_map' = labels
              /\ UNCHANGED <<relocs, errors>>
  /\ phase' = "second"
  /\ UNCHANGED <<batch, job, line, section, ram, image>>

-----------------------------------------------------------------------------
(***************************************************************************)
(* The second pass encodes what was left pending, at the index it has.  A  *)
(* word of the image is an instruction or four bytes of data.              *)
(***************************************************************************)
DataWord(bytes) == [kind |-> "data", bytes |-> bytes]

Resolvable(item) ==
  CASE item.kind = "raw" -> item.expr = NoExpr \/ Defined(item.expr, label_map)
    [] item.kind = "tokens" -> Encodable(item.ins, label_map)
    [] OTHER -> TRUE

WordOf(item) ==
  CASE item.kind = "word" -> item.word
    [] item.kind = "tokens" ->
         IF Resolvable(item) THEN encode_single(item.ins, label_map) ELSE BadWord
    [] item.kind = "raw" ->
         IF item.expr = NoExpr THEN DataWord(item.bytes)
         ELSE IF ~Resolvable(item) THEN DataWord(Zeros(4))
         ELSE DataWord(AddressBytes(physical(eval_label_expr(item.expr, label_map))))

SecondPass ==
  /\ phase = "second"
  /\ image' = [i \in DOMAIN rom.pending |->
                 [line |-> rom.pending[i].line, word |-> WordOf(rom.pending[i])]]
  /\ errors' = errors + Cardinality({i \in DOMAIN rom.pending : ~Resolvable(rom.pending[i])})
  /\ phase' = "assembled"
  /\ UNCHANGED <<batch, job, line, section, rom, ram, label_map, relocs>>

-----------------------------------------------------------------------------
FirstPass ==
  \/ Section \/ Comm \/ Align \/ Long \/ Data \/ Zero
  \/ Label \/ Ignored \/ Instruction \/ Raise

\* The graphical interface assembles again whatever became of the last one.
NextJob ==
  /\ job + 1 \in DOMAIN batch
  /\ Begin(job + 1)
  /\ UNCHANGED <<batch, relocs>>

Assemble == FirstPass \/ EndFirstPass \/ SecondPass

asm_vars == <<batch, job, line, phase, section, rom, ram, label_map, relocs,
              errors, image>>

-----------------------------------------------------------------------------
(***************************************************************************)
(* The addresses of the first pass are counted apart from what is emitted, *)
(* rom_address from the items pending and ram_data_offset from the bytes   *)
(* of .data.  Whatever the program, they agree at every line, so that the  *)
(* second pass finds each word at the index its labels were given.         *)
(***************************************************************************)
AddressesCountWords ==
  phase = "first" =>
    /\ rom.rom_address = Len(rom.pending)
    /\ ram.ram_data_offset = Len(ram.rom_data_bytes)
=============================================================================
