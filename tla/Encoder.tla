------------------------------ MODULE Encoder ------------------------------
(***************************************************************************)
(* One instruction at a time: encode_single of Ensamblador/assembler.py,   *)
(* the immediates it resolves with the labels of the first pass, and what  *)
(* the decoder of the processor makes of the word.                         *)
(*                                                                         *)
(* An instruction is [prefix, mnemonic, args], an argument is a record of  *)
(* a kind; "sym" is a label with no %hi or %lo, "other" cannot be read.  A *)
(* label map is a function from names to addresses.                        *)
(***************************************************************************)
EXTENDS Split, Sequences, SequencesExt

OPCODES ==
  [NOP |-> 0, HLT |-> 1, ADD |-> 2, SUB |-> 3, MUL |-> 4, DIV |-> 5, NOR |-> 6,
   AND |-> 7, XOR |-> 8, RSH |-> 9, LSH |-> 10, GOF |-> 11, LDI |-> 12,
   ADI |-> 13, JMP |-> 14, BRH |-> 15, CAL |-> 16, RET |-> 17, LOD |-> 18,
   STR |-> 19, CYE |-> 20, CYR |-> 21, SCL |-> 22, SRT |-> 23]
MEM_TYPES == [CHAR |-> 0, SHORT |-> 1, INT |-> 2]
CONDITIONS ==
  [EQ |-> 0, NE |-> 1, N |-> 2, NN |-> 3, C |-> 4, NC |-> 5, OV |-> 6, NOV |-> 7]

MEM_INSTRUCTIONS == {"LOD", "STR"}
ThreeRegisters == {"ADD", "SUB", "MUL", "DIV", "NOR", "AND", "XOR", "RSH", "LSH"}
Silenced == ThreeRegisters \union {"ADI"}       \* what SLT applies to

Argument ==
  [kind : {"R", "SR", "num"}, n : Int] \union [kind : {"cond"}, cond : STRING]
    \union [kind : {"hi", "lo", "sym"}, sym : STRING, off : Int]
    \union [kind : {"other"}]

Invalid == -1           \* a field that could not be parsed

\* Which prefixes a mnemonic takes: none of the others is ignored.
PrefixApplies(prefix, mnemonic) ==
  /\ mnemonic \in DOMAIN OPCODES
  /\ (prefix \in DOMAIN MEM_TYPES) <=> (mnemonic \in MEM_INSTRUCTIONS)
  /\ prefix \in {"H", "L"} => mnemonic = "LDI"
  /\ prefix = "SLT" => mnemonic \in Silenced

Tipo(prefix) ==
  IF prefix \in {"SLT", "H"} THEN 4
  ELSE IF prefix \in DOMAIN MEM_TYPES THEN MEM_TYPES[prefix] ELSE 0

-----------------------------------------------------------------------------
parse_register(arg) ==
  IF arg.kind = "R" /\ arg.n \in 0 .. 15 THEN arg.n ELSE Invalid
parse_special_register(arg) ==
  IF arg.kind = "SR" /\ arg.n \in 0 .. 15 THEN arg.n ELSE Invalid
parse_condition(arg) ==
  IF arg.kind = "cond" /\ arg.cond \in DOMAIN CONDITIONS
    THEN CONDITIONS[arg.cond] ELSE Invalid

\* A signed immediate may be written as its unsigned equal.
parse_immediateUnchecked(arg, signed) ==
  IF arg.kind = "num" THEN arg.n % HALF ELSE Invalid
parse_immediate(arg, signed) ==
  LET least == IF signed THEN -(HALF \div 2) ELSE 0
  IN  IF arg.kind = "num" /\ arg.n \in least .. (HALF - 1)
        THEN arg.n % HALF ELSE Invalid

\* An offset is added to whatever the label map holds.
Defined(arg, label_map) == arg.sym \in DOMAIN label_map
eval_label_expr(arg, label_map) == label_map[arg.sym] + arg.off

\* What a label without %hi or %lo stands for depends on the instruction.
PseudoKind(ins) == IF ins.mnemonic = "ADI" /\ ins.prefix = "SLT" THEN "lo" ELSE "hi"

_resolve_imm_or_pseudo(arg, label_map, kind, signed) ==
  IF arg.kind \notin {"hi", "lo", "sym"} THEN parse_immediate(arg, signed)
  ELSE IF ~Defined(arg, label_map) THEN Invalid
  ELSE LET halves == compute_hi_lo(eval_label_expr(arg, label_map))
       IN  halves[IF arg.kind = "sym" THEN kind ELSE arg.kind]

-----------------------------------------------------------------------------
(***************************************************************************)
(* Where each argument of a mnemonic goes, and how it is read.             *)
(***************************************************************************)
Layout(mnemonic) ==
  CASE mnemonic \in ThreeRegisters ->
         <<<<"reg", "A">>, <<"reg", "B">>, <<"reg", "C">>>>
    [] mnemonic = "GOF" -> <<<<"reg", "A">>>>
    [] mnemonic = "LDI" -> <<<<"reg", "A">>, <<"imm", "I">>>>
    [] mnemonic = "ADI" -> <<<<"reg", "A">>, <<"simm", "I">>>>
    [] mnemonic \in {"JMP", "CAL"} -> <<<<"reg", "B">>>>
    [] mnemonic = "BRH" -> <<<<"cond", "A">>, <<"reg", "B">>>>
    [] mnemonic \in MEM_INSTRUCTIONS ->
         <<<<"reg", "A">>, <<"reg", "B">>, <<"offset", "I">>>>
    [] mnemonic = "CYE" -> <<<<"sreg", "A">>, <<"reg", "B">>>>
    [] mnemonic = "CYR" -> <<<<"reg", "A">>, <<"sreg", "B">>>>
    [] OTHER -> <<>>

\* The weight of a field: [23:20], [19:16], [15:12] and [15:0].
Weight(field) ==
  CASE field = "A" -> 16 * HALF [] field = "B" -> HALF
    [] field = "C" -> HALF \div 16 [] field = "I" -> 1

Field(ins, class, arg, label_map) ==
  CASE class = "reg" -> parse_register(arg)
    [] class = "sreg" -> parse_special_register(arg)
    [] class = "cond" -> parse_condition(arg)
    [] class = "offset" -> parse_immediate(arg, TRUE)
    [] OTHER -> _resolve_imm_or_pseudo(arg, label_map, PseudoKind(ins), class = "simm")

build_word(tipo, op, operands) ==
  [kind |-> "ins", tipo |-> tipo, op |-> op, operands |-> operands]
BadWord == build_word(0, 0, 0)          \* what an error leaves in the image

\* encode_single raises an AssemblerError when one of these fails.
Encodable(ins, label_map) ==
  /\ PrefixApplies(ins.prefix, ins.mnemonic)
  /\ LET layout == Layout(ins.mnemonic)
     IN  /\ Len(ins.args) = Len(layout)
         /\ \A i \in DOMAIN layout :
              Field(ins, layout[i][1], ins.args[i], label_map) # Invalid

encode_single(ins, label_map) ==
  LET layout == Layout(ins.mnemonic)
      part(i) ==
        IF i \notin DOMAIN layout THEN 0
        ELSE Weight(layout[i][2]) * Field(ins, layout[i][1], ins.args[i], label_map)
  IN  build_word(Tipo(ins.prefix), OPCODES[ins.mnemonic], part(1) + part(2) + part(3))

-----------------------------------------------------------------------------
(***************************************************************************)
(* The fields of a word as the decoder of the processor cuts them          *)
(* (Control_FLush.circ, Dec).                                              *)
(***************************************************************************)
FieldA(word) == (word.operands \div (16 * HALF)) % 16
FieldB(word) == (word.operands \div HALF) % 16
FieldC(word) == ((word.operands % HALF) \div (HALF \div 16)) % 16
Inmd(word) == word.operands % HALF
=============================================================================
