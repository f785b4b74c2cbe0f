------------------------------- MODULE Split -------------------------------
(***************************************************************************)
(* The memory map as the assembler sees it, and the split of an address    *)
(* into the two immediates that H LDI and SLT ADI put together again       *)
(* (Ensamblador/assembler.py, compute_hi_lo).                              *)
(*                                                                         *)
(* HALF is 2^16, the values of an immediate field; everything else is in   *)
(* proportion to it, so that TLC checks a small machine with the same      *)
(* carries.                                                                *)
(***************************************************************************)
EXTENDS Integers

CONSTANTS
  HALF,        \* values of half a word: 2^16
  ROM_SIZE,    \* bytes of ROM, at the top of the address space: 2^20
  WORD_LIMIT   \* addresses below are ROM word indices: 0x01000000

ASSUME HalfAssumption == HALF \in Nat \ {0} /\ HALF % 32 = 0
ASSUME RomAssumption == ROM_SIZE \in Nat \ {0} /\ ROM_SIZE <= HALF * HALF
ASSUME WordAssumption == WORD_LIMIT \in Nat

SPACE == HALF * HALF            \* addresses are 32 bits wide
ROM_BASE == SPACE - ROM_SIZE    \* 0xFFF00000

(***************************************************************************)
(* A label below WORD_LIMIT is a word index in ROM; or-ing 0xFFF00000 to   *)
(* four times it keeps it inside the ROM.                                  *)
(***************************************************************************)
physical(address) ==
  IF address >= WORD_LIMIT THEN address
                           ELSE ROM_BASE + ((4 * address) % ROM_SIZE)

low16(target) == target % HALF
high16Plain(target) == (target \div HALF) % HALF
high16(target) ==
  IF low16(target) >= HALF \div 2 THEN ((target \div HALF) + 1) % HALF
                                  ELSE (target \div HALF) % HALF

compute_hi_lo(address) ==
  [hi |-> high16(physical(address)), lo |-> low16(physical(address))]

(***************************************************************************)
(* What the processor does with the two halves (Pipeline.circ): H LDI      *)
(* places one in the upper half of a register, SLT ADI extends the sign of *)
(* the other, as every displacement is, and adds it.                       *)
(***************************************************************************)
SignExtend(imm) == IF imm >= HALF \div 2 THEN imm - HALF ELSE imm
Joined(hi, lo) == (hi * HALF + SignExtend(lo)) % SPACE
=============================================================================
