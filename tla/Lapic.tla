------------------------------- MODULE Lapic -------------------------------
(***************************************************************************)
(* The local interrupt controller (Core/LAPIC.circ) as one synchronous     *)
(* step: the request, task-priority and in-service registers change        *)
(* together on every clock.  Vectors are numbers, a larger number is more  *)
(* urgent, and each 128-bit register is the set of its bits.               *)
(*                                                                         *)
(* The BIOS never programs the timer and the board connects no interrupt   *)
(* line: every request arrives as a write to the MSI register.             *)
(***************************************************************************)
EXTENDS Naturals

CONSTANTS
  Vectors,   \* vectors some device uses
  TPR        \* threshold: requests up to it are held back (initLAPIC: 0)

ASSUME VectorAssumption == Vectors \subseteq 16 .. 127
ASSUME ThresholdAssumption == TPR \in 0 .. 127

VARIABLES
  irr,       \* requested, not accepted yet
  isr,       \* accepted, not ended by an EOI yet
  pulse      \* the IRQ output: a request was accepted on the last clock

lapic == <<irr, isr, pulse>>

LapicInit == irr = {} /\ isr = {} /\ pulse = FALSE

\* Pri_Encoder: the index of the highest bit, 0 when there is none.
HighestBit(S) == {v \in S : \A w \in S : v >= w}
PriEncoderPastTop(S) ==
  IF HighestBit(S) = {} THEN 0 ELSE 1 + CHOOSE v \in HighestBit(S) : TRUE
Pri_Encoder(S) ==
  IF HighestBit(S) = {} THEN 0 ELSE CHOOSE v \in HighestBit(S) : TRUE

\* Task_Priority_Register: what a request has to exceed, and whether one does.
thresholdOnlyTpr == TPR
Threshold == IF Pri_Encoder(isr) > TPR THEN Pri_Encoder(isr) ELSE TPR
ISR_Write == Threshold < Pri_Encoder(irr)

\* The request that leaves for service on this clock (IRQ_ACK), if any.
Accepted == IF ISR_Write THEN {Pri_Encoder(irr)} ELSE {}

NextIRRKeepsRequest(msi) == irr \cup msi
NextIRR(msi) == (irr \cup msi) \ Accepted

\* In_Service_Register has one write port: an EOI takes it even when a request
\* is accepted on the same clock.
NextISR(eoi) ==
  IF eoi THEN isr \ {Pri_Encoder(isr)} ELSE isr \cup Accepted

\* One clock, with the vectors written to the MSI register and whether the
\* processor writes EOI.
LapicClock(msi, eoi) ==
  /\ irr' = NextIRR(msi)
  /\ isr' = NextISR(eoi)
  /\ pulse' = ISR_Write
=============================================================================
