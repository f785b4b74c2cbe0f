------------------------ MODULE InterruptPath_proofs ------------------------
(***************************************************************************)
(* For any set of vectors and any threshold, however many interrupts nest: *)
(* a critical section runs alone, the shared context registers are used by *)
(* one activation of mainHandler at a time, and the flags come back.  For  *)
(* this the latch and the LAPIC may do as they please: the argument only   *)
(* rests on SR8 and on the order of the steps of mainHandler.              *)
(*                                                                         *)
(* What the LAPIC and the latch do decides which vector is handled: the    *)
(* handlers of the two most urgent vectors nest by urgency, that of the    *)
(* most urgent runs only when asked for, and as long as requests do not    *)
(* meet so does every handler.                                             *)
(***************************************************************************)
EXTENDS InterruptPath, Integers, SequenceTheorems, FiniteSetTheorems, TLAPS

FramePCs == {"entry", "body", "restore", "eoi", "return"}
Frame == [pc: FramePCs, cause: Vectors \cup {0}, saved: BOOLEAN]

\* An activation that has saved its flags was entered with interrupts on.
SavedIsOn ==
  \A i \in 1 .. Len(frames) : frames[i].pc # "entry" => frames[i].saved

IInv ==
  /\ TypeOK
  /\ CriticalSectionIsAtomic
  /\ ContextIsProtected
  /\ FlagsAreRestored
  /\ SavedIsOn
  /\ halted => frames = <<>>

-----------------------------------------------------------------------------
LEMMA EncoderType ==
  ASSUME NEW S
  PROVE  Pri_Encoder(S) = 0 \/ Pri_Encoder(S) \in S
BY DEF Pri_Encoder, HighestBit

LEMMA ClockType ==
  ASSUME TypeOK, NEW msi, msi \subseteq Vectors, NEW eoi, LapicClock(msi, eoi)
  PROVE  irr' \subseteq Vectors /\ isr' \subseteq Vectors /\ pulse' \in BOOLEAN
<1>1. ISR_Write \in BOOLEAN
  BY DEF ISR_Write
<1>2. ISR_Write => Pri_Encoder(irr) \in Vectors
  <2>1. SUFFICES ASSUME ISR_Write PROVE Pri_Encoder(irr) # 0
    BY EncoderType DEF TypeOK
  <2>2. Pri_Encoder(isr) \in Nat /\ TPR \in Nat
    <3>1. (\A v \in isr : v \in Nat) /\ TPR \in Nat
      <4>1. \A v \in isr : v \in Vectors
        BY DEF TypeOK
      <4>2. \A v \in Vectors : v \in 16 .. 127
        BY VectorAssumption
      <4> QED
        BY <4>1, <4>2, ThresholdAssumption
    <3>2. Pri_Encoder(isr) = 0 \/ Pri_Encoder(isr) \in isr
      BY EncoderType
    <3> QED
      BY <3>1, <3>2
  <2> QED
    BY <2>1, <2>2 DEF ISR_Write, Threshold
<1> QED
  BY <1>1, <1>2 DEF LapicClock, NextIRR, NextISR, Accepted, TypeOK

\* What SetTop, Append and dropping the last element do to the activations.
LEMMA SetTopIs ==
  ASSUME TypeOK, frames # <<>>, NEW f \in Frame, frames' = SetTop(f)
  PROVE  /\ frames' \in Seq(Frame) /\ Len(frames') = Len(frames)
         /\ frames' # <<>> /\ Len(frames) \in Nat \ {0}
         /\ frames'[Len(frames)] = f
         /\ \A i \in 1 .. Len(frames) - 1 : frames'[i] = frames[i]
<1>1. frames \in Seq(Frame)
  BY DEF TypeOK, Frame, FramePCs
<1> QED
  BY <1>1 DEF SetTop

LEMMA TopIs ==
  ASSUME TypeOK, frames # <<>>
  PROVE  /\ Top \in Frame /\ Top = frames[Len(frames)]
         /\ Len(frames) \in 1 .. Len(frames)
         /\ frames \in Seq(Frame)
<1>1. frames \in Seq(Frame)
  BY DEF TypeOK, Frame, FramePCs
<1> QED
  BY <1>1 DEF Top

(***************************************************************************)
(* The steps of mainHandler change the innermost activation only.          *)
(***************************************************************************)
LEMMA SaveContextKeeps ==
  ASSUME IInv, SaveContext
  PROVE  IInv'
<1> DEFINE f == [pc |-> "body", cause |-> Cause, saved |-> prev]
<1>1. /\ frames # <<>> /\ frames' = SetTop(f) /\ Top.pc = "entry"
      /\ en' = (en \/ prev) /\ LapicClock({}, FALSE) /\ KeepLatch
      /\ UNCHANGED <<Cause, prev, halted, inside, owed, requests>>
  BY DEF SaveContext, Running, Tick
<1>2. f \in Frame
  BY DEF IInv, TypeOK, Frame, FramePCs
<1>3. TypeOK
  BY DEF IInv
<1>4. /\ frames' \in Seq(Frame) /\ Len(frames') = Len(frames)
      /\ frames' # <<>> /\ Len(frames) \in Nat \ {0}
      /\ frames'[Len(frames)] = f
      /\ \A i \in 1 .. Len(frames) - 1 : frames'[i] = frames[i]
  BY <1>1, <1>2, <1>3, SetTopIs
<1>5. prev /\ ~en
  BY <1>1, <1>3, TopIs DEF IInv, ContextIsProtected, FlagsAreRestored
<1>6. TypeOK'
  BY <1>1, <1>3, <1>4, ClockType DEF TypeOK, Frame, FramePCs, KeepLatch
<1>7. ContextIsProtected' /\ SavedIsOn'
  <2>1. en' /\ f.pc = "body" /\ f.saved
    BY <1>1, <1>5
  <2>2. ASSUME NEW i \in 1 .. Len(frames)
        PROVE  /\ IF i < Len(frames) THEN frames'[i].pc \in {"body", "restore"}
                                     ELSE frames'[i].pc = "body"
               /\ frames'[i].pc # "entry" => frames'[i].saved
    <3>1. CASE i = Len(frames)
      BY <1>4, <2>1, <3>1
    <3>2. CASE i < Len(frames)
      BY <1>4, <3>2 DEF IInv, ContextIsProtected, SavedIsOn
    <3> QED
      BY <1>4, <3>1, <3>2
  <2> QED
    BY <1>4, <2>1, <2>2 DEF ContextIsProtected, SavedIsOn
<1> QED
  BY <1>1, <1>4, <1>5, <1>6, <1>7
  DEF IInv, CriticalSectionIsAtomic, FlagsAreRestored

LEMMA RunHandlerKeeps ==
  ASSUME IInv, RunHandler
  PROVE  IInv'
<1> DEFINE f == [Top EXCEPT !.pc = "restore"]
<1>1. /\ frames # <<>> /\ frames' = SetTop(f) /\ Top.pc = "body"
      /\ owed' = owed \ {Top.cause} /\ LapicClock({}, FALSE) /\ KeepLatch
      /\ UNCHANGED <<Cause, en, prev, halted, inside, requests>>
  BY DEF RunHandler, Running, Tick
<1>2. TypeOK
  BY DEF IInv
<1>3. f \in Frame /\ f.pc = "restore" /\ f.saved = Top.saved
  BY <1>1, <1>2, TopIs DEF Frame, FramePCs
<1>4. /\ frames' \in Seq(Frame) /\ Len(frames') = Len(frames)
      /\ frames' # <<>> /\ Len(frames) \in Nat \ {0}
      /\ frames'[Len(frames)] = f
      /\ \A i \in 1 .. Len(frames) - 1 : frames'[i] = frames[i]
  BY <1>1, <1>2, <1>3, SetTopIs
<1>5. en /\ f.saved
  BY <1>1, <1>2, <1>3, TopIs DEF IInv, ContextIsProtected, SavedIsOn
<1>6. TypeOK'
  BY <1>1, <1>2, <1>4, ClockType DEF TypeOK, Frame, FramePCs, KeepLatch
<1>7. ContextIsProtected' /\ SavedIsOn'
  <2>1. ASSUME NEW i \in 1 .. Len(frames)
        PROVE  /\ IF i < Len(frames) THEN frames'[i].pc \in {"body", "restore"}
                                     ELSE frames'[i].pc = "restore"
               /\ frames'[i].pc # "entry" => frames'[i].saved
    <3> HIDE DEF f
    <3>1. CASE i = Len(frames)
      BY <1>3, <1>4, <1>5, <3>1
    <3>2. CASE i < Len(frames)
      BY <1>4, <3>2 DEF IInv, ContextIsProtected, SavedIsOn
    <3> QED
      BY <1>4, <3>1, <3>2
  <2> QED
    BY <1>1, <1>4, <1>5, <2>1 DEF ContextIsProtected, SavedIsOn
<1> QED
  BY <1>1, <1>4, <1>5, <1>6, <1>7
  DEF IInv, CriticalSectionIsAtomic, FlagsAreRestored

LEMMA RestoreContextKeeps ==
  ASSUME IInv, RestoreContext
  PROVE  IInv'
<1> DEFINE f == [Top EXCEPT !.pc = "eoi"]
<1>1. /\ frames # <<>> /\ frames' = SetTop(f) /\ Top.pc = "restore"
      /\ en' = FALSE /\ prev' = Top.saved /\ LapicClock({}, FALSE) /\ KeepLatch
      /\ UNCHANGED <<Cause, halted, inside, owed, requests>>
  BY DEF RestoreContext, Running, Tick
<1>2. TypeOK
  BY DEF IInv
<1>3. f \in Frame /\ f.pc = "eoi" /\ f.saved = Top.saved
  BY <1>1, <1>2, TopIs DEF Frame, FramePCs
<1>4. /\ frames' \in Seq(Frame) /\ Len(frames') = Len(frames)
      /\ frames' # <<>> /\ Len(frames) \in Nat \ {0}
      /\ frames'[Len(frames)] = f
      /\ \A i \in 1 .. Len(frames) - 1 : frames'[i] = frames[i]
  BY <1>1, <1>2, <1>3, SetTopIs
<1>5. prev' /\ f.saved /\ prev' \in BOOLEAN
  <2>1. Top.saved /\ Top.saved \in BOOLEAN
    BY <1>1, <1>2, TopIs DEF IInv, SavedIsOn, Frame
  <2> QED
    BY <1>1, <1>3, <2>1
<1>6. TypeOK'
  BY <1>1, <1>2, <1>4, <1>5, ClockType DEF TypeOK, Frame, FramePCs, KeepLatch
<1>7. ContextIsProtected' /\ SavedIsOn'
  <2>1. ASSUME NEW i \in 1 .. Len(frames)
        PROVE  /\ IF i < Len(frames) THEN frames'[i].pc \in {"body", "restore"}
                                     ELSE frames'[i].pc = "eoi"
               /\ frames'[i].pc # "entry" => frames'[i].saved
    <3> HIDE DEF f
    <3>1. CASE i = Len(frames)
      BY <1>3, <1>4, <1>5, <3>1
    <3>2. CASE i < Len(frames)
      BY <1>4, <3>2 DEF IInv, ContextIsProtected, SavedIsOn
    <3> QED
      BY <1>4, <3>1, <3>2
  <2> QED
    BY <1>1, <1>4, <2>1 DEF ContextIsProtected, SavedIsOn
<1> QED
  BY <1>1, <1>4, <1>5, <1>6, <1>7
  DEF IInv, CriticalSectionIsAtomic, FlagsAreRestored

LEMMA EndInterruptKeeps ==
  ASSUME IInv, EndInterrupt
  PROVE  IInv'
<1> DEFINE f == [Top EXCEPT !.pc = "return"]
<1>1. /\ frames # <<>> /\ frames' = SetTop(f) /\ Top.pc = "eoi"
      /\ LapicClock({}, Top.cause >= 16) /\ KeepLatch
      /\ UNCHANGED <<Cause, en, prev, halted, inside, owed, requests>>
  BY DEF EndInterrupt, Running
<1>2. TypeOK
  BY DEF IInv
<1>3. f \in Frame /\ f.pc = "return" /\ f.saved = Top.saved
  BY <1>1, <1>2, TopIs DEF Frame, FramePCs
<1>4. /\ frames' \in Seq(Frame) /\ Len(frames') = Len(frames)
      /\ frames' # <<>> /\ Len(frames) \in Nat \ {0}
      /\ frames'[Len(frames)] = f
      /\ \A i \in 1 .. Len(frames) - 1 : frames'[i] = frames[i]
  BY <1>1, <1>2, <1>3, SetTopIs
<1>5. ~en /\ f.saved
  BY <1>1, <1>2, <1>3, TopIs DEF IInv, ContextIsProtected, SavedIsOn
<1>6. TypeOK'
  BY <1>1, <1>2, <1>4, ClockType DEF TypeOK, Frame, FramePCs, KeepLatch
<1>7. ContextIsProtected' /\ SavedIsOn'
  <2>1. ASSUME NEW i \in 1 .. Len(frames)
        PROVE  /\ IF i < Len(frames) THEN frames'[i].pc \in {"body", "restore"}
                                     ELSE frames'[i].pc = "return"
               /\ frames'[i].pc # "entry" => frames'[i].saved
    <3> HIDE DEF f
    <3>1. CASE i = Len(frames)
      BY <1>3, <1>4, <1>5, <3>1
    <3>2. CASE i < Len(frames)
      BY <1>4, <3>2 DEF IInv, ContextIsProtected, SavedIsOn
    <3> QED
      BY <1>4, <3>1, <3>2
  <2> QED
    BY <1>1, <1>4, <1>5, <2>1 DEF ContextIsProtected, SavedIsOn
<1> QED
  BY <1>1, <1>4, <1>6, <1>7
  DEF IInv, CriticalSectionIsAtomic, FlagsAreRestored

\* SRT uncovers an activation that was interrupted in its device handler.
LEMMA SRTKeeps ==
  ASSUME IInv, SRT
  PROVE  IInv'
<1>1. /\ frames # <<>> /\ Top.pc = "return"
      /\ frames' = SubSeq(frames, 1, Len(frames) - 1)
      /\ en' = prev /\ prev' = FALSE /\ LapicClock({}, FALSE) /\ KeepLatch
      /\ UNCHANGED <<Cause, halted, inside, owed, requests>>
  BY DEF SRT, Running, Tick
<1>2. TypeOK
  BY DEF IInv
<1>3. /\ frames' \in Seq(Frame) /\ Len(frames') = Len(frames) - 1
      /\ Len(frames) \in Nat \ {0}
      /\ \A i \in 1 .. Len(frames) - 1 : frames'[i] = frames[i]
  <2>1. frames \in Seq(Frame) /\ Len(frames) \in Nat \ {0}
    BY <1>1, <1>2, TopIs
  <2>2. Len(frames) - 1 \in Int /\ \A i \in 1 .. Len(frames) - 1 : frames[i] \in Frame
    BY <2>1
  <2> DEFINE rest == SubSeq(frames, 1, Len(frames) - 1)
  <2>3. /\ rest \in Seq(Frame)
        /\ Len(rest) = IF 1 <= Len(frames) - 1 THEN Len(frames) - 1 - 1 + 1 ELSE 0
        /\ \A i \in 1 .. Len(frames) - 1 - 1 + 1 : rest[i] = frames[1 + i - 1]
    BY <2>2, SubSeqProperties
  <2>4. frames' = rest
    BY <1>1
  <2> HIDE DEF rest
  <2> QED
    BY <2>1, <2>3, <2>4
<1>4. prev /\ ~en
  BY <1>1, <1>2, TopIs DEF IInv, ContextIsProtected, FlagsAreRestored
<1>5. TypeOK'
  BY <1>1, <1>2, <1>3, ClockType DEF TypeOK, Frame, FramePCs, KeepLatch
<1>6. ContextIsProtected' /\ SavedIsOn'
  <2>1. \A i \in 1 .. Len(frames) - 1 :
          /\ frames'[i].pc \in {"body", "restore"}
          /\ frames'[i].saved
    BY <1>3 DEF IInv, ContextIsProtected, SavedIsOn
  <2> QED
    BY <1>1, <1>3, <1>4, <2>1 DEF ContextIsProtected, SavedIsOn
<1>7. ~inside /\ ~halted
  BY <1>1 DEF IInv, CriticalSectionIsAtomic
<1> QED
  BY <1>1, <1>4, <1>5, <1>6, <1>7
  DEF IInv, CriticalSectionIsAtomic, FlagsAreRestored

-----------------------------------------------------------------------------
(***************************************************************************)
(* The other steps.                                                        *)
(***************************************************************************)
LEMMA TakeInterruptKeeps ==
  ASSUME IInv, TakeInterrupt
  PROVE  IInv'
<1> DEFINE f == [pc |-> "entry", cause |-> 0, saved |-> FALSE]
<1>1. /\ en /\ prev' = en /\ en' = FALSE /\ halted' = FALSE
      /\ frames' = Append(frames, f) /\ Cause' = Pri_Encoder(isr)
      /\ LapicClock({}, FALSE) /\ ClearLatch
      /\ UNCHANGED <<inside, owed, requests>>
  BY DEF TakeInterrupt, Taken
<1>2. TypeOK
  BY DEF IInv
<1>3. f \in Frame /\ frames \in Seq(Frame)
  BY <1>2 DEF TypeOK, Frame, FramePCs
<1>4. /\ frames' \in Seq(Frame) /\ Len(frames') = Len(frames) + 1
      /\ Len(frames) \in Nat /\ frames'[Len(frames) + 1] = f
      /\ \A i \in 1 .. Len(frames) : frames'[i] = frames[i]
  BY <1>1, <1>3
<1>5. Cause' \in Vectors \cup {0}
  <2>1. \A v \in isr : v \in Vectors
    BY <1>2 DEF TypeOK
  <2> QED
    BY <1>1, <2>1, EncoderType
<1>6. TypeOK'
  BY <1>1, <1>2, <1>4, <1>5, ClockType DEF TypeOK, Frame, FramePCs, ClearLatch
<1>7. ContextIsProtected'
  <2>1. \A i \in 1 .. Len(frames) : frames[i].pc \in {"body", "restore"}
    BY <1>1, <1>4 DEF IInv, ContextIsProtected
  <2> QED
    BY <1>1, <1>4, <2>1 DEF ContextIsProtected
<1>8. SavedIsOn'
  BY <1>4 DEF IInv, SavedIsOn
<1>9. ~inside /\ frames' # <<>>
  BY <1>1, <1>4 DEF IInv, CriticalSectionIsAtomic
<1> QED
  BY <1>1, <1>6, <1>7, <1>8, <1>9
  DEF IInv, CriticalSectionIsAtomic, FlagsAreRestored

LEMMA OutsideKeeps ==
  ASSUME IInv,
         \/ enterCriticalSection \/ exitCriticalSection \/ HLT \/ Stall
         \/ \E v \in Vectors : RequestIrq(v)
         \/ UNCHANGED vars
  PROVE  IInv'
<1> USE DEF IInv
<1>1. TypeOK'
  <2>1. CASE UNCHANGED vars
    BY <2>1 DEF TypeOK, vars, lapic, cpu
  <2>2. CASE \E v \in Vectors : RequestIrq(v)
    <3>1. PICK v \in Vectors : RequestIrq(v)
      BY <2>2
    <3>2. LapicClock({v}, FALSE) /\ {v} \subseteq Vectors
      BY <3>1 DEF RequestIrq
    <3>3. irr' \subseteq Vectors /\ isr' \subseteq Vectors /\ pulse' \in BOOLEAN
      BY <3>2, ClockType
    <3> QED
      BY <3>1, <3>3, RequestAssumption DEF RequestIrq, TypeOK, KeepLatch
  <2>3. CASE enterCriticalSection \/ exitCriticalSection \/ HLT \/ Stall
    <3>1. Tick
      BY <2>3 DEF enterCriticalSection, exitCriticalSection, HLT, Stall
    <3>2. /\ irr' \subseteq Vectors /\ isr' \subseteq Vectors
          /\ pulse' \in BOOLEAN /\ latch' \in BOOLEAN
      BY <3>1, ClockType DEF Tick, KeepLatch, TypeOK
    <3> QED
      BY <2>3, <3>2
      DEF TypeOK, enterCriticalSection, exitCriticalSection, HLT, Stall
  <2> QED
    BY <2>1, <2>2, <2>3
<1>2. /\ UNCHANGED <<frames, prev>>
      /\ \/ UNCHANGED <<en, halted, inside>>
         \/ frames = <<>> /\ ~inside /\ ~en' /\ inside' /\ ~halted'
         \/ frames = <<>> /\ en' /\ ~inside' /\ UNCHANGED halted
         \/ frames = <<>> /\ ~inside /\ UNCHANGED <<en, inside>>
  <2>1. CASE enterCriticalSection
    BY <2>1 DEF enterCriticalSection, MainRuns, Executes
  <2>2. CASE exitCriticalSection
    BY <2>2 DEF exitCriticalSection, MainRuns
  <2>3. CASE HLT
    BY <2>3 DEF HLT, MainRuns
  <2>4. CASE Stall \/ (\E v \in Vectors : RequestIrq(v)) \/ UNCHANGED vars
    BY <2>4 DEF Stall, RequestIrq, vars, cpu
  <2> QED
    BY <2>1, <2>2, <2>3, <2>4
<1>3. ContextIsProtected' /\ SavedIsOn'
  BY <1>2 DEF ContextIsProtected, SavedIsOn
<1> QED
  BY <1>1, <1>2, <1>3 DEF CriticalSectionIsAtomic, FlagsAreRestored

-----------------------------------------------------------------------------
THEOREM Inductive == Spec => []IInv
<1>1. ASSUME Init PROVE IInv
  <2>1. TypeOK
    <3>1. frames \in Seq([pc: {"entry", "body", "restore", "eoi", "return"},
                         cause: Vectors \cup {0}, saved: BOOLEAN])
      BY <1>1 DEF Init
    <3>2. requests \in 0 .. MaxRequests
      BY <1>1, RequestAssumption DEF Init
    <3>3. /\ irr \subseteq Vectors /\ isr \subseteq Vectors /\ owed \subseteq Vectors
          /\ Cause \in Vectors \cup {0}
      BY <1>1 DEF Init, LapicInit
    <3> QED
      BY <1>1, <3>1, <3>2, <3>3 DEF Init, LapicInit, TypeOK
  <2>2. Len(frames) = 0 /\ frames = <<>>
    BY <1>1 DEF Init
  <2> QED
    BY <1>1, <2>1, <2>2
    DEF Init, IInv, CriticalSectionIsAtomic, SavedIsOn, ContextIsProtected,
        FlagsAreRestored
<1>2. IInv /\ [Next]_vars => IInv'
  BY OutsideKeeps, TakeInterruptKeeps, SaveContextKeeps, RunHandlerKeeps,
     RestoreContextKeeps, EndInterruptKeeps, SRTKeeps
  DEF Next, MainHandler
<1> QED
  BY <1>1, <1>2, PTL DEF Spec

\* Every register of the LAPIC, of SR7 and SR8 and every frame keeps its type,
\* whatever the number of requests.
THEOREM TypesAreKept == Spec => []TypeOK
<1>1. IInv => TypeOK
  BY DEF IInv
<1> QED
  BY <1>1, Inductive, PTL

(***************************************************************************)
(* No interrupt handler runs inside a critical section (lapic.h:30-41),    *)
(* whatever the devices do.                                                *)
(***************************************************************************)
THEOREM CriticalSectionIsAlwaysAtomic == Spec => []CriticalSectionIsAtomic
<1>1. IInv => CriticalSectionIsAtomic
  BY DEF IInv
<1> QED
  BY <1>1, Inductive, PTL

(***************************************************************************)
(* Two activations of mainHandler never hold SR1, SR7 and SR8 at once      *)
(* (lapic.c:45-55, 67-74), to any depth of nesting.                        *)
(***************************************************************************)
THEOREM ContextIsAlwaysProtected == Spec => []ContextIsProtected
<1>1. IInv => ContextIsProtected
  BY DEF IInv
<1> QED
  BY <1>1, Inductive, PTL

(***************************************************************************)
(* EN_INTS comes back as it was when the last handler returns              *)
(* (lapic.c:51-55, 67 and SRT), to any depth of nesting.                   *)
(***************************************************************************)
THEOREM FlagsAreAlwaysRestored == Spec => []FlagsAreRestored
<1>1. IInv => FlagsAreRestored
  BY DEF IInv
<1> QED
  BY <1>1, Inductive, PTL

-----------------------------------------------------------------------------
(***************************************************************************)
(* The two most urgent vectors, among any number of them.                  *)
(*                                                                         *)
(* While the most urgent is in service nothing is accepted, so its handler *)
(* is the innermost activation and nothing waits in the latch.  While the  *)
(* second is in service only the most urgent can be accepted.  An EOI on   *)
(* top of the second's handler is one of the most urgent's handler, and it *)
(* ends the right interrupt; the wrong ones end below.                     *)
(***************************************************************************)
Level == Pri_Encoder(isr)
\* The vector of an activation; until it has read SR7, what is there.
Held(i) == IF frames[i].pc = "entry" THEN Cause ELSE frames[i].cause
Open(i) == frames[i].pc # "return"
Serves(i, v) == Open(i) /\ Held(i) = v /\ v # 0
Ending(v) == \E i \in 1 .. Len(frames) :
  frames[i].cause = v /\ frames[i].pc \in {"restore", "eoi"}

MostUrgentAlone == \A i \in 1 .. Len(frames) : Serves(i, MostUrgent) =>
  i = Len(frames) /\ MostUrgent \in isr /\ ~latch /\ ~pulse
SecondBelow == \A i \in 1 .. Len(frames) : Serves(i, Second) =>
  /\ Second \in isr
  /\ latch \/ pulse => MostUrgent \in isr
  /\ \A j \in 1 .. Len(frames) : i < j => Held(j) = MostUrgent
\* The most urgent vector is in the LAPIC for a request not yet served, or
\* until the handler that served it has ended it.
ServedIsOwed ==
  /\ MostUrgent \in isr => MostUrgent \in owed \/ Ending(MostUrgent)
  /\ MostUrgent \in irr =>
       MostUrgent \in owed /\ (MostUrgent \in isr => Ending(MostUrgent))
TopInv == MostUrgentAlone /\ SecondBelow /\ ServedIsOwed

\* What the encoder answers for a set that holds one of the two.
LEMMA UrgentIs ==
  /\ MostUrgent # 0 => /\ MostUrgent \in Vectors
                       /\ \A v \in Vectors : v <= MostUrgent
  /\ Second # 0 => /\ Second \in Vectors /\ Second # MostUrgent
                   /\ \A v \in Vectors : v # MostUrgent => v <= Second
<1>1. ASSUME NEW S, Pri_Encoder(S) # 0
      PROVE  Pri_Encoder(S) \in S /\ \A v \in S : v <= Pri_Encoder(S)
  <2>1. Pri_Encoder(S) \in HighestBit(S)
    BY <1>1 DEF Pri_Encoder
  <2>2. \A v \in S : Pri_Encoder(S) >= v
    BY <2>1 DEF HighestBit
  <2> QED BY <2>1, <2>2 DEF HighestBit
<1> QED BY <1>1 DEF MostUrgent, Second

\* Neither changes from one state to the next.
LEMMA SamePriority == MostUrgent' = MostUrgent /\ Second' = Second
BY DEF MostUrgent, Second, Pri_Encoder, HighestBit

LEMMA LevelIs ==
  ASSUME NEW S, S \subseteq Vectors
  PROVE  /\ MostUrgent \in S => Pri_Encoder(S) = MostUrgent
         /\ Second \in S /\ MostUrgent \notin S => Pri_Encoder(S) = Second
<1>1. \A v \in Vectors : v \in Nat /\ v # 0
  BY VectorAssumption
<1>2. ASSUME NEW t \in S, \A v \in S : v <= t
      PROVE  Pri_Encoder(S) = t
  <2>1. HighestBit(S) = {t}
    BY <1>1, <1>2 DEF HighestBit
  <2> QED BY <2>1 DEF Pri_Encoder
<1>3. MostUrgent \in S => MostUrgent # 0
  BY <1>1
<1>4. Second \in S => Second # 0
  BY <1>1
<1>5. CASE MostUrgent \in S
  BY <1>2, <1>3, <1>5, UrgentIs
<1>6. CASE Second \in S /\ MostUrgent \notin S
  BY <1>2, <1>4, <1>6, UrgentIs
<1> QED BY <1>5, <1>6

\* One clock: nothing is accepted over the most urgent vector, and over the
\* second only the most urgent; what an EOI ends is the highest in service.
LEMMA ClockIs ==
  ASSUME TypeOK, NEW msi, msi \subseteq Vectors,
         NEW eoi \in BOOLEAN, LapicClock(msi, eoi)
  PROVE  /\ irr' \subseteq irr \cup msi
         /\ eoi => isr' = isr \ {Level}
         /\ ~eoi => /\ isr \subseteq isr' /\ isr' \subseteq isr \cup irr
                    /\ \A v \in isr' : v \notin isr => v \notin irr'
         /\ MostUrgent \in isr => ~pulse' /\ Level = MostUrgent
         /\ Second \in isr /\ MostUrgent \notin isr =>
              Level = Second /\ (pulse' /\ ~eoi => MostUrgent \in isr')
<1> DEFINE new == Pri_Encoder(irr)
<1>1. /\ irr \subseteq Vectors /\ isr \subseteq Vectors
      /\ \A v \in Vectors : v \in Nat /\ v # 0
  BY VectorAssumption DEF TypeOK
<1>2. /\ new \in irr \cup {0} /\ Level \in isr \cup {0}
      /\ new \in Nat /\ Level \in Nat /\ TPR \in Nat
  BY <1>1, EncoderType, ThresholdAssumption DEF Level
<1>3. ISR_Write => Level < new /\ new \in irr
  BY <1>2 DEF ISR_Write, Threshold, Level
<1>4. Accepted = IF ISR_Write THEN {new} ELSE {}
  BY DEF Accepted
<1>5. /\ irr' = (irr \cup msi) \ Accepted /\ pulse' = ISR_Write
      /\ isr' = IF eoi THEN isr \ {Level} ELSE isr \cup Accepted
  BY DEF LapicClock, NextIRR, NextISR, Level
<1> HIDE DEF new
<1>6. ASSUME MostUrgent \in isr PROVE ~ISR_Write /\ Level = MostUrgent
  <2>1. Level = MostUrgent
    BY <1>1, <1>6, LevelIs DEF Level
  <2>2. MostUrgent # 0
    BY <1>1, <1>6
  <2>3. new \in irr => new <= MostUrgent
    BY <1>1, <2>2, UrgentIs
  <2> QED BY <1>2, <1>3, <2>1, <2>3
<1>7. ASSUME Second \in isr, MostUrgent \notin isr
      PROVE  Level = Second /\ (ISR_Write => new = MostUrgent)
  <2>1. Level = Second
    BY <1>1, <1>7, LevelIs DEF Level
  <2>2. Second # 0
    BY <1>1, <1>7
  <2>3. new \in irr /\ new # MostUrgent => new <= Second
    BY <1>1, <2>2, UrgentIs
  <2> QED BY <1>2, <1>3, <2>1, <2>3
<1> QED BY <1>3, <1>4, <1>5, <1>6, <1>7

\* A step that ends no interrupt and takes none.
LEMMA ForwardKeeps ==
  ASSUME TypeOK, TopInv,
         NEW msi, msi \subseteq Vectors, LapicClock(msi, FALSE), KeepLatch,
         Len(frames') <= Len(frames), Len(frames') \in Nat, Len(frames) \in Nat,
         \A i \in 1 .. Len(frames') :
           /\ i \in 1 .. Len(frames) /\ Held(i)' = Held(i) /\ (Open(i)' => Open(i)),
         MostUrgent \in owed => MostUrgent \in owed' \/ Ending(MostUrgent)',
         Ending(MostUrgent) => Ending(MostUrgent)',
         MostUrgent \in irr \cup msi => MostUrgent \in owed',
         MostUrgent \in msi => MostUrgent \notin owed
  PROVE  TopInv'
<1>1. /\ irr' \subseteq irr \cup msi /\ isr \subseteq isr'
      /\ isr' \subseteq isr \cup irr
      /\ \A v \in isr' : v \notin isr => v \notin irr'
      /\ MostUrgent \in isr => ~pulse'
      /\ Second \in isr /\ MostUrgent \notin isr /\ pulse' => MostUrgent \in isr'
  BY ClockIs
<1>2. latch' = (latch \/ pulse)
  BY DEF KeepLatch
<1>3. MostUrgent' = MostUrgent /\ Second' = Second
  BY SamePriority
<1>4. \A i \in 1 .. Len(frames'), v \in {MostUrgent, Second} :
        Serves(i, v)' => i \in 1 .. Len(frames) /\ Serves(i, v)
  BY <1>3 DEF Serves
<1>5. MostUrgentAlone'
  <2>1. SUFFICES ASSUME NEW i \in 1 .. Len(frames'), Serves(i, MostUrgent)'
                 PROVE  i = Len(frames') /\ MostUrgent \in isr' /\ ~latch' /\ ~pulse'
    BY <1>3 DEF MostUrgentAlone
  <2>2. i = Len(frames) /\ MostUrgent \in isr /\ ~latch /\ ~pulse
    BY <1>4, <2>1 DEF TopInv, MostUrgentAlone
  <2>3. ~pulse' /\ ~latch' /\ MostUrgent \in isr'
    BY <1>1, <1>2, <2>2
  <2>4. i = Len(frames')
    BY <2>1, <2>2
  <2> QED BY <2>3, <2>4
<1>6. SecondBelow'
  <2>1. SUFFICES ASSUME NEW i \in 1 .. Len(frames'), Serves(i, Second)'
                 PROVE  /\ Second \in isr' /\ (latch' \/ pulse' => MostUrgent \in isr')
                        /\ \A j \in 1 .. Len(frames') : i < j => Held(j)' = MostUrgent
    BY <1>3 DEF SecondBelow
  <2>2. /\ Second \in isr /\ (latch \/ pulse => MostUrgent \in isr)
        /\ \A j \in 1 .. Len(frames) : i < j => Held(j) = MostUrgent
    BY <1>4, <2>1 DEF TopInv, SecondBelow
  <2> QED BY <1>1, <1>2, <2>2
<1>7. ServedIsOwed'
  <2>1. /\ MostUrgent \in isr => MostUrgent \in owed \/ Ending(MostUrgent)
        /\ MostUrgent \in irr =>
             MostUrgent \in owed /\ (MostUrgent \in isr => Ending(MostUrgent))
    BY DEF TopInv, ServedIsOwed
  <2>2. MostUrgent \in isr' => MostUrgent \in owed' \/ Ending(MostUrgent)'
    BY <1>1, <2>1
  <2>3. MostUrgent \in irr' =>
          MostUrgent \in owed' /\ (MostUrgent \in isr' => Ending(MostUrgent)')
    BY <1>1, <2>1
  <2> QED BY <1>3, <2>2, <2>3 DEF ServedIsOwed, Ending
<1> QED BY <1>5, <1>6, <1>7 DEF TopInv

-----------------------------------------------------------------------------
(***************************************************************************)
(* The steps of the processor other than taking and ending an interrupt.   *)
(***************************************************************************)
LEMMA TopKeeps ==
  ASSUME TypeOK, frames # <<>>, NEW f \in Frame, frames' = SetTop(f), Cause' = Cause,
         Top.pc # "return", f.pc # "entry", f.cause = Held(Len(frames)), NEW b,
         Top.pc \in {"restore", "eoi"} => f.pc \in {"restore", "eoi"}
  PROVE  /\ \A i \in 1 .. Len(frames') :
              i \in 1 .. Len(frames) /\ Held(i)' = Held(i) /\ (Open(i)' => Open(i))
         /\ Ending(b) => Ending(b)'
<1>1. /\ frames' \in Seq(Frame) /\ Len(frames') = Len(frames)
      /\ Len(frames) \in Nat \ {0}
      /\ frames'[Len(frames)] = f
      /\ \A i \in 1 .. Len(frames) - 1 : frames'[i] = frames[i]
  BY SetTopIs
<1>2. Top = frames[Len(frames)]
  BY TopIs
<1>3. ASSUME NEW i \in 1 .. Len(frames)
      PROVE  /\ Held(i)' = Held(i) /\ (Open(i)' => Open(i))
             /\ frames[i].cause = b /\ frames[i].pc \in {"restore", "eoi"}
                  => frames'[i].cause = b /\ frames'[i].pc \in {"restore", "eoi"}
  <2>1. CASE i = Len(frames)
    BY <1>1, <1>2, <2>1 DEF Held, Open
  <2>2. CASE i \in 1 .. Len(frames) - 1
    <3>1. frames'[i] = frames[i]
      BY <1>1, <2>2
    <3> QED BY <3>1 DEF Held, Open
  <2> QED BY <1>1, <2>1, <2>2
<1> QED BY <1>1, <1>3 DEF Ending

LEMMA HandlerTops ==
  ASSUME IInv, TopInv, SaveContext \/ RunHandler \/ RestoreContext
  PROVE  TopInv'
<1> DEFINE n == Len(frames)
<1>1. /\ frames # <<>> /\ LapicClock({}, FALSE) /\ KeepLatch /\ Cause' = Cause
      /\ TypeOK
  BY DEF SaveContext, RunHandler, RestoreContext, Running, Tick, IInv
<1>2. Top \in Frame /\ Top = frames[n] /\ n \in 1 .. n /\ n \in Nat
  BY <1>1, TopIs
<1>3. MostUrgent \in irr => MostUrgent \in owed
  BY DEF TopInv, ServedIsOwed
<1>4. CASE SaveContext
  <2> DEFINE f == [pc |-> "body", cause |-> Cause, saved |-> prev]
  <2>1. frames' = SetTop(f) /\ Top.pc = "entry" /\ owed' = owed
    BY <1>4 DEF SaveContext, Running
  <2>2. f \in Frame /\ f.cause = Held(n) /\ f.pc = "body"
    BY <1>1, <1>2, <2>1 DEF TypeOK, Frame, FramePCs, Held
  <2> HIDE DEF f
  <2>3. Len(frames') <= n /\ Len(frames') \in Nat
    BY <1>1, <1>2, <2>1, <2>2, SetTopIs
  <2>4. /\ \A i \in 1 .. Len(frames') :
             i \in 1 .. n /\ Held(i)' = Held(i) /\ (Open(i)' => Open(i))
        /\ Ending(MostUrgent) => Ending(MostUrgent)'
    BY <1>1, <2>1, <2>2, TopKeeps, SamePriority
  <2> QED BY <1>1, <1>2, <1>3, <2>1, <2>3, <2>4, ForwardKeeps
<1>5. CASE RestoreContext
  <2> DEFINE f == [Top EXCEPT !.pc = "eoi"]
  <2>1. frames' = SetTop(f) /\ Top.pc = "restore" /\ owed' = owed
    BY <1>5 DEF RestoreContext, Running
  <2>2. f \in Frame /\ f.cause = Held(n) /\ f.pc = "eoi"
    BY <1>1, <1>2, <2>1 DEF Frame, FramePCs, Held
  <2> HIDE DEF f
  <2>3. Len(frames') <= n /\ Len(frames') \in Nat
    BY <1>1, <1>2, <2>1, <2>2, SetTopIs
  <2>4. /\ \A i \in 1 .. Len(frames') :
             i \in 1 .. n /\ Held(i)' = Held(i) /\ (Open(i)' => Open(i))
        /\ Ending(MostUrgent) => Ending(MostUrgent)'
    BY <1>1, <2>1, <2>2, TopKeeps, SamePriority
  <2> QED BY <1>1, <1>2, <1>3, <2>1, <2>3, <2>4, ForwardKeeps
<1>6. CASE RunHandler
  <2> DEFINE f == [Top EXCEPT !.pc = "restore"]
  <2>1. frames' = SetTop(f) /\ Top.pc = "body" /\ owed' = owed \ {Top.cause}
    BY <1>6 DEF RunHandler, Running
  <2>2. /\ f \in Frame /\ f.cause = Held(n) /\ f.pc = "restore"
        /\ f.cause = Top.cause
    BY <1>1, <1>2, <2>1 DEF Frame, FramePCs, Held
  <2> HIDE DEF f
  <2>3. /\ Len(frames') = n /\ frames'[n] = f
        /\ Len(frames') <= n /\ Len(frames') \in Nat
    BY <1>1, <1>2, <2>1, <2>2, SetTopIs
  <2>4. /\ \A i \in 1 .. Len(frames') :
             i \in 1 .. n /\ Held(i)' = Held(i) /\ (Open(i)' => Open(i))
        /\ Ending(MostUrgent) => Ending(MostUrgent)'
    BY <1>1, <2>1, <2>2, TopKeeps, SamePriority
  \* Serving the most urgent, it is the one activation that does: the vector
  \* does not wait again, or an earlier activation would still be ending.
  <2>5. ASSUME Top.cause = MostUrgent
        PROVE  Ending(MostUrgent)' /\ MostUrgent \notin irr
    <3>1. Ending(MostUrgent)'
      BY <1>2, <2>2, <2>3, <2>5, SamePriority DEF Ending
    <3>2. SUFFICES ASSUME MostUrgent \in irr PROVE FALSE
      BY <3>1
    <3>3. MostUrgent # 0
      BY <1>1, <3>2, VectorAssumption DEF TypeOK
    <3>4. Serves(n, MostUrgent)
      BY <1>2, <2>1, <2>5, <3>3 DEF Serves, Open, Held
    <3>5. Ending(MostUrgent)
      BY <1>2, <3>2, <3>4 DEF TopInv, MostUrgentAlone, ServedIsOwed
    <3>6. PICK i \in 1 .. n : /\ frames[i].cause = MostUrgent
                              /\ frames[i].pc \in {"restore", "eoi"}
      BY <3>5 DEF Ending
    <3>7. Serves(i, MostUrgent)
      BY <3>3, <3>6 DEF Serves, Open, Held
    <3>8. i = n
      BY <3>7 DEF TopInv, MostUrgentAlone
    <3> QED BY <1>2, <2>1, <3>6, <3>8
  <2>6. /\ MostUrgent \in owed => MostUrgent \in owed' \/ Ending(MostUrgent)'
        /\ MostUrgent \in irr => MostUrgent \in owed'
    BY <1>3, <2>1, <2>5
  <2> QED BY <1>1, <1>2, <2>3, <2>4, <2>6, ForwardKeeps
<1> QED BY <1>4, <1>5, <1>6

LEMMA SRTTops ==
  ASSUME IInv, TopInv, SRT
  PROVE  TopInv'
<1> DEFINE n == Len(frames)
<1>1. /\ frames # <<>> /\ LapicClock({}, FALSE) /\ KeepLatch
      /\ UNCHANGED <<Cause, owed>> /\ Top.pc = "return" /\ TypeOK
      /\ frames' = SubSeq(frames, 1, n - 1)
  BY DEF SRT, Running, Tick, IInv
<1>2. Top = frames[n] /\ n \in 1 .. n /\ n \in Nat /\ frames \in Seq(Frame)
  BY <1>1, TopIs
<1>3. Len(frames') = n - 1 /\ \A i \in 1 .. n - 1 : frames'[i] = frames[i]
  <2>1. \A i \in 1 .. n - 1 : frames[i] \in Frame
    BY <1>2
  <2> DEFINE rest == SubSeq(frames, 1, n - 1)
  <2>2. /\ Len(rest) = IF 1 <= n - 1 THEN n - 1 - 1 + 1 ELSE 0
        /\ \A i \in 1 .. n - 1 - 1 + 1 : rest[i] = frames[1 + i - 1]
    BY <1>2, <2>1, SubSeqProperties
  <2>3. frames' = rest
    BY <1>1
  <2> HIDE DEF rest
  <2> QED BY <1>2, <2>2, <2>3
<1>4. \A i \in 1 .. Len(frames') :
        i \in 1 .. n /\ Held(i)' = Held(i) /\ (Open(i)' => Open(i))
  <2>1. SUFFICES ASSUME NEW i \in 1 .. n - 1
                 PROVE  i \in 1 .. n /\ Held(i)' = Held(i) /\ (Open(i)' => Open(i))
    BY <1>3
  <2>2. frames'[i] = frames[i] /\ i \in 1 .. n
    BY <1>2, <1>3, <2>1
  <2> QED BY <1>1, <2>2 DEF Held, Open
<1>5. Ending(MostUrgent) => Ending(MostUrgent)'
  <2>1. SUFFICES ASSUME Ending(MostUrgent) PROVE Ending(MostUrgent)'
    OBVIOUS
  <2>2. PICK i \in 1 .. n : /\ frames[i].cause = MostUrgent
                            /\ frames[i].pc \in {"restore", "eoi"}
    BY <2>1 DEF Ending
  <2>3. i \in 1 .. n - 1
    BY <1>1, <1>2, <2>2
  <2> QED BY <1>3, <2>2, <2>3, SamePriority DEF Ending
<1>6. MostUrgent \in irr => MostUrgent \in owed
  BY DEF TopInv, ServedIsOwed
<1>7. Len(frames') <= n /\ Len(frames') \in Nat
  BY <1>2, <1>3
<1> QED BY <1>1, <1>2, <1>4, <1>5, <1>6, <1>7, ForwardKeeps

LEMMA OutsideTops ==
  ASSUME IInv, TopInv,
         \/ enterCriticalSection \/ exitCriticalSection \/ HLT \/ Stall
         \/ \E v \in Vectors : RequestIrq(v)
         \/ UNCHANGED vars
  PROVE  TopInv'
<1>1. UNCHANGED <<frames, Cause>>
  BY DEF enterCriticalSection, exitCriticalSection, HLT, Stall, RequestIrq, vars, cpu
<1>2. /\ \A i \in 1 .. Len(frames') :
           i \in 1 .. Len(frames) /\ Held(i)' = Held(i) /\ (Open(i)' => Open(i))
      /\ Ending(MostUrgent) => Ending(MostUrgent)'
  BY <1>1, SamePriority DEF Held, Open, Ending
<1>3. /\ TypeOK /\ (MostUrgent \in irr => MostUrgent \in owed)
      /\ Len(frames) \in Nat /\ Len(frames') \in Nat
      /\ Len(frames') <= Len(frames)
  BY <1>1 DEF IInv, TopInv, ServedIsOwed, TypeOK
<1>4. CASE enterCriticalSection \/ exitCriticalSection \/ HLT \/ Stall
  <2>1. LapicClock({}, FALSE) /\ KeepLatch /\ owed' = owed
    BY <1>4 DEF enterCriticalSection, exitCriticalSection, HLT, Stall, Tick
  <2> QED BY <1>2, <1>3, <2>1, ForwardKeeps
<1>5. CASE \E v \in Vectors : RequestIrq(v)
  <2>1. PICK v \in Vectors : RequestIrq(v)
    BY <1>5
  <2>2. /\ LapicClock({v}, FALSE) /\ KeepLatch /\ {v} \subseteq Vectors
        /\ owed' = owed \cup {v} /\ v \notin owed
    BY <2>1 DEF RequestIrq
  <2>3. MostUrgent \in irr \cup {v} => MostUrgent \in owed'
    BY <1>3, <2>2
  <2>4. MostUrgent \in {v} => MostUrgent \notin owed
    BY <2>2
  <2>5. MostUrgent \in owed => MostUrgent \in owed'
    BY <2>2
  <2> QED BY <1>2, <1>3, <2>2, <2>3, <2>4, <2>5, ForwardKeeps
<1>6. CASE UNCHANGED vars
  BY <1>2, <1>6, SamePriority
  DEF vars, lapic, cpu, TopInv, MostUrgentAlone, SecondBelow, ServedIsOwed,
      Serves, Held, Open, Ending
<1> QED BY <1>4, <1>5, <1>6

(***************************************************************************)
(* Taking an interrupt: the latch was set, so no activation serves the most*)
(* urgent vector, and over the second's nothing else can have set it.      *)
(***************************************************************************)
LEMMA TakeInterruptTops ==
  ASSUME IInv, TopInv, TakeInterrupt
  PROVE  TopInv'
<1> DEFINE n == Len(frames)
           f == [pc |-> "entry", cause |-> 0, saved |-> FALSE]
<1>1. /\ latch /\ en /\ ~latch' /\ Cause' = Level /\ owed' = owed
      /\ LapicClock({}, FALSE) /\ frames' = Append(frames, f) /\ TypeOK
  BY DEF TakeInterrupt, Taken, ClearLatch, Level, IInv
<1>2. /\ n \in Nat /\ Len(frames') = n + 1 /\ frames'[n + 1] = f
      /\ \A i \in 1 .. n : frames'[i] = frames[i]
  <2>1. frames \in Seq(Frame) /\ f \in Frame
    BY <1>1 DEF TypeOK, Frame, FramePCs
  <2> QED BY <1>1, <2>1
<1> PICK m : m = n + 1
  OBVIOUS
<1>3. /\ irr' \subseteq irr /\ isr \subseteq isr' /\ isr' \subseteq isr \cup irr
      /\ \A v \in isr' : v \notin isr => v \notin irr'
      /\ MostUrgent \in isr => ~pulse' /\ Level = MostUrgent
      /\ Second \in isr /\ MostUrgent \notin isr /\ pulse' => MostUrgent \in isr'
  <2> DEFINE none == {}
  <2>1. none \subseteq Vectors /\ LapicClock(none, FALSE)
    BY <1>1
  <2>2. irr \cup none = irr
    OBVIOUS
  <2> HIDE DEF none
  <2> QED BY <1>1, <2>1, <2>2, ClockIs
<1>4. \A i \in 1 .. n : Open(i) /\ Held(i)' = Held(i)
  <2>1. SUFFICES ASSUME NEW i \in 1 .. n
                 PROVE  Open(i) /\ Held(i)' = Held(i)
    OBVIOUS
  <2>2. frames[i].pc \in {"body", "restore"}
    BY <1>1, <1>2 DEF IInv, ContextIsProtected
  <2>3. frames'[i] = frames[i]
    BY <1>2
  <2> QED BY <2>2, <2>3 DEF Open, Held
<1>5. Held(m)' = Level
  BY <1>1, <1>2 DEF Held
<1>6. \A i \in 1 .. Len(frames') : i \in 1 .. n \/ i = m
  BY <1>2
<1>7. \A i \in 1 .. n : ~Serves(i, MostUrgent)
  BY <1>1 DEF TopInv, MostUrgentAlone
<1>8. \A i \in 1 .. n : Serves(i, Second) =>
        /\ Second \in isr /\ MostUrgent \in isr
        /\ \A j \in 1 .. n : i < j => Held(j) = MostUrgent
  BY <1>1 DEF TopInv, SecondBelow
<1>9. Level = 0 \/ Level \in isr
  BY EncoderType DEF Level
<1>10. \A i \in 1 .. n : (Serves(i, MostUrgent)' => Serves(i, MostUrgent))
                      /\ (Serves(i, Second)' => Serves(i, Second))
  BY <1>4, SamePriority DEF Serves
<1>11. MostUrgentAlone'
  <2>1. SUFFICES ASSUME NEW i \in 1 .. Len(frames'), Serves(i, MostUrgent)'
                 PROVE  i = m /\ MostUrgent \in isr' /\ ~pulse'
    BY <1>1, <1>2, SamePriority DEF MostUrgentAlone
  <2>2. i = m
    BY <1>6, <1>7, <1>10, <2>1
  <2>3. Level = MostUrgent /\ Level # 0
    BY <1>5, <2>1, <2>2, SamePriority DEF Serves
  <2> QED BY <1>3, <1>9, <2>2, <2>3
<1>12. SecondBelow'
  <2>1. SUFFICES ASSUME NEW i \in 1 .. Len(frames'), Serves(i, Second)'
                 PROVE  /\ Second \in isr' /\ (pulse' => MostUrgent \in isr')
                        /\ \A j \in 1 .. Len(frames') : i < j => Held(j)' = MostUrgent
    BY <1>1, SamePriority DEF SecondBelow
  <2>2. CASE i \in 1 .. n
    <3>1. /\ Second \in isr /\ MostUrgent \in isr
          /\ \A j \in 1 .. n : i < j => Held(j) = MostUrgent
      BY <1>8, <1>10, <2>1, <2>2
    <3>2. Level = MostUrgent
      BY <1>3, <3>1
    <3>3. \A j \in 1 .. n : i < j => Held(j)' = MostUrgent
      BY <1>4, <3>1
    <3>4. Held(m)' = MostUrgent
      BY <1>5, <3>2
    <3> QED BY <1>3, <1>6, <3>1, <3>3, <3>4
  <2>3. CASE i = m
    <3>1. Level = Second /\ Level # 0
      BY <1>5, <2>1, <2>3, SamePriority DEF Serves
    <3>2. Second \in isr
      BY <1>9, <3>1
    <3>3. \A j \in 1 .. Len(frames') : ~(i < j)
      BY <1>2, <2>3
    <3> QED BY <1>3, <3>2, <3>3
  <2> QED BY <1>6, <2>1, <2>2, <2>3
<1>13. ServedIsOwed'
  <2>1. Ending(MostUrgent) => Ending(MostUrgent)'
    <3>1. \A i \in 1 .. n : i \in 1 .. Len(frames')
      BY <1>2
    <3> QED BY <1>2, <3>1, SamePriority DEF Ending
  <2>2. /\ MostUrgent \in isr => MostUrgent \in owed \/ Ending(MostUrgent)
        /\ MostUrgent \in irr =>
             MostUrgent \in owed /\ (MostUrgent \in isr => Ending(MostUrgent))
    BY DEF TopInv, ServedIsOwed
  <2>3. MostUrgent \in isr' => MostUrgent \in owed' \/ Ending(MostUrgent)'
    BY <1>1, <1>3, <2>1, <2>2
  <2>4. MostUrgent \in irr' =>
          MostUrgent \in owed' /\ (MostUrgent \in isr' => Ending(MostUrgent)')
    BY <1>1, <1>3, <2>1, <2>2
  <2> QED BY <2>3, <2>4, SamePriority DEF ServedIsOwed, Ending
<1> QED BY <1>11, <1>12, <1>13 DEF TopInv

(***************************************************************************)
(* Ending an interrupt.  The EOI ends the highest vector in service, which *)
(* may not be the one that was handled; the most urgent leaves whenever it *)
(* is there, the second only when its own activation is the innermost.     *)
(***************************************************************************)
LEMMA EndInterruptTops ==
  ASSUME IInv, TopInv, EndInterrupt
  PROVE  TopInv'
<1> DEFINE n == Len(frames)
           f == [Top EXCEPT !.pc = "return"]
<1>1. /\ frames # <<>> /\ KeepLatch /\ UNCHANGED <<Cause, owed>> /\ TypeOK
      /\ frames' = SetTop(f) /\ LapicClock({}, Top.cause >= 16) /\ Top.pc = "eoi"
  BY DEF EndInterrupt, Running, IInv
<1>2. Top \in Frame /\ Top = frames[n] /\ n \in 1 .. n /\ n \in Nat
  BY <1>1, TopIs
<1>3. f \in Frame /\ f.cause = Top.cause /\ f.pc = "return"
  BY <1>2 DEF Frame, FramePCs
<1>4. /\ Len(frames') = n /\ frames'[n] = f
      /\ \A i \in 1 .. n - 1 : frames'[i] = frames[i]
  BY <1>1, <1>3, SetTopIs
<1> PICK m, c : m = n /\ c = Top.cause
  OBVIOUS
<1>5. Held(m) = c /\ Open(m) /\ Held(m)' = c /\ ~Open(m)'
  BY <1>1, <1>2, <1>3, <1>4 DEF Held, Open
<1>6. \A i \in 1 .. n : i # m => Held(i)' = Held(i) /\ Open(i)
  <2>1. SUFFICES ASSUME NEW i \in 1 .. n, i # m
                 PROVE  Held(i)' = Held(i) /\ Open(i)
    OBVIOUS
  <2>2. i \in 1 .. n - 1 /\ i < n
    BY <1>2, <2>1
  <2>3. frames'[i] = frames[i] /\ frames[i].pc \in {"body", "restore"}
    BY <1>4, <2>2 DEF IInv, ContextIsProtected
  <2> QED BY <2>3 DEF Held, Open
<1>7. MostUrgent \in irr => MostUrgent \in owed
  BY DEF TopInv, ServedIsOwed
\* A spurious activation ends nothing.
<1>8. CASE c = 0
  <2> DEFINE none == {}
  <2>1. none \subseteq Vectors /\ LapicClock(none, FALSE) /\ irr \cup none = irr
    <3>1. (Top.cause >= 16) = FALSE
      BY <1>8
    <3> QED BY <1>1, <3>1
  <2>2. \A i \in 1 .. Len(frames') :
          i \in 1 .. Len(frames) /\ Held(i)' = Held(i) /\ (Open(i)' => Open(i))
    BY <1>4, <1>5, <1>6
  <2>3. CASE MostUrgent = 0
    <3>1. MostUrgent \notin Vectors
      BY <2>3, VectorAssumption
    <3>2. MostUrgent \notin isr' /\ MostUrgent \notin irr'
      BY <1>1, <2>1, <3>1, ClockType DEF TypeOK
    <3>3. \A i \in 1 .. Len(frames') : Serves(i, Second)' => Serves(i, Second)
      BY <2>2, SamePriority DEF Serves
    <3>4. /\ isr \subseteq isr'
          /\ Second \in isr /\ MostUrgent \notin isr /\ pulse' => MostUrgent \in isr'
      BY <1>1, <2>1, ClockIs
    <3>5. latch' = (latch \/ pulse)
      BY <1>1 DEF KeepLatch
    <3>6. MostUrgentAlone' /\ ServedIsOwed'
      BY <2>3, <3>2, SamePriority DEF MostUrgentAlone, ServedIsOwed, Serves, Ending
    <3>7. SecondBelow'
      <4>1. SUFFICES ASSUME NEW i \in 1 .. Len(frames'), Serves(i, Second)'
                     PROVE  /\ Second \in isr'
                            /\ latch' \/ pulse' => MostUrgent \in isr'
                            /\ \A j \in 1 .. Len(frames') :
                                 i < j => Held(j)' = MostUrgent
        BY SamePriority DEF SecondBelow
      <4>2. /\ Second \in isr /\ (latch \/ pulse => MostUrgent \in isr)
            /\ \A j \in 1 .. Len(frames) : i < j => Held(j) = MostUrgent
        BY <2>2, <3>3, <4>1 DEF TopInv, SecondBelow
      <4> QED BY <2>2, <3>4, <3>5, <4>2
    <3> QED BY <3>6, <3>7 DEF TopInv
  <2>4. CASE MostUrgent # 0
    <3>1. Ending(MostUrgent) => Ending(MostUrgent)'
      <4>1. SUFFICES ASSUME Ending(MostUrgent) PROVE Ending(MostUrgent)'
        OBVIOUS
      <4>2. PICK i \in 1 .. n : /\ frames[i].cause = MostUrgent
                                /\ frames[i].pc \in {"restore", "eoi"}
        BY <4>1 DEF Ending
      <4>3. i \in 1 .. n - 1
        BY <1>2, <1>8, <2>4, <4>2
      <4> QED BY <1>2, <1>4, <4>2, <4>3, SamePriority DEF Ending
    <3>2. MostUrgent \in irr \cup none => MostUrgent \in owed'
      BY <1>1, <1>7
    <3>3. MostUrgent \in owed => MostUrgent \in owed'
      BY <1>1
    <3>4. Len(frames') <= n /\ MostUrgent \notin none
      BY <1>2, <1>4
    <3> HIDE DEF none
    <3> QED BY <1>1, <1>2, <1>4, <2>1, <2>2, <3>1, <3>2, <3>3, <3>4, ForwardKeeps
  <2> QED BY <2>3, <2>4
<1>9. CASE c # 0
  <2>1. Top.cause >= 16
    <3>1. Top.cause \in Vectors
      BY <1>2, <1>9 DEF Frame
    <3>2. Top.cause \in 16 .. 127
      BY <3>1, VectorAssumption
    <3>3. \A d \in 16 .. 127 : d >= 16
      OBVIOUS
    <3> QED BY <3>2, <3>3, Zenon
  <2>2. /\ irr' \subseteq irr /\ isr' = isr \ {Level}
        /\ MostUrgent \in isr => ~pulse' /\ Level = MostUrgent
    <3> DEFINE none == {}
    <3>1. none \subseteq Vectors /\ LapicClock(none, TRUE) /\ irr \cup none = irr
      BY <1>1, <2>1
    <3> HIDE DEF none
    <3> QED BY <1>1, <3>1, ClockIs
  <2>3. MostUrgent \notin isr'
    BY <2>2
  <2>4. ServedIsOwed'
    BY <1>1, <1>7, <2>2, <2>3, SamePriority DEF ServedIsOwed, Ending
  <2>5. \A i \in 1 .. n : Serves(i, MostUrgent)' => FALSE
    <3>1. SUFFICES ASSUME NEW i \in 1 .. n, Serves(i, MostUrgent)' PROVE FALSE
      OBVIOUS
    <3>2. i # m /\ Serves(i, MostUrgent)
      BY <1>5, <1>6, <3>1, SamePriority DEF Serves
    <3> QED BY <3>2 DEF TopInv, MostUrgentAlone
  <2>6. MostUrgentAlone'
    BY <1>4, <2>5, SamePriority DEF MostUrgentAlone
  \* Above the second's handler the innermost activation serves the most
  \* urgent, which is therefore what the EOI ends.
  <2>7. SecondBelow'
    <3>1. SUFFICES ASSUME NEW i \in 1 .. n, Serves(i, Second)'
                   PROVE  /\ Second \in isr' /\ ~latch' /\ ~pulse'
                          /\ \A j \in 1 .. n : i < j => Held(j)' = MostUrgent
      BY <1>4, SamePriority DEF SecondBelow
    <3>2. i # m /\ Serves(i, Second)
      BY <1>5, <1>6, <3>1, SamePriority DEF Serves
    <3>3. /\ Second \in isr /\ i < m /\ m \in 1 .. n
          /\ \A j \in 1 .. n : i < j => Held(j) = MostUrgent
      BY <1>2, <3>2 DEF TopInv, SecondBelow
    <3>4. Serves(m, MostUrgent)
      BY <1>5, <1>9, <3>3 DEF Serves
    <3>5. MostUrgent \in isr /\ ~latch /\ ~pulse
      BY <3>3, <3>4 DEF TopInv, MostUrgentAlone
    <3>6. Second # MostUrgent
      BY <3>2, UrgentIs DEF Serves
    <3>7. Second \in isr' /\ ~latch' /\ ~pulse'
      BY <1>1, <2>2, <3>3, <3>5, <3>6 DEF KeepLatch
    <3>8. \A j \in 1 .. n : Held(j)' = Held(j)
      BY <1>5, <1>6
    <3> QED BY <3>3, <3>7, <3>8
  <2> QED BY <2>4, <2>6, <2>7 DEF TopInv
<1> QED BY <1>8, <1>9

-----------------------------------------------------------------------------
LEMMA TopInductive == Spec => []TopInv
<1>1. Init => TopInv
  <2>1. SUFFICES ASSUME Init PROVE TopInv
    OBVIOUS
  <2>2. Len(frames) = 0 /\ irr = {} /\ isr = {}
    BY <2>1 DEF Init, LapicInit
  <2> QED BY <2>2 DEF TopInv, MostUrgentAlone, SecondBelow, ServedIsOwed
<1>2. IInv /\ TopInv /\ [Next]_vars => TopInv'
  BY OutsideTops, TakeInterruptTops, HandlerTops, EndInterruptTops, SRTTops
  DEF Next, MainHandler
<1> QED BY <1>1, <1>2, Inductive, PTL DEF Spec

\* For any set of vectors, threshold, depth and number of requests, nothing
\* interrupts the handler of the most urgent vector, and only that handler
\* interrupts the second's (lapic.c:52-75).
THEOREM UrgentTwoAlwaysNest == Spec => []UrgentTwoNest
<1>1. IInv /\ TopInv => UrgentTwoNest
  <2>1. SUFFICES ASSUME IInv, TopInv, NEW i \in 1 .. Len(frames),
                        NEW j \in 1 .. Len(frames), i < j, frames[j].pc # "entry",
                        frames[i].cause \in {MostUrgent, Second},
                        frames[i].cause \in Vectors
                 PROVE  frames[i].cause < frames[j].cause
    BY DEF UrgentTwoNest
  <2>2. frames[i].pc \in {"body", "restore"}
    BY <2>1 DEF IInv, ContextIsProtected
  <2>3. frames[i].cause # 0 /\ Held(j) = frames[j].cause
    BY <2>1, VectorAssumption DEF Held
  <2>4. Serves(i, frames[i].cause)
    BY <2>2, <2>3 DEF Serves, Held, Open
  <2>5. frames[i].cause # MostUrgent
    BY <2>1, <2>4 DEF TopInv, MostUrgentAlone
  <2>6. frames[i].cause = Second /\ frames[j].cause = MostUrgent
    BY <2>1, <2>3, <2>4, <2>5 DEF TopInv, SecondBelow
  \* With no most urgent vector there would be no second.
  <2>7. MostUrgent # 0
    <3>1. SUFFICES ASSUME MostUrgent = 0 PROVE FALSE
      OBVIOUS
    <3>2. Vectors \ {MostUrgent} = Vectors
      BY <3>1, VectorAssumption
    <3>3. Second = MostUrgent
      BY <3>2 DEF Second, MostUrgent
    <3> QED BY <2>3, <2>6, <3>1, <3>3
  <2>8. MostUrgent \in Vectors /\ Second \in Vectors /\ Second <= MostUrgent
    BY <2>1, <2>6, <2>7, UrgentIs
  <2>9. \A v \in Vectors : v \in Nat
    BY VectorAssumption
  <2> QED BY <2>5, <2>6, <2>8, <2>9
<1> QED BY <1>1, Inductive, TopInductive, PTL

\* For any set of vectors, the handler of the most urgent one runs only for a
\* request of its device, whatever a wrong EOI does (lapic.c:57-63, 72-75).
THEOREM MostUrgentAlwaysRunsWhenAsked == Spec => []MostUrgentRunsWhenAsked
<1>1. IInv /\ TopInv => MostUrgentRunsWhenAsked
  <2>1. SUFFICES ASSUME IInv, TopInv, frames # <<>>, Top.pc = "body",
                        Top.cause = MostUrgent, MostUrgent # 0
                 PROVE  MostUrgent \in owed
    BY DEF MostUrgentRunsWhenAsked
  <2> DEFINE n == Len(frames)
  <2>2. Top = frames[n] /\ n \in 1 .. n
    BY <2>1, TopIs DEF IInv
  <2>3. Serves(n, MostUrgent)
    BY <2>1, <2>2 DEF Serves, Held, Open
  <2>4. MostUrgent \in isr
    BY <2>1, <2>2, <2>3 DEF TopInv, MostUrgentAlone
  <2>5. SUFFICES ASSUME Ending(MostUrgent) PROVE FALSE
    BY <2>1, <2>4 DEF TopInv, ServedIsOwed
  <2>6. PICK i \in 1 .. n : /\ frames[i].cause = MostUrgent
                            /\ frames[i].pc \in {"restore", "eoi"}
    BY <2>5 DEF Ending
  <2>7. Serves(i, MostUrgent)
    BY <2>1, <2>6 DEF Serves, Held, Open
  <2>8. i = n
    BY <2>1, <2>7 DEF TopInv, MostUrgentAlone
  <2> QED BY <2>1, <2>2, <2>6, <2>8
<1> QED BY <1>1, Inductive, TopInductive, PTL

-----------------------------------------------------------------------------
(***************************************************************************)
(* A request that meets no other.  While at most one vector is owed or in  *)
(* service the latch announces that vector, no activation is open then,    *)
(* and the activation that is open serves it.                              *)
(***************************************************************************)
Alone == Cardinality(owed \cup isr) <= 1
Owing(i) == frames[i].pc \in {"entry", "body"}
LoneInv ==
  /\ irr \subseteq owed /\ Len(frames) <= 1
  /\ latch \/ pulse => /\ isr # {} /\ isr \subseteq owed \ irr
                       /\ \A i \in 1 .. Len(frames) : ~Open(i)
  /\ \A i \in 1 .. Len(frames) : Open(i) => Held(i) \in isr
  /\ \A i \in 1 .. Len(frames) : Owing(i) => Held(i) \in owed \ irr

LEMMA OneVector ==
  ASSUME TypeOK, Alone
  PROVE  \A v, w \in owed \cup isr : v = w
<1>1. SUFFICES ASSUME NEW v \in owed \cup isr, NEW w \in owed \cup isr, v # w
               PROVE  FALSE
  OBVIOUS
<1>2. IsFiniteSet(owed \cup isr)
  <2>1. owed \cup isr \subseteq 16 .. 127
    BY VectorAssumption DEF TypeOK
  <2>2. IsFiniteSet(16 .. 127)
    <3> PICK lo \in Int, hi \in Int : lo = 16 /\ hi = 127
      OBVIOUS
    <3>1. IsFiniteSet(lo .. hi)
      BY FS_Interval
    <3> QED BY <3>1
  <2> QED BY <2>1, <2>2, FS_Subset
<1>3. IsFiniteSet({v, w}) /\ Cardinality({v, w}) <= Cardinality(owed \cup isr)
  <2>1. {v, w} \subseteq owed \cup isr
    OBVIOUS
  <2> QED BY <1>2, <2>1, FS_Subset
<1>4. Cardinality({v, w}) = 2
  <2>1. IsFiniteSet({v}) /\ Cardinality({v}) = 1
    BY FS_Singleton
  <2>2. Cardinality({v} \cup {w}) = Cardinality({v}) + 1
    BY <1>1, <2>1, FS_AddElement
  <2>3. {v} \cup {w} = {v, w}
    OBVIOUS
  <2> QED BY <2>1, <2>2, <2>3
<1>5. Cardinality(owed \cup isr) \in Nat
  BY <1>2, FS_CardinalityType
<1> QED BY <1>3, <1>4, <1>5 DEF Alone

LEMMA LoneClock ==
  ASSUME TypeOK, LoneInv, Alone, NEW msi, msi \subseteq Vectors,
         NEW eoi \in BOOLEAN, LapicClock(msi, eoi)
  PROVE  /\ irr' \subseteq irr \cup msi
         /\ isr # {} => ~pulse' /\ (eoi => isr' = {}) /\ (~eoi => isr' = isr)
         /\ isr = {} /\ ~eoi =>
              \/ isr' = isr /\ ~pulse'
              \/ isr' # {} /\ isr' \subseteq irr /\ isr' \cap irr' = {}
<1> DEFINE new == Pri_Encoder(irr)
           now == Pri_Encoder(isr)
<1>1. /\ irr' = (irr \cup msi) \ Accepted /\ pulse' = ISR_Write
      /\ isr' = IF eoi THEN isr \ {now} ELSE isr \cup Accepted
  BY DEF LapicClock, NextIRR, NextISR
<1>2. Accepted = IF ISR_Write THEN {new} ELSE {}
  BY DEF Accepted
<1>3. /\ new = 0 \/ new \in irr
      /\ now = 0 \/ now \in isr
      /\ \A v \in irr \cup isr : v \in Nat
      /\ TPR \in Nat
  <2>1. \A v \in Vectors : v \in Nat
    BY VectorAssumption
  <2> QED BY <2>1, EncoderType, ThresholdAssumption DEF TypeOK
<1>4. ISR_Write => TPR < new /\ now < new
  <2>1. new \in Nat /\ now \in Nat
    BY <1>3
  <2>2. ISR_Write <=> (IF now > TPR THEN now ELSE TPR) < new
    BY DEF ISR_Write, Threshold
  <2> HIDE DEF new, now
  <2> QED BY <1>3, <2>1, <2>2
<1>5. ISR_Write => new \in irr
  BY <1>3, <1>4
<1>6. CASE isr = {}
  <2> HIDE DEF new, now
  <2> QED BY <1>1, <1>2, <1>5, <1>6
<1>7. CASE isr # {}
  <2>1. PICK v \in isr : isr = {v} /\ irr \subseteq {v}
    BY <1>7, OneVector DEF LoneInv
  <2>2. v \in Nat
    BY <1>3
  <2>3. now = v
    <3>1. HighestBit(isr) = {v}
      BY <2>1, <2>2 DEF HighestBit
    <3> QED BY <3>1 DEF Pri_Encoder
  <2>4. ~ISR_Write
    <3> HIDE DEF new, now
    <3>1. SUFFICES ASSUME ISR_Write PROVE FALSE
      OBVIOUS
    <3>2. new = v
      BY <1>5, <2>1, <3>1
    <3> QED BY <1>4, <2>2, <2>3, <3>1, <3>2
  <2> HIDE DEF new, now
  <2> QED BY <1>1, <1>2, <1>7, <2>1, <2>3, <2>4
<1> QED BY <1>6, <1>7

\* A step that ends no interrupt and takes none.
LEMMA LoneForward ==
  ASSUME TypeOK, LoneInv, Alone,
         NEW msi, msi \subseteq Vectors, LapicClock(msi, FALSE), KeepLatch,
         Len(frames') <= 1, irr \cup msi \subseteq owed', msi \cap owed = {},
         latch \/ pulse => isr \subseteq owed',
         \A i \in 1 .. Len(frames') :
           /\ i \in 1 .. Len(frames) /\ Held(i)' = Held(i)
           /\ (Open(i)' => Open(i)) /\ (Owing(i)' => Owing(i) /\ Held(i) \in owed')
  PROVE  LoneInv'
<1>1. /\ irr' \subseteq irr \cup msi /\ latch' = (latch \/ pulse)
      /\ isr # {} => ~pulse' /\ isr' = isr
      /\ isr = {} => \/ isr' = isr /\ ~pulse'
                     \/ isr' # {} /\ isr' \subseteq irr /\ isr' \cap irr' = {}
  BY LoneClock DEF KeepLatch
<1>2. ASSUME latch' \/ pulse'
      PROVE  /\ isr' # {} /\ isr' \subseteq owed' /\ isr' \cap irr' = {}
             /\ \A i \in 1 .. Len(frames) : ~Open(i)
  <2>1. CASE latch \/ pulse
    BY <1>1, <2>1 DEF LoneInv
  <2>2. CASE ~(latch \/ pulse)
    <3>1. isr = {} /\ isr' # {} /\ isr' \subseteq irr /\ isr' \cap irr' = {}
      BY <1>1, <1>2, <2>2
    <3> QED BY <3>1 DEF LoneInv
  <2> QED BY <2>1, <2>2
<1>3. \A i \in 1 .. Len(frames') : Open(i)' => Held(i)' \in isr'
  <2>1. SUFFICES ASSUME NEW i \in 1 .. Len(frames'), Open(i)' PROVE Held(i)' \in isr'
    OBVIOUS
  <2>2. Held(i)' = Held(i) /\ Held(i) \in isr
    BY <2>1 DEF LoneInv
  <2> QED BY <1>1, <2>2
<1>4. \A i \in 1 .. Len(frames') : Owing(i)' => Held(i)' \in owed' \ irr'
  <2>1. SUFFICES ASSUME NEW i \in 1 .. Len(frames'), Owing(i)'
                 PROVE  Held(i)' \in owed' \ irr'
    OBVIOUS
  <2>2. Held(i)' = Held(i) /\ Held(i) \in owed' /\ Held(i) \in owed \ irr
    BY <2>1 DEF LoneInv
  <2>3. Held(i) \notin irr \cup msi
    BY <2>2
  <2> QED BY <1>1, <2>2, <2>3
<1>5. (latch \/ pulse => /\ isr # {} /\ isr \subseteq owed \ irr
                         /\ \A i \in 1 .. Len(frames) : ~Open(i))'
  BY <1>2
<1> QED BY <1>1, <1>3, <1>4, <1>5 DEF LoneInv

\* SaveContext, RunHandler and RestoreContext, by what they make of the frame.
LEMMA HandlerAlone ==
  ASSUME IInv, LoneInv, Alone, SaveContext \/ RunHandler \/ RestoreContext
  PROVE  LoneInv'
<1> DEFINE n == Len(frames)
           none == {}
<1>1. /\ frames # <<>> /\ LapicClock(none, FALSE) /\ KeepLatch /\ Cause' = Cause
      /\ TypeOK /\ none \subseteq Vectors /\ irr \cup none = irr /\ none \cap owed = {}
  BY DEF SaveContext, RunHandler, RestoreContext, Running, Tick, IInv
<1> HIDE DEF none
<1>2. Top \in Frame /\ Top = frames[n] /\ n = 1
  <2>1. Top \in Frame /\ Top = frames[n] /\ n \in Nat /\ n \in 1 .. n
    BY <1>1, TopIs
  <2>2. n <= 1
    BY DEF LoneInv
  <2> HIDE DEF n
  <2> QED BY <2>1, <2>2
<1>3. ~(latch \/ pulse) /\ Held(1) \in isr
  <2>1. Open(1)
    BY <1>2 DEF Open, SaveContext, RunHandler, RestoreContext, Running
  <2> QED BY <1>2, <2>1 DEF LoneInv
<1>4. CASE SaveContext
  <2> DEFINE f == [pc |-> "body", cause |-> Cause, saved |-> prev]
  <2>1. frames' = SetTop(f) /\ Top.pc = "entry" /\ owed' = owed
    BY <1>4 DEF SaveContext, Running
  <2>2. f \in Frame /\ f.pc = "body" /\ f.cause = Held(1)
    BY <1>1, <1>2, <2>1 DEF TypeOK, Frame, FramePCs, Held
  <2> HIDE DEF f
  <2>3. Len(frames') = 1 /\ frames'[1] = f
    BY <1>1, <1>2, <2>1, <2>2, SetTopIs
  <2>4. Owing(1) /\ Held(1) \in owed' /\ Held(1)' = Held(1) /\ Open(1)
    BY <1>2, <2>1, <2>2, <2>3 DEF Owing, Held, Open, LoneInv
  <2>5. irr \subseteq owed'
    BY <2>1 DEF LoneInv
  <2>6. \A i \in 1 .. Len(frames') :
          /\ i \in 1 .. n /\ Held(i)' = Held(i)
          /\ (Open(i)' => Open(i)) /\ (Owing(i)' => Owing(i) /\ Held(i) \in owed')
    <3>1. \A i \in 1 .. Len(frames') : i = 1 /\ i \in 1 .. n
      BY <1>2, <2>3
    <3> QED BY <2>4, <3>1
  <2>7. /\ Len(frames') <= 1 /\ irr \cup none \subseteq owed'
        /\ latch \/ pulse => isr \subseteq owed'
    BY <1>1, <1>3, <2>3, <2>5
  <2> QED BY <1>1, <2>6, <2>7, LoneForward
<1>5. CASE RunHandler
  <2> DEFINE f == [Top EXCEPT !.pc = "restore"]
  <2>1. frames' = SetTop(f) /\ Top.pc = "body" /\ owed' = owed \ {Top.cause}
    BY <1>5 DEF RunHandler, Running
  <2>2. f \in Frame /\ f.pc = "restore" /\ f.cause = Held(1) /\ Top.cause = Held(1)
    BY <1>2, <2>1 DEF Frame, FramePCs, Held
  <2> HIDE DEF f
  <2>3. Len(frames') = 1 /\ frames'[1] = f
    BY <1>1, <1>2, <2>1, <2>2, SetTopIs
  <2>4. Owing(1) /\ ~Owing(1)' /\ Held(1)' = Held(1) /\ Open(1)
    BY <1>2, <2>1, <2>2, <2>3 DEF Owing, Held, Open
  \* Its vector does not wait again before the handler has begun.
  <2>5. irr \subseteq owed'
    <3>1. Held(1) \in owed \ irr /\ irr \subseteq owed
      BY <1>2, <2>4 DEF LoneInv
    <3> QED BY <2>1, <2>2, <3>1
  <2>6. \A i \in 1 .. Len(frames') :
          /\ i \in 1 .. n /\ Held(i)' = Held(i)
          /\ (Open(i)' => Open(i)) /\ (Owing(i)' => Owing(i) /\ Held(i) \in owed')
    <3>1. \A i \in 1 .. Len(frames') : i = 1 /\ i \in 1 .. n
      BY <1>2, <2>3
    <3> QED BY <2>4, <3>1
  <2>7. /\ Len(frames') <= 1 /\ irr \cup none \subseteq owed'
        /\ latch \/ pulse => isr \subseteq owed'
    BY <1>1, <1>3, <2>3, <2>5
  <2> QED BY <1>1, <2>6, <2>7, LoneForward
<1>6. CASE RestoreContext
  <2> DEFINE f == [Top EXCEPT !.pc = "eoi"]
  <2>1. frames' = SetTop(f) /\ Top.pc = "restore" /\ owed' = owed
    BY <1>6 DEF RestoreContext, Running
  <2>2. f \in Frame /\ f.pc = "eoi" /\ f.cause = Held(1)
    BY <1>2, <2>1 DEF Frame, FramePCs, Held
  <2> HIDE DEF f
  <2>3. Len(frames') = 1 /\ frames'[1] = f
    BY <1>1, <1>2, <2>1, <2>2, SetTopIs
  <2>4. ~Owing(1)' /\ Held(1)' = Held(1) /\ Open(1)
    BY <1>2, <2>1, <2>2, <2>3 DEF Owing, Held, Open
  <2>5. irr \subseteq owed'
    BY <2>1 DEF LoneInv
  <2>6. \A i \in 1 .. Len(frames') :
          /\ i \in 1 .. n /\ Held(i)' = Held(i)
          /\ (Open(i)' => Open(i)) /\ (Owing(i)' => Owing(i) /\ Held(i) \in owed')
    <3>1. \A i \in 1 .. Len(frames') : i = 1 /\ i \in 1 .. n
      BY <1>2, <2>3
    <3> QED BY <2>4, <3>1
  <2>7. /\ Len(frames') <= 1 /\ irr \cup none \subseteq owed'
        /\ latch \/ pulse => isr \subseteq owed'
    BY <1>1, <1>3, <2>3, <2>5
  <2> QED BY <1>1, <2>6, <2>7, LoneForward
<1> QED BY <1>4, <1>5, <1>6

LEMMA EndingAlone ==
  ASSUME IInv, LoneInv, Alone, EndInterrupt
  PROVE  LoneInv'
<1> DEFINE n == Len(frames)
           f == [Top EXCEPT !.pc = "return"]
<1>1. /\ frames # <<>> /\ KeepLatch /\ UNCHANGED <<Cause, owed>> /\ TypeOK
      /\ frames' = SetTop(f) /\ LapicClock({}, Top.cause >= 16) /\ Top.pc = "eoi"
  BY DEF EndInterrupt, Running, IInv
<1>2. Top \in Frame /\ Top = frames[n] /\ n = 1
  <2>1. Top \in Frame /\ Top = frames[n] /\ n \in Nat /\ n \in 1 .. n
    BY <1>1, TopIs
  <2>2. n <= 1
    BY DEF LoneInv
  <2> HIDE DEF n
  <2> QED BY <2>1, <2>2
<1>3. f \in Frame /\ f.pc = "return"
  BY <1>2 DEF Frame, FramePCs
<1>4. Len(frames') = 1 /\ frames'[1] = f
  BY <1>1, <1>2, <1>3, SetTopIs
<1>5. ~(latch \/ pulse) /\ Top.cause \in isr
  <2>1. Open(1) /\ Held(1) = Top.cause
    BY <1>1, <1>2 DEF Open, Held
  <2> QED BY <1>2, <2>1 DEF LoneInv
<1>6. (Top.cause >= 16) = TRUE
  <2>1. Top.cause \in 16 .. 127
    BY <1>1, <1>5, VectorAssumption DEF TypeOK
  <2> QED BY <2>1
<1>7. irr' \subseteq irr /\ isr' = {} /\ ~pulse'
  <2> DEFINE none == {}
  <2>1. none \subseteq Vectors /\ LapicClock(none, TRUE) /\ irr \cup none = irr
    BY <1>1, <1>6
  <2> HIDE DEF none
  <2> QED BY <1>1, <1>5, <2>1, LoneClock
<1>8. \A i \in 1 .. Len(frames') : ~Open(i)' /\ ~Owing(i)'
  <2>1. \A i \in 1 .. Len(frames') : i = 1
    BY <1>4
  <2> QED BY <1>3, <1>4, <2>1 DEF Open, Owing
<1>9. Len(frames') <= 1 /\ irr' \subseteq owed' /\ ~latch' /\ ~pulse'
  <2>1. irr \subseteq owed
    BY DEF LoneInv
  <2>2. ~latch'
    BY <1>1, <1>5 DEF KeepLatch
  <2>3. Len(frames') <= 1
    BY <1>4
  <2> QED BY <1>1, <1>7, <2>1, <2>2, <2>3
<1> QED BY <1>8, <1>9 DEF LoneInv

LEMMA TakingAlone ==
  ASSUME IInv, LoneInv, Alone, TakeInterrupt
  PROVE  LoneInv'
<1> DEFINE f == [pc |-> "entry", cause |-> 0, saved |-> FALSE]
           none == {}
<1>1. /\ latch /\ en /\ ~latch' /\ Cause' = Pri_Encoder(isr) /\ owed' = owed
      /\ LapicClock(none, FALSE) /\ frames' = Append(frames, f) /\ TypeOK
      /\ none \subseteq Vectors /\ irr \cup none = irr
  BY DEF TakeInterrupt, Taken, ClearLatch, IInv
<1> HIDE DEF none
<1>2. /\ isr # {} /\ isr \subseteq owed \ irr
      /\ \A i \in 1 .. Len(frames) : ~Open(i)
  BY <1>1 DEF LoneInv
<1>3. frames = <<>>
  <2>1. SUFFICES ASSUME frames # <<>> PROVE FALSE
    OBVIOUS
  <2>2. Top = frames[Len(frames)] /\ Len(frames) \in 1 .. Len(frames)
    BY <1>1, <2>1, TopIs
  <2> QED BY <1>1, <1>2, <2>2 DEF IInv, ContextIsProtected, Open
<1>4. Len(frames') = 1 /\ frames'[1] = f
  <2>1. f \in Frame /\ frames \in Seq(Frame)
    BY <1>1 DEF TypeOK, Frame, FramePCs
  <2>2. Len(frames) = 0
    BY <1>3
  <2> QED BY <1>1, <2>1, <2>2
<1>5. irr' \subseteq irr /\ isr' = isr /\ ~pulse'
  BY <1>1, <1>2, LoneClock
<1>6. Pri_Encoder(isr) \in isr
  <2>1. PICK v \in isr : isr = {v}
    BY <1>1, <1>2, OneVector
  <2>2. v \in Nat
    BY <1>1, VectorAssumption DEF TypeOK
  <2>3. HighestBit(isr) = {v}
    BY <2>1, <2>2 DEF HighestBit
  <2> QED BY <2>1, <2>3 DEF Pri_Encoder
<1>7. Held(1)' = Pri_Encoder(isr)
  BY <1>1, <1>4 DEF Held
<1>8. Held(1)' \in isr' /\ Held(1)' \in owed' \ irr'
  BY <1>1, <1>2, <1>5, <1>6, <1>7
<1> QED BY <1>1, <1>4, <1>5, <1>8 DEF LoneInv

LEMMA SRTAlone ==
  ASSUME IInv, LoneInv, Alone, SRT
  PROVE  LoneInv'
<1> DEFINE none == {}
<1>1. /\ frames # <<>> /\ LapicClock(none, FALSE) /\ KeepLatch /\ owed' = owed
      /\ frames' = SubSeq(frames, 1, Len(frames) - 1) /\ TypeOK
      /\ none \subseteq Vectors /\ irr \cup none = irr /\ none \cap owed = {}
  BY DEF SRT, Running, Tick, IInv
<1> HIDE DEF none
<1>2. Len(frames') = 0
  <2>1. Len(frames) \in Nat /\ Len(frames) \in 1 .. Len(frames) /\ Len(frames) <= 1
    BY <1>1, TopIs DEF LoneInv
  <2>2. Len(frames) = 1
    <3>1. \A n \in Nat : n \in 1 .. n /\ n <= 1 => n = 1
      OBVIOUS
    <3> QED BY <2>1, <3>1, Zenon
  <2>3. frames' = SubSeq(frames, 1, 0)
    BY <1>1, <2>2
  <2> QED BY <2>3
<1>3. /\ Len(frames') <= 1
      /\ \A i \in 1 .. Len(frames') :
           /\ i \in 1 .. Len(frames) /\ Held(i)' = Held(i)
           /\ (Open(i)' => Open(i)) /\ (Owing(i)' => Owing(i) /\ Held(i) \in owed')
  BY <1>2
<1>4. irr \cup none \subseteq owed' /\ (latch \/ pulse => isr \subseteq owed')
  BY <1>1 DEF LoneInv
<1> QED BY <1>1, <1>3, <1>4, LoneForward

LEMMA OutsideAlone ==
  ASSUME IInv, LoneInv, Alone,
         \/ enterCriticalSection \/ exitCriticalSection \/ HLT \/ Stall
         \/ \E v \in Vectors : RequestIrq(v)
         \/ UNCHANGED vars
  PROVE  LoneInv'
<1>1. UNCHANGED <<frames, Cause>> /\ owed \subseteq owed'
  BY DEF enterCriticalSection, exitCriticalSection, HLT, Stall, RequestIrq, vars, cpu
<1>2. /\ Len(frames') <= 1 /\ irr \subseteq owed'
      /\ latch \/ pulse => isr \subseteq owed'
      /\ TypeOK
  BY <1>1 DEF LoneInv, IInv
<1>3. \A i \in 1 .. Len(frames') :
        /\ i \in 1 .. Len(frames) /\ Held(i)' = Held(i)
        /\ (Open(i)' => Open(i)) /\ (Owing(i)' => Owing(i) /\ Held(i) \in owed')
  BY <1>1 DEF LoneInv, Held, Open, Owing
<1>4. CASE enterCriticalSection \/ exitCriticalSection \/ HLT \/ Stall
  <2> DEFINE none == {}
  <2>1. /\ LapicClock(none, FALSE) /\ KeepLatch
        /\ none \subseteq Vectors /\ irr \cup none = irr /\ none \cap owed = {}
    BY <1>4 DEF enterCriticalSection, exitCriticalSection, HLT, Stall, Tick
  <2> HIDE DEF none
  <2> QED BY <1>2, <1>3, <2>1, LoneForward
<1>5. CASE \E v \in Vectors : RequestIrq(v)
  <2>1. PICK v \in Vectors : RequestIrq(v)
    BY <1>5
  <2>2. /\ LapicClock({v}, FALSE) /\ KeepLatch /\ {v} \subseteq Vectors
        /\ irr \cup {v} \subseteq owed' /\ {v} \cap owed = {}
    BY <1>2, <2>1 DEF RequestIrq
  <2> QED BY <1>2, <1>3, <2>2, LoneForward
<1>6. CASE UNCHANGED vars
  BY <1>6 DEF vars, lapic, cpu, LoneInv, Held, Open, Owing
<1> QED BY <1>4, <1>5, <1>6

\* As long as requests do not meet, for any set of vectors and any threshold,
\* a handler begins only for a request its device made and that no handler has
\* begun for since: neither a spurious nor a repeated call (lapic.c:57-63).
THEOREM OnlyRequestedHandlersRun == Spec => OnlyRequestedRuns
<1>1. Init => LoneInv
  <2>1. SUFFICES ASSUME Init PROVE LoneInv
    OBVIOUS
  <2>2. Len(frames) = 0 /\ ~latch /\ ~pulse /\ irr = {}
    BY <2>1 DEF Init, LapicInit
  <2> QED BY <2>2 DEF LoneInv
<1>2. IInv /\ LoneInv /\ Alone /\ [Next]_vars => LoneInv'
  BY OutsideAlone, TakingAlone, HandlerAlone, EndingAlone, SRTAlone
  DEF Next, MainHandler
<1>3. IInv /\ LoneInv => RequestedRuns
  <2>1. SUFFICES ASSUME IInv, LoneInv, frames # <<>>, Top.pc = "body"
                 PROVE  Top.cause \in owed
    BY DEF RequestedRuns
  <2>2. Top = frames[Len(frames)] /\ Len(frames) \in 1 .. Len(frames)
    BY <2>1, TopIs DEF IInv
  <2>3. Owing(Len(frames)) /\ Held(Len(frames)) = Top.cause
    BY <2>1, <2>2 DEF Owing, Held
  <2> QED BY <2>1, <2>2, <2>3 DEF LoneInv
<1>4. RequestsDoNotMeet <=> []Alone
  BY PTL DEF RequestsDoNotMeet, Alone
<1>5. Spec /\ []Alone => []RequestedRuns
  BY <1>1, <1>2, <1>3, Inductive, PTL DEF Spec
<1> QED BY <1>4, <1>5, PTL DEF OnlyRequestedRuns
=============================================================================
