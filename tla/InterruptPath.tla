---------------------------- MODULE InterruptPath ----------------------------
(***************************************************************************)
(* The way of an interrupt from a device's MSI to its handler and back:    *)
(* Lapic, the pending latch of Exception_Generator, the flags SR8 of       *)
(* Especial_Flags, HLT, and mainHandler of hal/lapic.c, which lets more    *)
(* urgent interrupts nest, on top of a main program that uses critical     *)
(* sections and HLT.                                                       *)
(*                                                                         *)
(* Every step is one clock of the LAPIC.  A processor step may take any    *)
(* number of clocks before it (Stall), and a device owns the bus, so the   *)
(* processor stands still, in the clock of its MSI (RequestIrq).  Taking   *)
(* an interrupt flushes the pipeline: the clocks from recognising it to    *)
(* clearing EN_INTS are one step.                                          *)
(***************************************************************************)
EXTENDS Lapic, Sequences, FiniteSets

CONSTANT MaxRequests   \* bound on the interrupts of one behaviour

ASSUME RequestAssumption == MaxRequests \in Nat

VARIABLES
  latch,     \* Exception_Generator: an interrupt is waiting to be taken
  Cause,     \* SR7
  en, prev,  \* EN_INTS and PREV_INTS of SR8
  halted,    \* Halt_Unit
  frames,    \* activations of mainHandler, the outermost first
  inside,    \* the main program is in a critical section
  owed,      \* vectors requested whose handler has not begun since
  requests   \* requests so far

cpu == <<latch, Cause, en, prev, halted>>
vars == <<lapic, cpu, frames, inside, owed, requests>>

Init ==
  /\ LapicInit
  /\ latch = FALSE /\ Cause = 0
  /\ en = TRUE /\ prev = FALSE      \* irqOn of initLAPIC
  /\ halted = FALSE
  /\ frames = <<>> /\ inside = FALSE
  /\ owed = {} /\ requests = 0

-----------------------------------------------------------------------------
(***************************************************************************)
(* The latch is a J-K flip-flop: J is the pulse of the LAPIC, K clears it  *)
(* when the interrupt is taken; both together toggle a set latch to clear. *)
(***************************************************************************)
takenWhenMasked == latch
Taken == latch /\ en
KeepLatch == latch' = (latch \/ pulse)
ClearLatch == latch' = FALSE

\* A clock in which the processor neither ends nor takes an interrupt.
Tick == LapicClock({}, FALSE) /\ KeepLatch

\* A waiting interrupt that may be taken replaces the next instruction.
Executes == ~Taken /\ ~halted

Top == frames[Len(frames)]
SetTop(f) == [frames EXCEPT ![Len(frames)] = f]
Running(pc) == frames # <<>> /\ Top.pc = pc /\ Executes

(***************************************************************************)
(* The main program: enterCriticalSection, exitCriticalSection and HLT.    *)
(***************************************************************************)
MainRuns == frames = <<>> /\ Executes

enterCriticalSection ==
  /\ MainRuns /\ ~inside
  /\ en' = FALSE
  /\ inside' = TRUE
  /\ Tick
  /\ UNCHANGED <<Cause, prev, halted, frames, owed, requests>>

exitCriticalSection ==
  /\ MainRuns /\ inside
  /\ en' = TRUE
  /\ inside' = FALSE
  /\ Tick
  /\ UNCHANGED <<Cause, prev, halted, frames, owed, requests>>

HLT ==
  /\ MainRuns /\ ~inside
  /\ halted' = TRUE
  /\ Tick
  /\ UNCHANGED <<Cause, en, prev, frames, inside, owed, requests>>

(***************************************************************************)
(* A device writes its vector to the MSI register.  It interrupts again    *)
(* only after its handler has begun: the terminal waits for the next       *)
(* command, the keyboard for its acknowledgement, the memory for the       *)
(* doorbell.                                                               *)
(***************************************************************************)
RequestIrq(v) ==
  /\ v \notin owed /\ requests < MaxRequests
  /\ owed' = owed \cup {v}
  /\ requests' = requests + 1
  /\ LapicClock({v}, FALSE) /\ KeepLatch
  /\ UNCHANGED <<Cause, en, prev, halted, frames, inside>>

Stall ==
  /\ Tick
  /\ UNCHANGED <<Cause, en, prev, halted, frames, inside, owed, requests>>

(***************************************************************************)
(* Exception_Generator takes the waiting interrupt: Cause is the highest   *)
(* vector in service, EN_INTS moves to PREV_INTS and the processor leaves  *)
(* HLT for entryHandler.  A pulse in the same clock is toggled away.       *)
(***************************************************************************)
TakeInterrupt ==
  /\ Taken
  /\ LapicClock({}, FALSE) /\ ClearLatch
  /\ Cause' = Pri_Encoder(isr)
  /\ prev' = en /\ en' = FALSE
  /\ halted' = FALSE
  /\ frames' = Append(frames, [pc |-> "entry", cause |-> 0, saved |-> FALSE])
  /\ UNCHANGED <<inside, owed, requests>>

(***************************************************************************)
(* mainHandler.  It saves EPC, SR8 and Cause with interrupts off, lets     *)
(* more urgent interrupts in while the device's handler runs, restores SR8 *)
(* and EPC with interrupts off, ends the interrupt and returns.            *)
(***************************************************************************)

\* CYE SR8, eflags; CYE SR7, cause; if (eflags & PREV_INTS) interrupts on.
\* What eflags keeps of SR8 is PREV_INTS.
SaveContext ==
  /\ Running("entry")
  /\ frames' = SetTop([pc |-> "body", cause |-> Cause, saved |-> prev])
  /\ en' = (en \/ prev)
  /\ Tick
  /\ UNCHANGED <<Cause, prev, halted, inside, owed, requests>>

\* irq_table.handlers[cause], or syscallsHandler when cause is 0.
RunHandler ==
  /\ Running("body")
  /\ frames' = SetTop([Top EXCEPT !.pc = "restore"])
  /\ owed' = owed \ {Top.cause}
  /\ Tick
  /\ UNCHANGED <<Cause, en, prev, halted, inside, requests>>

\* CYR eflags_off, SR8; CYR epc, SR1.
RestoreContextUnmasked ==
  /\ Running("restore")
  /\ prev' = Top.saved /\ UNCHANGED en
  /\ frames' = SetTop([Top EXCEPT !.pc = "eoi"])
  /\ Tick
  /\ UNCHANGED <<Cause, halted, inside, owed, requests>>

RestoreContextKeepsPrev ==
  /\ Running("restore")
  /\ en' = FALSE /\ UNCHANGED prev
  /\ frames' = SetTop([Top EXCEPT !.pc = "eoi"])
  /\ Tick
  /\ UNCHANGED <<Cause, halted, inside, owed, requests>>

RestoreContext ==
  /\ Running("restore")
  /\ en' = FALSE /\ prev' = Top.saved
  /\ frames' = SetTop([Top EXCEPT !.pc = "eoi"])
  /\ Tick
  /\ UNCHANGED <<Cause, halted, inside, owed, requests>>

\* if (cause >= 16) Registros->EOI = 1;
EndInterruptNever ==
  /\ Running("eoi")
  /\ LapicClock({}, FALSE) /\ KeepLatch
  /\ frames' = SetTop([Top EXCEPT !.pc = "return"])
  /\ UNCHANGED <<Cause, en, prev, halted, inside, owed, requests>>

EndInterrupt ==
  /\ Running("eoi")
  /\ LapicClock({}, Top.cause >= 16) /\ KeepLatch
  /\ frames' = SetTop([Top EXCEPT !.pc = "return"])
  /\ UNCHANGED <<Cause, en, prev, halted, inside, owed, requests>>

\* SRT: EN_INTS takes PREV_INTS, which is cleared.
SRT ==
  /\ Running("return")
  /\ en' = prev /\ prev' = FALSE
  /\ frames' = SubSeq(frames, 1, Len(frames) - 1)
  /\ Tick
  /\ UNCHANGED <<Cause, halted, inside, owed, requests>>

-----------------------------------------------------------------------------
MainHandler ==
  \/ SaveContext \/ RunHandler \/ RestoreContext \/ EndInterrupt \/ SRT

Next ==
  \/ enterCriticalSection \/ exitCriticalSection \/ HLT
  \/ \E v \in Vectors : RequestIrq(v)
  \/ Stall
  \/ TakeInterrupt
  \/ MainHandler

Spec == Init /\ [][Next]_vars

(***************************************************************************)
(* The clock runs, an interrupt that may be taken is taken, the handler    *)
(* goes on and a critical section ends.  The main program may run or halt  *)
(* for ever and no device has to interrupt.                                *)
(***************************************************************************)
Fairness ==
  /\ WF_vars(Stall)
  /\ WF_vars(TakeInterrupt)
  /\ WF_vars(MainHandler)
  /\ WF_vars(exitCriticalSection)

FairSpec == Spec /\ Fairness

-----------------------------------------------------------------------------
\* Every variable keeps its type.
TypeOK ==
  /\ irr \subseteq Vectors /\ isr \subseteq Vectors /\ pulse \in BOOLEAN
  /\ latch \in BOOLEAN /\ Cause \in Vectors \cup {0}
  /\ en \in BOOLEAN /\ prev \in BOOLEAN /\ halted \in BOOLEAN
  /\ frames \in Seq([pc: {"entry", "body", "restore", "eoi", "return"},
                     cause: Vectors \cup {0}, saved: BOOLEAN])
  /\ inside \in BOOLEAN
  /\ owed \subseteq Vectors /\ requests \in 0 .. MaxRequests

(***************************************************************************)
(* No handler runs between enter- and exitCriticalSection, however deep    *)
(* the interrupts before it nested: what two drivers' queues rely on       *)
(* (lapic.h:30-41).                                                        *)
(***************************************************************************)
CriticalSectionIsAtomic == inside => frames = <<>> /\ ~en /\ ~halted

(***************************************************************************)
(* SR1, SR7 and SR8 are single registers shared by all activations, so     *)
(* only the innermost one may be using them, with interrupts off; every    *)
(* activation below waits in its device handler, where it was interruptible*)
(* (lapic.c:45-55, 67-74).                                                 *)
(***************************************************************************)
ContextIsProtected ==
  \A i \in 1 .. Len(frames) :
    IF i < Len(frames) THEN frames[i].pc \in {"body", "restore"}
                       ELSE en <=> frames[i].pc \in {"body", "restore"}

(***************************************************************************)
(* The interrupted program always goes on with interrupts as they were: on *)
(* at any depth, since an interrupt is only taken when they are on.        *)
(***************************************************************************)
FlagsAreRestored ==
  /\ frames = <<>> => (en <=> ~inside)
  /\ frames # <<>> /\ ~en => prev

\* Handlers nest by urgency: only a more urgent interrupt interrupts a handler
\* (MEMORY_AND_ABI.md:103, lapic.c:52-55; the code does not keep this promise
\* with three devices or more).
NestingIsByUrgency ==
  \A i, j \in 1 .. Len(frames) :
    i < j /\ frames[j].pc # "entry" => frames[i].cause < frames[j].cause

\* The two most urgent vectors: on this machine the terminal's and the
\* keyboard's.
MostUrgent == Pri_Encoder(Vectors)
Second == Pri_Encoder(Vectors \ {MostUrgent})

(***************************************************************************)
(* What the code does keep of it, however many devices there are: nothing  *)
(* interrupts the handler of the most urgent vector, and that handler alone*)
(* the second's, so neither is entered again before it ends                *)
(* (lapic.c:52-75).                                                        *)
(***************************************************************************)
UrgentTwoNest ==
  \A i, j \in 1 .. Len(frames) :
    /\ i < j /\ frames[j].pc # "entry"
    /\ frames[i].cause \in {MostUrgent, Second} \cap Vectors
    => frames[i].cause < frames[j].cause

(***************************************************************************)
(* The handler of the most urgent vector runs only for a request of its    *)
(* device: an EOI may end the wrong interrupt and leave another handler to *)
(* run for nothing, never this one (lapic.c:57-63, 72-75).                 *)
(***************************************************************************)
MostUrgentRunsWhenAsked ==
  frames # <<>> /\ Top.pc = "body" /\ Top.cause = MostUrgent /\ MostUrgent # 0
    => MostUrgent \in owed

(***************************************************************************)
(* Devices share one latch and one in-service register.  What a single     *)
(* request can rely on is stated for behaviours in which requests do not   *)
(* meet: no device asks while another one's vector is owed or in service.  *)
(***************************************************************************)
RequestsDoNotMeet == [](Cardinality(owed \cup isr) <= 1)

\* A handler runs only for a request of its device (lapic.c:57-63).
RequestedRuns == frames # <<>> /\ Top.pc = "body" => Top.cause \in owed
OnlyRequestedRuns == RequestsDoNotMeet => []RequestedRuns

\* Every request is handled: no interrupt is lost on the way and HLT always
\* ends (LAPIC.md:121; the code does not keep this promise when requests meet).
EveryRequestIsHandled == \A v \in Vectors : v \in owed ~> v \notin owed
LoneRequestIsHandled == RequestsDoNotMeet => EveryRequestIsHandled

\* The EOI of a handler ends the interrupt it handled (LAPIC.md:137: "Señalizar
\* fin de la interrupción actual"; the code does not keep this promise).
EoiEndsCurrent ==
  [][EndInterrupt => Top.cause \notin isr']_vars
=============================================================================
