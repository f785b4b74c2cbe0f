--------------------------- MODULE TtyDriver_proofs ---------------------------
(***************************************************************************)
(* For every queue size and every set of calls, the display driver keeps   *)
(* its invariants and never overwrites a request.                          *)
(*                                                                         *)
(* The inductive invariant adds to the checked invariants what the program *)
(* knows at each place of ttyWrite: interrupts are off exactly inside the  *)
(* critical section, and the request in hand belongs to the path taken.    *)
(***************************************************************************)
EXTENDS TtyDriver, SequenceTheorems, TLAPS

\* Interrupts are off exactly between enter- and exitCriticalSection.
InsideIsMasked ==
  /\ saved
  /\ Alive => (en <=> pc \notin {"direct", "enqueue", "kick", "exit"})
  /\ hpc # "none" => Alive /\ en

\* The request in hand fits the path of ttyWrite that was chosen for it.
RequestFitsPath ==
  /\ pc \in {"waitRoom", "hltRoom", "enterQueue", "enqueue"}
       => req \in Request /\ Queued(req)
  /\ pc \in {"waitIdle", "hltIdle", "enterDirect", "direct"}
       => req \in Request /\ ~tty_requires_irq(req)

\* While the queue owns the hardware no direct request is left to start.
BusyOwnsRegisters ==
  Alive /\ hardware_busy => comand = NoRequest \/ Queued(comand)

IInv ==
  /\ TypeOK
  /\ InsideIsMasked
  /\ RequestFitsPath
  /\ BusyIsOutstanding
  /\ BusyOwnsRegisters
  /\ QueueIsConsistent
  /\ DirectIsBarrier

-----------------------------------------------------------------------------
\* (i + 1) % QUEUE_SIZE goes back to slot 0 after the last slot.
LEMMA NextSlotIs ==
  ASSUME NEW i \in Slots
  PROVE  NextSlot(i) = IF i + 1 = QUEUE_SIZE THEN 0 ELSE i + 1
<1>1. QUEUE_SIZE \in Nat /\ QUEUE_SIZE > 0
  BY QueueAssumption
<1>2. CASE i + 1 = QUEUE_SIZE
  BY <1>1, <1>2 DEF NextSlot, Slots
<1>3. CASE i + 1 < QUEUE_SIZE
  BY <1>1, <1>3 DEF NextSlot, Slots
<1> QED
  BY <1>1, <1>2, <1>3 DEF Slots

\* The controller interrupts for exactly the requests the driver queues.
LEMMA IrqIffQueued ==
  ASSUME NEW r \in AnyRequest
  PROVE  raisesIrq(r) <=> Queued(r)
<1>1. CASE r \in {PanicMessage, AbortMessage, NoRequest}
  BY <1>1 DEF PanicMessage, AbortMessage, NoRequest, raisesIrq, Queued,
              tty_requires_irq
<1>2. CASE r \in Request
  <2>1. PICK c \in Calls : r = biosWrite(c)
    BY <1>2 DEF Request
  <2>2. c.kind \in Kinds /\ c.cant \in Nat
    BY CallAssumption
  <2>3. r # NoRequest
    BY <2>1, <2>2 DEF biosWrite, Option, Kinds, NoRequest
  <2> QED
    BY <2>1, <2>2, <2>3
    DEF biosWrite, Option, Kinds, raisesIrq, Queued, tty_requires_irq
<1> QED
  BY <1>1, <1>2 DEF AnyRequest

-----------------------------------------------------------------------------
THEOREM InitEstablishes == Init => IInv
<1> SUFFICES ASSUME Init PROVE IInv
  OBVIOUS
<1>1. TypeOK
  BY QueueAssumption DEF Init, TypeOK, Slots, AnyRequest, PCs, HandlerPCs
<1>2. ~Queued(NoRequest)
  BY DEF Queued
<1> QED
  BY <1>1, <1>2, QueueAssumption
  DEF Init, IInv, InsideIsMasked, RequestFitsPath, BusyIsOutstanding,
      BusyOwnsRegisters, QueueIsConsistent, DirectIsBarrier, Outstanding,
      InQueue, Alive, Slots

(***************************************************************************)
(* The steps of the main program.                                          *)
(***************************************************************************)
LEMMA CallKeeps ==
  ASSUME IInv, NEW c \in Calls, Call(c)
  PROVE  IInv'
<1>1. biosWrite(c) \in Request
  BY DEF Request
<1>2. biosWrite(c) # NoRequest
  <2>1. c.kind \in Kinds
    BY CallAssumption
  <2> QED
    BY <2>1 DEF biosWrite, Option, Kinds, NoRequest
<1>3. TypeOK' /\ RequestFitsPath'
  BY <1>1, <1>2 DEF IInv, Call, TypeOK, RequestFitsPath, Queued, AnyRequest, PCs,
                    queue, device
<1> QED
  BY <1>3
  DEF Call, IInv, InsideIsMasked, BusyIsOutstanding, BusyOwnsRegisters,
      QueueIsConsistent, DirectIsBarrier, Outstanding, InQueue, Alive, Slots,
      queue, device

\* Testing, halting and entering or leaving the critical section move the main
\* program and the interrupt flag only.
LEMMA MoveKeeps ==
  ASSUME IInv,
         WaitIdle \/ WaitRoom \/ Halt \/ enterCriticalSection
           \/ exitCriticalSection
  PROVE  IInv'
<1>1. /\ UNCHANGED <<items, head, tail, count, hardware_busy, comand, running,
                   irq, lost>>
      /\ UNCHANGED <<hpc, barrier, req, asked, shown, system_panic>>
      /\ hpc = "none"
  BY DEF WaitIdle, WaitRoom, Halt, enterCriticalSection, exitCriticalSection,
         MainRuns, queue, device
<1>2. /\ Outstanding' <=> Outstanding
      /\ \A i \in Slots : InQueue(i)' <=> InQueue(i)
  BY <1>1 DEF Outstanding, InQueue
<1>3. pc' # "kick" /\ pc # "kick" /\ Alive /\ Alive'
  BY DEF WaitIdle, WaitRoom, Halt, enterCriticalSection, exitCriticalSection,
         Alive
<1>4. pc' \in PCs /\ en' \in BOOLEAN /\ saved' \in BOOLEAN /\ halted' \in BOOLEAN
  BY DEF IInv, TypeOK, PCs, WaitIdle, WaitRoom, Halt, enterCriticalSection,
         exitCriticalSection
<1>5. InsideIsMasked' /\ RequestFitsPath'
  <2>1. CASE WaitIdle \/ WaitRoom \/ Halt
    BY <1>1, <2>1 DEF IInv, InsideIsMasked, RequestFitsPath, Alive, WaitIdle,
                      WaitRoom, Halt
  <2>2. CASE enterCriticalSection \/ exitCriticalSection
    BY <1>1, <2>2 DEF IInv, TypeOK, InsideIsMasked, RequestFitsPath, Alive,
                      enterCriticalSection, exitCriticalSection
  <2> QED
    BY <2>1, <2>2
<1>6. TypeOK'
  BY <1>1, <1>4 DEF IInv, TypeOK
<1>7. pc' \in {"enterQueue", "enqueue"} => count < QUEUE_SIZE
  <2>1. count \in Nat /\ QUEUE_SIZE \in Nat
    BY QueueAssumption DEF IInv, TypeOK
  <2> QED
    BY <1>3, <2>1 DEF IInv, QueueIsConsistent, WaitIdle, WaitRoom, Halt,
                enterCriticalSection, exitCriticalSection
<1>8. QueueIsConsistent'
  BY <1>1, <1>2, <1>3, <1>7 DEF IInv, QueueIsConsistent
<1>9. pc' \in {"enterDirect", "direct"} => ~hardware_busy
  BY <1>1 DEF IInv, DirectIsBarrier, WaitIdle, WaitRoom, Halt,
              enterCriticalSection, exitCriticalSection
<1>10. BusyIsOutstanding' /\ BusyOwnsRegisters' /\ DirectIsBarrier'
  BY <1>1, <1>2, <1>3, <1>9
  DEF IInv, BusyIsOutstanding, BusyOwnsRegisters, DirectIsBarrier
<1> QED
  BY <1>5, <1>6, <1>8, <1>10 DEF IInv

LEMMA SendDirectKeeps ==
  ASSUME IInv, SendDirect
  PROVE  IInv'
<1> USE DEF SendDirect, MainRuns, queue
<1>1. req \in Request /\ ~Queued(req) /\ ~hardware_busy /\ hpc = "none"
  BY DEF IInv, RequestFitsPath, DirectIsBarrier, Queued
<1>2. ~Outstanding /\ count = 0
  BY <1>1 DEF IInv, TypeOK, BusyIsOutstanding, QueueIsConsistent, Alive
<1>3. ~Outstanding'
  BY <1>1, <1>2 DEF Outstanding
<1>4. TypeOK' /\ InsideIsMasked' /\ RequestFitsPath'
  BY <1>1 DEF IInv, TypeOK, InsideIsMasked, RequestFitsPath, PCs, AnyRequest, Alive
<1>5. BusyIsOutstanding' /\ BusyOwnsRegisters' /\ DirectIsBarrier'
  BY <1>1, <1>2, <1>3
  DEF BusyIsOutstanding, BusyOwnsRegisters, DirectIsBarrier, Outstanding, Alive
<1>6. QueueIsConsistent'
  BY <1>1 DEF IInv, QueueIsConsistent, InQueue, Alive
<1> QED
  BY <1>4, <1>5, <1>6 DEF IInv

LEMMA EnqueueKeeps ==
  ASSUME IInv, Enqueue
  PROVE  IInv'
<1> USE QueueAssumption DEF Enqueue, MainRuns, device
<1>1. req \in Request /\ Queued(req) /\ count < QUEUE_SIZE /\ hpc = "none"
  BY DEF IInv, RequestFitsPath, QueueIsConsistent, Alive
<1>2. /\ head \in Slots /\ tail \in Slots /\ count \in Nat
      /\ count' = count + 1 /\ count' \in 0 .. 255
  <2>1. head \in Slots /\ tail \in Slots /\ count \in 0 .. 255
    BY DEF IInv, TypeOK
  <2>2. count + 1 \in 0 .. 255
    BY <1>1, <2>1
  <2> QED
    BY <2>1, <2>2 DEF Increment
<1>3. tail' = IF tail + 1 = QUEUE_SIZE THEN 0 ELSE tail + 1
  BY <1>2, NextSlotIs
<1>4. TypeOK'
  <2>1. items' \in [Slots -> AnyRequest]
    BY <1>1, <1>2 DEF IInv, TypeOK, AnyRequest
  <2>2. asked' \in Seq(Request)
    BY <1>1 DEF IInv, TypeOK
  <2> QED
    <3>1. tail' \in Slots
      BY <1>2, <1>3 DEF Slots
    <3> QED
      BY <1>2, <2>1, <2>2, <3>1 DEF IInv, TypeOK, PCs
<1>5. InsideIsMasked' /\ RequestFitsPath'
  BY DEF IInv, InsideIsMasked, RequestFitsPath, Alive
<1>6. BusyIsOutstanding' /\ BusyOwnsRegisters' /\ DirectIsBarrier'
  BY DEF IInv, BusyIsOutstanding, BusyOwnsRegisters, DirectIsBarrier,
         Outstanding, Alive
<1>7. QueueIsConsistent'
  <2>1. tail = IF head + count < QUEUE_SIZE THEN head + count
                                            ELSE head + count - QUEUE_SIZE
    BY DEF IInv, QueueIsConsistent, Alive
  <2>2. ASSUME NEW i \in Slots, InQueue(i)'
        PROVE  Queued(items'[i])
    <3>1. i = tail \/ (InQueue(i) /\ i # tail)
      BY <1>1, <1>2, <2>1, <2>2 DEF InQueue, Slots
    <3>2. items'[i] = IF i = tail THEN req ELSE items[i]
      BY <1>2 DEF IInv, TypeOK
    <3> QED
      BY <1>1, <3>1, <3>2 DEF IInv, QueueIsConsistent, Alive
  <2>3. tail' = IF head + count' < QUEUE_SIZE THEN head + count'
                                              ELSE head + count' - QUEUE_SIZE
    BY <1>1, <1>2, <1>3, <2>1 DEF Slots
  <2>4. hardware_busy <=> count > 0
    BY <1>1 DEF IInv, QueueIsConsistent, Alive
  <2> QED
    BY <1>1, <1>2, <2>2, <2>3, <2>4 DEF QueueIsConsistent, InQueue
<1> QED
  BY <1>4, <1>5, <1>6, <1>7 DEF IInv

LEMMA KickKeeps ==
  ASSUME IInv, Kick
  PROVE  IInv'
<1> USE QueueAssumption DEF Kick, MainRuns
<1>1. /\ count \in Nat /\ count > 0 /\ (hardware_busy <=> count > 1)
      /\ head \in Slots /\ items[head] \in AnyRequest
  BY DEF IInv, TypeOK, QueueIsConsistent, Alive, Slots
<1>2. Queued(items[head])
  BY <1>1 DEF IInv, QueueIsConsistent, Alive, InQueue, Slots
<1>3. TypeOK' /\ InsideIsMasked' /\ RequestFitsPath'
  BY <1>1 DEF IInv, TypeOK, InsideIsMasked, RequestFitsPath, PCs, Alive
<1>4. BusyIsOutstanding' /\ BusyOwnsRegisters'
  BY <1>2 DEF IInv, BusyIsOutstanding, BusyOwnsRegisters, Outstanding, Alive
<1>5. QueueIsConsistent'
  BY <1>1 DEF IInv, QueueIsConsistent, InQueue, Alive
<1>6. DirectIsBarrier'
  BY <1>1 DEF IInv, DirectIsBarrier, Alive
<1> QED
  BY <1>3, <1>4, <1>5, <1>6 DEF IInv

LEMMA initTtyKeeps ==
  ASSUME IInv, initTty
  PROVE  IInv'
<1> USE DEF initTty, MainRuns, device, cpu
<1>1. count = 0 /\ ~Outstanding /\ ~hardware_busy
  BY DEF IInv, DirectIsBarrier, BusyIsOutstanding, Alive
<1>2. 0 \in Slots
  BY QueueAssumption DEF Slots
<1>3. TypeOK'
  BY <1>2 DEF IInv, TypeOK
<1>4. QueueIsConsistent'
  BY <1>2, QueueAssumption DEF QueueIsConsistent, InQueue, Slots
<1> QED
  BY <1>1, <1>3, <1>4
  DEF IInv, InsideIsMasked, RequestFitsPath, BusyIsOutstanding,
      BusyOwnsRegisters, DirectIsBarrier, Outstanding, Alive

(***************************************************************************)
(* The steps of the controller.                                            *)
(***************************************************************************)
LEMMA StartKeeps ==
  ASSUME IInv, Start
  PROVE  IInv'
<1> USE DEF Start, queue, cpu
<1>1. Outstanding' <=> Outstanding
  BY DEF Outstanding, Queued
<1>2. TypeOK'
  BY DEF IInv, TypeOK, AnyRequest
<1>3. BusyIsOutstanding' /\ BusyOwnsRegisters' /\ DirectIsBarrier'
  BY <1>1 DEF IInv, BusyIsOutstanding, BusyOwnsRegisters, DirectIsBarrier,
              Alive, Queued
<1>4. InsideIsMasked' /\ RequestFitsPath' /\ QueueIsConsistent'
  BY DEF IInv, InsideIsMasked, RequestFitsPath, QueueIsConsistent, InQueue, Alive
<1> QED
  BY <1>2, <1>3, <1>4 DEF IInv

LEMMA FinishKeeps ==
  ASSUME IInv, Finish
  PROVE  IInv'
<1> USE DEF Finish, queue, cpu
<1>1. /\ running \in AnyRequest /\ shown \in Seq(AnyRequest)
      /\ irq \in BOOLEAN /\ raisesIrq(running) = Queued(running)
  BY IrqIffQueued DEF IInv, TypeOK, Queued, raisesIrq, tty_requires_irq
<1>2. Outstanding' <=> Outstanding
  BY <1>1 DEF Outstanding, Queued
<1>3. TypeOK'
  BY <1>1 DEF IInv, TypeOK, AnyRequest, Queued, tty_requires_irq
<1>4. BusyIsOutstanding' /\ BusyOwnsRegisters' /\ DirectIsBarrier'
  BY <1>1, <1>2 DEF IInv, BusyIsOutstanding, BusyOwnsRegisters, DirectIsBarrier,
                    Alive, Queued
<1>5. InsideIsMasked' /\ RequestFitsPath' /\ QueueIsConsistent'
  BY DEF IInv, InsideIsMasked, RequestFitsPath, QueueIsConsistent, InQueue, Alive
<1> QED
  BY <1>3, <1>4, <1>5 DEF IInv

(***************************************************************************)
(* The steps of the completion interrupt.                                  *)
(***************************************************************************)
LEMMA TakeIrqKeeps ==
  ASSUME IInv, TakeIrq
  PROVE  IInv'
<1> USE DEF TakeIrq, queue
<1>1. hardware_busy
  BY DEF IInv, BusyIsOutstanding, Outstanding, Alive
<1>2. TypeOK' /\ InsideIsMasked' /\ RequestFitsPath'
  BY DEF IInv, TypeOK, InsideIsMasked, RequestFitsPath, HandlerPCs, Alive
<1>3. BusyIsOutstanding' /\ BusyOwnsRegisters'
  BY DEF IInv, BusyIsOutstanding, BusyOwnsRegisters, Outstanding, Alive
<1>4. QueueIsConsistent'
  BY DEF IInv, QueueIsConsistent, InQueue, Alive
<1>5. DirectIsBarrier'
  BY <1>1 DEF IInv, DirectIsBarrier, Outstanding, Alive
<1> QED
  BY <1>2, <1>3, <1>4, <1>5 DEF IInv

\* A lost completion stays outstanding.
LEMMA LoseIrqKeeps ==
  ASSUME IInv, LoseIrq
  PROVE  IInv'
<1> USE DEF LoseIrq, queue, cpu
<1>1. Outstanding' <=> Outstanding
  BY DEF Outstanding
<1>2. TypeOK' /\ InsideIsMasked' /\ RequestFitsPath'
  BY DEF IInv, TypeOK, InsideIsMasked, RequestFitsPath, Alive
<1>3. BusyIsOutstanding' /\ BusyOwnsRegisters'
  BY <1>1 DEF IInv, BusyIsOutstanding, BusyOwnsRegisters, Alive
<1>4. QueueIsConsistent'
  BY DEF IInv, QueueIsConsistent, InQueue, Alive
<1>5. DirectIsBarrier'
  BY <1>1 DEF IInv, DirectIsBarrier, Alive
<1> QED
  BY <1>2, <1>3, <1>4, <1>5 DEF IInv

LEMMA IrqAdvanceKeeps ==
  ASSUME IInv, IrqAdvance
  PROVE  IInv'
<1> USE QueueAssumption DEF IrqAdvance, device
<1>1. Alive /\ hardware_busy /\ ~barrier /\ en
  BY DEF IInv, BusyIsOutstanding, DirectIsBarrier, InsideIsMasked, Outstanding,
         Alive
<1>2. /\ head \in Slots /\ tail \in Slots /\ count \in Nat
      /\ count > 0 /\ count <= QUEUE_SIZE /\ count' = count - 1
  <2>1. count \in 0 .. 255 /\ count > 0 /\ count <= QUEUE_SIZE
    BY <1>1 DEF IInv, TypeOK, QueueIsConsistent, InsideIsMasked, Alive
  <2> QED
    BY <2>1 DEF IInv, TypeOK, Decrement
<1>3. head' = IF head + 1 = QUEUE_SIZE THEN 0 ELSE head + 1
  BY <1>2, NextSlotIs
<1>4. TypeOK'
  BY <1>2, <1>3 DEF IInv, TypeOK, Slots, HandlerPCs
<1>5. InsideIsMasked' /\ RequestFitsPath' /\ BusyOwnsRegisters'
  BY DEF IInv, InsideIsMasked, RequestFitsPath, BusyOwnsRegisters, Alive
<1>6. BusyIsOutstanding'
  BY <1>1 DEF IInv, BusyIsOutstanding, Outstanding, Alive
<1>7. QueueIsConsistent'
  <2>1. \A i \in Slots : InQueue(i)' => InQueue(i)
    BY <1>2, <1>3 DEF InQueue, Slots
  <2>2. tail = IF head' + count' < QUEUE_SIZE THEN head' + count'
                                              ELSE head' + count' - QUEUE_SIZE
    BY <1>1, <1>2, <1>3 DEF IInv, QueueIsConsistent, Slots
  <2>3. pc # "kick" /\ (pc \in {"enterQueue", "enqueue"} => count < QUEUE_SIZE)
    BY <1>1 DEF IInv, QueueIsConsistent, InsideIsMasked
  <2> QED
    BY <1>1, <1>2, <2>1, <2>2, <2>3 DEF IInv, QueueIsConsistent
<1>8. DirectIsBarrier'
  BY <1>1 DEF IInv, DirectIsBarrier, Alive
<1> QED
  BY <1>4, <1>5, <1>6, <1>7, <1>8 DEF IInv

LEMMA IrqDispatchKeeps ==
  ASSUME IInv, IrqDispatch
  PROVE  IInv'
<1> USE QueueAssumption DEF IrqDispatch
<1>1. /\ Alive /\ en /\ pc # "kick" /\ hardware_busy /\ ~Outstanding
      /\ pc \notin {"enterDirect", "direct"}
  BY DEF IInv, BusyIsOutstanding, DirectIsBarrier, InsideIsMasked, Alive
<1>2. head \in Slots /\ count \in Nat /\ items[head] \in AnyRequest
  BY DEF IInv, TypeOK
<1>3. count > 0 => Queued(items[head])
  BY <1>1, <1>2 DEF IInv, QueueIsConsistent, InQueue, Slots
<1>4. TypeOK' /\ InsideIsMasked' /\ RequestFitsPath'
  BY <1>2 DEF IInv, TypeOK, InsideIsMasked, RequestFitsPath, HandlerPCs, Alive
<1>5. BusyIsOutstanding' /\ BusyOwnsRegisters'
  BY <1>1, <1>2, <1>3 DEF BusyIsOutstanding, BusyOwnsRegisters, Outstanding
<1>6. QueueIsConsistent'
  <2>1. \A i \in Slots : InQueue(i)' <=> InQueue(i)
    BY DEF InQueue
  <2>2. hardware_busy' <=> count' > 0
    <3>1. CASE count > 0
      <4>1. hardware_busy' = hardware_busy /\ count' = count
        BY <1>2, <3>1
      <4> QED
        BY <1>1, <3>1, <4>1
    <3>2. CASE count = 0
      BY <1>1, <3>2 DEF IInv, TypeOK
    <3> QED
      BY <1>2, <3>1, <3>2
  <2> QED
    BY <1>1, <2>1, <2>2 DEF IInv, QueueIsConsistent, Alive
<1>7. DirectIsBarrier'
  <2>1. ~barrier
    BY <1>1 DEF IInv, DirectIsBarrier
  <2> QED
    BY <1>1, <2>1 DEF DirectIsBarrier
<1> QED
  BY <1>4, <1>5, <1>6, <1>7 DEF IInv

LEMMA ReturnKeeps ==
  ASSUME IInv, IrqReturn \/ OtherIrq
  PROVE  IInv'
<1>1. /\ UNCHANGED <<items, head, tail, count, hardware_busy, comand, running,
                   irq, lost>>
      /\ UNCHANGED <<pc, en, saved, barrier, req, asked, shown, system_panic>>
      /\ hpc' \in {hpc, "none"} /\ halted' \in {halted, FALSE}
      /\ (hpc' = hpc \/ hpc = "return")
  BY DEF IrqReturn, OtherIrq, queue, device
<1>2. /\ Outstanding' <=> Outstanding
      /\ hpc' = "dispatch" <=> hpc = "dispatch"
      /\ hpc' = "advance" <=> hpc = "advance"
      /\ \A i \in Slots : InQueue(i)' <=> InQueue(i)
  BY <1>1 DEF Outstanding, InQueue
<1>3. TypeOK' /\ InsideIsMasked' /\ RequestFitsPath'
  <2>1. hpc' \in HandlerPCs /\ halted' \in BOOLEAN
    BY <1>1 DEF IInv, TypeOK, HandlerPCs
  <2>2. TypeOK'
    BY <1>1, <2>1 DEF IInv, TypeOK
  <2>3. InsideIsMasked'
    BY <1>1 DEF IInv, InsideIsMasked, Alive
  <2>4. RequestFitsPath'
    BY <1>1 DEF IInv, RequestFitsPath
  <2> QED
    BY <2>2, <2>3, <2>4
<1>4. BusyIsOutstanding' /\ BusyOwnsRegisters' /\ DirectIsBarrier'
  BY <1>1, <1>2
  DEF IInv, BusyIsOutstanding, BusyOwnsRegisters, DirectIsBarrier, Alive
<1>5. QueueIsConsistent'
  BY <1>1, <1>2 DEF IInv, QueueIsConsistent, Alive
<1> QED
  BY <1>3, <1>4, <1>5 DEF IInv

\* Once the machine is dead only the types are left to keep.
LEMMA DeathKeeps ==
  ASSUME IInv, FatalException \/ UnhandledIrq
  PROVE  IInv'
<1> USE QueueAssumption DEF queue
<1>1. pc' = "dead"
  BY DEF FatalException, UnhandledIrq
<1>2. CASE FatalException
  <2>1. TypeOK'
    BY <1>2 DEF IInv, TypeOK, FatalException, AnyRequest, PCs, HandlerPCs
  <2> QED
    BY <1>1, <1>2, <2>1
    DEF IInv, InsideIsMasked, RequestFitsPath, BusyIsOutstanding,
        BusyOwnsRegisters, QueueIsConsistent, DirectIsBarrier, Alive,
        FatalException
<1>3. CASE UnhandledIrq
  <2>1. TypeOK'
    <3>1. CASE count >= QUEUE_SIZE /\ UNCHANGED <<queue, comand>>
      BY <1>3, <3>1 DEF IInv, TypeOK, UnhandledIrq, PCs
    <3>2. CASE count < QUEUE_SIZE
      <4>1. /\ head \in Slots /\ tail \in Slots /\ count \in 0 .. 255
            /\ items' = [items EXCEPT ![tail] = AbortMessage]
            /\ tail' = NextSlot(tail) /\ count' = Increment(count)
            /\ hardware_busy' = TRUE /\ head' = head
            /\ comand' \in {comand, items'[head]}
        BY <1>3, <3>2 DEF IInv, TypeOK, UnhandledIrq
      <4>2. items' \in [Slots -> AnyRequest] /\ items'[head] \in AnyRequest
        BY <4>1 DEF IInv, TypeOK, AnyRequest
      <4>3. tail' \in Slots /\ count' \in 0 .. 255
        BY <4>1, NextSlotIs DEF Slots, Increment
      <4> QED
        BY <1>3, <4>1, <4>2, <4>3 DEF IInv, TypeOK, UnhandledIrq, PCs
    <3> QED
      BY <1>3, <3>1, <3>2 DEF UnhandledIrq
  <2> QED
    BY <1>1, <1>3, <2>1
    DEF IInv, InsideIsMasked, RequestFitsPath, BusyIsOutstanding,
        BusyOwnsRegisters, QueueIsConsistent, DirectIsBarrier, Alive,
        UnhandledIrq
<1> QED
  BY <1>2, <1>3

-----------------------------------------------------------------------------
THEOREM StepKeeps == IInv /\ [Next]_vars => IInv'
<1> SUFFICES ASSUME IInv, [Next]_vars PROVE IInv'
  OBVIOUS
<1>1. ASSUME NEW c \in Calls, Call(c) PROVE IInv'
  BY <1>1, CallKeeps
<1>2. CASE Main
  BY <1>2, MoveKeeps, SendDirectKeeps, EnqueueKeeps, KickKeeps DEF Main
<1>3. CASE initTty
  BY <1>3, initTtyKeeps
<1>4. CASE Controller
  BY <1>4, StartKeeps, FinishKeeps DEF Controller
<1>5. CASE TakeIrq \/ LoseIrq \/ Handler \/ OtherIrq
  BY <1>5, TakeIrqKeeps, LoseIrqKeeps, IrqAdvanceKeeps, IrqDispatchKeeps,
     ReturnKeeps
  DEF Handler
<1>6. CASE FatalException \/ UnhandledIrq
  BY <1>6, DeathKeeps
<1>7. CASE UNCHANGED vars
  BY <1>7
  DEF IInv, TypeOK, InsideIsMasked, RequestFitsPath, BusyIsOutstanding,
      BusyOwnsRegisters, QueueIsConsistent, DirectIsBarrier, Outstanding,
      InQueue, Alive, vars, queue, device, cpu
<1> QED
  BY <1>1, <1>2, <1>3, <1>4, <1>5, <1>6, <1>7 DEF Next

THEOREM Inductive == Spec => []IInv
<1> QED
  BY InitEstablishes, StepKeeps, PTL DEF Spec

(***************************************************************************)
(* hardware_busy tells the truth about the terminal (tty.c:71-80, 134-137) *)
(* for every queue size: no completion is answered twice or never.         *)
(***************************************************************************)
THEOREM BusyIsAlwaysOutstanding == Spec => []BusyIsOutstanding
<1>1. IInv => BusyIsOutstanding
  BY DEF IInv
<1> QED
  BY <1>1, Inductive, PTL

(***************************************************************************)
(* The ring's head, tail and count always describe the same requests, and  *)
(* the uint8_t count never wraps (tty.c:72-73, 122-133).                   *)
(***************************************************************************)
THEOREM QueueIsAlwaysConsistent == Spec => []QueueIsConsistent
<1>1. IInv => QueueIsConsistent
  BY DEF IInv
<1> QED
  BY <1>1, Inductive, PTL

(***************************************************************************)
(* A direct request is a barrier (tty.c:110-119), so running initTty again *)
(* loses nothing (tty.c:143-147).                                          *)
(***************************************************************************)
THEOREM DirectIsAlwaysBarrier == Spec => []DirectIsBarrier
<1>1. IInv => DirectIsBarrier
  BY DEF IInv
<1> QED
  BY <1>1, Inductive, PTL

\* Every variable keeps its C or hardware type.
THEOREM TypesAreKept == Spec => []TypeOK
<1>1. IInv => TypeOK
  BY DEF IInv
<1> QED
  BY <1>1, Inductive, PTL

(***************************************************************************)
(* The command register is never overwritten before the controller has     *)
(* read it, except by the panic message (tty.c:75, 103-108, 136).          *)
(***************************************************************************)
THEOREM NothingIsOverwritten == Spec => NeverOverwrites
<1> DEFINE Keeps == comand # NoRequest /\ comand' # comand
                      => comand' \in {NoRequest, PanicMessage}
<1>1. IInv /\ Next => Keeps
  <2> SUFFICES ASSUME IInv, Next, comand # NoRequest, comand' # comand
               PROVE  comand' \in {NoRequest, PanicMessage}
    OBVIOUS
  <2>1. ~IrqDispatch
    <3>1. SUFFICES ASSUME IrqDispatch PROVE FALSE
      OBVIOUS
    <3>2. Alive /\ hardware_busy /\ ~Queued(comand)
      BY <3>1 DEF IInv, IrqDispatch, BusyIsOutstanding, InsideIsMasked,
                  Outstanding, Alive
    <3> QED
      BY <3>2 DEF IInv, BusyOwnsRegisters
  <2> QED
    BY <2>1
    DEF Next, Main, Controller, Handler, Call, WaitIdle, WaitRoom, Halt,
        enterCriticalSection, SendDirect, Enqueue, Kick, exitCriticalSection,
        initTty, Start, Finish, TakeIrq, LoseIrq, IrqAdvance, IrqReturn,
        OtherIrq, FatalException, UnhandledIrq, device
<1>2. IInv /\ [Next]_vars => [Keeps]_vars
  BY <1>1
<1> QED
  BY <1>2, Inductive, PTL DEF Spec, NeverOverwrites

-----------------------------------------------------------------------------
(***************************************************************************)
(* The driver implements DisplayQueue.  Pending is a function of the       *)
(* variables; its parts are written as operators of their values, so that  *)
(* one lemma serves the state before a step and the state after it.        *)
(***************************************************************************)
HeldBy(running_, comand_) ==
  (IF running_ = NoRequest THEN <<>> ELSE <<running_>>)
    \o (IF comand_ = NoRequest THEN <<>> ELSE <<comand_>>)
RingSlice(ring, first, n) ==
  [k \in 1 .. n |-> ring[(first + k - 1) % QUEUE_SIZE]]

Rings == [Slots -> AnyRequest]
PlaceFrom(first, k) ==
  IF first + k < QUEUE_SIZE THEN first + k ELSE first + k - QUEUE_SIZE

LEMMA SizeIs == QUEUE_SIZE \in Nat /\ QUEUE_SIZE >= 1 /\ QUEUE_SIZE <= 255
BY QueueAssumption

\* What a stretch of the ring holds.
LEMMA RingSliceIs ==
  ASSUME NEW ring \in Rings, NEW first \in Slots, NEW n \in 0 .. QUEUE_SIZE
  PROVE  /\ RingSlice(ring, first, n) \in Seq(AnyRequest)
         /\ Len(RingSlice(ring, first, n)) = n
         /\ \A k \in 1 .. n :
              /\ PlaceFrom(first, k - 1) \in Slots
              /\ RingSlice(ring, first, n)[k] = ring[PlaceFrom(first, k - 1)]
<1>1. ASSUME NEW k \in 1 .. n
      PROVE  /\ PlaceFrom(first, k - 1) \in Slots
             /\ (first + k - 1) % QUEUE_SIZE = PlaceFrom(first, k - 1)
             /\ ring[(first + k - 1) % QUEUE_SIZE] \in AnyRequest
  <2>1. PlaceFrom(first, k - 1) \in Slots
    BY SizeIs DEF PlaceFrom, Slots
  <2>2. (first + k - 1) % QUEUE_SIZE = PlaceFrom(first, k - 1)
    <3>1. CASE first + k - 1 < QUEUE_SIZE
      BY <3>1, SizeIs DEF PlaceFrom, Slots
    <3>2. CASE first + k - 1 >= QUEUE_SIZE
      <4> DEFINE r == first + k - 1 - QUEUE_SIZE
      <4>1. r \in 0 .. QUEUE_SIZE - 1 /\ first + k - 1 = r + QUEUE_SIZE
        BY <3>2, SizeIs DEF Slots
      <4>2. (r + QUEUE_SIZE) % QUEUE_SIZE = r
        <5> HIDE DEF r
        <5> QED
          BY <4>1, SizeIs
      <4>3. PlaceFrom(first, k - 1) = r
        BY <3>2, SizeIs DEF PlaceFrom, Slots
      <4> QED
        BY <4>1, <4>2, <4>3
    <3> QED
      BY <3>1, <3>2, SizeIs DEF Slots
  <2> QED
    BY <2>1, <2>2 DEF Rings
<1> QED
  BY <1>1, SizeIs DEF RingSlice

\* A request stored behind the last one lengthens the stretch by it.
LEMMA RingGrows ==
  ASSUME NEW ring \in Rings, NEW first \in Slots, NEW n \in 0 .. QUEUE_SIZE - 1,
         NEW r \in AnyRequest
  PROVE  RingSlice([ring EXCEPT ![PlaceFrom(first, n)] = r], first, n + 1)
           = Append(RingSlice(ring, first, n), r)
<1> DEFINE longer == [ring EXCEPT ![PlaceFrom(first, n)] = r]
           before == RingSlice(ring, first, n)
           after == RingSlice(longer, first, n + 1)
<1>1. longer \in Rings /\ n \in 0 .. QUEUE_SIZE /\ n + 1 \in 0 .. QUEUE_SIZE
  <2>1. longer \in Rings
    BY DEF Rings
  <2>2. n \in 0 .. QUEUE_SIZE /\ n + 1 \in 0 .. QUEUE_SIZE
    BY SizeIs
  <2> QED
    BY <2>1, <2>2
<1>2. /\ before \in Seq(AnyRequest) /\ Len(before) = n
      /\ \A k \in 1 .. n : before[k] = ring[PlaceFrom(first, k - 1)]
      /\ after \in Seq(AnyRequest) /\ Len(after) = n + 1
      /\ \A k \in 1 .. n + 1 : after[k] = longer[PlaceFrom(first, k - 1)]
  BY <1>1, RingSliceIs
<1>3. \A k \in 1 .. n + 1 :
        /\ PlaceFrom(first, k - 1) \in Slots
        /\ PlaceFrom(first, k - 1) = PlaceFrom(first, n) <=> k = n + 1
  BY SizeIs DEF PlaceFrom, Slots
<1>4. ASSUME NEW k \in 1 .. n + 1
      PROVE  after[k] = Append(before, r)[k]
  <2>1. after[k] = longer[PlaceFrom(first, k - 1)]
    BY <1>2
  <2>2. CASE k = n + 1
    <3>1. Append(before, r)[k] = r
      BY <1>2, <2>2, AppendProperties
    <3> QED
      BY <1>3, <2>1, <2>2, <3>1 DEF Rings
  <2>3. CASE k # n + 1
    <3>1. k \in 1 .. n
      BY <2>3, SizeIs
    <3>2. Append(before, r)[k] = before[k]
      BY <1>2, <3>1, AppendProperties
    <3> QED
      BY <1>2, <1>3, <2>1, <2>3, <3>1, <3>2 DEF Rings
  <2> QED
    BY <2>2, <2>3
<1>5. Append(before, r) \in Seq(AnyRequest) /\ Len(Append(before, r)) = n + 1
  BY <1>2, AppendProperties
<1> HIDE DEF before, after
<1>6. after = Append(before, r)
  BY <1>2, <1>4, <1>5, SeqEqual
<1> QED
  BY <1>6 DEF before, after

\* Without its first request the stretch begins one slot later.
LEMMA RingShrinks ==
  ASSUME NEW ring \in Rings, NEW first \in Slots, NEW n \in 1 .. QUEUE_SIZE
  PROVE  /\ RingSlice(ring, NextSlot(first), n - 1) = Tail(RingSlice(ring, first, n))
         /\ Head(RingSlice(ring, first, n)) = ring[first]
         /\ RingSlice(ring, first, n)
              = <<ring[first]>> \o Tail(RingSlice(ring, first, n))
<1> DEFINE before == RingSlice(ring, first, n)
           after == RingSlice(ring, NextSlot(first), n - 1)
<1>1. NextSlot(first) \in Slots
  BY NextSlotIs, SizeIs DEF Slots
<1>2. /\ before \in Seq(AnyRequest) /\ Len(before) = n
      /\ \A k \in 1 .. n : before[k] = ring[PlaceFrom(first, k - 1)]
  <2>1. n \in 0 .. QUEUE_SIZE
    BY SizeIs
  <2> QED
    BY <2>1, RingSliceIs
<1>3. /\ after \in Seq(AnyRequest) /\ Len(after) = n - 1
      /\ \A k \in 1 .. n - 1 : after[k] = ring[PlaceFrom(NextSlot(first), k - 1)]
  <2> PICK m : m = n - 1
    OBVIOUS
  <2> PICK next : next = NextSlot(first)
    OBVIOUS
  <2>1. m \in 0 .. QUEUE_SIZE /\ next \in Slots
    BY <1>1, SizeIs
  <2>2. /\ RingSlice(ring, next, m) \in Seq(AnyRequest) /\ Len(RingSlice(ring, next, m)) = m
        /\ \A k \in 1 .. m : RingSlice(ring, next, m)[k] = ring[PlaceFrom(next, k - 1)]
    BY <2>1, RingSliceIs
  <2> QED
    BY <2>2
<1>4. \A k \in 1 .. n - 1 : PlaceFrom(NextSlot(first), k - 1) = PlaceFrom(first, k)
  BY NextSlotIs, SizeIs DEF PlaceFrom, Slots
<1>5. PlaceFrom(first, 0) = first
  BY SizeIs DEF PlaceFrom, Slots
<1>6. \A k \in 1 .. n - 1 : after[k] = before[k + 1]
  BY <1>2, <1>3, <1>4, SizeIs
<1>7. before[1] = ring[first]
  BY <1>2, <1>5
<1> HIDE DEF before, after
<1>8. after = Tail(before)
  BY <1>2, <1>3, <1>6
<1> QED
  BY <1>2, <1>7, <1>8 DEF before, after

\* A request stored behind a single one.
LEMMA PairIs ==
  ASSUME NEW S, NEW r \in S, NEW c \in S
  PROVE  /\ Append(<<r>>, c) \in Seq(S) /\ Len(Append(<<r>>, c)) = 2
         /\ Head(Append(<<r>>, c)) = r /\ Tail(Append(<<r>>, c)) = <<c>>
<1>1. <<r>> \in Seq(S) /\ Len(<<r>>) = 1 /\ <<r>> # <<>>
  OBVIOUS
<1>2. Append(<<r>>, c) \in Seq(S) /\ Len(Append(<<r>>, c)) = 2
  BY <1>1, AppendProperties
<1>3. Head(<<r>>) = r
  OBVIOUS
<1>4. Tail(<<r>>) = <<>>
  <2>1. Tail(<<r>>) \in Seq(S) /\ Len(Tail(<<r>>)) = 0
    BY <1>1
  <2> QED
    BY <2>1, EmptySeq
<1>5. Append(<<>>, c) = <<c>>
  OBVIOUS
<1>6. /\ Head(Append(<<r>>, c)) = Head(<<r>>)
      /\ Tail(Append(<<r>>, c)) = Append(Tail(<<r>>), c)
  BY <1>1, HeadTailAppend
<1> QED
  BY <1>2, <1>3, <1>4, <1>5, <1>6

\* What the controller holds is one request or two.
LEMMA HeldByIs ==
  ASSUME NEW r \in AnyRequest, NEW c \in AnyRequest
  PROVE  /\ HeldBy(r, c) \in Seq(AnyRequest) /\ Len(HeldBy(r, c)) <= 2
         /\ r # NoRequest => /\ HeldBy(r, c) # <<>>
                             /\ Head(HeldBy(r, c)) = r
                             /\ Tail(HeldBy(r, c)) = HeldBy(NoRequest, c)
         /\ c # NoRequest => HeldBy(r, c) = Append(HeldBy(r, NoRequest), c)
<1>1. CASE r = NoRequest /\ c = NoRequest
  BY <1>1 DEF HeldBy
<1>2. CASE r = NoRequest /\ c # NoRequest
  BY <1>2 DEF HeldBy
<1>3. CASE r # NoRequest /\ c = NoRequest
  BY <1>3 DEF HeldBy
<1>4. CASE r # NoRequest /\ c # NoRequest
  <2>1. /\ HeldBy(r, c) = <<r>> \o <<c>> /\ HeldBy(NoRequest, c) = <<>> \o <<c>>
        /\ HeldBy(r, NoRequest) = <<r>> \o <<>>
    BY <1>4 DEF HeldBy
  <2>2. <<r>> \in Seq(AnyRequest) /\ <<c>> \in Seq(AnyRequest)
    OBVIOUS
  <2>3. <<r>> \o <<c>> = Append(<<r>>, c)
    BY <2>2, AppendIsConcat
  <2>4. /\ Append(<<r>>, c) \in Seq(AnyRequest) /\ Len(Append(<<r>>, c)) = 2
        /\ Head(Append(<<r>>, c)) = r /\ Tail(Append(<<r>>, c)) = <<c>>
    BY PairIs
  <2>5. <<>> \o <<c>> = <<c>> /\ <<r>> \o <<>> = <<r>>
    BY <2>2, ConcatEmptySeq
  <2>6. HeldBy(r, c) = Append(<<r>>, c) /\ HeldBy(NoRequest, c) = <<c>>
        /\ HeldBy(r, NoRequest) = <<r>>
    BY <2>1, <2>3, <2>5
  <2> QED
    BY <1>4, <2>4, <2>6
<1> QED
  BY <1>1, <1>2, <1>3, <1>4

\* No call asks for nothing.
LEMMA RequestIsReal ==
  ASSUME NEW r \in Request
  PROVE  r # NoRequest
<1>1. PICK c \in Calls : r = biosWrite(c)
  BY DEF Request
<1>2. c.kind \in Kinds
  BY CallAssumption
<1> QED
  BY <1>1, <1>2 DEF biosWrite, Option, Kinds, NoRequest

\* Pending by its parts: the ring without the request that is with the hardware.
LEMMA PendingIs ==
  /\ WithHardware = HeldBy(running, comand)
  /\ \A n : Slice(n) = RingSlice(items, head, n)
BY DEF WithHardware, HeldBy, Slice, RingSlice

\* The same in the state after a step.
LEMMA PendingIsAfter ==
  /\ WithHardware' = HeldBy(running', comand')
  /\ Slice(count)' = RingSlice(items', head', count')
BY DEF WithHardware, HeldBy, Slice, RingSlice

\* The parts of the invariant the refinement uses.
LEMMA QueueFacts ==
  ASSUME IInv
  PROVE  /\ items \in Rings /\ head \in Slots /\ tail \in Slots
         /\ comand \in AnyRequest /\ running \in AnyRequest /\ req \in AnyRequest
         /\ count \in Nat
         /\ Alive => count \in 0 .. QUEUE_SIZE /\ tail \in Slots
                     /\ (count < QUEUE_SIZE => tail = PlaceFrom(head, count))
  <1>1. TypeOK /\ (Alive => QueueIsConsistent)
    BY DEF IInv
  <1>2. count \in Nat /\ head \in Slots
    BY <1>1 DEF TypeOK
  <1>3. Alive => count <= QUEUE_SIZE /\ tail = PlaceFrom(head, count)
    BY <1>1 DEF QueueIsConsistent, PlaceFrom
  <1> QED
    BY <1>1, <1>2, <1>3, SizeIs DEF TypeOK, Rings

\* A step that changes nothing of what the callers see.
LEMMA StutterIs ==
  ASSUME UNCHANGED <<Pending, shown, Alive>>
  PROVE  UNCHANGED Display!vars
BY DEF Display!vars

\* Testing, halting, masking and taking interrupts are invisible.
LEMMA QuietRefines ==
  ASSUME IInv,
         \/ \E c \in Calls : Call(c)
         \/ WaitIdle \/ WaitRoom \/ Halt
         \/ enterCriticalSection \/ exitCriticalSection
         \/ TakeIrq \/ IrqReturn \/ OtherIrq
  PROVE  UNCHANGED Display!vars
<1>1. UNCHANGED <<items, head, count, hardware_busy, comand, running, shown>>
  BY DEF Call, WaitIdle, WaitRoom, Halt, enterCriticalSection,
         exitCriticalSection, TakeIrq, IrqReturn, OtherIrq, queue, device
<1>2. hpc' = "dispatch" <=> hpc = "dispatch"
  BY DEF Call, WaitIdle, WaitRoom, Halt, enterCriticalSection,
         exitCriticalSection, TakeIrq, IrqReturn, OtherIrq, queue, device
<1>3. Alive /\ Alive'
  BY DEF Alive, IInv, InsideIsMasked, Call, WaitIdle, WaitRoom, Halt,
         enterCriticalSection, exitCriticalSection, TakeIrq, IrqReturn, OtherIrq
<1>4. UNCHANGED <<WithHardware, Waiting>>
  BY <1>1, <1>2 DEF WithHardware, Waiting, Slice
<1> QED
  BY <1>1, <1>3, <1>4, StutterIs DEF Pending

\* An interrupt the board loses is invisible too, whoever is still alive.
LEMMA LoseIrqRefines ==
  ASSUME LoseIrq
  PROVE  UNCHANGED Display!vars
<1>1. UNCHANGED <<queue, comand, running, cpu, shown>>
  BY DEF LoseIrq
<1>2. UNCHANGED <<Pending, shown, Alive>>
  BY <1>1 DEF queue, cpu, Pending, WithHardware, Waiting, Slice, Alive
<1> QED
  BY <1>2, StutterIs

\* A direct request is asked for when nothing of the queue is waiting.
LEMMA SendDirectRefines ==
  ASSUME IInv, QUEUE_SIZE > 1, SendDirect
  PROVE  Display!Ask(req)
<1>1. /\ Alive /\ Alive' /\ comand = NoRequest /\ comand' = req /\ hpc = "none"
      /\ UNCHANGED <<items, head, count, hardware_busy, hpc, running, shown>>
      /\ req \in Request /\ ~hardware_busy
  BY DEF SendDirect, MainRuns, Alive, queue, IInv, RequestFitsPath, DirectIsBarrier
<1>2. count = 0
  BY <1>1, QueueFacts DEF IInv, QueueIsConsistent, SendDirect
<1>3. Waiting = <<>> /\ Waiting' = <<>>
  BY <1>1, <1>2, PendingIs, PendingIsAfter DEF Waiting, Slice
<1>4. req # NoRequest
  BY <1>1, RequestIsReal
<1>5. Pending = HeldBy(running, NoRequest) /\ Pending' = HeldBy(running, req)
  BY <1>1, <1>3, PendingIs, PendingIsAfter, HeldByIs, QueueFacts DEF Pending
<1>6. Pending' = Append(Pending, req) /\ Len(Pending) <= 1
  BY <1>4, <1>5, QueueFacts DEF HeldBy
<1> QED
  BY <1>1, <1>6, SizeIs DEF Display!Ask

\* A queued request is asked for when it is stored; there is room for it in
\* the promised line, for the queue had room with interrupts off.
LEMMA EnqueueRefines ==
  ASSUME IInv, QUEUE_SIZE > 1, Enqueue
  PROVE  Display!Ask(req)
<1>1. /\ Alive /\ Alive' /\ hpc = "none" /\ pc = "enqueue"
      /\ items' = [items EXCEPT ![tail] = req] /\ count' = Increment(count)
      /\ UNCHANGED <<head, hardware_busy, hpc, running, comand, shown>>
  BY DEF Enqueue, MainRuns, Alive, device
<1>2. /\ req \in Request /\ req \in AnyRequest
      /\ count < QUEUE_SIZE /\ (hardware_busy <=> count > 0)
  BY <1>1 DEF IInv, RequestFitsPath, QueueIsConsistent, AnyRequest
<1>3. /\ count \in 0 .. QUEUE_SIZE - 1 /\ tail = PlaceFrom(head, count)
      /\ items \in Rings /\ head \in Slots
  BY <1>1, <1>2, QueueFacts, SizeIs
<1>4. count' = count + 1
  BY <1>1, <1>3, SizeIs DEF Increment
<1> DEFINE held == HeldBy(running, comand)
           ring == RingSlice(items, head, count)
<1>5. held \in Seq(AnyRequest) /\ Len(held) <= 2
  BY QueueFacts, HeldByIs
<1>6. /\ ring \in Seq(AnyRequest) /\ Len(ring) = count
      /\ RingSlice(items', head', count') = Append(ring, req)
  <2>1. count \in 0 .. QUEUE_SIZE
    BY <1>3, SizeIs
  <2>2. ring \in Seq(AnyRequest) /\ Len(ring) = count
    BY <1>3, <2>1, RingSliceIs
  <2>3. RingSlice(items', head', count') = Append(ring, req)
    BY <1>1, <1>2, <1>3, <1>4, RingGrows
  <2> QED
    BY <2>2, <2>3
<1> HIDE DEF held, ring
<1>7. /\ WithHardware = held /\ WithHardware' = held
      /\ Slice(count) = ring /\ Slice(count)' = Append(ring, req)
  BY <1>1, <1>6, PendingIs, PendingIsAfter DEF held, ring
<1>8. CASE count = 0
  <2>1. ~hardware_busy /\ ring = <<>>
    BY <1>2, <1>6, <1>8
  <2>2. Waiting = <<>> /\ Waiting' = <<req>>
    BY <1>1, <1>7, <2>1 DEF Waiting
  <2>3. Pending = held /\ Pending' = Append(held, req)
    BY <1>1, <1>5, <1>7, <2>2 DEF Pending
  <2> QED
    BY <1>1, <1>2, <1>5, <1>8, <2>3, SizeIs DEF Display!Ask
<1>9. CASE count > 0
  <2>1. hardware_busy /\ ring # <<>>
    BY <1>2, <1>6, <1>9
  <2>2. Waiting = Tail(ring) /\ Waiting' = Tail(Append(ring, req))
    BY <1>1, <1>3, <1>4, <1>7, <1>9, <2>1 DEF Waiting
  <2>3. Tail(Append(ring, req)) = Append(Tail(ring), req)
    BY <1>2, <1>6, <2>1
  <2>4. /\ Tail(ring) \in Seq(AnyRequest) /\ Len(Tail(ring)) = count - 1
    BY <1>6, <2>1, <1>3, SizeIs
  <2>5. held \o Append(Tail(ring), req) = Append(held \o Tail(ring), req)
    BY <1>2, <1>5, <2>4
  <2>6. Pending' = Append(Pending, req) /\ Pending = held \o Tail(ring)
    BY <1>1, <1>7, <2>2, <2>3, <2>5 DEF Pending
  <2>7. Len(Pending) < QUEUE_SIZE + 1
    BY <1>2, <1>3, <1>5, <2>4, <2>6, SizeIs
  <2> QED
    BY <1>1, <2>6, <2>7 DEF Display!Ask
<1> QED
  BY <1>3, <1>8, <1>9, SizeIs

\* The first request of the queue goes from the ring to the hardware.
LEMMA KickRefines ==
  ASSUME IInv, Kick
  PROVE  UNCHANGED Display!vars
<1>1. /\ Alive /\ Alive' /\ hpc = "none" /\ pc = "kick"
      /\ UNCHANGED <<items, head, count, hpc, running, shown>>
  BY DEF Kick, MainRuns, Alive
<1>2. CASE hardware_busy
  BY <1>1, <1>2, StutterIs DEF Kick, Pending, WithHardware, Waiting, Slice
<1>3. CASE ~hardware_busy
  <2>1. count = 1 /\ comand = NoRequest /\ comand' = items[head] /\ hardware_busy'
    BY <1>1, <1>3, QueueFacts DEF IInv, QueueIsConsistent, Kick
  <2>2. /\ items \in Rings /\ head \in Slots /\ 1 \in 1 .. QUEUE_SIZE
        /\ items[head] \in AnyRequest /\ running \in AnyRequest
    BY QueueFacts, SizeIs DEF Rings
  <2>3. items[head] # NoRequest
    BY <1>1, <2>1, <2>2 DEF IInv, QueueIsConsistent, InQueue, Queued, Slots
  <2> DEFINE ring == RingSlice(items, head, 1)
  <2>4. /\ ring \in Seq(AnyRequest) /\ Len(ring) = 1
        /\ ring = <<items[head]>> \o Tail(ring)
    BY <2>2, RingSliceIs, RingShrinks
  <2> HIDE DEF ring
  <2>5. Slice(count) = ring /\ Slice(count)' = ring
    BY <1>1, <2>1, PendingIs, PendingIsAfter DEF ring
  <2>6. Waiting = ring /\ Waiting' = Tail(ring)
    BY <1>1, <1>3, <2>1, <2>5 DEF Waiting
  <2>7. Tail(ring) = <<>> /\ ring = <<items[head]>>
    BY <2>4
  <2>8. /\ WithHardware = HeldBy(running, NoRequest)
        /\ WithHardware' = HeldBy(running, items[head])
    BY <1>1, <2>1, PendingIs, PendingIsAfter
  <2>9. WithHardware' = Append(WithHardware, items[head])
    BY <2>2, <2>3, <2>8, HeldByIs
  <2>10. WithHardware \in Seq(AnyRequest)
    BY <2>2, <2>8, HeldByIs DEF AnyRequest
  <2>11. Pending' = Pending
    BY <1>1, <2>2, <2>6, <2>7, <2>9, <2>10 DEF Pending
  <2> QED
    BY <1>1, <2>11, StutterIs
<1> QED
  BY <1>2, <1>3

\* initTty runs when the queue is empty, and leaves it empty.
LEMMA InitTtyRefines ==
  ASSUME IInv, initTty
  PROVE  UNCHANGED Display!vars
<1>1. /\ Alive /\ Alive' /\ hpc = "none" /\ hpc' = "none" /\ count = 0 /\ count' = 0
      /\ ~hardware_busy /\ ~hardware_busy'
      /\ UNCHANGED <<running, comand, shown>>
  BY DEF initTty, MainRuns, Alive, cpu, device, IInv, DirectIsBarrier
<1>2. Waiting = <<>> /\ Waiting' = <<>>
  BY <1>1 DEF Waiting, Slice
<1>3. Pending' = Pending
  BY <1>1, <1>2 DEF Pending, WithHardware
<1> QED
  BY <1>1, <1>3, StutterIs

\* The controller copies the registers: its request is the first of the line.
LEMMA StartRefines ==
  ASSUME IInv, Start
  PROVE  UNCHANGED Display!vars
<1>1. /\ running = NoRequest /\ running' = comand /\ comand' = NoRequest
      /\ comand # NoRequest
      /\ UNCHANGED <<items, head, count, hardware_busy, hpc, pc, shown>>
  BY DEF Start, queue, cpu
<1>2. WithHardware' = WithHardware
  BY <1>1 DEF WithHardware
<1>3. Pending' = Pending /\ Alive' = Alive
  BY <1>1, <1>2 DEF Pending, Waiting, Slice, Alive
<1> QED
  BY <1>1, <1>3, StutterIs

\* The request drawn is the first of the line.
LEMMA FinishRefines ==
  ASSUME IInv, Finish
  PROVE  Display!Show
<1>1. /\ running # NoRequest /\ running' = NoRequest
      /\ shown' = Append(shown, running)
      /\ UNCHANGED <<items, head, tail, count, hardware_busy, comand, hpc, pc>>
  BY DEF Finish, queue, cpu
<1>2. running \in AnyRequest /\ comand \in AnyRequest /\ NoRequest \in AnyRequest
  BY QueueFacts DEF AnyRequest
<1>3. /\ WithHardware \in Seq(AnyRequest) /\ WithHardware # <<>>
      /\ Head(WithHardware) = running /\ WithHardware' = Tail(WithHardware)
  BY <1>1, <1>2, PendingIs, PendingIsAfter, HeldByIs
<1>4. Alive' = Alive /\ Waiting' = Waiting
  BY <1>1 DEF Alive, Waiting, Slice
<1>5. Alive => Waiting \in Seq(AnyRequest)
  <2> SUFFICES ASSUME Alive PROVE Waiting \in Seq(AnyRequest)
    OBVIOUS
  <2>1. Slice(count) \in Seq(AnyRequest) /\ Len(Slice(count)) = count
    BY QueueFacts, PendingIs, RingSliceIs
  <2> QED
    BY <2>1, QueueFacts DEF Waiting
<1>6. /\ Pending # <<>> /\ Head(Pending) = running /\ Pending' = Tail(Pending)
  <2>1. CASE Alive
    <3>1. WithHardware \o Waiting # <<>>
      BY <1>3, <1>5, <2>1
    <3>2. /\ Head(WithHardware \o Waiting) = Head(WithHardware)
          /\ Tail(WithHardware \o Waiting) = Tail(WithHardware) \o Waiting
      BY <1>3, <1>5, <2>1
    <3> QED
      BY <1>3, <1>4, <2>1, <3>1, <3>2 DEF Pending
  <2>2. CASE ~Alive
    BY <1>3, <1>4, <2>2 DEF Pending
  <2> QED
    BY <2>1, <2>2
<1> QED
  BY <1>1, <1>4, <1>6 DEF Display!Show
\* The handler takes the request that was drawn off the ring.
LEMMA IrqAdvanceRefines ==
  ASSUME IInv, IrqAdvance
  PROVE  UNCHANGED Display!vars
<1>1. /\ hpc = "advance" /\ hpc' = "dispatch" /\ head' = NextSlot(head)
      /\ count' = Decrement(count)
      /\ UNCHANGED <<items, hardware_busy, comand, running, pc, shown>>
  BY DEF IrqAdvance, device
<1>2. Alive /\ Alive' /\ hardware_busy /\ pc # "kick"
  BY <1>1 DEF IInv, BusyIsOutstanding, InsideIsMasked, Outstanding, Alive
<1>3. /\ items \in Rings /\ head \in Slots
      /\ count \in 1 .. QUEUE_SIZE /\ count' = count - 1
  <2>1. count > 0
    BY <1>1, <1>2 DEF IInv, QueueIsConsistent
  <2>2. count \in 1 .. QUEUE_SIZE
    BY <1>2, <2>1, QueueFacts, SizeIs
  <2> QED
    BY <1>1, <2>2, QueueFacts, SizeIs DEF Decrement
<1> DEFINE ring == RingSlice(items, head, count)
<1>4. /\ Slice(count) = ring /\ Slice(count)' = Tail(ring)
  BY <1>1, <1>3, PendingIs, PendingIsAfter, RingShrinks
<1> HIDE DEF ring
<1>5. count # 0
  BY <1>3, SizeIs
<1>6. Waiting = Tail(ring) /\ Waiting' = Tail(ring)
  BY <1>1, <1>2, <1>4, <1>5 DEF Waiting
<1>7. Pending' = Pending
  BY <1>1, <1>2, <1>6 DEF Pending, WithHardware
<1> QED
  BY <1>1, <1>2, <1>7, StutterIs

\* The handler hands the next request of the ring to the hardware.
LEMMA IrqDispatchRefines ==
  ASSUME IInv, IrqDispatch
  PROVE  UNCHANGED Display!vars
<1>1. /\ hpc = "dispatch" /\ hpc' = "return"
      /\ UNCHANGED <<items, head, count, running, pc, shown>>
  BY DEF IrqDispatch
<1>2. Alive /\ Alive' /\ hardware_busy /\ comand = NoRequest
  BY <1>1 DEF IInv, BusyIsOutstanding, BusyOwnsRegisters, InsideIsMasked,
              Outstanding, Alive
<1> DEFINE ring == RingSlice(items, head, count)
<1>3. Slice(count) = ring /\ Slice(count)' = ring
  BY <1>1, PendingIs, PendingIsAfter
<1>4. Waiting = ring
  BY <1>1, <1>3 DEF Waiting
<1>5. CASE count > 0
  <2>1. /\ items \in Rings /\ head \in Slots /\ running \in AnyRequest
        /\ count \in 1 .. QUEUE_SIZE /\ count \in 0 .. QUEUE_SIZE
        /\ items[head] \in AnyRequest
    BY <1>2, <1>5, QueueFacts, SizeIs DEF Rings
  <2>2. comand' = items[head] /\ hardware_busy'
    <3>1. count # 0
      BY <1>5, <2>1, SizeIs
    <3>2. comand' = items[head] /\ hardware_busy' = hardware_busy
      BY <3>1 DEF IrqDispatch
    <3> QED
      BY <1>2, <3>2
  <2>3. items[head] # NoRequest
    BY <1>2, <1>5, <2>1, SizeIs
    DEF IInv, QueueIsConsistent, InQueue, Queued, Slots
  <2>4. /\ ring \in Seq(AnyRequest) /\ Len(ring) = count
        /\ ring = <<items[head]>> \o Tail(ring)
    BY <2>1, RingSliceIs, RingShrinks
  <2> HIDE DEF ring
  <2>5. Tail(ring) \in Seq(AnyRequest)
    BY <1>5, <2>1, <2>4
  <2>6. Waiting' = Tail(ring)
    BY <1>1, <1>3, <1>5, <2>1, <2>2 DEF Waiting
  <2> DEFINE held == HeldBy(running, NoRequest)
  <2>7. /\ WithHardware = held /\ WithHardware' = Append(held, items[head])
        /\ held \in Seq(AnyRequest)
    BY <1>1, <1>2, <2>1, <2>2, <2>3, PendingIs, PendingIsAfter, HeldByIs
    DEF AnyRequest
  <2> HIDE DEF held
  <2>8. Append(held, items[head]) \o Tail(ring)
          = held \o (<<items[head]>> \o Tail(ring))
    BY <2>1, <2>5, <2>7
  <2>9. Pending' = Pending
    BY <1>1, <1>2, <1>4, <2>4, <2>6, <2>7, <2>8 DEF Pending
  <2> QED
    BY <1>1, <1>2, <2>9, StutterIs
<1>6. CASE count = 0
  <2>1. ~hardware_busy' /\ comand' = comand
    BY <1>6 DEF IrqDispatch
  <2>2. Waiting' = ring
    BY <1>3, <2>1 DEF Waiting
  <2>3. Pending' = Pending
    BY <1>1, <1>2, <1>4, <2>1, <2>2 DEF Pending, WithHardware
  <2> QED
    BY <1>1, <1>2, <2>3, StutterIs
<1> QED
  BY <1>5, <1>6, QueueFacts

\* What is waiting is a sequence of requests.
LEMMA WaitingIs ==
  ASSUME IInv, Alive
  PROVE  Waiting \in Seq(AnyRequest)
<1>1. Slice(count) \in Seq(AnyRequest) /\ Len(Slice(count)) = count
  BY QueueFacts, PendingIs, RingSliceIs
<1> QED
  BY <1>1, QueueFacts DEF Waiting

\* The first requests of a line are those before the rest of it.
LEMMA FrontIs ==
  ASSUME NEW S, NEW s \in Seq(S), NEW t \in Seq(S)
  PROVE  /\ Len(s) <= Len(s \o t)
         /\ SubSeq(s \o t, 1, Len(s)) = s
OBVIOUS

\* The panic message replaces everything but the request being drawn.
LEMMA FatalExceptionRefines ==
  ASSUME IInv, FatalException
  PROVE  Display!Panic
<1>1. /\ Alive /\ ~Alive' /\ comand' = PanicMessage
      /\ UNCHANGED <<running, shown>>
  BY DEF FatalException, Alive
<1>2. /\ running \in AnyRequest /\ comand \in AnyRequest
      /\ PanicMessage \in AnyRequest /\ PanicMessage # NoRequest
      /\ Waiting \in Seq(AnyRequest)
  BY <1>1, QueueFacts, WaitingIs DEF AnyRequest, PanicMessage, NoRequest
<1> DEFINE drawn == HeldBy(running, NoRequest)
           rest == HeldBy(NoRequest, comand) \o Waiting
<1>3. /\ drawn \in Seq(AnyRequest) /\ Len(drawn) \in 0 .. 1
      /\ HeldBy(NoRequest, comand) \in Seq(AnyRequest)
      /\ HeldBy(running, comand) = drawn \o HeldBy(NoRequest, comand)
  BY <1>2 DEF HeldBy
<1> HIDE DEF drawn
<1>4. Pending = drawn \o rest /\ rest \in Seq(AnyRequest)
  BY <1>1, <1>2, <1>3, PendingIs, SMTT(30) DEF Pending
<1>5. Pending' = Append(drawn, PanicMessage)
  BY <1>1, <1>2, PendingIs, PendingIsAfter, HeldByIs DEF Pending, drawn
<1> HIDE DEF rest
<1>6. Len(drawn) <= Len(Pending) /\ SubSeq(Pending, 1, Len(drawn)) = drawn
  BY <1>3, <1>4, FrontIs
<1> QED
  BY <1>1, <1>3, <1>5, <1>6 DEF Display!Panic

\* An interrupt without a handler leaves what the hardware holds, and adds its
\* message if the hardware was free.
LEMMA UnhandledIrqRefines ==
  ASSUME IInv, UnhandledIrq
  PROVE  Display!Abort
<1>1. /\ Alive /\ ~Alive' /\ hpc = "none" /\ pc # "kick"
      /\ UNCHANGED <<running, shown>>
  BY DEF UnhandledIrq, Alive, IInv, InsideIsMasked
<1>2. /\ running \in AnyRequest /\ comand \in AnyRequest
      /\ AbortMessage \in AnyRequest /\ AbortMessage # NoRequest
      /\ Waiting \in Seq(AnyRequest)
  BY <1>1, QueueFacts, WaitingIs DEF AnyRequest, AbortMessage, NoRequest
<1> DEFINE held == HeldBy(running, comand)
<1>3. held \in Seq(AnyRequest) /\ Len(held) \in 0 .. 2
  <2>1. held \in Seq(AnyRequest) /\ Len(held) <= 2
    BY <1>2, HeldByIs
  <2>2. Len(held) \in Nat
    BY <2>1, LenProperties
  <2>3. \A n \in Nat : n <= 2 => n \in 0 .. 2
    OBVIOUS
  <2> HIDE DEF held
  <2> QED
    BY <2>1, <2>2, <2>3, Zenon
<1> HIDE DEF held
<1>4. Pending = held \o Waiting
  BY <1>1, PendingIs DEF Pending, held
<1>5. Len(held) <= Len(Pending) /\ SubSeq(Pending, 1, Len(held)) = held
  BY <1>2, <1>3, <1>4, FrontIs
<1>6. CASE UNCHANGED comand
  <2>1. Pending' = held \o <<>>
    BY <1>1, <1>3, <1>6, PendingIsAfter, ConcatEmptySeq DEF Pending, held
  <2> QED
    BY <1>1, <1>3, <1>5, <2>1 DEF Display!Abort
<1>7. CASE comand' # comand
  <2>1. /\ ~hardware_busy /\ comand = NoRequest /\ comand' = items'[head]
        /\ items' = [items EXCEPT ![tail] = AbortMessage]
    BY <1>7 DEF UnhandledIrq
  <2>2. count = 0 /\ tail = head
    BY <1>1, <2>1, QueueFacts, SizeIs DEF IInv, QueueIsConsistent, Slots
  <2>3. comand' = AbortMessage
    BY <2>1, <2>2, QueueFacts DEF Rings
  <2>4. Pending' = Append(held, AbortMessage)
    <3>1. Pending' = HeldBy(running, AbortMessage)
      BY <1>1, <2>3, PendingIsAfter DEF Pending
    <3>2. HeldBy(running, AbortMessage) = Append(HeldBy(running, NoRequest), AbortMessage)
      BY <1>2, HeldByIs
    <3> QED
      BY <2>1, <3>1, <3>2 DEF held
  <2>5. Pending' = held \o <<AbortMessage>>
    BY <1>2, <1>3, <2>4, AppendIsConcat
  <2> QED
    BY <1>1, <1>3, <1>5, <2>5 DEF Display!Abort
<1> QED
  BY <1>6, <1>7

-----------------------------------------------------------------------------
\* Initially nothing is waiting, on the screen or stopped.
LEMMA InitRefines == Init => Display!Init
BY DEF Init, Display!Init, Pending, WithHardware, Waiting, Slice, Alive

\* Every step of the driver is a step of the promised line, or invisible.
LEMMA NextRefines ==
  ASSUME IInv, QUEUE_SIZE > 1, [Next]_vars
  PROVE  [Display!Next]_(Display!vars)
<1>1. CASE \E c \in Calls : Call(c)
  BY <1>1, QuietRefines
<1>2. CASE Main
  <2>1. CASE SendDirect \/ Enqueue
    <3>1. req \in Request
      BY <2>1 DEF IInv, RequestFitsPath, SendDirect, Enqueue
    <3> QED
      BY <2>1, <3>1, SendDirectRefines, EnqueueRefines DEF Display!Next
  <2> QED
    BY <1>2, <2>1, QuietRefines, KickRefines DEF Main
<1>3. CASE initTty
  BY <1>3, InitTtyRefines
<1>4. CASE Controller
  BY <1>4, StartRefines, FinishRefines DEF Controller, Display!Next
<1>5. CASE TakeIrq \/ LoseIrq \/ Handler \/ OtherIrq
  BY <1>5, QuietRefines, LoseIrqRefines, IrqAdvanceRefines, IrqDispatchRefines
  DEF Handler
<1>6. CASE FatalException \/ UnhandledIrq
  BY <1>6, FatalExceptionRefines, UnhandledIrqRefines DEF Display!Next
<1>7. CASE UNCHANGED vars
  <2>1. UNCHANGED <<Pending, shown, Alive>>
    BY <1>7 DEF vars, queue, device, cpu, Pending, WithHardware, Waiting, Slice,
                Alive
  <2> QED
    BY <2>1, StutterIs
<1> QED
  BY <1>1, <1>2, <1>3, <1>4, <1>5, <1>6, <1>7 DEF Next

(***************************************************************************)
(* For every queue of two slots or more and every set of calls, requests   *)
(* are drawn in the order ttyWrite accepted them, each exactly once,       *)
(* across the direct and the queued path (tty.c:100-139), initTty run      *)
(* again, and every placement of the completion interrupt (tty.c:70-81).   *)
(* With a single slot two direct requests, which do not pass through the   *)
(* queue, would be one more than QUEUE_SIZE + 1 leaves room for.           *)
(***************************************************************************)
THEOREM ImplementsPromise ==
  ASSUME QUEUE_SIZE > 1
  PROVE  Spec => ImplementsDisplayQueue
<1>1. IInv /\ [Next]_vars => [Display!Next]_(Display!vars)
  BY NextRefines
<1> QED
  BY <1>1, InitRefines, Inductive, PTL
  DEF Spec, ImplementsDisplayQueue, Display!Spec
=============================================================================
