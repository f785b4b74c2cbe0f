------------------------------ MODULE TtyDriver ------------------------------
(***************************************************************************)
(* The BIOS display driver (drivers/tty/tty.c) together with the terminal  *)
(* controller it drives (IO/TTY/TTY_Controller.circ) on one processor.     *)
(*                                                                         *)
(* Three activities interleave: the main program inside ttyWrite, the      *)
(* completion interrupt tty_IRQHandler, and the controller.  The processor *)
(* runs the main program only while no handler is active; EN_INTS decides  *)
(* whether a completion is taken; HLT stops the main program until an      *)
(* interrupt is taken.  The interrupt path itself (LAPIC, Exception_       *)
(* Generator, mainHandler) is the subject of InterruptPath; here it is one *)
(* pending bit, which is what MSI_Sys keeps for the terminal.              *)
(***************************************************************************)
EXTENDS Integers, Sequences

CONSTANTS
  Calls,        \* calls the program makes: [kind, text, cant]
  QUEUE_SIZE,   \* slots of display_queue
  MaxCalls,     \* bound on the calls of one behaviour
  NoText        \* the null pointer biosClear passes

Kinds == {"string", "char", "backspace", "clear"}

ASSUME QueueAssumption == QUEUE_SIZE \in 1 .. 255
ASSUME CallAssumption ==
  /\ MaxCalls \in Nat
  /\ \A c \in Calls : /\ c.kind \in Kinds
                      /\ c.cant \in Nat

VARIABLES
  items, head, tail, count,     \* display_queue
  hardware_busy, system_panic,
  comand,       \* the request in the BAR0 registers, not started yet
  running,      \* the request the controller is carrying out
  irq,          \* a completion interrupt is pending
  lost,         \* one was accepted by the LAPIC and never handled
  pc, req,      \* the main program: its place in ttyWrite and the argument
  en,           \* EN_INTS of EFLAGS (SR8)
  saved,        \* flags_guardadas
  halted,       \* HLT executed, no interrupt taken since
  hpc,          \* tty_IRQHandler: its place, "none" when not active
  barrier,      \* the last call was carried out directly
  asked, shown  \* requests handed over so far, requests drawn so far

queue == <<items, head, tail, count, hardware_busy>>
device == <<comand, running, irq, lost>>
cpu == <<pc, req, en, saved, halted, hpc, barrier>>
vars == <<queue, device, cpu, system_panic, asked, shown>>

(***************************************************************************)
(* Requests.  biosWrite picks the command from the first two characters of *)
(* the string: 4 for a string, 2 for a single backspace, 1 for any other   *)
(* single character, whose default length is 1.                            *)
(***************************************************************************)
Option == [string |-> 4, char |-> 1, backspace |-> 2, clear |-> 3]

biosWrite(c) ==
  [data |-> IF c.kind = "clear" THEN NoText ELSE c.text,
   option |-> Option[c.kind],
   length |-> IF c.kind = "clear" THEN 0
              ELSE IF c.kind # "string" /\ c.cant = 0 THEN 1 ELSE c.cant]

Request == {biosWrite(c) : c \in Calls}
PanicMessage == [data |-> "panic", option |-> 4, length |-> 0]
AbortMessage == [data |-> "abort", option |-> 4, length |-> 0]
NoRequest == [data |-> "none", option |-> 0, length |-> 0]
AnyRequest == Request \cup {PanicMessage, AbortMessage, NoRequest}

\* Every request other than clear (option 3) that is a block (option 4) or
\* longer than one character is queued and completed by an interrupt.
requiresIrqAlways(r) == r.option # 3
tty_requires_irq(r) ==
  r.option \div 4 > 0 \/ (r.option # 3 /\ r.length > 1)

\* The controller raises its interrupt when Busy falls, except for a clear and
\* for a write or delete whose counter stands at one.
raisesIrq(r) == r.option = 4 \/ (r.option \in {1, 2} /\ r.length # 1)

Slots == 0 .. QUEUE_SIZE - 1
nextSlotPastEnd(i) == IF i < QUEUE_SIZE THEN i + 1 ELSE 0
NextSlot(i) == (i + 1) % QUEUE_SIZE
Increment(n) == (n + 1) % 256      \* uint8_t
Decrement(n) == (n - 1) % 256

Init ==
  /\ items = [i \in Slots |-> NoRequest]
  /\ head = 0 /\ tail = 0 /\ count = 0
  /\ hardware_busy = FALSE /\ system_panic = FALSE
  /\ comand = NoRequest /\ running = NoRequest /\ irq = FALSE /\ lost = FALSE
  /\ pc = "idle" /\ req = NoRequest
  /\ en = TRUE /\ saved = TRUE /\ halted = FALSE
  /\ hpc = "none" /\ barrier = FALSE
  /\ asked = <<>> /\ shown = <<>>

-----------------------------------------------------------------------------
(***************************************************************************)
(* The main program.  ttyWrite is split where an interrupt can fall: each  *)
(* test of the queue, each HLT, the entry to and exit from the critical    *)
(* section, and the two writes inside it.                                  *)
(***************************************************************************)
MainRuns == hpc = "none" /\ ~halted

Call(c) ==
  /\ pc = "idle" /\ MainRuns
  /\ Len(asked) < MaxCalls
  /\ req' = biosWrite(c)
  /\ pc' = IF tty_requires_irq(req') THEN "waitRoom" ELSE "waitIdle"
  /\ UNCHANGED <<queue, device, system_panic, en, saved, halted, hpc, barrier,
                 asked, shown>>

\* while (hardware_busy) HLT;
WaitIdle ==
  /\ pc = "waitIdle" /\ MainRuns
  /\ pc' = IF hardware_busy THEN "hltIdle" ELSE "enterDirect"
  /\ UNCHANGED <<queue, device, system_panic, req, en, saved, halted, hpc,
                 barrier, asked, shown>>

\* while (display_queue.count >= QUEUE_SIZE) HLT;
WaitRoomOffByOne ==
  /\ pc = "waitRoom" /\ MainRuns
  /\ pc' = IF count > QUEUE_SIZE THEN "hltRoom" ELSE "enterQueue"
  /\ UNCHANGED <<queue, device, system_panic, req, en, saved, halted, hpc,
                 barrier, asked, shown>>

WaitRoom ==
  /\ pc = "waitRoom" /\ MainRuns
  /\ pc' = IF count >= QUEUE_SIZE THEN "hltRoom" ELSE "enterQueue"
  /\ UNCHANGED <<queue, device, system_panic, req, en, saved, halted, hpc,
                 barrier, asked, shown>>

Halt ==
  /\ pc \in {"hltIdle", "hltRoom"} /\ MainRuns
  /\ halted' = TRUE
  /\ pc' = IF pc = "hltIdle" THEN "waitIdle" ELSE "waitRoom"
  /\ UNCHANGED <<queue, device, system_panic, req, en, saved, hpc, barrier,
                 asked, shown>>

enterCriticalSection ==
  /\ pc \in {"enterDirect", "enterQueue"} /\ MainRuns
  /\ saved' = en
  /\ en' = FALSE
  /\ pc' = IF pc = "enterDirect" THEN "direct" ELSE "enqueue"
  /\ UNCHANGED <<queue, device, system_panic, req, halted, hpc, barrier, asked,
                 shown>>

(***************************************************************************)
(* tty_execute_request writes the registers; the last write, to comand,    *)
(* hands the request over.  The controller copies the registers into its   *)
(* own on the next clock when idle and needs three clocks for a direct     *)
(* request, far less than the processor needs from one call to the next,   *)
(* so the registers are free again (comand = NoRequest) at the main        *)
(* program's next write.                                                   *)
(***************************************************************************)
SendDirect ==
  /\ pc = "direct" /\ MainRuns
  /\ comand = NoRequest
  /\ comand' = req
  /\ asked' = Append(asked, req)
  /\ barrier' = TRUE
  /\ pc' = "exit"
  /\ UNCHANGED <<queue, running, irq, lost, system_panic, req, en, saved,
                 halted, hpc, shown>>

EnqueueAtHead ==
  /\ pc = "enqueue" /\ MainRuns
  /\ items' = [items EXCEPT ![head] = req]
  /\ tail' = NextSlot(tail)
  /\ count' = Increment(count)
  /\ asked' = Append(asked, req)
  /\ barrier' = FALSE
  /\ pc' = "kick"
  /\ UNCHANGED <<head, hardware_busy, device, system_panic, req, en, saved,
                 halted, hpc, shown>>

Enqueue ==
  /\ pc = "enqueue" /\ MainRuns
  /\ items' = [items EXCEPT ![tail] = req]
  /\ tail' = NextSlot(tail)
  /\ count' = Increment(count)
  /\ asked' = Append(asked, req)
  /\ barrier' = FALSE
  /\ pc' = "kick"
  /\ UNCHANGED <<head, hardware_busy, device, system_panic, req, en, saved,
                 halted, hpc, shown>>

\* if (!hardware_busy) { hardware_busy = true; tty_execute_request(head) }
KickAlways ==
  /\ pc = "kick" /\ MainRuns
  /\ hardware_busy' = TRUE
  /\ comand = NoRequest
  /\ comand' = items[head]
  /\ pc' = "exit"
  /\ UNCHANGED <<items, head, tail, count, running, irq, lost, system_panic,
                 req, en, saved, halted, hpc, barrier, asked, shown>>

KickForgetsBusy ==
  /\ pc = "kick" /\ MainRuns
  /\ \/ /\ ~hardware_busy
        /\ UNCHANGED hardware_busy
        /\ comand = NoRequest
        /\ comand' = items[head]
     \/ hardware_busy /\ UNCHANGED <<hardware_busy, comand>>
  /\ pc' = "exit"
  /\ UNCHANGED <<items, head, tail, count, running, irq, lost, system_panic,
                 req, en, saved, halted, hpc, barrier, asked, shown>>

Kick ==
  /\ pc = "kick" /\ MainRuns
  /\ \/ /\ ~hardware_busy
        /\ hardware_busy' = TRUE
        /\ comand = NoRequest
        /\ comand' = items[head]
     \/ hardware_busy /\ UNCHANGED <<hardware_busy, comand>>
  /\ pc' = "exit"
  /\ UNCHANGED <<items, head, tail, count, running, irq, lost, system_panic,
                 req, en, saved, halted, hpc, barrier, asked, shown>>

exitCriticalSection ==
  /\ pc = "exit" /\ MainRuns
  /\ en' = saved
  /\ pc' = "idle"
  /\ UNCHANGED <<queue, device, system_panic, req, saved, halted, hpc, barrier,
                 asked, shown>>

(***************************************************************************)
(* The shell command reset re-enters main, whose displaySearch runs        *)
(* initTty again.  It follows readInput, whose last call writes the        *)
(* newline directly (keyboard.c:127): that is the guard.                   *)
(***************************************************************************)
initTty ==
  /\ pc = "idle" /\ MainRuns
  /\ barrier
  /\ head' = 0 /\ tail' = 0 /\ count' = 0
  /\ hardware_busy' = FALSE
  /\ UNCHANGED <<items, device, cpu, system_panic, asked, shown>>

-----------------------------------------------------------------------------
(***************************************************************************)
(* The controller.                                                         *)
(***************************************************************************)
Start ==
  /\ running = NoRequest /\ comand # NoRequest
  /\ running' = comand
  /\ comand' = NoRequest          \* Clean_Regs
  /\ UNCHANGED <<queue, irq, lost, cpu, system_panic, asked, shown>>

Finish ==
  /\ running # NoRequest
  /\ shown' = Append(shown, running)
  /\ running' = NoRequest
  /\ irq' = (irq \/ raisesIrq(running))
  /\ UNCHANGED <<queue, comand, lost, cpu, system_panic, asked>>

-----------------------------------------------------------------------------
(***************************************************************************)
(* The completion interrupt.  Vector 127 is the highest of the LAPIC and   *)
(* stays in service until the EOI of mainHandler, so the handler is never  *)
(* re-entered.  EN_INTS is saved in PREV_INTS on entry and restored by     *)
(* SRT, so it reads the same before and after; nothing but a fatal         *)
(* exception looks at it in between.                                       *)
(***************************************************************************)
TakeIrq ==
  /\ irq /\ en /\ hpc = "none" /\ pc # "dead"
  /\ irq' = FALSE
  /\ halted' = FALSE
  /\ hpc' = "advance"
  /\ UNCHANGED <<queue, comand, running, lost, pc, req, en, saved, barrier,
                 system_panic, asked, shown>>

IrqAdvance ==
  /\ hpc = "advance"
  /\ head' = NextSlot(head)
  /\ count' = Decrement(count)
  /\ hpc' = "dispatch"
  /\ UNCHANGED <<items, tail, hardware_busy, device, pc, req, en, saved,
                 halted, barrier, system_panic, asked, shown>>

IrqDispatchDropsNext ==
  /\ hpc = "dispatch"
  /\ hardware_busy' = FALSE
  /\ hpc' = "return"
  /\ UNCHANGED <<items, head, tail, count, device, pc, req, en, saved,
                 halted, barrier, system_panic, asked, shown>>

IrqDispatch ==
  /\ hpc = "dispatch"
  /\ \/ count > 0 /\ comand' = items[head] /\ UNCHANGED hardware_busy
     \/ count = 0 /\ hardware_busy' = FALSE /\ UNCHANGED comand
  /\ hpc' = "return"
  /\ UNCHANGED <<items, head, tail, count, running, irq, lost, pc, req, en,
                 saved, halted, barrier, system_panic, asked, shown>>

IrqReturn ==
  /\ hpc = "return"
  /\ hpc' = "none"
  /\ UNCHANGED <<queue, device, pc, req, en, saved, halted, barrier,
                 system_panic, asked, shown>>

(***************************************************************************)
(* The board may lose a pending interrupt: accepted into ISR it is ended   *)
(* by the EOI of another handler, displaced at the one write port, or left *)
(* in ISR behind the one latch.  InterruptPath has these steps; here they  *)
(* are one, in which the handler does not run.                             *)
(***************************************************************************)
LoseIrq ==
  /\ irq
  /\ irq' = FALSE
  /\ lost' = TRUE
  /\ UNCHANGED <<queue, comand, running, cpu, system_panic, asked, shown>>

\* Another device's interrupt ends HLT too; its handler leaves this driver be.
OtherIrq ==
  /\ halted /\ en /\ pc # "dead"
  /\ halted' = FALSE
  /\ UNCHANGED <<queue, device, pc, req, en, saved, hpc, barrier, system_panic,
                 asked, shown>>

-----------------------------------------------------------------------------
(***************************************************************************)
(* Fatal ends.  Both leave the processor in HLT with interrupts off.       *)
(***************************************************************************)

\* pageFault, alignamentFault, generalProtectionFault, invalidOpCode and
\* doubleFault: any instruction may fault, in the program or in the handler.
\* system_panic sends the message straight to the registers.
FatalExceptionQueued ==
  /\ pc # "dead" /\ ~halted
  /\ system_panic' = TRUE
  /\ IF hardware_busy THEN UNCHANGED comand ELSE comand' = PanicMessage
  /\ pc' = "dead" /\ en' = FALSE /\ halted' = TRUE /\ hpc' = "none"
  /\ UNCHANGED <<queue, running, irq, lost, req, saved, barrier, asked, shown>>

FatalException ==
  /\ pc # "dead" /\ ~halted
  /\ system_panic' = TRUE
  /\ comand' = PanicMessage
  /\ pc' = "dead" /\ en' = FALSE /\ halted' = TRUE /\ hpc' = "none"
  /\ UNCHANGED <<queue, running, irq, lost, req, saved, barrier, asked, shown>>

\* defaultIRQHandler: no panic flag, so its message takes the ordinary path of
\* ttyWrite with interrupts off; a full queue halts it before it is stored, a
\* busy terminal leaves it in the queue for good.
UnhandledIrq ==
  /\ pc # "dead" /\ en /\ hpc = "none"
  /\ \/ count >= QUEUE_SIZE /\ UNCHANGED <<queue, comand>>
     \/ /\ count < QUEUE_SIZE
        /\ items' = [items EXCEPT ![tail] = AbortMessage]
        /\ tail' = NextSlot(tail)
        /\ count' = Increment(count)
        /\ hardware_busy' = TRUE
        /\ \/ ~hardware_busy /\ comand = NoRequest /\ comand' = items'[head]
           \/ hardware_busy /\ UNCHANGED comand
        /\ UNCHANGED head
  /\ pc' = "dead" /\ en' = FALSE /\ halted' = TRUE
  /\ UNCHANGED <<running, irq, lost, req, saved, hpc, barrier, system_panic,
                 asked, shown>>

-----------------------------------------------------------------------------
Main ==
  \/ WaitIdle \/ WaitRoom \/ Halt
  \/ enterCriticalSection \/ SendDirect \/ Enqueue \/ Kick
  \/ exitCriticalSection
Handler == IrqAdvance \/ IrqDispatch \/ IrqReturn
Controller == Start \/ Finish

Next ==
  \/ \E c \in Calls : Call(c)
  \/ Main
  \/ initTty
  \/ Controller
  \/ TakeIrq \/ LoseIrq
  \/ Handler
  \/ OtherIrq
  \/ FatalException
  \/ UnhandledIrq

Spec == Init /\ [][Next]_vars

(***************************************************************************)
(* The processor and the controller are clocked, so whoever can move does. *)
(* The caller may stop calling, exceptions need not happen and no other    *)
(* device is obliged to interrupt.  An interrupt that stays pending is     *)
(* taken: one that the board never delivers is a LoseIrq.                  *)
(***************************************************************************)
Fairness ==
  /\ WF_vars(Main)
  /\ WF_vars(Start)
  /\ WF_vars(Finish)
  /\ WF_vars(TakeIrq)
  /\ WF_vars(Handler)

FairSpec == Spec /\ Fairness

-----------------------------------------------------------------------------
(***************************************************************************)
(* Invariants.                                                             *)
(***************************************************************************)
PCs == {"idle", "waitRoom", "hltRoom", "waitIdle", "hltIdle", "enterDirect",
        "direct", "enterQueue", "enqueue", "kick", "exit", "dead"}
HandlerPCs == {"none", "advance", "dispatch", "return"}

\* Every variable keeps its C or hardware type.
TypeOK ==
  /\ items \in [Slots -> AnyRequest]
  /\ head \in Slots /\ tail \in Slots /\ count \in 0 .. 255
  /\ hardware_busy \in BOOLEAN /\ system_panic \in BOOLEAN
  /\ comand \in AnyRequest /\ running \in AnyRequest
  /\ irq \in BOOLEAN /\ lost \in BOOLEAN
  /\ pc \in PCs /\ req \in AnyRequest
  /\ en \in BOOLEAN /\ saved \in BOOLEAN /\ halted \in BOOLEAN
  /\ hpc \in HandlerPCs /\ barrier \in BOOLEAN
  /\ asked \in Seq(Request)
  /\ shown \in Seq(AnyRequest)

Alive == pc # "dead"

\* The request is one the driver keeps in its queue until the interrupt.
Queued(r) == r # NoRequest /\ tty_requires_irq(r)

\* The head of the queue is with the hardware, or its completion is.
Outstanding ==
  Queued(comand) \/ Queued(running) \/ irq \/ lost \/ hpc = "advance"

(***************************************************************************)
(* hardware_busy says exactly that one request of the queue is with the    *)
(* hardware: sent and not started, being drawn, completed and pending, its *)
(* completion lost, or taken by the handler, and never in two of these     *)
(* places (tty.c:71-80, 134-137).  Otherwise a completion would be         *)
(* answered twice, or never though the board delivered it.                 *)
(***************************************************************************)
BusyIsOutstanding ==
  Alive =>
    /\ hardware_busy <=> Outstanding \/ hpc = "dispatch"
    /\ Queued(comand) => ~Queued(running) /\ ~irq /\ ~lost /\ hpc # "advance"
    /\ Queued(running) => ~irq /\ ~lost /\ hpc # "advance"
    /\ irq => ~lost /\ hpc # "advance"
    /\ lost => hpc # "advance"
    /\ hpc = "dispatch" => ~Outstanding

\* The slots from head on that hold the count waiting requests.
InQueue(i) ==
  IF head + count <= QUEUE_SIZE
    THEN head <= i /\ i < head + count
    ELSE head <= i \/ i < head + count - QUEUE_SIZE

(***************************************************************************)
(* head, tail and count describe one and the same stretch of the ring; no  *)
(* completion ever finds the queue empty (count is a uint8_t and would     *)
(* wrap to 255, tty.c:73), and room tested with interrupts on is still     *)
(* there in the critical section (tty.c:122-133).                          *)
(***************************************************************************)
QueueIsConsistent ==
  Alive =>
    /\ count <= QUEUE_SIZE
    /\ tail = IF head + count < QUEUE_SIZE THEN head + count
                                          ELSE head + count - QUEUE_SIZE
    /\ \A i \in Slots : InQueue(i) => Queued(items[i])
    /\ hpc # "dispatch" /\ pc # "kick" => (hardware_busy <=> count > 0)
    /\ pc = "kick" => count > 0 /\ (hardware_busy <=> count > 1)
    /\ pc \in {"enterQueue", "enqueue"} => count < QUEUE_SIZE

(***************************************************************************)
(* A direct request goes out only when nothing of the queue is unfinished, *)
(* and the queue stays empty until the next queued call: a direct write is *)
(* a barrier, which is what makes initTty harmless when the shell runs     *)
(* reset (tty.c:110-119, 143-147, shell.c:84).                             *)
(***************************************************************************)
DirectIsBarrier ==
  /\ pc \in {"enterDirect", "direct"} => ~hardware_busy /\ hpc # "dispatch"
  /\ Alive /\ barrier => count = 0 /\ ~hardware_busy /\ ~Outstanding

(***************************************************************************)
(* No write to the command register destroys a request the controller has  *)
(* not started, other than the panic message (tty.c:75, 136).              *)
(***************************************************************************)
NeverOverwrites ==
  [][comand # NoRequest /\ comand' # comand
       => comand' \in {NoRequest, PanicMessage}]_vars

-----------------------------------------------------------------------------
(***************************************************************************)
(* The driver implements DisplayQueue.  What is pending is what the        *)
(* controller holds followed by the queue; the head of the queue counts    *)
(* once, wherever it is.                                                   *)
(***************************************************************************)
Slice(n) == [k \in 1 .. n |-> items[(head + k - 1) % QUEUE_SIZE]]
WithHardware == (IF running = NoRequest THEN <<>> ELSE <<running>>)
             \o (IF comand = NoRequest THEN <<>> ELSE <<comand>>)
Waiting == IF hardware_busy /\ hpc # "dispatch"
             THEN IF count = 0 THEN <<>> ELSE Tail(Slice(count))
             ELSE Slice(count)
Pending == IF Alive THEN WithHardware \o Waiting ELSE WithHardware

Display == INSTANCE DisplayQueue WITH
  Capacity <- QUEUE_SIZE + 1, pending <- Pending, screen <- shown,
  stopped <- ~Alive

(***************************************************************************)
(* Requests are drawn in the order of the calls, each exactly once, across *)
(* both paths of ttyWrite and every placement of the interrupt.            *)
(***************************************************************************)
ImplementsDisplayQueue == Display!Spec

(***************************************************************************)
(* Liveness.                                                               *)
(***************************************************************************)

\* Every request handed over, directly or to the queue, is drawn, unless the
\* machine stops or the board loses an interrupt: the driver itself leaves no
\* completion unanswered and its queue drains (tty.c:71-80, 134-137).
AcceptedIsShown ==
  \A n \in 1 .. MaxCalls :
    Alive /\ Len(asked) >= n ~> Len(shown) >= n \/ ~Alive \/ lost

\* The message of an exception reaches the screen whatever the terminal and
\* the queue were doing (tty.c:101-108).
PanicIsShown ==
  system_panic ~> Len(shown) > 0 /\ shown[Len(shown)] = PanicMessage

\* A call that waits is served without help from other devices, unless the
\* board loses the terminal's interrupt.
\* (tty.c:98: "Envia peticiones de impresion/control al TTY, usando envio
\* directo o encolamiento con IRQ segun corresponda".)
CallIsServed ==
  pc \in {"waitIdle", "waitRoom"} ~> pc \in {"idle", "dead"} \/ lost
=============================================================================
