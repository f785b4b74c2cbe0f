------------------------------ MODULE NvmDriver ------------------------------
(***************************************************************************)
(* The driver of the non-volatile memory (drivers/nvm/nvm.c) and the       *)
(* controller behind it (IO/NV_Memory/NV_Memory.circ), which share a       *)
(* queue of commands and a queue of completions in RAM.                    *)
(*                                                                         *)
(* The caller of NvmAccess, the completion interrupt and the controller    *)
(* interleave.  Devices share nothing but HLT, so there is one of them.    *)
(*                                                                         *)
(* The two sides do not agree on the layout of a word, on the length of    *)
(* the queues, or on what a restart of the BIOS resets.  Each is modelled  *)
(* as it is: the driver by nvm.c, the controller by the circuit.  It is    *)
(* the first device; behind its queues in RAM lie those of the next one.   *)
(***************************************************************************)
EXTENDS Integers, Sequences

CONSTANTS
  NVM_QUEUE_LEN,   \* entries of each of the driver's queues
  DeviceSlots,     \* values of the controller's Head and Tail counters
  MaxCommands,     \* bound on the commands of one behaviour
  MaxResets        \* bound on the times main runs again

ASSUME QueueLengthAssumption == NVM_QUEUE_LEN \in {2, 4, 8, 16, 32, 64, 128}
ASSUME DeviceAssumption == DeviceSlots \in Nat /\ DeviceSlots > NVM_QUEUE_LEN
ASSUME BoundAssumption == MaxCommands \in Nat /\ MaxResets \in Nat

NVM_READ == 0
NVM_WRITE == 1
NVM_ENTRY_EMPTY == -1      \* 0xFFFFFFFF: no ID after the mask
Slots == 0 .. NVM_QUEUE_LEN - 1
nextUnmasked(i) == i + 1
NEXT(i) == (i + 1) % NVM_QUEUE_LEN

VARIABLES
  HEAD_Q, TAIL_Q,                  \* the queues in RAM
  busy, head_index, tail_index,    \* NvmDev
  pc, call,                        \* NvmAccess: its place and its command
  hpc,                             \* nvm_IRQHandler
  irq,                             \* an interrupt is on its way
  dstate, dhead, dtail, fetched,   \* NVM_FSM: state, Head, Tail, the command
  asked, performed, retired,       \* commands given, carried out, retired
  pending,                         \* given since main last ran, not retired
  resets, cut                      \* times main ran again; in mid-command?

queues == <<HEAD_Q, TAIL_Q>>
dev == <<busy, head_index, tail_index>>
device == <<dstate, dhead, dtail, fetched>>
history == <<asked, performed, retired, pending, resets, cut>>
vars == <<queues, dev, pc, call, hpc, irq, device, history>>

-----------------------------------------------------------------------------
(***************************************************************************)
(* Words.  A command carries an option, its index and the transfer, which  *)
(* stands for addr, SLBA and NLBA.                                         *)
(***************************************************************************)
opcode_ID(option, idx) == option * 2^24 + idx
Word(option, idx, transfer) ==
  [opcode_ID |-> opcode_ID(option, idx), transfer |-> transfer]

\* What the controller reads behind the queue: an entry of the next device's,
\* whose transfer is none of this one's.
Beyond ==
  {Word(option, idx, 0) : option \in {NVM_READ, NVM_WRITE}, idx \in Slots}

\* NVM_FSM takes the opcode from bits 7:0, of which it looks at bit 0, and the
\* ID from bits 31:8.
Opcode(w) == w % 2
CommandId(w) == w \div 2^8

\* NVM_DMA writes the ID above the phase tag, the carry of the Tail counter.
PhaseTag == IF dtail = DeviceSlots - 1 THEN 1 ELSE 0
Completion(w) == 2 * CommandId(w) + PhaseTag

CompletesAny(w, i) == w # NVM_ENTRY_EMPTY

\* (done->opcode_ID & NVM_ID_MASK) == tail_index
Completes(w, i) == w # NVM_ENTRY_EMPTY /\ w % 2^24 = i

Init ==
  /\ HEAD_Q = [i \in Slots |-> Word(NVM_READ, 0, 0)]
  /\ TAIL_Q = [i \in Slots |-> NVM_ENTRY_EMPTY]
  /\ busy = FALSE /\ head_index = 0 /\ tail_index = 0
  /\ pc = "idle" /\ call = 0 /\ hpc = "none" /\ irq = FALSE
  /\ dstate = "idle" /\ dhead = 0 /\ dtail = 0 /\ fetched = Word(NVM_READ, 0, 0)
  /\ asked = <<>> /\ performed = <<>> /\ retired = {} /\ pending = <<>>
  /\ resets = 0 /\ cut = FALSE

\* A doorbell write is one pulse; NVM_FSM looks at it only when idle.
RingDoorbell == dstate' = IF dstate = "idle" THEN "fetch" ELSE dstate

-----------------------------------------------------------------------------
(***************************************************************************)
(* NvmAccess: one critical section, left only to sleep on a full queue.    *)
(* Interrupts are off from the call to the return except while asleep:     *)
(* an interrupt waiting at irqOn is only taken after the HLT that follows. *)
(***************************************************************************)
MainRuns == hpc = "none"

NvmAccess(option) ==
  /\ pc = "idle" /\ MainRuns
  /\ Len(asked) < MaxCommands
  /\ call' = option
  /\ pc' = "room"
  /\ UNCHANGED <<queues, dev, hpc, irq, device, history>>

RoomAlways ==
  /\ pc = "room" /\ MainRuns
  /\ pc' = "write"
  /\ UNCHANGED <<queues, dev, call, hpc, irq, device, history>>

\* while (NEXT(head_index) == tail_index) { irqOn(); HLT; irqOff(); }
Room ==
  /\ pc = "room" /\ MainRuns
  /\ pc' = IF NEXT(head_index) = tail_index THEN "asleep" ELSE "write"
  /\ UNCHANGED <<queues, dev, call, hpc, irq, device, history>>

Enqueue ==
  /\ pc = "write" /\ MainRuns
  /\ LET command == [option |-> call, transfer |-> Len(asked) + 1]
     IN  /\ HEAD_Q' = [HEAD_Q EXCEPT ![head_index] =
              Word(call, head_index, command.transfer)]
         /\ asked' = Append(asked, command)
         /\ pending' = Append(pending, command)
  /\ head_index' = NEXT(head_index)
  /\ pc' = "kick"
  /\ UNCHANGED <<TAIL_Q, busy, tail_index, call, hpc, irq, device, performed,
                 retired, resets, cut>>

KickForgetsBusy ==
  /\ pc = "kick" /\ MainRuns
  /\ \/ ~busy /\ RingDoorbell
     \/ busy /\ UNCHANGED dstate
  /\ pc' = "idle"
  /\ UNCHANGED <<queues, dev, call, hpc, irq, dhead, dtail, fetched, history>>

\* if (!busy) { busy = true; doorbell = 1; } exitCriticalSection
Kick ==
  /\ pc = "kick" /\ MainRuns
  /\ \/ ~busy /\ busy' = TRUE /\ RingDoorbell
     \/ busy /\ UNCHANGED <<busy, dstate>>
  /\ pc' = "idle"
  /\ UNCHANGED <<queues, head_index, tail_index, call, hpc, irq, dhead, dtail,
                 fetched, history>>

(***************************************************************************)
(* The shell command reset runs main, and initNvm, again, whatever the     *)
(* controller does.  It resets the driver's side; the counters and the     *)
(* state of NVM_FSM are only cleared by RST.                               *)
(***************************************************************************)
initNvm ==
  /\ pc = "idle" /\ MainRuns
  /\ resets < MaxResets
  /\ busy' = FALSE /\ head_index' = 0 /\ tail_index' = 0
  /\ TAIL_Q' = [i \in Slots |-> NVM_ENTRY_EMPTY]
  /\ pending' = <<>>
  /\ resets' = resets + 1
  /\ cut' = (cut \/ dstate # "idle")
  /\ UNCHANGED <<HEAD_Q, pc, call, hpc, irq, device, asked, performed, retired>>

-----------------------------------------------------------------------------
(***************************************************************************)
(* nvm_IRQHandler, one critical section.                                   *)
(***************************************************************************)
TakeIrq ==
  /\ irq /\ hpc = "none" /\ pc \in {"idle", "asleep"}
  /\ irq' = FALSE
  /\ hpc' = "retire"
  /\ pc' = IF pc = "asleep" THEN "room" ELSE pc
  /\ UNCHANGED <<queues, dev, call, device, history>>

\* The completion it finds is that of the first command in the ring.
RetireFirst ==
  IF pending = <<>> THEN UNCHANGED <<pending, retired>>
  ELSE pending' = Tail(pending) /\ retired' = retired \cup {Head(pending)}

Retire ==
  /\ hpc = "retire"
  /\ \/ /\ Completes(TAIL_Q[tail_index], tail_index)
        /\ TAIL_Q' = [TAIL_Q EXCEPT ![tail_index] = NVM_ENTRY_EMPTY]
        /\ tail_index' = NEXT(tail_index)
        /\ RetireFirst
        /\ hpc' = "next"
     \/ /\ ~Completes(TAIL_Q[tail_index], tail_index)
        /\ hpc' = "none"
        /\ UNCHANGED <<TAIL_Q, tail_index, pending, retired>>
  /\ UNCHANGED <<HEAD_Q, busy, head_index, pc, call, irq, device, asked,
                 performed, resets, cut>>

StartNext ==
  /\ hpc = "next"
  /\ \/ tail_index = head_index /\ busy' = FALSE /\ UNCHANGED dstate
     \/ tail_index # head_index /\ RingDoorbell /\ UNCHANGED busy
  /\ hpc' = "none"
  /\ UNCHANGED <<queues, head_index, tail_index, pc, call, irq, dhead, dtail,
                 fetched, history>>

\* An accepted interrupt may never reach its handler: another one takes its
\* place in the latch, or its bit is cleared by the EOI of another
\* (InterruptPath).
LoseIrq ==
  /\ irq
  /\ irq' = FALSE
  /\ UNCHANGED <<queues, dev, pc, call, hpc, device, history>>

\* The handler may run without a completion behind it (InterruptPath shows a
\* pulse that outlives its request), and another device may end HLT.
SpuriousIrq ==
  /\ ~irq
  /\ irq' = TRUE
  /\ UNCHANGED <<queues, dev, pc, call, hpc, device, history>>

OtherIrq ==
  /\ pc = "asleep" /\ hpc = "none"
  /\ pc' = "room"
  /\ UNCHANGED <<queues, dev, call, hpc, irq, device, history>>

-----------------------------------------------------------------------------
(***************************************************************************)
(* NVM_FSM: Fetch, Decode, Exec, Finish.  Head advances with the fetch,    *)
(* Tail with the completion, and the interrupt follows the completion.     *)
(* Past the driver's queue the controller reads and writes the memory that *)
(* follows it.                                                             *)
(***************************************************************************)
Fetch ==
  /\ dstate = "fetch"
  /\ \/ dhead \in Slots /\ fetched' = HEAD_Q[dhead]
     \/ dhead \notin Slots /\ fetched' \in Beyond
  /\ dhead' = (dhead + 1) % DeviceSlots
  /\ dstate' = "exec"
  /\ UNCHANGED <<queues, dev, pc, call, hpc, irq, dtail, history>>

Exec ==
  /\ dstate = "exec"
  /\ performed' = Append(performed,
       [option |-> Opcode(fetched.opcode_ID), transfer |-> fetched.transfer])
  /\ dstate' = "finish"
  /\ UNCHANGED <<queues, dev, pc, call, hpc, irq, dhead, dtail, fetched, asked,
                 retired, pending, resets, cut>>

Finish ==
  /\ dstate = "finish"
  /\ \/ /\ dtail \in Slots
        /\ TAIL_Q' = [TAIL_Q EXCEPT ![dtail] = Completion(fetched.opcode_ID)]
     \/ dtail \notin Slots /\ UNCHANGED TAIL_Q
  /\ dtail' = (dtail + 1) % DeviceSlots
  /\ irq' = TRUE
  /\ dstate' = "idle"
  /\ UNCHANGED <<HEAD_Q, dev, pc, call, hpc, dhead, fetched, history>>

-----------------------------------------------------------------------------
Main == Room \/ Enqueue \/ Kick
nvm_IRQHandler == Retire \/ StartNext
NVM_FSM == Fetch \/ Exec \/ Finish

Next ==
  \/ \E option \in {NVM_READ, NVM_WRITE} : NvmAccess(option)
  \/ Main \/ initNvm
  \/ TakeIrq \/ nvm_IRQHandler
  \/ LoseIrq \/ SpuriousIrq \/ OtherIrq
  \/ NVM_FSM

Spec == Init /\ [][Next]_vars

-----------------------------------------------------------------------------
Commands == [option: {NVM_READ, NVM_WRITE}, transfer: 0 .. MaxCommands]
EntryWords ==
  {Word(option, idx, transfer) : option \in {NVM_READ, NVM_WRITE},
                                 idx \in Slots, transfer \in 0 .. MaxCommands}

\* Every variable keeps its type, and a completion word in the driver's queue
\* is one of a read or of a write, with the tag clear.
TypeOK ==
  /\ HEAD_Q \in [Slots -> EntryWords] /\ fetched \in EntryWords
  /\ TAIL_Q \in [Slots -> {NVM_ENTRY_EMPTY, 0, 2^17}]
  /\ busy \in BOOLEAN /\ head_index \in Slots /\ tail_index \in Slots
  /\ pc \in {"idle", "room", "write", "kick", "asleep"}
  /\ call \in {NVM_READ, NVM_WRITE}
  /\ hpc \in {"none", "retire", "next"} /\ irq \in BOOLEAN
  /\ dstate \in {"idle", "fetch", "exec", "finish"}
  /\ dhead \in 0 .. DeviceSlots - 1 /\ dtail \in 0 .. DeviceSlots - 1
  /\ asked \in Seq(Commands) /\ performed \in Seq(Commands)
  /\ retired \subseteq Commands /\ pending \in Seq(Commands)
  /\ resets \in 0 .. MaxResets /\ cut \in BOOLEAN

(***************************************************************************)
(* busy covers the controller: while it is clear the controller is idle    *)
(* and nothing is in the ring, but for the command about to be rung for;   *)
(* and the controller is idle whenever the driver rings, so no doorbell is *)
(* lost (nvm.c:73-76, 151-154).  Not after a reset in the middle of a      *)
(* command.                                                                *)
(***************************************************************************)
OneOutstanding ==
  ~cut =>
    /\ ~busy => /\ dstate = "idle"
                /\ Len(pending) = IF pc = "kick" THEN 1 ELSE 0
    /\ hpc = "next" => busy /\ dstate = "idle"

(***************************************************************************)
(* The ring between the driver's indices holds exactly the commands given  *)
(* since main last ran and not retired, in order and as they were given,   *)
(* however full it is and whatever interrupts come or are lost             *)
(* (nvm.c:68-71, 135-149).  Without the condition it fails: the completion *)
(* of a command cut by a reset retires from the new ring.                  *)
(***************************************************************************)
RingHolds ==
  /\ Len(pending) < NVM_QUEUE_LEN
  /\ (head_index - tail_index) % NVM_QUEUE_LEN = Len(pending)
  /\ \A k \in 1 .. Len(pending) :
       LET slot == (tail_index + k - 1) % NVM_QUEUE_LEN
       IN  HEAD_Q[slot] = Word(pending[k].option, slot, pending[k].transfer)

RingHoldsPending == ~cut => RingHolds

(***************************************************************************)
(* A command that is retired has been carried out as it was given,         *)
(* wherever the controller's counters stand and whatever interrupts arrive *)
(* without a completion (nvm.c:68-69).                                     *)
(***************************************************************************)
RetiredAsAsked ==
  ~cut => \A command \in retired :
            \E k \in 1 .. Len(performed) : performed[k] = command

(***************************************************************************)
(* Between two resets at most one command is retired: of the words the     *)
(* controller writes, only that of a read matches an index, and only 0     *)
(* (nvm.c:69).  Behind it the driver waits for good: a full ring stays     *)
(* full and busy set, and the caller of nvm.c:133 sleeps on.               *)
(***************************************************************************)
AtMostOneRetires == tail_index \in {0, 1}

(***************************************************************************)
(* The controller carries out the commands that were given, as they were   *)
(* given, in order and each once, the option in the field nvm.c:30 names.  *)
(***************************************************************************)
PerformedAsAsked ==
  /\ Len(performed) <= Len(asked)
  /\ \A k \in 1 .. Len(performed) : performed[k] = asked[k]
=============================================================================
