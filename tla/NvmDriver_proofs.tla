--------------------------- MODULE NvmDriver_proofs ---------------------------
(***************************************************************************)
(* For every length of the queues, every larger number of slots of the     *)
(* controller, and any number of commands and resets: the ring of the      *)
(* driver and what it may say of the controller.                           *)
(*                                                                         *)
(* The controller's counters never come back to where the driver's stand,  *)
(* so nothing can be said of most commands it carries out.  What can be    *)
(* said rests on slot 0: a completion the driver recognises is the word 0  *)
(* in TAIL_Q[0], written when both counters stood at 0, for the command    *)
(* that was first in the ring.                                             *)
(***************************************************************************)
EXTENDS NvmDriver, TLAPS

\* What the caller knows at each place of NvmAccess.
CallerKnows ==
  /\ Len(asked) <= MaxCommands
  /\ pc \in {"room", "write", "asleep"} => Len(asked) < MaxCommands
  /\ pc \in {"write", "kick"} => hpc = "none"

\* Head is one ahead of Tail while a command is in work.
CountersAgree ==
  dhead = IF dstate \in {"exec", "finish"} THEN (dtail + 1) % DeviceSlots ELSE dtail

Steady == TypeOK /\ AtMostOneRetires /\ CallerKnows /\ CountersAgree

\* The caller has found room for one more.
RoomFound == pc = "write" => Len(pending) < NVM_QUEUE_LEN - 1

\* A command is with the controller only while the ring holds one.
WorkIsPending == dstate # "idle" => busy /\ pending # <<>>

\* What the controller carries out of the word it has fetched.
Work == [option |-> Opcode(fetched.opcode_ID), transfer |-> fetched.transfer]
Done(command) == \E k \in 1 .. Len(performed) : performed[k] = command

\* With every counter at slot 0, the command in work is the first in the ring.
FirstInWork ==
  dstate \in {"exec", "finish"} =>
    /\ dtail = 0 /\ tail_index = 0 =>
         fetched = Word(pending[1].option, 0, pending[1].transfer)
    /\ dstate = "finish" => Done(Work)

\* A completion the driver will recognise is that of the first in the ring.
Waiting == tail_index = 0 /\ TAIL_Q[0] = 0
WaitingIsDone ==
  Waiting => /\ busy /\ dstate = "idle" /\ hpc # "next"
             /\ pending # <<>> /\ Done(pending[1])

RetiredAreDone == \A command \in retired : Done(command)

Uncut ==
  /\ RingHolds /\ RoomFound
  /\ ~busy => dstate = "idle" /\ Len(pending) = IF pc = "kick" THEN 1 ELSE 0
  /\ hpc = "next" => busy /\ dstate = "idle"
  /\ WorkIsPending /\ FirstInWork /\ WaitingIsDone /\ RetiredAreDone

IInv == Steady /\ (~cut => Uncut)

-----------------------------------------------------------------------------
(***************************************************************************)
(* Numbers.                                                                *)
(***************************************************************************)
LEMMA LengthIs ==
  /\ NVM_QUEUE_LEN \in Nat /\ NVM_QUEUE_LEN >= 2 /\ NVM_QUEUE_LEN <= 128
  /\ DeviceSlots \in Nat /\ DeviceSlots > NVM_QUEUE_LEN
  /\ MaxCommands \in Nat /\ MaxResets \in Nat
BY QueueLengthAssumption, DeviceAssumption, BoundAssumption

\* (i + 1) % NVM_QUEUE_LEN goes back to slot 0 after the last slot.
LEMMA NextIs ==
  ASSUME NEW i \in Slots
  PROVE  /\ NEXT(i) = IF i + 1 = NVM_QUEUE_LEN THEN 0 ELSE i + 1
         /\ NEXT(i) \in Slots
BY QueueLengthAssumption DEF NEXT, Slots

\* A distance shorter than the ring is its own remainder, from either side.
LEMMA RemainderIs ==
  ASSUME NEW d \in 0 .. NVM_QUEUE_LEN - 1
  PROVE  /\ d % NVM_QUEUE_LEN = d
         /\ (d - NVM_QUEUE_LEN) % NVM_QUEUE_LEN = d
         /\ (d + NVM_QUEUE_LEN) % NVM_QUEUE_LEN = d
BY QueueLengthAssumption

\* The same of the controller's counters.
LEMMA CounterStays ==
  ASSUME NEW c \in 0 .. DeviceSlots - 1
  PROVE  (c + 1) % DeviceSlots \in 0 .. DeviceSlots - 1
BY LengthIs

\* What the controller makes of a word of the driver: the parity of the slot for
\* an opcode, and the option for an ID.
LEMMA WordIs ==
  ASSUME NEW o \in {NVM_READ, NVM_WRITE}, NEW i \in Slots,
         NEW t \in 0 .. MaxCommands
  PROVE  /\ Word(o, i, t) \in EntryWords
         /\ Word(o, i, t).transfer = t
         /\ Opcode(Word(o, i, t).opcode_ID) \in {0, 1}
         /\ i = 0 => Opcode(Word(o, i, t).opcode_ID) = 0
         /\ CommandId(Word(o, i, t).opcode_ID) = o * 65536
<1>1. 2^24 = 16777216 /\ 2^8 = 256
  OBVIOUS
<1>2. o \in {0, 1} /\ i \in 0 .. 127
  BY LengthIs DEF NVM_READ, NVM_WRITE, Slots
<1>3. Word(o, i, t).opcode_ID = o * 16777216 + i /\ Word(o, i, t).transfer = t
  BY <1>1 DEF Word, opcode_ID
<1>4. CASE o = 0
  BY <1>1, <1>2, <1>3, <1>4 DEF Opcode, CommandId, EntryWords
<1>5. CASE o = 1
  BY <1>1, <1>2, <1>3, <1>5 DEF Opcode, CommandId, EntryWords
<1> QED
  BY <1>2, <1>4, <1>5

\* The completion words that reach the driver's queue, and the one of them it
\* recognises.
LEMMA CompletionIs ==
  ASSUME NEW o \in {NVM_READ, NVM_WRITE}, NEW i \in Slots,
         NEW t \in 0 .. MaxCommands, dtail \in Slots
  PROVE  /\ Completion(Word(o, i, t).opcode_ID) \in {0, 2^17}
         /\ Completion(Word(o, i, t).opcode_ID) = 0 => o = NVM_READ
<1>1. 2^17 = 131072
  OBVIOUS
<1>2. PhaseTag = 0
  BY LengthIs DEF PhaseTag, Slots
<1>3. CommandId(Word(o, i, t).opcode_ID) = o * 65536
  BY WordIs
<1>4. o \in {0, 1} /\ o * 65536 \in Nat
  BY DEF NVM_READ, NVM_WRITE
<1>5. Completion(Word(o, i, t).opcode_ID) = 2 * (o * 65536)
  BY <1>2, <1>3, <1>4 DEF Completion
<1> QED
  BY <1>1, <1>4, <1>5 DEF NVM_READ

LEMMA RecognisedIs ==
  ASSUME TypeOK, AtMostOneRetires, Completes(TAIL_Q[tail_index], tail_index)
  PROVE  tail_index = 0 /\ TAIL_Q[0] = 0 /\ NEXT(tail_index) = 1
<1>1. 2^17 = 131072 /\ 2^24 = 16777216
  OBVIOUS
<1>2. tail_index \in Slots /\ TAIL_Q[tail_index] \in {NVM_ENTRY_EMPTY, 0, 2^17}
  BY DEF TypeOK
<1>3. TAIL_Q[tail_index] = 0 \/ TAIL_Q[tail_index] = 131072
  BY <1>1, <1>2 DEF Completes
<1>4. tail_index = 0 \/ tail_index = 1
  BY DEF AtMostOneRetires
<1>5. tail_index = 0 /\ TAIL_Q[0] = 0
  BY <1>1, <1>3, <1>4 DEF Completes
<1> QED
  BY <1>5, <1>2, NextIs, LengthIs

-----------------------------------------------------------------------------
LEMMA InitEstablishes ==
  ASSUME Init
  PROVE  IInv
<1>1. NVM_READ \in {NVM_READ, NVM_WRITE} /\ 0 \in Slots /\ 0 \in 0 .. MaxCommands
  BY LengthIs DEF Slots
<1>2. Word(NVM_READ, 0, 0) \in EntryWords
  BY <1>1, WordIs
<1>3. TypeOK
  BY <1>1, <1>2, LengthIs DEF Init, TypeOK, Slots, NVM_READ
<1>4. Steady
  BY <1>3, LengthIs DEF Init, Steady, AtMostOneRetires, CallerKnows, CountersAgree
<1>5. RingHolds
  BY LengthIs, RemainderIs DEF Init, RingHolds
<1>6. Uncut
  BY <1>1, <1>5, LengthIs
  DEF Init, Uncut, RoomFound, WorkIsPending, FirstInWork, WaitingIsDone, Waiting,
      RetiredAreDone, NVM_ENTRY_EMPTY
<1> QED
  BY <1>4, <1>6 DEF IInv

(***************************************************************************)
(* Types, the caller's places and the counters, whether or not a command   *)
(* was cut.                                                                *)
(***************************************************************************)
LEMMA SteadyStays ==
  ASSUME Steady, [Next]_vars
  PROVE  Steady'
<1>0. TypeOK /\ AtMostOneRetires /\ CallerKnows /\ CountersAgree
  BY DEF Steady
<1>1. CASE \/ \E option \in {NVM_READ, NVM_WRITE} : NvmAccess(option)
           \/ Room \/ TakeIrq \/ LoseIrq \/ SpuriousIrq \/ OtherIrq \/ UNCHANGED vars
  <2>1. UNCHANGED <<queues, dev, device, history>>
    BY <1>1 DEF NvmAccess, Room, TakeIrq, LoseIrq, SpuriousIrq, OtherIrq, dev, vars
  <2>2. TypeOK'
    <3>1. /\ pc' \in {"idle", "room", "write", "kick", "asleep"}
          /\ call' \in {NVM_READ, NVM_WRITE}
          /\ hpc' \in {"none", "retire", "next"} /\ irq' \in BOOLEAN
      BY <1>0, <1>1
      DEF TypeOK, NvmAccess, Room, TakeIrq, LoseIrq, SpuriousIrq, OtherIrq, vars
    <3>2. /\ UNCHANGED <<HEAD_Q, TAIL_Q, busy, head_index, tail_index>>
          /\ UNCHANGED <<dstate, dhead, dtail, fetched>>
          /\ UNCHANGED <<asked, performed, retired, pending, resets, cut>>
      BY <2>1 DEF queues, dev, device, history
    <3> QED
      BY <1>0, <3>1, <3>2 DEF TypeOK
  <2>3. CallerKnows'
    BY <1>0, <1>1, <2>1
    DEF CallerKnows, history, NvmAccess, Room, TakeIrq, LoseIrq, SpuriousIrq,
        OtherIrq, MainRuns, vars
  <2> QED
    BY <1>0, <2>1, <2>2, <2>3 DEF Steady, AtMostOneRetires, CountersAgree, dev, device
<1>2. CASE Enqueue
  <2> DEFINE command == [option |-> call, transfer |-> Len(asked) + 1]
  <2>1. /\ Len(asked) \in Nat /\ Len(asked) < MaxCommands
        /\ head_index \in Slots /\ call \in {NVM_READ, NVM_WRITE}
        /\ hpc = "none" /\ hpc' = "none" /\ pc' = "kick"
    BY <1>0, <1>2 DEF Enqueue, CallerKnows, TypeOK, MainRuns
  <2>2. command \in Commands /\ command.transfer \in 0 .. MaxCommands
    BY <2>1, LengthIs DEF Commands
  <2>3. Word(call, head_index, command.transfer) \in EntryWords
    BY <2>1, <2>2, WordIs
  <2>4. HEAD_Q' \in [Slots -> EntryWords]
    BY <1>0, <1>2, <2>1, <2>3 DEF Enqueue, TypeOK
  <2>5. asked' \in Seq(Commands) /\ Len(asked') = Len(asked) + 1
    BY <1>0, <1>2, <2>2 DEF Enqueue, TypeOK
  <2>6. pending' \in Seq(Commands)
    BY <1>0, <1>2, <2>2 DEF Enqueue, TypeOK
  <2>7. head_index' \in Slots
    BY <1>2, <2>1, NextIs DEF Enqueue
  <2>8. TypeOK'
    BY <1>0, <1>2, <2>1, <2>4, <2>5, <2>6, <2>7 DEF Enqueue, TypeOK, device
  <2> QED
    BY <1>0, <1>2, <2>1, <2>5, <2>8, LengthIs
    DEF Enqueue, Steady, AtMostOneRetires, CallerKnows, CountersAgree, device
<1>3. CASE Kick
  BY <1>0, <1>3
  DEF Kick, RingDoorbell, Steady, TypeOK, AtMostOneRetires, CallerKnows,
      CountersAgree, queues, history
<1>4. CASE initNvm
  <2>1. resets' \in 0 .. MaxResets /\ cut' \in BOOLEAN /\ pending' \in Seq(Commands)
    BY <1>0, <1>4, LengthIs DEF initNvm, TypeOK
  <2>2. 0 \in Slots
    BY LengthIs DEF Slots
  <2>3. TypeOK'
    BY <1>0, <1>4, <2>1, <2>2 DEF initNvm, TypeOK, device
  <2> QED
    BY <1>0, <1>4, <2>3
    DEF initNvm, Steady, AtMostOneRetires, CallerKnows, CountersAgree, device
<1>5. CASE Retire
  <2>1. CASE Completes(TAIL_Q[tail_index], tail_index)
    <3>1. tail_index' = 1 /\ tail_index' \in Slots
      BY <1>0, <1>5, <2>1, RecognisedIs, LengthIs DEF Retire, Slots
    <3>2. TAIL_Q' \in [Slots -> {NVM_ENTRY_EMPTY, 0, 2^17}]
      BY <1>0, <1>5, <2>1 DEF Retire, TypeOK
    <3>3. pending' \in Seq(Commands) /\ retired' \subseteq Commands
      <4>1. CASE pending = <<>>
        BY <1>0, <1>5, <2>1, <4>1 DEF Retire, RetireFirst, TypeOK
      <4>2. CASE pending # <<>>
        <5>1. Head(pending) \in Commands /\ Tail(pending) \in Seq(Commands)
          BY <1>0, <4>2 DEF TypeOK
        <5> QED
          BY <1>0, <1>5, <2>1, <4>2, <5>1 DEF Retire, RetireFirst, TypeOK
      <4> QED
        BY <4>1, <4>2
    <3>4. TypeOK'
      BY <1>0, <1>5, <2>1, <3>1, <3>2, <3>3 DEF Retire, TypeOK, device
    <3> QED
      BY <1>0, <1>5, <2>1, <3>1, <3>4
      DEF Retire, Steady, AtMostOneRetires, CallerKnows, CountersAgree, device
  <2>2. CASE ~Completes(TAIL_Q[tail_index], tail_index)
    BY <1>0, <1>5, <2>2
    DEF Retire, Steady, TypeOK, AtMostOneRetires, CallerKnows, CountersAgree, device
  <2> QED
    BY <2>1, <2>2
<1>6. CASE StartNext
  BY <1>0, <1>6
  DEF StartNext, RingDoorbell, Steady, TypeOK, AtMostOneRetires, CallerKnows,
      CountersAgree, queues, history
<1>7. CASE Fetch
  <2>1. fetched' \in EntryWords
    <3>1. \A w \in Beyond : w \in EntryWords
      <4>1. 0 \in 0 .. MaxCommands
        BY LengthIs
      <4> QED
        BY <4>1, WordIs DEF Beyond
    <3> QED
      BY <1>0, <1>7, <3>1 DEF Fetch, TypeOK
  <2>2. dhead = dtail /\ dhead' = (dtail + 1) % DeviceSlots
    BY <1>0, <1>7 DEF Fetch, CountersAgree
  <2>3. TypeOK'
    BY <1>0, <1>7, <2>1, <2>2, CounterStays DEF Fetch, TypeOK, queues, dev, history
  <2> QED
    BY <1>0, <1>7, <2>2, <2>3
    DEF Fetch, Steady, AtMostOneRetires, CallerKnows, CountersAgree, dev, history
<1>8. CASE Exec
  <2>1. Work \in Commands
    <3>1. PICK o \in {NVM_READ, NVM_WRITE}, i \in Slots, t \in 0 .. MaxCommands :
            fetched = Word(o, i, t)
      BY <1>0 DEF TypeOK, EntryWords
    <3> QED
      BY <3>1, WordIs DEF Work, Commands, NVM_READ, NVM_WRITE
  <2>2. performed' \in Seq(Commands)
    BY <1>0, <1>8, <2>1 DEF Exec, Work, TypeOK
  <2>3. TypeOK'
    BY <1>0, <1>8, <2>2 DEF Exec, TypeOK, queues, dev
  <2> QED
    BY <1>0, <1>8, <2>3
    DEF Exec, Steady, AtMostOneRetires, CallerKnows, CountersAgree, dev
<1>9. CASE Finish
  <2>1. TAIL_Q' \in [Slots -> {NVM_ENTRY_EMPTY, 0, 2^17}]
    <3>1. PICK o \in {NVM_READ, NVM_WRITE}, i \in Slots, t \in 0 .. MaxCommands :
            fetched = Word(o, i, t)
      BY <1>0 DEF TypeOK, EntryWords
    <3>2. dtail \in Slots => Completion(fetched.opcode_ID) \in {0, 2^17}
      BY <3>1, CompletionIs
    <3> QED
      BY <1>0, <1>9, <3>2 DEF Finish, TypeOK
  <2>2. /\ dtail' = (dtail + 1) % DeviceSlots /\ dhead' = dhead
        /\ dhead = (dtail + 1) % DeviceSlots
    BY <1>0, <1>9 DEF Finish, CountersAgree
  <2>3. TypeOK'
    BY <1>0, <1>9, <2>1, <2>2, CounterStays DEF Finish, TypeOK, dev, history
  <2> QED
    BY <1>0, <1>9, <2>2, <2>3
    DEF Finish, Steady, AtMostOneRetires, CallerKnows, CountersAgree, dev, history
<1> QED
  BY <1>1, <1>2, <1>3, <1>4, <1>5, <1>6, <1>7, <1>8, <1>9
  DEF Next, Main, nvm_IRQHandler, NVM_FSM

-----------------------------------------------------------------------------
(***************************************************************************)
(* The ring.                                                               *)
(***************************************************************************)
SlotOf(k) == (tail_index + k - 1) % NVM_QUEUE_LEN

LEMMA SlotIs ==
  ASSUME tail_index \in Slots, NEW k \in 1 .. NVM_QUEUE_LEN
  PROVE  /\ SlotOf(k) = IF tail_index + k - 1 < NVM_QUEUE_LEN
                           THEN tail_index + k - 1
                           ELSE tail_index + k - 1 - NVM_QUEUE_LEN
         /\ SlotOf(k) \in Slots
<1> DEFINE d == tail_index + k - 1
<1>1. d \in Nat /\ tail_index \in Nat /\ tail_index < NVM_QUEUE_LEN
  BY LengthIs DEF Slots
<1>2. CASE d < NVM_QUEUE_LEN
  BY <1>1, <1>2, LengthIs, RemainderIs DEF SlotOf, Slots
<1>3. CASE d >= NVM_QUEUE_LEN
  <2>1. d - NVM_QUEUE_LEN \in 0 .. NVM_QUEUE_LEN - 1
    BY <1>1, <1>3, LengthIs
  <2>2. ((d - NVM_QUEUE_LEN) + NVM_QUEUE_LEN) % NVM_QUEUE_LEN = d - NVM_QUEUE_LEN
    BY <2>1, RemainderIs
  <2>3. (d - NVM_QUEUE_LEN) + NVM_QUEUE_LEN = d
    BY <1>1, LengthIs
  <2>4. d % NVM_QUEUE_LEN = d - NVM_QUEUE_LEN
    BY <2>2, <2>3
  <2> QED
    BY <1>1, <1>3, <2>1, <2>4, LengthIs DEF SlotOf, Slots
<1> QED
  BY <1>1, <1>2, <1>3, LengthIs

\* Different places are different slots, and the first is the tail.
LEMMA SlotsDiffer ==
  ASSUME tail_index \in Slots, NEW j \in 1 .. NVM_QUEUE_LEN,
         NEW k \in 1 .. NVM_QUEUE_LEN
  PROVE  SlotOf(1) = tail_index /\ (SlotOf(j) = SlotOf(k) => j = k)
<1>1. 1 \in 1 .. NVM_QUEUE_LEN /\ tail_index \in Nat /\ tail_index < NVM_QUEUE_LEN
  BY LengthIs DEF Slots
<1> QED
  BY <1>1, SlotIs, LengthIs

\* When the tail moves on, everything is one place nearer.
LEMMA SlotMoves ==
  ASSUME tail_index \in Slots, tail_index' = NEXT(tail_index),
         NEW k \in 1 .. NVM_QUEUE_LEN - 1
  PROVE  SlotOf(k)' = SlotOf(k + 1)
<1>1. tail_index' \in Slots /\ k \in 1 .. NVM_QUEUE_LEN /\ k + 1 \in 1 .. NVM_QUEUE_LEN
  BY NextIs, LengthIs
<1>2. tail_index' = IF tail_index + 1 = NVM_QUEUE_LEN THEN 0 ELSE tail_index + 1
  BY NextIs
<1>3. SlotOf(k)' = IF tail_index' + k - 1 < NVM_QUEUE_LEN
                     THEN tail_index' + k - 1
                     ELSE tail_index' + k - 1 - NVM_QUEUE_LEN
  <2>1. \A t \in Slots : (t + k - 1) % NVM_QUEUE_LEN =
          IF t + k - 1 < NVM_QUEUE_LEN THEN t + k - 1 ELSE t + k - 1 - NVM_QUEUE_LEN
    <3> SUFFICES ASSUME NEW t \in Slots
                 PROVE  (t + k - 1) % NVM_QUEUE_LEN =
                          IF t + k - 1 < NVM_QUEUE_LEN THEN t + k - 1
                                                      ELSE t + k - 1 - NVM_QUEUE_LEN
      OBVIOUS
    <3>1. t \in Nat /\ t < NVM_QUEUE_LEN
      BY LengthIs DEF Slots
    <3>2. CASE t + k - 1 < NVM_QUEUE_LEN
      BY <3>1, <3>2, LengthIs, RemainderIs
    <3>3. CASE t + k - 1 >= NVM_QUEUE_LEN
      <4>1. t + k - 1 - NVM_QUEUE_LEN \in 0 .. NVM_QUEUE_LEN - 1
        BY <3>1, <3>3, LengthIs
      <4>2. (t + k - 1 - NVM_QUEUE_LEN) + NVM_QUEUE_LEN = t + k - 1
        BY <3>1, LengthIs
      <4> QED
        BY <3>1, <3>3, <4>1, <4>2, RemainderIs, LengthIs
    <3> QED
      BY <3>1, <3>2, <3>3, LengthIs
  <2> QED
    BY <1>1, <2>1 DEF SlotOf
<1>4. tail_index \in Nat /\ tail_index < NVM_QUEUE_LEN
  BY LengthIs DEF Slots
<1> QED
  BY <1>1, <1>2, <1>3, <1>4, SlotIs, LengthIs

Entries(ring) ==
  \A k \in 1 .. Len(ring) :
    HEAD_Q[SlotOf(k)] = Word(ring[k].option, SlotOf(k), ring[k].transfer)

RingPlaces ==
  /\ Len(pending) < NVM_QUEUE_LEN
  /\ head_index = SlotOf(Len(pending) + 1)
  /\ Entries(pending)

\* The head is the place behind the last command.
LEMMA RingIs ==
  ASSUME TypeOK
  PROVE  RingHolds <=> RingPlaces
<1>1. /\ Len(pending) \in Nat /\ head_index \in Slots /\ tail_index \in Slots
      /\ head_index \in Nat /\ head_index < NVM_QUEUE_LEN
      /\ tail_index \in Nat /\ tail_index < NVM_QUEUE_LEN
  BY LengthIs DEF TypeOK, Slots
<1>2. RingHolds <=> /\ Len(pending) < NVM_QUEUE_LEN
                    /\ (head_index - tail_index) % NVM_QUEUE_LEN = Len(pending)
                    /\ Entries(pending)
  BY DEF RingHolds, Entries, SlotOf
<1>3. (head_index - tail_index) % NVM_QUEUE_LEN =
        IF head_index >= tail_index THEN head_index - tail_index
                                    ELSE head_index - tail_index + NVM_QUEUE_LEN
  <2>1. CASE head_index >= tail_index
    BY <1>1, <2>1, RemainderIs, LengthIs
  <2>2. CASE head_index < tail_index
    <3>1. head_index - tail_index + NVM_QUEUE_LEN \in 0 .. NVM_QUEUE_LEN - 1
      BY <1>1, <2>2, LengthIs
    <3>2. (head_index - tail_index + NVM_QUEUE_LEN) - NVM_QUEUE_LEN
            = head_index - tail_index
      BY <1>1, LengthIs
    <3> QED
      BY <1>1, <2>2, <3>1, <3>2, RemainderIs
  <2> QED
    BY <1>1, <2>1, <2>2
<1>4. ASSUME Len(pending) < NVM_QUEUE_LEN
      PROVE  (head_index - tail_index) % NVM_QUEUE_LEN = Len(pending)
               <=> head_index = SlotOf(Len(pending) + 1)
  <2>1. Len(pending) + 1 \in 1 .. NVM_QUEUE_LEN
    BY <1>1, <1>4, LengthIs
  <2>2. SlotOf(Len(pending) + 1) =
          IF tail_index + Len(pending) < NVM_QUEUE_LEN
            THEN tail_index + Len(pending)
            ELSE tail_index + Len(pending) - NVM_QUEUE_LEN
    BY <1>1, <2>1, SlotIs, LengthIs
  <2> QED
    BY <1>1, <1>3, <1>4, <2>2, LengthIs
<1> QED
  BY <1>2, <1>4 DEF RingPlaces

LEMMA RingIsNext == (TypeOK => (RingHolds <=> RingPlaces))'
<1>1. TypeOK => (RingHolds <=> RingPlaces)
  BY RingIs
<1> QED
  BY <1>1, PTL

-----------------------------------------------------------------------------
(***************************************************************************)
(* While no command was cut.                                               *)
(***************************************************************************)

\* Steps that only move the caller, the handler or the interrupt.
LEMMA MoveKeeps ==
  ASSUME Steady, Uncut,
         \/ \E option \in {NVM_READ, NVM_WRITE} : NvmAccess(option)
         \/ Room \/ TakeIrq \/ LoseIrq \/ SpuriousIrq \/ OtherIrq \/ UNCHANGED vars
  PROVE  Uncut'
<1>1. UNCHANGED <<queues, dev, device, history>>
  BY DEF NvmAccess, Room, TakeIrq, LoseIrq, SpuriousIrq, OtherIrq, dev, vars
<1>2. /\ UNCHANGED <<HEAD_Q, TAIL_Q, busy, head_index, tail_index>>
      /\ UNCHANGED <<dstate, dhead, dtail, fetched, performed, retired, pending>>
  BY <1>1 DEF queues, dev, device, history
<1>3. (pc' = "kick" <=> pc = "kick") /\ (hpc' = "next" <=> hpc = "next")
  BY DEF NvmAccess, Room, TakeIrq, LoseIrq, SpuriousIrq, OtherIrq, vars
<1>4. RingHolds'
  BY <1>2 DEF Uncut, RingHolds
<1>5. RoomFound'
  <2>1. CASE Room /\ pc' = "write"
    <3>1. TypeOK /\ RingHolds /\ NEXT(head_index) # tail_index
      BY <2>1 DEF Steady, Uncut, Room
    <3>2. /\ Len(pending) \in Nat /\ Len(pending) < NVM_QUEUE_LEN
          /\ head_index = SlotOf(Len(pending) + 1)
          /\ tail_index \in Slots
      BY <3>1, RingIs DEF TypeOK, RingPlaces
    <3>3. tail_index \in Nat /\ tail_index < NVM_QUEUE_LEN
      BY <3>2, LengthIs DEF Slots
    <3>4. ASSUME Len(pending) = NVM_QUEUE_LEN - 1
          PROVE  FALSE
      <4>1. head_index = SlotOf(NVM_QUEUE_LEN) /\ head_index \in Slots
        BY <3>2, <3>4, SlotIs, LengthIs
      <4>2. head_index = IF tail_index = 0 THEN NVM_QUEUE_LEN - 1 ELSE tail_index - 1
        BY <3>2, <3>3, <4>1, SlotIs, LengthIs
      <4>3. NEXT(head_index) = tail_index
        BY <3>3, <4>1, <4>2, NextIs, LengthIs
      <4> QED
        BY <3>1, <4>3
    <3> QED
      BY <1>2, <3>2, <3>4, LengthIs DEF RoomFound
  <2>2. CASE ~(Room /\ pc' = "write")
    <3>1. pc' = "write" => pc = "write"
      BY <2>2 DEF NvmAccess, Room, TakeIrq, LoseIrq, SpuriousIrq, OtherIrq, vars
    <3> QED
      BY <1>2, <3>1 DEF Uncut, RoomFound
  <2> QED
    BY <2>1, <2>2
<1>6. WorkIsPending' /\ FirstInWork' /\ WaitingIsDone' /\ RetiredAreDone'
  BY <1>2, <1>3
  DEF Uncut, WorkIsPending, FirstInWork, WaitingIsDone, Waiting, RetiredAreDone,
      Done, Work
<1> QED
  BY <1>2, <1>3, <1>4, <1>5, <1>6 DEF Uncut

\* A command enters at the head; the others keep their words.
LEMMA EnqueueKeeps ==
  ASSUME Steady, Uncut, Enqueue
  PROVE  Uncut'
<1> DEFINE command == [option |-> call, transfer |-> Len(asked) + 1]
<1>1. /\ UNCHANGED <<TAIL_Q, busy, tail_index, hpc>>
      /\ UNCHANGED <<dstate, dhead, dtail, fetched, performed, retired>>
      /\ pc = "write" /\ pc' = "kick" /\ hpc = "none"
  BY DEF Enqueue, device, MainRuns
<1>2. TypeOK /\ RingHolds /\ Len(pending) < NVM_QUEUE_LEN - 1
  BY <1>1 DEF Steady, Uncut, RoomFound
<1>3. /\ pending \in Seq(Commands) /\ Len(pending) \in Nat
      /\ tail_index \in Slots /\ head_index \in Slots
      /\ HEAD_Q \in [Slots -> EntryWords]
  BY <1>2 DEF TypeOK
<1>4. head_index = SlotOf(Len(pending) + 1) /\ Entries(pending)
  BY <1>2, RingIs DEF RingPlaces
<1>5. /\ pending' = Append(pending, command)
      /\ HEAD_Q' = [HEAD_Q EXCEPT ![head_index] =
                      Word(command.option, head_index, command.transfer)]
      /\ head_index' = NEXT(head_index)
  BY DEF Enqueue
<1>6. /\ Len(pending') = Len(pending) + 1 /\ pending' # <<>>
      /\ \A k \in 1 .. Len(pending) : pending'[k] = pending[k]
      /\ pending'[Len(pending) + 1] = command
  BY <1>3, <1>5
<1>7. \A k : SlotOf(k)' = SlotOf(k)
  BY <1>1 DEF SlotOf
<1>8. Entries(pending)'
  <2> SUFFICES ASSUME NEW k \in 1 .. Len(pending) + 1
               PROVE  HEAD_Q'[SlotOf(k)] =
                        Word(pending'[k].option, SlotOf(k), pending'[k].transfer)
    BY <1>6, <1>7 DEF Entries
  <2>1. k \in 1 .. NVM_QUEUE_LEN /\ Len(pending) + 1 \in 1 .. NVM_QUEUE_LEN
    BY <1>2, <1>3, LengthIs
  <2>2. SlotOf(k) \in Slots
    BY <1>3, <2>1, SlotIs
  <2>3. CASE k = Len(pending) + 1
    BY <1>3, <1>4, <1>5, <1>6, <2>3
  <2>4. CASE k # Len(pending) + 1
    <3>1. SlotOf(k) # head_index
      BY <1>3, <1>4, <2>1, <2>4, SlotsDiffer
    <3>2. k \in 1 .. Len(pending)
      BY <1>3, <2>4
    <3> QED
      BY <1>3, <1>4, <1>5, <1>6, <2>2, <3>1, <3>2 DEF Entries
  <2> QED
    BY <2>3, <2>4
<1>9. head_index' = SlotOf(Len(pending) + 1)'
  <2>1. Len(pending) + 1 \in 1 .. NVM_QUEUE_LEN /\ Len(pending) + 2 \in 1 .. NVM_QUEUE_LEN
    BY <1>2, <1>3, LengthIs
  <2>2. tail_index \in Nat /\ tail_index < NVM_QUEUE_LEN
    BY <1>3, LengthIs DEF Slots
  <2>3. NEXT(head_index) = SlotOf(Len(pending) + 2)
    BY <1>3, <1>4, <2>1, <2>2, NextIs, SlotIs, LengthIs
  <2>4. Len(pending') + 1 = Len(pending) + 2
    BY <1>3, <1>6
  <2> QED
    BY <1>1, <1>5, <2>3, <2>4 DEF SlotOf
<1>10. RingHolds'
  <2>1. TypeOK'
    BY SteadyStays DEF Next, Main, Steady
  <2>2. Len(pending') < NVM_QUEUE_LEN
    BY <1>2, <1>3, <1>6, LengthIs
  <2> QED
    BY <1>8, <1>9, <2>1, <2>2, RingIsNext DEF RingPlaces
<1>11. pending # <<>> => pending'[1] = pending[1]
  BY <1>3, <1>6
<1>12. WorkIsPending' /\ FirstInWork' /\ WaitingIsDone' /\ RetiredAreDone'
  BY <1>1, <1>6, <1>11
  DEF Uncut, WorkIsPending, FirstInWork, WaitingIsDone, Waiting, RetiredAreDone,
      Done, Work
<1>13. ~busy' => dstate' = "idle" /\ Len(pending') = 1
  BY <1>1, <1>6 DEF Uncut
<1> QED
  BY <1>1, <1>10, <1>12, <1>13 DEF Uncut, RoomFound

\* The doorbell is rung when nothing is with the controller.
LEMMA KickKeeps ==
  ASSUME Steady, Uncut, Kick
  PROVE  Uncut'
<1>1. /\ UNCHANGED <<HEAD_Q, TAIL_Q, head_index, tail_index, hpc>>
      /\ UNCHANGED <<dhead, dtail, fetched, performed, retired, pending>>
      /\ pc = "kick" /\ pc' = "idle" /\ hpc = "none" /\ busy'
      /\ pending \in Seq(Commands)
  BY DEF Kick, queues, history, MainRuns, Steady, TypeOK
<1>2. RingHolds' /\ RoomFound'
  BY <1>1 DEF Uncut, RingHolds, RoomFound
<1>3. RetiredAreDone'
  BY <1>1 DEF Uncut, RetiredAreDone, Done
<1>4. CASE ~busy
  <2>1. dstate = "idle" /\ dstate' = "fetch" /\ Len(pending) = 1
    BY <1>1, <1>4 DEF Kick, RingDoorbell, Uncut
  <2>2. pending # <<>>
    BY <1>1, <2>1
  <2>3. ~Waiting
    BY <1>4 DEF Uncut, WaitingIsDone
  <2> QED
    BY <1>1, <1>2, <1>3, <2>1, <2>2, <2>3
    DEF Uncut, WorkIsPending, FirstInWork, WaitingIsDone, Waiting
<1>5. CASE busy
  <2>1. dstate' = dstate
    BY <1>5 DEF Kick
  <2> QED
    BY <1>1, <1>2, <1>3, <1>5, <2>1
    DEF Uncut, WorkIsPending, FirstInWork, WaitingIsDone, Waiting, Done, Work
<1> QED
  BY <1>4, <1>5

\* A reset between commands.
LEMMA InitNvmKeeps ==
  ASSUME Steady, Uncut, initNvm, ~cut'
  PROVE  Uncut'
<1>1. /\ dstate = "idle" /\ dstate' = "idle" /\ ~busy' /\ hpc = "none"
      /\ hpc' = "none" /\ pc' = "idle" /\ pending' = <<>>
      /\ head_index' = 0 /\ tail_index' = 0
      /\ TAIL_Q' = [i \in Slots |-> NVM_ENTRY_EMPTY]
      /\ UNCHANGED <<performed, retired>>
  BY DEF initNvm, device, MainRuns, Steady, TypeOK
<1>2. RingHolds'
  BY <1>1, LengthIs, RemainderIs DEF RingHolds
<1>3. ~Waiting'
  BY <1>1, LengthIs DEF Waiting, Slots, NVM_ENTRY_EMPTY
<1> QED
  BY <1>1, <1>2, <1>3, LengthIs
  DEF Uncut, RoomFound, WorkIsPending, FirstInWork, WaitingIsDone, RetiredAreDone,
      Done

\* What is retired is the first in the ring, and it was carried out.
LEMMA RetireKeeps ==
  ASSUME Steady, Uncut, Retire
  PROVE  Uncut'
<1>1. /\ UNCHANGED <<HEAD_Q, busy, head_index, pc, performed>>
      /\ UNCHANGED <<dstate, dhead, dtail, fetched>>
      /\ hpc = "retire"
  BY DEF Retire, device
<1>2. CASE ~Completes(TAIL_Q[tail_index], tail_index)
  <2>1. UNCHANGED <<TAIL_Q, tail_index, pending, retired>> /\ hpc' = "none"
    BY <1>2 DEF Retire
  <2>2. RingHolds'
    BY <1>1, <2>1 DEF Uncut, RingHolds
  <2> QED
    BY <1>1, <2>1, <2>2
    DEF Uncut, RoomFound, WorkIsPending, FirstInWork, WaitingIsDone, Waiting,
        RetiredAreDone, Done, Work
<1>3. CASE Completes(TAIL_Q[tail_index], tail_index)
  <2>1. Waiting /\ tail_index' = NEXT(tail_index) /\ tail_index' = 1
    BY <1>3, RecognisedIs DEF Waiting, Retire, Steady
  <2>2. busy /\ dstate = "idle" /\ pending # <<>> /\ Done(pending[1])
    BY <2>1 DEF Uncut, WaitingIsDone
  <2>3. TypeOK /\ pending \in Seq(Commands) /\ tail_index \in Slots
    BY DEF Steady, TypeOK
  <2>4. /\ pending' = Tail(pending) /\ retired' = retired \cup {Head(pending)}
        /\ hpc' = "next"
    BY <1>3, <2>2 DEF Retire, RetireFirst
  <2>5. /\ Head(pending) = pending[1]
        /\ Len(pending) \in Nat /\ Len(pending') = Len(pending) - 1
        /\ Len(pending) > 0
        /\ \A k \in 1 .. Len(pending) - 1 : pending'[k] = pending[k + 1]
    BY <2>2, <2>3, <2>4
  <2>6. /\ Len(pending) < NVM_QUEUE_LEN
        /\ head_index = SlotOf(Len(pending) + 1) /\ Entries(pending)
    BY <2>3, RingIs DEF Uncut, RingPlaces
  <2>7. \A k \in 1 .. Len(pending) : SlotOf(k)' = SlotOf(k + 1)
    <3>1. \A k \in 1 .. Len(pending) : k \in 1 .. NVM_QUEUE_LEN - 1
      BY <2>5, <2>6, LengthIs
    <3> QED
      BY <2>1, <2>3, <3>1, SlotMoves
  <2>8. RingHolds'
    <3>1. TypeOK'
      BY SteadyStays DEF Next, nvm_IRQHandler, Steady
    <3>2. Len(pending') < NVM_QUEUE_LEN
      BY <2>5, <2>6, LengthIs
    <3>3. head_index' = SlotOf(Len(pending) + 1)'
      <4>1. Len(pending') + 1 = Len(pending) /\ Len(pending) \in 1 .. Len(pending)
        BY <2>5
      <4>2. (tail_index' + Len(pending) - 1) % NVM_QUEUE_LEN = SlotOf(Len(pending) + 1)
        BY <2>7, <4>1 DEF SlotOf
      <4> QED
        BY <1>1, <2>6, <4>1, <4>2 DEF SlotOf
    <3>4. Entries(pending)'
      <4> SUFFICES ASSUME NEW k \in 1 .. Len(pending')
                   PROVE  HEAD_Q'[SlotOf(k)'] =
                            Word(pending'[k].option, SlotOf(k)', pending'[k].transfer)
        BY <1>1 DEF Entries
      <4>1. k \in 1 .. Len(pending) - 1 /\ k + 1 \in 1 .. Len(pending)
        BY <2>5
      <4>2. SlotOf(k)' = SlotOf(k + 1) /\ pending'[k] = pending[k + 1]
        BY <2>5, <2>7, <4>1
      <4> QED
        BY <1>1, <2>6, <4>1, <4>2 DEF Entries
    <3> QED
      BY <3>1, <3>2, <3>3, <3>4, RingIsNext DEF RingPlaces
  <2>9. RoomFound'
    BY <1>1 DEF RoomFound, Steady, CallerKnows
  <2>10. RetiredAreDone'
    BY <1>1, <2>2, <2>4, <2>5 DEF Uncut, RetiredAreDone, Done
  <2>11. ~Waiting'
    BY <2>1 DEF Waiting
  <2> QED
    BY <1>1, <2>2, <2>4, <2>8, <2>9, <2>10, <2>11
    DEF Uncut, WorkIsPending, FirstInWork, WaitingIsDone
<1> QED
  BY <1>2, <1>3

\* The handler rings for the next command, or nothing is left in the ring.
LEMMA StartNextKeeps ==
  ASSUME Steady, Uncut, StartNext
  PROVE  Uncut'
<1>1. /\ UNCHANGED <<HEAD_Q, TAIL_Q, head_index, tail_index, pc>>
      /\ UNCHANGED <<dhead, dtail, fetched, performed, retired, pending>>
      /\ hpc = "next" /\ hpc' = "none"
  BY DEF StartNext, queues, history
<1>2. busy /\ dstate = "idle" /\ ~Waiting /\ pc # "kick" /\ TypeOK
  BY <1>1 DEF Uncut, WaitingIsDone, Steady, CallerKnows
<1>3. RingHolds' /\ RoomFound' /\ RetiredAreDone' /\ ~Waiting'
  BY <1>1, <1>2 DEF Uncut, RingHolds, RoomFound, RetiredAreDone, Done, Waiting
<1>4. pending = <<>> <=> tail_index = head_index
  <2>1. /\ pending \in Seq(Commands) /\ Len(pending) < NVM_QUEUE_LEN
        /\ head_index = SlotOf(Len(pending) + 1)
        /\ tail_index \in Slots
    BY <1>2, RingIs DEF Uncut, TypeOK, RingPlaces
  <2>2. Len(pending) \in Nat
    BY <2>1
  <2>3. Len(pending) + 1 \in 1 .. NVM_QUEUE_LEN /\ 1 \in 1 .. NVM_QUEUE_LEN
    BY <2>1, <2>2, LengthIs
  <2>4. tail_index = head_index <=> Len(pending) + 1 = 1
    BY <2>1, <2>3, SlotsDiffer
  <2> QED
    BY <2>1, <2>4
<1>5. CASE tail_index = head_index
  <2>1. ~busy' /\ dstate' = "idle" /\ pending = <<>> /\ Len(pending) = 0
    BY <1>2, <1>4, <1>5 DEF StartNext
  <2> QED
    BY <1>1, <1>2, <1>3, <2>1
    DEF Uncut, WorkIsPending, FirstInWork, WaitingIsDone
<1>6. CASE tail_index # head_index
  <2>1. busy' /\ dstate' = "fetch" /\ pending # <<>>
    BY <1>2, <1>4, <1>6 DEF StartNext, RingDoorbell
  <2> QED
    BY <1>1, <1>2, <1>3, <2>1
    DEF Uncut, WorkIsPending, FirstInWork, WaitingIsDone
<1> QED
  BY <1>5, <1>6

\* With both counters at 0 the first in the ring is fetched.
LEMMA FetchKeeps ==
  ASSUME Steady, Uncut, Fetch
  PROVE  Uncut'
<1>1. /\ UNCHANGED <<HEAD_Q, TAIL_Q, busy, head_index, tail_index, pc, hpc>>
      /\ UNCHANGED <<dtail, performed, retired, pending>>
      /\ dstate = "fetch" /\ dstate' = "exec"
  BY DEF Fetch, queues, dev, history
<1>2. RingHolds' /\ RoomFound' /\ RetiredAreDone' /\ WorkIsPending'
  BY <1>1 DEF Uncut, RingHolds, RoomFound, RetiredAreDone, Done, WorkIsPending
<1>3. ~Waiting'
  BY <1>1 DEF Uncut, WaitingIsDone, Waiting
<1>4. FirstInWork'
  <2> SUFFICES ASSUME dtail = 0, tail_index = 0
               PROVE  fetched' = Word(pending[1].option, 0, pending[1].transfer)
    BY <1>1 DEF FirstInWork
  <2>1. dhead = 0 /\ TypeOK /\ 0 \in Slots
    BY <1>1, LengthIs DEF Steady, CountersAgree, Slots
  <2>2. fetched' = HEAD_Q[0]
    BY <2>1 DEF Fetch
  <2>3. Entries(pending) /\ pending # <<>> /\ pending \in Seq(Commands)
    BY <1>1, <2>1, RingIs DEF Uncut, WorkIsPending, TypeOK, RingPlaces
  <2>4. 1 \in 1 .. Len(pending)
    BY <2>3
  <2>5. SlotOf(1) = 0
    BY <2>1, SlotsDiffer, LengthIs
  <2> QED
    BY <2>2, <2>3, <2>4, <2>5 DEF Entries
<1> QED
  BY <1>1, <1>2, <1>3, <1>4 DEF Uncut, WaitingIsDone

\* The command fetched is carried out.
LEMMA ExecKeeps ==
  ASSUME Steady, Uncut, Exec
  PROVE  Uncut'
<1>1. /\ UNCHANGED <<HEAD_Q, TAIL_Q, busy, head_index, tail_index, pc, hpc>>
      /\ UNCHANGED <<dtail, fetched, retired, pending>>
      /\ dstate = "exec" /\ dstate' = "finish"
      /\ performed' = Append(performed, Work)
      /\ performed \in Seq(Commands)
  BY DEF Exec, queues, dev, Work, Steady, TypeOK
<1>2. RingHolds' /\ RoomFound' /\ WorkIsPending'
  BY <1>1 DEF Uncut, RingHolds, RoomFound, WorkIsPending
<1>3. ~Waiting'
  BY <1>1 DEF Uncut, WaitingIsDone, Waiting
<1>4. /\ Len(performed) \in Nat /\ Len(performed') = Len(performed) + 1
      /\ \A k \in 1 .. Len(performed) : performed'[k] = performed[k]
      /\ performed'[Len(performed) + 1] = Work
  BY <1>1
<1>5. \A command : Done(command) => Done(command)'
  BY <1>4 DEF Done
<1>6. Done(Work)'
  <2>1. Work' = Work
    BY <1>1 DEF Work
  <2>2. Len(performed) + 1 \in 1 .. Len(performed')
    BY <1>4
  <2> QED
    BY <1>4, <2>1, <2>2 DEF Done
<1>7. RetiredAreDone'
  BY <1>1, <1>5 DEF Uncut, RetiredAreDone
<1>8. FirstInWork'
  BY <1>1, <1>6 DEF Uncut, FirstInWork
<1> QED
  BY <1>1, <1>2, <1>3, <1>7, <1>8 DEF Uncut, WaitingIsDone

\* A completion that will be recognised is that of the first in the ring.
LEMMA FinishKeeps ==
  ASSUME Steady, Uncut, Finish
  PROVE  Uncut'
<1>1. /\ UNCHANGED <<HEAD_Q, busy, head_index, tail_index, pc, hpc>>
      /\ UNCHANGED <<fetched, performed, retired, pending>>
      /\ dstate = "finish" /\ dstate' = "idle"
  BY DEF Finish, dev, history
<1>2. RingHolds' /\ RoomFound' /\ RetiredAreDone' /\ WorkIsPending' /\ FirstInWork'
  BY <1>1
  DEF Uncut, RingHolds, RoomFound, RetiredAreDone, Done, WorkIsPending, FirstInWork
<1>3. busy /\ pending # <<>> /\ hpc # "next" /\ ~Waiting /\ TypeOK
  BY <1>1 DEF Uncut, WorkIsPending, WaitingIsDone, Steady
<1>4. ASSUME Waiting'
      PROVE  Done(pending[1])
  <2>1. tail_index = 0 /\ TAIL_Q'[0] = 0 /\ 0 \in Slots
    BY <1>1, <1>4, LengthIs DEF Waiting, Slots
  <2>2. TAIL_Q[0] # 0
    BY <1>3, <2>1 DEF Waiting
  <2>3. dtail = 0 /\ Completion(fetched.opcode_ID) = 0
    BY <1>3, <2>1, <2>2 DEF Finish, TypeOK
  <2>4. fetched = Word(pending[1].option, 0, pending[1].transfer)
    BY <1>1, <2>1, <2>3 DEF Uncut, FirstInWork
  <2>5. pending[1] \in Commands
    BY <1>3 DEF TypeOK
  <2>6. /\ pending[1].option \in {NVM_READ, NVM_WRITE}
        /\ pending[1].transfer \in 0 .. MaxCommands
        /\ pending[1] = [option |-> pending[1].option,
                         transfer |-> pending[1].transfer]
    BY <2>5 DEF Commands
  <2>7. pending[1].option = NVM_READ
    BY <2>1, <2>3, <2>4, <2>6, CompletionIs
  <2>8. Work = [option |-> 0, transfer |-> pending[1].transfer]
    BY <2>1, <2>4, <2>6, WordIs DEF Work
  <2>9. Work = pending[1]
    BY <2>6, <2>7, <2>8 DEF NVM_READ
  <2> QED
    BY <1>1, <2>9 DEF Uncut, FirstInWork
<1>5. WaitingIsDone'
  BY <1>1, <1>3, <1>4 DEF WaitingIsDone, Done
<1> QED
  BY <1>1, <1>2, <1>3, <1>5 DEF Uncut

-----------------------------------------------------------------------------
\* Every step of the driver and the controller keeps the invariant.
THEOREM StepKeeps ==
  ASSUME IInv, [Next]_vars
  PROVE  IInv'
<1>1. Steady'
  BY SteadyStays DEF IInv
<1>2. ASSUME ~cut'
      PROVE  Uncut'
  <2>1. Steady /\ ~cut
    BY <1>2
    DEF IInv, Steady, TypeOK, Next, Main, nvm_IRQHandler, NVM_FSM, NvmAccess, Room,
        Enqueue, Kick, initNvm, TakeIrq, LoseIrq, SpuriousIrq, OtherIrq, Retire,
        StartNext, Fetch, Exec, Finish, history, vars
  <2>2. Steady /\ Uncut
    BY <2>1 DEF IInv
  <2> QED
    BY <1>2, <2>2, MoveKeeps, EnqueueKeeps, KickKeeps, InitNvmKeeps, RetireKeeps,
       StartNextKeeps, FetchKeeps, ExecKeeps, FinishKeeps
    DEF Next, Main, nvm_IRQHandler, NVM_FSM
<1> QED
  BY <1>1, <1>2 DEF IInv

LEMMA Inductive == Spec => []IInv
<1>1. Init => IInv
  BY InitEstablishes
<1>2. IInv /\ [Next]_vars => IInv'
  BY StepKeeps
<1> QED
  BY <1>1, <1>2, PTL DEF Spec

\* Every index stays inside its array and every queue holds words of its kind.
THEOREM TypesAreKept == Spec => []TypeOK
<1>1. IInv => TypeOK
  BY DEF IInv, Steady
<1> QED
  BY <1>1, Inductive, PTL

\* Of the completion words of the controller the driver recognises one, so its
\* tail moves once at most after a reset (nvm.c:69).
THEOREM AtMostOneEverRetires == Spec => []AtMostOneRetires
<1>1. IInv => AtMostOneRetires
  BY DEF IInv, Steady
<1> QED
  BY <1>1, Inductive, PTL

\* While busy is clear nothing is with the controller, and no doorbell is rung
\* while it is not looking (nvm.c:73-76, 151-154).
THEOREM OneIsAlwaysOutstanding == Spec => []OneOutstanding
<1>1. IInv => OneOutstanding
  BY DEF IInv, Uncut, OneOutstanding
<1> QED
  BY <1>1, Inductive, PTL

\* The ring holds exactly the commands that wait, as they were given, however full
\* it is and whatever interrupts come or are lost (nvm.c:68-71, 135-149).
THEOREM RingAlwaysHoldsPending == Spec => []RingHoldsPending
<1>1. IInv => RingHoldsPending
  BY DEF IInv, Uncut, RingHoldsPending
<1> QED
  BY <1>1, Inductive, PTL

\* What is retired was carried out as it was given (nvm.c:68-69).
THEOREM RetiredAlwaysAsAsked == Spec => []RetiredAsAsked
<1>1. IInv => RetiredAsAsked
  BY DEF IInv, Uncut, RetiredAreDone, Done, RetiredAsAsked
<1> QED
  BY <1>1, Inductive, PTL
=============================================================================
