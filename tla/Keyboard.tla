------------------------------ MODULE Keyboard ------------------------------
(***************************************************************************)
(* The keyboard from the key to the edited line: the keyboard controller   *)
(* (IO/keyboard/Keyboard_Controller.circ), the interrupt handler and its   *)
(* ring, and readInput, which edits and echoes a line                      *)
(* (drivers/keyboard/keyboard.c).                                          *)
(*                                                                         *)
(* The user, the controller, the handler, the reader and the terminal      *)
(* interleave; the reader only runs while no handler is active and HLT has *)
(* ended.  The LAPIC keeps one request per vector, so the interrupt on its *)
(* way is one bit.  InterruptPath models the way: it may lose the request, *)
(* and it may run the handler with none.  The terminal is what             *)
(* TtyDriver shows it to be: requests are drawn in order, a queued one     *)
(* when the terminal gets to it, and a direct one waits for an empty queue.*)
(*                                                                         *)
(* Characters are identified by their number in the order of typing; 0 is  *)
(* the NUL an empty controller delivers.                                   *)
(***************************************************************************)
EXTENDS Integers, Sequences, FiniteSetsExt, SequencesExt

CONSTANTS
  Keys,         \* characters the user types
  MaxKeys,      \* bound on characters typed and handlers run for nothing
  KEYQ_SIZE,    \* slots of key_queue
  MAX_SIZE      \* the shell's max_size

Control == {"CR", "LF", "BS", "NUL"}

ASSUME RingAssumption == KEYQ_SIZE \in {2, 4, 8, 16, 32, 64, 128, 256}
ASSUME LineAssumption == MAX_SIZE \in Nat \ {0} /\ MaxKeys \in Nat

VARIABLES
  typed,                    \* the characters typed so far
  fifo, service,            \* the controller: its buffer, Service_IRQ
  irq,                      \* an interrupt of the keyboard is on its way
  lost,                     \* the one Service_IRQ stands for never arrives
  key_queue, kq_head, kq_tail,
  hpc, data,                \* keyboard_IRQHandler and the character it read
  spurious,                 \* its runs without a request so far
  pc, key, n, echoed_n, done, out_buffer,    \* readInput
  halted,
  pending, screen,          \* echo requests not drawn yet, text drawn
  newest,                   \* the last character the handler stored or dropped
  taken, consumed           \* the last one taken from the ring, all of this line

controller == <<fifo, service, irq, lost>>
ring == <<key_queue, kq_head, kq_tail>>
handler == <<hpc, data, newest, spurious>>
reader == <<pc, key, n, echoed_n, done, out_buffer, taken,
            consumed>>
display == <<pending, screen>>
vars == <<typed, controller, ring, handler, reader, halted, display>>

Char(i) == IF i = 0 THEN "NUL" ELSE typed[i]
nextKeyUnmasked(i) == i + 1
NextKey(i) == (i + 1) % KEYQ_SIZE    \* (i + 1) & KEYQ_MASK

Init ==
  /\ typed = <<>>
  /\ fifo = <<>> /\ service = FALSE /\ irq = FALSE /\ lost = FALSE
  /\ key_queue = [i \in 0 .. KEYQ_SIZE - 1 |-> 0]
  /\ kq_head = 0 /\ kq_tail = 0
  /\ hpc = "none" /\ data = 0 /\ newest = 0 /\ spurious = 0
  /\ pc = "idle" /\ key = 0 /\ n = 0 /\ echoed_n = 0 /\ done = FALSE
  /\ out_buffer = [i \in 0 .. MAX_SIZE - 1 |-> "NUL"]
  /\ taken = 0 /\ consumed = <<>>
  /\ halted = FALSE
  /\ pending = <<>> /\ screen = <<>>

-----------------------------------------------------------------------------
(***************************************************************************)
(* The controller interrupts for a character when none is being served,    *)
(* and Service_IRQ stays set until the driver acknowledges.                *)
(***************************************************************************)
KeyPress(c) ==
  /\ Len(typed) + spurious < MaxKeys
  /\ typed' = Append(typed, c)
  /\ fifo' = Append(fifo, Len(typed'))
  /\ irq' = (irq \/ ~service)
  /\ service' = TRUE
  /\ UNCHANGED <<lost, ring, handler, reader, halted, display>>

-----------------------------------------------------------------------------
(***************************************************************************)
(* keyboard_IRQHandler: read data, acknowledge, store.  Its vector is in   *)
(* service meanwhile, so it is not re-entered.                             *)
(***************************************************************************)
TakeIrq ==
  /\ irq /\ hpc = "none"
  /\ irq' = FALSE
  /\ halted' = FALSE
  /\ hpc' = "read"
  /\ UNCHANGED <<typed, fifo, service, lost, ring, data, newest, spurious,
                 reader, display>>

(***************************************************************************)
(* When requests meet, InterruptPath shows, the board may lose this one:   *)
(* ended by another handler's EOI, displaced, or left in ISR behind the    *)
(* one latch.  Then Service_IRQ stays set and no other interrupt comes.    *)
(***************************************************************************)
LoseIrq ==
  /\ irq
  /\ irq' = FALSE
  /\ lost' = service
  /\ UNCHANGED <<typed, fifo, service, ring, handler, reader, halted, display>>

\* It may also begin the handler with no request: when the handler's EOI ended
\* a more urgent interrupt instead, that one's latch is taken for this vector,
\* still in service.
SpuriousRun ==
  /\ hpc = "none" /\ Len(typed) + spurious < MaxKeys
  /\ spurious' = spurious + 1
  /\ halted' = FALSE
  /\ hpc' = "read"
  /\ UNCHANGED <<typed, controller, ring, data, newest, reader, display>>

ReadData ==
  /\ hpc = "read"
  /\ data' = IF fifo = <<>> THEN 0 ELSE Head(fifo)
  /\ hpc' = "ack"
  /\ UNCHANGED <<typed, controller, ring, newest, spurious, reader, halted,
                 display>>

(***************************************************************************)
(* comand = 2 removes the first character and ends the service.  The       *)
(* controller interrupts again if there is a character; it looks on the    *)
(* clock that removes one, and Data_Available is then still or no longer   *)
(* high.                                                                   *)
(***************************************************************************)
AcknowledgeForgotten ==
  /\ hpc = "ack"
  /\ hpc' = "store"
  /\ UNCHANGED <<typed, controller, ring, data, newest, spurious, reader,
                 halted, display>>

Acknowledge ==
  /\ hpc = "ack"
  /\ fifo' = IF fifo = <<>> THEN <<>> ELSE Tail(fifo)
  /\ \E again \in {fifo # <<>>, fifo' # <<>>} :
       /\ irq' = (irq \/ again)
       /\ service' = again
  /\ lost' = FALSE
  /\ hpc' = "store"
  /\ UNCHANGED <<typed, ring, data, newest, spurious, reader, halted, display>>

StoreKeyAlways ==
  /\ hpc = "store"
  /\ key_queue' = [key_queue EXCEPT ![kq_head] = data]
  /\ kq_head' = NextKey(kq_head)
  /\ newest' = IF data = 0 THEN newest ELSE data
  /\ data' = 0 /\ hpc' = "none"
  /\ UNCHANGED <<typed, controller, kq_tail, spurious, reader, halted, display>>

StoreKey ==
  /\ hpc = "store"
  /\ \/ /\ NextKey(kq_head) # kq_tail
        /\ key_queue' = [key_queue EXCEPT ![kq_head] = data]
        /\ kq_head' = NextKey(kq_head)
     \/ NextKey(kq_head) = kq_tail /\ UNCHANGED <<key_queue, kq_head>>
  /\ newest' = IF data = 0 THEN newest ELSE data
  /\ data' = 0 /\ hpc' = "none"
  /\ UNCHANGED <<typed, controller, kq_tail, spurious, reader, halted, display>>

-----------------------------------------------------------------------------
(***************************************************************************)
(* readInput.  The shell has just written its prompt, directly, so nothing *)
(* is waiting for the terminal; interrupts are on.                         *)
(***************************************************************************)
MainRuns == hpc = "none" /\ ~halted
Empty == kq_tail = kq_head

readInput ==
  /\ pc = "idle" /\ MainRuns
  /\ pending = <<>>
  /\ out_buffer' = [out_buffer EXCEPT ![0] = "NUL"]
  /\ n' = 0 /\ echoed_n' = 0 /\ done' = FALSE
  /\ consumed' = <<>> /\ screen' = <<>>
  /\ pc' = "wait"
  /\ UNCHANGED <<typed, controller, ring, handler, key, taken, halted, pending>>

\* while (kq_tail == kq_head) waitForKey();
WaitForKey ==
  /\ pc = "wait" /\ MainRuns
  /\ pc' = IF Empty THEN "hlt" ELSE "inner"
  /\ UNCHANGED <<typed, controller, ring, handler, key, n, echoed_n, done,
                 out_buffer, taken, consumed, halted, display>>

HLT ==
  /\ pc = "hlt" /\ MainRuns
  /\ halted' = TRUE
  /\ pc' = "wait"
  /\ UNCHANGED <<typed, controller, ring, handler, key, n, echoed_n, done,
                 out_buffer, taken, consumed, display>>

TakeKey ==
  /\ pc = "inner" /\ MainRuns
  /\ \/ ~Empty /\ key' = key_queue[kq_tail] /\ pc' = "advance"
     \/ Empty /\ pc' = "echo" /\ UNCHANGED key
  /\ UNCHANGED <<typed, controller, ring, handler, n, echoed_n, done,
                 out_buffer, taken, consumed, halted, display>>

AdvanceTail ==
  /\ pc = "advance" /\ MainRuns
  /\ kq_tail' = NextKey(kq_tail)
  /\ taken' = key
  /\ consumed' = Append(consumed, key)
  /\ pc' = "edit"
  /\ UNCHANGED <<typed, controller, key_queue, kq_head, handler, key, n,
                 echoed_n, done, out_buffer, halted, display>>

Editing(chars) == pc = "edit" /\ MainRuns /\ Char(key) \in chars

\* Enter; a line feed already waiting behind a carriage return is discarded.
EndLine ==
  /\ Editing({"CR", "LF"})
  /\ IF Char(key) = "CR" /\ ~Empty /\ Char(key_queue[kq_tail]) = "LF"
       THEN /\ kq_tail' = NextKey(kq_tail)
            /\ taken' = key_queue[kq_tail]
            /\ consumed' = Append(consumed, taken')
       ELSE UNCHANGED <<kq_tail, taken, consumed>>
  /\ done' = TRUE
  /\ pc' = "echo"
  /\ UNCHANGED <<typed, controller, key_queue, kq_head, handler, key, n,
                 echoed_n, out_buffer, halted, display>>

(***************************************************************************)
(* Backspace.  One character that was echoed is erased from the terminal,  *)
(* by a direct request, which waits until nothing else is to be drawn.     *)
(***************************************************************************)
Direct(op, arg) ==
  pending = <<>> /\ pending' = <<[op |-> op, arg |-> arg]>>

EraseForgetsEcho ==
  /\ Editing({"BS"})
  /\ n' = IF n > 0 THEN n - 1 ELSE n
  /\ UNCHANGED <<echoed_n, pending>>
  /\ pc' = "inner"
  /\ UNCHANGED <<typed, controller, ring, handler, key, done, out_buffer,
                 taken, consumed, halted, screen>>

Erase ==
  /\ Editing({"BS"})
  /\ n' = IF n > 0 THEN n - 1 ELSE n
  /\ \/ echoed_n > n' /\ echoed_n' = n' /\ Direct("erase", 0)
     \/ echoed_n <= n' /\ UNCHANGED <<echoed_n, pending>>
  /\ pc' = "inner"
  /\ UNCHANGED <<typed, controller, ring, handler, key, done, out_buffer,
                 taken, consumed, halted, screen>>

InsertOffByOne ==
  /\ Editing(Keys \ Control)
  /\ \/ /\ n < MAX_SIZE
        /\ out_buffer' = [out_buffer EXCEPT ![n] = Char(key)]
        /\ n' = n + 1
     \/ n >= MAX_SIZE /\ UNCHANGED <<out_buffer, n>>
  /\ pc' = "inner"
  /\ UNCHANGED <<typed, controller, ring, handler, key, echoed_n, done, taken,
                 consumed, halted, display>>

\* if (n < max_size - 1) out_buffer[n++] = key;
Insert ==
  /\ Editing(Keys \ Control)
  /\ \/ /\ n < MAX_SIZE - 1
        /\ out_buffer' = [out_buffer EXCEPT ![n] = Char(key)]
        /\ n' = n + 1
     \/ n >= MAX_SIZE - 1 /\ UNCHANGED <<out_buffer, n>>
  /\ pc' = "inner"
  /\ UNCHANGED <<typed, controller, ring, handler, key, echoed_n, done, taken,
                 consumed, halted, display>>

Ignore ==
  /\ Editing({"NUL"})
  /\ pc' = "inner"
  /\ UNCHANGED <<typed, controller, ring, handler, key, n, echoed_n, done,
                 out_buffer, taken, consumed, halted, display>>

\* if (n > echoed_n) out_buffer[n] = '\0' ...
Terminate ==
  /\ pc = "echo" /\ MainRuns
  /\ \/ /\ n > echoed_n
        /\ out_buffer' = [out_buffer EXCEPT ![n] = "NUL"]
        /\ pc' = "send"
     \/ /\ n <= echoed_n
        /\ pc' = IF done THEN "finish" ELSE "wait"
        /\ UNCHANGED out_buffer
  /\ UNCHANGED <<typed, controller, ring, handler, key, n, echoed_n, done, taken,
                 consumed, halted, display>>

(***************************************************************************)
(* ... biosWrite(&out_buffer[echoed_n], 0).  One character is copied into  *)
(* a direct request; more are queued as the address of the first, and the  *)
(* terminal reads them from memory when it draws them.                     *)
(***************************************************************************)
DisplayRoom == 4     \* QUEUE_SIZE of tty.c

Echo ==
  /\ pc = "send" /\ MainRuns
  /\ IF out_buffer[echoed_n + 1] = "NUL"
       THEN Direct("put", out_buffer[echoed_n])
       ELSE /\ Len(pending) < DisplayRoom
            /\ pending' = Append(pending, [op |-> "string", arg |-> echoed_n])
  /\ echoed_n' = n
  /\ pc' = IF done THEN "finish" ELSE "wait"
  /\ UNCHANGED <<typed, controller, ring, handler, key, n, done, out_buffer,
                 taken, consumed, halted, screen>>

FinishLine ==
  /\ pc = "finish" /\ MainRuns
  /\ out_buffer' = [out_buffer EXCEPT ![n] = "NUL"]
  /\ pc' = "newline"
  /\ UNCHANGED <<typed, controller, ring, handler, key, n, echoed_n, done, taken,
                 consumed, halted, display>>

NewLine ==
  /\ pc = "newline" /\ MainRuns
  /\ Direct("put", "LF")
  /\ pc' = "idle"
  /\ UNCHANGED <<typed, controller, ring, handler, key, n, echoed_n, done,
                 out_buffer, taken, consumed, halted, screen>>

(***************************************************************************)
(* The shell command reset runs main again: initKeyboard empties the       *)
(* controller, but neither the ring nor an interrupt already on its way.   *)
(***************************************************************************)
initKeyboard ==
  /\ pc = "idle" /\ MainRuns
  /\ fifo' = <<>> /\ service' = FALSE /\ lost' = FALSE
  /\ UNCHANGED <<typed, irq, ring, handler, reader, halted, display>>

-----------------------------------------------------------------------------
(***************************************************************************)
(* The terminal draws the next request.  A string reaches from its address *)
(* to the first NUL that is in memory now.                                 *)
(***************************************************************************)
Text(at) ==
  LET ends == {j \in at .. MAX_SIZE - 1 : out_buffer[j] = "NUL"}
      end == IF ends = {} THEN MAX_SIZE ELSE Min(ends)
  IN  [k \in 1 .. end - at |-> out_buffer[at + k - 1]]

Drawn(r) ==
  IF r.op = "put" THEN Append(screen, r.arg)
  ELSE IF r.op = "string" THEN screen \o Text(r.arg)
  ELSE IF screen = <<>> THEN <<>> ELSE Front(screen)

Show ==
  /\ pending # <<>>
  /\ screen' = Drawn(Head(pending))
  /\ pending' = Tail(pending)
  /\ UNCHANGED <<typed, controller, ring, handler, reader, halted>>

-----------------------------------------------------------------------------
keyboard_IRQHandler == ReadData \/ Acknowledge \/ StoreKey
Reader ==
  \/ WaitForKey \/ HLT \/ TakeKey \/ AdvanceTail
  \/ EndLine \/ Erase \/ Insert \/ Ignore
  \/ Terminate \/ Echo \/ FinishLine \/ NewLine

Next ==
  \/ \E c \in Keys : KeyPress(c)
  \/ TakeIrq \/ LoseIrq \/ SpuriousRun
  \/ keyboard_IRQHandler
  \/ readInput \/ Reader
  \/ initKeyboard
  \/ Show

Spec == Init /\ [][Next]_vars

(***************************************************************************)
(* The processor is clocked and its critical sections end, so an interrupt *)
(* that stays pending is taken (one the board never delivers is a LoseIrq) *)
(* and the handler goes on.  Nothing is asked of the user, the reader or   *)
(* the terminal, which may itself have lost its interrupt.                 *)
(***************************************************************************)
Fairness == WF_vars(TakeIrq) /\ WF_vars(keyboard_IRQHandler)

FairSpec == Spec /\ Fairness

-----------------------------------------------------------------------------
PCs == {"idle", "wait", "hlt", "inner", "advance", "edit", "echo", "send",
        "finish", "newline"}
Ids == 0 .. MaxKeys
Chars == Keys \cup Control

\* Every variable keeps its type; indices stay inside their arrays.
TypeOK ==
  /\ typed \in Seq(Keys) /\ fifo \in Seq(Ids)
  /\ service \in BOOLEAN /\ irq \in BOOLEAN /\ lost \in BOOLEAN
  /\ key_queue \in [0 .. KEYQ_SIZE - 1 -> Ids]
  /\ kq_head \in 0 .. KEYQ_SIZE - 1 /\ kq_tail \in 0 .. KEYQ_SIZE - 1
  /\ hpc \in {"none", "read", "ack", "store"} /\ data \in Ids /\ newest \in Ids
  /\ spurious \in 0 .. MaxKeys
  /\ pc \in PCs /\ key \in Ids
  /\ n \in 0 .. MAX_SIZE - 1 /\ echoed_n \in 0 .. MAX_SIZE - 1
  /\ done \in BOOLEAN /\ halted \in BOOLEAN
  /\ out_buffer \in [0 .. MAX_SIZE - 1 -> Chars]
  /\ taken \in Ids /\ consumed \in Seq(Ids)
  /\ screen \in Seq(Chars)
  /\ \A i \in 1 .. Len(pending) :
       pending[i].op \in {"put", "erase"} \/ pending[i].arg \in 0 .. MAX_SIZE - 1

(***************************************************************************)
(* A character in the controller always has an interrupt on its way or a   *)
(* handler that has not acknowledged yet: only the board, by losing that   *)
(* very interrupt, can silence the keyboard, neither a reset of the BIOS   *)
(* with one pending nor a handler that runs without one                    *)
(* (keyboard.c:29-32, 57).                                                 *)
(***************************************************************************)
ServiceIsAlive ==
  /\ service => irq \/ lost \/ hpc \in {"read", "ack"}
  /\ fifo # <<>> => service

\* The characters of the ring, from tail to head.
InRing == [k \in 1 .. (kq_head - kq_tail) % KEYQ_SIZE |->
             key_queue[(kq_tail + k - 1) % KEYQ_SIZE]]

Buffer == INSTANCE KeyBuffer WITH
  Keys <- 1 .. MaxKeys, Nothing <- 0, Capacity <- KEYQ_SIZE - 1,
  waiting <- InRing

(***************************************************************************)
(* The ring is a bounded queue although its two ends are moved without a   *)
(* critical section, by the reader and by an interrupt between any two of  *)
(* its steps: no character is delivered twice, out of order or damaged     *)
(* (keyboard.c:35-39, 94-97, 101-103).                                     *)
(***************************************************************************)
ImplementsKeyBuffer == Buffer!Spec

(***************************************************************************)
(* The line is what editing the characters taken so far gives: printable   *)
(* ones append while there is room for the terminator, a backspace removes *)
(* the last, NUL and line ends change nothing (keyboard.c:94-119).         *)
(***************************************************************************)
EditStep(line, i) ==
  IF Char(i) = "BS" THEN (IF line = <<>> THEN <<>> ELSE Front(line))
  ELSE IF Char(i) \in Control \/ Len(line) >= MAX_SIZE - 1 THEN line
  ELSE Append(line, Char(i))

Edited(ids) ==
  LET line[k \in 0 .. Len(ids)] ==
        IF k = 0 THEN <<>> ELSE EditStep(line[k - 1], ids[k])
  IN  line[Len(ids)]

Line == [k \in 1 .. n |-> out_buffer[k - 1]]

LineIsEdited == pc \notin {"idle", "advance", "edit"} => Line = Edited(consumed)

\* Before the reader waits or returns, exactly the line has been sent for echo
\* (keyboard.c:106-112, 120-124).
EchoIsComplete == pc \in {"wait", "hlt", "finish", "newline"} => echoed_n = n

\* The controller's characters are all read, unless the board loses the
\* interrupt of one: the handler leaves none behind (keyboard.c:29-32).
KeysLeaveTheDevice == fifo # <<>> ~> fifo = <<>> \/ lost

\* What the terminal shows when the line ends is the line (keyboard.c:72: "Lee
\* una linea de texto [...] gestionando eco y backspace"; the code does not keep
\* this promise).
EchoMatchesLine == pc = "newline" /\ pending = <<>> => screen = Line
=============================================================================
