---------------------------- MODULE Boot_proofs ----------------------------
(***************************************************************************)
(* The two halves of an address are exact for every width of the halves.   *)
(* The first pass counts right for every source: the address a label gets  *)
(* is the index of the word that the second pass emits for it.  Every      *)
(* instruction it accepts decodes to what was written: what the encoder    *)
(* puts into a word the decoder takes out of it.  And the first pass lays  *)
(* the objects of a source out where the sums of their sizes say, in each  *)
(* region and in both modes: AssemblyInv, which BootMemory_proofs follows  *)
(* into the image and into the RAM of the machine.                         *)
(***************************************************************************)
EXTENDS Boot, FiniteSetTheorems, NaturalsInduction, WellFoundedInduction, TLAPS
-----------------------------------------------------------------------------
(***************************************************************************)
(* The split of an address.                                                *)
(***************************************************************************)
\* Division of a natural number leaves a quotient and a remainder.
LEMMA DivMod ==
  ASSUME NEW n \in Nat, NEW d \in Nat \ {0}
  PROVE  /\ n \div d \in Nat /\ n % d \in 0 .. (d - 1)
         /\ n = (d * (n \div d)) + (n % d)
  OBVIOUS

\* A remainder is its own remainder, and one whole multiple leaves no trace.
LEMMA ModUnique ==
  ASSUME NEW d \in Nat \ {0}, NEW r \in 0 .. (d - 1)
  PROVE  /\ r % d = r
         /\ (r + d) % d = r
         /\ (r - d) % d = r
  OBVIOUS

\* The space is a whole number of halves, the lower half of which is sign.
LEMMA Widths ==
  /\ HALF \in Nat \ {0} /\ SPACE \in Nat \ {0} /\ SPACE = HALF * HALF
  /\ HALF \div 2 \in Nat /\ HALF = (HALF \div 2) + (HALF \div 2)
  BY HalfAssumption DEF SPACE

\* The quotient of an address by HALF is a half itself.
LEMMA UpperHalf ==
  ASSUME NEW t \in 0 .. (SPACE - 1)
  PROVE  (t \div HALF) \in 0 .. (HALF - 1)
<1>1. t \in Nat /\ HALF \in Nat \ {0}
  BY Widths
<1>2. t \div HALF \in Nat /\ t = (HALF * (t \div HALF)) + (t % HALF)
      /\ t % HALF \in 0 .. (HALF - 1)
  BY <1>1, DivMod
<1>3. HALF * (t \div HALF) < HALF * HALF
  BY <1>1, <1>2, Widths
<1>4. ASSUME t \div HALF >= HALF PROVE FALSE
  <2> DEFINE q == t \div HALF
  <2>1. q \in Nat /\ q >= HALF /\ HALF * q < HALF * HALF
    BY <1>2, <1>3, <1>4
  <2>2. HALF * q >= HALF * HALF
    <3> HIDE DEF q
    <3> QED BY <2>1, <1>1
  <2> QED BY <2>1, <2>2, <1>1
<1> QED BY <1>1, <1>2, <1>4

\* compute_hi_lo: the two immediates give the address back, for every word
\* index of the ROM and every address above, whatever the sign of the half.
THEOREM JoinedIsTarget ==
  ASSUME NEW t \in 0 .. (SPACE - 1)
  PROVE  Joined(high16(t), low16(t)) = t
<1> DEFINE q == t \div HALF
           r == t % HALF
<1>1. q \in 0 .. (HALF - 1) /\ r \in 0 .. (HALF - 1) /\ t = (HALF * q) + r
  <2>1. t \in Nat /\ HALF \in Nat \ {0}
    BY Widths
  <2>2. t = (HALF * (t \div HALF)) + (t % HALF) /\ t % HALF \in 0 .. (HALF - 1)
    BY <2>1, DivMod
  <2>3. t \div HALF \in 0 .. (HALF - 1)
    BY UpperHalf
  <2> QED BY <2>2, <2>3
<1>2. q % HALF = q
  BY <1>1, ModUnique, Widths
<1>3. t % SPACE = t /\ (t + SPACE) % SPACE = t /\ (t - SPACE) % SPACE = t
  BY ModUnique, Widths
<1>4. CASE r < HALF \div 2
  <2>1. high16(t) = q /\ low16(t) = r /\ SignExtend(r) = r
    BY <1>1, <1>2, <1>4, Widths DEF high16, low16, SignExtend
  <2>2. Joined(q, r) = ((q * HALF) + r) % SPACE
    BY <2>1 DEF Joined
  <2>3. (q * HALF) + r = t
    <3> HIDE DEF q, r
    <3> QED BY <1>1, Widths
  <2> QED BY <2>1, <2>2, <2>3, <1>3
<1>5. CASE r >= HALF \div 2
  <2>1. high16(t) = (q + 1) % HALF /\ low16(t) = r /\ SignExtend(r) = r - HALF
    BY <1>1, <1>5, Widths DEF high16, low16, SignExtend
  <2>2. CASE q < HALF - 1
    <3>1. (q + 1) % HALF = q + 1
      <4>1. q + 1 \in 0 .. (HALF - 1) /\ HALF \in Nat \ {0}
        BY <2>2, <1>1, Widths
      <4>2. \A d \in Nat \ {0} : \A n \in 0 .. (d - 1) : n % d = n
        BY ModUnique
      <4> HIDE DEF q
      <4> QED BY <4>1, <4>2
    <3>2. ((q + 1) * HALF) + (r - HALF) = t
      <4> HIDE DEF q, r
      <4> QED BY <1>1, Widths
    <3> QED BY <2>1, <3>1, <3>2, <1>3 DEF Joined
  <2>3. CASE q = HALF - 1
    <3>1. (q + 1) % HALF = 0
      BY <2>3, Widths
    <3>2. (0 * HALF) + (r - HALF) = t - SPACE
      <4> HIDE DEF q, r
      <4> QED BY <1>1, <2>3, Widths
    <3> QED BY <2>1, <3>1, <3>2, <1>3 DEF Joined
  <2> QED BY <2>2, <2>3, <1>1, Widths
<1> QED BY <1>4, <1>5, <1>1, Widths

\* Every address and every ROM word index has its split.
THEOREM SplitIsExact ==
  ASSUME NEW a \in 0 .. (SPACE - 1)
  PROVE  Joined(compute_hi_lo(a).hi, compute_hi_lo(a).lo) = physical(a)
<1>1. physical(a) \in 0 .. (SPACE - 1)
  <2>1. CASE a >= WORD_LIMIT
    BY <2>1, Widths DEF physical
  <2>2. CASE ~(a >= WORD_LIMIT)
    <3>1. 4 * a \in Nat /\ ROM_SIZE \in Nat \ {0}
      BY RomAssumption, Widths
    <3>2. (4 * a) % ROM_SIZE \in 0 .. (ROM_SIZE - 1)
      BY <3>1, DivMod
    <3>3. physical(a) = ROM_BASE + ((4 * a) % ROM_SIZE)
      BY <2>2 DEF physical
    <3>4. ROM_BASE = SPACE - ROM_SIZE /\ ROM_SIZE <= SPACE
      BY RomAssumption, Widths DEF ROM_BASE
    <3> HIDE DEF physical, ROM_BASE
    <3> QED BY <3>1, <3>2, <3>3, <3>4, Widths
  <2> QED BY <2>1, <2>2
<1> QED BY <1>1, JoinedIsTarget DEF compute_hi_lo

\* The injected .start copies word i with displacement 4 * i: it reaches its
\* place as long as the displacement is no more than the positive half.
THEOREM CopyReaches ==
  ASSUME NEW base \in Nat, NEW offset \in Nat,
         offset < HALF \div 2, base + offset < SPACE
  PROVE  (base + SignExtend(offset % HALF)) % SPACE = base + offset
<1>1. offset \in 0 .. (HALF - 1) /\ HALF \in Nat \ {0}
  BY Widths
<1>2. \A d \in Nat \ {0} : \A n \in 0 .. (d - 1) : n % d = n
  BY ModUnique
<1>3. offset % HALF = offset
  BY <1>1, <1>2
<1>4. SignExtend(offset) = offset
  BY Widths DEF SignExtend
<1>5. base + offset \in 0 .. (SPACE - 1) /\ SPACE \in Nat \ {0}
  BY Widths
<1>6. (base + offset) % SPACE = base + offset
  BY <1>2, <1>5
<1> QED BY <1>3, <1>4, <1>6

-----------------------------------------------------------------------------
(***************************************************************************)
(* What the first pass counts, and what it accepts.                        *)
(***************************************************************************)
-----------------------------------------------------------------------------
\* Sequences of anything, and the two records the first pass builds.
IsSeq(s) == \E S : s \in Seq(S)
Byte == Int \X Int

RomType(S) == [rom_address : Nat, pending : Seq(S), pending_bytes : Seq(Byte),
               text_start_word : Int]
RomCounts(r) == (\E S : r \in RomType(S)) /\ r.rom_address = Len(r.pending)

RamType == [rom_data_bytes : Seq(Byte), ram_data_offset : Nat, ram_bss_offset : Nat]
RamCounts(m) == m \in RamType /\ m.ram_data_offset = Len(m.rom_data_bytes)

FirstPassInv ==
  /\ batch \in Batches /\ job \in DOMAIN batch
  /\ phase = "first" => RomCounts(rom) /\ RamCounts(ram)

-----------------------------------------------------------------------------
\* Two sequences joined are as long as both.
LEMMA Concatenation ==
  ASSUME NEW S, NEW T, NEW a \in Seq(S), NEW b \in Seq(T)
  PROVE  a \o b \in Seq(S \union T) /\ Len(a \o b) = Len(a) + Len(b)
<1>1. a \in Seq(S \union T) /\ b \in Seq(S \union T)
  OBVIOUS
<1> QED BY <1>1

\* Zeros and the bytes of a directive are bytes, as many as asked for.
LEMMA ZerosAreBytes ==
  ASSUME NEW n \in Nat
  PROVE  Zeros(n) \in Seq(Byte) /\ Len(Zeros(n)) = n
  BY DEF Zeros, ZeroByte, Byte

LEMMA DataAreBytes ==
  ASSUME NEW data \in Seq(Nat)
  PROVE  DataBytes(data) \in Seq(Byte) /\ Len(DataBytes(data)) = Len(data)
  BY DEF DataBytes, Byte

\* Padding is a number of bytes.
LEMMA PadIsNat ==
  ASSUME NEW n \in Nat, NEW k \in Nat \ {0}
  PROVE  Pad(n, k) \in Nat
<1>1. n % k \in 0 .. (k - 1)
  OBVIOUS
<1>2. k - (n % k) \in Nat
  BY <1>1
<1> QED BY <1>2 DEF Pad

\* Packing makes a sequence of words.
LEMMA PackedIsSeq ==
  ASSUME NEW bytes \in Seq(Byte)
  PROVE  IsSeq(Packed(bytes))
<1> DEFINE n == (Len(bytes) + 3) \div 4
           S == {Packed(bytes)[w] : w \in 1 .. n}
<1>1. n \in Nat
  OBVIOUS
<1>2. Packed(bytes) \in [1 .. n -> S]
  BY DEF Packed
<1>3. Packed(bytes) \in Seq(S)
  <2> HIDE DEF n, S
  <2> QED BY <1>1, <1>2
<1> QED BY <1>3 DEF IsSeq

LEMMA ZeroWordsIsSeq ==
  ASSUME NEW n \in Nat, NEW l
  PROVE  IsSeq(ZeroWords(n, l))
<1> DEFINE w == Raw(Zeros(4), NoExpr, l)
<1>1. ZeroWords(n, l) \in [1 .. n -> {w}]
  BY DEF ZeroWords
<1>2. ZeroWords(n, l) \in Seq({w})
  <2> HIDE DEF w
  <2> QED BY <1>1
<1> QED BY <1>2 DEF IsSeq

-----------------------------------------------------------------------------
\* Each operation on the image keeps the count.
LEMMA EmittedCounts ==
  ASSUME NEW r, RomCounts(r), NEW items, IsSeq(items)
  PROVE  RomCounts(Emitted(r, items))
<1>1. PICK S : r \in RomType(S)
  BY DEF RomCounts
<1>2. PICK T : items \in Seq(T)
  BY DEF IsSeq
<1>3. r.pending \in Seq(S) /\ r.rom_address \in Nat /\ r.rom_address = Len(r.pending)
  BY <1>1 DEF RomType, RomCounts
<1>4. r.pending \o items \in Seq(S \union T)
      /\ Len(r.pending \o items) = Len(r.pending) + Len(items)
  BY <1>2, <1>3, Concatenation
<1>5. Len(items) \in Nat
  BY <1>2
<1>6. Emitted(r, items) \in RomType(S \union T)
  <2>1. r.rom_address + Len(items) \in Nat
    BY <1>3, <1>5
  <2>2. /\ r.pending_bytes \in Seq(Byte) /\ r.text_start_word \in Int
    BY <1>1 DEF RomType
  <2> QED BY <1>4, <2>1, <2>2 DEF Emitted, RomType
<1>7. /\ Emitted(r, items).rom_address = r.rom_address + Len(items)
      /\ Emitted(r, items).pending = r.pending \o items
  BY <1>1 DEF Emitted, RomType
<1> QED BY <1>3, <1>4, <1>6, <1>7 DEF RomCounts

LEMMA MarkedCounts ==
  ASSUME NEW r, RomCounts(r)
  PROVE  RomCounts(Marked(r))
<1>1. PICK S : r \in RomType(S)
  BY DEF RomCounts
<1>2. Marked(r) \in RomType(S)
  BY <1>1 DEF Marked, RomType, None
<1>3. Marked(r).rom_address = r.rom_address /\ Marked(r).pending = r.pending
  BY <1>1 DEF Marked, RomType
<1> QED BY <1>2, <1>3 DEF RomCounts

LEMMA EmptiedCounts ==
  ASSUME NEW r, RomCounts(r), NEW bytes \in Seq(Byte)
  PROVE  RomCounts([r EXCEPT !.pending_bytes = bytes])
<1>1. PICK S : r \in RomType(S)
  BY DEF RomCounts
<1> DEFINE e == [r EXCEPT !.pending_bytes = bytes]
<1>2. e \in RomType(S) /\ e.rom_address = r.rom_address /\ e.pending = r.pending
  BY <1>1 DEF RomType
<1> QED BY <1>2 DEF RomCounts

LEMMA FlushCounts ==
  ASSUME NEW r, RomCounts(r)
  PROVE  RomCounts(flush_pending_bytes(r))
<1>1. r.pending_bytes \in Seq(Byte)
  BY DEF RomCounts, RomType
<1>2. RomCounts(Emitted(Marked(r), Packed(r.pending_bytes)))
  BY <1>1, PackedIsSeq, MarkedCounts, EmittedCounts
<1>3. <<>> \in Seq(Byte)
  OBVIOUS
<1> QED BY <1>2, <1>3, EmptiedCounts DEF flush_pending_bytes

LEMMA AlignedCounts ==
  ASSUME NEW r, RomCounts(r), NEW k \in Nat, NEW l
  PROVE  RomCounts(AlignedWords(r, k, l))
<1> DEFINE n == IF k > 4 THEN Pad(r.rom_address, k \div 4) ELSE 0
<1>1. r.rom_address \in Nat
  BY DEF RomCounts, RomType
<1>2. n \in Nat
  <2>1. k > 4 => k \div 4 \in Nat \ {0}
    OBVIOUS
  <2> QED BY <1>1, <2>1, PadIsNat
<1> HIDE DEF n
<1>3. IsSeq(ZeroWords(n, l))
  BY <1>2, ZeroWordsIsSeq
<1> QED BY <1>3, EmittedCounts DEF AlignedWords, n

LEMMA WaitingCounts ==
  ASSUME NEW r, RomCounts(r), NEW bytes \in Seq(Byte)
  PROVE  RomCounts([r EXCEPT !.pending_bytes = @ \o bytes])
<1>1. r.pending_bytes \in Seq(Byte)
  BY DEF RomCounts, RomType
<1>2. r.pending_bytes \o bytes \in Seq(Byte)
  BY <1>1
<1>3. [r EXCEPT !.pending_bytes = @ \o bytes]
        = [r EXCEPT !.pending_bytes = r.pending_bytes \o bytes]
  OBVIOUS
<1> QED BY <1>2, <1>3, EmptiedCounts

\* And each operation on RAM.
LEMMA DataCounts ==
  ASSUME NEW m, RamCounts(m), NEW bytes \in Seq(Byte)
  PROVE  RamCounts(AppendedData(m, bytes))
<1>1. /\ m \in RamType /\ m.rom_data_bytes \in Seq(Byte) /\ m.ram_data_offset \in Nat
      /\ m.ram_data_offset = Len(m.rom_data_bytes)
  BY DEF RamCounts, RamType
<1>2. m.rom_data_bytes \o bytes \in Seq(Byte)
      /\ Len(m.rom_data_bytes \o bytes) = Len(m.rom_data_bytes) + Len(bytes)
  BY <1>1
<1>3. Len(bytes) \in Nat
  OBVIOUS
<1>4. m.ram_bss_offset \in Nat
  BY <1>1 DEF RamType
<1>5. AppendedData(m, bytes) =
        [rom_data_bytes |-> m.rom_data_bytes \o bytes,
         ram_data_offset |-> m.ram_data_offset + Len(bytes),
         ram_bss_offset |-> m.ram_bss_offset]
  BY DEF AppendedData
<1>6. m.ram_data_offset + Len(bytes) \in Nat
  BY <1>1, <1>3
<1> QED BY <1>1, <1>2, <1>4, <1>5, <1>6 DEF RamCounts, RamType

LEMMA BssCounts ==
  ASSUME NEW m, RamCounts(m), NEW n \in Nat
  PROVE  RamCounts(ReservedBss(m, n))
  BY DEF RamCounts, RamType, ReservedBss

-----------------------------------------------------------------------------
\* The line being read has the form the regular expressions ask for.
LEMMA LineIsTyped ==
  ASSUME FirstPassInv, NEW dir, Reading(dir)
  PROVE  /\ ThisLine.dir = dir
         /\ dir = "comm" => ThisLine.size \in Nat /\ ThisLine.align \in Nat
         /\ dir = "align" => ThisLine.bytes \in Nat \ {0}
         /\ dir = "long" => ThisLine.data \in Seq(Nat)
         /\ dir = "data" => ThisLine.data \in Seq(Nat) /\ ThisLine.unit \in Nat \ {0}
         /\ dir = "zero" => ThisLine.n \in Nat
  BY BatchAssumption DEF FirstPassInv, Reading, ThisLine, lines

\* While lines are read both counts hold, and what the bytes need to be padded.
LEMMA Counted ==
  ASSUME FirstPassInv, phase = "first"
  PROVE  /\ RomCounts(rom) /\ RamCounts(ram)
         /\ ram.ram_data_offset \in Nat /\ ram.ram_bss_offset \in Nat
  BY DEF FirstPassInv, RamCounts, RamType

LEMMA PadsAreBytes ==
  ASSUME FirstPassInv, phase = "first", NEW k \in Nat \ {0}
  PROVE  DataPad(k) \in Seq(Byte) /\ BssPad(k) \in Nat
<1>1. ram.ram_data_offset \in Nat /\ ram.ram_bss_offset \in Nat
  BY Counted
<1>2. Pad(ram.ram_data_offset, k) \in Nat /\ Pad(ram.ram_bss_offset, k) \in Nat
  BY <1>1, PadIsNat
<1> QED BY <1>2, ZerosAreBytes DEF DataPad, BssPad

LEMMA OneItem ==
  ASSUME NEW x
  PROVE  IsSeq(<<x>>)
<1>1. <<x>> \in Seq({x})
  OBVIOUS
<1> QED BY <1>1 DEF IsSeq

-----------------------------------------------------------------------------
\* One lemma per line that counts: what it does to the image and to RAM.
LEMMA CommKeeps ==
  ASSUME FirstPassInv, Comm
  PROVE  RomCounts(rom)' /\ RamCounts(ram)'
<1>1. /\ phase = "first" /\ Reading("comm")
  BY DEF Comm, Reading
<1>2. ThisLine.size \in Nat /\ ThisLine.align \in Nat
  BY <1>1, LineIsTyped
<1>3. RomCounts(rom) /\ RamCounts(ram)
  BY <1>1, Counted
<1>4. CASE ThisLine.name \in DOMAIN label_map
  BY <1>3, <1>4 DEF Comm
<1>5. CASE ThisLine.name \notin DOMAIN label_map /\ mode = "rom"
  <2> DEFINE k == IF ThisLine.align > 0 THEN ThisLine.align ELSE 1
  <2>1. k \in Nat \ {0}
    BY <1>2
  <2> HIDE DEF k
  <2>2. BssPad(k) + ThisLine.size \in Nat
    BY <1>1, <1>2, <2>1, PadsAreBytes
  <2>3. ram' = ReservedBss(ram, BssPad(k) + ThisLine.size) /\ rom' = rom
    BY <1>5 DEF Comm, CommRom, k
  <2> QED BY <1>3, <2>2, <2>3, BssCounts
<1>6. CASE ThisLine.name \notin DOMAIN label_map /\ mode # "rom"
  <2> DEFINE aligned == AlignedWords(rom, ThisLine.align, line)
             words == ZeroWords((ThisLine.size + 3) \div 4, line)
  <2>1. RomCounts(aligned)
    BY <1>2, <1>3, AlignedCounts
  <2>2. (ThisLine.size + 3) \div 4 \in Nat
    BY <1>2
  <2>3. IsSeq(words)
    BY <2>2, ZeroWordsIsSeq
  <2>4. rom' = Emitted(aligned, words) /\ ram' = ram
    BY <1>6 DEF Comm, CommRam
  <2> HIDE DEF aligned, words
  <2> QED BY <1>3, <2>1, <2>3, <2>4, EmittedCounts
<1> QED BY <1>4, <1>5, <1>6

LEMMA AlignKeeps ==
  ASSUME FirstPassInv, Align
  PROVE  RomCounts(rom)' /\ RamCounts(ram)'
<1>1. /\ phase = "first" /\ Reading("align")
  BY DEF Align, Reading
<1> DEFINE k == ThisLine.bytes
<1>2. k \in Nat \ {0}
  BY <1>1, LineIsTyped
<1>3. RomCounts(rom) /\ RamCounts(ram)
  BY <1>1, Counted
<1>4. CASE ToImage
  <2> DEFINE flushed == flush_pending_bytes(rom)
             aligned == AlignedWords(flushed, k, line)
             padded == AlignedWords(Marked(flushed), k, line)
  <2>1. RomCounts(flushed)
    BY <1>3, FlushCounts
  <2>2. RomCounts(padded)
    BY <1>2, <2>1, MarkedCounts, AlignedCounts
  <2>3. rom' \in {flushed, padded} /\ ram' = ram
    BY <1>4 DEF Align, ToImage
  <2> HIDE DEF flushed, padded
  <2> QED BY <1>3, <2>1, <2>2, <2>3
<1>5. CASE ~ToImage
  <2>1. \/ ram' = AppendedData(ram, DataPad(k)) /\ rom' = rom
        \/ ram' = ReservedBss(ram, BssPad(k)) /\ rom' = rom
    BY <1>5 DEF Align
  <2>2. DataPad(k) \in Seq(Byte) /\ BssPad(k) \in Nat
    BY <1>1, <1>2, PadsAreBytes
  <2> HIDE DEF k
  <2> QED BY <1>3, <2>1, <2>2, DataCounts, BssCounts
<1> QED BY <1>4, <1>5

LEMMA LongKeeps ==
  ASSUME FirstPassInv, Long
  PROVE  RomCounts(rom)' /\ RamCounts(ram)'
<1>1. /\ phase = "first" /\ Reading("long")
  BY DEF Long, Reading
<1> DEFINE data == DataBytes(ThisLine.data)
           item == Raw(data, ThisLine.expr, line)
<1>2. data \in Seq(Byte)
  BY <1>1, LineIsTyped, DataAreBytes
<1>3. RomCounts(rom) /\ RamCounts(ram)
  BY <1>1, Counted
<1>4. CASE ToImage
  <2>1. RomCounts(Marked(flush_pending_bytes(rom)))
    BY <1>3, FlushCounts, MarkedCounts
  <2>2. rom' = Emitted(Marked(flush_pending_bytes(rom)), <<item>>) /\ ram' = ram
    BY <1>4 DEF Long, ToImage
  <2>3. IsSeq(<<item>>)
    BY OneItem
  <2> HIDE DEF item
  <2> QED BY <1>3, <2>1, <2>2, <2>3, EmittedCounts
<1>5. CASE ~ToImage
  <2> DEFINE padded == AppendedData(ram, DataPad(4))
  <2>1. \/ ram' = AppendedData(padded, data) /\ rom' = rom
        \/ ram' = ReservedBss(ram, BssPad(4) + 4) /\ rom' = rom
    BY <1>5 DEF Long
  <2>2. DataPad(4) \in Seq(Byte) /\ BssPad(4) \in Nat
    BY <1>1, PadsAreBytes
  <2>3. RamCounts(padded)
    BY <1>3, <2>2, DataCounts
  <2>4. BssPad(4) + 4 \in Nat
    BY <2>2
  <2> HIDE DEF padded, data
  <2> QED BY <1>2, <1>3, <2>1, <2>3, <2>4, DataCounts, BssCounts
<1> QED BY <1>4, <1>5

LEMMA DataKeeps ==
  ASSUME FirstPassInv, Data
  PROVE  RomCounts(rom)' /\ RamCounts(ram)'
<1>1. /\ phase = "first" /\ Reading("data")
  BY DEF Data, Reading
<1> DEFINE data == DataBytes(ThisLine.data)
           k == ThisLine.unit
<1>2. data \in Seq(Byte) /\ Len(data) \in Nat /\ k \in Nat \ {0}
  BY <1>1, LineIsTyped, DataAreBytes
<1>3. RomCounts(rom) /\ RamCounts(ram)
  BY <1>1, Counted
<1>4. DataPad(k) \in Seq(Byte) /\ BssPad(k) \in Nat
  BY <1>1, <1>2, PadsAreBytes
<1>5. \/ rom' = [rom EXCEPT !.pending_bytes = @ \o data] /\ ram' = ram
      \/ ram' = AppendedData(ram, DataPad(k) \o data) /\ rom' = rom
      \/ ram' = ReservedBss(ram, BssPad(k) + Len(data)) /\ rom' = rom
  BY DEF Data
<1> HIDE DEF data, k
<1>6. DataPad(k) \o data \in Seq(Byte) /\ BssPad(k) + Len(data) \in Nat
  BY <1>2, <1>4
<1>7. RomCounts([rom EXCEPT !.pending_bytes = @ \o data])
  BY <1>2, <1>3, WaitingCounts
<1> QED BY <1>3, <1>5, <1>6, <1>7, DataCounts, BssCounts

LEMMA ZeroKeeps ==
  ASSUME FirstPassInv, Zero
  PROVE  RomCounts(rom)' /\ RamCounts(ram)'
<1>1. /\ phase = "first" /\ Reading("zero")
  BY DEF Zero, Reading
<1> DEFINE n == ThisLine.n
<1>2. n \in Nat /\ Zeros(n) \in Seq(Byte)
  BY <1>1, LineIsTyped, ZerosAreBytes
<1>3. RomCounts(rom) /\ RamCounts(ram)
  BY <1>1, Counted
<1>4. \/ rom' = [rom EXCEPT !.pending_bytes = @ \o Zeros(n)] /\ ram' = ram
      \/ ram' = AppendedData(ram, Zeros(n)) /\ rom' = rom
      \/ ram' = ReservedBss(ram, n) /\ rom' = rom
  BY DEF Zero
<1> HIDE DEF n
<1>5. RomCounts([rom EXCEPT !.pending_bytes = @ \o Zeros(n)])
  BY <1>2, <1>3, WaitingCounts
<1> QED BY <1>2, <1>3, <1>4, <1>5, DataCounts, BssCounts

LEMMA CodeKeeps ==
  ASSUME FirstPassInv, Label \/ Instruction
  PROVE  RomCounts(rom)' /\ RamCounts(ram)'
<1>1. phase = "first"
  BY DEF Label, Instruction, Reading
<1>2. RomCounts(rom) /\ RamCounts(ram)
  BY <1>1, Counted
<1>3. CASE Label
  <2>1. rom' = flush_pending_bytes(rom) /\ ram' = ram
    BY <1>3 DEF Label
  <2> QED BY <1>2, <2>1, FlushCounts
<1>4. CASE Instruction
  <2> DEFINE item == Pending(ThisLine.ins, line)
  <2>1. rom' = Emitted(Marked(flush_pending_bytes(rom)), <<item>>) /\ ram' = ram
    BY <1>4 DEF Instruction
  <2> HIDE DEF item
  <2>2. RomCounts(Emitted(Marked(flush_pending_bytes(rom)), <<item>>))
    BY <1>2, FlushCounts, MarkedCounts, EmittedCounts, OneItem
  <2> QED BY <1>2, <2>1, <2>2
<1> QED BY <1>3, <1>4

-----------------------------------------------------------------------------
\* A first pass begins with nothing counted and nothing emitted.
LEMMA EmptyCounts == RomCounts(EmptyRom) /\ RamCounts(EmptyRam)
<1>1. EmptyRom \in RomType({}) /\ EmptyRom.rom_address = 0 /\ EmptyRom.pending = <<>>
  BY DEF EmptyRom, RomType, None
<1>2. Len(<<>>) = 0
  OBVIOUS
<1>3. RomCounts(EmptyRom)
  BY <1>1, <1>2 DEF RomCounts
<1>4. RamCounts(EmptyRam)
  BY DEF EmptyRam, RamCounts, RamType
<1> QED BY <1>3, <1>4

LEMMA InitCounts ==
  ASSUME BootInit
  PROVE  FirstPassInv
  BY EmptyCounts, BatchesStart DEF BootInit, Init, FirstPassInv

LEMMA StepCounts ==
  ASSUME FirstPassInv, [BootNext]_vars
  PROVE  FirstPassInv'
<1>1. CASE FirstPass /\ ~Raise
  <2>1. batch' = batch /\ job' = job
    BY <1>1 DEF FirstPass, Section, Comm, Align, Long, Data, Zero, Label, Ignored,
                Instruction, Reading
  <2>2. RomCounts(rom)' /\ RamCounts(ram)'
    <3>1. CASE Section \/ Ignored
      BY <3>1, Counted DEF Section, Ignored, Reading
    <3> QED BY <1>1, <3>1, CommKeeps, AlignKeeps, LongKeeps, DataKeeps, ZeroKeeps,
               CodeKeeps DEF FirstPass
  <2> QED BY <2>1, <2>2 DEF FirstPassInv
<1>2. CASE Raise \/ EndFirstPass \/ SecondPass
  BY <1>2 DEF FirstPassInv, Raise, EndFirstPass, SecondPass
<1>3. CASE NextJob
  BY <1>3, EmptyCounts DEF FirstPassInv, NextJob, Begin
<1>4. CASE write_rom_logisim
  BY <1>4 DEF FirstPassInv, write_rom_logisim
<1>5. CASE Cpu \/ UNCHANGED vars
  <2>1. UNCHANGED asm_vars
    BY <1>5 DEF Cpu, CpuNop, CpuLdi, CpuAdi, CpuLod, CpuStr, CpuJmp, CpuHlt, CpuLost,
                Executing, vars
  <2> QED BY <2>1 DEF FirstPassInv, asm_vars
<1> QED BY <1>1, <1>2, <1>3, <1>4, <1>5 DEF BootNext, Running, Assemble

\* For every source, mode and sequence of jobs: what the first pass counts
\* is what it has emitted (AddressesCountWords).
THEOREM AddressesAlwaysCountWords == BootSpec => []AddressesCountWords
<1>1. BootInit => FirstPassInv
  BY InitCounts
<1>2. FirstPassInv /\ [BootNext]_vars => FirstPassInv'
  BY StepCounts
<1>3. FirstPassInv => AddressesCountWords
  BY DEF FirstPassInv, RomCounts, RamCounts, AddressesCountWords
<1> QED BY <1>1, <1>2, <1>3, PTL DEF BootSpec

-----------------------------------------------------------------------------
(***************************************************************************)
(* What the decoder cuts out of a word is what the encoder put there.      *)
(***************************************************************************)
LEMMA DivUnique ==
  ASSUME NEW d \in Nat \ {0}, NEW x \in Nat, NEW y \in 0 .. (d - 1)
  PROVE  ((d * x) + y) \div d = x /\ ((d * x) + y) % d = y
<1> DEFINE n == (d * x) + y
           q == n \div d
           r == n % d
<1>1. d * x \in Nat
  OBVIOUS
<1>2. n \in Nat
  BY <1>1
<1>3. q \in Nat /\ r \in 0 .. (d - 1) /\ n = (d * q) + r
  <2> HIDE DEF n
  <2> QED BY <1>2, DivMod
<1>4. (d * x) + y = (d * q) + r
  BY <1>3
<1> HIDE DEF n, q, r
<1>5. d * (q - x) = y - r
  BY <1>3, <1>4
<1>6. q - x = 0
  <2> DEFINE k == q - x
  <2>1. k \in Int /\ d * k = y - r /\ y - r < d /\ r - y < d
    BY <1>3, <1>5
  <2> HIDE DEF k
  <2> PICK p : p = d * k
    OBVIOUS
  <2>2. (k >= 1 => p >= d) /\ (k <= -1 => p <= -d)
    BY <2>1
  <2>3. p < d /\ -d < p
    BY <1>3, <2>1
  <2>4. k = 0
    BY <2>1, <2>2, <2>3
  <2> QED BY <2>4 DEF k
<1>7. q = x /\ r = y
  BY <1>3, <1>4, <1>6
<1> QED BY <1>7 DEF n, q, r

\* The third operand has four bits of the lower half to itself.
LEMMA Sixteenths ==
  /\ HALF \div 16 \in Nat \ {0} /\ HALF = 16 * (HALF \div 16)
  /\ HALF \in Nat \ {0} /\ 16 * HALF \in Nat \ {0}
  BY HalfAssumption

LEMMA Thirds ==
  ASSUME NEW c \in 0 .. 15
  PROVE  (HALF \div 16) * c \in 0 .. (HALF - 1)
<1>1. (HALF \div 16) * c \in Nat /\ (HALF \div 16) * c <= (HALF \div 16) * 15
  BY Sixteenths
<1> QED BY <1>1, Sixteenths

\* A word that holds the operands a, b and i.
Operands(a, b, i) == (16 * HALF) * a + HALF * b + i
Holds(word, a, b, i) ==
  /\ a \in 0 .. 15 /\ b \in 0 .. 15 /\ i \in 0 .. (HALF - 1)
  /\ word.operands = Operands(a, b, i)

LEMMA FieldsCut ==
  ASSUME NEW a, NEW b, NEW i, NEW word, Holds(word, a, b, i)
  PROVE  FieldA(word) = a /\ FieldB(word) = b /\ Inmd(word) = i
<1> DEFINE low == HALF * b + i
           high == 16 * a + b
<1>1. /\ a \in 0 .. 15 /\ b \in 0 .. 15 /\ i \in 0 .. (HALF - 1)
      /\ word.operands = Operands(a, b, i)
  BY DEF Holds
<1>2. low \in 0 .. ((16 * HALF) - 1)
  <2>1. HALF * b <= HALF * 15 /\ HALF * b \in Nat
    BY <1>1, Sixteenths
  <2> QED BY <1>1, <2>1, Sixteenths
<1>3. word.operands = (16 * HALF) * a + low /\ word.operands = HALF * high + i
  <2>1. HALF * high = (16 * HALF) * a + HALF * b
    BY <1>1, Sixteenths
  <2>2. (16 * HALF) * a \in Nat /\ HALF * b \in Nat
    BY <1>1, Sixteenths
  <2> QED BY <1>1, <2>1, <2>2 DEF Operands
<1>4. word.operands \div (16 * HALF) = a
  <2> HIDE DEF low
  <2> QED BY <1>1, <1>2, <1>3, Sixteenths, DivUnique, SMTT(30)
<1>5. word.operands \div HALF = high /\ word.operands % HALF = i
  <2>1. high \in Nat
    BY <1>1
  <2> HIDE DEF high
  <2>2. (HALF * high + i) \div HALF = high /\ (HALF * high + i) % HALF = i
    BY <1>1, <2>1, Sixteenths, DivUnique
  <2> QED BY <1>3, <2>2
<1>6. a % 16 = a /\ high % 16 = b
  BY <1>1
<1> QED BY <1>4, <1>5, <1>6 DEF FieldA, FieldB, Inmd

\* The third one, in four bits of the lower half.
LEMMA ThirdCut ==
  ASSUME NEW c \in 0 .. 15, NEW word, Inmd(word) = (HALF \div 16) * c
  PROVE  FieldC(word) = c
<1> DEFINE d == HALF \div 16
<1>1. d \in Nat \ {0} /\ Inmd(word) = (d * c) + 0 /\ 0 \in 0 .. (d - 1)
  BY Sixteenths
<1>2. Inmd(word) \div d = c
  <2> HIDE DEF d
  <2>1. ((d * c) + 0) \div d = c
    BY <1>1, DivUnique
  <2> QED BY <1>1, <2>1
<1>3. c % 16 = c
  OBVIOUS
<1> QED BY <1>2, <1>3 DEF FieldC, Inmd

(***************************************************************************)
(* A field that could be read holds what its argument says.                *)
(***************************************************************************)
Classes == {"reg", "sreg", "cond", "offset", "imm", "simm"}
Narrow == {"reg", "sreg", "cond"}
Addresses(labels) == \A name \in DOMAIN labels : labels[name] \in Int
Legible(f, class, arg) ==
  /\ Means(f, arg)
  /\ class \in Narrow => f \in 0 .. 15
  /\ f \in 0 .. (HALF - 1)

LEMMA Halves ==
  ASSUME NEW a \in Int
  PROVE  compute_hi_lo(a).hi \in 0 .. (HALF - 1) /\ compute_hi_lo(a).lo \in 0 .. (HALF - 1)
<1>1. \A t \in Int : t % HALF \in 0 .. (HALF - 1) /\ t \div HALF \in Int
  BY Sixteenths
<1>2. physical(a) \in Int
  <2>1. (4 * a) % ROM_SIZE \in Int
    BY RomAssumption
  <2>2. ROM_BASE \in Int
    BY RomAssumption, Widths DEF ROM_BASE
  <2> QED BY <2>1, <2>2 DEF physical
<1> DEFINE t == physical(a)
<1>3. t \in Int /\ t \div HALF \in Int /\ (t \div HALF) + 1 \in Int
  BY <1>1, <1>2
<1> HIDE DEF t
<1>4. high16(t) \in 0 .. (HALF - 1) /\ low16(t) \in 0 .. (HALF - 1)
  BY <1>1, <1>3 DEF high16, low16
<1> QED BY <1>4 DEF compute_hi_lo, t

LEMMA ImmediateMeans ==
  ASSUME NEW arg \in Argument, NEW signed \in BOOLEAN,
         parse_immediate(arg, signed) # Invalid
  PROVE  /\ Means(parse_immediate(arg, signed), arg)
         /\ parse_immediate(arg, signed) \in 0 .. (HALF - 1)
<1> DEFINE n == arg.n
<1>1. arg.kind = "num" /\ n \in -(HALF \div 2) .. (HALF - 1)
      /\ parse_immediate(arg, signed) = n % HALF
  BY Widths DEF parse_immediate
<1>2. n % HALF \in 0 .. (HALF - 1) /\ n \in {n % HALF, (n % HALF) - HALF}
  <2> HIDE DEF n
  <2>1. n \in Int /\ -HALF <= n /\ n < HALF
    BY <1>1, Widths
  <2>2. CASE n >= 0
    <3>1. n \in 0 .. (HALF - 1)
      BY <2>1, <2>2, Widths
    <3>2. n % HALF = n
      BY <3>1, Widths, ModUnique
    <3> QED BY <3>1, <3>2
  <2>3. CASE n < 0
    <3> DEFINE r == n + HALF
    <3>1. r \in 0 .. (HALF - 1) /\ n = r - HALF
      BY <2>1, <2>3, Widths
    <3> HIDE DEF r
    <3>2. n % HALF = r
      BY <3>1, Widths, ModUnique
    <3> QED BY <3>1, <3>2
  <2> QED BY <2>1, <2>2, <2>3
<1> QED BY <1>1, <1>2 DEF Means

LEMMA FieldMeans ==
  ASSUME NEW ins, NEW class \in Classes, NEW arg \in Argument, NEW labels, Addresses(labels),
         Field(ins, class, arg, labels) # Invalid
  PROVE  Legible(Field(ins, class, arg, labels), class, arg)
<1>1. HALF > 15
  BY Sixteenths
<1>2. CASE class = "reg"
  <2>1. /\ Field(ins, class, arg, labels) = arg.n
        /\ arg.kind = "R" /\ arg.n \in 0 .. 15
    BY <1>2 DEF Field, parse_register
  <2> QED BY <1>1, <2>1, Sixteenths DEF Legible, Means
<1>3. CASE class = "sreg"
  <2>1. /\ Field(ins, class, arg, labels) = arg.n
        /\ arg.kind = "SR" /\ arg.n \in 0 .. 15
    BY <1>3 DEF Field, parse_special_register
  <2> QED BY <1>1, <2>1, Sixteenths DEF Legible, Means
<1>4. CASE class = "cond"
  <2>1. /\ Field(ins, class, arg, labels) = CONDITIONS[arg.cond]
        /\ arg.kind = "cond" /\ arg.cond \in DOMAIN CONDITIONS
    BY <1>4 DEF Field, parse_condition
  <2>2. \A c \in DOMAIN CONDITIONS : CONDITIONS[c] \in 0 .. 15
    BY DEF CONDITIONS
  <2> QED BY <1>1, <2>1, <2>2, Sixteenths DEF Legible, Means
<1>5. CASE class = "offset"
  <2>1. Field(ins, class, arg, labels) = parse_immediate(arg, TRUE)
    BY <1>5 DEF Field
  <2> QED BY <1>5, <2>1, ImmediateMeans DEF Legible, Narrow
<1>6. CASE class \in {"imm", "simm"}
  <2> DEFINE signed == class = "simm"
             kind == PseudoKind(ins)
  <2>1. Field(ins, class, arg, labels) = _resolve_imm_or_pseudo(arg, labels, kind, signed)
    BY <1>6 DEF Field
  <2>2. signed \in BOOLEAN /\ kind \in {"hi", "lo"}
    BY DEF PseudoKind
  <2> HIDE DEF signed, kind
  <2>3. CASE arg.kind \notin {"hi", "lo", "sym"}
    <3>1. Field(ins, class, arg, labels) = parse_immediate(arg, signed)
      BY <2>1, <2>3 DEF _resolve_imm_or_pseudo
    <3> QED BY <1>6, <2>2, <3>1, ImmediateMeans DEF Legible, Narrow
  <2>4. CASE arg.kind \in {"hi", "lo", "sym"}
    <3> DEFINE a == eval_label_expr(arg, labels)
               halves == compute_hi_lo(a)
    <3>1. /\ arg.sym \in DOMAIN labels
          /\ Field(ins, class, arg, labels) = halves[IF arg.kind = "sym" THEN kind ELSE arg.kind]
      BY <2>1, <2>4 DEF _resolve_imm_or_pseudo, Defined
    <3>2. arg.off \in Int
      BY <2>4 DEF Argument
    <3>3. a \in Int
      BY <3>1, <3>2 DEF eval_label_expr, Addresses
    <3> HIDE DEF a
    <3>4. halves.hi \in 0 .. (HALF - 1) /\ halves.lo \in 0 .. (HALF - 1)
      BY <3>3, Halves
    <3>5. (IF arg.kind = "sym" THEN kind ELSE arg.kind) \in {"hi", "lo"}
      BY <2>2, <2>4
    <3> HIDE DEF halves
    <3>6. Field(ins, class, arg, labels) \in {halves["hi"], halves["lo"]}
      BY <3>1, <3>5
    <3> QED BY <1>6, <2>4, <3>4, <3>6 DEF Legible, Means, Narrow
  <2> QED BY <2>3, <2>4
<1> QED BY <1>2, <1>3, <1>4, <1>5, <1>6 DEF Classes

(***************************************************************************)
(* One instruction: what the decoder reads is what was written, for every  *)
(* mnemonic and every layout of its arguments.                             *)
(***************************************************************************)
LEMMA MnemonicOf ==
  ASSUME NEW m \in DOMAIN OPCODES, NEW word, word.op = OPCODES[m]
  PROVE  Decoded(word).mnemonic = m
<1>1. \A n \in DOMAIN OPCODES : OPCODES[n] = OPCODES[m] => n = m
  BY DEF OPCODES
<1>2. (CHOOSE n \in DOMAIN OPCODES : OPCODES[n] = word.op) = m
  BY <1>1
<1> QED BY <1>2 DEF Decoded

LEMMA TipoIs ==
  ASSUME NEW prefix
  PROVE  /\ prefix \in DOMAIN MEM_TYPES => Tipo(prefix) = MEM_TYPES[prefix]
         /\ prefix \in {"H", "SLT"} <=> Tipo(prefix) = 4
<1>1. DOMAIN MEM_TYPES = {"CHAR", "SHORT", "INT"}
  BY DEF MEM_TYPES
<1>2. \A p \in {"CHAR", "SHORT", "INT"} : MEM_TYPES[p] \in 0 .. 2
  BY DEF MEM_TYPES
<1> QED BY <1>1, <1>2 DEF Tipo

\* The field an argument goes to, and what is known of it once accepted.
FieldOf(ins, i, labels) == Field(ins, Layout(ins.mnemonic)[i][1], ins.args[i], labels)

Accepted(ins, labels) ==
  \A i \in 1 .. Len(ins.args) :
    LET f == FieldOf(ins, i, labels)
    IN  /\ Means(f, ins.args[i])
        /\ f \in 0 .. (HALF - 1)
        /\ Layout(ins.mnemonic)[i][2] # "I" => f \in 0 .. 15

LEMMA LayoutOf ==
  ASSUME NEW m \in DOMAIN OPCODES
  PROVE  /\ Len(Layout(m)) \in 0 .. 3 /\ DOMAIN Layout(m) = 1 .. Len(Layout(m))
         /\ \A i \in 1 .. Len(Layout(m)) :
              /\ Layout(m)[i][1] \in Classes /\ Layout(m)[i][2] \in {"A", "B", "C", "I"}
              /\ Layout(m)[i][2] # "I" => Layout(m)[i][1] \in Narrow
<1> PICK layout : layout = Layout(m)
  OBVIOUS
<1>1. CASE m \in ThreeRegisters
  <2>1. layout = <<<<"reg", "A">>, <<"reg", "B">>, <<"reg", "C">>>>
    BY <1>1 DEF Layout, ThreeRegisters, MEM_INSTRUCTIONS
  <2> QED BY <2>1 DEF Classes, Narrow
<1>2. CASE m = "GOF"
  <2>1. layout = <<<<"reg", "A">>>>
    BY <1>2 DEF Layout, ThreeRegisters, MEM_INSTRUCTIONS
  <2> QED BY <2>1 DEF Classes, Narrow
<1>3. CASE m \in {"JMP", "CAL"}
  <2>1. layout = <<<<"reg", "B">>>>
    BY <1>3 DEF Layout, ThreeRegisters, MEM_INSTRUCTIONS
  <2> QED BY <2>1 DEF Classes, Narrow
<1>4. CASE m = "LDI"
  <2>1. layout = <<<<"reg", "A">>, <<"imm", "I">>>>
    BY <1>4 DEF Layout, ThreeRegisters, MEM_INSTRUCTIONS
  <2> QED BY <2>1 DEF Classes, Narrow
<1>5. CASE m = "ADI"
  <2>1. layout = <<<<"reg", "A">>, <<"simm", "I">>>>
    BY <1>5 DEF Layout, ThreeRegisters, MEM_INSTRUCTIONS
  <2> QED BY <2>1 DEF Classes, Narrow
<1>6. CASE m = "BRH"
  <2>1. layout = <<<<"cond", "A">>, <<"reg", "B">>>>
    BY <1>6 DEF Layout, ThreeRegisters, MEM_INSTRUCTIONS
  <2> QED BY <2>1 DEF Classes, Narrow
<1>7. CASE m = "CYE"
  <2>1. layout = <<<<"sreg", "A">>, <<"reg", "B">>>>
    BY <1>7 DEF Layout, ThreeRegisters, MEM_INSTRUCTIONS
  <2> QED BY <2>1 DEF Classes, Narrow
<1>8. CASE m = "CYR"
  <2>1. layout = <<<<"reg", "A">>, <<"sreg", "B">>>>
    BY <1>8 DEF Layout, ThreeRegisters, MEM_INSTRUCTIONS
  <2> QED BY <2>1 DEF Classes, Narrow
<1>9. CASE m \in MEM_INSTRUCTIONS
  <2>1. layout = <<<<"reg", "A">>, <<"reg", "B">>, <<"offset", "I">>>>
    BY <1>9 DEF Layout, ThreeRegisters, MEM_INSTRUCTIONS
  <2> QED BY <2>1 DEF Classes, Narrow
<1>10. CASE m \in {"NOP", "HLT", "RET", "SCL", "SRT"}
  <2>1. layout = <<>>
    BY <1>10 DEF Layout, ThreeRegisters, MEM_INSTRUCTIONS
  <2> QED BY <2>1 DEF Classes, Narrow
<1> QED
  BY <1>1, <1>2, <1>3, <1>4, <1>5, <1>6, <1>7, <1>8, <1>9, <1>10
  DEF OPCODES, ThreeRegisters, MEM_INSTRUCTIONS

LEMMA FieldsAreAccepted ==
  ASSUME NEW ins, ins.args \in Seq(Argument), NEW labels, Addresses(labels),
         Encodable(ins, labels)
  PROVE  Accepted(ins, labels) /\ Len(ins.args) = Len(Layout(ins.mnemonic))
<1> DEFINE m == ins.mnemonic
           layout == Layout(m)
<1>1. m \in DOMAIN OPCODES /\ Len(ins.args) = Len(layout)
  BY DEF Encodable, PrefixApplies
<1>2. /\ DOMAIN layout = 1 .. Len(layout)
      /\ \A i \in 1 .. Len(layout) :
           /\ layout[i][1] \in Classes
           /\ layout[i][2] # "I" => layout[i][1] \in Narrow
  BY <1>1, LayoutOf
<1>3. SUFFICES ASSUME NEW i \in 1 .. Len(ins.args)
               PROVE  /\ Legible(FieldOf(ins, i, labels), layout[i][1], ins.args[i])
                      /\ layout[i][2] # "I" => layout[i][1] \in Narrow
  BY <1>1 DEF Accepted, Legible
<1>4. ins.args[i] \in Argument
  OBVIOUS
<1>5. /\ i \in DOMAIN layout /\ layout[i][1] \in Classes
      /\ layout[i][2] # "I" => layout[i][1] \in Narrow
  <2> HIDE DEF layout
  <2>1. i \in 1 .. Len(layout)
    BY <1>1
  <2> QED BY <1>2, <2>1
<1>6. Field(ins, layout[i][1], ins.args[i], labels) # Invalid
  BY <1>5 DEF Encodable
<1>7. Legible(Field(ins, layout[i][1], ins.args[i], labels), layout[i][1], ins.args[i])
  <2> PICK class : class = layout[i][1]
    OBVIOUS
  <2> PICK arg : arg = ins.args[i]
    OBVIOUS
  <2> HIDE DEF layout
  <2> QED BY <1>4, <1>5, <1>6, FieldMeans
<1> QED BY <1>5, <1>7 DEF FieldOf

\* The operands, by the layout of the mnemonic.
LEMMA OperandsOf ==
  ASSUME NEW ins, ins.args \in Seq(Argument), NEW labels, Addresses(labels),
         Encodable(ins, labels)
  PROVE  /\ Len(Decoded(encode_single(ins, labels)).operands) = Len(ins.args)
         /\ \A i \in DOMAIN ins.args :
              Means(Decoded(encode_single(ins, labels)).operands[i], ins.args[i])
<1> DEFINE m == ins.mnemonic
           layout == Layout(m)
           f(i) == FieldOf(ins, i, labels)
           word == encode_single(ins, labels)
           operands == Decoded(word).operands
<1>1. m \in DOMAIN OPCODES /\ Len(ins.args) = Len(layout)
  BY DEF Encodable, PrefixApplies
<1>2. DOMAIN ins.args = 1 .. Len(layout)
  BY <1>1
<1>3. /\ word.op = OPCODES[m]
      /\ word.operands =
           (IF 1 \in DOMAIN layout THEN Weight(layout[1][2]) * f(1) ELSE 0)
         + (IF 2 \in DOMAIN layout THEN Weight(layout[2][2]) * f(2) ELSE 0)
         + (IF 3 \in DOMAIN layout THEN Weight(layout[3][2]) * f(3) ELSE 0)
  BY DEF encode_single, build_word, FieldOf
<1>4. Decoded(word).mnemonic = m
  BY <1>1, <1>3, MnemonicOf
<1>5. /\ Accepted(ins, labels)
      /\ 0 \in 0 .. 15 /\ 0 \in 0 .. (HALF - 1)
  BY FieldsAreAccepted, Sixteenths
<1>6. /\ Weight("A") = 16 * HALF /\ Weight("B") = HALF
      /\ Weight("C") = HALF \div 16 /\ Weight("I") = 1
  BY DEF Weight
<1>7. SUFFICES /\ Len(operands) = Len(layout)
               /\ \A i \in 1 .. Len(layout) : Means(operands[i], ins.args[i])
  BY <1>1, <1>2
<1> HIDE DEF word, operands
<1>8. CASE m \in ThreeRegisters
  <2>1. /\ Len(layout) = 3 /\ DOMAIN layout = 1 .. 3
        /\ layout[1][2] = "A" /\ layout[2][2] = "B" /\ layout[3][2] = "C"
        /\ operands = <<FieldA(word), FieldB(word), FieldC(word)>>
    <3>1. layout = <<<<"reg", "A">>, <<"reg", "B">>, <<"reg", "C">>>>
      BY <1>8 DEF Layout, ThreeRegisters, MEM_INSTRUCTIONS
    <3>2. operands = <<FieldA(word), FieldB(word), FieldC(word)>>
      BY <1>4, <1>8 DEF operands, Decoded, ThreeRegisters, MEM_INSTRUCTIONS
    <3> HIDE DEF layout, operands
    <3> QED BY <3>1, <3>2
  <2> PICK f1, f2, f3 : f1 = f(1) /\ f2 = f(2) /\ f3 = f(3)
    OBVIOUS
  <2> HIDE DEF f, layout
  <2>2. /\ f1 \in 0 .. 15 /\ Means(f1, ins.args[1])
        /\ f2 \in 0 .. 15 /\ Means(f2, ins.args[2])
        /\ f3 \in 0 .. 15 /\ Means(f3, ins.args[3])
    BY <1>1, <1>5, <2>1, SMTT(30) DEF Accepted, f, layout
  <2> PICK low : low = (HALF \div 16) * f3
    OBVIOUS
  <2>3. word.operands = Weight("A") * f1 + Weight("B") * f2 + Weight("C") * f3
    BY <1>3, <2>1
  <2>4. low \in 0 .. (HALF - 1) /\ word.operands = Operands(f1, f2, low)
    BY <1>6, <2>2, <2>3, Sixteenths, Thirds DEF Operands
  <2>5. FieldA(word) = f1 /\ FieldB(word) = f2 /\ Inmd(word) = low
    <3>1. Holds(word, f1, f2, low)
      BY <2>2, <2>4 DEF Holds
    <3> QED BY <3>1, FieldsCut
  <2>6. FieldC(word) = f3
    BY <2>2, <2>5, ThirdCut
  <2> QED BY <2>1, <2>2, <2>5, <2>6
<1>9. CASE m \in MEM_INSTRUCTIONS
  <2>1. /\ Len(layout) = 3 /\ DOMAIN layout = 1 .. 3
        /\ layout[1][2] = "A" /\ layout[2][2] = "B" /\ layout[3][2] = "I"
        /\ operands = <<FieldA(word), FieldB(word), Inmd(word)>>
    <3>1. layout = <<<<"reg", "A">>, <<"reg", "B">>, <<"offset", "I">>>>
      BY <1>9 DEF Layout, ThreeRegisters, MEM_INSTRUCTIONS
    <3>2. operands = <<FieldA(word), FieldB(word), Inmd(word)>>
      BY <1>4, <1>9 DEF operands, Decoded, ThreeRegisters, MEM_INSTRUCTIONS
    <3> HIDE DEF layout, operands
    <3> QED BY <3>1, <3>2
  <2> PICK f1, f2, f3 : f1 = f(1) /\ f2 = f(2) /\ f3 = f(3)
    OBVIOUS
  <2> HIDE DEF f, layout
  <2>2. /\ f1 \in 0 .. 15 /\ Means(f1, ins.args[1])
        /\ f2 \in 0 .. 15 /\ Means(f2, ins.args[2])
        /\ f3 \in 0 .. (HALF - 1) /\ Means(f3, ins.args[3])
    BY <1>1, <1>5, <2>1, SMTT(30) DEF Accepted, f, layout
  <2>3. word.operands = Weight("A") * f1 + Weight("B") * f2 + Weight("I") * f3
    BY <1>3, <2>1
  <2>4. word.operands = Operands(f1, f2, f3)
    BY <1>6, <2>2, <2>3, Sixteenths DEF Operands
  <2>5. FieldA(word) = f1 /\ FieldB(word) = f2 /\ Inmd(word) = f3
    <3>1. Holds(word, f1, f2, f3)
      BY <1>5, <2>2, <2>4 DEF Holds
    <3> QED BY <3>1, FieldsCut
  <2> QED BY <2>1, <2>2, <2>5
<1>10. CASE m \in {"LDI", "ADI"}
  <2>1. /\ Len(layout) = 2 /\ DOMAIN layout = 1 .. 2
        /\ layout[1][2] = "A" /\ layout[2][2] = "I"
        /\ operands = <<FieldA(word), Inmd(word)>>
    <3>1. layout \in {<<<<"reg", "A">>, <<"imm", "I">>>>,
                     <<<<"reg", "A">>, <<"simm", "I">>>>}
      BY <1>10 DEF Layout, ThreeRegisters, MEM_INSTRUCTIONS
    <3>2. operands = <<FieldA(word), Inmd(word)>>
      BY <1>4, <1>10 DEF operands, Decoded, ThreeRegisters, MEM_INSTRUCTIONS
    <3> HIDE DEF layout, operands
    <3> QED BY <3>1, <3>2
  <2> PICK f1, f2 : f1 = f(1) /\ f2 = f(2)
    OBVIOUS
  <2> HIDE DEF f, layout
  <2>2. /\ f1 \in 0 .. 15 /\ Means(f1, ins.args[1])
        /\ f2 \in 0 .. (HALF - 1) /\ Means(f2, ins.args[2])
    BY <1>1, <1>5, <2>1 DEF Accepted, f, layout
  <2>3. word.operands = Weight("A") * f1 + Weight("I") * f2 + 0
    BY <1>3, <2>1
  <2>4. word.operands = Operands(f1, 0, f2)
    BY <1>6, <2>2, <2>3, Sixteenths DEF Operands
  <2>5. FieldA(word) = f1 /\ Inmd(word) = f2
    <3>1. Holds(word, f1, 0, f2)
      BY <1>5, <2>2, <2>4 DEF Holds
    <3> QED BY <3>1, FieldsCut
  <2> QED BY <2>1, <2>2, <2>5
<1>11. CASE m \in {"BRH", "CYE", "CYR"}
  <2>1. /\ Len(layout) = 2 /\ DOMAIN layout = 1 .. 2
        /\ layout[1][2] = "A" /\ layout[2][2] = "B"
        /\ operands = <<FieldA(word), FieldB(word)>>
    <3>1. layout \in {<<<<"cond", "A">>, <<"reg", "B">>>>,
                     <<<<"sreg", "A">>, <<"reg", "B">>>>,
                     <<<<"reg", "A">>, <<"sreg", "B">>>>}
      BY <1>11 DEF Layout, ThreeRegisters, MEM_INSTRUCTIONS
    <3>2. operands = <<FieldA(word), FieldB(word)>>
      BY <1>4, <1>11 DEF operands, Decoded, ThreeRegisters, MEM_INSTRUCTIONS
    <3> HIDE DEF layout, operands
    <3> QED BY <3>1, <3>2
  <2> PICK f1, f2 : f1 = f(1) /\ f2 = f(2)
    OBVIOUS
  <2> HIDE DEF f, layout
  <2>2. /\ f1 \in 0 .. 15 /\ Means(f1, ins.args[1])
        /\ f2 \in 0 .. 15 /\ Means(f2, ins.args[2])
    BY <1>1, <1>5, <2>1 DEF Accepted, f, layout
  <2>3. word.operands = Weight("A") * f1 + Weight("B") * f2 + 0
    BY <1>3, <2>1
  <2>4. word.operands = Operands(f1, f2, 0)
    BY <1>6, <2>2, <2>3, Sixteenths DEF Operands
  <2>5. FieldA(word) = f1 /\ FieldB(word) = f2
    <3>1. Holds(word, f1, f2, 0)
      BY <1>5, <2>2, <2>4 DEF Holds
    <3> QED BY <3>1, FieldsCut
  <2> QED BY <2>1, <2>2, <2>5
<1>12. CASE m = "GOF"
  <2>1. /\ Len(layout) = 1 /\ DOMAIN layout = 1 .. 1
        /\ layout[1][2] = "A"
        /\ operands = <<FieldA(word)>>
    <3>1. layout = <<<<"reg", "A">>>>
      BY <1>12 DEF Layout, ThreeRegisters, MEM_INSTRUCTIONS
    <3>2. operands = <<FieldA(word)>>
      BY <1>4, <1>12 DEF operands, Decoded, ThreeRegisters, MEM_INSTRUCTIONS
    <3> HIDE DEF layout, operands
    <3> QED BY <3>1, <3>2
  <2> PICK f1 : f1 = f(1)
    OBVIOUS
  <2> HIDE DEF f, layout
  <2>2. /\ f1 \in 0 .. 15 /\ Means(f1, ins.args[1])
    BY <1>1, <1>5, <2>1 DEF Accepted, f, layout
  <2>3. word.operands = Weight("A") * f1 + 0 + 0
    BY <1>3, <2>1
  <2>4. word.operands = Operands(f1, 0, 0)
    BY <1>6, <2>2, <2>3, Sixteenths DEF Operands
  <2>5. FieldA(word) = f1
    <3>1. Holds(word, f1, 0, 0)
      BY <1>5, <2>2, <2>4 DEF Holds
    <3> QED BY <3>1, FieldsCut
  <2> QED BY <2>1, <2>2, <2>5
<1>13. CASE m \in {"JMP", "CAL"}
  <2>1. /\ Len(layout) = 1 /\ DOMAIN layout = 1 .. 1
        /\ layout[1][2] = "B"
        /\ operands = <<FieldB(word)>>
    <3>1. layout = <<<<"reg", "B">>>>
      BY <1>13 DEF Layout, ThreeRegisters, MEM_INSTRUCTIONS
    <3>2. operands = <<FieldB(word)>>
      BY <1>4, <1>13 DEF operands, Decoded, ThreeRegisters, MEM_INSTRUCTIONS
    <3> HIDE DEF layout, operands
    <3> QED BY <3>1, <3>2
  <2> PICK f1 : f1 = f(1)
    OBVIOUS
  <2> HIDE DEF f, layout
  <2>2. /\ f1 \in 0 .. 15 /\ Means(f1, ins.args[1])
    BY <1>1, <1>5, <2>1 DEF Accepted, f, layout
  <2>3. word.operands = Weight("B") * f1 + 0 + 0
    BY <1>3, <2>1
  <2>4. word.operands = Operands(0, f1, 0)
    BY <1>6, <2>2, <2>3, Sixteenths DEF Operands
  <2>5. FieldB(word) = f1
    <3>1. Holds(word, 0, f1, 0)
      BY <1>5, <2>2, <2>4 DEF Holds
    <3> QED BY <3>1, FieldsCut
  <2> QED BY <2>1, <2>2, <2>5
<1>14. CASE m \in {"NOP", "HLT", "RET", "SCL", "SRT"}
  <2>1. layout = <<>> /\ operands = <<>>
    BY <1>4, <1>14 DEF Layout, operands, Decoded, ThreeRegisters, MEM_INSTRUCTIONS
  <2> QED BY <2>1
<1> HIDE DEF layout
<1> QED
  BY <1>1, <1>8, <1>9, <1>10, <1>11, <1>12, <1>13, <1>14
  DEF OPCODES, ThreeRegisters, MEM_INSTRUCTIONS

\* An instruction that is accepted decodes to what was written.
LEMMA EncodingIsAsWritten ==
  ASSUME NEW ins, ins.args \in Seq(Argument), NEW labels, Addresses(labels),
         Encodable(ins, labels)
  PROVE  AsWritten(ins, encode_single(ins, labels))
<1> DEFINE word == encode_single(ins, labels)
<1>1. ins.mnemonic \in DOMAIN OPCODES
  BY DEF Encodable, PrefixApplies
<1>2. word.op = OPCODES[ins.mnemonic] /\ word.tipo = Tipo(ins.prefix)
  BY DEF encode_single, build_word
<1>3. /\ Len(Decoded(word).operands) = Len(ins.args)
      /\ \A i \in DOMAIN ins.args : Means(Decoded(word).operands[i], ins.args[i])
  BY OperandsOf
<1> HIDE DEF word
<1>4. Decoded(word).mnemonic = ins.mnemonic
  BY <1>1, <1>2, MnemonicOf
<1>5. /\ ins.prefix \in DOMAIN MEM_TYPES => word.tipo = MEM_TYPES[ins.prefix]
      /\ ins.prefix \in {"H", "SLT"} <=> word.tipo = 4
  BY <1>2, TipoIs
<1> QED BY <1>3, <1>4, <1>5 DEF AsWritten, word

(***************************************************************************)
(* An operand that names a symbol: the instruction holds the half of the   *)
(* address it stands for, so two of them hold a pair of halves that join.  *)
(***************************************************************************)
HalfOf(ins, arg, labels) == compute_hi_lo(eval_label_expr(arg, labels))[HalfNamed(ins, arg)]

\* Only an immediate field takes a symbol.
LEMMA SymbolField ==
  ASSUME NEW ins, NEW class \in Classes, NEW arg, arg.kind \in {"hi", "lo", "sym"},
         NEW labels, Field(ins, class, arg, labels) # Invalid
  PROVE  /\ class \in {"imm", "simm"} /\ Defined(arg, labels)
         /\ Field(ins, class, arg, labels) = HalfOf(ins, arg, labels)
<1>1. arg.kind \notin {"R", "SR", "cond", "num"}
  OBVIOUS
<1>2. CASE class \in {"reg", "sreg", "cond", "offset"}
  BY <1>1, <1>2 DEF Field, parse_register, parse_special_register, parse_condition,
                    parse_immediate
<1>3. CASE class \in {"imm", "simm"}
  <2> DEFINE signed == class = "simm"
  <2>1. Field(ins, class, arg, labels)
          = _resolve_imm_or_pseudo(arg, labels, PseudoKind(ins), signed)
    BY <1>3 DEF Field
  <2> HIDE DEF signed
  <2>2. Defined(arg, labels)
    BY <2>1 DEF _resolve_imm_or_pseudo
  <2> QED BY <1>3, <2>1, <2>2 DEF _resolve_imm_or_pseudo, HalfOf, HalfNamed
<1> QED BY <1>2, <1>3 DEF Classes

\* Only H LDI, LDI and ADI have an immediate that may be a symbol.
LEMMA ImmediateLayout ==
  ASSUME NEW m \in DOMAIN OPCODES, NEW i \in 1 .. Len(Layout(m)),
         Layout(m)[i][1] \in {"imm", "simm"}
  PROVE  m \in {"LDI", "ADI"} /\ i = 2
<1> PICK layout : layout = Layout(m)
  OBVIOUS
<1>1. CASE m \in {"LDI", "ADI"}
  <2>1. layout \in {<<<<"reg", "A">>, <<"imm", "I">>>>, <<<<"reg", "A">>, <<"simm", "I">>>>}
    BY <1>1 DEF Layout, ThreeRegisters, MEM_INSTRUCTIONS
  <2> QED BY <1>1, <2>1
<1>2. CASE m \in ThreeRegisters
  <2>1. layout = <<<<"reg", "A">>, <<"reg", "B">>, <<"reg", "C">>>>
    BY <1>2 DEF Layout, ThreeRegisters, MEM_INSTRUCTIONS
  <2> QED BY <2>1
<1>3. CASE m \in {"GOF", "JMP", "CAL"}
  <2>1. layout \in {<<<<"reg", "A">>>>, <<<<"reg", "B">>>>}
    BY <1>3 DEF Layout, ThreeRegisters, MEM_INSTRUCTIONS
  <2> QED BY <2>1
<1>4. CASE m \in {"BRH", "CYE", "CYR"}
  <2>1. layout \in {<<<<"cond", "A">>, <<"reg", "B">>>>, <<<<"sreg", "A">>, <<"reg", "B">>>>,
                    <<<<"reg", "A">>, <<"sreg", "B">>>>}
    BY <1>4 DEF Layout, ThreeRegisters, MEM_INSTRUCTIONS
  <2> QED BY <2>1
<1>5. CASE m \in MEM_INSTRUCTIONS
  <2>1. layout = <<<<"reg", "A">>, <<"reg", "B">>, <<"offset", "I">>>>
    BY <1>5 DEF Layout, ThreeRegisters, MEM_INSTRUCTIONS
  <2> QED BY <2>1
<1>6. CASE m \in {"NOP", "HLT", "RET", "SCL", "SRT"}
  <2>1. layout = <<>>
    BY <1>6 DEF Layout, ThreeRegisters, MEM_INSTRUCTIONS
  <2> QED BY <2>1
<1> QED
  BY <1>1, <1>2, <1>3, <1>4, <1>5, <1>6 DEF OPCODES, ThreeRegisters, MEM_INSTRUCTIONS

LEMMA SymbolIsSplit ==
  ASSUME NEW ins, ins.args \in Seq(Argument), NEW labels, Addresses(labels),
         Encodable(ins, labels), NEW arg \in Symbols(ins)
  PROVE  /\ Defined(arg, labels)
         /\ Inmd(encode_single(ins, labels)) = HalfOf(ins, arg, labels)
<1> DEFINE m == ins.mnemonic
           layout == Layout(m)
           f(i) == FieldOf(ins, i, labels)
           word == encode_single(ins, labels)
<1>1. m \in DOMAIN OPCODES /\ Len(ins.args) = Len(layout)
  BY DEF Encodable, PrefixApplies
<1>2. PICK i \in DOMAIN ins.args : ins.args[i] = arg
  BY DEF Symbols, ToSet
<1>3. /\ i \in 1 .. Len(layout) /\ i \in DOMAIN layout /\ layout[i][1] \in Classes
  <2> HIDE DEF layout
  <2>1. DOMAIN ins.args = 1 .. Len(ins.args)
    OBVIOUS
  <2>2. i \in 1 .. Len(layout)
    BY <1>1, <1>2, <2>1
  <2>3. DOMAIN layout = 1 .. Len(layout) /\ layout[i][1] \in Classes
    BY <1>1, <2>2, LayoutOf DEF layout
  <2> QED BY <2>2, <2>3
<1>4. f(i) # Invalid
  BY <1>3 DEF Encodable, FieldOf
<1>5. layout[i][1] \in {"imm", "simm"} /\ Defined(arg, labels) /\ f(i) = HalfOf(ins, arg, labels)
  <2> PICK class : class = layout[i][1]
    OBVIOUS
  <2>1. arg.kind \in {"hi", "lo", "sym"} /\ f(i) = Field(ins, class, arg, labels)
    BY <1>2 DEF Symbols, FieldOf
  <2> HIDE DEF layout, f
  <2> QED BY <1>3, <1>4, <2>1, SymbolField
<1>6. m \in {"LDI", "ADI"} /\ i = 2
  BY <1>1, <1>3, <1>5, ImmediateLayout
<1>7. /\ Len(layout) = 2 /\ DOMAIN layout = 1 .. 2
      /\ layout[1][2] = "A" /\ layout[2][2] = "I"
  <2>1. layout \in {<<<<"reg", "A">>, <<"imm", "I">>>>, <<<<"reg", "A">>, <<"simm", "I">>>>}
    BY <1>6 DEF Layout, ThreeRegisters, MEM_INSTRUCTIONS
  <2> HIDE DEF layout
  <2> QED BY <2>1
<1>8. word.operands =
           (IF 1 \in DOMAIN layout THEN Weight(layout[1][2]) * f(1) ELSE 0)
         + (IF 2 \in DOMAIN layout THEN Weight(layout[2][2]) * f(2) ELSE 0)
         + (IF 3 \in DOMAIN layout THEN Weight(layout[3][2]) * f(3) ELSE 0)
  BY DEF encode_single, build_word, FieldOf
<1>9. Accepted(ins, labels) /\ 0 \in 0 .. 15
  BY FieldsAreAccepted
<1>10. Weight("A") = 16 * HALF /\ Weight("I") = 1
  BY DEF Weight
<1> HIDE DEF word
<1> PICK f1, f2 : f1 = f(1) /\ f2 = f(2)
  OBVIOUS
<1> HIDE DEF f, layout
<1>11. f1 \in 0 .. 15 /\ f2 \in 0 .. (HALF - 1)
  BY <1>1, <1>7, <1>9, SMTT(30) DEF Accepted, f, layout
<1>12. word.operands = Operands(f1, 0, f2)
  <2>1. word.operands = Weight("A") * f1 + Weight("I") * f2 + 0
    BY <1>7, <1>8
  <2> QED BY <1>10, <1>11, <2>1, Sixteenths DEF Operands
<1>13. Inmd(word) = f2
  <2>1. Holds(word, f1, 0, f2)
    BY <1>9, <1>11, <1>12 DEF Holds
  <2> QED BY <2>1, FieldsCut
<1> QED BY <1>5, <1>6, <1>13 DEF word

\* An offset in bytes is added to the physical address.
LEMMA OffsetIsAdded ==
  ASSUME NEW a \in Int, NEW off \in Int,
         off = 0 \/ (a >= WORD_LIMIT /\ a + off >= WORD_LIMIT)
  PROVE  physical(a + off) = physical(a) + off
<1>1. CASE off = 0
  <2>1. physical(a) \in Int
    BY RomAssumption, WordAssumption, Widths DEF physical, ROM_BASE
  <2>2. a + off = a
    BY <1>1
  <2> QED BY <1>1, <2>1, <2>2
<1>2. CASE a >= WORD_LIMIT /\ a + off >= WORD_LIMIT
  BY <1>2 DEF physical
<1> QED BY <1>1, <1>2

\* The halves of one expression join to its address, whichever the two
\* instructions are.
LEMMA PairJoins ==
  ASSUME NEW upper, upper.args \in Seq(Argument), NEW lower, lower.args \in Seq(Argument),
         NEW labels, Addresses(labels), Encodable(upper, labels), Encodable(lower, labels),
         NEW x \in Symbols(upper), NEW y \in Symbols(lower), ArePair(upper, x, lower, y),
         x.off = 0 \/ (labels[x.sym] >= WORD_LIMIT /\ labels[x.sym] + x.off >= WORD_LIMIT)
  PROVE  PairReaches(encode_single(upper, labels), encode_single(lower, labels),
                     physical(labels[x.sym]) + x.off)
<1> DEFINE hi == encode_single(upper, labels)
           lo == encode_single(lower, labels)
<1> PICK a, off : a = labels[x.sym] /\ off = x.off
  OBVIOUS
<1>1. /\ HalfNamed(upper, x) = "hi" /\ HalfNamed(lower, y) = "lo"
      /\ x.sym = y.sym /\ x.off = y.off
  BY DEF ArePair
<1>2. Defined(x, labels) /\ Inmd(hi) = HalfOf(upper, x, labels)
  BY SymbolIsSplit
<1>3. Defined(y, labels) /\ Inmd(lo) = HalfOf(lower, y, labels)
  BY SymbolIsSplit
<1> HIDE DEF hi, lo
<1>4. a \in Int /\ off \in Int
  <2>1. x \in Argument /\ x.kind \in {"hi", "lo", "sym"}
    BY DEF Symbols, ToSet
  <2> QED BY <1>2, <2>1 DEF Defined, Addresses, Argument
<1>5. eval_label_expr(x, labels) = a + off /\ eval_label_expr(y, labels) = a + off
  BY <1>1 DEF eval_label_expr
<1> PICK t : t = physical(a + off)
  OBVIOUS
<1>6. Inmd(hi) = high16(t) /\ Inmd(lo) = low16(t)
  BY <1>1, <1>2, <1>3, <1>5 DEF HalfOf, compute_hi_lo
<1>7. t = physical(a) + off
  BY <1>4, OffsetIsAdded
<1>8. t \in 0 .. (SPACE - 1) => Joined(high16(t), low16(t)) = t
  BY JoinedIsTarget
<1> QED BY <1>6, <1>7, <1>8 DEF PairReaches, hi, lo

-----------------------------------------------------------------------------
(***************************************************************************)
(* What waits for the second pass: every instruction read so far is there  *)
(* under the number of its line, and nothing else has that number.         *)
(***************************************************************************)
Code(b) == b \in DOMAIN lines /\ lines[b].dir = "ins"
Readable(args) ==
  \A i \in 1 .. Len(args) : args[i].kind \in {"hi", "lo", "sym"} => args[i].off \in Int
WellTyped(item) ==
  \/ item.kind = "raw"
  \/ item.kind = "tokens" /\ Readable(item.ins.args)
  \/ item.kind = "word" /\ item.word.kind = "ins" /\ item.word.operands \in Int
Meant(item) ==
  /\ WellTyped(item)
  /\ Code(item.line) => item = Pending(lines[item.line].ins, item.line)
Traces(r, n) ==
  /\ \A item \in ToSet(r.pending) : Meant(item)
  /\ \A b : Code(b) /\ b < n => \E item \in ToSet(r.pending) : item.line = b

\* Items that may be emitted, and items that stand for no line.
Emittable(items) == IsSeq(items) /\ \A item \in ToSet(items) : Meant(item)
Injected(items) == IsSeq(items) /\ \A item \in ToSet(items) : item.line = 0
Typed(items) == \A item \in ToSet(items) : WellTyped(item)

Numbered ==
  /\ batch \in Batches /\ job \in DOMAIN batch
  /\ line \in 1 .. (Len(lines) + 1)

LEMMA LinesAreNumbered ==
  ASSUME batch \in Batches, job \in DOMAIN batch
  PROVE  /\ Len(lines) \in Nat /\ DOMAIN lines = 1 .. Len(lines)
         /\ \A b : Code(b) => b \in Nat /\ b \in 1 .. Len(lines)
<1>1. Len(lines) \in Nat /\ DOMAIN lines = 1 .. Len(lines)
  BY LinesAssumption DEF lines
<1> QED BY <1>1 DEF Code

LEMMA JoinedItems ==
  ASSUME NEW a, IsSeq(a), NEW b, IsSeq(b)
  PROVE  IsSeq(a \o b) /\ ToSet(a \o b) = ToSet(a) \union ToSet(b)
<1>1. PICK S : a \in Seq(S)
  BY DEF IsSeq
<1>2. PICK T : b \in Seq(T)
  BY DEF IsSeq
<1>3. IsSeq(a \o b)
  BY <1>1, <1>2, Concatenation DEF IsSeq
<1>4. /\ Len(a) \in Nat /\ DOMAIN a = 1 .. Len(a)
      /\ Len(b) \in Nat /\ DOMAIN b = 1 .. Len(b)
      /\ DOMAIN (a \o b) = 1 .. (Len(a) + Len(b))
      /\ \A i \in 1 .. (Len(a) + Len(b)) :
           (a \o b)[i] = IF i <= Len(a) THEN a[i] ELSE b[i - Len(a)]
  BY <1>1, <1>2
<1> PICK c : c = a \o b
  OBVIOUS
<1>5. \A i \in DOMAIN a : i \in DOMAIN c /\ c[i] = a[i]
  BY <1>4
<1>6. \A i \in DOMAIN b : i + Len(a) \in DOMAIN c /\ c[i + Len(a)] = b[i]
  BY <1>4
<1>7. \A i \in DOMAIN c : \/ i \in DOMAIN a /\ c[i] = a[i]
                          \/ i - Len(a) \in DOMAIN b /\ c[i] = b[i - Len(a)]
  BY <1>4
<1>8. ToSet(c) = ToSet(a) \union ToSet(b)
  <2>1. \A x \in ToSet(c) : x \in ToSet(a) \union ToSet(b)
    BY <1>7 DEF ToSet
  <2>2. \A x \in ToSet(a) : x \in ToSet(c)
    BY <1>5 DEF ToSet
  <2>3. \A x \in ToSet(b) : x \in ToSet(c)
    BY <1>6 DEF ToSet
  <2> QED BY <2>1, <2>2, <2>3
<1> QED BY <1>3, <1>8

LEMMA InjectedAreEmittable ==
  ASSUME batch \in Batches, job \in DOMAIN batch, NEW items, Injected(items), Typed(items)
  PROVE  Emittable(items)
<1>1. ~Code(0)
  BY LinesAreNumbered
<1> QED BY <1>1 DEF Injected, Typed, Emittable, Meant

LEMMA InjectedJoin ==
  ASSUME NEW a, Injected(a), NEW b, Injected(b)
  PROVE  Injected(a \o b)
  BY JoinedItems DEF Injected

LEMMA OneInjected ==
  ASSUME NEW item, item.line = 0
  PROVE  Injected(<<item>>)
<1>1. ToSet(<<item>>) = {item}
  BY DEF ToSet
<1> QED BY <1>1, OneItem DEF Injected

\* The operations on the image keep the trace.
LEMMA EmittedTraces ==
  ASSUME NEW r, RomCounts(r), NEW n, Traces(r, n), NEW items, Emittable(items)
  PROVE  /\ Traces(Emitted(r, items), n)
         /\ ToSet(Emitted(r, items).pending) = ToSet(r.pending) \union ToSet(items)
<1>1. IsSeq(r.pending)
  BY DEF RomCounts, RomType, IsSeq
<1>2. Emitted(r, items).pending = r.pending \o items
  BY DEF Emitted
<1>3. ToSet(Emitted(r, items).pending) = ToSet(r.pending) \union ToSet(items)
  BY <1>1, <1>2, JoinedItems DEF Emittable
<1> QED BY <1>3 DEF Traces, Emittable

LEMMA SamePending ==
  ASSUME NEW r, RomCounts(r)
  PROVE  /\ Marked(r).pending = r.pending
         /\ \A bytes : [r EXCEPT !.pending_bytes = bytes].pending = r.pending
  BY DEF RomCounts, RomType, Marked

\* What is emitted without an instruction: packed bytes and words of zeros.
LEMMA PackedIsInjected ==
  ASSUME NEW bytes \in Seq(Byte)
  PROVE  Injected(Packed(bytes)) /\ Typed(Packed(bytes))
<1>1. \A item \in ToSet(Packed(bytes)) : item.line = 0 /\ item.kind = "raw"
  BY DEF ToSet, Packed, Raw
<1> QED BY <1>1, PackedIsSeq DEF Injected, Typed, WellTyped

LEMMA ZeroWordsEmittable ==
  ASSUME NEW n \in Nat, NEW l, ~Code(l)
  PROVE  Emittable(ZeroWords(n, l))
<1>1. \A item \in ToSet(ZeroWords(n, l)) : item.line = l /\ item.kind = "raw"
  BY DEF ToSet, ZeroWords, Raw
<1> QED BY <1>1, ZeroWordsIsSeq DEF Emittable, Meant, WellTyped

LEMMA MarkedTraces ==
  ASSUME NEW r, RomCounts(r), NEW n, Traces(r, n)
  PROVE  Traces(Marked(r), n)
  BY SamePending DEF Traces

LEMMA FlushTraces ==
  ASSUME batch \in Batches, job \in DOMAIN batch,
         NEW r, RomCounts(r), NEW n, Traces(r, n)
  PROVE  Traces(flush_pending_bytes(r), n)
<1> DEFINE e == Emitted(Marked(r), Packed(r.pending_bytes))
<1>1. Emittable(Packed(r.pending_bytes))
  <2>1. r.pending_bytes \in Seq(Byte)
    BY DEF RomCounts, RomType
  <2> QED BY <2>1, PackedIsInjected, InjectedAreEmittable
<1>2. RomCounts(Marked(r)) /\ Traces(Marked(r), n)
  BY MarkedCounts, MarkedTraces
<1>3. RomCounts(e) /\ Traces(e, n)
  BY <1>1, <1>2, EmittedCounts, EmittedTraces DEF Emittable
<1> HIDE DEF e
<1>4. Traces([e EXCEPT !.pending_bytes = <<>>], n)
  BY <1>3, SamePending DEF Traces
<1> QED BY <1>4 DEF flush_pending_bytes, e

LEMMA AlignedTraces ==
  ASSUME NEW r, RomCounts(r), NEW n, Traces(r, n), NEW k \in Nat, NEW l, ~Code(l)
  PROVE  Traces(AlignedWords(r, k, l), n)
<1> DEFINE z == IF k > 4 THEN Pad(r.rom_address, k \div 4) ELSE 0
<1>1. r.rom_address \in Nat
  BY DEF RomCounts, RomType
<1>2. z \in Nat
  <2>1. k > 4 => k \div 4 \in Nat \ {0}
    OBVIOUS
  <2> QED BY <1>1, <2>1, PadIsNat
<1> HIDE DEF z
<1>3. Emittable(ZeroWords(z, l))
  BY <1>2, ZeroWordsEmittable
<1> QED BY <1>3, EmittedTraces DEF AlignedWords, z

\* A line that is no instruction is read once what it emits is traced.
LEMMA NextLineTraces ==
  ASSUME Numbered, NEW r, Traces(r, line), ~Code(line)
  PROVE  Traces(r, line + 1)
<1>1. \A b : Code(b) /\ b < line + 1 => b < line
  BY LinesAreNumbered DEF Numbered
<1> QED BY <1>1 DEF Traces

-----------------------------------------------------------------------------
\* One line of the first pass.
TraceInv ==
  /\ FirstPassInv /\ Numbered
  /\ phase = "first" => Traces(rom, line)

LEMMA ReadingIs ==
  ASSUME TraceInv, NEW dir, Reading(dir)
  PROVE  /\ batch' = batch /\ job' = job /\ lines' = lines
         /\ line' = line + 1 /\ line + 1 \in 1 .. (Len(lines) + 1)
         /\ phase = "first" /\ phase' = "first"
         /\ RomCounts(rom) /\ Traces(rom, line)
         /\ dir = "ins" <=> Code(line)
         /\ dir # "ins" => Traces(rom, line + 1)
<1>1. /\ batch' = batch /\ job' = job /\ lines' = lines
      /\ line' = line + 1 /\ phase = "first" /\ phase' = "first"
      /\ line \in DOMAIN lines /\ ThisLine.dir = dir
  BY DEF Reading, lines
<1>2. line + 1 \in 1 .. (Len(lines) + 1)
  BY <1>1, LinesAreNumbered DEF TraceInv, Numbered
<1>3. dir = "ins" <=> Code(line)
  BY <1>1 DEF Code, ThisLine
<1>4. RomCounts(rom) /\ Traces(rom, line)
  BY <1>1, Counted DEF TraceInv
<1>5. dir # "ins" => Traces(rom, line + 1)
  BY <1>3, <1>4, NextLineTraces DEF TraceInv
<1> QED BY <1>1, <1>2, <1>3, <1>4, <1>5

LEMMA CommTraces ==
  ASSUME TraceInv, Comm
  PROVE  Traces(rom', line + 1)
<1>1. Reading("comm")
  BY DEF Comm
<1>2. RomCounts(rom) /\ Traces(rom, line + 1) /\ ~Code(line)
  BY <1>1, ReadingIs
<1>3. ThisLine.size \in Nat /\ ThisLine.align \in Nat
  BY <1>1, LineIsTyped DEF TraceInv
<1>4. CASE rom' = rom
  BY <1>2, <1>4
<1>5. CASE rom' # rom
  <2> DEFINE aligned == AlignedWords(rom, ThisLine.align, line)
             words == ZeroWords((ThisLine.size + 3) \div 4, line)
  <2>1. RomCounts(aligned) /\ Traces(aligned, line + 1)
    BY <1>2, <1>3, AlignedCounts, AlignedTraces
  <2>2. (ThisLine.size + 3) \div 4 \in Nat
    BY <1>3
  <2>3. Emittable(words)
    BY <1>2, <2>2, ZeroWordsEmittable
  <2>4. rom' = Emitted(aligned, words)
    BY <1>5 DEF Comm, CommRom, CommRam
  <2> HIDE DEF aligned, words
  <2> QED BY <2>1, <2>3, <2>4, EmittedTraces
<1> QED BY <1>4, <1>5

LEMMA AlignTraces ==
  ASSUME TraceInv, Align
  PROVE  Traces(rom', line + 1)
<1>1. Reading("align")
  BY DEF Align
<1>2. RomCounts(rom) /\ Traces(rom, line + 1) /\ ~Code(line)
  BY <1>1, ReadingIs
<1> DEFINE k == ThisLine.bytes
           flushed == flush_pending_bytes(rom)
           padded == AlignedWords(Marked(flushed), k, line)
<1>3. k \in Nat
  BY <1>1, LineIsTyped DEF TraceInv
<1>4. RomCounts(flushed) /\ Traces(flushed, line + 1)
  BY <1>2, FlushCounts, FlushTraces DEF TraceInv, Numbered
<1>5. rom' \in {rom, flushed, padded}
  BY DEF Align
<1> HIDE DEF flushed, k
<1>6. Traces(padded, line + 1)
  BY <1>2, <1>3, <1>4, MarkedCounts, MarkedTraces, AlignedTraces
<1> HIDE DEF padded
<1> QED BY <1>2, <1>4, <1>5, <1>6

LEMMA LongTraces ==
  ASSUME TraceInv, Long
  PROVE  Traces(rom', line + 1)
<1>1. Reading("long")
  BY DEF Long
<1>2. RomCounts(rom) /\ Traces(rom, line + 1) /\ ~Code(line)
  BY <1>1, ReadingIs
<1> DEFINE item == Raw(DataBytes(ThisLine.data), ThisLine.expr, line)
           marked == Marked(flush_pending_bytes(rom))
<1>3. RomCounts(marked) /\ Traces(marked, line + 1)
  BY <1>2, FlushCounts, FlushTraces, MarkedCounts, MarkedTraces DEF TraceInv, Numbered
<1>4. Emittable(<<item>>)
  <2>1. ToSet(<<item>>) = {item} /\ item.line = line /\ item.kind = "raw"
    BY DEF ToSet, Raw
  <2> QED BY <1>2, <2>1, OneItem DEF Emittable, Meant, WellTyped
<1>5. rom' \in {rom, Emitted(marked, <<item>>)}
  BY DEF Long
<1> HIDE DEF item, marked
<1> QED BY <1>2, <1>3, <1>4, <1>5, EmittedTraces

LEMMA BytesTraces ==
  ASSUME TraceInv, Data \/ Zero
  PROVE  Traces(rom', line + 1)
<1>1. Reading("data") \/ Reading("zero")
  BY DEF Data, Zero
<1>2. RomCounts(rom) /\ Traces(rom, line + 1)
  BY <1>1, ReadingIs
<1>3. rom' = rom \/ \E bytes : rom' = [rom EXCEPT !.pending_bytes = bytes]
  BY DEF Data, Zero
<1>4. rom'.pending = rom.pending
  BY <1>2, <1>3, SamePending
<1> QED BY <1>2, <1>4 DEF Traces

LEMMA LabelTraces ==
  ASSUME TraceInv, Label
  PROVE  Traces(rom', line + 1)
<1>1. Reading("label") /\ rom' = flush_pending_bytes(rom)
  BY DEF Label
<1>2. RomCounts(rom) /\ Traces(rom, line + 1)
  BY <1>1, ReadingIs
<1> QED BY <1>1, <1>2, FlushTraces DEF TraceInv, Numbered

LEMMA InstructionTraces ==
  ASSUME TraceInv, Instruction
  PROVE  Traces(rom', line + 1)
<1> DEFINE item == Pending(ThisLine.ins, line)
           marked == Marked(flush_pending_bytes(rom))
<1>1. Reading("ins") /\ rom' = Emitted(marked, <<item>>)
  BY DEF Instruction
<1>2. RomCounts(rom) /\ Traces(rom, line) /\ Code(line)
  BY <1>1, ReadingIs
<1>3. RomCounts(marked) /\ Traces(marked, line)
  BY <1>2, FlushCounts, FlushTraces, MarkedCounts, MarkedTraces DEF TraceInv, Numbered
<1>4. /\ item.line = line /\ Meant(item)
      /\ ToSet(<<item>>) = {item}
  <2>1. Readable(ThisLine.ins.args)
    <3>1. ThisLine.ins.args \in Seq(Argument)
      BY <1>2, BatchAssumption DEF TraceInv, Numbered, Code, ThisLine, lines
    <3>2. \A arg \in Argument : arg.kind \in {"hi", "lo", "sym"} => arg.off \in Int
      BY DEF Argument
    <3> QED BY <3>1, <3>2 DEF Readable
  <2>2. WellTyped(item)
    BY <2>1 DEF WellTyped, Pending
  <2> QED BY <2>2 DEF Pending, Meant, ThisLine, ToSet
<1> HIDE DEF item, marked
<1>5. Emittable(<<item>>)
  BY <1>4, OneItem DEF Emittable
<1>6. /\ Traces(rom', line)
      /\ item \in ToSet(rom'.pending)
  BY <1>1, <1>3, <1>4, <1>5, EmittedTraces
<1>7. \A b : Code(b) /\ b < line + 1 => b < line \/ b = line
  BY LinesAreNumbered DEF TraceInv, Numbered
<1> QED BY <1>4, <1>6, <1>7 DEF Traces

\* All of them; nothing but its lines changes what a source is.
LEMMA FirstPassTraces ==
  ASSUME TraceInv, FirstPass, ~Raise
  PROVE  Traces(rom', line + 1)
<1>1. CASE Section \/ Ignored
  <2>1. rom' = rom /\ (Reading("section") \/ Reading("ignored"))
    BY <1>1 DEF Section, Ignored
  <2> QED BY <2>1, ReadingIs
<1> QED
  BY <1>1, CommTraces, AlignTraces, LongTraces, BytesTraces, LabelTraces,
     InstructionTraces DEF FirstPass

-----------------------------------------------------------------------------
(***************************************************************************)
(* .start is injected under no line, so the instructions of the source are *)
(* still all there, each once.                                             *)
(***************************************************************************)
LEMMA DataWordsInjected ==
  ASSUME RamCounts(ram)
  PROVE  Injected(DataWords) /\ Typed(DataWords)
<1> DEFINE words == Packed(ram.rom_data_bytes)
           S == {DataWords[w] : w \in DOMAIN words}
<1>1. ram.rom_data_bytes \in Seq(Byte)
  BY DEF RamCounts, RamType
<1>2. PICK T : words \in Seq(T)
  BY <1>1, PackedIsSeq DEF IsSeq
<1>3. Len(words) \in Nat /\ DOMAIN words = 1 .. Len(words)
  BY <1>2
<1>4. DataWords \in [1 .. Len(words) -> S]
  BY <1>3 DEF DataWords
<1>5. DataWords \in Seq(S)
  <2> HIDE DEF words, S
  <2> QED BY <1>3, <1>4
<1>6. \A item \in ToSet(DataWords) : item.line = 0 /\ item.kind = "raw"
  BY DEF DataWords, Packed, Raw, ToSet
<1> QED BY <1>5, <1>6 DEF Injected, IsSeq, Typed, WellTyped

LEMMA LoadInjected ==
  ASSUME NEW r, NEW address
  PROVE  Injected(LoadAddress(r, address))
<1> DEFINE a == Ldi(r, compute_hi_lo(address).hi)
           b == Adi(r, compute_hi_lo(address).lo)
<1>1. a.line = 0 /\ b.line = 0
  BY DEF Ldi, Adi, Encoded
<1>2. LoadAddress(r, address) = <<a, b>>
  BY DEF LoadAddress
<1> HIDE DEF a, b
<1>3. <<a, b>> \in Seq({a, b}) /\ ToSet(<<a, b>>) = {a, b}
  BY DEF ToSet
<1> QED BY <1>1, <1>2, <1>3 DEF Injected, IsSeq

LEMMA CopyInjected ==
  ASSUME NEW start, NEW n \in Nat
  PROVE  Injected(CopyData(start, n))
<1> DEFINE copy == [i \in 1 .. (2 * n) |->
                      IF i % 2 = 1 THEN Move(OPCODES.LOD, 15, 4 * ((i - 1) \div 2))
                                   ELSE Move(OPCODES.STR, 1, 4 * ((i - 1) \div 2))]
           S == {copy[i] : i \in 1 .. (2 * n)}
<1>1. Injected(copy)
  <2>1. copy \in [1 .. (2 * n) -> S] /\ 2 * n \in Nat
    OBVIOUS
  <2>2. \A item \in ToSet(copy) : item.line = 0
    BY DEF ToSet, Move, Encoded
  <2> HIDE DEF copy, S
  <2>3. copy \in Seq(S)
    BY <2>1
  <2> QED BY <2>2, <2>3 DEF Injected, IsSeq
<1>2. Injected(<<>>)
  <2>1. <<>> \in Seq({}) /\ ToSet(<<>>) = {}
    BY DEF ToSet
  <2> QED BY <2>1 DEF Injected, IsSeq
<1>3. Injected(LoadAddress(15, start) \o LoadAddress(1, RAM_BASE) \o copy)
  <2> HIDE DEF copy
  <2> QED BY <1>1, LoadInjected, InjectedJoin
<1> QED BY <1>2, <1>3 DEF CopyData

LEMMA JumpInjected ==
  ASSUME NEW labels, NEW text_start_word
  PROVE  Injected(JumpToMain(labels, text_start_word))
<1> DEFINE ldi == [prefix |-> "H", mnemonic |-> "LDI", args |-> <<R15, MainOperand("hi")>>]
           adi == [prefix |-> "SLT", mnemonic |-> "ADI", args |-> <<R15, MainOperand("lo")>>]
           a == Pending(ldi, 0)
           b == Pending(adi, 0)
           jmp == Encoded(build_word(0, OPCODES.JMP, 15 * Weight("B")))
           there == IF text_start_word = None THEN 0 ELSE text_start_word
<1>1. a.line = 0 /\ b.line = 0 /\ jmp.line = 0
  BY DEF Pending, Encoded
<1>2. JumpToMain(labels, text_start_word) =
        (IF "main" \in DOMAIN labels THEN <<a, b>> ELSE LoadAddress(15, there)) \o <<jmp>>
  BY DEF JumpToMain
<1> HIDE DEF a, b, jmp, there
<1>3. Injected(<<a, b>>)
  <2>1. <<a, b>> \in Seq({a, b}) /\ ToSet(<<a, b>>) = {a, b}
    BY DEF ToSet
  <2> QED BY <1>1, <2>1 DEF Injected, IsSeq
<1>4. Injected(<<jmp>>) /\ Injected(LoadAddress(15, there))
  BY <1>1, OneInjected, LoadInjected
<1> QED BY <1>2, <1>3, <1>4, InjectedJoin

\* The instructions of .start have operands.
LEMMA TypedJoin ==
  ASSUME NEW a, IsSeq(a), Typed(a), NEW b, IsSeq(b), Typed(b)
  PROVE  Typed(a \o b)
  BY JoinedItems DEF Typed

LEMMA EncodedTyped ==
  ASSUME NEW tipo, NEW op, NEW operands \in Int
  PROVE  WellTyped(Encoded(build_word(tipo, op, operands)))
  BY DEF WellTyped, Encoded, build_word

LEMMA LoadTyped ==
  ASSUME NEW r \in 0 .. 15, NEW address \in Int
  PROVE  Typed(LoadAddress(r, address))
<1> PICK hi : hi = compute_hi_lo(address).hi
  OBVIOUS
<1> PICK lo : lo = compute_hi_lo(address).lo
  OBVIOUS
<1>1. hi \in Int /\ lo \in Int /\ r * Weight("A") \in Int
  BY Halves, Sixteenths DEF Weight
<1>2. (r * Weight("A")) + hi \in Int /\ (r * Weight("A")) + lo \in Int
  BY <1>1
<1>3. WellTyped(Ldi(r, hi)) /\ WellTyped(Adi(r, lo))
  BY <1>2, EncodedTyped DEF Ldi, Adi
<1>4. ToSet(LoadAddress(r, address)) = {Ldi(r, hi), Adi(r, lo)}
  <2> PICK a, b : a = Ldi(r, hi) /\ b = Adi(r, lo)
    OBVIOUS
  <2>1. LoadAddress(r, address) = <<a, b>>
    BY DEF LoadAddress
  <2> QED BY <2>1 DEF ToSet
<1> QED BY <1>3, <1>4 DEF Typed

LEMMA CopyTyped ==
  ASSUME NEW start \in Int, NEW n \in Nat
  PROVE  Typed(CopyData(start, n))
<1> DEFINE copy == [i \in 1 .. (2 * n) |->
                      IF i % 2 = 1 THEN Move(OPCODES.LOD, 15, 4 * ((i - 1) \div 2))
                                   ELSE Move(OPCODES.STR, 1, 4 * ((i - 1) \div 2))]
           S == {copy[i] : i \in 1 .. (2 * n)}
<1>1. ASSUME NEW op, NEW r \in {1, 15}, NEW offset \in Nat PROVE WellTyped(Move(op, r, offset))
  <2>1. r * Weight("A") \in Int /\ 2 * Weight("B") \in Int /\ offset % HALF \in Int
    BY Sixteenths DEF Weight
  <2>2. (r * Weight("A")) + (2 * Weight("B")) + (offset % HALF) \in Int
    BY <2>1
  <2> QED BY <2>2, EncodedTyped DEF Move
<1>2. Typed(copy) /\ IsSeq(copy)
  <2>1. ASSUME NEW i \in 1 .. (2 * n) PROVE WellTyped(copy[i])
    <3>1. 4 * ((i - 1) \div 2) \in Nat
      OBVIOUS
    <3> QED BY <1>1, <3>1
  <2>2. copy \in [1 .. (2 * n) -> S] /\ 2 * n \in Nat /\ DOMAIN copy = 1 .. (2 * n)
    OBVIOUS
  <2> HIDE DEF copy, S
  <2>3. copy \in Seq(S)
    BY <2>2
  <2> QED BY <2>1, <2>2, <2>3 DEF Typed, ToSet, IsSeq
<1>3. /\ Typed(LoadAddress(15, start)) /\ Typed(LoadAddress(1, RAM_BASE))
      /\ IsSeq(LoadAddress(15, start)) /\ IsSeq(LoadAddress(1, RAM_BASE))
  BY LoadTyped, LoadInjected, MapAssumption DEF Injected
<1>4. Typed(LoadAddress(15, start) \o LoadAddress(1, RAM_BASE) \o copy)
  <2> HIDE DEF copy
  <2> QED BY <1>2, <1>3, TypedJoin, JoinedItems
<1>5. Typed(<<>>)
  BY DEF Typed, ToSet
<1> QED BY <1>4, <1>5 DEF CopyData

LEMMA JumpTyped ==
  ASSUME NEW labels, NEW text_start_word \in Int
  PROVE  Typed(JumpToMain(labels, text_start_word))
<1> DEFINE ldi == [prefix |-> "H", mnemonic |-> "LDI", args |-> <<R15, MainOperand("hi")>>]
           adi == [prefix |-> "SLT", mnemonic |-> "ADI", args |-> <<R15, MainOperand("lo")>>]
           a == Pending(ldi, 0)
           b == Pending(adi, 0)
           jmp == Encoded(build_word(0, OPCODES.JMP, 15 * Weight("B")))
           there == IF text_start_word = None THEN 0 ELSE text_start_word
<1>1. there \in Int
  OBVIOUS
<1>2. Readable(ldi.args) /\ Readable(adi.args)
  BY DEF Readable, R15, MainOperand
<1>3. WellTyped(a) /\ WellTyped(b)
  BY <1>2 DEF WellTyped, Pending
<1>4. WellTyped(jmp)
  <2>1. 15 * Weight("B") \in Int
    BY Sixteenths DEF Weight
  <2> QED BY <2>1, EncodedTyped
<1>5. JumpToMain(labels, text_start_word) =
        (IF "main" \in DOMAIN labels THEN <<a, b>> ELSE LoadAddress(15, there)) \o <<jmp>>
  BY DEF JumpToMain
<1> HIDE DEF a, b, jmp, there
<1>6. /\ Typed(<<a, b>>) /\ IsSeq(<<a, b>>) /\ Typed(<<jmp>>) /\ IsSeq(<<jmp>>)
  <2>1. <<a, b>> \in Seq({a, b}) /\ ToSet(<<a, b>>) = {a, b} /\ ToSet(<<jmp>>) = {jmp}
    BY DEF ToSet
  <2> QED BY <1>3, <1>4, <2>1, OneItem DEF Typed, IsSeq
<1>7. Typed(LoadAddress(15, there)) /\ IsSeq(LoadAddress(15, there))
  BY <1>1, LoadTyped, LoadInjected DEF Injected
<1> QED BY <1>5, <1>6, <1>7, TypedJoin

LEMMA EndTraces ==
  ASSUME TraceInv, EndFirstPass
  PROVE  IsSeq(rom'.pending) /\ Traces(rom', Len(lines) + 1)
<1> DEFINE flushed == flush_pending_bytes(rom)
           withData == Emitted(flushed, DataWords)
<1>1. /\ phase = "first" /\ line \notin DOMAIN lines
      /\ batch \in Batches /\ job \in DOMAIN batch /\ line \in 1 .. (Len(lines) + 1)
  BY DEF EndFirstPass, TraceInv, Numbered
<1>2. line = Len(lines) + 1
  BY <1>1, LinesAreNumbered
<1>3. RomCounts(rom) /\ RamCounts(ram) /\ Traces(rom, line)
  BY <1>1, Counted DEF TraceInv
<1>4. RomCounts(flushed) /\ Traces(flushed, line)
  BY <1>1, <1>3, FlushCounts, FlushTraces
<1>5. CASE ~NeedsStart
  <2>1. rom' = flushed
    BY <1>5 DEF EndFirstPass
  <2> HIDE DEF flushed
  <2>2. IsSeq(flushed.pending)
    BY <1>4 DEF RomCounts, RomType, IsSeq
  <2> QED BY <1>2, <1>4, <2>1, <2>2
<1>6. CASE NeedsStart
  <2> DEFINE named == Assigned(FixedUp(label_map), ".start", withData.rom_address)
             copy == CopyData(flushed.rom_address, Len(DataWords))
             jump == JumpToMain(named, flushed.text_start_word)
  <2>1. rom' = [withData EXCEPT !.pending = withData.pending \o copy \o jump]
    BY <1>6 DEF EndFirstPass, InjectStart
  <2>2. Injected(DataWords) /\ Typed(DataWords)
    BY <1>3, DataWordsInjected
  <2>3. Len(DataWords) \in Nat
    BY <2>2 DEF Injected, IsSeq
  <2>4. Injected(copy) /\ Injected(jump) /\ Typed(copy) /\ Typed(jump)
    <3>1. flushed.rom_address \in Int /\ flushed.text_start_word \in Int
      <4> HIDE DEF flushed
      <4> QED BY <1>4 DEF RomCounts, RomType
    <3> QED BY <2>3, <3>1, CopyInjected, JumpInjected, CopyTyped, JumpTyped
  <2>5. Emittable(DataWords) /\ Emittable(copy) /\ Emittable(jump)
    BY <1>1, <2>2, <2>4, InjectedAreEmittable
  <2> HIDE DEF flushed, copy, jump
  <2>6. RomCounts(withData) /\ Traces(withData, line)
    BY <1>4, <2>2, <2>5, EmittedCounts, EmittedTraces DEF Injected
  <2> HIDE DEF withData
  <2>7. rom'.pending = withData.pending \o copy \o jump
    BY <2>1, <2>6 DEF RomCounts, RomType
  <2>8. IsSeq(withData.pending) /\ IsSeq(copy) /\ IsSeq(jump)
    BY <2>4, <2>6 DEF RomCounts, RomType, IsSeq, Injected
  <2>9. /\ IsSeq(rom'.pending)
        /\ ToSet(rom'.pending) = ToSet(withData.pending) \union ToSet(copy) \union ToSet(jump)
    BY <2>7, <2>8, JoinedItems
  <2> QED BY <1>2, <2>5, <2>6, <2>9 DEF Traces, Emittable
<1> QED BY <1>5, <1>6

-----------------------------------------------------------------------------
\* Every label stands for a number.
LEMMA NamedAddresses ==
  ASSUME NEW labels, Addresses(labels), NEW name, NEW a \in Int
  PROVE  Addresses(Assigned(labels, name, a))
  BY DEF Addresses, Assigned

LEMMA FixedUpAddresses ==
  ASSUME RamCounts(ram), NEW labels, Addresses(labels)
  PROVE  Addresses(FixedUp(labels))
<1> DEFINE start == RAM_BASE + ram.ram_data_offset + Pad(ram.ram_data_offset, 4)
<1>1. start \in Int /\ BSS_MARK \in Int
  <2>1. ram.ram_data_offset \in Nat
    BY DEF RamCounts, RamType
  <2>2. Pad(ram.ram_data_offset, 4) \in Nat
    BY <2>1, PadIsNat
  <2> QED BY <2>1, <2>2, MapAssumption
<1>2. FixedUp(labels) =
        [name \in DOMAIN labels |->
           IF mode = "rom" /\ labels[name] \in BSS_MARK .. (BSS_END - 1)
             THEN start + (labels[name] - BSS_MARK) ELSE labels[name]]
  BY DEF FixedUp
<1> HIDE DEF start
<1> QED BY <1>1, <1>2 DEF Addresses

LEMMA CommAddresses ==
  ASSUME FirstPassInv, Addresses(label_map), Comm
  PROVE  Addresses(label_map')
<1>1. phase = "first" /\ Reading("comm")
  BY DEF Comm, Reading
<1>2. ThisLine.align \in Nat
  BY <1>1, LineIsTyped
<1>3. /\ RomCounts(rom) /\ RamCounts(ram)
      /\ ram.ram_bss_offset \in Nat
  BY <1>1, Counted
<1>4. AlignedWords(rom, ThisLine.align, line).rom_address \in Int
  BY <1>2, <1>3, AlignedCounts, SMTT(30) DEF RomCounts, RomType
<1> DEFINE k == IF ThisLine.align > 0 THEN ThisLine.align ELSE 1
<1>5. k \in Nat \ {0}
  BY <1>2
<1>6. BSS_MARK + ram.ram_bss_offset + BssPad(k) \in Int
  <2> HIDE DEF k
  <2>1. BssPad(k) \in Nat
    BY <1>1, <1>5, PadsAreBytes
  <2>2. BSS_MARK \in Nat
    BY MapAssumption
  <2> QED BY <1>3, <2>1, <2>2
<1>7. \/ label_map' = label_map
      \/ label_map' = Assigned(label_map, ThisLine.name,
                              BSS_MARK + ram.ram_bss_offset + BssPad(k))
      \/ label_map' = Assigned(label_map, ThisLine.name,
                              AlignedWords(rom, ThisLine.align, line).rom_address)
  BY DEF Comm, CommRom, CommRam
<1> HIDE DEF k
<1> QED BY <1>4, <1>6, <1>7, NamedAddresses

LEMMA LabelAddresses ==
  ASSUME FirstPassInv, Addresses(label_map), Label
  PROVE  Addresses(label_map')
<1>1. phase = "first"
  BY DEF Label, Reading
<1>2. RomCounts(rom) /\ RamCounts(ram)
  BY <1>1, Counted
<1>3. rom' = flush_pending_bytes(rom)
  BY DEF Label
<1>4. rom'.rom_address \in Int
  BY <1>2, <1>3, FlushCounts DEF RomCounts, RomType
<1>5. LabelAddress(rom') \in Int
  BY <1>2, <1>4, MapAssumption DEF LabelAddress, RamCounts, RamType
<1>6. \/ label_map' = label_map
      \/ label_map' = Assigned(label_map, ThisLine.name, LabelAddress(rom'))
  BY DEF Label
<1> QED BY <1>5, <1>6, NamedAddresses

LEMMA EndAddresses ==
  ASSUME FirstPassInv, Addresses(label_map), EndFirstPass
  PROVE  Addresses(label_map')
<1>1. RomCounts(rom) /\ RamCounts(ram)
  BY Counted DEF EndFirstPass
<1>2. Addresses(FixedUp(label_map))
  BY <1>1, FixedUpAddresses
<1>3. RomCounts(Emitted(flush_pending_bytes(rom), DataWords))
  BY <1>1, FlushCounts, EmittedCounts, DataWordsInjected DEF Injected
<1>4. Emitted(flush_pending_bytes(rom), DataWords).rom_address \in Int
  BY <1>3 DEF RomCounts, RomType
<1>5. \/ label_map' = FixedUp(label_map)
      \/ label_map' = Assigned(FixedUp(label_map), ".start",
                        Emitted(flush_pending_bytes(rom), DataWords).rom_address)
  BY DEF EndFirstPass, InjectStart
<1> QED BY <1>2, <1>4, <1>5, NamedAddresses

-----------------------------------------------------------------------------
(***************************************************************************)
(* Between the passes every instruction waits under its line; the second   *)
(* one encodes what waits, and counts an error for what it cannot.         *)
(***************************************************************************)
CodeInv ==
  /\ TraceInv
  /\ errors \in Nat /\ Addresses(label_map)
  /\ phase = "second" => IsSeq(rom.pending) /\ Traces(rom, Len(lines) + 1)
  /\ EncodedAsWritten

LEMMA SecondPassEncodes ==
  ASSUME CodeInv, SecondPass
  PROVE  errors' \in Nat /\ EncodedAsWritten'
<1>1. /\ IsSeq(rom.pending) /\ Traces(rom, Len(lines) + 1)
      /\ batch \in Batches /\ job \in DOMAIN batch
      /\ errors \in Nat /\ Addresses(label_map)
  BY DEF CodeInv, TraceInv, Numbered, SecondPass
<1> DEFINE p == rom.pending
           left == {i \in DOMAIN p : ~Resolvable(p[i])}
<1>2. IsFiniteSet(left) /\ Cardinality(left) \in Nat
  <2>1. PICK S : p \in Seq(S)
    BY <1>1 DEF IsSeq
  <2>2. DOMAIN p = 1 .. Len(p) /\ Len(p) \in Nat
    BY <2>1
  <2>3. IsFiniteSet(DOMAIN p)
    <3> PICK n \in Int : n = Len(p)
      BY <2>2
    <3> PICK one \in Int : one = 1
      OBVIOUS
    <3>1. IsFiniteSet(one .. n)
      BY FS_Interval
    <3> QED BY <2>2, <3>1
  <2> QED BY <2>3, FS_Subset, FS_CardinalityType
<1>3. /\ errors' = errors + Cardinality(left)
      /\ image' = [i \in DOMAIN p |-> [line |-> p[i].line, word |-> WordOf(p[i])]]
      /\ lines' = lines
  BY DEF SecondPass, lines
<1> HIDE DEF left
<1>4. errors' \in Nat
  BY <1>1, <1>2, <1>3
<1>5. SUFFICES ASSUME errors' = 0
               PROVE  EncodedAsWritten'
  BY <1>4 DEF EncodedAsWritten
<1>6. left = {}
  <2>1. Cardinality(left) = 0
    BY <1>1, <1>2, <1>3, <1>5
  <2> QED BY <1>2, <2>1, FS_EmptySet
<1>7. ASSUME NEW b \in DOMAIN lines, lines[b].dir = "ins"
      PROVE  /\ Encodable(lines[b].ins, label_map) /\ lines[b].ins.args \in Seq(Argument)
             /\ CodeWord(b)' = encode_single(lines[b].ins, label_map)
  <2>1. Code(b) /\ b < Len(lines) + 1
    <3>1. Code(b)
      BY <1>7 DEF Code
    <3> QED BY <1>1, <3>1, LinesAreNumbered
  <2> DEFINE at == IndexOf(b)'
  <2>2. at \in DOMAIN p /\ p[at].line = b
    <3>1. PICK item \in ToSet(p) : item.line = b
      BY <1>1, <2>1 DEF Traces
    <3>2. PICK j \in DOMAIN p : p[j].line = b
      BY <3>1 DEF ToSet
    <3>3. j \in DOMAIN image' /\ image'[j].line = b
      BY <1>3, <3>2
    <3>4. at \in DOMAIN image' /\ image'[at].line = b
      BY <3>3 DEF IndexOf
    <3> HIDE DEF at
    <3> QED BY <1>3, <3>4
  <2> HIDE DEF at
  <2>3. p[at] = Pending(lines[b].ins, b)
    <3>1. Meant(p[at])
      BY <1>1, <2>2 DEF Traces, ToSet
    <3> QED BY <2>1, <2>2, <3>1 DEF Meant
  <2>4. Resolvable(p[at])
    BY <1>6, <2>2 DEF left
  <2>5. Encodable(lines[b].ins, label_map)
    BY <2>3, <2>4 DEF Resolvable, Pending
  <2>6. image'[at].word = encode_single(lines[b].ins, label_map)
    BY <1>3, <2>2, <2>3, <2>4 DEF WordOf, Pending
  <2>7. lines[b].ins.args \in Seq(Argument)
    BY <1>1, <1>7, BatchAssumption DEF lines
  <2> QED BY <2>5, <2>6, <2>7 DEF CodeWord, at
<1> HIDE DEF p
<1>8. /\ Indices("ins")' = Indices("ins") /\ label_map' = label_map
      /\ \A b \in Indices("ins") : b \in DOMAIN lines /\ lines[b].dir = "ins"
  BY <1>3 DEF Indices, SecondPass
<1>9. \A b \in Indices("ins") : AsWritten(lines[b].ins, CodeWord(b)')
  <2> TAKE b \in Indices("ins")
  <2> QED BY <1>1, <1>7, <1>8, EncodingIsAsWritten
<1>10. ASSUME NEW b \in Indices("ins"), NEW c \in Indices("ins"),
              NEW x \in Symbols(lines[b].ins), NEW y \in Symbols(lines[c].ins),
              ArePair(lines[b].ins, x, lines[c].ins, y), OffsetIsBytes(x)
       PROVE  PairReaches(CodeWord(b)', CodeWord(c)', Address(x.sym) + x.off)
  <2>1. /\ Encodable(lines[b].ins, label_map) /\ lines[b].ins.args \in Seq(Argument)
        /\ Encodable(lines[c].ins, label_map) /\ lines[c].ins.args \in Seq(Argument)
        /\ CodeWord(b)' = encode_single(lines[b].ins, label_map)
        /\ CodeWord(c)' = encode_single(lines[c].ins, label_map)
    BY <1>7, <1>8
  <2>2. \/ x.off = 0
        \/ label_map[x.sym] >= WORD_LIMIT /\ label_map[x.sym] + x.off >= WORD_LIMIT
    BY <1>10 DEF OffsetIsBytes
  <2> PICK upper, lower : upper = lines[b].ins /\ lower = lines[c].ins
    OBVIOUS
  <2>3. PairReaches(encode_single(upper, label_map), encode_single(lower, label_map),
                    physical(label_map[x.sym]) + x.off)
    BY <1>1, <1>10, <2>1, <2>2, PairJoins
  <2> QED BY <2>1, <2>3 DEF Address
<1>11. \A sym : Address(sym)' = Address(sym)
  BY <1>8 DEF Address
<1>12. \A x : OffsetIsBytes(x)' <=> OffsetIsBytes(x)
  BY <1>8 DEF OffsetIsBytes
<1> QED BY <1>3, <1>8, <1>9, <1>10, <1>11, <1>12 DEF EncodedAsWritten

LEMMA InitCode ==
  ASSUME BootInit
  PROVE  CodeInv
<1>1. FirstPassInv
  BY InitCounts
<1>2. Len(lines) \in Nat
  BY <1>1, LinesAreNumbered DEF FirstPassInv
<1>3. /\ batch \in Batches /\ job \in DOMAIN batch
      /\ line = 1 /\ phase = "first" /\ rom = EmptyRom /\ label_map = <<>> /\ errors = 0
  BY <1>1 DEF FirstPassInv, BootInit, Init
<1>4. Traces(rom, line)
  BY <1>3, LinesAreNumbered DEF Traces, EmptyRom, ToSet
<1>5. Addresses(label_map)
  BY <1>3 DEF Addresses
<1> QED BY <1>1, <1>2, <1>3, <1>4, <1>5 DEF CodeInv, TraceInv, Numbered, EncodedAsWritten

LEMMA FirstPassKeepsCode ==
  ASSUME CodeInv, FirstPass, ~Raise, FirstPassInv'
  PROVE  CodeInv'
<1>1. PICK dir : Reading(dir)
  BY DEF FirstPass, Section, Comm, Align, Long, Data, Zero, Label, Ignored, Instruction
<1>2. /\ batch' = batch /\ job' = job /\ lines' = lines
      /\ line' = line + 1 /\ line + 1 \in 1 .. (Len(lines) + 1)
      /\ phase = "first" /\ phase' = "first"
  BY <1>1, ReadingIs DEF CodeInv
<1>3. Traces(rom', line + 1)
  BY FirstPassTraces DEF CodeInv
<1>4. TraceInv'
  BY <1>2, <1>3 DEF CodeInv, TraceInv, Numbered, Traces, Meant, Code
<1>5. errors' \in Nat /\ Addresses(label_map')
  <2>1. CASE Comm \/ Label
    BY <2>1, CommAddresses, LabelAddresses DEF CodeInv, TraceInv, Comm, Label
  <2>2. CASE ~(Comm \/ Label)
    BY <2>2 DEF CodeInv, FirstPass, Section, Align, Long, Data, Zero, Ignored, Instruction
  <2> QED BY <2>1, <2>2
<1> QED BY <1>2, <1>4, <1>5 DEF CodeInv, EncodedAsWritten, Addresses

LEMMA StepEncodes ==
  ASSUME CodeInv, [BootNext]_vars
  PROVE  CodeInv'
<1>1. FirstPassInv'
  BY StepCounts DEF CodeInv, TraceInv
<1>2. CASE FirstPass /\ ~Raise
  BY <1>1, <1>2, FirstPassKeepsCode
<1>3. CASE Raise
  <2>1. /\ phase' = "raised" /\ lines' = lines
        /\ UNCHANGED <<batch, job, line, rom, errors, label_map>>
    BY <1>3 DEF Raise, lines
  <2> QED BY <1>1, <2>1 DEF CodeInv, TraceInv, Numbered, EncodedAsWritten, Addresses
<1>4. CASE EndFirstPass
  <2>1. /\ phase' = "second" /\ lines' = lines
        /\ UNCHANGED <<batch, job, line>>
    BY <1>4 DEF EndFirstPass, lines
  <2>2. IsSeq(rom'.pending) /\ Traces(rom', Len(lines) + 1)
    BY <1>4, EndTraces DEF CodeInv
  <2>3. Addresses(label_map')
    BY <1>4, EndAddresses DEF CodeInv, TraceInv
  <2>4. errors' \in Nat
    <3>1. errors' \in {errors, errors + 1}
      BY <1>4, Zenon DEF EndFirstPass, InjectStart
    <3> QED BY <3>1 DEF CodeInv
  <2> QED BY <1>1, <2>1, <2>2, <2>3, <2>4
          DEF CodeInv, TraceInv, Numbered, EncodedAsWritten, Addresses, Traces, Meant, Code,
              IsSeq
<1>5. CASE SecondPass
  <2>1. /\ phase' = "assembled" /\ lines' = lines
        /\ UNCHANGED <<batch, job, line, rom, label_map>>
    BY <1>5 DEF SecondPass, lines
  <2>2. errors' \in Nat /\ EncodedAsWritten'
    BY <1>5, SecondPassEncodes
  <2> QED BY <1>1, <2>1, <2>2 DEF CodeInv, TraceInv, Numbered, Addresses
<1>6. CASE NextJob
  <2>1. /\ line' = 1 /\ phase' = "first" /\ rom' = EmptyRom
        /\ label_map' = <<>> /\ errors' = 0
    BY <1>6 DEF NextJob, Begin
  <2>2. /\ Len(lines)' \in Nat
        /\ \A b : Code(b)' => b \in 1 .. Len(lines)'
    BY <1>1, LinesAssumption DEF FirstPassInv, lines, Code
  <2>3. Traces(rom, line)'
    BY <2>1, <2>2 DEF Traces, EmptyRom, ToSet
  <2>4. Numbered'
    BY <1>1, <2>1, <2>2 DEF Numbered, FirstPassInv
  <2> QED BY <1>1, <2>1, <2>3, <2>4 DEF CodeInv, TraceInv, EncodedAsWritten, Addresses
<1>7. CASE write_rom_logisim
  <2>1. /\ phase' = "running" /\ lines' = lines
        /\ UNCHANGED <<batch, job, line, rom, errors, label_map>>
    BY <1>7 DEF write_rom_logisim, lines
  <2> QED BY <1>1, <2>1 DEF CodeInv, TraceInv, Numbered, EncodedAsWritten, Addresses
<1>8. CASE Cpu \/ UNCHANGED vars
  <2>1. UNCHANGED asm_vars
    BY <1>8 DEF Cpu, CpuNop, CpuLdi, CpuAdi, CpuLod, CpuStr, CpuJmp, CpuHlt, CpuLost,
                Executing, vars
  <2>2. /\ lines' = lines
        /\ UNCHANGED <<batch, job, line, phase, rom, errors, label_map, image>>
    BY <2>1 DEF asm_vars, lines
  <2>3. Indices("ins")' = Indices("ins") /\ \A b : CodeWord(b)' = CodeWord(b)
    BY <2>2 DEF Indices, CodeWord, IndexOf
  <2>4. /\ \A sym : Address(sym)' = Address(sym)
        /\ \A x : OffsetIsBytes(x)' <=> OffsetIsBytes(x)
    BY <2>2 DEF Address, OffsetIsBytes
  <2>5. EncodedAsWritten'
    BY <2>2, <2>3, <2>4 DEF CodeInv, EncodedAsWritten
  <2> QED BY <1>1, <2>2, <2>5 DEF CodeInv, TraceInv, Numbered, Addresses, Traces, Meant, Code,
             IsSeq
<1> QED BY <1>2, <1>3, <1>4, <1>5, <1>6, <1>7, <1>8 DEF BootNext, Running, Assemble, FirstPass

\* Whatever the source, the mode and the jobs before it: every instruction of
\* a program accepted without errors decodes, in the processor, to the
\* mnemonic, prefix and operands written (EncodedAsWritten).
THEOREM AlwaysEncodedAsWritten == BootSpec => []EncodedAsWritten
<1>1. BootInit => CodeInv
  BY InitCode
<1>2. CodeInv /\ [BootNext]_vars => CodeInv'
  BY StepEncodes
<1>3. CodeInv => EncodedAsWritten
  BY DEF CodeInv
<1> QED BY <1>1, <1>2, <1>3, PTL DEF BootSpec

-----------------------------------------------------------------------------
(***************************************************************************)
(* Numbers.                                                                *)
(***************************************************************************)
LEMMA FirstOf ==
  ASSUME NEW S, S \subseteq Nat, S # {}
  PROVE  \E m \in S : \A k \in S : m <= k
<1> DEFINE R == OpToRel(<, Nat)
<1>1. \A x, y \in Nat : x < y => <<x, y>> \in R
  BY Zenon DEF OpToRel
<1>2. IsWellFoundedOn(R, Nat)
  BY NatLessThanWellFounded
<1> HIDE DEF R
<1>3. PICK m \in S : \A k \in S : ~ (<<k, m>> \in R)
  BY <1>2, WFMin
<1>4. \A k \in S : ~ (k < m)
  BY <1>1, <1>3
<1> QED
  BY <1>4

LEMMA LastOf ==
  ASSUME NEW n \in Nat, NEW S, S \subseteq 0 .. n, S # {}
  PROVE  \E m \in S : \A k \in S : k <= m
<1> DEFINE T == {n - k : k \in S}
<1>1. T \subseteq Nat /\ T # {}
  <2>1. \A k \in S : n - k \in Nat
    OBVIOUS
  <2>2. PICK k \in S : TRUE
    OBVIOUS
  <2>3. n - k \in T
    BY <2>2
  <2> QED BY <2>1, <2>3
<1>2. PICK t \in T : \A k \in T : t <= k
  BY <1>1, FirstOf
<1>3. PICK m \in S : t = n - m
  BY <1>2
<1>4. \A k \in S : n - m <= n - k
  BY <1>2, <1>3
<1> QED BY <1>3, <1>4

\* A multiple of a multiple.
LEMMA MultipleIs ==
  ASSUME NEW k \in Nat \ {0}, NEW x \in Nat
  PROVE  /\ x % k = 0 <=> \E q \in Nat : x = k * q
         /\ \A q \in Nat : (k * q) % k = 0
<1>1. \A q \in Nat : (k * q) % k = 0
  <2> SUFFICES ASSUME NEW q \in Nat
               PROVE  (k * q) % k = 0
    OBVIOUS
  <2>1. ((k * q) + 0) % k = 0
    BY DivUnique, 0 \in 0 .. (k - 1)
  <2>2. k * q \in Nat
    OBVIOUS
  <2> QED BY <2>1, <2>2
<1>2. ASSUME x % k = 0 PROVE \E q \in Nat : x = k * q
  <2>1. x \div k \in Nat /\ x = (k * (x \div k)) + (x % k)
    OBVIOUS
  <2> QED BY <1>2, <2>1
<1> QED BY <1>1, <1>2

LEMMA MultipleOfMultiple ==
  ASSUME NEW k \in Nat \ {0}, NEW u \in Nat \ {0}, NEW x \in Nat,
         x % k = 0, k % u = 0
  PROVE  x % u = 0
<1>1. PICK q \in Nat : x = k * q
  BY MultipleIs
<1>2. PICK p \in Nat : k = u * p
  BY MultipleIs
<1>3. x = u * (p * q) /\ p * q \in Nat
  BY <1>1, <1>2
<1> QED BY <1>3, MultipleIs

LEMMA SumOfMultiples ==
  ASSUME NEW k \in Nat \ {0}, NEW x \in Nat, NEW y \in Nat, x % k = 0, y % k = 0
  PROVE  (x + y) % k = 0
<1>1. PICK p \in Nat : x = k * p
  BY MultipleIs
<1>2. PICK q \in Nat : y = k * q
  BY MultipleIs
<1>3. x + y = k * (p + q) /\ p + q \in Nat
  BY ONLY <1>1, <1>2, k \in Nat \ {0}, p \in Nat, q \in Nat
<1> QED BY <1>3, MultipleIs, ZenonT(30)

\* Padding reaches the next multiple, and is nothing at one.
LEMMA PadReaches ==
  ASSUME NEW n \in Nat, NEW k \in Nat \ {0}
  PROVE  /\ Pad(n, k) \in 0 .. (k - 1)
         /\ (n + Pad(n, k)) % k = 0
         /\ n % k = 0 => Pad(n, k) = 0
<1> DEFINE q == n \div k
           r == n % k
<1>1. q \in Nat /\ r \in 0 .. (k - 1) /\ n = (k * q) + r
  OBVIOUS
<1> HIDE DEF q, r
<1>2. CASE r = 0
  <2>1. (k - r) % k = 0
    <3>1. k - r = k * 1
      BY <1>2
    <3> QED BY <3>1, MultipleIs
  <2>2. Pad(n, k) = 0
    BY <2>1 DEF Pad, r
  <2>3. n % k = 0
    BY <1>2 DEF r
  <2> QED BY <2>2, <2>3
<1>3. CASE r # 0
  <2>1. k - r \in 1 .. (k - 1)
    BY <1>1, <1>3
  <2>2. ((k * 0) + (k - r)) % k = k - r
    BY <1>1, <2>1, DivUnique
  <2>3. Pad(n, k) = k - r
    <3>1. (k * 0) + (k - r) = k - r
      BY <2>1
    <3> QED BY <2>2, <3>1 DEF Pad, r
  <2>4. n + (k - r) = k * (q + 1)
    BY <1>1
  <2>5. (n + Pad(n, k)) % k = 0
    BY <1>1, <2>3, <2>4, MultipleIs
  <2>6. n % k # 0
    BY <1>3 DEF r
  <2> QED BY <2>1, <2>3, <2>5, <2>6
<1> QED BY <1>2, <1>3

\* Four bytes to a word.
LEMMA WordAndByte ==
  ASSUME NEW p \in Nat
  PROVE  /\ p \div 4 \in Nat /\ p % 4 \in 0 .. 3
         /\ p = (4 * (p \div 4)) + (p % 4)
         /\ \A n \in Nat : p < 4 * n <=> p \div 4 < n
         /\ \A n \in Nat : (p + 4 * n) \div 4 = (p \div 4) + n /\ (p + 4 * n) % 4 = p % 4
OBVIOUS

-----------------------------------------------------------------------------
(***************************************************************************)
(* The source.                                                             *)
(***************************************************************************)
Given == batch \in Batches /\ job \in DOMAIN batch

LEMMA LinesAre ==
  ASSUME Given
  PROVE  Len(lines) \in Nat /\ DOMAIN lines = 1 .. Len(lines)
  BY LinesAreNumbered DEF Given

LEMMA TypedLine ==
  ASSUME Given, NEW b \in DOMAIN lines
  PROVE  /\ lines[b].dir = "section" => lines[b].name \in {"text", "data", "rodata", "bss"}
         /\ lines[b].dir = "comm" => lines[b].size \in Nat /\ lines[b].align \in Nat
         /\ lines[b].dir = "align" => /\ lines[b].bytes \in Nat \ {0}
                                      /\ lines[b].bytes \in {1, 2} \/ lines[b].bytes % 4 = 0
         /\ lines[b].dir = "long" => /\ lines[b].data \in Seq(Nat) /\ Len(lines[b].data) = 4
                                     /\ \/ lines[b].expr = NoExpr
                                        \/ lines[b].expr.kind = "sym" /\ lines[b].expr.off \in Int
         /\ lines[b].dir = "data" => lines[b].data \in Seq(Nat) /\ lines[b].unit \in {1, 2}
         /\ lines[b].dir = "zero" => lines[b].n \in Nat
  BY BatchAssumption DEF Given, lines

LEMMA SizeIs ==
  ASSUME Given, NEW b \in DOMAIN lines
  PROVE  Size(b) \in Nat /\ Unit(b) \in {1, 2, 4}
<1>1. Size(b) \in Nat
  BY TypedLine DEF Size
<1>2. Unit(b) \in {1, 2, 4}
  BY TypedLine DEF Unit
<1> QED BY <1>1, <1>2

Adds(f, n) ==
  /\ f \in [0 .. n -> Nat]
  /\ \A b \in 0 .. n : f[b] = IF b = 0 THEN 0 ELSE f[b - 1] + Size(b)

LEMMA AddingExists ==
  ASSUME Given, NEW n \in 0 .. Len(lines)
  PROVE  \E f : Adds(f, n)
<1> DEFINE S == {m \in 0 .. Len(lines) : ~ \E f : Adds(f, m)}
<1>1. Len(lines) \in Nat /\ DOMAIN lines = 1 .. Len(lines)
  BY LinesAre
<1>2. SUFFICES ASSUME S # {} PROVE FALSE
  OBVIOUS
<1>3. PICK m \in S : \A k \in S : m <= k
  <2>1. S \subseteq Nat
    OBVIOUS
  <2> QED BY <1>2, <2>1, FirstOf
<1>4. m \in 0 .. Len(lines) /\ ~ \E f : Adds(f, m)
  BY <1>3
<1>5. m # 0
  <2>1. Adds([b \in 0 .. 0 |-> 0], 0)
    BY DEF Adds
  <2> QED BY <1>4, <2>1
<1>6. m - 1 \in 0 .. Len(lines) /\ m - 1 \notin S
  BY <1>1, <1>3, <1>4, <1>5
<1>7. PICK f : Adds(f, m - 1)
  BY <1>6
<1> DEFINE g == [b \in 0 .. m |-> IF b = m THEN f[m - 1] + Size(m) ELSE f[b]]
<1>8. Size(m) \in Nat
  BY <1>1, <1>4, <1>5, SizeIs
<1>9. g \in [0 .. m -> Nat]
  BY <1>1, <1>4, <1>5, <1>7, <1>8 DEF Adds
<1>10. ASSUME NEW b \in 0 .. m
       PROVE  g[b] = IF b = 0 THEN 0 ELSE g[b - 1] + Size(b)
  BY <1>1, <1>4, <1>5, <1>7 DEF Adds
<1> QED BY <1>4, <1>9, <1>10 DEF Adds

LEMMA SizesAdd ==
  ASSUME Given
  PROVE  /\ SizeUpTo[0] = 0
         /\ \A b \in 0 .. Len(lines) : SizeUpTo[b] \in Nat
         /\ \A b \in 1 .. Len(lines) : SizeUpTo[b] = SizeUpTo[b - 1] + Size(b)
<1>1. Len(lines) \in Nat
  BY LinesAre
<1>2. PICK f : Adds(f, Len(lines))
  BY <1>1, AddingExists
<1>3. f = [b \in 0 .. Len(lines) |-> IF b = 0 THEN 0 ELSE f[b - 1] + Size(b)]
  BY <1>2 DEF Adds
<1>4. SizeUpTo = [b \in 0 .. Len(lines) |->
                    IF b = 0 THEN 0 ELSE SizeUpTo[b - 1] + Size(b)]
  BY <1>3 DEF SizeUpTo
<1>5. \A b \in 0 .. Len(lines) : SizeUpTo[b] = IF b = 0 THEN 0 ELSE SizeUpTo[b - 1] + Size(b)
  BY <1>4
<1>6. \A b \in 0 .. Len(lines) : SizeUpTo[b] \in Nat
  <2> DEFINE S == {b \in 0 .. Len(lines) : SizeUpTo[b] \notin Nat}
  <2>1. SUFFICES ASSUME S # {} PROVE FALSE
    OBVIOUS
  <2>2. PICK m \in S : \A k \in S : m <= k
    <3>1. S \subseteq Nat
      OBVIOUS
    <3> QED BY <2>1, <3>1, FirstOf
  <2>3. m \in 0 .. Len(lines) /\ SizeUpTo[m] \notin Nat
    BY <2>2
  <2>4. m # 0
    BY <1>5, <2>3
  <2>5. m - 1 \in 0 .. Len(lines) /\ SizeUpTo[m - 1] \in Nat
    BY <1>1, <2>2, <2>3, <2>4
  <2>6. Size(m) \in Nat
    BY <1>1, <2>3, <2>4, LinesAre, SizeIs
  <2> QED BY <1>5, <2>3, <2>4, <2>5, <2>6
<1>7. SizeUpTo[0] = 0
  BY <1>1, <1>5
<1>8. \A b \in 1 .. Len(lines) : SizeUpTo[b] = SizeUpTo[b - 1] + Size(b)
  BY <1>1, <1>5
<1> QED BY <1>6, <1>7, <1>8

LEMMA SizesGrow ==
  ASSUME Given, NEW a \in 0 .. Len(lines), NEW b \in a .. Len(lines)
  PROVE  SizeUpTo[a] <= SizeUpTo[b]
<1> DEFINE S == {c \in a .. Len(lines) : ~ (SizeUpTo[a] <= SizeUpTo[c])}
<1>1. Len(lines) \in Nat
  BY LinesAre
<1>2. SUFFICES ASSUME S # {} PROVE FALSE
  OBVIOUS
<1>3. PICK m \in S : \A k \in S : m <= k
  <2>1. S \subseteq Nat
    OBVIOUS
  <2> QED BY <1>2, <2>1, FirstOf
<1>4. m \in a .. Len(lines) /\ ~ (SizeUpTo[a] <= SizeUpTo[m])
  BY <1>3
<1>5. m # a
  BY <1>1, <1>4, SizesAdd
<1>6. m - 1 \in a .. Len(lines) /\ SizeUpTo[a] <= SizeUpTo[m - 1]
  BY <1>1, <1>3, <1>4, <1>5
<1>7. m \in DOMAIN lines /\ Size(m) \in Nat
  BY <1>1, <1>4, <1>5, LinesAre, SizeIs
<1>8. /\ SizeUpTo[m] = SizeUpTo[m - 1] + Size(m)
      /\ SizeUpTo[a] \in Nat /\ SizeUpTo[m - 1] \in Nat
  BY <1>1, <1>4, <1>5, <1>6, SizesAdd
<1> QED BY <1>4, <1>6, <1>7, <1>8

-----------------------------------------------------------------------------
\* Objects and their lines.
LEMMA BodyOf ==
  ASSUME Given, NEW k \in Objects, NEW b \in Body(k)
  PROVE  /\ k \in 1 .. Len(lines) /\ b \in 1 .. Len(lines)
         /\ lines[k].dir = "comm" => b = k
         /\ lines[k].dir # "comm" => /\ k < b /\ lines[k].dir = "label"
                                     /\ \A i \in (k + 1) .. b : lines[i].dir \in Emits
         /\ Offset(k, b) \in Nat
<1>1. Len(lines) \in Nat /\ DOMAIN lines = 1 .. Len(lines)
  BY LinesAre
<1>2. k \in 1 .. Len(lines) /\ lines[k].dir \in {"label", "comm"}
  BY <1>1 DEF Objects, Indices
<1>3. CASE lines[k].dir = "comm"
  <2>1. b = k
    BY <1>3 DEF Body
  <2>2. Offset(k, b) = 0
    <3>1. SizeUpTo[k - 1] \in Nat
      BY <1>1, <1>2, SizesAdd
    <3> QED BY <2>1, <3>1 DEF Offset
  <2> QED BY <1>2, <1>3, <2>1, <2>2
<1>4. CASE lines[k].dir # "comm"
  <2>1. b \in 1 .. Len(lines) /\ b > k /\ \A i \in (k + 1) .. b : lines[i].dir \in Emits
    BY <1>1, <1>4 DEF Body
  <2>2. SizeUpTo[k - 1] <= SizeUpTo[b - 1]
    BY <1>1, <1>2, <2>1, SizesGrow
  <2>3. SizeUpTo[k - 1] \in Nat /\ SizeUpTo[b - 1] \in Nat
    BY <1>1, <1>2, <2>1, SizesAdd
  <2> QED BY <1>2, <1>4, <2>1, <2>2, <2>3 DEF Offset
<1> QED BY <1>3, <1>4

\* The section of a line is that of the line before unless that changes it.
Kept(name) == IF name = "rodata" THEN "data" ELSE name

LEMMA FirstSection ==
  ASSUME Given
  PROVE  SectionAt(1) = "text"
<1>1. {i \in Indices("section") : i < 1} = {}
  BY LinesAre DEF Indices
<1> QED BY <1>1 DEF SectionAt

LEMMA NextSection ==
  ASSUME Given, NEW k \in DOMAIN lines
  PROVE  SectionAt(k + 1) = IF lines[k].dir = "section" THEN lines[k].name ELSE SectionAt(k)
<1> DEFINE B(n) == {i \in Indices("section") : i < n}
<1>1. Len(lines) \in Nat /\ DOMAIN lines = 1 .. Len(lines) /\ k \in 1 .. Len(lines)
  BY LinesAre
<1>2. Indices("section") \subseteq 1 .. Len(lines)
  BY <1>1 DEF Indices
<1>3. CASE lines[k].dir = "section"
  <2>1. k \in B(k + 1) /\ \A j \in B(k + 1) : j <= k
    BY <1>1, <1>2, <1>3 DEF Indices
  <2>2. \A m \in B(k + 1) : (\A j \in B(k + 1) : j <= m) => m = k
    BY <1>1, <1>2, <2>1
  <2> DEFINE c == CHOOSE i \in B(k + 1) : \A j \in B(k + 1) : j <= i
  <2>3. c = k
    <3>1. c \in B(k + 1) /\ \A j \in B(k + 1) : j <= c
      BY <2>1
    <3> QED BY <2>2, <3>1
  <2>4. B(k + 1) # {}
    BY <2>1
  <2> HIDE DEF B
  <2>5. SectionAt(k + 1) = lines[c].name
    BY <2>4 DEF SectionAt, B
  <2> QED BY <1>3, <2>3, <2>5
<1>4. CASE lines[k].dir # "section"
  <2>1. B(k + 1) = B(k)
    BY <1>1, <1>2, <1>4 DEF Indices
  <2> DEFINE NameIn(T) == IF T = {} THEN "text"
                        ELSE lines[CHOOSE i \in T : \A j \in T : j <= i].name
  <2>2. SectionAt(k + 1) = NameIn(B(k + 1)) /\ SectionAt(k) = NameIn(B(k))
    BY DEF SectionAt
  <2> HIDE DEF NameIn, B
  <2> QED BY <1>4, <2>1, <2>2
<1> QED BY <1>3, <1>4

LEMMA SectionIs ==
  ASSUME Given, NEW k \in 1 .. (Len(lines) + 1)
  PROVE  SectionAt(k) \in {"text", "data", "rodata", "bss"}
<1> DEFINE B == {i \in Indices("section") : i < k}
<1>1. Len(lines) \in Nat /\ DOMAIN lines = 1 .. Len(lines)
  BY LinesAre
<1>2. B \subseteq 0 .. Len(lines)
  BY <1>1 DEF Indices
<1>3. CASE B = {}
  BY <1>3 DEF SectionAt
<1>4. CASE B # {}
  <2> DEFINE c == CHOOSE i \in B : \A j \in B : j <= i
  <2>1. \E i \in B : \A j \in B : j <= i
    BY <1>1, <1>2, <1>4, LastOf
  <2>2. c \in B
    BY <2>1
  <2>3. c \in DOMAIN lines /\ lines[c].dir = "section"
    BY <2>2 DEF Indices
  <2>4. SectionAt(k) = lines[c].name
    BY <1>4 DEF SectionAt
  <2> HIDE DEF c
  <2> QED BY <2>3, <2>4, TypedLine
<1> QED BY <1>3, <1>4

-----------------------------------------------------------------------------
(***************************************************************************)
(* The bytes of the image, before they are words: those of the items that  *)
(* are pending and then those that wait to be packed.                      *)
(***************************************************************************)
ImageEnd(r) == (4 * Len(r.pending)) + Len(r.pending_bytes)

\* The image has the literal byte v at p.
Has(r, p, v) ==
  IF p < 4 * Len(r.pending)
    THEN LET item == r.pending[(p \div 4) + 1]
         IN  item.kind = "raw" /\ item.expr = NoExpr /\ item.bytes[(p % 4) + 1] = v
    ELSE r.pending_bytes[(p - (4 * Len(r.pending))) + 1] = v

\* What was in the image stays where it is.
Grows(r, s) ==
  /\ Len(r.pending) <= Len(s.pending) /\ ImageEnd(r) <= ImageEnd(s)
  /\ \A i \in 1 .. Len(r.pending) : s.pending[i] = r.pending[i]
  /\ \A p \in 0 .. (ImageEnd(r) - 1) : \A v : Has(r, p, v) => Has(s, p, v)
  /\ r.text_start_word # None => s.text_start_word = r.text_start_word

\* After n items there are only words of data.
RawAfter(s, n) ==
  \A i \in (n + 1) .. Len(s.pending) : s.pending[i].kind = "raw" /\ ~Code(s.pending[i].line)

\* The beginning of .text is in the image.
TextIsIn(r) == r.text_start_word = None \/ r.text_start_word \in 0 .. Len(r.pending)

LEMMA RomIs ==
  ASSUME NEW r, RomCounts(r)
  PROVE  /\ IsSeq(r.pending) /\ Len(r.pending) \in Nat
         /\ DOMAIN r.pending = 1 .. Len(r.pending)
         /\ r.pending_bytes \in Seq(Byte) /\ Len(r.pending_bytes) \in Nat
         /\ r.rom_address = Len(r.pending)
         /\ r.text_start_word \in Int
         /\ ImageEnd(r) \in Nat
<1>1. PICK S : r \in RomType(S)
  BY DEF RomCounts
<1>2. r.pending \in Seq(S) /\ r.pending_bytes \in Seq(Byte) /\ r.text_start_word \in Int
  BY <1>1 DEF RomType
<1>3. Len(r.pending) \in Nat /\ DOMAIN r.pending = 1 .. Len(r.pending)
      /\ Len(r.pending_bytes) \in Nat
  BY <1>2
<1>4. ImageEnd(r) \in Nat
  <2>1. \A a, b \in Nat : (4 * a) + b \in Nat
    OBVIOUS
  <2> QED BY <1>3, <2>1 DEF ImageEnd
<1> QED BY <1>2, <1>3, <1>4 DEF RomCounts, IsSeq

LEMMA SeqIs ==
  ASSUME NEW s, IsSeq(s)
  PROVE  Len(s) \in Nat /\ DOMAIN s = 1 .. Len(s)
<1>1. PICK S : s \in Seq(S)
  BY DEF IsSeq
<1> QED BY <1>1

LEMMA JoinedSeq ==
  ASSUME NEW a, IsSeq(a), NEW b, IsSeq(b)
  PROVE  /\ Len(a \o b) = Len(a) + Len(b) /\ IsSeq(a \o b)
         /\ \A i \in 1 .. Len(a) : (a \o b)[i] = a[i]
         /\ \A i \in 1 .. Len(b) : (a \o b)[Len(a) + i] = b[i]
<1>1. PICK S : a \in Seq(S)
  BY DEF IsSeq
<1>2. PICK T : b \in Seq(T)
  BY DEF IsSeq
<1>3. IsSeq(a \o b)
  BY JoinedItems
<1>4. /\ Len(a \o b) = Len(a) + Len(b)
      /\ \A i \in 1 .. Len(a) : (a \o b)[i] = a[i]
  BY <1>1, <1>2
<1>5. \A i \in 1 .. Len(b) : (a \o b)[Len(a) + i] = b[i]
  BY <1>1, <1>2
<1> QED BY <1>3, <1>4, <1>5

LEMMA GrowsAgain ==
  ASSUME NEW r, RomCounts(r), NEW s, RomCounts(s), NEW t, RomCounts(t), Grows(r, s), Grows(s, t)
  PROVE  Grows(r, t)
<1>1. /\ Len(r.pending) \in Nat /\ Len(s.pending) \in Nat /\ Len(t.pending) \in Nat
      /\ ImageEnd(r) \in Nat /\ ImageEnd(s) \in Nat /\ ImageEnd(t) \in Nat
  BY RomIs
<1>2. /\ Len(r.pending) <= Len(s.pending) /\ ImageEnd(r) <= ImageEnd(s)
      /\ \A i \in 1 .. Len(r.pending) : s.pending[i] = r.pending[i]
      /\ \A p \in 0 .. (ImageEnd(r) - 1) : \A v : Has(r, p, v) => Has(s, p, v)
      /\ r.text_start_word # None => s.text_start_word = r.text_start_word
  BY DEF Grows
<1>3. /\ Len(s.pending) <= Len(t.pending) /\ ImageEnd(s) <= ImageEnd(t)
      /\ \A i \in 1 .. Len(s.pending) : t.pending[i] = s.pending[i]
      /\ \A p \in 0 .. (ImageEnd(s) - 1) : \A v : Has(s, p, v) => Has(t, p, v)
      /\ s.text_start_word # None => t.text_start_word = s.text_start_word
  BY DEF Grows
<1>4. \A i \in 1 .. Len(r.pending) : t.pending[i] = r.pending[i]
  BY <1>1, <1>2, <1>3
<1>5. \A p \in 0 .. (ImageEnd(r) - 1) : p \in 0 .. (ImageEnd(s) - 1)
  BY <1>1, <1>2
<1>6. \A p \in 0 .. (ImageEnd(r) - 1) : \A v : Has(r, p, v) => Has(t, p, v)
  BY <1>2, <1>3, <1>5
<1>7. Len(r.pending) <= Len(t.pending) /\ ImageEnd(r) <= ImageEnd(t)
  BY <1>1, <1>2, <1>3
<1>8. r.text_start_word # None => t.text_start_word = r.text_start_word
  BY <1>2, <1>3
<1> QED BY <1>4, <1>6, <1>7, <1>8 DEF Grows

LEMMA GrowsNot ==
  ASSUME NEW r, RomCounts(r)
  PROVE  Grows(r, r) /\ RawAfter(r, Len(r.pending))
<1>1. Len(r.pending) \in Nat /\ ImageEnd(r) \in Nat
  BY RomIs
<1> QED BY <1>1 DEF Grows, RawAfter

\* Items after the last ones, no byte waiting.
LEMMA EmittedGrows ==
  ASSUME NEW r, RomCounts(r), r.pending_bytes = <<>>, NEW items, IsSeq(items)
  PROVE  /\ RomCounts(Emitted(r, items)) /\ Grows(r, Emitted(r, items))
         /\ Emitted(r, items).pending_bytes = <<>>
         /\ Emitted(r, items).text_start_word = r.text_start_word
         /\ Len(Emitted(r, items).pending) = Len(r.pending) + Len(items)
         /\ ImageEnd(Emitted(r, items)) = ImageEnd(r) + (4 * Len(items))
         /\ ImageEnd(r) = 4 * Len(r.pending)
         /\ \A i \in 1 .. Len(items) : Emitted(r, items).pending[Len(r.pending) + i] = items[i]
         /\ TextIsIn(r) => TextIsIn(Emitted(r, items))
<1> DEFINE s == Emitted(r, items)
<1>1. /\ IsSeq(r.pending) /\ Len(r.pending) \in Nat /\ Len(items) \in Nat
  BY RomIs, SeqIs
<1>2. /\ s.pending = r.pending \o items /\ s.pending_bytes = <<>>
      /\ s.text_start_word = r.text_start_word
  BY DEF Emitted
<1>3. RomCounts(s)
  BY EmittedCounts
<1> HIDE DEF s
<1>4. /\ Len(s.pending) = Len(r.pending) + Len(items)
      /\ \A i \in 1 .. Len(r.pending) : s.pending[i] = r.pending[i]
      /\ \A i \in 1 .. Len(items) : s.pending[Len(r.pending) + i] = items[i]
  BY <1>1, <1>2, JoinedSeq
<1>5. ImageEnd(r) = 4 * Len(r.pending) /\ ImageEnd(s) = (4 * Len(r.pending)) + (4 * Len(items))
  <2>1. Len(r.pending_bytes) = 0 /\ Len(s.pending_bytes) = 0
    BY <1>2
  <2>2. \A a, b \in Nat : (4 * a) + 0 = 4 * a /\ (4 * (a + b)) + 0 = (4 * a) + (4 * b)
    OBVIOUS
  <2> QED BY <1>1, <1>4, <2>1, <2>2 DEF ImageEnd
<1>6. ASSUME NEW p \in 0 .. (ImageEnd(r) - 1), NEW v, Has(r, p, v)
      PROVE  Has(s, p, v)
  <2>1. p \in Nat /\ p < 4 * Len(r.pending) /\ p < 4 * Len(s.pending)
    BY <1>1, <1>4, <1>5
  <2>2. (p \div 4) + 1 \in 1 .. Len(r.pending)
    BY <1>1, <2>1, WordAndByte
  <2>3. s.pending[(p \div 4) + 1] = r.pending[(p \div 4) + 1]
    BY <1>4, <2>2
  <2> QED BY <1>6, <2>1, <2>3 DEF Has
<1>7. Grows(r, s)
  <2>1. \A a, b \in Nat : a <= a + b /\ 4 * a <= (4 * a) + (4 * b)
    OBVIOUS
  <2>2. Len(r.pending) <= Len(s.pending) /\ ImageEnd(r) <= ImageEnd(s)
    BY <1>1, <1>4, <1>5, <2>1
  <2> QED BY <1>2, <1>4, <1>6, <2>2 DEF Grows
<1>8. TextIsIn(r) => TextIsIn(s)
  BY <1>1, <1>2, <1>4 DEF TextIsIn
<1> QED BY <1>1, <1>2, <1>3, <1>4, <1>5, <1>7, <1>8 DEF s

LEMMA MarkedGrows ==
  ASSUME NEW r, RomCounts(r), TextIsIn(r)
  PROVE  /\ RomCounts(Marked(r)) /\ Grows(r, Marked(r)) /\ TextIsIn(Marked(r))
         /\ Marked(r).pending = r.pending /\ Marked(r).pending_bytes = r.pending_bytes
         /\ Marked(r).rom_address = r.rom_address
         /\ section = "text" => Marked(r).text_start_word # None
<1>1. /\ Len(r.pending) \in Nat /\ r.rom_address = Len(r.pending) /\ ImageEnd(r) \in Nat
  BY RomIs
<1>2. PICK S : r \in RomType(S)
  BY DEF RomCounts
<1>3. /\ Marked(r).pending = r.pending /\ Marked(r).pending_bytes = r.pending_bytes
      /\ Marked(r).rom_address = r.rom_address
      /\ Marked(r).text_start_word \in {r.text_start_word, r.rom_address}
      /\ r.text_start_word # None => Marked(r).text_start_word = r.text_start_word
      /\ section = "text" => Marked(r).text_start_word # None
  <2>1. r.rom_address # None
    BY <1>1 DEF None
  <2> QED BY <1>2, <2>1 DEF Marked, RomType
<1>4. RomCounts(Marked(r))
  BY MarkedCounts
<1> DEFINE s == Marked(r)
<1>5. TextIsIn(s)
  BY <1>1, <1>3 DEF TextIsIn
<1> HIDE DEF s
<1>6. /\ s.pending = r.pending /\ s.pending_bytes = r.pending_bytes
      /\ r.text_start_word # None => s.text_start_word = r.text_start_word
  BY <1>3 DEF s
<1>7. Grows(r, s)
  <2>1. ImageEnd(s) = ImageEnd(r) /\ \A p, v : Has(r, p, v) => Has(s, p, v)
    BY <1>6 DEF Has, ImageEnd
  <2>2. \A a \in Nat : a <= a
    OBVIOUS
  <2>3. Len(r.pending) <= Len(s.pending) /\ ImageEnd(r) <= ImageEnd(s)
    BY <1>1, <1>6, <2>1, <2>2
  <2> QED BY <1>6, <2>1, <2>3 DEF Grows
<1> QED BY <1>3, <1>4, <1>5, <1>7 DEF s

\* The words of packed bytes hold the bytes.
LEMMA PackedHolds ==
  ASSUME NEW bytes \in Seq(Byte)
  PROVE  /\ IsSeq(Packed(bytes)) /\ Len(Packed(bytes)) = (Len(bytes) + 3) \div 4
         /\ 4 * Len(Packed(bytes)) = Len(bytes) + Pad(Len(bytes), 4)
         /\ \A w \in 1 .. Len(Packed(bytes)) :
              /\ Packed(bytes)[w].kind = "raw" /\ Packed(bytes)[w].expr = NoExpr
              /\ Packed(bytes)[w].line = 0
              /\ DOMAIN Packed(bytes)[w].bytes = 1 .. 4
         /\ \A q \in 0 .. (Len(bytes) - 1) :
              /\ (q \div 4) + 1 \in 1 .. Len(Packed(bytes))
              /\ Packed(bytes)[(q \div 4) + 1].bytes[(q % 4) + 1] = bytes[q + 1]
<1> DEFINE n == (Len(bytes) + 3) \div 4
<1>1. Len(bytes) \in Nat /\ n \in Nat
  OBVIOUS
<1>2. IsSeq(Packed(bytes))
  BY PackedIsSeq
<1>3. Packed(bytes) = [w \in 1 .. n |->
        Raw([k \in 1 .. 4 |-> ByteAt(bytes, (4 * (w - 1)) + k)], NoExpr, 0)]
  BY DEF Packed
<1>4. DOMAIN Packed(bytes) = 1 .. n
  BY <1>3
<1>5. Len(Packed(bytes)) = n
  <2>1. Len(Packed(bytes)) \in Nat /\ DOMAIN Packed(bytes) = 1 .. Len(Packed(bytes))
    BY <1>2, SeqIs
  <2> HIDE DEF n
  <2> QED BY <1>1, <1>4, <2>1
<1>6. 4 * n = Len(bytes) + Pad(Len(bytes), 4)
  <2>1. \A m \in Nat : 4 * ((m + 3) \div 4) = m + ((4 - (m % 4)) % 4)
    OBVIOUS
  <2> QED BY <1>1, <2>1 DEF Pad
<1>7. \A w \in 1 .. n : /\ Packed(bytes)[w].kind = "raw" /\ Packed(bytes)[w].expr = NoExpr
                        /\ Packed(bytes)[w].line = 0
                        /\ Packed(bytes)[w].bytes =
                             [k \in 1 .. 4 |-> ByteAt(bytes, (4 * (w - 1)) + k)]
  <2> SUFFICES ASSUME NEW w \in 1 .. n
               PROVE  /\ Packed(bytes)[w].kind = "raw" /\ Packed(bytes)[w].expr = NoExpr
                      /\ Packed(bytes)[w].line = 0
                      /\ Packed(bytes)[w].bytes =
                           [k \in 1 .. 4 |-> ByteAt(bytes, (4 * (w - 1)) + k)]
    OBVIOUS
  <2> HIDE DEF n
  <2>1. Packed(bytes)[w] = Raw([k \in 1 .. 4 |-> ByteAt(bytes, (4 * (w - 1)) + k)], NoExpr, 0)
    BY <1>3
  <2> QED BY <2>1 DEF Raw
<1>8. ASSUME NEW q \in 0 .. (Len(bytes) - 1)
      PROVE  /\ (q \div 4) + 1 \in 1 .. n
             /\ Packed(bytes)[(q \div 4) + 1].bytes[(q % 4) + 1] = bytes[q + 1]
  <2>1. (q \div 4) + 1 \in 1 .. n
    <3>1. \A m \in Nat : \A c \in 0 .. (m - 1) : (c \div 4) + 1 \in 1 .. ((m + 3) \div 4)
      OBVIOUS
    <3> QED BY <1>1, <3>1
  <2>2. /\ (q % 4) + 1 \in 1 .. 4
        /\ (4 * (((q \div 4) + 1) - 1)) + ((q % 4) + 1) = q + 1
    BY <1>1
  <2>3. Packed(bytes)[(q \div 4) + 1].bytes[(q % 4) + 1] = ByteAt(bytes, q + 1)
    <3> DEFINE w == (q \div 4) + 1
               j == (q % 4) + 1
    <3>1. w \in 1 .. n /\ j \in 1 .. 4 /\ (4 * (w - 1)) + j = q + 1
      BY <2>1, <2>2
    <3> HIDE DEF w, j, n
    <3>2. Packed(bytes)[w].bytes = [k \in 1 .. 4 |-> ByteAt(bytes, (4 * (w - 1)) + k)]
      BY <1>7, <3>1
    <3>3. Packed(bytes)[w].bytes[j] = ByteAt(bytes, (4 * (w - 1)) + j)
      BY <3>1, <3>2
    <3> QED BY <3>1, <3>3 DEF w, j
  <2>4. q + 1 \in DOMAIN bytes
    BY <1>1
  <2> QED BY <2>1, <2>3, <2>4 DEF ByteAt
<1> QED BY <1>2, <1>5, <1>6, <1>7, <1>8

LEMMA FlushGrows ==
  ASSUME NEW r, RomCounts(r), TextIsIn(r), Given
  PROVE  LET s == flush_pending_bytes(r)
         IN  /\ RomCounts(s) /\ Grows(r, s) /\ TextIsIn(s)
             /\ s.pending_bytes = <<>>
             /\ ImageEnd(s) = ImageEnd(r) + Pad(Len(r.pending_bytes), 4)
             /\ ImageEnd(s) = 4 * Len(s.pending)
             /\ RawAfter(s, Len(r.pending))
             /\ ImageEnd(r) % 4 = 0 => ImageEnd(s) = ImageEnd(r)
<1> DEFINE s == flush_pending_bytes(r)
           m == Marked(r)
           e == Emitted(m, Packed(r.pending_bytes))
           L == Len(r.pending)
           n == Len(r.pending_bytes)
           E == ImageEnd(r)
           z == Pad(n, 4)
<1>1. /\ IsSeq(r.pending) /\ L \in Nat /\ n \in Nat /\ r.pending_bytes \in Seq(Byte)
      /\ E \in Nat
  BY RomIs
<1>2. RomCounts(s)
  BY FlushCounts
<1>3. /\ n % 4 = 0 => z = 0
      /\ z \in Nat
  <2>1. \A c \in Nat : Pad(c, 4) \in Nat /\ (c % 4 = 0 => Pad(c, 4) = 0)
    BY DEF Pad
  <2> HIDE DEF n
  <2> QED BY <1>1, <2>1
<1>4. E = (4 * L) + n
  BY DEF ImageEnd
<1>5. E % 4 = 0 <=> n % 4 = 0
  <2> HIDE DEF L, n, E
  <2> QED BY <1>1, <1>4
<1>6. CASE r.pending_bytes = <<>>
  <2>1. s = r /\ n = 0
    BY <1>6 DEF flush_pending_bytes
  <2>2. z = 0
    BY <1>3, <2>1
  <2>3. E = 4 * L /\ E + 0 = E
    BY <1>1, <1>4, <2>1
  <2> QED BY <1>6, <2>1, <2>2, <2>3, GrowsNot
<1>7. CASE r.pending_bytes # <<>>
  <2> DEFINE P == Packed(r.pending_bytes)
             w == Len(P)
             M == Len(s.pending)
             F == ImageEnd(s)
  <2>1. /\ RomCounts(m) /\ Grows(r, m) /\ TextIsIn(m)
        /\ m.pending = r.pending /\ m.pending_bytes = r.pending_bytes
    BY MarkedGrows
  <2>2. IsSeq(P) /\ 4 * w = n + z /\ w \in Nat
    BY <1>1, PackedHolds, SeqIs
  <2>3. s = [e EXCEPT !.pending_bytes = <<>>]
    BY <1>7 DEF flush_pending_bytes
  <2>4. /\ s.pending = r.pending \o P
        /\ s.pending_bytes = <<>> /\ s.text_start_word = m.text_start_word
    BY <2>1, <2>3 DEF Emitted
  <2> HIDE DEF s, m, e
  <2>5. /\ M = L + w
        /\ \A i \in 1 .. L : s.pending[i] = r.pending[i]
        /\ \A i \in 1 .. w : s.pending[L + i] = P[i]
    <3> HIDE DEF P
    <3>1. /\ Len(r.pending \o P) = Len(r.pending) + Len(P)
          /\ \A i \in 1 .. Len(r.pending) : (r.pending \o P)[i] = r.pending[i]
          /\ \A i \in 1 .. Len(P) : (r.pending \o P)[Len(r.pending) + i] = P[i]
      BY <1>1, <2>2, JoinedSeq
    <3> QED BY <2>4, <3>1
  <2>6. F = (4 * M) + 0
    BY <2>4 DEF ImageEnd
  <2>7. \A q \in 0 .. (n - 1) : /\ (q \div 4) + 1 \in 1 .. w
                                /\ P[(q \div 4) + 1].bytes[(q % 4) + 1] = r.pending_bytes[q + 1]
    BY <1>1, PackedHolds
  <2>8. \A i \in 1 .. w : P[i].kind = "raw" /\ P[i].expr = NoExpr /\ P[i].line = 0
    BY <1>1, PackedHolds
  <2>9. \A p, v : Has(s, p, v) <=>
          IF p < 4 * M THEN /\ s.pending[(p \div 4) + 1].kind = "raw"
                            /\ s.pending[(p \div 4) + 1].expr = NoExpr
                            /\ s.pending[(p \div 4) + 1].bytes[(p % 4) + 1] = v
          ELSE s.pending_bytes[(p - (4 * M)) + 1] = v
    BY DEF Has
  <2>10. \A p, v : Has(r, p, v) <=>
          IF p < 4 * L THEN /\ r.pending[(p \div 4) + 1].kind = "raw"
                            /\ r.pending[(p \div 4) + 1].expr = NoExpr
                            /\ r.pending[(p \div 4) + 1].bytes[(p % 4) + 1] = v
          ELSE r.pending_bytes[(p - (4 * L)) + 1] = v
    BY DEF Has
  <2>11. Grows(r, s) <=>
          /\ L <= M /\ E <= F
          /\ \A i \in 1 .. L : s.pending[i] = r.pending[i]
          /\ \A p \in 0 .. (E - 1) : \A v : Has(r, p, v) => Has(s, p, v)
          /\ r.text_start_word # None => s.text_start_word = r.text_start_word
    BY DEF Grows
  <2>12. r.text_start_word # None => s.text_start_word = r.text_start_word
    BY <2>1, <2>4 DEF Grows
  <2>13. \A i \in Int : i \in (L + 1) .. M =>
                                   s.pending[i].kind = "raw" /\ ~Code(s.pending[i].line)
    <3> HIDE DEF L, n, w, M, P
    <3> SUFFICES ASSUME NEW i \in Int, i \in (L + 1) .. M
                 PROVE  s.pending[i].kind = "raw" /\ ~Code(s.pending[i].line)
      OBVIOUS
    <3>1. i - L \in 1 .. w /\ i = L + (i - L)
      BY <1>1, <2>2, <2>5
    <3>2. s.pending[i].line = 0 /\ s.pending[i].kind = "raw"
      BY <2>5, <2>8, <3>1
    <3> QED BY <3>2, LinesAre DEF Code
  <2>14. RawAfter(s, L)
    <3>1. RawAfter(s, L) <=> \A i \in (L + 1) .. M :
            s.pending[i].kind = "raw" /\ ~Code(s.pending[i].line)
      BY DEF RawAfter
    <3> HIDE DEF L, M
    <3>2. M \in Int
      BY <1>1, <2>2, <2>5
    <3> QED BY <1>1, <2>13, <3>1, <3>2
  <2>15. TextIsIn(s)
    <3>1. m.text_start_word = None \/ m.text_start_word \in 0 .. L
      BY <2>1 DEF TextIsIn
    <3>2. TextIsIn(s) <=> s.text_start_word = None \/ s.text_start_word \in 0 .. M
      BY DEF TextIsIn
    <3> HIDE DEF L, M, w
    <3> QED BY <1>1, <2>2, <2>4, <2>5, <3>1, <3>2
  <2> HIDE DEF L, n, E, z, w, M, F, P
  <2>16. M \in Nat /\ L <= M /\ F = 4 * M /\ F = E + z /\ E <= F /\ (E % 4 = 0 => F = E)
    BY <1>1, <1>3, <1>4, <1>5, <2>2, <2>5, <2>6
  <2>17. ASSUME NEW p \in 0 .. (E - 1), NEW v, Has(r, p, v)
         PROVE  Has(s, p, v)
    <3>1. p \in Nat /\ p < (4 * L) + n /\ p < 4 * M
      BY <1>1, <1>3, <1>4, <2>16
    <3>2. CASE p < 4 * L
      <4>1. (p \div 4) + 1 \in 1 .. L
        BY <1>1, <3>1, <3>2, WordAndByte
      <4> QED BY <2>5, <2>9, <2>10, <2>17, <3>1, <3>2, <4>1
    <3>3. CASE ~ (p < 4 * L)
      <4> DEFINE q == p - (4 * L)
      <4>1. q \in 0 .. (n - 1) /\ p = q + (4 * L)
        BY <1>1, <3>1, <3>3
      <4>2. r.pending_bytes[q + 1] = v
        BY <2>10, <2>17, <3>3
      <4>3. (p \div 4) + 1 = L + ((q \div 4) + 1) /\ p % 4 = q % 4
        BY <1>1, <4>1
      <4> HIDE DEF q
      <4>4. s.pending[(p \div 4) + 1] = P[(q \div 4) + 1]
        BY <2>5, <2>7, <4>1, <4>3
      <4> QED BY <2>7, <2>8, <2>9, <3>1, <4>1, <4>2, <4>3, <4>4
    <3> QED BY <3>2, <3>3
  <2>18. Grows(r, s)
    BY <2>5, <2>11, <2>12, <2>16, <2>17
  <2> QED BY <1>2, <2>4, <2>14, <2>15, <2>16, <2>18 DEF s, L, n, E, z, M, F
<1> QED BY <1>6, <1>7

\* Words of zeros up to a multiple.
LEMMA ZeroWordsAre ==
  ASSUME NEW n \in Nat, NEW l
  PROVE  /\ IsSeq(ZeroWords(n, l)) /\ Len(ZeroWords(n, l)) = n
         /\ \A i \in 1 .. n : ZeroWords(n, l)[i] = Raw(Zeros(4), NoExpr, l)
<1>1. IsSeq(ZeroWords(n, l))
  BY ZeroWordsIsSeq
<1>2. DOMAIN ZeroWords(n, l) = 1 .. n /\ \A i \in 1 .. n : ZeroWords(n, l)[i] = Raw(Zeros(4), NoExpr, l)
  BY DEF ZeroWords
<1>3. Len(ZeroWords(n, l)) \in Nat /\ DOMAIN ZeroWords(n, l) = 1 .. Len(ZeroWords(n, l))
  BY <1>1, SeqIs
<1> QED BY <1>1, <1>2, <1>3

LEMMA ZeroWordsHold ==
  ASSUME NEW r, RomCounts(r), r.pending_bytes = <<>>, NEW n \in Nat, NEW l,
         NEW p \in ImageEnd(r) .. (ImageEnd(r) + 4 * n - 1)
  PROVE  Has(Emitted(r, ZeroWords(n, l)), p, ZeroByte)
<1> DEFINE s == Emitted(r, ZeroWords(n, l))
           L == Len(r.pending)
           M == Len(s.pending)
<1>1. L \in Nat
  BY RomIs
<1> DEFINE W == ZeroWords(n, l)
<1>2. IsSeq(W) /\ Len(W) = n
  BY ZeroWordsAre
<1>3. /\ M = L + n /\ ImageEnd(r) = 4 * L
      /\ \A i \in 1 .. n : s.pending[L + i] = ZeroWords(n, l)[i]
  <2> HIDE DEF W
  <2>1. /\ Len(Emitted(r, W).pending) = Len(r.pending) + Len(W)
        /\ ImageEnd(r) = 4 * Len(r.pending)
        /\ \A i \in 1 .. Len(W) : Emitted(r, W).pending[Len(r.pending) + i] = W[i]
    BY <1>2, EmittedGrows, ZenonT(30)
  <2> QED BY ONLY <1>2, <2>1 DEF W
<1>4. \A i \in 1 .. n : s.pending[L + i] = Raw(Zeros(4), NoExpr, l)
  BY <1>3, ZeroWordsAre
<1>5. Has(s, p, ZeroByte) <=>
          IF p < 4 * M THEN /\ s.pending[(p \div 4) + 1].kind = "raw"
                            /\ s.pending[(p \div 4) + 1].expr = NoExpr
                            /\ s.pending[(p \div 4) + 1].bytes[(p % 4) + 1] = ZeroByte
          ELSE s.pending_bytes[(p - (4 * M)) + 1] = ZeroByte
  BY DEF Has
<1> HIDE DEF s, L, M
<1>6. p \in Nat /\ p < 4 * M /\ 4 * L <= p
  BY <1>1, <1>3
<1> DEFINE i == ((p \div 4) + 1) - L
<1>7. i \in 1 .. n /\ L + i = (p \div 4) + 1 /\ (p % 4) + 1 \in 1 .. 4
  BY <1>1, <1>3, <1>6
<1> HIDE DEF i
<1>8. s.pending[(p \div 4) + 1] = Raw(Zeros(4), NoExpr, l)
  BY <1>4, <1>7
<1>9. Zeros(4)[(p % 4) + 1] = ZeroByte
  BY <1>7 DEF Zeros
<1> QED BY <1>5, <1>6, <1>8, <1>9 DEF Raw, s

LEMMA AlignedGrows ==
  ASSUME NEW r, RomCounts(r), r.pending_bytes = <<>>, TextIsIn(r),
         NEW k \in Nat, k \in {0, 1, 2} \/ k % 4 = 0, NEW l, ~Code(l)
  PROVE  LET s == AlignedWords(r, k, l)
         IN  /\ RomCounts(s) /\ Grows(r, s) /\ TextIsIn(s)
             /\ s.pending_bytes = <<>> /\ s.text_start_word = r.text_start_word
             /\ RawAfter(s, Len(r.pending))
             /\ ImageEnd(s) = 4 * Len(s.pending) /\ ImageEnd(s) \in Nat
             /\ k # 0 => ImageEnd(s) % k = 0
<1> DEFINE n == IF k > 4 THEN Pad(r.rom_address, k \div 4) ELSE 0
           s == Emitted(r, ZeroWords(n, l))
           L == Len(r.pending)
           M == Len(s.pending)
<1>1. L \in Nat /\ r.rom_address = L
  BY RomIs
<1>2. k > 4 => /\ k \div 4 \in Nat \ {0} /\ k = 4 * (k \div 4)
               /\ n \in Nat /\ (L + n) % (k \div 4) = 0
  <2> SUFFICES ASSUME k > 4
               PROVE  /\ k \div 4 \in Nat \ {0} /\ k = 4 * (k \div 4)
                      /\ n \in Nat /\ (L + n) % (k \div 4) = 0
    OBVIOUS
  <2>1. k \div 4 \in Nat \ {0} /\ k = 4 * (k \div 4)
    OBVIOUS
  <2>2. n = Pad(L, k \div 4)
    BY <1>1
  <2>3. Pad(L, k \div 4) \in 0 .. ((k \div 4) - 1) /\ (L + Pad(L, k \div 4)) % (k \div 4) = 0
    BY <1>1, <2>1, PadReaches
  <2> HIDE DEF L, n
  <2>4. n \in Nat
    BY <2>1, <2>2, <2>3
  <2> QED BY <2>1, <2>2, <2>3, <2>4
<1>3. n \in Nat
  BY <1>2
<1>4. s = AlignedWords(r, k, l)
  BY DEF AlignedWords
<1> HIDE DEF n
<1> DEFINE W == ZeroWords(n, l)
<1>5. IsSeq(W) /\ Len(W) = n
  BY <1>3, ZeroWordsAre
<1>6. /\ RomCounts(s) /\ Grows(r, s) /\ TextIsIn(s) /\ s.pending_bytes = <<>>
      /\ s.text_start_word = r.text_start_word
      /\ M = L + n
      /\ \A i \in 1 .. n : s.pending[L + i] = ZeroWords(n, l)[i]
  <2> HIDE DEF W
  <2>1. /\ RomCounts(Emitted(r, W)) /\ Grows(r, Emitted(r, W))
        /\ TextIsIn(Emitted(r, W))
        /\ Emitted(r, W).pending_bytes = <<>>
        /\ Emitted(r, W).text_start_word = r.text_start_word
        /\ Len(Emitted(r, W).pending) = Len(r.pending) + Len(W)
        /\ \A i \in 1 .. Len(W) : Emitted(r, W).pending[Len(r.pending) + i] = W[i]
    BY <1>5, EmittedGrows, ZenonT(30)
  <2> QED BY ONLY <1>5, <2>1 DEF W
<1>7. RawAfter(s, L)
  <2>1. RawAfter(s, L) <=> \A i \in (L + 1) .. M :
            s.pending[i].kind = "raw" /\ ~Code(s.pending[i].line)
    BY DEF RawAfter
  <2> SUFFICES ASSUME NEW i \in (L + 1) .. M
               PROVE  s.pending[i].kind = "raw" /\ ~Code(s.pending[i].line)
    BY <2>1
  <2> HIDE DEF L, M, s
  <2>2. i - L \in 1 .. n /\ L + (i - L) = i
    BY <1>1, <1>3, <1>6
  <2>3. s.pending[i] = Raw(Zeros(4), NoExpr, l)
    BY <1>3, <1>6, <2>2, ZeroWordsAre
  <2> QED BY <2>3 DEF Raw
<1>8. ImageEnd(s) = (4 * M) + 0
  BY <1>6 DEF ImageEnd
<1> HIDE DEF s, L, M
<1>9. ImageEnd(s) = 4 * M /\ 4 * M \in Nat
  BY <1>1, <1>3, <1>6, <1>8
<1>10. ASSUME k # 0
       PROVE  (4 * M) % k = 0
  <2>1. CASE k > 4
    <3> DEFINE q == k \div 4
    <3>1. q \in Nat \ {0} /\ k = 4 * q /\ M % q = 0 /\ M \in Nat
      BY <1>1, <1>2, <1>3, <1>6, <2>1
    <3> HIDE DEF q
    <3>2. PICK t \in Nat : M = q * t
      BY <3>1, MultipleIs
    <3>3. 4 * M = k * t
      BY <3>1, <3>2
    <3>4. (k * t) % k = 0
      BY <1>10, <2>1, MultipleIs
    <3> QED BY <3>3, <3>4
  <2>2. CASE ~ (k > 4)
    <3>1. k \in {1, 2, 4} /\ M \in Nat
      BY <1>1, <1>3, <1>6, <1>10, <2>2
    <3> QED BY <3>1
  <2> QED BY <2>1, <2>2
<1> QED BY <1>4, <1>6, <1>7, <1>9, <1>10 DEF L, M

\* Bytes that wait.
LEMMA WaitingGrows ==
  ASSUME NEW r, RomCounts(r), TextIsIn(r), NEW data \in Seq(Byte)
  PROVE  LET s == [r EXCEPT !.pending_bytes = @ \o data]
         IN  /\ RomCounts(s) /\ Grows(r, s) /\ TextIsIn(s)
             /\ s.pending = r.pending /\ s.text_start_word = r.text_start_word
             /\ s.pending_bytes = r.pending_bytes \o data
             /\ ImageEnd(s) = ImageEnd(r) + Len(data)
             /\ \A j \in 1 .. Len(data) : Has(s, (ImageEnd(r) + j) - 1, data[j])
<1> DEFINE s == [r EXCEPT !.pending_bytes = @ \o data]
           L == Len(r.pending)
           n == Len(r.pending_bytes)
           d == Len(data)
           E == ImageEnd(r)
<1>1. /\ L \in Nat /\ n \in Nat /\ d \in Nat /\ r.pending_bytes \in Seq(Byte) /\ E \in Nat
      /\ E = (4 * L) + n
  <2>1. L \in Nat /\ n \in Nat /\ r.pending_bytes \in Seq(Byte) /\ E \in Nat
    BY RomIs
  <2>2. E = (4 * L) + n
    BY DEF ImageEnd
  <2>3. d \in Nat
    OBVIOUS
  <2> QED BY <2>1, <2>2, <2>3
<1>2. PICK S : r \in RomType(S)
  BY DEF RomCounts
<1>3. /\ s.pending = r.pending /\ s.text_start_word = r.text_start_word
      /\ s.pending_bytes = r.pending_bytes \o data
  BY <1>2 DEF RomType
<1>4. RomCounts(s)
  BY WaitingCounts
<1>5. /\ Len(s.pending_bytes) = n + d
      /\ \A i \in 1 .. n : s.pending_bytes[i] = r.pending_bytes[i]
      /\ \A i \in 1 .. d : s.pending_bytes[n + i] = data[i]
  <2>1. IsSeq(r.pending_bytes) /\ IsSeq(data)
    BY <1>1 DEF IsSeq
  <2> QED BY <1>3, <2>1, JoinedSeq
<1>6. \A p, v : Has(s, p, v) <=>
          IF p < 4 * L THEN /\ r.pending[(p \div 4) + 1].kind = "raw"
                            /\ r.pending[(p \div 4) + 1].expr = NoExpr
                            /\ r.pending[(p \div 4) + 1].bytes[(p % 4) + 1] = v
          ELSE s.pending_bytes[(p - (4 * L)) + 1] = v
  BY <1>3 DEF Has
<1>7. \A p, v : Has(r, p, v) <=>
          IF p < 4 * L THEN /\ r.pending[(p \div 4) + 1].kind = "raw"
                            /\ r.pending[(p \div 4) + 1].expr = NoExpr
                            /\ r.pending[(p \div 4) + 1].bytes[(p % 4) + 1] = v
          ELSE r.pending_bytes[(p - (4 * L)) + 1] = v
  BY DEF Has
<1>8. ImageEnd(s) = (4 * L) + (n + d)
  BY <1>3, <1>5 DEF ImageEnd
<1>9. Grows(r, s) <=>
          /\ L <= L /\ E <= ImageEnd(s)
          /\ \A i \in 1 .. L : r.pending[i] = r.pending[i]
          /\ \A p \in 0 .. (E - 1) : \A v : Has(r, p, v) => Has(s, p, v)
          /\ r.text_start_word # None => r.text_start_word = r.text_start_word
  BY <1>3 DEF Grows
<1>10. TextIsIn(s)
  BY <1>3 DEF TextIsIn
<1> HIDE DEF s, L, n, d, E
<1>11. ImageEnd(s) = E + d /\ L <= L /\ E <= ImageEnd(s)
  BY <1>1, <1>8
<1>12. ASSUME NEW p \in 0 .. (E - 1), NEW v, Has(r, p, v)
       PROVE  Has(s, p, v)
  <2>1. CASE p < 4 * L
    BY <1>6, <1>7, <1>12, <2>1
  <2>2. CASE ~ (p < 4 * L)
    <3>1. (p - (4 * L)) + 1 \in 1 .. n
      BY <1>1, <2>2
    <3> QED BY <1>5, <1>6, <1>7, <1>12, <2>2, <3>1
  <2> QED BY <2>1, <2>2
<1>13. ASSUME NEW j \in 1 .. d
       PROVE  Has(s, (E + j) - 1, data[j])
  <2>1. /\ ~ ((E + j) - 1 < 4 * L)
        /\ (((E + j) - 1) - (4 * L)) + 1 = n + j
    BY <1>1
  <2> QED BY <1>5, <1>6, <2>1
<1>14. Grows(r, s)
  BY <1>9, <1>11, <1>12
<1> QED BY <1>3, <1>4, <1>10, <1>11, <1>13, <1>14 DEF s, E, d

-----------------------------------------------------------------------------
\* What was in .data stays there, and what was counted in .bss is counted.
GrowsRam(m, s) ==
  /\ Len(m.rom_data_bytes) <= Len(s.rom_data_bytes)
  /\ \A i \in 1 .. Len(m.rom_data_bytes) : s.rom_data_bytes[i] = m.rom_data_bytes[i]
  /\ m.ram_bss_offset <= s.ram_bss_offset

LEMMA RamIs ==
  ASSUME NEW m, RamCounts(m)
  PROVE  /\ m.rom_data_bytes \in Seq(Byte) /\ Len(m.rom_data_bytes) \in Nat
         /\ m.ram_data_offset = Len(m.rom_data_bytes) /\ m.ram_bss_offset \in Nat
  BY DEF RamCounts, RamType

LEMMA GrowsRamNot ==
  ASSUME NEW m, RamCounts(m)
  PROVE  GrowsRam(m, m)
  BY RamIs DEF GrowsRam

LEMMA DataGrows ==
  ASSUME NEW m, RamCounts(m), NEW bytes \in Seq(Byte)
  PROVE  LET s == AppendedData(m, bytes)
         IN  /\ RamCounts(s) /\ GrowsRam(m, s)
             /\ Len(s.rom_data_bytes) = Len(m.rom_data_bytes) + Len(bytes)
             /\ s.ram_bss_offset = m.ram_bss_offset
             /\ \A j \in 1 .. Len(bytes) : s.rom_data_bytes[Len(m.rom_data_bytes) + j] = bytes[j]
<1> DEFINE s == AppendedData(m, bytes)
           n == Len(m.rom_data_bytes)
           d == Len(bytes)
<1>1. m.rom_data_bytes \in Seq(Byte) /\ n \in Nat /\ m.ram_bss_offset \in Nat
  BY RamIs
<1>2. IsSeq(m.rom_data_bytes) /\ IsSeq(bytes) /\ d \in Nat
  BY <1>1 DEF IsSeq
<1>3. s.rom_data_bytes = m.rom_data_bytes \o bytes /\ s.ram_bss_offset = m.ram_bss_offset
  BY DEF AppendedData
<1>4. RamCounts(s)
  BY DataCounts
<1>5. /\ Len(s.rom_data_bytes) = n + d
      /\ \A i \in 1 .. n : s.rom_data_bytes[i] = m.rom_data_bytes[i]
      /\ \A j \in 1 .. d : s.rom_data_bytes[n + j] = bytes[j]
  BY <1>2, <1>3, JoinedSeq
<1>6. GrowsRam(m, s) <=>
        /\ n <= Len(s.rom_data_bytes)
        /\ \A i \in 1 .. n : s.rom_data_bytes[i] = m.rom_data_bytes[i]
        /\ m.ram_bss_offset <= s.ram_bss_offset
  BY DEF GrowsRam
<1> HIDE DEF s, n, d
<1>7. n <= Len(s.rom_data_bytes) /\ m.ram_bss_offset <= s.ram_bss_offset
  BY <1>1, <1>2, <1>3, <1>5
<1> QED BY <1>3, <1>4, <1>5, <1>6, <1>7 DEF s, n, d

LEMMA BssGrows ==
  ASSUME NEW m, RamCounts(m), NEW n \in Nat
  PROVE  LET s == ReservedBss(m, n)
         IN  /\ RamCounts(s) /\ GrowsRam(m, s)
             /\ s.rom_data_bytes = m.rom_data_bytes
             /\ s.ram_bss_offset = m.ram_bss_offset + n
<1>1. RamCounts(ReservedBss(m, n))
  BY BssCounts
<1>2. /\ ReservedBss(m, n).rom_data_bytes = m.rom_data_bytes
      /\ ReservedBss(m, n).ram_bss_offset = m.ram_bss_offset + n
  BY DEF ReservedBss, RamCounts, RamType
<1>3. Len(m.rom_data_bytes) \in Nat /\ m.ram_bss_offset \in Nat
  BY RamIs
<1>4. \A a \in Nat : a <= a /\ a <= a + n
  OBVIOUS
<1> HIDE DEF ReservedBss
<1>5. GrowsRam(m, ReservedBss(m, n))
  BY <1>2, <1>3, <1>4 DEF GrowsRam
<1> QED BY <1>1, <1>2, <1>5

-----------------------------------------------------------------------------
(***************************************************************************)
(* Where the bytes of an object go, and where they are before the end of   *)
(* the first pass.                                                         *)
(***************************************************************************)
RegionOf(s) ==
  IF mode = "rom" /\ s = "data" THEN "data"
  ELSE IF mode = "rom" /\ s = "bss" THEN "bss" ELSE "image"
Region(k) == IF InBss(k) THEN "bss" ELSE IF InData(k) THEN "data" ELSE "image"

EndOf(g, r, m) ==
  IF g = "image" THEN ImageEnd(r)
  ELSE IF g = "data" THEN Len(m.rom_data_bytes) ELSE m.ram_bss_offset
From(lab, k) ==
  IF Region(k) = "image" THEN 4 * lab[lines[k].name]
  ELSE lab[lines[k].name] - (IF Region(k) = "data" THEN RAM_BASE ELSE BSS_MARK)

\* The bytes of a line that are known in the first pass.
Refers(b) == lines[b].dir = "long" /\ lines[b].expr # NoExpr
Literal(b) == IF lines[b].dir \in {"data", "long"} THEN DataBytes(lines[b].data)
              ELSE Zeros(Size(b))

InImage(r, p, b) ==
  IF lines[b].dir = "ins" \/ Refers(b)
    THEN /\ p % 4 = 0 /\ (p \div 4) + 1 \in 1 .. Len(r.pending)
         /\ lines[b].dir = "ins" => r.pending[(p \div 4) + 1].line = b
         /\ Refers(b) => /\ r.pending[(p \div 4) + 1].kind = "raw"
                         /\ r.pending[(p \div 4) + 1].expr = lines[b].expr
    ELSE \A j \in 1 .. Size(b) : Has(r, (p + j) - 1, Literal(b)[j])

InRamData(m, rel, p, b) ==
  IF Refers(b) THEN p % 4 = 0 /\ p \in DOMAIN rel /\ rel[p] = lines[b].expr
  ELSE \A j \in 1 .. Size(b) :
         /\ 4 * (((p + j) - 1) \div 4) \notin DOMAIN rel
         /\ m.rom_data_bytes[p + j] = Literal(b)[j]

LineAt(g, r, m, rel, p, b) ==
  /\ g = "image" => InImage(r, p, b)
  /\ g = "data" => InRamData(m, rel, p, b)

\* The relocations are of words of .data.
RelocsAre(m, rel) ==
  \A q \in DOMAIN rel : q \in Nat /\ q % 4 = 0 /\ q + 4 <= Len(m.rom_data_bytes)
\* New ones are of new words.
GrowsRelocs(m, rel, new) ==
  /\ \A q \in DOMAIN rel : q \in DOMAIN new /\ new[q] = rel[q]
  /\ \A q \in DOMAIN new \ DOMAIN rel :
       q \in Nat /\ q % 4 = 0 /\ Len(m.rom_data_bytes) <= q

LEMMA ImageKept ==
  ASSUME NEW r, RomCounts(r), NEW s, RomCounts(s), Grows(r, s), Given,
         NEW p \in Nat, NEW b \in DOMAIN lines, p + Size(b) <= ImageEnd(r), InImage(r, p, b)
  PROVE  InImage(s, p, b)
<1>1. Size(b) \in Nat /\ ImageEnd(r) \in Nat
  BY RomIs, SizeIs
<1>2. Len(r.pending) \in Nat /\ Len(s.pending) \in Nat /\ Len(r.pending) <= Len(s.pending)
  BY RomIs DEF Grows
<1>3. CASE lines[b].dir = "ins" \/ Refers(b)
  <2>1. /\ p % 4 = 0 /\ (p \div 4) + 1 \in 1 .. Len(r.pending)
        /\ lines[b].dir = "ins" => r.pending[(p \div 4) + 1].line = b
        /\ Refers(b) => /\ r.pending[(p \div 4) + 1].kind = "raw"
                         /\ r.pending[(p \div 4) + 1].expr = lines[b].expr
    BY <1>3 DEF InImage
  <2>2. s.pending[(p \div 4) + 1] = r.pending[(p \div 4) + 1]
    BY <2>1 DEF Grows
  <2>3. (p \div 4) + 1 \in 1 .. Len(s.pending)
    BY <1>2, <2>1
  <2> QED BY <1>3, <2>1, <2>2, <2>3 DEF InImage
<1>4. CASE ~ (lines[b].dir = "ins" \/ Refers(b))
  <2>1. \A j \in 1 .. Size(b) : Has(r, (p + j) - 1, Literal(b)[j])
    BY <1>4 DEF InImage
  <2>2. \A j \in 1 .. Size(b) : (p + j) - 1 \in 0 .. (ImageEnd(r) - 1)
    BY <1>1
  <2>3. \A j \in 1 .. Size(b) : Has(s, (p + j) - 1, Literal(b)[j])
    BY <2>1, <2>2 DEF Grows
  <2> QED BY <1>4, <2>3 DEF InImage
<1> QED BY <1>3, <1>4

LEMMA DataKept ==
  ASSUME NEW m, RamCounts(m), NEW s, RamCounts(s), GrowsRam(m, s), Given,
         NEW rel, NEW new, GrowsRelocs(m, rel, new),
         NEW p \in Nat, NEW b \in DOMAIN lines,
         p + Size(b) <= Len(m.rom_data_bytes), InRamData(m, rel, p, b)
  PROVE  InRamData(s, new, p, b)
<1>1. Size(b) \in Nat /\ Len(m.rom_data_bytes) \in Nat
  BY RamIs, SizeIs
<1>2. CASE Refers(b)
  BY <1>2 DEF InRamData, GrowsRelocs
<1>3. CASE ~Refers(b)
  <2> SUFFICES ASSUME NEW j \in 1 .. Size(b)
               PROVE  /\ 4 * (((p + j) - 1) \div 4) \notin DOMAIN new
                      /\ s.rom_data_bytes[p + j] = Literal(b)[j]
    BY <1>3 DEF InRamData
  <2>1. /\ 4 * (((p + j) - 1) \div 4) \notin DOMAIN rel
        /\ m.rom_data_bytes[p + j] = Literal(b)[j]
    BY <1>3 DEF InRamData
  <2>2. p + j \in 1 .. Len(m.rom_data_bytes)
    BY <1>1
  <2>3. s.rom_data_bytes[p + j] = Literal(b)[j]
    BY <2>1, <2>2 DEF GrowsRam
  <2>4. ~ (Len(m.rom_data_bytes) <= 4 * (((p + j) - 1) \div 4))
    <3>1. \A t \in Nat : 4 * (t \div 4) <= t
      OBVIOUS
    <3>2. (p + j) - 1 \in Nat /\ (p + j) - 1 < Len(m.rom_data_bytes)
      BY <1>1
    <3> DEFINE t == (p + j) - 1
    <3>3. t \in Nat /\ t < Len(m.rom_data_bytes) /\ 4 * (t \div 4) <= t /\ t \div 4 \in Nat
      BY <3>1, <3>2
    <3> HIDE DEF t
    <3>4. ~ (Len(m.rom_data_bytes) <= 4 * (t \div 4))
      BY <1>1, <3>3
    <3> QED BY <3>4 DEF t
  <2> QED BY <2>1, <2>3, <2>4 DEF GrowsRelocs
<1> QED BY <1>2, <1>3

\* A line that is in place stays there.
LEMMA LineKept ==
  ASSUME Given, NEW r, RomCounts(r), NEW s, RomCounts(s), Grows(r, s),
         NEW m, RamCounts(m), NEW t, RamCounts(t), GrowsRam(m, t),
         NEW rel, NEW new, GrowsRelocs(m, rel, new),
         NEW g \in {"image", "data", "bss"}, NEW p \in Nat, NEW b \in DOMAIN lines,
         p + Size(b) <= EndOf(g, r, m), LineAt(g, r, m, rel, p, b)
  PROVE  p + Size(b) <= EndOf(g, s, t) /\ LineAt(g, s, t, new, p, b)
<1>1. EndOf(g, r, m) <= EndOf(g, s, t) /\ EndOf(g, r, m) \in Nat /\ EndOf(g, s, t) \in Nat
  BY RomIs, RamIs DEF EndOf, Grows, GrowsRam
<1>2. Size(b) \in Nat
  BY SizeIs
<1>3. p + Size(b) <= EndOf(g, s, t)
  BY <1>1, <1>2
<1>4. LineAt(g, s, t, new, p, b)
  <2>1. CASE g = "image"
    <3>1. p + Size(b) <= ImageEnd(r) /\ InImage(r, p, b)
      BY <2>1 DEF EndOf, LineAt
    <3>2. InImage(s, p, b)
      BY <3>1, ImageKept
    <3> QED BY <2>1, <3>2 DEF LineAt
  <2>2. CASE g = "data"
    <3>1. p + Size(b) <= Len(m.rom_data_bytes) /\ InRamData(m, rel, p, b)
      BY <2>2 DEF EndOf, LineAt
    <3>2. InRamData(t, new, p, b)
      BY <3>1, DataKept
    <3> QED BY <2>2, <3>2 DEF LineAt
  <2>3. CASE g = "bss"
    BY <2>3 DEF LineAt
  <2> QED BY <2>1, <2>2, <2>3
<1> QED BY <1>3, <1>4

-----------------------------------------------------------------------------
(***************************************************************************)
(* The lines before n are laid out: those of an object follow its label,   *)
(* an object ends before the next one of its region begins, and the object *)
(* whose lines are being read ends where its region does.                  *)
(***************************************************************************)
LinesPlaced(r, m, rel, lab, n, k) ==
  \A b \in Body(k) : b < n =>
    /\ LineAt(Region(k), r, m, rel, From(lab, k) + Offset(k, b), b)
    /\ (From(lab, k) + Offset(k, b)) + Size(b) <= EndOf(Region(k), r, m)
LabelPlaced(r, m, lab, k) ==
  /\ lines[k].name \in DOMAIN lab
  /\ From(lab, k) \in Nat /\ From(lab, k) <= EndOf(Region(k), r, m)
  /\ From(lab, k) % Alignment(k) = 0
Placed(r, m, rel, lab, n) ==
  \A k \in Objects : k < n => LabelPlaced(r, m, lab, k) /\ LinesPlaced(r, m, rel, lab, n, k)

Apart(lab, n) ==
  \A k, l \in Objects : k < l /\ l < n =>
    /\ lines[k].name # lines[l].name
    /\ Region(k) = Region(l) =>
         \A b \in Body(k) : (From(lab, k) + Offset(k, b)) + Size(b) <= From(lab, l)

\* The lines that follow the label at k go on to n.
Opened(k, n) ==
  /\ k \in Indices("label") /\ k < n
  /\ \A i \in (k + 1) .. (n - 1) : lines[i].dir \in Emits
Open(r, m, lab, sec, n) ==
  \A k : Opened(k, n) =>
    /\ Region(k) = RegionOf(sec)
    /\ From(lab, k) + Offset(k, n) <= EndOf(Region(k), r, m)
    /\ Region(k) # "bss" => From(lab, k) + Offset(k, n) = EndOf(Region(k), r, m)

Laid(r, m, rel, lab, sec, n) ==
  Placed(r, m, rel, lab, n) /\ Apart(lab, n) /\ Open(r, m, lab, sec, n)

\* A step of the first pass adds to what there is.
Adding(r, s, m, t, rel, new) ==
  /\ RomCounts(r) /\ RomCounts(s) /\ Grows(r, s)
  /\ RamCounts(m) /\ RamCounts(t) /\ GrowsRam(m, t)
  /\ GrowsRelocs(m, rel, new)

-----------------------------------------------------------------------------
LEMMA RegionIs ==
  ASSUME Given, NEW k \in DOMAIN lines
  PROVE  /\ Region(k) \in {"image", "data", "bss"}
         /\ lines[k].dir # "comm" => Region(k) = RegionOf(Kept(SectionAt(k)))
         /\ lines[k].dir = "comm" => Region(k) = IF mode = "rom" THEN "bss" ELSE "image"
<1>1. SectionAt(k) \in {"text", "data", "rodata", "bss"}
  BY LinesAre, SectionIs
<1> QED BY <1>1 DEF Region, RegionOf, Kept, InBss, InData

LEMMA AlignmentIs ==
  ASSUME Given, NEW k \in Objects
  PROVE  Alignment(k) \in Nat \ {0}
<1>1. k \in 1 .. Len(lines) /\ Len(lines) \in Nat /\ DOMAIN lines = 1 .. Len(lines)
  BY LinesAre DEF Objects, Indices
<1>2. lines[k].dir = "comm" => lines[k].align \in Nat
  BY <1>1, TypedLine
<1>3. k > 1 /\ lines[k - 1].dir = "align" => lines[k - 1].bytes \in Nat \ {0}
  <2> SUFFICES ASSUME k > 1, lines[k - 1].dir = "align"
               PROVE  lines[k - 1].bytes \in Nat \ {0}
    OBVIOUS
  <2>1. k - 1 \in DOMAIN lines
    BY <1>1
  <2> QED BY <2>1, TypedLine
<1> QED BY <1>2, <1>3 DEF Alignment

\* The last line of an object is not after the next object.
LEMMA BodyEnds ==
  ASSUME Given, NEW k \in Objects, NEW b \in Body(k), NEW l \in Objects, k < l
  PROVE  b < l
<1>1. /\ k \in 1 .. Len(lines) /\ b \in 1 .. Len(lines) /\ Len(lines) \in Nat
      /\ l \in 1 .. Len(lines)
      /\ lines[k].dir = "comm" => b = k
      /\ lines[k].dir # "comm" => \A i \in (k + 1) .. b : lines[i].dir \in Emits
  BY BodyOf, LinesAre DEF Objects, Indices
<1>2. lines[l].dir \notin Emits
  BY DEF Objects, Indices, Emits
<1>3. CASE lines[k].dir # "comm"
  <2>1. ~ (l \in (k + 1) .. b)
    BY <1>1, <1>2, <1>3
  <2> QED BY <1>1, <2>1
<1> QED BY <1>1, <1>3

\* A line that is read now is of the object that is open, or a .comm itself.
LEMMA LineOf ==
  ASSUME Given, NEW n \in DOMAIN lines, NEW k \in Objects, NEW b \in Body(k), b < n + 1
  PROVE  \/ b < n
         \/ b = n /\ lines[n].dir = "comm" /\ k = n
         \/ b = n /\ lines[n].dir \in Emits /\ Opened(k, n)
<1>1. /\ k \in 1 .. Len(lines) /\ b \in 1 .. Len(lines) /\ Len(lines) \in Nat
      /\ n \in 1 .. Len(lines)
      /\ lines[k].dir = "comm" => b = k
      /\ lines[k].dir # "comm" => /\ k < b /\ lines[k].dir = "label"
                                  /\ \A i \in (k + 1) .. b : lines[i].dir \in Emits
  BY BodyOf, LinesAre
<1>2. CASE b = n /\ lines[k].dir # "comm"
  <2>1. lines[n].dir \in Emits
    BY <1>1, <1>2
  <2>2. \A i \in (k + 1) .. (n - 1) : lines[i].dir \in Emits
    BY <1>1, <1>2
  <2>3. k \in Indices("label")
    BY <1>1, <1>2 DEF Objects, Indices
  <2> QED BY <1>1, <1>2, <2>1, <2>2, <2>3 DEF Opened
<1> QED BY <1>1, <1>2

LEMMA NextOffset ==
  ASSUME Given, NEW k \in Indices("label"), NEW n \in DOMAIN lines, k < n
  PROVE  /\ Offset(k, n) \in Nat /\ Offset(k, n + 1) = Offset(k, n) + Size(n)
         /\ Offset(k, k + 1) = 0
<1>1. k \in 1 .. Len(lines) /\ n \in 1 .. Len(lines) /\ Len(lines) \in Nat
  BY LinesAre DEF Indices
<1>2. SizeUpTo[k - 1] <= SizeUpTo[n - 1]
  BY <1>1, SizesGrow
<1>3. /\ SizeUpTo[k - 1] \in Nat /\ SizeUpTo[n - 1] \in Nat
      /\ SizeUpTo[n] = SizeUpTo[n - 1] + Size(n)
      /\ SizeUpTo[k] = SizeUpTo[k - 1] + Size(k)
  BY <1>1, SizesAdd
<1>4. Size(n) \in Nat /\ Size(k) = 0
  BY SizeIs DEF Size, Indices
<1>5. (n + 1) - 1 = n /\ (k + 1) - 1 = k
  BY <1>1
<1> QED BY <1>2, <1>3, <1>4, <1>5 DEF Offset

LEMMA OffsetAtLabel ==
  ASSUME Given, NEW k \in Indices("label")
  PROVE  Offset(k, k + 1) = 0
<1>1. k \in 1 .. Len(lines) /\ Len(lines) \in Nat /\ (k + 1) - 1 = k
  BY LinesAre DEF Indices
<1>2. SizeUpTo[k - 1] \in Nat /\ SizeUpTo[k] = SizeUpTo[k - 1] + Size(k)
  BY <1>1, SizesAdd
<1>3. Size(k) = 0
  BY DEF Size, Indices
<1> QED BY <1>1, <1>2, <1>3 DEF Offset

-----------------------------------------------------------------------------
\* What was placed before a step is still in place.
LEMMA PlacedStays ==
  ASSUME Given, NEW r, NEW s, NEW m, NEW t, NEW rel, NEW new, Adding(r, s, m, t, rel, new),
         NEW lab, NEW tab, NEW n, Placed(r, m, rel, lab, n),
         NEW k \in Objects, k < n,
         lines[k].name \in DOMAIN lab => /\ lines[k].name \in DOMAIN tab
                                         /\ tab[lines[k].name] = lab[lines[k].name]
  PROVE  /\ LabelPlaced(s, t, tab, k) /\ From(tab, k) = From(lab, k)
         /\ LinesPlaced(s, t, new, tab, n, k)
<1>1. LabelPlaced(r, m, lab, k) /\ LinesPlaced(r, m, rel, lab, n, k)
  BY DEF Placed
<1>2. From(tab, k) = From(lab, k)
  BY <1>1 DEF LabelPlaced, From
<1>3. k \in DOMAIN lines /\ Region(k) \in {"image", "data", "bss"}
  BY RegionIs DEF Objects, Indices
<1>4. LabelPlaced(s, t, tab, k)
  <2>1. EndOf(Region(k), r, m) <= EndOf(Region(k), s, t)
        /\ EndOf(Region(k), r, m) \in Nat /\ EndOf(Region(k), s, t) \in Nat
    BY <1>3, RomIs, RamIs DEF EndOf, Grows, GrowsRam, Adding
  <2> QED BY <1>1, <1>2, <2>1 DEF LabelPlaced
<1>5. LinesPlaced(s, t, new, tab, n, k)
  <2> SUFFICES ASSUME NEW b \in Body(k), b < n
               PROVE  /\ LineAt(Region(k), s, t, new, From(tab, k) + Offset(k, b), b)
                      /\ (From(tab, k) + Offset(k, b)) + Size(b) <= EndOf(Region(k), s, t)
    BY DEF LinesPlaced
  <2>1. /\ LineAt(Region(k), r, m, rel, From(lab, k) + Offset(k, b), b)
        /\ (From(lab, k) + Offset(k, b)) + Size(b) <= EndOf(Region(k), r, m)
    BY <1>1 DEF LinesPlaced
  <2>2. b \in DOMAIN lines /\ Offset(k, b) \in Nat
    BY BodyOf, LinesAre
  <2>3. From(lab, k) + Offset(k, b) \in Nat
    BY <1>1, <2>2 DEF LabelPlaced
  <2> DEFINE p == From(lab, k) + Offset(k, b)
             g == Region(k)
  <2> HIDE DEF p, g
  <2>4. p \in Nat /\ LineAt(g, r, m, rel, p, b) /\ p + Size(b) <= EndOf(g, r, m)
        /\ g \in {"image", "data", "bss"}
    BY <1>3, <2>1, <2>3 DEF p, g
  <2>5. LineAt(g, s, t, new, p, b) /\ p + Size(b) <= EndOf(g, s, t)
    BY <2>2, <2>4, LineKept DEF Adding
  <2> QED BY <1>2, <2>5 DEF p, g
<1> QED BY <1>2, <1>4, <1>5

\* A line that is neither an object nor of one.
LEMMA OtherStep ==
  ASSUME Given, NEW r, NEW s, NEW m, NEW t, NEW rel, NEW new, Adding(r, s, m, t, rel, new),
         NEW lab, NEW sec, NEW sec2, NEW n \in DOMAIN lines, Laid(r, m, rel, lab, sec, n),
         lines[n].dir \notin Emits \union {"label", "comm"}
  PROVE  Laid(s, t, new, lab, sec2, n + 1)
<1>1. n \in 1 .. Len(lines) /\ Len(lines) \in Nat /\ Objects \subseteq 1 .. Len(lines)
      /\ n \notin Objects
  BY LinesAre DEF Objects, Indices
<1>2. Placed(r, m, rel, lab, n) /\ Apart(lab, n)
  BY DEF Laid
<1>3. \A k \in Objects : k < n + 1 => k < n
  BY <1>1
<1>4. Placed(s, t, new, lab, n + 1)
  <2> SUFFICES ASSUME NEW k \in Objects, k < n
               PROVE  LabelPlaced(s, t, lab, k) /\ LinesPlaced(s, t, new, lab, n + 1, k)
    BY <1>3 DEF Placed
  <2>1. LabelPlaced(s, t, lab, k) /\ LinesPlaced(s, t, new, lab, n, k)
    BY <1>2, PlacedStays
  <2>2. \A b \in Body(k) : b < n + 1 => b < n
    BY LineOf
  <2> QED BY <2>1, <2>2 DEF LinesPlaced
<1>5. Apart(lab, n + 1)
  BY <1>2, <1>3 DEF Apart
<1>6. Open(s, t, lab, sec2, n + 1)
  <2>1. ASSUME NEW k, Opened(k, n + 1) PROVE FALSE
    <3>1. k \in Objects /\ k < n + 1 /\ \A i \in (k + 1) .. ((n + 1) - 1) : lines[i].dir \in Emits
      BY <2>1 DEF Opened, Objects
    <3>2. n \in (k + 1) .. ((n + 1) - 1)
      BY <1>1, <1>3, <3>1
    <3> QED BY <3>1, <3>2
  <2> QED BY <2>1 DEF Open
<1> QED BY <1>4, <1>5, <1>6 DEF Laid

\* A line that emits, at the end of the open object if there is one.
LEMMA EmissionStep ==
  ASSUME Given, NEW r, NEW s, NEW m, NEW t, NEW rel, NEW new, Adding(r, s, m, t, rel, new),
         NEW lab, NEW sec, NEW n \in DOMAIN lines, Laid(r, m, rel, lab, sec, n),
         lines[n].dir \in Emits,
         \A k : Opened(k, n) =>
           /\ LineAt(Region(k), s, t, new, From(lab, k) + Offset(k, n), n)
           /\ (From(lab, k) + Offset(k, n)) + Size(n) <= EndOf(Region(k), s, t)
           /\ Region(k) # "bss" =>
                (From(lab, k) + Offset(k, n)) + Size(n) = EndOf(Region(k), s, t)
  PROVE  Laid(s, t, new, lab, sec, n + 1)
<1>1. n \in 1 .. Len(lines) /\ Len(lines) \in Nat /\ Objects \subseteq 1 .. Len(lines)
      /\ n \notin Objects
  BY LinesAre DEF Objects, Indices, Emits
<1>2. Placed(r, m, rel, lab, n) /\ Apart(lab, n) /\ Open(r, m, lab, sec, n)
  BY DEF Laid
<1>3. \A k \in Objects : k < n + 1 => k < n
  BY <1>1
<1>4. Placed(s, t, new, lab, n + 1)
  <2> SUFFICES ASSUME NEW k \in Objects, k < n
               PROVE  LabelPlaced(s, t, lab, k) /\ LinesPlaced(s, t, new, lab, n + 1, k)
    BY <1>3 DEF Placed
  <2>1. LabelPlaced(s, t, lab, k) /\ LinesPlaced(s, t, new, lab, n, k)
    BY <1>2, PlacedStays
  <2>2. \A b \in Body(k) : b < n + 1 => b < n \/ (b = n /\ Opened(k, n))
    BY <1>1, LineOf
  <2> QED BY <2>1, <2>2 DEF LinesPlaced
<1>5. Apart(lab, n + 1)
  BY <1>2, <1>3 DEF Apart
<1>6. Open(s, t, lab, sec, n + 1)
  <2> SUFFICES ASSUME NEW k, Opened(k, n + 1)
               PROVE  /\ Region(k) = RegionOf(sec)
                      /\ From(lab, k) + Offset(k, n + 1) <= EndOf(Region(k), s, t)
                      /\ Region(k) # "bss" =>
                           From(lab, k) + Offset(k, n + 1) = EndOf(Region(k), s, t)
    BY DEF Open
  <2>1. k \in Indices("label") /\ k \in Objects /\ k < n
    BY <1>1, <1>3 DEF Opened, Objects
  <2>2. Opened(k, n)
    BY <1>1, <2>1 DEF Opened
  <2>3. Offset(k, n + 1) = Offset(k, n) + Size(n) /\ Offset(k, n) \in Nat /\ Size(n) \in Nat
    BY <2>1, NextOffset, SizeIs
  <2>4. From(lab, k) \in Nat
    BY <1>2, <2>1 DEF Placed, LabelPlaced
  <2>5. From(lab, k) + Offset(k, n + 1) = (From(lab, k) + Offset(k, n)) + Size(n)
    BY <2>3, <2>4
  <2>6. Region(k) = RegionOf(sec)
    BY <1>2, <2>2 DEF Open
  <2> QED BY <2>2, <2>5, <2>6
<1> QED BY <1>4, <1>5, <1>6 DEF Laid

\* A line that names an object, at the end of its region or after it.
LEMMA NamingStep ==
  ASSUME Given, NEW r, NEW s, NEW m, NEW t, NEW rel, NEW new, Adding(r, s, m, t, rel, new),
         NEW lab, NEW sec, NEW n \in Objects, Laid(r, m, rel, lab, sec, n),
         NEW a \in Int, NEW tab, tab = Assigned(lab, lines[n].name, a),
         lines[n].name \notin DOMAIN lab,
         From(tab, n) % Alignment(n) = 0,
         EndOf(Region(n), r, m) <= From(tab, n), From(tab, n) <= EndOf(Region(n), s, t),
         lines[n].dir = "comm" =>
           /\ LineAt(Region(n), s, t, new, From(tab, n), n)
           /\ From(tab, n) + Size(n) <= EndOf(Region(n), s, t),
         lines[n].dir = "label" =>
           Region(n) = RegionOf(sec) /\ From(tab, n) = EndOf(Region(n), s, t)
  PROVE  Laid(s, t, new, tab, sec, n + 1)
<1>1. /\ n \in 1 .. Len(lines) /\ Len(lines) \in Nat /\ Objects \subseteq 1 .. Len(lines)
      /\ lines[n].dir \in {"label", "comm"}
      /\ n \in DOMAIN lines
  BY LinesAre DEF Objects, Indices
<1>2. Placed(r, m, rel, lab, n) /\ Apart(lab, n)
  BY DEF Laid
<1>3. \A k \in Objects : k < n + 1 => k < n \/ k = n
  BY <1>1
<1>4. /\ EndOf(Region(n), r, m) \in Nat /\ EndOf(Region(n), s, t) \in Nat
  BY RomIs, RamIs DEF EndOf, Adding
<1>5. lines[n].name \in DOMAIN tab /\ tab[lines[n].name] = a
  BY DEF Assigned
<1>6. From(tab, n) \in Nat
  <2>1. From(tab, n) \in Int
    BY <1>5, MapAssumption DEF From
  <2> QED BY <1>4, <2>1
<1>7. ASSUME NEW k \in Objects, k < n
      PROVE  /\ lines[k].name \in DOMAIN lab /\ lines[k].name # lines[n].name
             /\ LabelPlaced(s, t, tab, k) /\ From(tab, k) = From(lab, k)
             /\ LinesPlaced(s, t, new, tab, n, k)
  <2>1. lines[k].name \in DOMAIN lab /\ lines[k].name # lines[n].name
    BY <1>2, <1>7 DEF Placed, LabelPlaced
  <2>2. lines[k].name \in DOMAIN tab /\ tab[lines[k].name] = lab[lines[k].name]
    BY <2>1 DEF Assigned
  <2> QED BY <1>2, <1>7, <2>1, <2>2, PlacedStays
<1>8. \A k \in Objects : \A b \in Body(k) : b < n + 1 => b < n \/ (b = n /\ k = n /\ lines[n].dir = "comm")
  BY <1>1, LineOf DEF Emits
<1>9. Placed(s, t, new, tab, n + 1)
  <2> SUFFICES ASSUME NEW k \in Objects, k < n + 1
               PROVE  LabelPlaced(s, t, tab, k) /\ LinesPlaced(s, t, new, tab, n + 1, k)
    BY DEF Placed
  <2>1. CASE k < n
    <3>1. \A b \in Body(k) : b < n + 1 => b < n
      BY <1>1, <1>8, <2>1
    <3> QED BY <1>7, <2>1, <3>1 DEF LinesPlaced
  <2>2. CASE k = n
    <3>1. LabelPlaced(s, t, tab, n)
      BY <1>5, <1>6 DEF LabelPlaced
    <3>2. \A b \in Body(n) : b < n + 1 => b = n /\ lines[n].dir = "comm"
      <4> SUFFICES ASSUME NEW b \in Body(n), b < n + 1
                   PROVE  b = n /\ lines[n].dir = "comm"
        OBVIOUS
      <4>1. ~ (b < n)
        BY <1>1, BodyOf
      <4> QED BY <1>8, <4>1
    <3>3. lines[n].dir = "comm" => Offset(n, n) = 0
      <4>1. SizeUpTo[n - 1] \in Nat
        BY <1>1, SizesAdd
      <4> QED BY <4>1 DEF Offset
    <3>4. LinesPlaced(s, t, new, tab, n + 1, n)
      <4>1. From(tab, n) + 0 = From(tab, n)
        BY <1>6
      <4> QED BY <3>2, <3>3, <4>1 DEF LinesPlaced
    <3> QED BY <2>2, <3>1, <3>4
  <2> QED BY <1>3, <2>1, <2>2
<1>10. Apart(tab, n + 1)
  <2> SUFFICES ASSUME NEW k \in Objects, NEW l \in Objects, k < l, l < n + 1
               PROVE  /\ lines[k].name # lines[l].name
                      /\ Region(k) = Region(l) => \A b \in Body(k) :
                           (From(tab, k) + Offset(k, b)) + Size(b) <= From(tab, l)
    BY DEF Apart
  <2>1. CASE l < n
    <3>1. k < n
      BY <1>1, <2>1
    <3>2. From(tab, k) = From(lab, k) /\ From(tab, l) = From(lab, l)
      BY <1>7, <2>1, <3>1
    <3> QED BY <1>2, <2>1, <3>2 DEF Apart
  <2>2. CASE l = n
    <3>1. k < n
      BY <2>2
    <3>2. lines[k].name # lines[n].name /\ From(tab, k) = From(lab, k)
      BY <1>7, <3>1
    <3>3. ASSUME Region(k) = Region(n), NEW b \in Body(k)
          PROVE  (From(tab, k) + Offset(k, b)) + Size(b) <= From(tab, n)
      <4>1. b < n
        BY <3>1, BodyEnds
      <4>2. (From(lab, k) + Offset(k, b)) + Size(b) <= EndOf(Region(n), r, m)
        BY <1>2, <3>1, <3>3, <4>1 DEF Placed, LinesPlaced
      <4>3. Offset(k, b) \in Nat /\ Size(b) \in Nat /\ From(lab, k) \in Nat
        BY <1>2, <3>1, BodyOf, LinesAre, SizeIs DEF Placed, LabelPlaced
      <4> QED BY <1>4, <1>6, <3>2, <4>2, <4>3
    <3> QED BY <2>2, <3>2, <3>3
  <2> QED BY <1>3, <2>1, <2>2
<1>11. Open(s, t, tab, sec, n + 1)
  <2> SUFFICES ASSUME NEW k, Opened(k, n + 1)
               PROVE  /\ Region(k) = RegionOf(sec)
                      /\ From(tab, k) + Offset(k, n + 1) <= EndOf(Region(k), s, t)
                      /\ Region(k) # "bss" =>
                           From(tab, k) + Offset(k, n + 1) = EndOf(Region(k), s, t)
    BY DEF Open
  <2>1. /\ k \in Indices("label") /\ k \in Objects /\ k < n + 1
        /\ \A i \in (k + 1) .. ((n + 1) - 1) : lines[i].dir \in Emits
    BY DEF Opened, Objects
  <2>2. k = n
    <3>1. lines[n].dir \notin Emits
      BY <1>1 DEF Emits
    <3>2. ~ (n \in (k + 1) .. ((n + 1) - 1))
      BY <2>1, <3>1
    <3> QED BY <1>1, <1>3, <2>1, <3>2
  <2>3. lines[n].dir = "label"
    BY <2>1, <2>2 DEF Indices
  <2>4. Offset(n, n + 1) = 0
    BY <2>1, <2>2, OffsetAtLabel
  <2>5. From(tab, n) + 0 = From(tab, n) /\ EndOf(Region(n), s, t) <= EndOf(Region(n), s, t)
    BY <1>4, <1>6
  <2> QED BY <2>2, <2>3, <2>4, <2>5
<1> QED BY <1>9, <1>10, <1>11 DEF Laid

\* An item after the bytes that wait.
ItemIsLast(r, s, item) ==
  LET n == Len(s.pending)
  IN  /\ RomCounts(s) /\ Grows(r, s) /\ TextIsIn(s) /\ s.pending_bytes = <<>>
      /\ n \in Nat \ {0} /\ s.pending[n] = item
      /\ Len(r.pending) < n
      /\ \A i \in (Len(r.pending) + 1) .. (n - 1) :
           s.pending[i].kind = "raw" /\ ~Code(s.pending[i].line)
      /\ ImageEnd(r) % 4 = 0 =>
           ImageEnd(s) = ImageEnd(r) + 4 /\ ImageEnd(r) = 4 * (n - 1)
      /\ section = "text" => s.text_start_word \in 0 .. (n - 1)

LEMMA ItemGrows ==
  ASSUME NEW r, RomCounts(r), TextIsIn(r), Given, NEW item
  PROVE  ItemIsLast(r, Emitted(Marked(flush_pending_bytes(r)), <<item>>), item)
<1> DEFINE f == flush_pending_bytes(r)
           m == Marked(f)
           s == Emitted(m, <<item>>)
           L == Len(r.pending)
           F == Len(f.pending)
           n == Len(s.pending)
<1>1. L \in Nat /\ ImageEnd(r) \in Nat
  BY RomIs
<1>2. /\ RomCounts(f) /\ Grows(r, f) /\ TextIsIn(f) /\ f.pending_bytes = <<>>
      /\ ImageEnd(f) = 4 * F /\ RawAfter(f, L)
      /\ ImageEnd(r) % 4 = 0 => ImageEnd(f) = ImageEnd(r)
  BY FlushGrows
<1>3. F \in Nat /\ L <= F
  BY <1>2, RomIs DEF Grows
<1>4. \A i \in (L + 1) .. F : f.pending[i].kind = "raw" /\ ~Code(f.pending[i].line)
  BY <1>2 DEF RawAfter
<1> HIDE DEF f
<1>5. /\ RomCounts(m) /\ Grows(f, m) /\ TextIsIn(m)
      /\ m.pending = f.pending /\ m.pending_bytes = <<>>
      /\ section = "text" => m.text_start_word # None
  BY <1>2, MarkedGrows
<1>6. m.text_start_word # None => m.text_start_word \in 0 .. F
  BY <1>5 DEF TextIsIn
<1> HIDE DEF m
<1> DEFINE one == <<item>>
<1>7. IsSeq(one) /\ Len(one) = 1 /\ one[1] = item
  BY OneItem
<1> HIDE DEF one
<1>8. /\ RomCounts(Emitted(m, one)) /\ Grows(m, Emitted(m, one)) /\ TextIsIn(Emitted(m, one))
      /\ Emitted(m, one).pending_bytes = <<>>
      /\ Emitted(m, one).text_start_word = m.text_start_word
      /\ Len(Emitted(m, one).pending) = Len(m.pending) + Len(one)
      /\ ImageEnd(Emitted(m, one)) = ImageEnd(m) + (4 * Len(one))
      /\ ImageEnd(m) = 4 * Len(m.pending)
      /\ \A i \in 1 .. Len(one) : Emitted(m, one).pending[Len(m.pending) + i] = one[i]
  BY <1>5, <1>7, EmittedGrows
<1>9. Emitted(m, one) = s
  BY DEF one
<1> HIDE DEF s, L
<1>10. /\ RomCounts(s) /\ Grows(m, s) /\ TextIsIn(s) /\ s.pending_bytes = <<>>
       /\ s.text_start_word = m.text_start_word
       /\ n = F + 1 /\ ImageEnd(s) = (4 * F) + (4 * 1) /\ s.pending[F + 1] = item
  BY <1>5, <1>7, <1>8, <1>9
<1>11. \A i \in 1 .. F : s.pending[i] = f.pending[i]
  BY <1>5, <1>10 DEF Grows
<1>12. Grows(r, s) /\ RomCounts(s)
  <2>1. Grows(r, m)
    BY <1>2, <1>5, GrowsAgain
  <2> QED BY <1>5, <1>10, <2>1, GrowsAgain
<1> HIDE DEF n, F
<1>13. \A i \in (L + 1) .. (n - 1) : s.pending[i].kind = "raw" /\ ~Code(s.pending[i].line)
  BY <1>1, <1>3, <1>4, <1>10, <1>11
<1>14. ImageEnd(r) % 4 = 0 => ImageEnd(s) = ImageEnd(r) + 4 /\ ImageEnd(r) = 4 * (n - 1)
  BY <1>1, <1>2, <1>3, <1>10
<1>15. section = "text" => s.text_start_word \in 0 .. (n - 1)
  BY <1>3, <1>5, <1>6, <1>10
<1>16. n \in Nat \ {0} /\ s.pending[n] = item /\ L < n
  BY <1>1, <1>3, <1>10
<1> QED BY <1>10, <1>12, <1>13, <1>14, <1>15, <1>16 DEF s, m, f, n, L, ItemIsLast

-----------------------------------------------------------------------------
(***************************************************************************)
(* What each line does, wherever it is.                                    *)
(***************************************************************************)
Ready ==
  /\ Given /\ phase = "first" /\ line \in 1 .. (Len(lines) + 1)
  /\ RomCounts(rom) /\ RamCounts(ram) /\ TextIsIn(rom)
  /\ section \in {"text", "data", "bss"}
  /\ RelocsAre(ram, relocs)

\* A line adds to the image words of data, or itself if it is code.
Added(dir) ==
  /\ Adding(rom, rom', ram, ram', relocs, relocs') /\ TextIsIn(rom')
  /\ dir # "ins" => RawAfter(rom', Len(rom.pending))
  /\ RelocsAre(ram', relocs')
Emission(g, u) ==
  LET e == EndOf(g, rom, ram)
  IN  /\ g # "bss" /\ e % u = 0 =>
           /\ LineAt(g, rom', ram', relocs', e, line)
           /\ EndOf(g, rom', ram') = e + Size(line)
      /\ g = "bss" => e + Size(line) <= EndOf(g, rom', ram')

LEMMA RelocsKept ==
  ASSUME NEW m, RamCounts(m), NEW t, RamCounts(t), GrowsRam(m, t), NEW rel, RelocsAre(m, rel)
  PROVE  RelocsAre(t, rel) /\ GrowsRelocs(m, rel, rel)
<1>1. Len(m.rom_data_bytes) \in Nat /\ Len(t.rom_data_bytes) \in Nat
      /\ Len(m.rom_data_bytes) <= Len(t.rom_data_bytes)
  BY RamIs DEF GrowsRam
<1> QED BY <1>1 DEF RelocsAre, GrowsRelocs

LEMMA RegionNow ==
  ASSUME section \in {"text", "data", "bss"}
  PROVE  /\ ToImage <=> RegionOf(section) = "image"
         /\ ToRam("data") <=> RegionOf(section) = "data"
         /\ ToRam("bss") <=> RegionOf(section) = "bss"
         /\ RegionOf(section) \in {"image", "data", "bss"}
  BY DEF ToImage, ToRam, RegionOf

LEMMA AddedNothing ==
  ASSUME Ready, rom' = rom, ram' = ram, relocs' = relocs
  PROVE  Added("none")
<1>1. Adding(rom, rom', ram, ram', relocs, relocs') /\ RawAfter(rom', Len(rom.pending))
  BY GrowsNot, GrowsRamNot, RelocsKept DEF Ready, Adding
<1> QED BY <1>1 DEF Ready, Added

\* Steps on one side only.
LEMMA AddedToImage ==
  ASSUME Ready, NEW dir, ram' = ram, relocs' = relocs,
         RomCounts(rom'), Grows(rom, rom'), TextIsIn(rom'),
         dir # "ins" => RawAfter(rom', Len(rom.pending))
  PROVE  Added(dir)
  BY GrowsRamNot, RelocsKept DEF Ready, Added, Adding

LEMMA AddedToRam ==
  ASSUME Ready, NEW dir, rom' = rom, relocs' = relocs, RamCounts(ram'), GrowsRam(ram, ram')
  PROVE  Added(dir)
  BY GrowsNot, RelocsKept DEF Ready, Added, Adding

LEMMA DataPads ==
  ASSUME Ready, NEW k \in Nat \ {0}
  PROVE  /\ DataPad(k) \in Seq(Byte)
         /\ Len(DataPad(k)) = Pad(Len(ram.rom_data_bytes), k)
         /\ BssPad(k) = Pad(ram.ram_bss_offset, k)
         /\ Pad(Len(ram.rom_data_bytes), k) \in Nat /\ Pad(ram.ram_bss_offset, k) \in Nat
         /\ (Len(ram.rom_data_bytes) + Pad(Len(ram.rom_data_bytes), k)) % k = 0
         /\ (ram.ram_bss_offset + Pad(ram.ram_bss_offset, k)) % k = 0
         /\ Len(ram.rom_data_bytes) % k = 0 => Pad(Len(ram.rom_data_bytes), k) = 0
<1> DEFINE n == Len(ram.rom_data_bytes)
           c == ram.ram_bss_offset
<1>1. n \in Nat /\ c \in Nat /\ ram.ram_data_offset = n
  BY RamIs DEF Ready
<1>2. DataPad(k) = Zeros(Pad(n, k)) /\ BssPad(k) = Pad(c, k)
  BY <1>1 DEF DataPad, BssPad
<1> HIDE DEF n, c
<1>3. /\ Pad(n, k) \in Nat /\ (n + Pad(n, k)) % k = 0
      /\ n % k = 0 => Pad(n, k) = 0
      /\ Pad(c, k) \in Nat /\ (c + Pad(c, k)) % k = 0
  <2>1. \A x \in Nat : /\ Pad(x, k) \in 0 .. (k - 1) /\ (x + Pad(x, k)) % k = 0
                       /\ x % k = 0 => Pad(x, k) = 0
    BY PadReaches
  <2>2. \A x : x \in 0 .. (k - 1) => x \in Nat
    OBVIOUS
  <2> QED BY <1>1, <2>1, <2>2
<1>4. DataPad(k) \in Seq(Byte) /\ Len(DataPad(k)) = Pad(n, k)
  BY <1>2, <1>3, ZerosAreBytes
<1> QED BY <1>2, <1>3, <1>4 DEF n, c

LEMMA ReadNow ==
  ASSUME Ready, NEW dir, Reading(dir)
  PROVE  /\ line \in DOMAIN lines /\ lines[line].dir = dir /\ ThisLine = lines[line]
         /\ line \in Nat /\ (Code(line) <=> dir = "ins")
  BY LinesAre DEF Ready, Reading, ThisLine, Code

LEMMA AlignEffect ==
  ASSUME Ready, Align
  PROVE  /\ Added("align")
         /\ EndOf(RegionOf(section), rom', ram') % ThisLine.bytes = 0
         /\ ToImage => rom'.pending_bytes = <<>>
<1> DEFINE k == ThisLine.bytes
           g == RegionOf(section)
<1>1. /\ Reading("align") /\ line \in DOMAIN lines /\ k = lines[line].bytes
      /\ lines[line].dir = "align" /\ ~Code(line)
  BY ReadNow DEF Align
<1>2. k \in Nat \ {0} /\ (k \in {1, 2} \/ k % 4 = 0)
  BY <1>1, TypedLine DEF Ready
<1>3. relocs' = relocs
  BY DEF Align
<1>4. RomCounts(rom) /\ RamCounts(ram) /\ TextIsIn(rom) /\ Given
  BY DEF Ready
<1>5. section \in {"text", "data", "bss"}
  BY DEF Ready
<1>6. \/ /\ ToImage /\ ram' = ram
         /\ LET flushed == flush_pending_bytes(rom)
                aligned == AlignedWords(flushed, k, line)
            IN  rom' = IF aligned = flushed THEN flushed
                       ELSE AlignedWords(Marked(flushed), k, line)
      \/ ToRam("data") /\ ram' = AppendedData(ram, DataPad(k)) /\ rom' = rom
      \/ ToRam("bss") /\ ram' = ReservedBss(ram, BssPad(k)) /\ rom' = rom
  BY DEF Align
<1> HIDE DEF k
<1>10. k \in Nat /\ k # 0 /\ (k \in {0, 1, 2} \/ k % 4 = 0)
  BY <1>2
<1>7. CASE ToImage
  <2> DEFINE f == flush_pending_bytes(rom)
             m == Marked(f)
             a == AlignedWords(f, k, line)
             c == AlignedWords(m, k, line)
  <2>1. rom' = (IF a = f THEN f ELSE c) /\ ram' = ram
    BY <1>6, <1>7 DEF ToImage
  <2>2. /\ RomCounts(f) /\ Grows(rom, f) /\ TextIsIn(f) /\ f.pending_bytes = <<>>
        /\ RawAfter(f, Len(rom.pending)) /\ ImageEnd(f) = 4 * Len(f.pending)
    BY <1>4, FlushGrows
  <2> HIDE DEF f
  <2>3. /\ RomCounts(m) /\ Grows(f, m) /\ TextIsIn(m) /\ m.pending_bytes = <<>>
        /\ m.pending = f.pending
    BY <2>2, MarkedGrows
  <2> HIDE DEF m
  <2>4. /\ RomCounts(a) /\ ImageEnd(a) % k = 0
    <3>1. /\ RomCounts(AlignedWords(f, k, line)) /\ ImageEnd(AlignedWords(f, k, line)) % k = 0
      BY ONLY <1>1, <1>10, <2>2, AlignedGrows, Zenon
    <3> QED BY <3>1
  <2>5. /\ RomCounts(c) /\ Grows(m, c) /\ TextIsIn(c) /\ c.pending_bytes = <<>>
        /\ RawAfter(c, Len(m.pending)) /\ ImageEnd(c) % k = 0
    <3>1. LET s == AlignedWords(m, k, line)
          IN  /\ RomCounts(s) /\ Grows(m, s) /\ TextIsIn(s) /\ s.pending_bytes = <<>>
              /\ RawAfter(s, Len(m.pending)) /\ ImageEnd(s) % k = 0
      BY ONLY <1>1, <1>10, <2>3, AlignedGrows, Zenon
    <3> QED BY <3>1
  <2> HIDE DEF a, c
  <2>6. Grows(rom, c)
    BY <1>4, <2>2, <2>3, <2>5, GrowsAgain
  <2>7. RawAfter(c, Len(rom.pending))
    <3>1. Len(rom.pending) \in Nat /\ Len(f.pending) \in Nat /\ Len(c.pending) \in Nat
          /\ Len(rom.pending) <= Len(f.pending)
      BY <1>4, <2>2, <2>5, RomIs DEF Grows
    <3>2. Grows(f, c)
      BY <2>2, <2>3, <2>5, GrowsAgain
    <3>3. \A i \in 1 .. Len(f.pending) : c.pending[i] = f.pending[i]
      BY <3>2 DEF Grows
    <3>4. \A i \in (Len(rom.pending) + 1) .. Len(f.pending) :
            f.pending[i].kind = "raw" /\ ~Code(f.pending[i].line)
      BY <2>2 DEF RawAfter
    <3>5. \A i \in (Len(f.pending) + 1) .. Len(c.pending) :
            c.pending[i].kind = "raw" /\ ~Code(c.pending[i].line)
      BY <2>3, <2>5 DEF RawAfter
    <3> SUFFICES ASSUME NEW i \in (Len(rom.pending) + 1) .. Len(c.pending)
                 PROVE  c.pending[i].kind = "raw" /\ ~Code(c.pending[i].line)
      BY DEF RawAfter
    <3>6. CASE i <= Len(f.pending)
      <4>1. i \in (Len(rom.pending) + 1) .. Len(f.pending) /\ i \in 1 .. Len(f.pending)
        BY <3>1, <3>6
      <4> QED BY <3>3, <3>4, <4>1
    <3>7. CASE ~ (i <= Len(f.pending))
      <4>1. i \in (Len(f.pending) + 1) .. Len(c.pending)
        BY <3>1, <3>7
      <4> QED BY <3>5, <4>1
    <3> QED BY <3>6, <3>7
  <2>8. /\ RomCounts(rom') /\ Grows(rom, rom') /\ TextIsIn(rom') /\ rom'.pending_bytes = <<>>
        /\ RawAfter(rom', Len(rom.pending)) /\ ImageEnd(rom') % k = 0
    BY <2>1, <2>2, <2>4, <2>5, <2>6, <2>7
  <2>9. g = "image"
    BY <1>5, <1>7, RegionNow
  <2>10. Added("align")
    BY <1>3, <2>1, <2>8, AddedToImage
  <2> QED BY <2>8, <2>9, <2>10 DEF EndOf, k
<1>8. CASE ToRam("data")
  <2>1. ram' = AppendedData(ram, DataPad(k)) /\ rom' = rom /\ ~ToImage /\ g = "data"
    BY <1>5, <1>6, <1>8, RegionNow DEF ToImage, ToRam
  <2>2. /\ DataPad(k) \in Seq(Byte) /\ Len(DataPad(k)) = Pad(Len(ram.rom_data_bytes), k)
        /\ (Len(ram.rom_data_bytes) + Pad(Len(ram.rom_data_bytes), k)) % k = 0
    BY <1>2, DataPads
  <2> DEFINE bytes == DataPad(k)
  <2> HIDE DEF bytes
  <2>3. /\ RamCounts(ram') /\ GrowsRam(ram, ram')
        /\ Len(ram'.rom_data_bytes) = Len(ram.rom_data_bytes) + Len(bytes)
    BY <1>4, <2>1, <2>2, DataGrows DEF bytes
  <2>4. Added("align")
    BY <1>3, <2>1, <2>3, AddedToRam
  <2> QED BY <2>1, <2>2, <2>3, <2>4 DEF EndOf, k, bytes
<1>9. CASE ToRam("bss")
  <2>1. ram' = ReservedBss(ram, BssPad(k)) /\ rom' = rom /\ ~ToImage /\ g = "bss"
    BY <1>5, <1>6, <1>9, RegionNow DEF ToImage, ToRam
  <2>2. /\ BssPad(k) = Pad(ram.ram_bss_offset, k) /\ Pad(ram.ram_bss_offset, k) \in Nat
        /\ (ram.ram_bss_offset + Pad(ram.ram_bss_offset, k)) % k = 0
    BY <1>2, DataPads
  <2>3. /\ RamCounts(ram') /\ GrowsRam(ram, ram')
        /\ ram'.ram_bss_offset = ram.ram_bss_offset + Pad(ram.ram_bss_offset, k)
    BY <1>4, <2>1, <2>2, BssGrows
  <2>4. Added("align")
    BY <1>3, <2>1, <2>3, AddedToRam
  <2> QED BY <2>1, <2>2, <2>3, <2>4 DEF EndOf, k
<1> QED BY <1>6, <1>7, <1>8, <1>9

\* No relocation is of a word that begins later.
LEMMA NotRelocated ==
  ASSUME NEW m, RamCounts(m), NEW rel, RelocsAre(m, rel),
         NEW p \in Nat, Len(m.rom_data_bytes) <= p
  PROVE  4 * (p \div 4) \notin DOMAIN rel
<1>1. Len(m.rom_data_bytes) \in Nat
  BY RamIs
<1>2. p < (4 * (p \div 4)) + 4 /\ p \div 4 \in Nat
  OBVIOUS
<1>3. ASSUME 4 * (p \div 4) \in DOMAIN rel PROVE FALSE
  <2>1. (4 * (p \div 4)) + 4 <= Len(m.rom_data_bytes)
    BY <1>3 DEF RelocsAre
  <2> QED BY <1>1, <1>2, <2>1
<1> QED BY <1>3

\* Bytes appended to .data.
LEMMA BytesInData ==
  ASSUME Ready, NEW bytes \in Seq(Byte), NEW pad \in Seq(Byte), line \in DOMAIN lines,
         ~Refers(line), Len(bytes) = Size(line), relocs' = relocs,
         \A j \in 1 .. Len(bytes) : Literal(line)[j] = bytes[j],
         NEW u \in Nat \ {0}, Len(ram.rom_data_bytes) % u = 0 => Len(pad) = 0,
         RamCounts(ram'), GrowsRam(ram, ram'),
         Len(ram'.rom_data_bytes) = (Len(ram.rom_data_bytes) + Len(pad)) + Len(bytes),
         \A j \in 1 .. Len(bytes) :
           ram'.rom_data_bytes[(Len(ram.rom_data_bytes) + Len(pad)) + j] = bytes[j]
  PROVE  Emission("data", u)
<1> DEFINE e == Len(ram.rom_data_bytes)
           n == Len(bytes)
<1>1. e \in Nat /\ n \in Nat /\ EndOf("data", rom, ram) = e
      /\ EndOf("data", rom', ram') = Len(ram'.rom_data_bytes)
  BY RamIs DEF Ready, EndOf
<1> SUFFICES ASSUME e % u = 0
             PROVE  /\ LineAt("data", rom', ram', relocs', e, line)
                    /\ Len(ram'.rom_data_bytes) = e + n
  BY <1>1 DEF Emission
<1>2. Len(pad) = 0
  OBVIOUS
<1>3. \A j \in 1 .. n : ram'.rom_data_bytes[e + j] = bytes[j]
  <2> HIDE DEF n
  <2>1. e + Len(pad) = e
    BY <1>1, <1>2
  <2> QED BY <2>1 DEF n
<1>4. Len(ram'.rom_data_bytes) = e + n
  <2>1. Len(ram'.rom_data_bytes) = (e + Len(pad)) + n
    OBVIOUS
  <2> HIDE DEF e, n
  <2> QED BY <1>1, <1>2, <2>1
<1>5. ASSUME NEW j \in 1 .. Size(line)
      PROVE  /\ 4 * (((e + j) - 1) \div 4) \notin DOMAIN relocs'
             /\ ram'.rom_data_bytes[e + j] = Literal(line)[j]
  <2>1. ram'.rom_data_bytes[e + j] = Literal(line)[j]
    BY <1>3
  <2>2. j \in 1 .. n /\ n \in Nat
    BY <1>1
  <2> HIDE DEF n
  <2>3. (e + j) - 1 \in Nat /\ e <= (e + j) - 1
    <3> HIDE DEF e
    <3> QED BY <1>1, <2>2
  <2>4. 4 * (((e + j) - 1) \div 4) \notin DOMAIN relocs
    BY <2>3, NotRelocated DEF Ready
  <2> QED BY <2>1, <2>4
<1>6. InRamData(ram', relocs', e, line)
  BY <1>5 DEF InRamData
<1> QED BY <1>4, <1>6 DEF LineAt

\* Bytes left out of .bss, more than the line has.
LEMMA BytesInBss ==
  ASSUME Ready, NEW n \in Nat, NEW u, Size(line) \in Nat, Size(line) <= n,
         ram' = ReservedBss(ram, n)
  PROVE  Emission("bss", u)
<1>1. ram'.ram_bss_offset = ram.ram_bss_offset + n
  BY BssGrows DEF Ready
<1>2. ram.ram_bss_offset \in Nat
  BY RamIs DEF Ready
<1> QED BY <1>1, <1>2 DEF Emission, EndOf

\* A word of the image.
LEMMA ItemInImage ==
  ASSUME Ready, NEW item, line \in DOMAIN lines, Size(line) = 4,
         rom' = Emitted(Marked(flush_pending_bytes(rom)), <<item>>),
         lines[line].dir = "ins" => item.line = line,
         lines[line].dir # "ins" =>
           /\ item.kind = "raw" /\ item.expr = lines[line].expr
           /\ ~Refers(line) => /\ lines[line].expr = NoExpr
                               /\ \A j \in 1 .. 4 : item.bytes[j] = Literal(line)[j],
         lines[line].dir \in {"ins", "long"}
  PROVE  Emission("image", 4)
<1> DEFINE e == ImageEnd(rom)
           n == Len(rom'.pending)
<1>1. /\ RomCounts(rom') /\ rom'.pending_bytes = <<>> /\ n \in Nat \ {0}
      /\ rom'.pending[n] = item
      /\ e % 4 = 0 => ImageEnd(rom') = e + 4 /\ e = 4 * (n - 1)
  <2>1. ItemIsLast(rom, rom', item)
    BY ItemGrows DEF Ready
  <2> QED BY <2>1 DEF ItemIsLast
<1>2. EndOf("image", rom, ram) = e /\ EndOf("image", rom', ram') = ImageEnd(rom')
  BY DEF EndOf
<1> SUFFICES ASSUME e % 4 = 0
             PROVE  LineAt("image", rom', ram', relocs', e, line) /\ ImageEnd(rom') = e + 4
  BY <1>2 DEF Emission
<1>3. e = 4 * (n - 1) /\ ImageEnd(rom') = e + 4
  BY <1>1
<1>4. \A p, v : Has(rom', p, v) <=>
          IF p < 4 * n THEN /\ rom'.pending[(p \div 4) + 1].kind = "raw"
                            /\ rom'.pending[(p \div 4) + 1].expr = NoExpr
                            /\ rom'.pending[(p \div 4) + 1].bytes[(p % 4) + 1] = v
          ELSE rom'.pending_bytes[(p - (4 * n)) + 1] = v
  BY DEF Has
<1>5. InImage(rom', e, line) <=>
        IF lines[line].dir = "ins" \/ Refers(line)
    THEN /\ e % 4 = 0 /\ (e \div 4) + 1 \in 1 .. n
         /\ lines[line].dir = "ins" => rom'.pending[(e \div 4) + 1].line = line
         /\ Refers(line) => /\ rom'.pending[(e \div 4) + 1].kind = "raw"
                            /\ rom'.pending[(e \div 4) + 1].expr = lines[line].expr
    ELSE \A j \in 1 .. 4 : Has(rom', (e + j) - 1, Literal(line)[j])
  BY DEF InImage
<1> HIDE DEF e, n
<1>6. (e \div 4) + 1 = n
  <2>1. \A x \in Nat \ {0} : ((4 * (x - 1)) \div 4) + 1 = x
    OBVIOUS
  <2> QED BY <1>1, <1>3, <2>1
<1>7. InImage(rom', e, line)
  <2>1. CASE lines[line].dir = "ins" \/ Refers(line)
    <3>1. ~ (lines[line].dir = "ins" /\ Refers(line))
      BY DEF Refers
    <3> QED BY <1>1, <1>5, <1>6, <2>1, <3>1
  <2>2. CASE ~ (lines[line].dir = "ins" \/ Refers(line))
    <3> SUFFICES ASSUME NEW j \in 1 .. 4
                 PROVE  Has(rom', (e + j) - 1, Literal(line)[j])
      BY <1>5, <2>2
    <3>1. \A x \in Nat \ {0} : \A i \in 1 .. 4 :
            LET p == ((4 * (x - 1)) + i) - 1
            IN  p < 4 * x /\ (p \div 4) + 1 = x /\ (p % 4) + 1 = i
      OBVIOUS
    <3>2. LET p == (e + j) - 1
          IN  p < 4 * n /\ (p \div 4) + 1 = n /\ (p % 4) + 1 = j
      BY <1>1, <1>3, <3>1
    <3>3. item.kind = "raw" /\ item.expr = NoExpr /\ item.bytes[j] = Literal(line)[j]
      BY <2>2
    <3> DEFINE p == (e + j) - 1
    <3>4. p < 4 * n /\ (p \div 4) + 1 = n /\ (p % 4) + 1 = j
      BY <3>2
    <3> HIDE DEF p
    <3>5. Has(rom', p, Literal(line)[j])
      BY <1>1, <1>4, <3>3, <3>4
    <3> QED BY <3>5 DEF p
  <2> QED BY <2>1, <2>2
<1> QED BY <1>3, <1>7 DEF LineAt

\* What a line has to be aligned to in a region, not to be moved.
LineUnit(g, b) ==
  IF lines[b].dir \in {"long", "ins"} THEN 4
  ELSE IF lines[b].dir = "data" /\ g = "data" THEN lines[b].unit ELSE 1

LEMMA LastIsAdded ==
  ASSUME Ready, NEW item, NEW dir, ItemIsLast(rom, rom', item), ram' = ram, relocs' = relocs,
         dir # "ins" => item.kind = "raw" /\ ~Code(item.line)
  PROVE  Added(dir) /\ rom'.pending_bytes = <<>>
<1> DEFINE n == Len(rom'.pending)
           l == Len(rom.pending)
<1>1. /\ RomCounts(rom') /\ Grows(rom, rom') /\ TextIsIn(rom') /\ rom'.pending_bytes = <<>>
      /\ n \in Nat \ {0} /\ rom'.pending[n] = item
      /\ \A i \in (l + 1) .. (n - 1) :
           rom'.pending[i].kind = "raw" /\ ~Code(rom'.pending[i].line)
  BY DEF ItemIsLast
<1>2. l \in Nat
  BY RomIs DEF Ready
<1>3. ASSUME dir # "ins" PROVE RawAfter(rom', l)
  <2>1. RawAfter(rom', l) <=> \A i \in (l + 1) .. n :
           rom'.pending[i].kind = "raw" /\ ~Code(rom'.pending[i].line)
    BY DEF RawAfter
  <2> HIDE DEF n, l
  <2>2. \A i \in (l + 1) .. n : i = n \/ i \in (l + 1) .. (n - 1)
    BY <1>1, <1>2
  <2> QED BY <1>1, <1>3, <2>1, <2>2
<1>4. Added(dir)
  BY <1>1, <1>3, AddedToImage
<1> QED BY <1>1, <1>4

LEMMA InstructionEffect ==
  ASSUME Ready, Instruction
  PROVE  /\ Added("ins") /\ Emission("image", 4) /\ rom'.pending_bytes = <<>>
         /\ ItemIsLast(rom, rom', Pending(ThisLine.ins, line))
<1>1. /\ line \in DOMAIN lines /\ lines[line].dir = "ins"
  BY ReadNow DEF Instruction
<1>2. /\ rom' = Emitted(Marked(flush_pending_bytes(rom)), <<Pending(ThisLine.ins, line)>>)
      /\ ram' = ram /\ relocs' = relocs
  BY DEF Instruction
<1>3. ItemIsLast(rom, rom', Pending(ThisLine.ins, line))
  BY <1>2, ItemGrows DEF Ready
<1>4. Size(line) = 4 /\ Pending(ThisLine.ins, line).line = line
  BY <1>1 DEF Size, Pending
<1>5. Emission("image", 4)
  BY <1>1, <1>2, <1>4, ItemInImage
<1>6. Added("ins") /\ rom'.pending_bytes = <<>>
  BY <1>2, <1>3, LastIsAdded
<1> QED BY <1>3, <1>5, <1>6

\* A word of .data with a label to resolve.
LEMMA RelocAdded ==
  ASSUME Ready, NEW pad \in Seq(Byte), NEW bytes \in Seq(Byte), Len(bytes) = 4,
         line \in DOMAIN lines, Refers(line), Size(line) = 4, lines[line].dir = "long",
         (Len(ram.rom_data_bytes) + Len(pad)) % 4 = 0,
         Len(ram.rom_data_bytes) % 4 = 0 => Len(pad) = 0,
         rom' = rom, RamCounts(ram'), GrowsRam(ram, ram'),
         Len(ram'.rom_data_bytes) = (Len(ram.rom_data_bytes) + Len(pad)) + 4,
         relocs' = Assigned(relocs, Len(ram.rom_data_bytes) + Len(pad), lines[line].expr)
  PROVE  Added("long") /\ Emission("data", 4)
<1> DEFINE e == Len(ram.rom_data_bytes)
           q == e + Len(pad)
<1>1. e \in Nat /\ Len(pad) \in Nat /\ q \in Nat /\ e <= q
  <2>1. e \in Nat /\ Len(pad) \in Nat
    BY RamIs DEF Ready
  <2> HIDE DEF e
  <2> QED BY <2>1
<1>2. q % 4 = 0 /\ Len(ram'.rom_data_bytes) = q + 4 /\ (e % 4 = 0 => q = e)
  <2>1. e % 4 = 0 => e + 0 = e
    BY <1>1
  <2> QED BY <1>1, <2>1
<1>3. relocs' = Assigned(relocs, q, lines[line].expr)
  OBVIOUS
<1> HIDE DEF q
<1>4. q \in DOMAIN relocs' /\ relocs'[q] = lines[line].expr
      /\ DOMAIN relocs' = DOMAIN relocs \union {q}
      /\ \A x \in DOMAIN relocs : x # q => relocs'[x] = relocs[x]
  BY <1>3 DEF Assigned
<1>5. \A x \in DOMAIN relocs : x \in Nat /\ x % 4 = 0 /\ x + 4 <= e
  BY DEF Ready, RelocsAre
<1> HIDE DEF e
<1>6. \A x \in DOMAIN relocs : x # q /\ x + 4 <= q + 4
  BY <1>1, <1>5
<1>7. RelocsAre(ram', relocs')
  <2>1. q + 4 <= q + 4
    BY <1>1
  <2> QED BY <1>1, <1>2, <1>4, <1>5, <1>6, <2>1 DEF RelocsAre
<1>8. GrowsRelocs(ram, relocs, relocs')
  BY <1>1, <1>2, <1>4, <1>6 DEF GrowsRelocs, e
<1>9. Added("long")
  BY <1>7, <1>8, GrowsNot DEF Added, Ready, Adding
<1>10. Emission("data", 4)
  <2>1. EndOf("data", rom, ram) = e /\ EndOf("data", rom', ram') = q + 4
    BY <1>2 DEF EndOf, e
  <2>2. e % 4 = 0 => InRamData(ram', relocs', e, line)
    BY <1>2, <1>4 DEF InRamData
  <2> QED BY <1>2, <2>1, <2>2 DEF Emission, LineAt
<1> QED BY <1>9, <1>10

LEMMA FourPads ==
  ASSUME Ready
  PROVE  /\ DataPad(4) \in Seq(Byte)
         /\ Len(DataPad(4)) = Pad(Len(ram.rom_data_bytes), 4)
         /\ BssPad(4) = Pad(ram.ram_bss_offset, 4) /\ BssPad(4) \in Nat
         /\ (Len(ram.rom_data_bytes) + Len(DataPad(4))) % 4 = 0
         /\ Len(ram.rom_data_bytes) % 4 = 0 => Len(DataPad(4)) = 0
<1>1. PICK k \in Nat \ {0} : k = 4
  OBVIOUS
<1>2. /\ DataPad(k) \in Seq(Byte)
      /\ Len(DataPad(k)) = Pad(Len(ram.rom_data_bytes), k)
      /\ BssPad(k) = Pad(ram.ram_bss_offset, k) /\ Pad(ram.ram_bss_offset, k) \in Nat
      /\ (Len(ram.rom_data_bytes) + Pad(Len(ram.rom_data_bytes), k)) % k = 0
      /\ Len(ram.rom_data_bytes) % k = 0 => Pad(Len(ram.rom_data_bytes), k) = 0
  BY DataPads
<1> QED BY <1>1, <1>2

LEMMA LongEffect ==
  ASSUME Ready, Long
  PROVE  /\ Added("long") /\ Emission(RegionOf(section), 4)
         /\ ToImage => rom'.pending_bytes = <<>>
<1> DEFINE data == DataBytes(lines[line].data)
           expr == lines[line].expr
           item == Raw(data, expr, line)
           padded == AppendedData(ram, DataPad(4))
<1>1. /\ line \in DOMAIN lines /\ lines[line].dir = "long" /\ ThisLine = lines[line]
      /\ ~Code(line)
  BY ReadNow DEF Long
<1>2. /\ lines[line].data \in Seq(Nat) /\ Len(lines[line].data) = 4
  BY <1>1, TypedLine DEF Ready
<1>3. data \in Seq(Byte) /\ Len(data) = 4
  BY <1>2, DataAreBytes
<1>4. Size(line) = 4 /\ Literal(line) = data /\ (~Refers(line) <=> expr = NoExpr)
  BY <1>1 DEF Size, Literal, Refers
<1>5. /\ section \in {"text", "data", "bss"} /\ RomCounts(rom) /\ RamCounts(ram)
  BY DEF Ready
<1>6. \/ /\ ToImage /\ ram' = ram /\ relocs' = relocs
         /\ rom' = Emitted(Marked(flush_pending_bytes(rom)), <<item>>)
      \/ /\ ToRam("data") /\ rom' = rom
         /\ ram' = AppendedData(padded, data)
         /\ relocs' = IF expr = NoExpr THEN relocs
                      ELSE Assigned(relocs, padded.ram_data_offset, expr)
      \/ /\ ToRam("bss") /\ ram' = ReservedBss(ram, BssPad(4) + 4)
         /\ rom' = rom /\ relocs' = relocs
  BY <1>1 DEF Long
<1>7. CASE ToImage
  <2>1. /\ ram' = ram /\ relocs' = relocs /\ RegionOf(section) = "image"
        /\ rom' = Emitted(Marked(flush_pending_bytes(rom)), <<item>>)
    BY <1>5, <1>6, <1>7, RegionNow DEF ToImage
  <2>2. item.kind = "raw" /\ item.expr = expr /\ item.bytes = data /\ item.line = line
    BY DEF Raw
  <2> HIDE DEF item
  <2>3. ItemIsLast(rom, rom', item)
    BY <2>1, ItemGrows DEF Ready
  <2>4. Emission("image", 4)
    BY <1>1, <1>4, <2>1, <2>2, ItemInImage
  <2>5. Added("long") /\ rom'.pending_bytes = <<>>
    BY <1>1, <2>1, <2>2, <2>3, LastIsAdded
  <2> QED BY <2>1, <2>4, <2>5
<1>8. CASE ToRam("data")
  <2> DEFINE pad == DataPad(4)
             e == Len(ram.rom_data_bytes)
  <2>1. /\ rom' = rom /\ ram' = AppendedData(padded, data) /\ ~ToImage
        /\ relocs' = IF expr = NoExpr THEN relocs
                      ELSE Assigned(relocs, padded.ram_data_offset, expr)
        /\ RegionOf(section) = "data"
    BY <1>5, <1>6, <1>8, RegionNow DEF ToImage, ToRam
  <2>2. /\ pad \in Seq(Byte) /\ (e + Len(pad)) % 4 = 0 /\ (e % 4 = 0 => Len(pad) = 0)
    BY FourPads
  <2> HIDE DEF pad, data
  <2>3. /\ RamCounts(padded) /\ GrowsRam(ram, padded)
        /\ Len(padded.rom_data_bytes) = e + Len(pad)
    BY <1>5, <2>2, DataGrows DEF pad
  <2> HIDE DEF padded
  <2>4. /\ RamCounts(ram') /\ GrowsRam(padded, ram')
        /\ Len(ram'.rom_data_bytes) = Len(padded.rom_data_bytes) + Len(data)
        /\ \A j \in 1 .. Len(data) :
             ram'.rom_data_bytes[Len(padded.rom_data_bytes) + j] = data[j]
    BY <1>3, <2>1, <2>3, DataGrows
  <2>5. GrowsRam(ram, ram')
    BY <1>5, <2>3, <2>4, RamIs DEF GrowsRam
  <2>6. padded.ram_data_offset = e + Len(pad)
    BY <2>3, RamIs
  <2>7. CASE expr = NoExpr
    <3>1. relocs' = relocs /\ ~Refers(line)
      BY <1>4, <2>1, <2>7
    <3>2. Added("long")
      BY <2>1, <2>4, <2>5, <3>1, AddedToRam
    <3>3. Emission("data", 4)
      <4>1. PICK u \in Nat \ {0} : u = 4
        OBVIOUS
      <4>2. Len(ram.rom_data_bytes) % u = 0 => Len(pad) = 0
        BY <2>2, <4>1
      <4>3. Len(data) = Size(line)
        BY <1>3, <1>4
      <4>4. /\ Len(ram'.rom_data_bytes) = (Len(ram.rom_data_bytes) + Len(pad)) + Len(data)
            /\ \A j \in 1 .. Len(data) :
                 ram'.rom_data_bytes[(Len(ram.rom_data_bytes) + Len(pad)) + j] = data[j]
        BY <2>3, <2>4
      <4>5. \A j \in 1 .. Len(data) : Literal(line)[j] = data[j]
        BY <1>4
      <4>6. Emission("data", u)
        BY <1>1, <1>3, <2>2, <2>4, <2>5, <3>1, <4>2, <4>3, <4>4, <4>5, BytesInData
      <4> QED BY <4>1, <4>6
    <3> QED BY <2>1, <3>2, <3>3
  <2>8. CASE expr # NoExpr
    <3>1. relocs' = Assigned(relocs, e + Len(pad), expr) /\ Refers(line)
      BY <1>4, <2>1, <2>6, <2>8
    <3> QED BY <1>1, <1>3, <1>4, <2>1, <2>2, <2>3, <2>4, <2>5, <3>1, RelocAdded
  <2> QED BY <2>7, <2>8
<1>9. CASE ToRam("bss")
  <2>1. /\ rom' = rom /\ ram' = ReservedBss(ram, BssPad(4) + 4) /\ relocs' = relocs
        /\ ~ToImage /\ RegionOf(section) = "bss"
    BY <1>5, <1>6, <1>9, RegionNow DEF ToImage, ToRam
  <2>2. BssPad(4) \in Nat
    BY FourPads
  <2>3. BssPad(4) + 4 \in Nat /\ 4 <= BssPad(4) + 4
    BY <2>2
  <2>4. Emission("bss", 4)
    BY <1>4, <2>1, <2>3, BytesInBss
  <2>5. Added("long")
    BY <1>5, <2>1, <2>3, BssGrows, AddedToRam
  <2> QED BY <2>1, <2>4, <2>5
<1> QED BY <1>6, <1>7, <1>8, <1>9

\* Bytes and padding before them.
LEMMA BytesEffect ==
  ASSUME Ready, NEW dir \in {"data", "zero"}, line \in DOMAIN lines, lines[line].dir = dir,
         NEW bytes \in Seq(Byte), NEW pad \in Seq(Byte), NEW u \in Nat \ {0},
         NEW bss \in Nat,
         Literal(line) = bytes, Len(bytes) = Size(line), Size(line) <= bss,
         Len(ram.rom_data_bytes) % u = 0 => Len(pad) = 0,
         relocs' = relocs,
         \/ ToImage /\ rom' = [rom EXCEPT !.pending_bytes = @ \o bytes] /\ ram' = ram
         \/ ToRam("data") /\ ram' = AppendedData(ram, pad \o bytes) /\ rom' = rom
         \/ ToRam("bss") /\ ram' = ReservedBss(ram, bss) /\ rom' = rom
  PROVE  /\ Added(dir)
         /\ Emission(RegionOf(section), IF RegionOf(section) = "data" THEN u ELSE 1)
<1>1. /\ section \in {"text", "data", "bss"} /\ RomCounts(rom) /\ RamCounts(ram) /\ TextIsIn(rom)
      /\ Given
  BY DEF Ready
<1>2. ~Refers(line) /\ lines[line].dir # "ins"
  BY DEF Refers
<1>3. CASE ToImage
  <2>1. /\ rom' = [rom EXCEPT !.pending_bytes = @ \o bytes] /\ ram' = ram
        /\ RegionOf(section) = "image"
    BY <1>1, <1>3, RegionNow DEF ToImage
  <2>2. /\ RomCounts(rom') /\ Grows(rom, rom') /\ TextIsIn(rom')
        /\ rom'.pending = rom.pending
        /\ ImageEnd(rom') = ImageEnd(rom) + Len(bytes)
        /\ \A j \in 1 .. Len(bytes) : Has(rom', (ImageEnd(rom) + j) - 1, bytes[j])
    BY <1>1, <2>1, WaitingGrows
  <2>3. RawAfter(rom', Len(rom.pending))
    <3>1. Len(rom.pending) \in Nat
      BY <1>1, RomIs
    <3> QED BY <2>2, <3>1 DEF RawAfter
  <2>4. Added(dir)
    BY <2>1, <2>2, <2>3, AddedToImage
  <2>5. InImage(rom', ImageEnd(rom), line)
    BY <1>2, <2>2 DEF InImage
  <2>6. Emission("image", 1)
    BY <2>2, <2>5 DEF Emission, EndOf, LineAt
  <2> QED BY <2>1, <2>4, <2>6
<1>4. CASE ToRam("data")
  <2>1. /\ ram' = AppendedData(ram, pad \o bytes) /\ rom' = rom /\ ~ToImage
        /\ RegionOf(section) = "data"
    BY <1>1, <1>4, RegionNow DEF ToImage, ToRam
  <2> DEFINE e == Len(ram.rom_data_bytes)
             both == pad \o bytes
  <2>2. /\ both \in Seq(Byte) /\ Len(both) = Len(pad) + Len(bytes)
        /\ \A j \in 1 .. Len(bytes) : both[Len(pad) + j] = bytes[j]
    <3>1. IsSeq(pad) /\ IsSeq(bytes)
      BY DEF IsSeq
    <3>2. both \in Seq(Byte)
      OBVIOUS
    <3>3. /\ Len(pad \o bytes) = Len(pad) + Len(bytes)
          /\ \A j \in 1 .. Len(bytes) : (pad \o bytes)[Len(pad) + j] = bytes[j]
      BY ONLY <3>1, JoinedSeq
    <3> QED BY <3>2, <3>3
  <2>8. ram' = AppendedData(ram, both)
    BY <2>1
  <2> HIDE DEF both
  <2>3. /\ RamCounts(ram') /\ GrowsRam(ram, ram')
        /\ Len(ram'.rom_data_bytes) = e + Len(both)
        /\ \A j \in 1 .. Len(both) : ram'.rom_data_bytes[e + j] = both[j]
    BY <1>1, <2>2, <2>8, DataGrows, ZenonT(30)
  <2>4. e \in Nat /\ Len(pad) \in Nat /\ Len(bytes) \in Nat
    BY <1>1, RamIs
  <2>5. /\ Len(ram'.rom_data_bytes) = (e + Len(pad)) + Len(bytes)
        /\ \A j \in 1 .. Len(bytes) : ram'.rom_data_bytes[(e + Len(pad)) + j] = bytes[j]
    <3> DEFINE n == Len(bytes)
               d == Len(pad)
    <3> HIDE DEF n, d, e
    <3>1. n \in Nat /\ d \in Nat /\ e \in Nat /\ Len(both) = d + n
      BY <2>2, <2>4 DEF n, d, e
    <3>2. \A j \in 1 .. n : d + j \in 1 .. Len(both) /\ e + (d + j) = (e + d) + j
      BY <3>1, SMTT(30)
    <3>3. \A j \in 1 .. n : both[d + j] = bytes[j]
      BY <2>2 DEF n, d
    <3>4. \A j \in 1 .. n : ram'.rom_data_bytes[(e + d) + j] = bytes[j]
      BY <2>3, <3>2, <3>3
    <3>5. Len(ram'.rom_data_bytes) = (e + d) + n
      BY <2>3, <3>1
    <3> QED BY <3>4, <3>5 DEF n, d
  <2>6. Added(dir)
    BY <2>1, <2>3, AddedToRam
  <2>7. Emission("data", u)
    BY <1>2, <2>3, <2>5, BytesInData
  <2> QED BY <2>1, <2>6, <2>7
<1>5. CASE ToRam("bss")
  <2>1. /\ ram' = ReservedBss(ram, bss) /\ rom' = rom /\ ~ToImage
        /\ RegionOf(section) = "bss"
    BY <1>1, <1>5, RegionNow DEF ToImage, ToRam
  <2>2. Added(dir)
    BY <1>1, <2>1, BssGrows, AddedToRam
  <2>3. Size(line) \in Nat
    BY <1>1, SizeIs
  <2>4. Emission("bss", 1)
    BY <2>1, <2>3, BytesInBss
  <2> QED BY <2>1, <2>2, <2>4
<1> QED BY <1>3, <1>4, <1>5

LEMMA DataEffect ==
  ASSUME Ready, Data
  PROVE  Added("data") /\ Emission(RegionOf(section), LineUnit(RegionOf(section), line))
<1> DEFINE bytes == DataBytes(lines[line].data)
           u == lines[line].unit
           pad == DataPad(u)
           bss == BssPad(u) + Len(bytes)
<1>1. /\ line \in DOMAIN lines /\ lines[line].dir = "data" /\ ThisLine = lines[line]
  BY ReadNow DEF Data
<1>2. /\ lines[line].data \in Seq(Nat) /\ u \in Nat \ {0}
  BY <1>1, TypedLine DEF Ready
<1>3. bytes \in Seq(Byte) /\ Len(bytes) = Len(lines[line].data)
  BY <1>2, DataAreBytes
<1>4. Len(bytes) = Size(line) /\ Literal(line) = bytes
  BY <1>1, <1>3 DEF Size, Literal
<1>5. /\ relocs' = relocs
      /\ \/ ToImage /\ rom' = [rom EXCEPT !.pending_bytes = @ \o bytes] /\ ram' = ram
         \/ ToRam("data") /\ ram' = AppendedData(ram, pad \o bytes) /\ rom' = rom
         \/ ToRam("bss") /\ ram' = ReservedBss(ram, bss) /\ rom' = rom
  BY <1>1 DEF Data
<1>6. /\ pad \in Seq(Byte) /\ BssPad(u) \in Nat
      /\ Len(ram.rom_data_bytes) % u = 0 => Len(pad) = 0
  BY <1>2, DataPads
<1>7. LineUnit(RegionOf(section), line) = IF RegionOf(section) = "data" THEN u ELSE 1
  BY <1>1 DEF LineUnit
<1> HIDE DEF bytes, u, pad
<1>8. bss \in Nat /\ Size(line) <= bss
  <2>1. Len(bytes) \in Nat
    BY <1>3
  <2> QED BY <1>4, <1>6, <2>1
<1> HIDE DEF bss
<1> QED BY <1>1, <1>2, <1>3, <1>4, <1>5, <1>6, <1>7, <1>8, BytesEffect

LEMMA ZeroEffect ==
  ASSUME Ready, Zero
  PROVE  Added("zero") /\ Emission(RegionOf(section), LineUnit(RegionOf(section), line))
<1> DEFINE n == lines[line].n
           bytes == Zeros(n)
           pad == <<>>
<1>1. /\ line \in DOMAIN lines /\ lines[line].dir = "zero" /\ ThisLine = lines[line]
  BY ReadNow DEF Zero
<1>2. n \in Nat
  BY <1>1, TypedLine DEF Ready
<1>3. bytes \in Seq(Byte) /\ Len(bytes) = n
  BY <1>2, ZerosAreBytes
<1>4. Size(line) = n /\ Literal(line) = bytes /\ n <= n
  BY <1>1, <1>2 DEF Size, Literal
<1>5. /\ relocs' = relocs
      /\ \/ ToImage /\ rom' = [rom EXCEPT !.pending_bytes = @ \o bytes] /\ ram' = ram
         \/ ToRam("data") /\ ram' = AppendedData(ram, bytes) /\ rom' = rom
         \/ ToRam("bss") /\ ram' = ReservedBss(ram, n) /\ rom' = rom
  BY <1>1 DEF Zero
<1> HIDE DEF bytes, n
<1>6. pad \in Seq(Byte) /\ Len(pad) = 0 /\ pad \o bytes = bytes
  BY <1>3
<1>7. PICK u \in Nat \ {0} : u = 1
  OBVIOUS
<1>8. LineUnit(RegionOf(section), line) = IF RegionOf(section) = "data" THEN u ELSE 1
  BY <1>1, <1>7 DEF LineUnit
<1> HIDE DEF pad
<1>9. Added("zero") /\ Emission(RegionOf(section), IF RegionOf(section) = "data" THEN u ELSE 1)
  BY <1>1, <1>2, <1>3, <1>4, <1>5, <1>6, <1>7, BytesEffect, ZenonT(30)
<1> QED BY <1>8, <1>9

-----------------------------------------------------------------------------
\* What has been read of the source, in the state of the first pass.
AfterAlign(r, m, sec, n) ==
  n > 1 /\ lines[n - 1].dir = "align" => EndOf(RegionOf(sec), r, m) % lines[n - 1].bytes = 0
Waiting(r, n) ==
  mode = "ram" /\ r.pending_bytes # <<>> =>
    \E b \in Indices("data") \union Indices("zero") :
      b < n /\ \A i \in b .. (n - 1) : ~Packs(i)

LEMMA LabelEffect ==
  ASSUME Ready, Label
  PROVE  /\ Added("label") /\ rom'.pending_bytes = <<>> /\ ram' = ram /\ relocs' = relocs
         /\ RomCounts(rom') /\ ImageEnd(rom') = 4 * rom'.rom_address
         /\ rom'.rom_address \in Nat
         /\ ImageEnd(rom) % 4 = 0 => ImageEnd(rom') = ImageEnd(rom)
         /\ ImageEnd(rom) <= ImageEnd(rom')
<1>1. rom' = flush_pending_bytes(rom) /\ ram' = ram /\ relocs' = relocs
  BY DEF Label
<1>2. RomCounts(rom) /\ TextIsIn(rom) /\ Given
  BY DEF Ready
<1>3. /\ RomCounts(rom') /\ Grows(rom, rom') /\ TextIsIn(rom')
      /\ rom'.pending_bytes = <<>> /\ ImageEnd(rom') = 4 * Len(rom'.pending)
      /\ RawAfter(rom', Len(rom.pending))
      /\ ImageEnd(rom) % 4 = 0 => ImageEnd(rom') = ImageEnd(rom)
  BY <1>1, <1>2, FlushGrows
<1>4. Added("label")
  BY <1>1, <1>3, AddedToImage
<1>5. rom'.rom_address = Len(rom'.pending) /\ rom'.rom_address \in Nat
  BY <1>3, RomIs
<1>6. ImageEnd(rom) <= ImageEnd(rom')
  BY <1>3 DEF Grows
<1> QED BY <1>1, <1>3, <1>4, <1>5, <1>6

LEMMA LabelLaid ==
  ASSUME Ready, Label, section = Kept(SectionAt(line)), BasesAreAligned,
         Laid(rom, ram, relocs, label_map, section, line), AfterAlign(rom, ram, section, line),
         ThisLine.name \notin DOMAIN label_map
  PROVE  Laid(rom', ram', relocs', label_map', section, line + 1)
<1> DEFINE a == LabelAddress(rom')
           g == RegionOf(section)
<1>1. /\ line \in DOMAIN lines /\ lines[line].dir = "label" /\ ThisLine = lines[line]
      /\ line \in Objects
  BY ReadNow DEF Label, Objects, Indices
<1>2. /\ Adding(rom, rom', ram, ram', relocs, relocs') /\ ram' = ram
      /\ RomCounts(rom') /\ ImageEnd(rom') = 4 * rom'.rom_address
      /\ rom'.rom_address \in Nat
      /\ ImageEnd(rom) % 4 = 0 => ImageEnd(rom') = ImageEnd(rom)
      /\ ImageEnd(rom) <= ImageEnd(rom')
  BY LabelEffect DEF Added
<1>3. label_map' = Assigned(label_map, lines[line].name, a)
  BY <1>1 DEF Label
<1>4. /\ Region(line) = g /\ g \in {"image", "data", "bss"}
  BY <1>1, RegionIs, RegionNow DEF Ready
<1>5. /\ Len(ram.rom_data_bytes) \in Nat /\ ram.ram_bss_offset \in Nat
      /\ ram.ram_data_offset = Len(ram.rom_data_bytes) /\ ImageEnd(rom) \in Nat
      /\ RAM_BASE \in Nat /\ BSS_MARK \in Nat
  BY RomIs, RamIs, MapAssumption DEF Ready
<1>6. a = IF g = "data" THEN RAM_BASE + Len(ram.rom_data_bytes)
          ELSE IF g = "bss" THEN BSS_MARK + ram.ram_bss_offset ELSE rom'.rom_address
  BY <1>2, <1>5, RegionNow DEF LabelAddress, Ready
<1>7. a \in Int
  BY <1>2, <1>5, <1>6
<1>8. label_map'[lines[line].name] = a
  BY <1>3 DEF Assigned
<1>9. From(label_map', line) = EndOf(g, rom', ram')
  BY <1>2, <1>4, <1>5, <1>6, <1>8 DEF From, EndOf
<1>10. EndOf(g, rom, ram) <= EndOf(g, rom', ram') /\ EndOf(g, rom', ram') \in Nat
       /\ EndOf(g, rom', ram') <= EndOf(g, rom', ram')
  BY <1>2, <1>5 DEF EndOf
<1>11. From(label_map', line) % Alignment(line) = 0
  <2>1. CASE line > 1 /\ lines[line - 1].dir = "align"
    <3> DEFINE k == lines[line - 1].bytes
    <3>1. Alignment(line) = k
      BY <1>1, <2>1 DEF Alignment
    <3>2. EndOf(g, rom, ram) % k = 0
      BY <2>1 DEF AfterAlign
    <3>3. k \in {1, 2} \/ k % 4 = 0
      BY <1>1, <3>1 DEF BasesAreAligned
    <3>4. k \in Nat \ {0}
      BY <1>1, <3>1, AlignmentIs DEF Ready
    <3> HIDE DEF k
    <3>5. CASE g # "image"
      <4>1. EndOf(g, rom', ram') = EndOf(g, rom, ram)
        BY <1>2, <3>5 DEF EndOf
      <4> QED BY <1>9, <3>1, <3>2, <4>1
    <3>6. CASE g = "image" /\ k \in {1, 2}
      <4>1. (4 * rom'.rom_address) % k = 0
        BY <1>2, <3>6
      <4> QED BY <1>2, <1>9, <3>1, <3>6, <4>1 DEF EndOf
    <3>7. CASE g = "image" /\ k % 4 = 0
      <4>1. ImageEnd(rom) % k = 0
        BY <3>2, <3>7 DEF EndOf
      <4>2. ImageEnd(rom) % 4 = 0
        <5>1. PICK four \in Nat \ {0} : four = 4
          OBVIOUS
        <5> QED BY <1>5, <3>4, <3>7, <4>1, <5>1, MultipleOfMultiple
      <4> QED BY <1>2, <1>9, <3>1, <3>7, <4>1, <4>2 DEF EndOf
    <3> QED BY <1>4, <3>3, <3>5, <3>6, <3>7
  <2>2. CASE ~ (line > 1 /\ lines[line - 1].dir = "align")
    <3>1. Alignment(line) = 1
      BY <1>1, <2>2 DEF Alignment
    <3> QED BY <1>9, <1>10, <3>1
  <2> QED BY <2>1, <2>2
<1> HIDE DEF a, g
<1> QED BY <1>1, <1>2, <1>3, <1>4, <1>7, <1>9, <1>10, <1>11, NamingStep DEF Ready, g

-----------------------------------------------------------------------------
\* A symbol of .bss.
LEMMA CommRomLaid ==
  ASSUME Ready, Reading("comm"), CommRom, UNCHANGED <<section, relocs>>, mode = "rom"
  PROVE  /\ Added("comm") /\ rom' = rom
         /\ Laid(rom, ram, relocs, label_map, section, line)
            /\ ThisLine.name \notin DOMAIN label_map =>
              Laid(rom', ram', relocs', label_map', section, line + 1)
<1> DEFINE k == IF lines[line].align > 0 THEN lines[line].align ELSE 1
           size == lines[line].size
           c == ram.ram_bss_offset
           pad == Pad(c, k)
           a == BSS_MARK + c + pad
<1>1. /\ line \in DOMAIN lines /\ lines[line].dir = "comm" /\ ThisLine = lines[line]
      /\ line \in Objects
  BY ReadNow DEF Objects, Indices
<1>2. lines[line].align \in Nat /\ size \in Nat
  BY <1>1, TypedLine DEF Ready
<1>3. k \in Nat \ {0}
  BY <1>2
<1>4. BssPad(k) = pad /\ pad \in Nat /\ (c + pad) % k = 0
  <2> HIDE DEF k
  <2> QED BY <1>3, DataPads
<1>5. /\ label_map' = Assigned(label_map, lines[line].name, BSS_MARK + c + BssPad(k))
      /\ ram' = ReservedBss(ram, BssPad(k) + size) /\ rom' = rom /\ relocs' = relocs
  BY <1>1 DEF CommRom
<1>6. Alignment(line) = k /\ Region(line) = "bss" /\ Size(line) = size
  BY <1>1, RegionIs DEF Ready, Alignment, Size
<1> HIDE DEF k, size
<1>7. c \in Nat /\ BSS_MARK \in Nat
  BY RamIs, MapAssumption DEF Ready
<1>8. /\ RamCounts(ram') /\ GrowsRam(ram, ram') /\ ram'.ram_bss_offset = c + (pad + size)
  <2>1. pad + size \in Nat /\ ram' = ReservedBss(ram, pad + size)
    BY <1>2, <1>4, <1>5
  <2> HIDE DEF pad, c
  <2> QED BY <2>1, BssGrows DEF Ready, c
<1>9. Added("comm")
  BY <1>5, <1>8, AddedToRam
<1>10. a \in Int /\ label_map' = Assigned(label_map, lines[line].name, a)
  BY <1>4, <1>5, <1>7
<1>11. From(label_map', line) = c + pad
  <2>1. label_map'[lines[line].name] = a
    BY <1>10 DEF Assigned
  <2>2. From(label_map', line) = label_map'[lines[line].name] - BSS_MARK
    BY <1>6 DEF From
  <2> HIDE DEF pad, c
  <2> QED BY <1>4, <1>7, <2>1, <2>2
<1>12. /\ EndOf("bss", rom, ram) = c /\ EndOf("bss", rom', ram') = c + (pad + size)
  BY <1>8 DEF EndOf
<1>13. c <= c + pad /\ c + pad <= c + (pad + size) /\ (c + pad) + size <= c + (pad + size)
  <2> HIDE DEF pad, c
  <2> QED BY <1>2, <1>4, <1>7 DEF size
<1>14. LineAt("bss", rom', ram', relocs', From(label_map', line), line)
  BY DEF LineAt
<1> HIDE DEF a, c, pad
<1>15. ASSUME Laid(rom, ram, relocs, label_map, section, line),
              lines[line].name \notin DOMAIN label_map
       PROVE  Laid(rom', ram', relocs', label_map', section, line + 1)
  <2>1. From(label_map', line) % Alignment(line) = 0
    BY <1>4, <1>6, <1>11
  <2>2. /\ EndOf(Region(line), rom, ram) <= From(label_map', line)
        /\ From(label_map', line) <= EndOf(Region(line), rom', ram')
        /\ From(label_map', line) + Size(line) <= EndOf(Region(line), rom', ram')
        /\ LineAt(Region(line), rom', ram', relocs', From(label_map', line), line)
    BY <1>6, <1>11, <1>12, <1>13, <1>14
  <2>3. lines[line].dir # "label"
    BY <1>1
  <2>4. Adding(rom, rom', ram, ram', relocs, relocs')
    BY <1>9 DEF Added
  <2> QED BY <1>1, <1>10, <1>15, <2>1, <2>2, <2>3, <2>4, NamingStep DEF Ready
<1> QED BY <1>1, <1>5, <1>9, <1>15

\* In ram mode nothing waits when a .comm comes, and its words are added.
LEMMA NothingWaits ==
  ASSUME Ready, Reading("comm"), Waiting(rom, line), CommIsPacked, mode = "ram"
  PROVE  rom.pending_bytes = <<>>
<1>1. /\ line \in DOMAIN lines /\ lines[line].dir = "comm" /\ line \in Nat
      /\ line \in Indices("comm")
  BY ReadNow DEF Indices
<1>2. SUFFICES ASSUME rom.pending_bytes # <<>> PROVE FALSE
  OBVIOUS
<1>3. PICK b \in Indices("data") \union Indices("zero") :
        b < line /\ \A i \in b .. (line - 1) : ~Packs(i)
  BY <1>2 DEF Waiting
<1>4. PICK i \in b .. line : Packs(i)
  BY <1>1, <1>3 DEF CommIsPacked
<1>5. b \in Int
  BY LinesAre DEF Ready, Indices
<1>6. i # line
  BY <1>1, <1>4 DEF Packs
<1>7. i \in b .. (line - 1)
  BY <1>1, <1>4, <1>5, <1>6
<1> QED BY <1>3, <1>4, <1>7

LEMMA CommRamLaid ==
  ASSUME Ready, Reading("comm"), CommRam, UNCHANGED <<section, relocs>>, mode # "rom",
         rom.pending_bytes = <<>>, BasesAreAligned
  PROVE  /\ Added("comm") /\ rom'.pending_bytes = <<>>
         /\ Laid(rom, ram, relocs, label_map, section, line)
            /\ ThisLine.name \notin DOMAIN label_map =>
              Laid(rom', ram', relocs', label_map', section, line + 1)
<1> DEFINE k == lines[line].align
           size == lines[line].size
           n == (size + 3) \div 4
           s == AlignedWords(rom, k, line)
           W == ZeroWords(n, line)
           g == EndOf("image", rom', ram')
           L == Len(s.pending)
<1>1. /\ line \in DOMAIN lines /\ lines[line].dir = "comm" /\ ThisLine = lines[line]
      /\ line \in Objects /\ ~Code(line)
  BY ReadNow DEF Objects, Indices
<1>2. k \in Nat /\ size \in Nat
  BY <1>1, TypedLine DEF Ready
<1>3. /\ Alignment(line) = IF k > 0 THEN k ELSE 1
      /\ Region(line) = "image" /\ Size(line) = size
  BY <1>1, RegionIs DEF Ready, Alignment, Size
<1>4. k \in {0, 1, 2} \/ k % 4 = 0
  <2>1. k > 0 => k \in {1, 2} \/ k % 4 = 0
    BY <1>1, <1>3 DEF BasesAreAligned
  <2> QED BY <1>2, <2>1
<1>5. n \in Nat /\ size <= 4 * n
  BY <1>2, SMTT(30)
<1>6. IsSeq(W) /\ Len(W) = n
  BY <1>5, ZeroWordsAre
<1>7. /\ rom' = Emitted(s, W) /\ ram' = ram /\ relocs' = relocs
      /\ label_map' = Assigned(label_map, lines[line].name, s.rom_address)
  BY <1>1 DEF CommRam
<1>8. RomCounts(rom) /\ TextIsIn(rom) /\ RamCounts(ram) /\ Given
  BY DEF Ready
<1> HIDE DEF k, size, n
<1>9. /\ RomCounts(s) /\ Grows(rom, s) /\ TextIsIn(s) /\ s.pending_bytes = <<>>
      /\ RawAfter(s, Len(rom.pending))
      /\ ImageEnd(s) = 4 * L
      /\ k # 0 => ImageEnd(s) % k = 0
  BY <1>1, <1>2, <1>4, <1>8, AlignedGrows
<1> HIDE DEF s, W
<1>10. /\ RomCounts(rom') /\ Grows(s, rom') /\ TextIsIn(rom') /\ rom'.pending_bytes = <<>>
       /\ Len(rom'.pending) = L + n
       /\ ImageEnd(rom') = ImageEnd(s) + (4 * n)
       /\ \A i \in 1 .. n : rom'.pending[L + i] = W[i]
  <2>1. /\ RomCounts(Emitted(s, W)) /\ Grows(s, Emitted(s, W)) /\ TextIsIn(Emitted(s, W))
        /\ Emitted(s, W).pending_bytes = <<>>
        /\ Len(Emitted(s, W).pending) = L + Len(W)
        /\ ImageEnd(Emitted(s, W)) = ImageEnd(s) + (4 * Len(W))
        /\ \A i \in 1 .. Len(W) : Emitted(s, W).pending[L + i] = W[i]
    BY ONLY <1>6, <1>9, EmittedGrows, ZenonT(30) DEF L
  <2> QED BY ONLY <1>6, <1>7, <2>1
<1>11. L \in Nat /\ s.rom_address = L /\ ImageEnd(rom) <= ImageEnd(s) /\ ImageEnd(rom) \in Nat
       /\ Len(rom.pending) \in Nat /\ Len(rom.pending) <= L
  BY <1>8, <1>9, RomIs DEF Grows
<1>12. Grows(rom, rom')
  BY <1>8, <1>9, <1>10, GrowsAgain
<1>13. RawAfter(rom', Len(rom.pending))
  <2> DEFINE M == Len(rom'.pending)
             l == Len(rom.pending)
  <2>1. RawAfter(rom', l) <=> \A i \in (l + 1) .. M :
           rom'.pending[i].kind = "raw" /\ ~Code(rom'.pending[i].line)
    BY DEF RawAfter
  <2>2. \A i \in (l + 1) .. L : s.pending[i].kind = "raw" /\ ~Code(s.pending[i].line)
    BY <1>9 DEF RawAfter
  <2>3. \A i \in 1 .. L : rom'.pending[i] = s.pending[i]
    BY <1>10 DEF Grows
  <2>4. \A i \in 1 .. n : W[i].kind = "raw" /\ ~Code(W[i].line)
    <3>1. \A i \in 1 .. n : W[i] = Raw(Zeros(4), NoExpr, line)
      BY <1>5, ZeroWordsAre DEF W
    <3>2. /\ Raw(Zeros(4), NoExpr, line).kind = "raw"
          /\ Raw(Zeros(4), NoExpr, line).line = line
      BY DEF Raw
    <3> QED BY <1>1, <3>1, <3>2
  <2>5. M = L + n
    BY <1>10
  <2> HIDE DEF M, l, L
  <2> SUFFICES ASSUME NEW i \in (l + 1) .. M
               PROVE  rom'.pending[i].kind = "raw" /\ ~Code(rom'.pending[i].line)
    BY <2>1 DEF l
  <2>6. l \in Nat /\ L \in Nat /\ l <= L
    BY <1>11 DEF l
  <2>7. CASE i <= L
    <3>1. i \in (l + 1) .. L /\ i \in 1 .. L
      BY <2>6, <2>7
    <3> QED BY <2>2, <2>3, <3>1
  <2>8. CASE ~ (i <= L)
    <3>1. i - L \in 1 .. n /\ L + (i - L) = i
      BY <1>5, <2>5, <2>6, <2>8
    <3>2. rom'.pending[i] = W[i - L]
      BY <1>10, <3>1
    <3> QED BY <2>4, <3>1, <3>2
  <2> QED BY <2>7, <2>8
<1>14. Added("comm")
  BY <1>7, <1>10, <1>12, <1>13, AddedToImage
<1>15. From(label_map', line) = 4 * L
  <2>1. label_map'[lines[line].name] = s.rom_address
    BY <1>7 DEF Assigned
  <2> QED BY <1>3, <1>11, <2>1 DEF From
<1>16. InImage(rom', 4 * L, line)
  <2>1. ~ (lines[line].dir = "ins" \/ Refers(line)) /\ Literal(line) = Zeros(size)
    BY <1>1, <1>3 DEF Refers, Literal
  <2>2. ASSUME NEW j \in 1 .. size
        PROVE  Has(rom', ((4 * L) + j) - 1, Zeros(size)[j])
    <3>1. Zeros(size)[j] = ZeroByte
      BY DEF Zeros
    <3>2. ((4 * L) + j) - 1 \in ImageEnd(s) .. (ImageEnd(s) + 4 * n - 1)
      <4> HIDE DEF L
      <4>1. L \in Nat /\ ImageEnd(s) = 4 * L
        BY <1>9, <1>11 DEF L
      <4> QED BY <1>2, <1>5, <4>1
    <3>3. Has(Emitted(s, ZeroWords(n, line)), ((4 * L) + j) - 1, ZeroByte)
      BY <1>5, <1>9, <3>2, ZeroWordsHold
    <3> QED BY <1>7, <3>1, <3>3 DEF W
  <2> QED BY <1>3, <2>1, <2>2 DEF InImage
<1>17. /\ EndOf("image", rom, ram) = ImageEnd(rom) /\ EndOf("image", rom', ram') = 4 * L + 4 * n
  BY <1>9, <1>10 DEF EndOf
<1> HIDE DEF L
<1>18. /\ ImageEnd(rom) <= 4 * L /\ 4 * L <= 4 * L + 4 * n /\ 4 * L + size <= 4 * L + 4 * n
  <2>1. L \in Nat /\ ImageEnd(rom) <= 4 * L
    BY <1>9, <1>11 DEF L
  <2> QED BY <1>2, <1>5, <2>1
<1>19. ASSUME Laid(rom, ram, relocs, label_map, section, line),
              lines[line].name \notin DOMAIN label_map
       PROVE  Laid(rom', ram', relocs', label_map', section, line + 1)
  <2>1. From(label_map', line) % Alignment(line) = 0
    <3>1. CASE k > 0
      BY <1>2, <1>3, <1>9, <1>15, <3>1 DEF L
    <3>2. CASE ~ (k > 0)
      <4>1. \A x \in Nat : (4 * x) % 1 = 0
        OBVIOUS
      <4>2. L \in Nat
        BY <1>11 DEF L
      <4> QED BY <1>3, <1>15, <3>2, <4>1, <4>2
    <3> QED BY <3>1, <3>2
  <2>2. /\ EndOf(Region(line), rom, ram) <= From(label_map', line)
        /\ From(label_map', line) <= EndOf(Region(line), rom', ram')
        /\ From(label_map', line) + Size(line) <= EndOf(Region(line), rom', ram')
        /\ LineAt(Region(line), rom', ram', relocs', From(label_map', line), line)
    BY <1>3, <1>15, <1>16, <1>17, <1>18 DEF LineAt
  <2>3. lines[line].dir # "label"
    BY <1>1
  <2>4. Adding(rom, rom', ram, ram', relocs, relocs') /\ s.rom_address \in Int
    BY <1>11, <1>14 DEF Added, L
  <2> QED BY <1>1, <1>7, <1>8, <1>19, <2>1, <2>2, <2>3, <2>4, NamingStep
<1> QED BY <1>1, <1>10, <1>14, <1>19

-----------------------------------------------------------------------------
(***************************************************************************)
(* The code in the image: in the order of the source, after the beginning  *)
(* of .text, and on the side of each label it is on in the source.         *)
(***************************************************************************)
CodeIn(r, n) ==
  \A i \in 1 .. Len(r.pending) :
    \/ r.pending[i].kind = "raw" /\ ~Code(r.pending[i].line)
    \/ /\ Code(r.pending[i].line) /\ r.pending[i].line < n
       /\ r.text_start_word \in 0 .. (i - 1)
InOrder(r) ==
  \A i, j \in 1 .. Len(r.pending) :
    i < j /\ Code(r.pending[i].line) /\ Code(r.pending[j].line) =>
      r.pending[i].line < r.pending[j].line
Sided(r, lab, n) ==
  \A k \in Indices("label") : k < n /\ Region(k) = "image" =>
    /\ lab[lines[k].name] <= Len(r.pending)
    /\ \A i \in 1 .. Len(r.pending) : Code(r.pending[i].line) =>
         (r.pending[i].line > k <=> i > lab[lines[k].name])

Labels(lab, n) == \A k \in Indices("label") : k < n => lines[k].name \in DOMAIN lab

\* Words of data after the code.
LEMMA CodeKept ==
  ASSUME NEW r, RomCounts(r), NEW s, RomCounts(s), Grows(r, s), RawAfter(s, Len(r.pending)),
         NEW n \in Int, NEW m \in Int, n <= m, Given, CodeIn(r, n), InOrder(r)
  PROVE  CodeIn(s, m) /\ InOrder(s)
<1> DEFINE l == Len(r.pending)
           L == Len(s.pending)
           Raws(i) == s.pending[i].kind = "raw" /\ ~Code(s.pending[i].line)
<1>1. l \in Nat /\ L \in Nat /\ l <= L
  BY RomIs DEF Grows
<1>2. \A i \in 1 .. l : s.pending[i] = r.pending[i]
  BY DEF Grows
<1>3. \A i \in (l + 1) .. L : Raws(i)
  BY DEF RawAfter
<1>4. \A i \in 1 .. L : i \in 1 .. l \/ Raws(i)
  <2> HIDE DEF l, L, Raws
  <2> QED BY <1>1, <1>3
<1>5. \A i \in 1 .. l : \/ /\ r.pending[i].line \in Int
                           /\ r.text_start_word \in 0 .. (i - 1)
                           /\ Code(r.pending[i].line) /\ r.pending[i].line < n
                        \/ r.pending[i].kind = "raw" /\ ~Code(r.pending[i].line)
  BY LinesAreNumbered DEF CodeIn, Given
<1>6. r.text_start_word # None => s.text_start_word = r.text_start_word
  BY DEF Grows
<1>7. CodeIn(s, m)
  <2> SUFFICES ASSUME NEW i \in 1 .. L
               PROVE  \/ Raws(i)
                      \/ /\ Code(s.pending[i].line) /\ s.pending[i].line < m
                         /\ s.text_start_word \in 0 .. (i - 1)
    BY DEF CodeIn
  <2>1. CASE Raws(i)
    BY <2>1
  <2>2. CASE ~Raws(i)
    <3>1. i \in 1 .. l /\ s.pending[i] = r.pending[i]
      BY <1>2, <1>4, <2>2
    <3>2. /\ Code(s.pending[i].line) /\ s.pending[i].line < n /\ s.pending[i].line \in Int
          /\ r.text_start_word \in 0 .. (i - 1)
      BY <1>5, <2>2, <3>1
    <3>3. s.text_start_word = r.text_start_word
      BY <1>6, <3>2 DEF None
    <3>4. s.pending[i].line < m
      BY <3>2
    <3> QED BY <3>2, <3>3, <3>4
  <2> QED BY <2>1, <2>2
<1>8. InOrder(s)
  <2> SUFFICES ASSUME NEW i \in 1 .. L, NEW j \in 1 .. L, i < j,
                      Code(s.pending[i].line), Code(s.pending[j].line)
               PROVE  s.pending[i].line < s.pending[j].line
    BY DEF InOrder
  <2>1. i \in 1 .. l /\ j \in 1 .. l
    BY <1>4
  <2> QED BY <1>2, <2>1 DEF InOrder
<1> QED BY <1>7, <1>8

\* An instruction after the others.
LEMMA CodeAfter ==
  ASSUME NEW r, RomCounts(r), NEW s, NEW item, ItemIsLast(r, s, item),
         NEW n \in Int, Code(n), item.line = n, section = "text",
         Given, CodeIn(r, n), InOrder(r)
  PROVE  CodeIn(s, n + 1) /\ InOrder(s)
<1> DEFINE l == Len(r.pending)
           L == Len(s.pending)
           Raws(i) == s.pending[i].kind = "raw" /\ ~Code(s.pending[i].line)
<1>1. /\ RomCounts(s) /\ Grows(r, s) /\ s.pending[L] = item /\ L \in Nat \ {0}
      /\ l < L /\ \A i \in (l + 1) .. (L - 1) : Raws(i)
      /\ s.text_start_word \in 0 .. (L - 1)
  BY DEF ItemIsLast
<1>2. l \in Nat /\ \A i \in 1 .. l : s.pending[i] = r.pending[i]
  BY RomIs DEF Grows, ItemIsLast
<1>3. \A i \in 1 .. L : i \in 1 .. l \/ Raws(i) \/ i = L
  <2> HIDE DEF l, L, Raws
  <2> QED BY <1>1, <1>2
<1>4. \A i \in 1 .. l : \/ /\ r.pending[i].line \in Int
                           /\ r.text_start_word \in 0 .. (i - 1)
                           /\ Code(r.pending[i].line) /\ r.pending[i].line < n
                        \/ r.pending[i].kind = "raw" /\ ~Code(r.pending[i].line)
  BY LinesAreNumbered DEF CodeIn, Given
<1>5. r.text_start_word # None => s.text_start_word = r.text_start_word
  BY DEF Grows, ItemIsLast
<1>6. CodeIn(s, n + 1)
  <2> SUFFICES ASSUME NEW i \in 1 .. L
               PROVE  \/ Raws(i)
                      \/ /\ Code(s.pending[i].line) /\ s.pending[i].line < n + 1
                         /\ s.text_start_word \in 0 .. (i - 1)
    BY DEF CodeIn
  <2>1. CASE Raws(i)
    BY <2>1
  <2>2. CASE ~Raws(i) /\ i # L
    <3>1. i \in 1 .. l /\ s.pending[i] = r.pending[i]
      BY <1>2, <1>3, <2>2
    <3>2. /\ Code(s.pending[i].line) /\ s.pending[i].line < n /\ s.pending[i].line \in Int
          /\ r.text_start_word \in 0 .. (i - 1)
      BY <1>4, <2>2, <3>1
    <3>3. s.text_start_word = r.text_start_word
      BY <1>5, <3>2 DEF None
    <3>4. s.pending[i].line < n + 1
      BY <3>2
    <3> QED BY <3>2, <3>3, <3>4
  <2>3. CASE i = L
    <3>1. s.pending[i].line = n /\ n < n + 1
      BY <1>1, <2>3
    <3> HIDE DEF L
    <3> QED BY <1>1, <2>3, <3>1
  <2> QED BY <2>1, <2>2, <2>3
<1>7. InOrder(s)
  <2> SUFFICES ASSUME NEW i \in 1 .. L, NEW j \in 1 .. L, i < j,
                      Code(s.pending[i].line), Code(s.pending[j].line)
               PROVE  s.pending[i].line < s.pending[j].line
    BY DEF InOrder
  <2>1. i \in 1 .. l
    <3>1. i # L
      <4> HIDE DEF L
      <4> QED BY <1>1
    <3> QED BY <1>3, <3>1
  <2>2. CASE j \in 1 .. l
    BY <1>2, <2>1, <2>2 DEF InOrder
  <2>3. CASE j = L
    BY <1>1, <1>2, <1>4, <2>1, <2>3
  <2> QED BY <1>3, <2>2, <2>3
<1> QED BY <1>6, <1>7

\* Labels stay on their side of words of data.
LEMMA SidedKept ==
  ASSUME NEW r, RomCounts(r), NEW s, RomCounts(s), Grows(r, s), RawAfter(s, Len(r.pending)),
         NEW n \in Int, NEW lab, Addresses(lab), NEW tab, Given, Sided(r, lab, n),
         NEW k \in Indices("label"), k < n, Region(k) = "image",
         lines[k].name \in DOMAIN lab, tab[lines[k].name] = lab[lines[k].name]
  PROVE  /\ tab[lines[k].name] <= Len(s.pending)
         /\ \A i \in 1 .. Len(s.pending) : Code(s.pending[i].line) =>
              (s.pending[i].line > k <=> i > tab[lines[k].name])
<1> DEFINE l == Len(r.pending)
           L == Len(s.pending)
           a == lab[lines[k].name]
<1>1. l \in Nat /\ L \in Nat /\ l <= L /\ a \in Int /\ tab[lines[k].name] = a
  BY RomIs DEF Grows, Addresses
<1>2. \A i \in 1 .. l : s.pending[i] = r.pending[i]
  BY DEF Grows
<1>3. \A i \in (l + 1) .. L : ~Code(s.pending[i].line)
  BY DEF RawAfter
<1>4. \A i \in 1 .. L : i \in 1 .. l \/ ~Code(s.pending[i].line)
  <2> HIDE DEF l, L
  <2> QED BY <1>1, <1>3
<1>5. a <= l /\ \A i \in 1 .. l : Code(r.pending[i].line) => (r.pending[i].line > k <=> i > a)
  BY DEF Sided
<1>6. a <= L
  <2> HIDE DEF l, L, a
  <2> QED BY <1>1, <1>5
<1> HIDE DEF l, L, a
<1>7. \A i \in 1 .. L : Code(s.pending[i].line) => (s.pending[i].line > k <=> i > a)
  BY <1>2, <1>4, <1>5
<1> QED BY <1>1, <1>6, <1>7 DEF L

\* And before an instruction that follows them.
LEMMA SidedAfter ==
  ASSUME NEW r, RomCounts(r), NEW s, NEW item, ItemIsLast(r, s, item),
         NEW n \in Int, Code(n), item.line = n,
         NEW lab, Addresses(lab), Given, Sided(r, lab, n), Labels(lab, n)
  PROVE  Sided(s, lab, n + 1)
<1> DEFINE l == Len(r.pending)
           L == Len(s.pending)
<1>1. /\ RomCounts(s) /\ s.pending[L] = item /\ L \in Nat \ {0}
      /\ l < L /\ \A i \in (l + 1) .. (L - 1) : ~Code(s.pending[i].line)
  BY DEF ItemIsLast
<1>2. l \in Nat /\ \A i \in 1 .. l : s.pending[i] = r.pending[i]
  BY RomIs DEF Grows, ItemIsLast
<1> SUFFICES ASSUME NEW k \in Indices("label"), k < n + 1, Region(k) = "image"
             PROVE  /\ lab[lines[k].name] <= L
                    /\ \A i \in 1 .. L : Code(s.pending[i].line) =>
                         (s.pending[i].line > k <=> i > lab[lines[k].name])
  BY DEF Sided
<1> DEFINE a == lab[lines[k].name]
<1>3. k \in Int /\ k # n /\ k < n
  <2>1. k \in Int /\ k # n
    BY LinesAre DEF Indices, Code
  <2> QED BY <2>1
<1>4. a \in Int /\ a <= l
      /\ \A i \in 1 .. l : Code(r.pending[i].line) => (r.pending[i].line > k <=> i > a)
  BY <1>3 DEF Sided, Addresses, Labels
<1>5. \A i \in 1 .. L : i \in 1 .. l \/ ~Code(s.pending[i].line) \/ i = L
  <2> HIDE DEF l, L
  <2> QED BY <1>1, <1>2
<1>6. a <= L /\ L > a
  <2> HIDE DEF l, L, a
  <2> QED BY <1>1, <1>2, <1>4
<1> HIDE DEF l, L, a
<1>7. ASSUME NEW i \in 1 .. L, Code(s.pending[i].line)
      PROVE  s.pending[i].line > k <=> i > a
  <2>1. CASE i \in 1 .. l
    BY <1>2, <1>4, <1>7, <2>1
  <2>2. CASE i = L
    BY <1>1, <1>3, <1>6, <2>2
  <2> QED BY <1>5, <1>7, <2>1, <2>2
<1> QED BY <1>6, <1>7 DEF a

-----------------------------------------------------------------------------
(***************************************************************************)
(* A line of the first pass, of a source within the limits.                *)
(***************************************************************************)
Source ==
  /\ CommIsPacked /\ CodeIsText /\ StartIsFree
  /\ ValuesAreAligned /\ BasesAreAligned /\ NothingRaised

\* Whatever was reported.
Ordered(r, sec, n) ==
  sec = Kept(SectionAt(n)) /\ Waiting(r, n) /\ CodeIn(r, n) /\ InOrder(r)
\* If nothing was.
Arranged(r, m, rel, lab, sec, n) ==
  Laid(r, m, rel, lab, sec, n) /\ AfterAlign(r, m, sec, n) /\ Sided(r, lab, n)

LEMMA WaitingNext ==
  ASSUME Given, NEW r, NEW s, NEW n \in DOMAIN lines, Waiting(r, n),
         \/ s.pending_bytes = <<>>
         \/ lines[n].dir \in {"data", "zero"}
         \/ s.pending_bytes = r.pending_bytes /\ ~Packs(n)
         \/ mode # "ram"
  PROVE  Waiting(s, n + 1)
<1> SUFFICES ASSUME mode = "ram", s.pending_bytes # <<>>
             PROVE  \E b \in Indices("data") \union Indices("zero") :
                      b < n + 1 /\ \A i \in b .. ((n + 1) - 1) : ~Packs(i)
  BY DEF Waiting
<1>1. n \in Nat /\ \A b \in Indices("data") \union Indices("zero") : b \in Nat
  BY LinesAre DEF Indices
<1>2. CASE lines[n].dir \in {"data", "zero"}
  <2>1. n \in Indices("data") \union Indices("zero") /\ ~Packs(n)
    BY <1>2 DEF Indices, Packs
  <2>2. n < n + 1 /\ \A i \in n .. ((n + 1) - 1) : i = n
    BY <1>1
  <2> QED BY <2>1, <2>2
<1>3. CASE s.pending_bytes = r.pending_bytes /\ ~Packs(n)
  <2>1. PICK b \in Indices("data") \union Indices("zero") :
          b < n /\ \A i \in b .. (n - 1) : ~Packs(i)
    BY <1>3 DEF Waiting
  <2>2. b \in Nat /\ b < n + 1 /\ \A i \in b .. ((n + 1) - 1) : i = n \/ i \in b .. (n - 1)
    BY <1>1, <2>1
  <2> QED BY <1>3, <2>1, <2>2
<1> QED BY <1>2, <1>3

\* A line that is not code.
LEMMA OrderedNext ==
  ASSUME Ready, NEW dir, dir # "ins", Reading(dir), Added(dir), Ordered(rom, section, line),
         dir # "section" => section' = section,
         dir = "section" => section' = Kept(lines[line].name),
         \/ rom'.pending_bytes = <<>>
         \/ lines[line].dir \in {"data", "zero"}
         \/ rom'.pending_bytes = rom.pending_bytes /\ ~Packs(line)
         \/ mode # "ram"
  PROVE  Ordered(rom', section', line + 1)
<1>1. line \in DOMAIN lines /\ lines[line].dir = dir /\ line \in Nat /\ Given
  BY ReadNow DEF Ready
<1>2. section' = Kept(SectionAt(line + 1))
  BY <1>1, NextSection DEF Ordered
<1>3. Waiting(rom', line + 1)
  BY <1>1, WaitingNext DEF Ordered
<1>4. CodeIn(rom', line + 1) /\ InOrder(rom')
  <2>1. line + 1 \in Int /\ line \in Int /\ line <= line + 1
    BY <1>1
  <2> QED BY <1>1, <2>1, CodeKept DEF Added, Adding, Ordered
<1> QED BY <1>2, <1>3, <1>4 DEF Ordered

\* A line that is neither code nor a label.
LEMMA SidedNext ==
  ASSUME Ready, NEW dir, dir \notin {"ins", "label"}, Reading(dir), Added(dir),
         Addresses(label_map), Laid(rom, ram, relocs, label_map, section, line),
         Sided(rom, label_map, line), NEW tab,
         \A name \in DOMAIN label_map : tab[name] = label_map[name]
  PROVE  Sided(rom', tab, line + 1)
<1>1. line \in DOMAIN lines /\ lines[line].dir = dir /\ line \in Nat /\ Given
  BY ReadNow DEF Ready
<1> SUFFICES ASSUME NEW k \in Indices("label"), k < line + 1, Region(k) = "image"
             PROVE  /\ tab[lines[k].name] <= Len(rom'.pending)
                    /\ \A i \in 1 .. Len(rom'.pending) : Code(rom'.pending[i].line) =>
                         (rom'.pending[i].line > k <=> i > tab[lines[k].name])
  BY DEF Sided
<1>2. k \in Nat /\ k # line /\ k \in Objects
  BY <1>1, LinesAre DEF Indices, Objects
<1>3. k < line /\ line \in Int
  BY <1>1, <1>2
<1>4. lines[k].name \in DOMAIN label_map
  BY <1>2, <1>3 DEF Laid, Placed, LabelPlaced
<1> QED BY <1>1, <1>3, <1>4, SidedKept DEF Added, Adding

\* Labels are laid out, so they have a name.
LEMMA LaidLabels ==
  ASSUME NEW r, NEW m, NEW rel, NEW lab, NEW sec, NEW n, Laid(r, m, rel, lab, sec, n)
  PROVE  Labels(lab, n)
  BY DEF Laid, Placed, LabelPlaced, Labels, Objects

\* Where a value of u bytes is, after others.
LEMMA Positions ==
  ASSUME NEW u \in Nat \ {0}, NEW k \in Nat \ {0}, NEW f \in Nat, NEW o \in Nat, o % u = 0,
         \/ u \in {1, 4} /\ \E x \in Int : f = 4 * x
         \/ f % k = 0 /\ k % u = 0
  PROVE  (f + o) % u = 0
<1>1. f % u = 0
  <2>1. \A x \in Int : (4 * x) % 4 = 0 /\ (4 * x) % 1 = 0
    OBVIOUS
  <2>2. CASE f % k = 0 /\ k % u = 0
    BY ONLY <2>2, MultipleOfMultiple
  <2>3. CASE u \in {1, 4} /\ \E x \in Int : f = 4 * x
    <3>1. PICK x \in Int : f = 4 * x
      BY <2>3
    <3> QED BY <2>1, <2>3, <3>1
  <2> QED BY <2>2, <2>3
<1>2. o % u = 0
  OBVIOUS
<1> QED BY ONLY <1>1, <1>2, SumOfMultiples

\* A line that emits, where the values before it leave it.
LEMMA EmissionLaid ==
  ASSUME Ready, NEW dir \in Emits, Reading(dir), Added(dir), Source, Addresses(label_map),
         section = Kept(SectionAt(line)),
         Laid(rom, ram, relocs, label_map, section, line),
         Emission(RegionOf(section), LineUnit(RegionOf(section), line))
  PROVE  Laid(rom', ram', relocs', label_map, section, line + 1)
<1> DEFINE g == RegionOf(section)
           e == EndOf(g, rom, ram)
<1>1. line \in DOMAIN lines /\ lines[line].dir = dir /\ line \in Nat /\ Given
  BY ReadNow DEF Ready
<1>2. g \in {"image", "data", "bss"}
  BY RegionNow DEF Ready
<1> PICK u : u = Unit(line)
  OBVIOUS
<1>3. u = LineUnit(g, line) /\ u \in Nat \ {0} /\ (g = "image" => u \in {1, 4})
  <2>1. SectionAt(line) \in {"text", "data", "rodata", "bss"}
    BY <1>1, LinesAre, SectionIs
  <2>2. g = "data" <=> InData(line) /\ dir # "comm"
    BY <1>1, <2>1 DEF RegionOf, InData, Kept, Emits
  <2>3. LineUnit(g, line) = Unit(line)
    BY <1>1, <2>2 DEF LineUnit, Unit, Emits
  <2>4. Unit(line) \in {1, 2, 4}
    BY <1>1, SizeIs
  <2>5. g = "image" => LineUnit(g, line) \in {1, 4}
    BY DEF LineUnit
  <2> QED BY <2>3, <2>4, <2>5
<1>4. ASSUME NEW k, Opened(k, line)
      PROVE  /\ LineAt(Region(k), rom', ram', relocs', From(label_map, k) + Offset(k, line), line)
             /\ (From(label_map, k) + Offset(k, line)) + Size(line) <= EndOf(Region(k), rom', ram')
             /\ Region(k) # "bss" =>
                  (From(label_map, k) + Offset(k, line)) + Size(line) = EndOf(Region(k), rom', ram')
  <2>1. k \in Indices("label") /\ k < line /\ k \in Objects /\ k \in DOMAIN lines /\ k \in Nat
    BY <1>1, <1>4, LinesAre DEF Opened, Indices, Objects
  <2> PICK f : f = From(label_map, k)
    OBVIOUS
  <2> PICK o : o = Offset(k, line)
    OBVIOUS
  <2> PICK n : n = Alignment(k)
    OBVIOUS
  <2>2. Region(k) = g /\ f + o <= e /\ (g # "bss" => f + o = e)
    BY <1>4 DEF Laid, Open
  <2>3. o \in Nat /\ f \in Nat /\ f % n = 0 /\ n \in Nat \ {0}
        /\ lines[k].name \in DOMAIN label_map
    BY <1>1, <2>1, NextOffset, AlignmentIs DEF Laid, Placed, LabelPlaced
  <2>4. Size(line) \in Nat
    BY <1>1, SizeIs
  <2>5. line \in Body(k)
    <3>1. \A i \in (k + 1) .. line : i \in (k + 1) .. (line - 1) \/ i = line
      BY <1>1, <2>1
    <3>2. \A i \in (k + 1) .. line : lines[i].dir \in Emits
      BY <1>1, <1>4, <3>1 DEF Opened
    <3> QED BY <1>1, <2>1, <3>2 DEF Body, Indices
  <2>6. o % u = 0 /\ (InData(k) => n % u = 0)
    BY <2>1, <2>5 DEF Source, ValuesAreAligned
  <2>7. CASE g = "bss"
    <3>1. e + Size(line) <= EndOf(g, rom', ram')
      BY <2>7 DEF Emission
    <3>2. e \in Int /\ EndOf(g, rom', ram') \in Int
      BY <2>7, RamIs DEF EndOf, Ready, Added, Adding
    <3>3. (f + o) + Size(line) <= EndOf(g, rom', ram')
      <4> HIDE DEF e
      <4> QED BY <2>2, <2>3, <2>4, <3>1, <3>2
    <3> QED BY <2>2, <2>7, <3>3 DEF LineAt
  <2>8. CASE g # "bss"
    <3>1. \/ u \in {1, 4} /\ \E x \in Int : f = 4 * x
          \/ f % n = 0 /\ n % u = 0
      <4>1. CASE g = "image"
        BY <1>3, <2>2, <2>3, <4>1 DEF From, Addresses
      <4>2. CASE g = "data"
        <5>1. InData(k)
          BY <2>2, <4>2 DEF Region
        <5> QED BY <2>3, <2>6, <5>1
      <4> QED BY <1>2, <2>8, <4>1, <4>2
    <3>2. e % u = 0
      <4>1. u \in Nat \ {0} /\ n \in Nat \ {0} /\ f \in Nat /\ o \in Nat /\ o % u = 0
        BY <1>3, <2>3, <2>6
      <4> HIDE DEF e
      <4>2. (f + o) % u = 0
        BY ONLY <3>1, <4>1, Positions, ZenonT(30)
      <4> QED BY <2>2, <2>8, <4>2
    <3>3. /\ LineAt(g, rom', ram', relocs', e, line)
          /\ EndOf(g, rom', ram') = e + Size(line)
      BY <1>3, <2>8, <3>2 DEF Emission
    <3>4. (f + o) + Size(line) <= EndOf(g, rom', ram')
      <4> HIDE DEF e
      <4> QED BY <2>2, <2>3, <2>4, <2>8, <3>3
    <3> QED BY <2>2, <2>8, <3>3, <3>4
  <2> QED BY <2>7, <2>8
<1> QED BY <1>1, <1>4, EmissionStep DEF Added

\* What a line does to what has been read, and laid out if nothing is reported.
Continues ==
  /\ Ordered(rom', section', line + 1)
  /\ errors' = 0 /\ Arranged(rom, ram, relocs, label_map, section, line) =>
       Arranged(rom', ram', relocs', label_map', section', line + 1)

LEMMA ModeIs ==
  ASSUME Given
  PROVE  mode \in {"rom", "ram"}
  BY LinesAssumption DEF Given, mode

\* Only rom mode has bytes that do not go to the image.
LEMMA ToImageInRam ==
  ASSUME mode = "ram"
  PROVE  ToImage
  BY DEF ToImage, ToRam

LEMMA NotAligned ==
  ASSUME Ready, NEW dir, dir # "align", Reading(dir), NEW r, NEW m, NEW sec
  PROVE  AfterAlign(r, m, sec, line + 1)
<1>1. line \in Nat /\ lines[line].dir = dir
  BY ReadNow
<1>2. (line + 1) - 1 = line
  BY <1>1
<1> QED BY <1>1, <1>2 DEF AfterAlign

LEMMA OtherContinues ==
  ASSUME Ready, Addresses(label_map), Section \/ Ignored, Ordered(rom, section, line)
  PROVE  Added("none") /\ Continues
<1> PICK dir \in {"section", "ignored"} : Reading(dir) /\ (dir = "section" <=> Section)
  BY DEF Section, Ignored, Reading
<1>1. /\ line \in DOMAIN lines /\ lines[line].dir = dir /\ ThisLine = lines[line]
      /\ line \in Nat /\ Given
  BY ReadNow DEF Ready
<1>2. rom' = rom /\ ram' = ram /\ relocs' = relocs /\ label_map' = label_map
  BY DEF Section, Ignored
<1>3. Added("none") /\ Added(dir)
  BY <1>2, AddedNothing DEF Added
<1>4. /\ dir # "section" => section' = section
      /\ dir = "section" => section' = Kept(lines[line].name)
  BY <1>1 DEF Section, Ignored, Kept
<1>5. ~Packs(line)
  BY <1>1 DEF Packs
<1>6. Ordered(rom', section', line + 1)
  BY <1>2, <1>3, <1>4, <1>5, OrderedNext
<1>7. ASSUME Arranged(rom, ram, relocs, label_map, section, line)
      PROVE  Arranged(rom', ram', relocs', label_map', section', line + 1)
  <2>1. Laid(rom', ram', relocs', label_map', section', line + 1)
    BY <1>1, <1>2, <1>3, <1>7, OtherStep DEF Emits, Added, Arranged
  <2>2. Sided(rom', label_map', line + 1)
    BY <1>2, <1>3, <1>7, SidedNext DEF Arranged
  <2>3. AfterAlign(rom', ram', section', line + 1)
    BY NotAligned
  <2> QED BY <2>1, <2>2, <2>3 DEF Arranged
<1> QED BY <1>3, <1>6, <1>7 DEF Continues

LEMMA AlignContinues ==
  ASSUME Ready, Addresses(label_map), Align, Ordered(rom, section, line)
  PROVE  Added("align") /\ Continues
<1>1. /\ line \in DOMAIN lines /\ lines[line].dir = "align" /\ ThisLine = lines[line]
      /\ line \in Nat /\ Given /\ Reading("align") /\ (line + 1) - 1 = line
  BY ReadNow DEF Ready, Align
<1>2. /\ Added("align") /\ section' = section /\ label_map' = label_map /\ relocs' = relocs
      /\ EndOf(RegionOf(section), rom', ram') % lines[line].bytes = 0
      /\ ToImage => rom'.pending_bytes = <<>>
  BY <1>1, AlignEffect DEF Align
<1>3. Ordered(rom', section', line + 1)
  BY <1>1, <1>2, OrderedNext, ToImageInRam
<1>4. ASSUME Arranged(rom, ram, relocs, label_map, section, line)
      PROVE  Arranged(rom', ram', relocs', label_map', section', line + 1)
  <2>1. Laid(rom', ram', relocs', label_map', section', line + 1)
    BY <1>1, <1>2, <1>4, OtherStep DEF Emits, Added, Arranged
  <2>2. Sided(rom', label_map', line + 1)
    BY <1>1, <1>2, <1>4, SidedNext DEF Arranged
  <2>3. AfterAlign(rom', ram', section', line + 1)
    BY <1>1, <1>2 DEF AfterAlign
  <2> QED BY <2>1, <2>2, <2>3 DEF Arranged
<1> QED BY <1>2, <1>3, <1>4 DEF Continues

\* The lines with values but without code.
LEMMA ValueContinues ==
  ASSUME Ready, Source, Addresses(label_map), Ordered(rom, section, line),
         NEW dir \in {"long", "data", "zero"}, Reading(dir), Added(dir),
         Emission(RegionOf(section), LineUnit(RegionOf(section), line)),
         section' = section, label_map' = label_map,
         dir = "long" /\ ToImage => rom'.pending_bytes = <<>>
  PROVE  Continues
<1>1. /\ line \in DOMAIN lines /\ lines[line].dir = dir /\ line \in Nat /\ Given
      /\ dir \in Emits
  BY ReadNow DEF Ready, Emits
<1>2. Ordered(rom', section', line + 1)
  BY <1>1, OrderedNext, ToImageInRam
<1>3. ASSUME Arranged(rom, ram, relocs, label_map, section, line)
      PROVE  Arranged(rom', ram', relocs', label_map', section', line + 1)
  <2>1. Laid(rom', ram', relocs', label_map', section', line + 1)
    BY <1>1, <1>3, EmissionLaid DEF Arranged, Ordered
  <2>2. Sided(rom', label_map', line + 1)
    BY <1>3, SidedNext DEF Arranged
  <2>3. AfterAlign(rom', ram', section', line + 1)
    BY NotAligned
  <2> QED BY <2>1, <2>2, <2>3 DEF Arranged
<1> QED BY <1>2, <1>3 DEF Continues

LEMMA LongContinues ==
  ASSUME Ready, Source, Addresses(label_map), Long, Ordered(rom, section, line)
  PROVE  Added("long") /\ Continues
<1>1. /\ Added("long") /\ Emission(RegionOf(section), 4) /\ Reading("long")
      /\ ToImage => rom'.pending_bytes = <<>>
  BY LongEffect DEF Long
<1>2. lines[line].dir = "long"
  BY <1>1, ReadNow
<1>3. LineUnit(RegionOf(section), line) = 4
  BY <1>2 DEF LineUnit
<1>4. section' = section /\ label_map' = label_map
  BY DEF Long
<1> QED BY <1>1, <1>3, <1>4, ValueContinues

LEMMA BytesContinue ==
  ASSUME Ready, Source, Addresses(label_map), Data \/ Zero, Ordered(rom, section, line)
  PROVE  Added("none") /\ Continues
<1>1. PICK dir \in {"data", "zero"} : Reading(dir) /\ Added(dir)
        /\ Emission(RegionOf(section), LineUnit(RegionOf(section), line))
  BY DataEffect, ZeroEffect DEF Data, Zero
<1>2. section' = section /\ label_map' = label_map
  BY DEF Data, Zero
<1>3. Added("none")
  BY <1>1 DEF Added
<1> QED BY <1>1, <1>2, <1>3, ValueContinues

LEMMA InstructionContinues ==
  ASSUME Ready, Source, Addresses(label_map), Instruction, Ordered(rom, section, line)
  PROVE  Added("ins") /\ Continues
<1> DEFINE item == Pending(ThisLine.ins, line)
<1>1. /\ Added("ins") /\ Emission("image", 4) /\ rom'.pending_bytes = <<>>
      /\ ItemIsLast(rom, rom', item) /\ Reading("ins")
  BY InstructionEffect DEF Instruction
<1>2. /\ line \in DOMAIN lines /\ lines[line].dir = "ins" /\ line \in Nat /\ Given
      /\ Code(line) /\ line \in Int
  BY <1>1, ReadNow DEF Ready
<1>3. SectionAt(line) = "text"
  BY <1>2 DEF Source, CodeIsText, Indices
<1>4. section = "text" /\ RegionOf(section) = "image" /\ LineUnit("image", line) = 4
  BY <1>2, <1>3 DEF Ordered, Kept, RegionOf, LineUnit
<1>5. section' = section /\ label_map' = label_map
  BY DEF Instruction
<1>6. item.line = line /\ RomCounts(rom)
  BY DEF Pending, Ready
<1> HIDE DEF item
<1>7. CodeIn(rom', line + 1) /\ InOrder(rom')
  BY <1>1, <1>2, <1>4, <1>6, CodeAfter DEF Ordered
<1>8. section' = Kept(SectionAt(line + 1))
  BY <1>2, <1>5, NextSection DEF Ordered
<1>9. Waiting(rom', line + 1)
  BY <1>1 DEF Waiting
<1>10. ASSUME Arranged(rom, ram, relocs, label_map, section, line)
       PROVE  Arranged(rom', ram', relocs', label_map', section', line + 1)
  <2>1. Laid(rom', ram', relocs', label_map', section', line + 1)
    BY <1>1, <1>4, <1>5, <1>10, EmissionLaid DEF Arranged, Ordered, Emits
  <2>2. Sided(rom', label_map', line + 1)
    BY <1>1, <1>2, <1>5, <1>6, <1>10, LaidLabels, SidedAfter DEF Arranged
  <2>3. AfterAlign(rom', ram', section', line + 1)
    BY <1>1, NotAligned
  <2> QED BY <2>1, <2>2, <2>3 DEF Arranged
<1> QED BY <1>1, <1>7, <1>8, <1>9, <1>10 DEF Continues, Ordered

\* A label is after the code before it.
LEMMA SidedLabel ==
  ASSUME Ready, Label, Addresses(label_map), CodeIn(rom', line),
         Laid(rom, ram, relocs, label_map, section, line), section = Kept(SectionAt(line)),
         Sided(rom, label_map, line), ThisLine.name \notin DOMAIN label_map
  PROVE  Sided(rom', label_map', line + 1)
<1>1. /\ line \in DOMAIN lines /\ lines[line].dir = "label" /\ ThisLine = lines[line]
      /\ line \in Nat /\ Given /\ line \in Int
  BY ReadNow DEF Ready, Label
<1>2. /\ Adding(rom, rom', ram, ram', relocs, relocs') /\ RomCounts(rom')
      /\ RawAfter(rom', Len(rom.pending))
  BY LabelEffect DEF Added
<1>3. label_map' = Assigned(label_map, lines[line].name, LabelAddress(rom'))
  BY <1>1 DEF Label
<1>4. /\ label_map'[lines[line].name] = LabelAddress(rom')
      /\ \A name \in DOMAIN label_map : name # lines[line].name =>
           label_map'[name] = label_map[name]
  BY <1>3 DEF Assigned
<1> SUFFICES ASSUME NEW k \in Indices("label"), k < line + 1, Region(k) = "image"
             PROVE  /\ label_map'[lines[k].name] <= Len(rom'.pending)
                    /\ \A i \in 1 .. Len(rom'.pending) : Code(rom'.pending[i].line) =>
                         (rom'.pending[i].line > k <=> i > label_map'[lines[k].name])
  BY DEF Sided
<1>5. k \in Nat /\ k \in Objects
  BY <1>1, LinesAre DEF Indices, Objects
<1>6. CASE k # line
  <2>1. k < line
    BY <1>1, <1>5, <1>6
  <2>2. lines[k].name \in DOMAIN label_map
    BY <1>5, <2>1 DEF Laid, Placed, LabelPlaced
  <2>3. label_map'[lines[k].name] = label_map[lines[k].name]
    BY <1>1, <1>4, <2>2
  <2> QED BY <1>1, <1>2, <2>1, <2>2, <2>3, SidedKept DEF Adding
<1>7. CASE k = line
  <2>1. LabelAddress(rom') = Len(rom'.pending) /\ Len(rom'.pending) \in Nat
    <3>1. RegionOf(section) = "image"
      BY <1>1, <1>7, RegionIs
    <3>2. ~ToRam("data") /\ ~ToRam("bss")
      BY <3>1, RegionNow DEF Ready
    <3> QED BY <1>2, <3>2, RomIs DEF LabelAddress
  <2> PICK L \in Nat : L = Len(rom'.pending)
    BY <2>1
  <2>2. label_map'[lines[k].name] = L
    BY <1>4, <1>7, <2>1
  <2>3. ASSUME NEW i \in 1 .. L, Code(rom'.pending[i].line)
        PROVE  ~ (rom'.pending[i].line > k) /\ ~ (i > L)
    <3>1. rom'.pending[i].line < line /\ rom'.pending[i].line \in Int
      BY <1>1, <2>3, LinesAreNumbered DEF CodeIn, Given
    <3> QED BY <1>1, <1>7, <3>1
  <2> QED BY <2>2, <2>3
<1> QED BY <1>6, <1>7

LEMMA LabelContinues ==
  ASSUME Ready, Source, Addresses(label_map), Label, errors \in Nat, Ordered(rom, section, line)
  PROVE  Added("label") /\ Continues
<1>1. /\ line \in DOMAIN lines /\ lines[line].dir = "label" /\ ThisLine = lines[line]
      /\ line \in Nat /\ Given /\ Reading("label") /\ line \in Int /\ line <= line
  BY ReadNow DEF Ready, Label
<1>2. Added("label") /\ rom'.pending_bytes = <<>> /\ section' = section
  BY LabelEffect DEF Label
<1>3. Ordered(rom', section', line + 1)
  BY <1>1, <1>2, OrderedNext
<1>4. ASSUME errors' = 0, Arranged(rom, ram, relocs, label_map, section, line)
      PROVE  Arranged(rom', ram', relocs', label_map', section', line + 1)
  <2>1. ThisLine.name \notin DOMAIN label_map
    BY <1>4 DEF Label
  <2>2. Laid(rom', ram', relocs', label_map', section', line + 1)
    BY <1>2, <1>4, <2>1, LabelLaid DEF Arranged, Ordered, Source
  <2>3. CodeIn(rom', line)
    BY <1>1, <1>2, CodeKept DEF Added, Adding, Ordered
  <2>4. Sided(rom', label_map', line + 1)
    BY <1>4, <2>1, <2>3, SidedLabel DEF Arranged, Ordered
  <2>5. AfterAlign(rom', ram', section', line + 1)
    BY <1>1, NotAligned
  <2> QED BY <2>2, <2>4, <2>5 DEF Arranged
<1> QED BY <1>2, <1>3, <1>4 DEF Continues

LEMMA CommContinues ==
  ASSUME Ready, Source, Addresses(label_map), Comm, errors \in Nat, Ordered(rom, section, line)
  PROVE  Added("comm") /\ Continues
<1>1. /\ line \in DOMAIN lines /\ lines[line].dir = "comm" /\ ThisLine = lines[line]
      /\ line \in Nat /\ Given /\ Reading("comm") /\ ~Packs(line)
      /\ mode \in {"rom", "ram"}
  BY ReadNow, ModeIs DEF Ready, Comm, Packs
<1>2. section' = section /\ relocs' = relocs
  BY DEF Comm
<1>3. \/ /\ rom' = rom /\ ram' = ram /\ label_map' = label_map /\ errors' = errors + 1
      \/ /\ mode = "rom" /\ CommRom /\ ThisLine.name \notin DOMAIN label_map
      \/ /\ mode = "ram" /\ CommRam /\ ThisLine.name \notin DOMAIN label_map
  BY <1>1 DEF Comm
<1>4. /\ Added("comm")
      /\ mode # "ram" \/ rom'.pending_bytes = <<>> \/ rom'.pending_bytes = rom.pending_bytes
      /\ errors' = 0 /\ Arranged(rom, ram, relocs, label_map, section, line) =>
           /\ Laid(rom', ram', relocs', label_map', section', line + 1)
           /\ \A name \in DOMAIN label_map : label_map'[name] = label_map[name]
  <2>1. CASE rom' = rom /\ ram' = ram /\ label_map' = label_map /\ errors' = errors + 1
    <3>1. Added("comm")
      BY <1>2, <2>1, AddedNothing DEF Added
    <3>2. errors' # 0
      BY <2>1
    <3> QED BY <2>1, <3>1, <3>2
  <2>2. CASE mode = "rom" /\ CommRom /\ ThisLine.name \notin DOMAIN label_map
    <3>1. /\ Added("comm")
          /\ Laid(rom, ram, relocs, label_map, section, line) =>
               Laid(rom', ram', relocs', label_map', section', line + 1)
      BY <1>1, <1>2, <2>2, CommRomLaid
    <3>2. \A name \in DOMAIN label_map : label_map'[name] = label_map[name]
      BY <2>2 DEF CommRom, Assigned
    <3> QED BY <2>2, <3>1, <3>2 DEF Arranged
  <2>3. CASE mode = "ram" /\ CommRam /\ ThisLine.name \notin DOMAIN label_map
    <3>1. rom.pending_bytes = <<>>
      BY <1>1, <2>3, NothingWaits DEF Ordered, Source
    <3>2. /\ Added("comm") /\ rom'.pending_bytes = <<>>
          /\ Laid(rom, ram, relocs, label_map, section, line) =>
               Laid(rom', ram', relocs', label_map', section', line + 1)
      BY <1>1, <1>2, <2>3, <3>1, CommRamLaid DEF Source
    <3>3. \A name \in DOMAIN label_map : label_map'[name] = label_map[name]
      BY <2>3 DEF CommRam, Assigned
    <3> QED BY <3>2, <3>3 DEF Arranged
  <2> QED BY <1>3, <2>1, <2>2, <2>3
<1>5. Ordered(rom', section', line + 1)
  BY <1>1, <1>2, <1>4, OrderedNext
<1>6. ASSUME errors' = 0, Arranged(rom, ram, relocs, label_map, section, line)
      PROVE  Arranged(rom', ram', relocs', label_map', section', line + 1)
  <2>1. Sided(rom', label_map', line + 1)
    BY <1>1, <1>4, <1>6, SidedNext DEF Arranged
  <2>2. AfterAlign(rom', ram', section', line + 1)
    BY <1>1, NotAligned
  <2> QED BY <1>4, <1>6, <2>1, <2>2 DEF Arranged
<1> QED BY <1>4, <1>5, <1>6 DEF Continues

\* Every line that can be read.
LEMMA LineContinues ==
  ASSUME Ready, Source, Addresses(label_map), errors \in Nat, Ordered(rom, section, line),
         FirstPass, ~Raise
  PROVE  Continues
  BY OtherContinues, AlignContinues, LongContinues, BytesContinue, InstructionContinues,
     LabelContinues, CommContinues DEF FirstPass

-----------------------------------------------------------------------------
(***************************************************************************)
(* What the first pass needs at every line, of any source.                 *)
(***************************************************************************)
LEMMA CommRamText ==
  ASSUME Ready, Comm
  PROVE  TextIsIn(rom')
<1>1. /\ Reading("comm") /\ lines[line].dir = "comm" /\ ThisLine = lines[line]
      /\ line \in DOMAIN lines /\ Given
  BY ReadNow DEF Comm, Ready
<1>2. lines[line].size \in Nat /\ lines[line].align \in Nat
  BY <1>1, TypedLine
<1>3. rom' = rom \/ CommRam
  BY DEF Comm, CommRom
<1>4. RomCounts(rom) /\ TextIsIn(rom)
  BY DEF Ready
<1>5. ASSUME NEW r, RomCounts(r), TextIsIn(r), NEW n \in Nat, NEW l
      PROVE  RomCounts(Emitted(r, ZeroWords(n, l))) /\ TextIsIn(Emitted(r, ZeroWords(n, l)))
  <2>1. IsSeq(ZeroWords(n, l)) /\ IsSeq(r.pending) /\ Len(r.pending) \in Nat
    BY ZeroWordsIsSeq, <1>5, RomIs
  <2> DEFINE W == ZeroWords(n, l)
             s == Emitted(r, W)
  <2>2. s.pending = r.pending \o W /\ s.text_start_word = r.text_start_word
    BY DEF Emitted
  <2> HIDE DEF W, s
  <2>3. RomCounts(s)
    BY <1>5, <2>1, EmittedCounts DEF s, W
  <2>4. Len(W) \in Nat /\ Len(s.pending) = Len(r.pending) + Len(W)
    BY <2>1, <2>2, JoinedSeq, SeqIs DEF W
  <2>5. TextIsIn(s)
    <3> PICK a \in Nat : a = Len(r.pending)
      BY <2>1
    <3> PICK b \in Nat : b = Len(W)
      BY <2>4
    <3>1. r.text_start_word = None \/ r.text_start_word \in 0 .. a
      BY <1>5 DEF TextIsIn
    <3>2. r.text_start_word = None \/ r.text_start_word \in 0 .. (a + b)
      BY <3>1
    <3> QED BY <2>2, <2>4, <3>2 DEF TextIsIn
  <2> QED BY <2>3, <2>5 DEF s, W
<1>6. CASE CommRam
  <2> DEFINE k == lines[line].align
             n == IF k > 4 THEN Pad(rom.rom_address, k \div 4) ELSE 0
             aligned == AlignedWords(rom, k, line)
  <2>1. n \in Nat
    <3>1. rom.rom_address \in Nat
      BY <1>4, RomIs
    <3>2. k > 4 => k \div 4 \in Nat \ {0}
      BY <1>2
    <3> QED BY <3>1, <3>2, PadIsNat
  <2>2. aligned = Emitted(rom, ZeroWords(n, line))
    BY DEF AlignedWords
  <2> HIDE DEF n, aligned
  <2>3. RomCounts(aligned) /\ TextIsIn(aligned)
    BY <1>4, <1>5, <2>1, <2>2
  <2>4. (lines[line].size + 3) \div 4 \in Nat
    BY <1>2
  <2>5. rom' = Emitted(aligned, ZeroWords((lines[line].size + 3) \div 4, line))
    BY <1>1, <1>6 DEF CommRam, aligned
  <2> QED BY <1>5, <2>3, <2>4, <2>5
<1> QED BY <1>3, <1>4, <1>6

\* What a line needs, it leaves to the next.
LEMMA LineReady ==
  ASSUME Ready, FirstPass, ~Raise, FirstPassInv', line' \in 1 .. (Len(lines)' + 1),
         mode # "rom" => DOMAIN relocs = {}
  PROVE  Ready' /\ (mode' # "rom" => DOMAIN relocs' = {})
<1>1. PICK dir : Reading(dir)
  BY DEF FirstPass, Section, Comm, Align, Long, Data, Zero, Label, Ignored, Instruction
<1>2. /\ batch' = batch /\ job' = job /\ lines' = lines /\ mode' = mode
      /\ phase = "first" /\ phase' = "first"
  BY <1>1 DEF Reading, lines, mode
<1>3. Given' /\ RomCounts(rom') /\ RamCounts(ram')
  BY <1>2 DEF FirstPassInv, Given
<1>4. section' \in {"text", "data", "bss"}
  <2>1. CASE Section
    <3>1. Reading("section")
      BY <2>1 DEF Section
    <3>2. lines[line].name \in {"text", "data", "rodata", "bss"} /\ ThisLine = lines[line]
      BY <3>1, ReadNow, TypedLine DEF Ready
    <3> QED BY <2>1, <3>2 DEF Section
  <2>2. CASE ~Section
    <3>1. section' = section
      BY <2>2 DEF FirstPass, Comm, Align, Long, Data, Zero, Label, Ignored, Instruction
    <3> QED BY <3>1 DEF Ready
  <2> QED BY <2>1, <2>2
<1>5. TextIsIn(rom') /\ RelocsAre(ram', relocs')
  <2>1. CASE Section \/ Ignored
    <3>1. rom' = rom /\ ram' = ram /\ relocs' = relocs
      BY <2>1 DEF Section, Ignored
    <3> QED BY <3>1 DEF Ready
  <2>2. CASE Comm
    <3>1. relocs' = relocs /\ TextIsIn(rom')
      BY <2>2, CommRamText DEF Comm
    <3>2. RelocsAre(ram', relocs)
      <4>1. CASE ram' = ram
        BY <4>1 DEF Ready
      <4>2. CASE ram' # ram
        <5>1. CommRom /\ Reading("comm") /\ mode = "rom"
          BY <2>2, <4>2 DEF Comm, CommRam
        <5>2. Added("comm")
          BY <2>2, <5>1, CommRomLaid DEF Comm
        <5> QED BY <3>1, <5>2 DEF Added
      <4> QED BY <4>1, <4>2
    <3> QED BY <3>1, <3>2
  <2>3. CASE Align \/ Long \/ Data \/ Zero \/ Label \/ Instruction
    BY <2>3, AlignEffect, LongEffect, DataEffect, ZeroEffect, LabelEffect, InstructionEffect
       DEF Added
  <2> QED BY <2>1, <2>2, <2>3 DEF FirstPass
<1>6. mode # "rom" => relocs' = relocs
  <2>1. relocs' # relocs => Long /\ ToRam("data")
    BY DEF FirstPass, Section, Comm, Align, Long, Data, Zero, Label, Ignored, Instruction
  <2> QED BY <2>1 DEF ToRam
<1> QED BY <1>2, <1>3, <1>4, <1>5, <1>6 DEF Ready

-----------------------------------------------------------------------------
(***************************************************************************)
(* While the same source is assembled, what is said of it is the same.     *)
(***************************************************************************)
SameJob == batch' = batch /\ job' = job

LEMMA SameSource ==
  ASSUME SameJob
  PROVE  /\ lines' = lines /\ mode' = mode
         /\ \A dir : Indices(dir)' = Indices(dir)
         /\ Objects' = Objects
         /\ \A k : SectionAt(k)' = SectionAt(k)
         /\ \A k : Size(k)' = Size(k)
         /\ SizeUpTo' = SizeUpTo
         /\ \A k : Body(k)' = Body(k)
         /\ \A k, b : Offset(k, b)' = Offset(k, b)
         /\ \A k : Code(k)' <=> Code(k)
         /\ \A k : Packs(k)' <=> Packs(k)
<1>1. lines' = lines /\ mode' = mode
  BY DEF lines, mode, SameJob
<1>2. \A dir : Indices(dir)' = Indices(dir)
  BY <1>1 DEF Indices
<1>3. Objects' = Objects
  BY <1>2 DEF Objects
<1>4. \A k : SectionAt(k)' = SectionAt(k)
  BY <1>1 DEF SectionAt, Indices
<1>5. \A k : Size(k)' = Size(k)
  BY <1>1 DEF Size
<1>6. SizeUpTo' = SizeUpTo
  BY <1>1, <1>5 DEF SizeUpTo
<1>7. \A k : Body(k)' = Body(k)
  BY <1>1 DEF Body
<1>8. \A k, b : Offset(k, b)' = Offset(k, b)
  BY <1>6 DEF Offset
<1>9. \A k : (Code(k)' <=> Code(k)) /\ (Packs(k)' <=> Packs(k))
  BY <1>1 DEF Code, Packs
<1> QED BY <1>1, <1>2, <1>3, <1>4, <1>5, <1>6, <1>7, <1>8, <1>9

LEMMA SameRegions ==
  ASSUME SameJob
  PROVE  /\ \A k : InBss(k)' <=> InBss(k)
         /\ \A k : InData(k)' <=> InData(k)
         /\ \A k : Region(k)' = Region(k)
         /\ \A k : Alignment(k)' = Alignment(k)
         /\ \A k : Unit(k)' = Unit(k)
         /\ \A k : Refers(k)' <=> Refers(k)
         /\ \A k : Literal(k)' = Literal(k)
         /\ \A s : RegionOf(s)' = RegionOf(s)
         /\ \A lab, k : From(lab, k)' = From(lab, k)
<1>1. /\ lines' = lines /\ mode' = mode
      /\ \A k : SectionAt(k)' = SectionAt(k)
      /\ \A k : Size(k)' = Size(k)
  BY SameSource
<1>2. \A k : (InBss(k)' <=> InBss(k)) /\ (InData(k)' <=> InData(k))
  BY <1>1 DEF InBss, InData
<1>3. \A k : Region(k)' = Region(k)
  BY <1>2 DEF Region
<1>4. \A k : Alignment(k)' = Alignment(k)
  BY <1>1 DEF Alignment
<1>5. \A k : Unit(k)' = Unit(k)
  BY <1>1, <1>2 DEF Unit
<1>6. \A k : Refers(k)' <=> Refers(k)
  BY <1>1 DEF Refers
<1>7. \A k : Literal(k)' = Literal(k)
  BY <1>1 DEF Literal
<1>8. \A s : RegionOf(s)' = RegionOf(s)
  BY <1>1 DEF RegionOf
<1>9. \A lab, k : From(lab, k)' = From(lab, k)
  BY <1>1, <1>3 DEF From
<1> QED BY <1>2, <1>3, <1>4, <1>5, <1>6, <1>7, <1>8, <1>9

LEMMA SameLayout ==
  ASSUME SameJob
  PROVE  /\ \A r, m, rel, lab, n : Placed(r, m, rel, lab, n)' <=> Placed(r, m, rel, lab, n)
         /\ \A lab, n : Apart(lab, n)' <=> Apart(lab, n)
         /\ \A r, m, lab, sec, n : Open(r, m, lab, sec, n)' <=> Open(r, m, lab, sec, n)
         /\ \A r, n : CodeIn(r, n)' <=> CodeIn(r, n)
         /\ \A r : InOrder(r)' <=> InOrder(r)
         /\ \A r, lab, n : Sided(r, lab, n)' <=> Sided(r, lab, n)
<1>1. /\ lines' = lines /\ Objects' = Objects
      /\ \A dir : Indices(dir)' = Indices(dir)
      /\ \A k : Size(k)' = Size(k)
      /\ \A k : Body(k)' = Body(k)
      /\ \A k, b : Offset(k, b)' = Offset(k, b)
      /\ \A k : Code(k)' <=> Code(k)
  BY SameSource
<1>2. /\ \A k : Region(k)' = Region(k)
      /\ \A k : Alignment(k)' = Alignment(k)
      /\ \A k : Refers(k)' <=> Refers(k)
      /\ \A k : Literal(k)' = Literal(k)
      /\ \A s : RegionOf(s)' = RegionOf(s)
      /\ \A lab, k : From(lab, k)' = From(lab, k)
  BY SameRegions
<1>3. \A r, p, b : InImage(r, p, b)' <=> InImage(r, p, b)
  BY <1>1, <1>2 DEF InImage
<1>4. \A m, rel, p, b : InRamData(m, rel, p, b)' <=> InRamData(m, rel, p, b)
  BY <1>1, <1>2 DEF InRamData
<1>5. \A g, r, m, rel, p, b : LineAt(g, r, m, rel, p, b)' <=> LineAt(g, r, m, rel, p, b)
  BY <1>3, <1>4 DEF LineAt
<1>6. \A r, m, rel, lab, n, k : LinesPlaced(r, m, rel, lab, n, k)' <=> LinesPlaced(r, m, rel, lab, n, k)
  BY <1>1, <1>2, <1>5 DEF LinesPlaced
<1>7. \A r, m, lab, k : LabelPlaced(r, m, lab, k)' <=> LabelPlaced(r, m, lab, k)
  BY <1>1, <1>2 DEF LabelPlaced
<1>8. \A r, m, rel, lab, n : Placed(r, m, rel, lab, n)' <=> Placed(r, m, rel, lab, n)
  BY <1>1, <1>6, <1>7 DEF Placed
<1>9. \A lab, n : Apart(lab, n)' <=> Apart(lab, n)
  BY <1>1, <1>2 DEF Apart
<1>10. \A k, n : Opened(k, n)' <=> Opened(k, n)
  BY <1>1 DEF Opened
<1>11. \A r, m, lab, sec, n : Open(r, m, lab, sec, n)' <=> Open(r, m, lab, sec, n)
  BY <1>1, <1>2, <1>10 DEF Open
<1>12. \A r, n : CodeIn(r, n)' <=> CodeIn(r, n)
  BY <1>1 DEF CodeIn
<1>13. \A r : InOrder(r)' <=> InOrder(r)
  BY <1>1 DEF InOrder
<1>14. \A r, lab, n : Sided(r, lab, n)' <=> Sided(r, lab, n)
  BY <1>1, <1>2 DEF Sided
<1> QED BY <1>8, <1>9, <1>11, <1>12, <1>13, <1>14

LEMMA SameReading ==
  ASSUME SameJob
  PROVE  /\ \A r, sec, n : Ordered(r, sec, n)' <=> Ordered(r, sec, n)
         /\ \A r, m, rel, lab, sec, n :
              Arranged(r, m, rel, lab, sec, n)' <=> Arranged(r, m, rel, lab, sec, n)
         /\ Source' <=> Source
         /\ NothingRaised' <=> NothingRaised
<1>1. /\ lines' = lines /\ mode' = mode /\ Objects' = Objects
      /\ \A dir : Indices(dir)' = Indices(dir)
      /\ \A k : SectionAt(k)' = SectionAt(k)
      /\ \A k : Packs(k)' <=> Packs(k)
      /\ \A k : Body(k)' = Body(k)
      /\ \A k, b : Offset(k, b)' = Offset(k, b)
  BY SameSource
<1>2. /\ \A k : InBss(k)' <=> InBss(k)
      /\ \A k : InData(k)' <=> InData(k)
      /\ \A k : Alignment(k)' = Alignment(k)
      /\ \A k : Unit(k)' = Unit(k)
      /\ \A s : RegionOf(s)' = RegionOf(s)
  BY SameRegions
<1>3. \A r, n : Waiting(r, n)' <=> Waiting(r, n)
  BY <1>1 DEF Waiting
<1>4. \A r, sec, n : Ordered(r, sec, n)' <=> Ordered(r, sec, n)
  BY <1>1, <1>3, SameLayout DEF Ordered
<1>5. \A r, m, sec, n : AfterAlign(r, m, sec, n)' <=> AfterAlign(r, m, sec, n)
  BY <1>1, <1>2 DEF AfterAlign
<1>6. \A r, m, rel, lab, sec, n :
        Arranged(r, m, rel, lab, sec, n)' <=> Arranged(r, m, rel, lab, sec, n)
  BY <1>5, SameLayout DEF Arranged, Laid
<1>7. NothingRaised' <=> NothingRaised
  BY DEF NothingRaised, SameJob
<1>8. CommIsPacked' <=> CommIsPacked
  BY <1>1 DEF CommIsPacked
<1>9. (CodeIsText' <=> CodeIsText) /\ (StartIsFree' <=> StartIsFree)
  BY <1>1 DEF CodeIsText, StartIsFree
<1>10. ValuesAreAligned' <=> ValuesAreAligned
  BY <1>1, <1>2 DEF ValuesAreAligned
<1>11. BasesAreAligned' <=> BasesAreAligned
  BY <1>1, <1>2 DEF BasesAreAligned
<1> QED BY <1>4, <1>6, <1>7, <1>8, <1>9, <1>10, <1>11 DEF Source

-----------------------------------------------------------------------------
(***************************************************************************)
(* The end of the first pass: the lines are laid out in r, with lab for    *)
(* the labels and rel for the relocations, and .start comes after them.    *)
(***************************************************************************)
LastLine == Len(lines) + 1

Final(r, rel, lab) ==
  /\ RomCounts(r) /\ r.pending_bytes = <<>> /\ RelocsAre(ram, rel) /\ Addresses(lab)
  /\ Placed(r, ram, rel, lab, LastLine) /\ Apart(lab, LastLine)
  /\ CodeIn(r, LastLine) /\ InOrder(r) /\ Sided(r, lab, LastLine)

\* The words of .data, with the relocations rel.
DataItems(rel) ==
  [w \in DOMAIN Packed(ram.rom_data_bytes) |->
     [Packed(ram.rom_data_bytes)[w] EXCEPT
        !.expr = IF 4 * (w - 1) \in DOMAIN rel THEN rel[4 * (w - 1)] ELSE NoExpr]]

StartCode(r, rel) ==
  CopyData(Len(r.pending), Len(DataItems(rel))) \o JumpToMain(label_map, r.text_start_word)

Finished(r, rel, lab) ==
  /\ Final(r, rel, lab) /\ rom.text_start_word = r.text_start_word
  /\ NeedsStart =>
       /\ rom.pending = (r.pending \o DataItems(rel)) \o StartCode(r, rel)
       /\ label_map = Assigned(FixedUp(lab), ".start", Len(r.pending) + Len(DataItems(rel)))
  /\ ~NeedsStart => rom.pending = r.pending /\ label_map = FixedUp(lab)

LEMMA JoinAssociates ==
  ASSUME NEW a, IsSeq(a), NEW b, IsSeq(b), NEW c, IsSeq(c)
  PROVE  (a \o b) \o c = a \o (b \o c)
<1>1. PICK A : a \in Seq(A)
  BY DEF IsSeq
<1>2. PICK B : b \in Seq(B)
  BY DEF IsSeq
<1>3. PICK C : c \in Seq(C)
  BY DEF IsSeq
<1> QED BY <1>1, <1>2, <1>3

LEMMA FlushFinal ==
  ASSUME Ready, line = LastLine, Addresses(label_map), Ordered(rom, section, line),
         Arranged(rom, ram, relocs, label_map, section, line)
  PROVE  Final(flush_pending_bytes(rom), relocs, label_map)
<1> DEFINE r == flush_pending_bytes(rom)
<1>1. /\ RomCounts(rom) /\ RamCounts(ram) /\ Given /\ RelocsAre(ram, relocs) /\ TextIsIn(rom)
      /\ line \in Int /\ line <= line
  BY DEF Ready
<1>2. /\ RomCounts(r) /\ Grows(rom, r) /\ r.pending_bytes = <<>>
      /\ RawAfter(r, Len(rom.pending))
  BY <1>1, FlushGrows
<1>3. Adding(rom, r, ram, ram, relocs, relocs)
  BY <1>1, <1>2, GrowsRamNot, RelocsKept DEF Adding
<1> HIDE DEF r
<1>4. CodeIn(r, line) /\ InOrder(r)
  BY <1>1, <1>2, CodeKept DEF Ordered
<1>5. Sided(r, label_map, line)
  <2> SUFFICES ASSUME NEW k \in Indices("label"), k < line, Region(k) = "image"
               PROVE  /\ label_map[lines[k].name] <= Len(r.pending)
                      /\ \A i \in 1 .. Len(r.pending) : Code(r.pending[i].line) =>
                           (r.pending[i].line > k <=> i > label_map[lines[k].name])
    BY DEF Sided
  <2>1. lines[k].name \in DOMAIN label_map
    BY LaidLabels DEF Labels, Arranged
  <2> QED BY <1>1, <1>2, <2>1, SidedKept DEF Arranged
<1>6. Placed(r, ram, relocs, label_map, line)
  <2> SUFFICES ASSUME NEW k \in Objects, k < line
               PROVE  /\ LabelPlaced(r, ram, label_map, k)
                      /\ LinesPlaced(r, ram, relocs, label_map, line, k)
    BY DEF Placed
  <2> QED BY <1>1, <1>3, PlacedStays DEF Arranged, Laid
<1>7. Apart(label_map, line)
  BY DEF Arranged, Laid
<1> QED BY <1>1, <1>2, <1>4, <1>5, <1>6, <1>7 DEF Final, r

LEMMA EndFinishes ==
  ASSUME Ready, EndFirstPass, Addresses(label_map), Ordered(rom, section, line),
         errors \in Nat, errors' = 0,
         errors = 0 => Arranged(rom, ram, relocs, label_map, section, line)
  PROVE  \E r, rel, lab : Finished(r, rel, lab)'
<1> PICK r : r = flush_pending_bytes(rom)
  OBVIOUS
<1> PICK rel : rel = relocs
  OBVIOUS
<1> PICK lab : lab = label_map
  OBVIOUS
<1> SUFFICES Finished(r, rel, lab)'
  OBVIOUS
<1>1. /\ line = LastLine /\ Given /\ RomCounts(rom) /\ RamCounts(ram)
      /\ batch' = batch /\ job' = job /\ ram' = ram /\ SameJob
      /\ lines' = lines /\ mode' = mode /\ LastLine' = LastLine
  BY LinesAre DEF Ready, EndFirstPass, LastLine, lines, mode, SameJob
<1>2. errors = 0
  <2>1. errors' = errors \/ errors' = errors + 1
    BY DEF EndFirstPass, InjectStart
  <2> QED BY <2>1
<1>3. Final(r, rel, lab)
  BY <1>1, <1>2, FlushFinal
<1>4. RomCounts(r) /\ r.rom_address = Len(r.pending) /\ IsSeq(r.pending)
  BY <1>1, FlushCounts, RomIs
<1>5. Final(r, rel, lab)'
  BY <1>1, <1>3, SameLayout DEF Final, RelocsAre, Addresses, RomCounts
<1>6. DataWords = DataItems(rel) /\ DataItems(rel)' = DataItems(rel)
  BY <1>1 DEF DataWords, DataItems, Reloc
<1>7. (NeedsStart' <=> NeedsStart) /\ FixedUp(lab)' = FixedUp(lab)
  BY <1>1 DEF NeedsStart, FixedUp
<1>8. CASE ~NeedsStart
  <2>1. rom' = r /\ label_map' = FixedUp(lab)
    BY <1>8 DEF EndFirstPass
  <2> QED BY <1>5, <1>7, <1>8, <2>1 DEF Finished
<1>9. CASE NeedsStart
  <2> DEFINE withData == Emitted(r, DataItems(rel))
             copy == CopyData(Len(r.pending), Len(DataItems(rel)))
             jump == JumpToMain(label_map', r.text_start_word)
  <2>1. /\ InjectStart(r, FixedUp(lab))
    BY <1>9 DEF EndFirstPass
  <2>2. IsSeq(DataItems(rel)) /\ IsSeq(copy) /\ IsSeq(jump)
    <3>1. IsSeq(DataItems(rel))
      BY <1>1, <1>6, DataWordsInjected DEF Injected
    <3>2. Len(DataItems(rel)) \in Nat
      BY <3>1, SeqIs
    <3> QED BY <3>1, <3>2, CopyInjected, JumpInjected DEF Injected
  <2>3. RomCounts(withData) /\ withData.rom_address = Len(r.pending) + Len(DataItems(rel))
        /\ withData.pending = r.pending \o DataItems(rel)
        /\ withData.text_start_word = r.text_start_word
    BY <1>4, <2>2, EmittedCounts DEF Emitted
  <2>4. label_map' = Assigned(FixedUp(lab), ".start", Len(r.pending) + Len(DataItems(rel)))
    BY <1>6, <2>1, <2>3 DEF InjectStart
  <2>5. rom' = [withData EXCEPT !.pending = withData.pending \o copy \o jump]
    BY <1>4, <1>6, <2>1, <2>3, <2>4 DEF InjectStart
  <2> HIDE DEF copy, jump
  <2>6. rom'.pending = withData.pending \o copy \o jump
        /\ rom'.text_start_word = r.text_start_word
    BY <2>3, <2>5 DEF RomCounts, RomType, Emitted
  <2>7. (r.pending \o DataItems(rel)) \o copy \o jump
          = (r.pending \o DataItems(rel)) \o (copy \o jump)
    <3> PICK d : d = r.pending \o DataItems(rel)
      OBVIOUS
    <3>1. IsSeq(d) /\ IsSeq(copy) /\ IsSeq(jump)
      BY <1>4, <2>2, JoinedSeq
    <3>2. (d \o copy) \o jump = d \o (copy \o jump)
      BY ONLY <3>1, JoinAssociates
    <3> QED BY <3>2
  <2>8. StartCode(r, rel)' = copy \o jump
    BY <1>6 DEF StartCode, copy, jump
  <2> QED BY <1>5, <1>6, <1>7, <1>9, <2>3, <2>4, <2>6, <2>7, <2>8 DEF Finished
<1> QED BY <1>8, <1>9

-----------------------------------------------------------------------------
(***************************************************************************)
(* Where every line of a source is when the first pass has ended.          *)
(***************************************************************************)
Beginning ==
  /\ Given /\ phase = "first" /\ line = 1 /\ section = "text"
  /\ rom = EmptyRom /\ ram = EmptyRam /\ DOMAIN relocs = {}

LEMMA BeginningIs ==
  Beginning => /\ Ready /\ Ordered(rom, section, line)
               /\ Arranged(rom, ram, relocs, label_map, section, line)
<1> SUFFICES ASSUME Beginning
             PROVE  /\ Ready /\ Ordered(rom, section, line)
                    /\ Arranged(rom, ram, relocs, label_map, section, line)
  OBVIOUS
<1>1. /\ Given /\ phase = "first" /\ line = 1 /\ section = "text"
      /\ rom = EmptyRom /\ ram = EmptyRam /\ DOMAIN relocs = {}
  BY DEF Beginning
<1>2. \A k : k \in DOMAIN lines => k \in Nat /\ ~ (k < 1)
  BY <1>1, LinesAre
<1>3. Len(lines) \in Nat
  BY <1>1, LinesAre
<1>4. Ready
  <2>1. TextIsIn(rom)
    BY <1>1 DEF TextIsIn, EmptyRom, None
  <2>2. line \in 1 .. (Len(lines) + 1)
    BY <1>1, <1>3
  <2> QED BY <1>1, <2>1, <2>2, EmptyCounts DEF Ready, RelocsAre
<1>5. Ordered(rom, section, line)
  <2>1. section = Kept(SectionAt(line))
    BY <1>1, FirstSection DEF Kept
  <2>2. rom.pending = <<>> /\ rom.pending_bytes = <<>> /\ Len(rom.pending) = 0
    BY <1>1 DEF EmptyRom
  <2> QED BY <2>1, <2>2 DEF Ordered, Waiting, CodeIn, InOrder
<1>6. Arranged(rom, ram, relocs, label_map, section, line)
  <2>1. \A k \in Objects \union Indices("label") : ~ (k < 1)
    BY <1>2 DEF Objects, Indices
  <2>2. Placed(rom, ram, relocs, label_map, 1) /\ Apart(label_map, 1) /\ Sided(rom, label_map, 1)
    BY <2>1 DEF Placed, Apart, Sided
  <2>3. Open(rom, ram, label_map, section, 1)
    BY <2>1 DEF Open, Opened
  <2>4. AfterAlign(rom, ram, section, 1)
    BY DEF AfterAlign
  <2> QED BY <1>1, <2>2, <2>3, <2>4 DEF Arranged, Laid
<1> QED BY <1>4, <1>5, <1>6

LEMMA BeginningNext ==
  (Beginning => /\ Ready /\ Ordered(rom, section, line)
                /\ Arranged(rom, ram, relocs, label_map, section, line))'
BY BeginningIs, PTL


Later == {"second", "assembled", "running"}

\* The words of the second pass.
ImageIs ==
  /\ \A i \in DOMAIN rom.pending : Resolvable(rom.pending[i])
  /\ image = [i \in DOMAIN rom.pending |->
                [line |-> rom.pending[i].line, word |-> WordOf(rom.pending[i])]]

RomFileIs ==
  /\ errors = 0 /\ image # <<>>
  /\ rom_file = [words |-> [i \in DOMAIN image |-> image[i].word], target |-> ResetTarget]

FirstPassIs ==
  /\ NothingRaised => Ready /\ (mode # "rom" => DOMAIN relocs = {})
  /\ Source => /\ Ordered(rom, section, line)
               /\ errors = 0 => Arranged(rom, ram, relocs, label_map, section, line)
LaterIs ==
  /\ RamCounts(ram)
  /\ NothingRaised => DOMAIN relocs = {}
  /\ Source /\ errors = 0 => \E r, rel, lab : Finished(r, rel, lab)

AssemblyInv ==
  /\ CodeInv /\ job \in Nat \ {0}
  /\ phase = "first" => FirstPassIs
  /\ phase = "raised" => \E k \in DOMAIN lines : lines[k].dir = "raise"
  /\ phase \in Later => LaterIs
  /\ phase \in {"assembled", "running"} /\ errors = 0 => ImageIs
  /\ phase = "running" => RomFileIs
  /\ phase \in Later \union {"first", "raised"}

LEMMA InitAssembly ==
  ASSUME BootInit
  PROVE  AssemblyInv
<1>1. /\ CodeInv /\ job = 1 /\ phase = "first" /\ line = 1 /\ section = "text"
      /\ rom = EmptyRom /\ ram = EmptyRam /\ relocs = <<>>
  BY InitCode DEF BootInit, Init
<1>2. DOMAIN relocs = {}
  BY <1>1
<1>3. Beginning
  BY <1>1, <1>2 DEF Beginning, Given, CodeInv, TraceInv, Numbered
<1> QED BY <1>1, <1>2, <1>3, BeginningIs DEF AssemblyInv, FirstPassIs, Later

LEMMA RaiseAssembly ==
  ASSUME AssemblyInv, Raise, CodeInv'
  PROVE  AssemblyInv'
<1>1. /\ phase' = "raised" /\ job' = job /\ lines' = lines
      /\ line \in DOMAIN lines /\ lines[line].dir = "raise"
  BY DEF Raise, lines, ThisLine
<1> QED BY <1>1 DEF AssemblyInv, Later

LEMMA LineAssembly ==
  ASSUME AssemblyInv, FirstPass, ~Raise, CodeInv'
  PROVE  AssemblyInv'
<1>1. PICK dir : Reading(dir)
  BY DEF FirstPass, Section, Comm, Align, Long, Data, Zero, Label, Ignored, Instruction
<1>2. /\ phase = "first" /\ phase' = "first" /\ SameJob /\ job' = job /\ line' = line + 1
      /\ mode' = mode
  BY <1>1 DEF Reading, SameJob, mode
<1>3. FirstPassIs /\ Addresses(label_map) /\ errors \in Nat
  BY <1>2 DEF AssemblyInv, CodeInv
<1>4. FirstPassInv' /\ line' \in 1 .. (Len(lines)' + 1) /\ errors' \in Nat
  BY DEF CodeInv, TraceInv, Numbered
<1>5. NothingRaised' => Ready' /\ (mode' # "rom" => DOMAIN relocs' = {})
  BY <1>2, <1>3, <1>4, LineReady, SameReading DEF FirstPassIs
<1>6. ASSUME Source'
      PROVE  /\ Ordered(rom, section, line)'
             /\ errors' = 0 => Arranged(rom, ram, relocs, label_map, section, line)'
  <2>1. Source /\ NothingRaised
    BY <1>2, <1>6, SameReading DEF Source
  <2>2. Continues
    BY <1>3, <2>1, LineContinues DEF FirstPassIs
  <2>3. errors' = 0 => errors = 0
    <3>1. errors' = errors \/ errors' = errors + 1
      BY DEF FirstPass, Section, Comm, Align, Long, Data, Zero, Label, Ignored, Instruction
    <3> QED BY <1>3, <3>1
  <2>4. /\ Ordered(rom', section', line + 1)
        /\ errors' = 0 => Arranged(rom', ram', relocs', label_map', section', line + 1)
    BY <1>3, <2>1, <2>2, <2>3 DEF Continues, FirstPassIs
  <2> QED BY <1>2, <2>4, SameReading
<1> QED BY <1>2, <1>5, <1>6 DEF AssemblyInv, FirstPassIs, Later

LEMMA EndAssembly ==
  ASSUME AssemblyInv, EndFirstPass, CodeInv'
  PROVE  AssemblyInv'
<1>1. /\ phase = "first" /\ phase' = "second" /\ SameJob /\ job' = job
      /\ mode' = mode /\ lines' = lines /\ ram' = ram /\ line = LastLine
      /\ line \notin DOMAIN lines
  <2>1. line \in 1 .. (Len(lines) + 1) /\ Given
    BY DEF AssemblyInv, CodeInv, TraceInv, Numbered, Given
  <2> QED BY <2>1, LinesAre DEF EndFirstPass, SameJob, mode, lines, LastLine
<1>2. FirstPassIs /\ Addresses(label_map) /\ errors \in Nat
  BY <1>1 DEF AssemblyInv, CodeInv
<1>3. RamCounts(ram')
  BY <1>1, Counted DEF AssemblyInv, CodeInv, TraceInv
<1>4. ASSUME NothingRaised PROVE DOMAIN relocs' = {}
  <2>1. Ready /\ (mode # "rom" => DOMAIN relocs = {})
    BY <1>2, <1>4 DEF FirstPassIs
  <2>2. CASE NeedsStart
    BY <2>2 DEF EndFirstPass, InjectStart
  <2>3. CASE ~NeedsStart
    <3>1. relocs' = relocs
      BY <2>3 DEF EndFirstPass
    <3>2. CASE mode = "rom"
      <4>1. ram.rom_data_bytes = <<>>
        BY <2>3, <3>2 DEF NeedsStart
      <4>2. Len(ram.rom_data_bytes) = 0
        BY <4>1
      <4>3. ASSUME NEW q \in DOMAIN relocs PROVE FALSE
        <5>1. q \in Nat /\ q + 4 <= 0
          BY <2>1, <4>2, <4>3 DEF Ready, RelocsAre
        <5> QED BY <5>1
      <4> QED BY <3>1, <4>3
    <3> QED BY <2>1, <3>1, <3>2
  <2> QED BY <2>2, <2>3
<1>5. ASSUME Source, errors' = 0 PROVE \E r, rel, lab : Finished(r, rel, lab)'
  <2>1. /\ Ready /\ Ordered(rom, section, line)
        /\ errors = 0 => Arranged(rom, ram, relocs, label_map, section, line)
    BY <1>2, <1>5 DEF FirstPassIs, Source
  <2> QED BY <1>2, <1>5, <2>1, EndFinishes
<1>6. (Source' <=> Source) /\ (NothingRaised' <=> NothingRaised)
  BY <1>1, SameReading
<1>7. LaterIs'
  BY <1>3, <1>4, <1>5, <1>6 DEF LaterIs
<1> QED BY <1>1, <1>7 DEF AssemblyInv, Later

-----------------------------------------------------------------------------
\* What the first pass leaves, nothing changes.
LEMMA SameFinished ==
  ASSUME SameJob, UNCHANGED <<rom, ram, label_map>>
  PROVE  \A r, rel, lab : Finished(r, rel, lab)' <=> Finished(r, rel, lab)
<1>1. /\ lines' = lines /\ mode' = mode /\ LastLine' = LastLine
      /\ ram' = ram /\ rom' = rom /\ label_map' = label_map
  BY SameSource DEF LastLine
<1>2. \A r, rel, lab : Final(r, rel, lab)' <=> Final(r, rel, lab)
  BY <1>1, SameLayout DEF Final, RelocsAre, Addresses, RomCounts
<1>3. \A rel : DataItems(rel)' = DataItems(rel)
  BY <1>1 DEF DataItems
<1>4. \A r, rel : StartCode(r, rel)' = StartCode(r, rel)
  BY <1>1, <1>3 DEF StartCode
<1>5. (NeedsStart' <=> NeedsStart) /\ \A lab : FixedUp(lab)' = FixedUp(lab)
  BY <1>1 DEF NeedsStart, FixedUp
<1> QED BY <1>1, <1>2, <1>3, <1>4, <1>5, ZenonT(30) DEF Finished

LEMMA SameLater ==
  ASSUME LaterIs, SameJob, UNCHANGED <<rom, ram, label_map, relocs>>, errors' = 0 => errors = 0
  PROVE  LaterIs'
<1>1. (Source' <=> Source) /\ (NothingRaised' <=> NothingRaised)
  BY SameReading
<1>2. RamCounts(ram)'
  BY DEF LaterIs
<1>3. (\E r, rel, lab : Finished(r, rel, lab)') <=> \E r, rel, lab : Finished(r, rel, lab)
  BY SameFinished
<1> QED BY <1>1, <1>2, <1>3 DEF LaterIs

LEMMA SecondAssembly ==
  ASSUME AssemblyInv, SecondPass, CodeInv'
  PROVE  AssemblyInv'
<1>1. /\ phase = "second" /\ phase' = "assembled" /\ SameJob /\ job' = job /\ lines' = lines
      /\ UNCHANGED <<rom, ram, label_map, relocs>>
      /\ errors \in Nat /\ IsSeq(rom.pending) /\ LaterIs
  BY DEF SecondPass, SameJob, lines, AssemblyInv, CodeInv, Later
<1> DEFINE p == rom.pending
           left == {i \in DOMAIN p : ~Resolvable(p[i])}
<1>2. IsFiniteSet(left) /\ Cardinality(left) \in Nat
  <2>1. DOMAIN p = 1 .. Len(p) /\ Len(p) \in Nat
    BY <1>1, SeqIs
  <2>2. IsFiniteSet(DOMAIN p)
    <3> PICK n \in Int : n = Len(p)
      BY <2>1
    <3> PICK one \in Int : one = 1
      OBVIOUS
    <3>1. IsFiniteSet(one .. n)
      BY FS_Interval
    <3> QED BY <2>1, <3>1
  <2> QED BY <2>2, FS_Subset, FS_CardinalityType
<1>3. errors' = errors + Cardinality(left)
  BY DEF SecondPass
<1>4. /\ image' = [i \in DOMAIN p |-> [line |-> p[i].line, word |-> WordOf(p[i])]]
      /\ rom'.pending = p
  BY <1>1 DEF SecondPass
<1>5. errors' = 0 => errors = 0 /\ left = {}
  <2>1. Cardinality(left) = 0 => left = {}
    BY <1>2, FS_EmptySet
  <2> HIDE DEF left
  <2> QED BY <1>1, <1>2, <1>3, <2>1
<1>6. ASSUME errors' = 0 PROVE ImageIs'
  <2>1. \A item : (Resolvable(item)' <=> Resolvable(item)) /\ WordOf(item)' = WordOf(item)
    <3>1. label_map' = label_map
      BY <1>1
    <3>2. \A item : Resolvable(item)' <=> Resolvable(item)
      BY <3>1 DEF Resolvable
    <3> QED BY <3>1, <3>2 DEF WordOf
  <2>2. \A i \in DOMAIN p : Resolvable(p[i])
    BY <1>5, <1>6
  <2> HIDE DEF p
  <2> QED BY <1>4, <2>1, <2>2 DEF ImageIs
<1>7. LaterIs'
  BY <1>1, <1>5, SameLater
<1> QED BY <1>1, <1>6, <1>7 DEF AssemblyInv, Later

LEMMA WriteAssembly ==
  ASSUME AssemblyInv, write_rom_logisim, CodeInv'
  PROVE  AssemblyInv'
<1>1. /\ phase = "assembled" /\ phase' = "running" /\ SameJob /\ job' = job /\ mode' = mode
      /\ UNCHANGED <<rom, ram, label_map, relocs, image>> /\ errors = 0 /\ errors' = 0
      /\ image # <<>> /\ LaterIs /\ ImageIs
  BY DEF write_rom_logisim, SameJob, mode, AssemblyInv, Later
<1>2. ResetTarget' = ResetTarget
  BY <1>1 DEF ResetTarget
<1>3. RomFileIs'
  BY <1>1, <1>2 DEF RomFileIs, write_rom_logisim
<1>4. ImageIs'
  BY <1>1 DEF ImageIs, Resolvable, WordOf
<1>5. LaterIs'
  BY <1>1, SameLater
<1> QED BY <1>1, <1>3, <1>4, <1>5 DEF AssemblyInv, Later

LEMMA CpuAssembly ==
  ASSUME AssemblyInv, UNCHANGED <<asm_vars, rom_file>>, CodeInv'
  PROVE  AssemblyInv'
<1>1. /\ SameJob /\ UNCHANGED <<batch, job, line, phase, section, rom, ram, label_map, relocs>>
      /\ UNCHANGED <<errors, image, rom_file>> /\ lines' = lines /\ mode' = mode
  BY DEF asm_vars, SameJob, lines, mode
<1>2. FirstPassIs => FirstPassIs'
  <2>1. Ready => Ready'
    BY <1>1 DEF Ready, Given, RomCounts, RamCounts, TextIsIn, RelocsAre
  <2> QED BY <1>1, <2>1, SameReading DEF FirstPassIs
<1>3. LaterIs => LaterIs'
  BY <1>1, SameLater
<1>4. (ImageIs => ImageIs') /\ (RomFileIs => RomFileIs')
  <2>1. ResetTarget' = ResetTarget
    BY <1>1 DEF ResetTarget
  <2> QED BY <1>1, <2>1 DEF ImageIs, Resolvable, WordOf, RomFileIs
<1> QED BY <1>1, <1>2, <1>3, <1>4 DEF AssemblyInv, Later

LEMMA NextAssembly ==
  ASSUME AssemblyInv, NextJob, Rejected \/ Stopped, CodeInv'
  PROVE  AssemblyInv'
<1>1. /\ job' = job + 1 /\ job + 1 \in DOMAIN batch /\ batch' = batch
      /\ line' = 1 /\ phase' = "first" /\ section' = "text" /\ rom' = EmptyRom /\ ram' = EmptyRam
      /\ relocs' = relocs /\ job \in Nat \ {0}
  BY DEF NextJob, Begin, AssemblyInv
<1>2. Given'
  BY DEF CodeInv, TraceInv, Numbered, Given
<1>3. ASSUME NothingRaised' PROVE DOMAIN relocs = {}
  <2>1. \A j \in 1 .. job : \A k \in DOMAIN batch[j].lines : batch[j].lines[k].dir # "raise"
    <3>1. (job + 1) - 1 = job
      BY <1>1
    <3> QED BY <1>1, <1>3, <3>1 DEF NothingRaised
  <2>2. job \in 1 .. job /\ \A j \in 1 .. (job - 1) : j \in 1 .. job
    BY <1>1
  <2>3. NothingRaised
    BY <2>1, <2>2 DEF NothingRaised
  <2>4. \A k \in DOMAIN lines : lines[k].dir # "raise"
    BY <2>1, <2>2 DEF lines
  <2>5. phase \in Later
    BY <2>4 DEF AssemblyInv, Rejected, Stopped, Later
  <2> QED BY <2>3, <2>5 DEF AssemblyInv, LaterIs
<1>4. NothingRaised' => Beginning'
  BY <1>1, <1>2, <1>3 DEF Beginning
<1>5. ASSUME Beginning'
      PROVE  /\ Ready' /\ Ordered(rom, section, line)' /\ DOMAIN relocs' = {}
             /\ Arranged(rom, ram, relocs, label_map, section, line)'
  BY <1>5, BeginningNext DEF Beginning
<1>6. FirstPassIs'
  BY <1>4, <1>5 DEF FirstPassIs, Source
<1>7. job' \in Nat \ {0}
  BY <1>1
<1> QED BY <1>1, <1>6, <1>7 DEF AssemblyInv, Later

\* The source and everything made of it, at every step.
LEMMA StepAssembly ==
  ASSUME AssemblyInv, [BootNext]_vars
  PROVE  AssemblyInv'
<1>1. CodeInv'
  BY StepEncodes DEF AssemblyInv
<1>2. CASE Assemble
  BY <1>1, <1>2, LineAssembly, RaiseAssembly, EndAssembly, SecondAssembly DEF Assemble, FirstPass
<1>3. CASE write_rom_logisim
  BY <1>1, <1>3, WriteAssembly
<1>4. CASE Cpu \/ UNCHANGED vars
  <2>1. UNCHANGED <<asm_vars, rom_file>>
    BY <1>4 DEF Cpu, CpuNop, CpuLdi, CpuAdi, CpuLod, CpuStr, CpuJmp, CpuHlt, CpuLost,
                Executing, vars
  <2> QED BY <1>1, <2>1, CpuAssembly
<1>5. CASE (Rejected \/ Stopped) /\ NextJob
  BY <1>1, <1>5, NextAssembly
<1> QED BY <1>2, <1>3, <1>4, <1>5 DEF BootNext, Running

=============================================================================
