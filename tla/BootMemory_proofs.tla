------------------------- MODULE BootMemory_proofs --------------------------
(***************************************************************************)
(* The memory of the program is as it was written, for every source, mode  *)
(* and machine: from the layout of the first pass (Boot_proofs) to the     *)
(* words of the image, from these through the reset vector and the loop of *)
(* .start to the RAM the program finds when it begins, and from there to   *)
(* whatever it is doing after.  At the end, the types of all of Boot.      *)
(***************************************************************************)
EXTENDS Boot_proofs

-----------------------------------------------------------------------------
(***************************************************************************)
(* The machine with its ROM written.                                       *)
(***************************************************************************)
LEMMA MachineIs ==
  /\ HALF \in Nat \ {0} /\ HALF % 32 = 0 /\ SPACE \in Nat \ {0} /\ ROM_BASE \in Nat
  /\ ROM_BASE % 4 = 0 /\ RESET_ROW \in Nat
  /\ ROM_SIZE = (4 * RESET_ROW) + 16 /\ SPACE = ROM_BASE + ROM_SIZE
  /\ WORD_LIMIT \in Nat /\ RESET_ROW + 4 <= WORD_LIMIT
  /\ RAM_BASE \in Nat /\ BSS_MARK \in Nat /\ BSS_END \in Nat
  /\ WORD_LIMIT <= RAM_BASE /\ RAM_BASE + HALF <= BSS_MARK /\ BSS_MARK <= BSS_END
  /\ BSS_END <= ROM_BASE
<1>1. /\ HALF \in Nat \ {0} /\ HALF % 32 = 0 /\ SPACE \in Nat \ {0} /\ SPACE = HALF * HALF
  BY HalfAssumption, Widths
<1>2. ROM_BASE \in Nat /\ SPACE = ROM_BASE + ROM_SIZE
  BY <1>1, RomAssumption DEF ROM_BASE
<1>3. RESET_ROW \in Nat /\ ROM_SIZE = (4 * RESET_ROW) + 16 /\ ROM_SIZE % 4 = 0
      /\ ROM_SIZE \div 4 = RESET_ROW + 4
  BY RomAssumption, MapAssumption DEF RESET_ROW
<1>4. SPACE % 4 = 0
  <2>1. PICK h : h \in Nat /\ HALF = 4 * h
    <3>1. HALF = 4 * (HALF \div 4) /\ HALF \div 4 \in Nat
      BY <1>1
    <3> QED BY <3>1
  <2>2. SPACE = 4 * (h * HALF) /\ h * HALF \in Nat
    BY <1>1, <2>1
  <2> QED BY <2>2
<1>5. ROM_BASE % 4 = 0
  BY <1>1, <1>2, <1>3, <1>4, RomAssumption
<1> QED BY <1>1, <1>2, <1>3, <1>5, MapAssumption, WordAssumption

\* A word of the ROM and its bytes.
LEMMA RomBytes ==
  ASSUME NEW i \in 0 .. (RESET_ROW + 3), NEW j \in 0 .. 3
  PROVE  /\ InRom(ROM_BASE + (4 * i)) /\ WordAt(ROM_BASE + (4 * i)) = RomWord(i)
         /\ MemoryByte(ROM_BASE + ((4 * i) + j)) = BytesOf(RomWord(i))[j + 1]
<1>1. /\ ROM_BASE \in Nat /\ ROM_BASE % 4 = 0 /\ RESET_ROW \in Nat
      /\ SPACE = ROM_BASE + ((4 * RESET_ROW) + 16)
  BY MachineIs
<1>2. i \in Nat /\ i <= RESET_ROW + 3 /\ j \in 0 .. 3
  BY <1>1
<1>3. PICK a : a = ROM_BASE + ((4 * i) + j)
  OBVIOUS
<1>4. a \in ROM_BASE .. (SPACE - 1) /\ a - ROM_BASE = (4 * i) + j /\ a % 4 = j
  BY <1>1, <1>2, <1>3
<1>5. ((4 * i) + j) \div 4 = i /\ (4 * i) \div 4 = i
  BY <1>2
<1>6. InRom(a) /\ WordAt(a) = RomWord(i)
  BY <1>4, <1>5 DEF InRom, WordAt
<1>7. MemoryByte(a) = BytesOf(RomWord(i))[j + 1]
  BY <1>4, <1>6 DEF MemoryByte
<1>8. PICK z : z = ROM_BASE + (4 * i)
  OBVIOUS
<1>9. z \in ROM_BASE .. (SPACE - 1) /\ z - ROM_BASE = 4 * i
  BY <1>1, <1>2, <1>8
<1> QED BY <1>3, <1>5, <1>7, <1>8, <1>9 DEF InRom, WordAt

-----------------------------------------------------------------------------
(***************************************************************************)
(* The image after both passes: the items of the first pass, the words of  *)
(* .data and .start.                                                       *)
(***************************************************************************)
Limits == CopyIsShort /\ BssIsPlain /\ ImageFits /\ OffsetsAreBytes
Settled(r, rel, lab) ==
  /\ Given /\ RamCounts(ram) /\ Addresses(label_map)
  /\ Finished(r, rel, lab) /\ ImageIs /\ RomFileIs
  /\ Source /\ Limits

\* How many words of .data there are to copy.
Copied == IF NeedsStart THEN Len(Packed(ram.rom_data_bytes)) ELSE 0

LEMMA CopiedIs ==
  ASSUME RamCounts(ram), CopyIsShort
  PROVE  /\ Len(ram.rom_data_bytes) \in Nat /\ Copied \in Nat
         /\ 4 * Copied <= HALF \div 2
         /\ NeedsStart => 4 * Copied = Len(ram.rom_data_bytes) + Pad(Len(ram.rom_data_bytes), 4)
         /\ ~NeedsStart => Copied = 0
         /\ Pad(Len(ram.rom_data_bytes), 4) \in 0 .. 3
<1>1. ram.rom_data_bytes \in Seq(Byte)
  BY DEF RamCounts, RamType
<1>2. Len(ram.rom_data_bytes) \in Nat
  BY <1>1
<1>3. /\ IsSeq(Packed(ram.rom_data_bytes))
      /\ 4 * Len(Packed(ram.rom_data_bytes))
           = Len(ram.rom_data_bytes) + Pad(Len(ram.rom_data_bytes), 4)
  BY <1>1, PackedHolds
<1>4. Len(Packed(ram.rom_data_bytes)) \in Nat
  BY <1>3, SeqIs
<1>5. Pad(Len(ram.rom_data_bytes), 4) \in 0 .. 3
  <2>1. \A n \in Nat : Pad(n, 4) \in 0 .. (4 - 1)
    BY PadReaches, 4 \in Nat \ {0}
  <2> QED BY <1>2, <2>1
<1> PICK d : d = Len(ram.rom_data_bytes)
  OBVIOUS
<1> PICK c : c = Len(Packed(ram.rom_data_bytes))
  OBVIOUS
<1> PICK p : p = Pad(Len(ram.rom_data_bytes), 4)
  OBVIOUS
<1>6. 4 * c <= HALF \div 2
  <2>1. d \in Nat /\ c \in Nat /\ p \in 0 .. 3 /\ 4 * c = d + p /\ d <= HALF \div 2
    BY <1>2, <1>3, <1>4, <1>5 DEF CopyIsShort
  <2>2. PICK h : h \in Nat /\ HALF \div 2 = 4 * h
    <3>1. HALF \in Nat \ {0} /\ HALF % 32 = 0
      BY MachineIs
    <3>2. HALF \div 2 = 4 * (HALF \div 8) /\ HALF \div 8 \in Nat
      BY <3>1
    <3> QED BY <3>2
  <2> QED BY <2>1, <2>2
<1>7. HALF \div 2 \in Nat
  BY MachineIs
<1> QED BY <1>2, <1>3, <1>4, <1>5, <1>6, <1>7 DEF Copied

LEMMA DataItemsAre ==
  ASSUME RamCounts(ram), NEW rel
  PROVE  /\ IsSeq(DataItems(rel))
         /\ Len(DataItems(rel)) = Len(Packed(ram.rom_data_bytes))
         /\ DOMAIN DataItems(rel) = 1 .. Len(DataItems(rel)) /\ Len(DataItems(rel)) \in Nat
         /\ \A w \in 1 .. Len(DataItems(rel)) :
              /\ DataItems(rel)[w].kind = "raw" /\ DataItems(rel)[w].line = 0
              /\ DataItems(rel)[w].bytes = Packed(ram.rom_data_bytes)[w].bytes
              /\ DataItems(rel)[w].expr =
                   IF 4 * (w - 1) \in DOMAIN rel THEN rel[4 * (w - 1)] ELSE NoExpr
<1>1. ram.rom_data_bytes \in Seq(Byte)
  BY DEF RamCounts, RamType
<1> PICK words : words = Packed(ram.rom_data_bytes)
  OBVIOUS
<1>2. /\ IsSeq(words)
      /\ \A w \in 1 .. Len(words) : words[w].kind = "raw" /\ words[w].line = 0
  BY <1>1, PackedHolds
<1>3. Len(words) \in Nat /\ DOMAIN words = 1 .. Len(words)
  BY <1>2, SeqIs
<1> DEFINE items == [w \in DOMAIN words |->
              [words[w] EXCEPT !.expr = IF 4 * (w - 1) \in DOMAIN rel THEN rel[4 * (w - 1)]
                                        ELSE NoExpr]]
           S == {items[w] : w \in DOMAIN words}
<1>4. DataItems(rel) = items
  BY DEF DataItems
<1>5. items \in [1 .. Len(words) -> S]
  BY <1>3
<1>6. items \in Seq(S)
  <2> HIDE DEF items, S
  <2> QED BY <1>3, <1>5
<1>7. IsSeq(items) /\ Len(items) = Len(words)
  <2>1. DOMAIN items = 1 .. Len(words)
    BY <1>3
  <2> HIDE DEF items, S
  <2>2. IsSeq(items)
    BY <1>6 DEF IsSeq
  <2>3. Len(items) \in Nat /\ DOMAIN items = 1 .. Len(items)
    BY <2>2, SeqIs
  <2> QED BY <1>3, <2>1, <2>2, <2>3
<1>8. \A w \in 1 .. Len(words) :
        /\ items[w].kind = "raw" /\ items[w].line = 0 /\ items[w].bytes = words[w].bytes
        /\ items[w].expr = IF 4 * (w - 1) \in DOMAIN rel THEN rel[4 * (w - 1)] ELSE NoExpr
  <2> TAKE w \in 1 .. Len(words)
  <2>1. words[w] = Raw(words[w].bytes, words[w].expr, words[w].line)
    BY <1>3 DEF Packed, Raw
  <2>2. DOMAIN words[w] = {"kind", "bytes", "expr", "line"}
    BY <2>1 DEF Raw
  <2>3. items[w] = [words[w] EXCEPT !.expr = IF 4 * (w - 1) \in DOMAIN rel THEN rel[4 * (w - 1)]
                                             ELSE NoExpr]
    BY <1>3
  <2> HIDE DEF items
  <2> QED BY <1>2, <2>2, <2>3
<1> HIDE DEF items
<1> QED BY <1>3, <1>4, <1>7, <1>8

LEMMA StartIsSeq ==
  ASSUME NEW r, NEW rel, RamCounts(ram)
  PROVE  IsSeq(StartCode(r, rel))
<1>1. Len(DataItems(rel)) \in Nat
  BY DataItemsAre
<1>2. /\ IsSeq(CopyData(Len(r.pending), Len(DataItems(rel))))
      /\ IsSeq(JumpToMain(label_map, r.text_start_word))
  BY <1>1, CopyInjected, JumpInjected DEF Injected
<1> QED BY <1>2, JoinedSeq DEF StartCode

LEMMA ImageItems ==
  ASSUME NEW r, NEW rel, NEW lab, Settled(r, rel, lab)
  PROVE  /\ Len(r.pending) \in Nat /\ Copied \in Nat /\ Len(rom.pending) \in Nat
         /\ Len(r.pending) + Copied <= Len(rom.pending)
         /\ \A i \in 1 .. Len(r.pending) : rom.pending[i] = r.pending[i]
         /\ \A w \in 1 .. Copied : rom.pending[Len(r.pending) + w] = DataItems(rel)[w]
         /\ NeedsStart =>
              /\ Len(StartCode(r, rel)) \in Nat
              /\ Len(rom.pending) = (Len(r.pending) + Copied) + Len(StartCode(r, rel))
              /\ \A s \in 1 .. Len(StartCode(r, rel)) :
                   rom.pending[(Len(r.pending) + Copied) + s] = StartCode(r, rel)[s]
         /\ ~NeedsStart => Len(rom.pending) = Len(r.pending) /\ Copied = 0
<1>1. /\ RamCounts(ram) /\ RomCounts(r) /\ CopyIsShort /\ Finished(r, rel, lab)
  BY DEF Settled, Finished, Final, Limits
<1>2. IsSeq(r.pending) /\ Len(r.pending) \in Nat
  BY <1>1, RomIs
<1>3. Copied \in Nat
  BY <1>1, CopiedIs
<1>4. CASE NeedsStart
  <2> PICK a : a = r.pending
    OBVIOUS
  <2> PICK d : d = DataItems(rel)
    OBVIOUS
  <2> PICK s : s = StartCode(r, rel)
    OBVIOUS
  <2>1. IsSeq(a) /\ IsSeq(d) /\ IsSeq(s)
    BY <1>1, <1>2, DataItemsAre, StartIsSeq
  <2>2. Len(d) = Copied
    BY <1>1, <1>4, DataItemsAre DEF Copied
  <2>3. rom.pending = (a \o d) \o s
    BY <1>1, <1>4 DEF Finished
  <2>4. /\ IsSeq(a \o d) /\ Len(a \o d) = Len(a) + Len(d)
        /\ \A i \in 1 .. Len(a) : (a \o d)[i] = a[i]
        /\ \A i \in 1 .. Len(d) : (a \o d)[Len(a) + i] = d[i]
        /\ Len(a) \in Nat /\ Len(d) \in Nat
    BY ONLY <2>1, JoinedSeq, SeqIs
  <2> PICK ad : ad = a \o d
    OBVIOUS
  <2>5. /\ Len(ad \o s) = Len(ad) + Len(s) /\ Len(s) \in Nat
        /\ \A i \in 1 .. Len(ad) : (ad \o s)[i] = ad[i]
        /\ \A i \in 1 .. Len(s) : (ad \o s)[Len(ad) + i] = s[i]
    <3>1. IsSeq(ad) /\ IsSeq(s)
      BY <2>1, <2>4
    <3> QED BY ONLY <3>1, JoinedSeq, SeqIs
  <2> PICK all : all = rom.pending
    OBVIOUS
  <2>6. /\ Len(all) = Len(ad) + Len(s) /\ Len(ad) = Len(a) + Len(d)
        /\ \A i \in 1 .. Len(a) : all[i] = a[i]
        /\ \A w \in 1 .. Len(d) : all[Len(a) + w] = d[w]
        /\ \A i \in 1 .. Len(s) : all[Len(ad) + i] = s[i]
    <3>1. all = ad \o s
      BY <2>3
    <3>2. Len(all) = Len(ad) + Len(s) /\ Len(ad) = Len(a) + Len(d)
      BY <2>4, <2>5, <3>1
    <3>3. ASSUME NEW i \in 1 .. Len(a) PROVE all[i] = a[i]
      <4>1. i \in 1 .. Len(ad)
        BY <2>4, <3>2
      <4> QED BY <2>4, <2>5, <3>1, <4>1
    <3>4. ASSUME NEW w \in 1 .. Len(d) PROVE all[Len(a) + w] = d[w]
      <4>1. Len(a) + w \in 1 .. Len(ad)
        BY <2>4, <3>2
      <4> QED BY <2>4, <2>5, <3>1, <4>1
    <3> QED BY <2>5, <3>1, <3>2, <3>3, <3>4
  <2>7. Len(rom.pending) \in Nat /\ Len(a) + Len(d) <= Len(rom.pending)
    BY <2>4, <2>5, <2>6
  <2> QED BY <1>2, <1>3, <1>4, <2>2, <2>4, <2>5, <2>6, <2>7
<1>5. CASE ~NeedsStart
  <2>1. rom.pending = r.pending /\ Copied = 0
    BY <1>1, <1>5 DEF Finished, Copied
  <2>2. \A w \in 1 .. Copied : FALSE
    BY <2>1
  <2> QED BY <1>2, <1>5, <2>1, <2>2
<1> QED BY <1>4, <1>5

LEMMA WordsAre ==
  ASSUME NEW r, NEW rel, NEW lab, Settled(r, rel, lab)
  PROVE  /\ Len(rom.pending) <= RESET_ROW
         /\ DOMAIN image = 1 .. Len(rom.pending)
         /\ \A i \in 1 .. Len(rom.pending) : image[i].line = rom.pending[i].line
         /\ \A i \in 0 .. (Len(rom.pending) - 1) : RomWord(i) = WordOf(rom.pending[i + 1])
<1>1. ImageIs /\ RomFileIs /\ ImageFits /\ RomCounts(r) /\ RamCounts(ram) /\ Finished(r, rel, lab)
  BY DEF Settled, Limits, Finished, Final
<1>2. Len(rom.pending) \in Nat /\ IsSeq(rom.pending)
  <2>1. IsSeq(r.pending) /\ IsSeq(DataItems(rel)) /\ IsSeq(StartCode(r, rel))
    BY <1>1, RomIs, DataItemsAre, StartIsSeq
  <2>2. IsSeq((r.pending \o DataItems(rel)) \o StartCode(r, rel))
    BY <2>1, JoinedSeq
  <2>3. IsSeq(rom.pending)
    BY <1>1, <2>1, <2>2 DEF Finished
  <2> QED BY <2>3, SeqIs
<1>3. DOMAIN rom.pending = 1 .. Len(rom.pending)
  BY <1>2, SeqIs
<1> PICK n : n = Len(rom.pending)
  OBVIOUS
<1>4. /\ DOMAIN image = 1 .. n
      /\ \A i \in 1 .. n : /\ image[i].line = rom.pending[i].line
                           /\ image[i].word = WordOf(rom.pending[i])
  BY <1>1, <1>3 DEF ImageIs
<1>5. image \in Seq({image[i] : i \in 1 .. n}) /\ Len(image) = n
  <2>1. image = [i \in 1 .. n |-> [line |-> rom.pending[i].line, word |-> WordOf(rom.pending[i])]]
    BY <1>1, <1>3 DEF ImageIs
  <2> DEFINE S == {[line |-> rom.pending[i].line, word |-> WordOf(rom.pending[i])] : i \in 1 .. n}
  <2>2. image \in [1 .. n -> S]
    BY <2>1
  <2>3. image \in Seq(S) /\ Len(image) = n
    <3> HIDE DEF S
    <3> QED BY <1>2, <1>4, <2>2
  <2>4. {image[i] : i \in 1 .. n} = S
    BY <2>1
  <2> QED BY <2>3, <2>4
<1>6. n <= RESET_ROW
  BY <1>1, <1>5 DEF ImageFits
<1>7. ASSUME NEW i \in 0 .. (n - 1) PROVE RomWord(i) = WordOf(rom.pending[i + 1])
  <2>1. i < RESET_ROW /\ i + 1 \in 1 .. n /\ ~ (i >= RESET_ROW)
    BY <1>2, <1>6, MachineIs
  <2>2. rom_file.words = [x \in 1 .. n |-> image[x].word]
    BY <1>1, <1>4 DEF RomFileIs
  <2>3. rom_file.words[i + 1] = WordOf(rom.pending[i + 1]) /\ i + 1 \in DOMAIN rom_file.words
    <3> PICK x : x = i + 1
      OBVIOUS
    <3>1. x \in 1 .. n
      BY <2>1
    <3>2. x \in DOMAIN rom_file.words /\ rom_file.words[x] = image[x].word
      BY <2>2, <3>1
    <3>3. image[x].word = WordOf(rom.pending[x])
      BY <1>4, <3>1
    <3> QED BY <3>2, <3>3
  <2> QED BY <2>1, <2>3 DEF RomWord
<1>8. \A i \in 1 .. n : image[i].line = rom.pending[i].line
  BY <1>4
<1> QED BY <1>4, <1>6, <1>7, <1>8

-----------------------------------------------------------------------------
(***************************************************************************)
(* Where an object is in memory.                                           *)
(***************************************************************************)
Base(k) ==
  IF Region(k) = "image" THEN ROM_BASE
  ELSE IF Region(k) = "data" THEN RAM_BASE ELSE RAM_BASE + (4 * Copied)

\* The room there is in a region.
Room(r, k) ==
  IF Region(k) = "image" THEN 4 * Len(r.pending)
  ELSE IF Region(k) = "data" THEN Len(ram.rom_data_bytes) ELSE ram.ram_bss_offset

LEMMA RoomIs ==
  ASSUME NEW r, NEW rel, NEW lab, Settled(r, rel, lab), NEW k \in Objects
  PROVE  /\ k \in DOMAIN lines /\ k \in 1 .. (LastLine - 1) /\ Room(r, k) \in Nat
         /\ Region(k) \in {"image", "data", "bss"}
         /\ Region(k) # "image" => mode = "rom"
         /\ EndOf(Region(k), r, ram) = Room(r, k)
         /\ Region(k) = "image" => Room(r, k) <= 4 * RESET_ROW
         /\ Region(k) = "data" => Room(r, k) <= 4 * Copied /\ Room(r, k) <= HALF
         /\ Region(k) = "bss" => Room(r, k) < BSS_END - BSS_MARK
<1>1. /\ Given /\ RomCounts(r) /\ r.pending_bytes = <<>> /\ RamCounts(ram)
      /\ CopyIsShort /\ BssIsPlain
  BY DEF Settled, Finished, Final, Limits
<1>2. k \in DOMAIN lines /\ k \in 1 .. Len(lines) /\ Len(lines) \in Nat
  BY <1>1, LinesAre DEF Objects, Indices
<1>3. Region(k) \in {"image", "data", "bss"}
  BY <1>1, <1>2, RegionIs
<1>4. Region(k) # "image" => mode = "rom"
  BY DEF Region, InBss, InData
<1>5. Len(r.pending) \in Nat /\ Len(r.pending) <= RESET_ROW
  <2>1. Len(r.pending) \in Nat /\ Copied \in Nat /\ Len(rom.pending) \in Nat
        /\ Len(r.pending) + Copied <= Len(rom.pending)
    BY ImageItems
  <2>2. Len(rom.pending) <= RESET_ROW
    BY WordsAre
  <2> QED BY <2>1, <2>2, MachineIs
<1>6. ram.ram_bss_offset \in Nat /\ Len(ram.rom_data_bytes) \in Nat
  BY <1>1, CopiedIs DEF RamCounts, RamType
<1>7. ImageEnd(r) = 4 * Len(r.pending)
  <2>1. Len(r.pending_bytes) = 0
    BY <1>1
  <2> QED BY <1>5, <2>1 DEF ImageEnd
<1>8. Room(r, k) \in Nat /\ EndOf(Region(k), r, ram) = Room(r, k)
  BY <1>3, <1>5, <1>6, <1>7 DEF Room, EndOf
<1>9. Region(k) = "image" => Room(r, k) <= 4 * RESET_ROW
  BY <1>5, MachineIs DEF Room
<1>10. ASSUME Region(k) = "data" PROVE Room(r, k) <= 4 * Copied /\ Room(r, k) <= HALF
  <2> PICK d : d = Len(ram.rom_data_bytes)
    OBVIOUS
  <2>1. Room(r, k) = d /\ d \in Nat
    BY <1>6, <1>10 DEF Room
  <2>2. d <= HALF \div 2 /\ HALF \div 2 <= HALF
    BY <1>1, MachineIs DEF CopyIsShort
  <2>3. /\ NeedsStart => 4 * Copied = d + Pad(d, 4)
        /\ Pad(d, 4) \in 0 .. 3 /\ Copied \in Nat
    BY <1>1, CopiedIs
  <2>4. ~NeedsStart => d = 0
    <3>1. ~NeedsStart => ram.rom_data_bytes = <<>>
      BY <1>4, <1>10 DEF NeedsStart
    <3> QED BY <3>1
  <2>5. d <= 4 * Copied
    BY <2>1, <2>3, <2>4
  <2>6. d <= HALF
    BY <2>1, <2>2, MachineIs
  <2> QED BY <2>1, <2>5, <2>6
<1>11. Region(k) = "bss" => Room(r, k) < BSS_END - BSS_MARK
  BY <1>1 DEF Room, BssIsPlain
<1> QED BY <1>2, <1>3, <1>4, <1>8, <1>9, <1>10, <1>11 DEF LastLine

\* A word index of the image is an address of the ROM.
LEMMA PhysicalIndex ==
  ASSUME NEW i \in 0 .. RESET_ROW
  PROVE  physical(i) = ROM_BASE + (4 * i)
<1>1. i \in Nat /\ i < WORD_LIMIT /\ 4 * i \in 0 .. (ROM_SIZE - 1) /\ ROM_SIZE \in Nat \ {0}
  BY MachineIs, RomAssumption
<1>2. (4 * i) % ROM_SIZE = 4 * i
  <2> PICK x : x = 4 * i
    OBVIOUS
  <2> QED BY <1>1, ModUnique
<1>3. ~ (i >= WORD_LIMIT)
  BY <1>1, MachineIs
<1> QED BY <1>2, <1>3 DEF physical

\* The map of labels, without .start.
LEMMA LabelIs ==
  ASSUME NEW r, NEW rel, NEW lab, Settled(r, rel, lab), NEW k \in Objects
  PROVE  /\ lines[k].name \in DOMAIN lab /\ lines[k].name \in DOMAIN label_map
         /\ label_map[lines[k].name] = FixedUp(lab)[lines[k].name]
<1>1. Finished(r, rel, lab) /\ Placed(r, ram, rel, lab, LastLine) /\ StartIsFree
  BY DEF Settled, Source, Finished, Final
<1>2. LabelPlaced(r, ram, lab, k)
  <2>1. k < LastLine
    <3>1. k \in 1 .. (LastLine - 1) /\ Given
      BY RoomIs DEF Settled
    <3>2. LastLine \in Int
      BY <3>1, LinesAre DEF LastLine
    <3> QED BY <3>1, <3>2
  <2> QED BY <1>1, <2>1 DEF Placed
<1>3. lines[k].name \in DOMAIN lab /\ lines[k].name # ".start"
  BY <1>1, <1>2 DEF LabelPlaced, StartIsFree
<1>4. DOMAIN FixedUp(lab) = DOMAIN lab
  BY DEF FixedUp
<1>5. label_map = FixedUp(lab)
      \/ label_map = Assigned(FixedUp(lab), ".start", Len(r.pending) + Len(DataItems(rel)))
  BY <1>1 DEF Finished
<1> QED BY <1>3, <1>4, <1>5 DEF Assigned

LEMMA BasesAre ==
  ASSUME RamCounts(ram), CopyIsShort
  PROVE  /\ Copied \in Nat /\ (4 * Copied) + 4 <= HALF
         /\ RAM_BASE + (4 * Copied) \in Nat /\ RAM_BASE + (4 * Copied) <= BSS_MARK
         /\ mode = "rom" =>
              RAM_BASE + ram.ram_data_offset + Pad(ram.ram_data_offset, 4)
                = RAM_BASE + (4 * Copied)
<1> PICK d : d = Len(ram.rom_data_bytes)
  OBVIOUS
<1> PICK p : p = Pad(d, 4)
  OBVIOUS
<1> PICK c : c = Copied
  OBVIOUS
<1>1. /\ d \in Nat /\ c \in Nat /\ 4 * c <= HALF \div 2 /\ p \in 0 .. 3
      /\ NeedsStart => 4 * c = d + p
      /\ ~NeedsStart => c = 0
  BY CopiedIs
<1>2. HALF \in Nat \ {0} /\ HALF % 32 = 0 /\ RAM_BASE \in Nat /\ BSS_MARK \in Nat
      /\ RAM_BASE + HALF <= BSS_MARK
  BY MachineIs
<1>3. (HALF \div 2) + 4 <= HALF
  BY <1>2
<1>4. ram.ram_data_offset = d
  BY DEF RamCounts
<1>5. ASSUME mode = "rom" PROVE d + p = 4 * c
  <2>1. CASE NeedsStart
    BY <1>1, <2>1
  <2>2. CASE ~NeedsStart
    <3>1. ram.rom_data_bytes = <<>>
      BY <1>5, <2>2 DEF NeedsStart
    <3>2. d = 0
      BY <3>1
    <3>3. \A n \in Nat : n % 4 = 0 => Pad(n, 4) = 0
      BY PadReaches, 4 \in Nat \ {0}
    <3>4. p = 0
      BY <3>2, <3>3
    <3> QED BY <1>1, <2>2, <3>2, <3>4
  <2> QED BY <2>1, <2>2
<1>6. ASSUME mode = "rom" PROVE (RAM_BASE + d) + p = RAM_BASE + (4 * c)
  BY <1>1, <1>2, <1>5, <1>6, SMTT(30)
<1>7. (4 * c) + 4 <= HALF /\ RAM_BASE + (4 * c) \in Nat /\ RAM_BASE + (4 * c) <= BSS_MARK
  BY <1>1, <1>2, <1>3
<1> QED BY <1>1, <1>4, <1>6, <1>7

LEMMA AddressIs ==
  ASSUME NEW r, NEW rel, NEW lab, Settled(r, rel, lab), NEW k \in Objects
  PROVE  /\ From(lab, k) \in 0 .. Room(r, k) /\ Room(r, k) \in Nat
         /\ Address(lines[k].name) = Base(k) + From(lab, k)
         /\ From(lab, k) % Alignment(k) = 0
         /\ Region(k) = "image" => label_map[lines[k].name] = lab[lines[k].name]
                                   /\ lab[lines[k].name] \in 0 .. Len(r.pending)
         /\ Region(k) # "image" => label_map[lines[k].name] = Base(k) + From(lab, k)
<1>1. /\ RamCounts(ram) /\ CopyIsShort /\ Addresses(lab) /\ BssIsPlain
      /\ Placed(r, ram, rel, lab, LastLine) /\ Given
  BY DEF Settled, Limits, Finished, Final
<1> PICK name : name = lines[k].name
  OBVIOUS
<1> PICK room : room = Room(r, k)
  OBVIOUS
<1> PICK from : from = From(lab, k)
  OBVIOUS
<1>2. /\ room \in Nat /\ Region(k) \in {"image", "data", "bss"}
      /\ Region(k) # "image" => mode = "rom"
      /\ EndOf(Region(k), r, ram) = room
      /\ Region(k) = "image" => room <= 4 * RESET_ROW
      /\ Region(k) = "data" => room <= 4 * Copied
      /\ Region(k) = "bss" => room < BSS_END - BSS_MARK
      /\ k \in 1 .. (LastLine - 1)
  BY RoomIs
<1>3. name \in DOMAIN lab /\ label_map[name] = FixedUp(lab)[name]
  BY LabelIs
<1>4. LabelPlaced(r, ram, lab, k)
  <2>1. LastLine \in Int
    BY <1>1, LinesAre DEF LastLine
  <2> QED BY <1>1, <1>2, <2>1 DEF Placed
<1>5. from \in Nat /\ from <= room /\ from % Alignment(k) = 0
  BY <1>2, <1>4 DEF LabelPlaced
<1> PICK a : a = lab[name]
  OBVIOUS
<1>6. a \in Int
  BY <1>1, <1>3 DEF Addresses
<1> PICK c : c = Copied
  OBVIOUS
<1>7. /\ c \in Nat /\ (4 * c) + 4 <= HALF /\ RAM_BASE + (4 * c) <= BSS_MARK
      /\ mode = "rom" => RAM_BASE + ram.ram_data_offset + Pad(ram.ram_data_offset, 4)
                           = RAM_BASE + (4 * c)
  BY <1>1, BasesAre
<1>8. FixedUp(lab)[name] = IF mode = "rom" /\ a \in BSS_MARK .. (BSS_END - 1)
                             THEN (RAM_BASE + (4 * c)) + (a - BSS_MARK) ELSE a
  BY <1>3, <1>7 DEF FixedUp
<1>9. CASE Region(k) = "image"
  <2>1. from = 4 * a /\ room = 4 * Len(r.pending) /\ Len(r.pending) \in Nat
    BY <1>9, ImageItems DEF From, Room
  <2>2. a \in 0 .. Len(r.pending) /\ a \in 0 .. RESET_ROW
    BY <1>2, <1>5, <1>6, <1>9, <2>1, MachineIs, SMTT(30)
  <2>3. ~ (a \in BSS_MARK .. (BSS_END - 1))
    BY <2>2, MachineIs
  <2>4. label_map[name] = a
    BY <1>3, <1>8, <2>3
  <2>5. Address(name) = ROM_BASE + (4 * a)
    BY <2>2, <2>4, PhysicalIndex DEF Address
  <2>6. Base(k) = ROM_BASE
    BY <1>9 DEF Base
  <2> QED BY <1>2, <1>5, <1>9, <2>1, <2>2, <2>4, <2>5, <2>6
<1>10. CASE Region(k) = "data"
  <2>1. from = a - RAM_BASE /\ Base(k) = RAM_BASE
    BY <1>10 DEF From, Base
  <2>2. a = RAM_BASE + from /\ a < BSS_MARK /\ a >= WORD_LIMIT
    BY <1>2, <1>5, <1>6, <1>7, <1>10, <2>1, MachineIs
  <2>3. label_map[name] = a
    BY <1>3, <1>8, <2>2, MachineIs
  <2>4. Address(name) = a
    BY <2>2, <2>3 DEF Address, physical
  <2> QED BY <1>2, <1>5, <1>10, <2>1, <2>2, <2>3, <2>4
<1>11. CASE Region(k) = "bss"
  <2>1. from = a - BSS_MARK /\ Base(k) = RAM_BASE + (4 * c)
    BY <1>11 DEF From, Base
  <2>2. a \in BSS_MARK .. (BSS_END - 1) /\ mode = "rom"
    BY <1>2, <1>5, <1>6, <1>11, <2>1, MachineIs
  <2>3. label_map[name] = (RAM_BASE + (4 * c)) + from
    BY <1>3, <1>8, <2>1, <2>2
  <2>4. (RAM_BASE + (4 * c)) + from >= WORD_LIMIT
    BY <1>5, <1>7, MachineIs
  <2>5. Address(name) = (RAM_BASE + (4 * c)) + from
    BY <2>3, <2>4 DEF Address, physical
  <2> QED BY <1>2, <1>5, <1>11, <2>1, <2>3, <2>5
<1> QED BY <1>2, <1>9, <1>10, <1>11

LEMMA LineFits ==
  ASSUME NEW r, NEW rel, NEW lab, Settled(r, rel, lab), NEW k \in Objects, NEW b \in Body(k)
  PROVE  /\ b \in DOMAIN lines /\ Offset(k, b) \in Nat /\ Size(b) \in Nat
         /\ (From(lab, k) + Offset(k, b)) + Size(b) <= Room(r, k)
         /\ LineAt(Region(k), r, ram, rel, From(lab, k) + Offset(k, b), b)
<1>1. Given /\ Placed(r, ram, rel, lab, LastLine)
  BY DEF Settled, Finished, Final
<1>2. /\ k \in 1 .. (LastLine - 1) /\ EndOf(Region(k), r, ram) = Room(r, k)
      /\ k \in 1 .. Len(lines) /\ b \in 1 .. Len(lines) /\ Len(lines) \in Nat
      /\ Offset(k, b) \in Nat /\ b \in DOMAIN lines
  BY <1>1, RoomIs, BodyOf, LinesAre
<1>3. k < LastLine /\ b < LastLine
  BY <1>2 DEF LastLine
<1>4. LinesPlaced(r, ram, rel, lab, LastLine, k)
  BY <1>1, <1>3 DEF Placed
<1> QED BY <1>1, <1>2, <1>3, <1>4, SizeIs DEF LinesPlaced

\* A byte of an object.
LEMMA PlaceIs ==
  ASSUME NEW r, NEW rel, NEW lab, Settled(r, rel, lab), NEW k \in Objects, NEW x \in Place(k)
  PROVE  /\ \E b \in Body(k) :
              x \in (Base(k) + From(lab, k)) + Offset(k, b)
                      .. (((Base(k) + From(lab, k)) + Offset(k, b)) + Size(b) - 1)
         /\ x \in Base(k) .. (Base(k) + Room(r, k) - 1)
         /\ Base(k) \in Nat
<1>1. PICK b \in Body(k) : x \in LinePlace(k, b)
  BY DEF Place
<1> PICK from : from = From(lab, k)
  OBVIOUS
<1> PICK off : off = Offset(k, b)
  OBVIOUS
<1> PICK size : size = Size(b)
  OBVIOUS
<1> PICK room : room = Room(r, k)
  OBVIOUS
<1> PICK base : base = Base(k)
  OBVIOUS
<1>2. x \in (base + from) + off .. (((base + from) + off) + size - 1)
  BY <1>1, AddressIs DEF LinePlace
<1>3. /\ from \in Nat /\ off \in Nat /\ size \in Nat /\ room \in Nat
      /\ (from + off) + size <= room
  BY AddressIs, LineFits
<1>4. base \in Nat
  <2>1. RamCounts(ram) /\ CopyIsShort
    BY DEF Settled, Limits
  <2> QED BY <2>1, BasesAre, MachineIs DEF Base
<1>5. x \in base .. (base + room - 1)
  BY <1>2, <1>3, <1>4
<1> QED BY <1>2, <1>4, <1>5

LEMMA OrderedApart ==
  ASSUME NEW r, NEW rel, NEW lab, Settled(r, rel, lab), NEW k \in Objects, NEW m \in Objects,
         k < m, Region(k) = Region(m)
  PROVE  Place(k) \cap Place(m) = {}
<1> SUFFICES ASSUME NEW x \in Place(k), x \in Place(m) PROVE FALSE
  OBVIOUS
<1>1. Apart(lab, LastLine) /\ Given
  BY DEF Settled, Finished, Final
<1>2. m < LastLine
  <2>1. m \in 1 .. (LastLine - 1)
    BY RoomIs
  <2>2. LastLine \in Int
    BY <1>1, LinesAre DEF LastLine
  <2> QED BY <2>1, <2>2
<1>3. \A b \in Body(k) : (From(lab, k) + Offset(k, b)) + Size(b) <= From(lab, m)
  BY <1>1, <1>2 DEF Apart
<1>4. Base(k) = Base(m)
  BY DEF Base
<1>5. PICK b \in Body(k) :
        x \in (Base(k) + From(lab, k)) + Offset(k, b)
                .. (((Base(k) + From(lab, k)) + Offset(k, b)) + Size(b) - 1)
  BY PlaceIs
<1>6. PICK c \in Body(m) :
        x \in (Base(m) + From(lab, m)) + Offset(m, c)
                .. (((Base(m) + From(lab, m)) + Offset(m, c)) + Size(c) - 1)
  BY PlaceIs
<1> PICK base : base = Base(k)
  OBVIOUS
<1> PICK f : f = From(lab, k)
  OBVIOUS
<1> PICK g : g = From(lab, m)
  OBVIOUS
<1> PICK o : o = Offset(k, b)
  OBVIOUS
<1> PICK p : p = Offset(m, c)
  OBVIOUS
<1> PICK s : s = Size(b)
  OBVIOUS
<1>7. /\ f \in Nat /\ g \in Nat /\ o \in Nat /\ p \in Nat /\ s \in Nat /\ base \in Nat
      /\ (f + o) + s <= g
  BY <1>3, AddressIs, LineFits, PlaceIs
<1>8. x <= ((base + f) + o) + s - 1 /\ (base + g) + p <= x /\ x \in Int
  BY <1>4, <1>5, <1>6, <1>7
<1> QED BY <1>7, <1>8

LEMMA ObjectsApart ==
  ASSUME NEW r, NEW rel, NEW lab, Settled(r, rel, lab), NEW k \in Objects, NEW m \in Objects,
         k # m
  PROVE  Place(k) \cap Place(m) = {}
<1>1. k \in Int /\ m \in Int
  <2>1. Given
    BY DEF Settled
  <2> QED BY <2>1, LinesAre DEF Objects, Indices
<1>2. CASE Region(k) = Region(m)
  BY <1>1, <1>2, OrderedApart
<1>3. CASE Region(k) # Region(m)
  <2> SUFFICES ASSUME NEW x \in Place(k), x \in Place(m) PROVE FALSE
    OBVIOUS
  <2> DEFINE Span(i) == x \in Base(i) .. (Base(i) + Room(r, i) - 1)
  <2>1. Span(k) /\ Span(m) /\ Base(k) \in Nat /\ Base(m) \in Nat
    BY PlaceIs
  <2>2. RamCounts(ram) /\ CopyIsShort
    BY DEF Settled, Limits
  <2> PICK c : c = Copied
    OBVIOUS
  <2>3. c \in Nat /\ RAM_BASE + (4 * c) <= BSS_MARK
    BY <2>2, BasesAre
  <2>4. ASSUME NEW i \in Objects, Span(i), Base(i) \in Nat
        PROVE  /\ Region(i) \in {"image", "data", "bss"}
               /\ Region(i) = "image" => ROM_BASE <= x
               /\ Region(i) = "data" => x < RAM_BASE + (4 * c)
               /\ Region(i) = "bss" => RAM_BASE + (4 * c) <= x /\ x < ROM_BASE
    <3> PICK room : room = Room(r, i)
      OBVIOUS
    <3>1. /\ room \in Nat /\ Region(i) \in {"image", "data", "bss"}
          /\ Region(i) = "data" => room <= 4 * c
          /\ Region(i) = "bss" => room < BSS_END - BSS_MARK
      BY RoomIs
    <3>2. /\ Region(i) = "image" => Base(i) = ROM_BASE
          /\ Region(i) = "data" => Base(i) = RAM_BASE
          /\ Region(i) = "bss" => Base(i) = RAM_BASE + (4 * c)
      BY DEF Base
    <3> PICK base : base = Base(i)
      OBVIOUS
    <3>3. base <= x /\ x <= base + room - 1 /\ x \in Int /\ base \in Nat
      BY <2>4, <3>1
    <3> QED BY <2>3, <3>1, <3>2, <3>3, MachineIs
  <2>5. x \in Int
    BY <2>1
  <2>6. RAM_BASE + (4 * c) < ROM_BASE \/ RAM_BASE + (4 * c) <= ROM_BASE
    BY <2>3, MachineIs
  <2> HIDE DEF Span
  <2> QED BY <1>3, <2>1, <2>3, <2>4, <2>5, <2>6, MachineIs
<1> QED BY <1>2, <1>3

LEMMA ObjectAligned ==
  ASSUME NEW r, NEW rel, NEW lab, Settled(r, rel, lab), NEW k \in Objects
  PROVE  Address(lines[k].name) % Alignment(k) = 0
<1>1. /\ Given /\ RamCounts(ram) /\ CopyIsShort /\ BssIsPlain /\ BasesAreAligned
  BY DEF Settled, Limits, Source
<1> PICK a : a = Alignment(k)
  OBVIOUS
<1> PICK from : from = From(lab, k)
  OBVIOUS
<1> PICK base : base = Base(k)
  OBVIOUS
<1>2. a \in Nat \ {0}
  BY <1>1, AlignmentIs
<1>3. from \in Nat /\ from % a = 0 /\ Address(lines[k].name) = base + from
  <2>1. from \in 0 .. Room(r, k) /\ Room(r, k) \in Nat /\ from % a = 0
        /\ Address(lines[k].name) = base + from
    BY AddressIs
  <2> QED BY <2>1
<1>4. RAM_BASE % a = 0 /\ ROM_BASE % a = 0
  BY <1>1 DEF BasesAreAligned
<1>5. base \in Nat /\ base % a = 0
  <2>1. Region(k) \in {"image", "data", "bss"}
    BY RoomIs
  <2>2. CASE Region(k) = "image"
    BY <1>4, <2>2, MachineIs DEF Base
  <2>3. CASE Region(k) = "data"
    BY <1>4, <2>3, MachineIs DEF Base
  <2>4. CASE Region(k) = "bss"
    <3> PICK x : x = 4 * Copied
      OBVIOUS
    <3>1. base = RAM_BASE + x
      BY <2>4 DEF Base
    <3>2. x \in Nat /\ x % 4 = 0
      BY <1>1, BasesAre
    <3>3. a \in {1, 2, 4}
      <4>1. InBss(k)
        BY <2>4 DEF Region
      <4> QED BY <1>1, <4>1 DEF BssIsPlain
    <3>4. 4 % a = 0
      BY <3>3
    <3>5. x % a = 0
      BY <1>2, <3>2, <3>4, MultipleOfMultiple, 4 \in Nat \ {0}
    <3>6. RAM_BASE \in Nat
      BY MachineIs
    <3> QED BY <1>2, <1>4, <3>1, <3>2, <3>5, <3>6, SumOfMultiples
  <2> QED BY <2>1, <2>2, <2>3, <2>4
<1> QED BY <1>2, <1>3, <1>5, SumOfMultiples

LEMMA ObjectInRam ==
  ASSUME NEW r, NEW rel, NEW lab, Settled(r, rel, lab), NEW k \in Objects,
         Address(lines[k].name) < ROM_BASE
  PROVE  Place(k) \subseteq RAM_BASE .. (DataEnd + ram.ram_bss_offset)
<1> SUFFICES ASSUME NEW x \in Place(k)
             PROVE  x \in RAM_BASE .. (DataEnd + ram.ram_bss_offset)
  OBVIOUS
<1>1. RamCounts(ram) /\ CopyIsShort
  BY DEF Settled, Limits
<1> PICK c : c = Copied
  OBVIOUS
<1> PICK d : d = Len(ram.rom_data_bytes)
  OBVIOUS
<1> PICK bss : bss = ram.ram_bss_offset
  OBVIOUS
<1> PICK room : room = Room(r, k)
  OBVIOUS
<1> PICK base : base = Base(k)
  OBVIOUS
<1>2. /\ c \in Nat /\ d \in Nat /\ bss \in Nat /\ 4 * c <= d + 3
  <2> PICK p : p = Pad(Len(ram.rom_data_bytes), 4)
    OBVIOUS
  <2>1. d \in Nat /\ c \in Nat /\ p \in 0 .. 3 /\ (NeedsStart => 4 * c = d + p)
        /\ (~NeedsStart => c = 0)
    BY <1>1, CopiedIs
  <2>2. bss \in Nat
    BY <1>1 DEF RamCounts, RamType
  <2> QED BY <2>1, <2>2
<1>3. x \in base .. (base + room - 1) /\ base \in Nat
  BY PlaceIs
<1>4. /\ room \in Nat /\ Region(k) \in {"image", "data", "bss"}
  BY RoomIs
<1>5. Region(k) # "image"
  <2>1. From(lab, k) \in 0 .. room /\ Address(lines[k].name) = base + From(lab, k)
    BY AddressIs
  <2>2. base + From(lab, k) >= base
    BY <1>3, <1>4, <2>1
  <2>3. Region(k) = "image" => base = ROM_BASE
    BY DEF Base
  <2> QED BY <2>1, <2>2, <2>3, MachineIs
<1>6. \/ Region(k) = "data" /\ base = RAM_BASE /\ room = d
      \/ Region(k) = "bss" /\ base = RAM_BASE + (4 * c) /\ room = bss
  BY <1>4, <1>5 DEF Base, Room
<1>7. RAM_BASE <= x /\ x <= (RAM_BASE + d + 3) + bss
  <2>1. x \in Int /\ base <= x /\ x <= base + room - 1 /\ RAM_BASE \in Nat
    BY <1>3, <1>4, MachineIs
  <2>2. CASE base = RAM_BASE /\ room = d
    BY <1>2, <2>1, <2>2
  <2>3. CASE base = RAM_BASE + (4 * c) /\ room = bss
    BY <1>2, <2>1, <2>3
  <2> QED BY <1>6, <2>2, <2>3
<1>8. DataEnd = RAM_BASE + d + 3 /\ x \in Int
  BY <1>3 DEF DataEnd
<1> QED BY <1>2, <1>7, <1>8, MachineIs

-----------------------------------------------------------------------------
(***************************************************************************)
(* The lines of an object are what they were written to be.                *)
(***************************************************************************)
LEMMA SameSection ==
  ASSUME Given, NEW k \in Objects, NEW b \in Body(k), lines[k].dir # "comm"
  PROVE  /\ SectionAt(b) = SectionAt(k) /\ Region(b) = Region(k)
         /\ lines[b].dir \in Emits /\ InBss(b) = InBss(k)
<1>1. /\ k \in 1 .. Len(lines) /\ b \in 1 .. Len(lines) /\ Len(lines) \in Nat
      /\ k < b /\ lines[k].dir = "label"
      /\ \A i \in (k + 1) .. b : lines[i].dir \in Emits
      /\ DOMAIN lines = 1 .. Len(lines)
  BY BodyOf, LinesAre
<1>2. ASSUME NEW i \in Indices("section"), i < b PROVE i < k
  <2>1. i \in 1 .. Len(lines) /\ lines[i].dir = "section"
    BY <1>1 DEF Indices
  <2>2. ~ (i \in (k + 1) .. b) /\ i # k
    BY <1>1, <2>1 DEF Emits
  <2> QED BY <1>1, <1>2, <2>1, <2>2
<1>3. \A i \in Indices("section") : i < k => i < b
  BY <1>1 DEF Indices
<1>4. {i \in Indices("section") : i < b} = {i \in Indices("section") : i < k}
  BY <1>2, <1>3
<1>5. SectionAt(b) = SectionAt(k)
  <2> DEFINE B(n) == {i \in Indices("section") : i < n}
             NameIn(T) == IF T = {} THEN "text"
                          ELSE lines[CHOOSE i \in T : \A j \in T : j <= i].name
  <2>1. SectionAt(b) = NameIn(B(b)) /\ SectionAt(k) = NameIn(B(k)) /\ B(b) = B(k)
    BY <1>4 DEF SectionAt
  <2> HIDE DEF NameIn, B
  <2> QED BY <2>1
<1>6. lines[b].dir \in Emits /\ lines[b].dir # "comm"
  BY <1>1 DEF Emits
<1>7. (InBss(b) <=> InBss(k)) /\ (InData(b) <=> InData(k))
  BY <1>1, <1>5, <1>6 DEF InBss, InData
<1>8. InBss(b) = InBss(k)
  BY <1>1, <1>5, <1>6 DEF InBss
<1> QED BY <1>5, <1>6, <1>7, <1>8 DEF Region

\* What .start adds stands for no line.
LEMMA StartHasNoLine ==
  ASSUME NEW r, NEW rel, RamCounts(ram)
  PROVE  \A s \in 1 .. Len(StartCode(r, rel)) : StartCode(r, rel)[s].line = 0
<1>1. Len(DataItems(rel)) \in Nat
  BY DataItemsAre
<1>2. Injected(StartCode(r, rel))
  BY <1>1, CopyInjected, JumpInjected, InjectedJoin DEF StartCode
<1> PICK items : items = StartCode(r, rel)
  OBVIOUS
<1>3. DOMAIN items = 1 .. Len(items) /\ \A item \in ToSet(items) : item.line = 0
  BY <1>2, SeqIs DEF Injected
<1> QED BY <1>3 DEF ToSet

\* What stands for a line is one of the items of the first pass.
LEMMA OnlyLines ==
  ASSUME NEW r, NEW rel, NEW lab, Settled(r, rel, lab),
         NEW x \in 1 .. Len(rom.pending), rom.pending[x].line # 0
  PROVE  x \in 1 .. Len(r.pending) /\ r.pending[x].line = rom.pending[x].line
<1>1. RamCounts(ram)
  BY DEF Settled
<1> PICK n : n = Len(r.pending)
  OBVIOUS
<1> PICK c : c = Copied
  OBVIOUS
<1> PICK all : all = Len(rom.pending)
  OBVIOUS
<1>2. /\ n \in Nat /\ c \in Nat /\ all \in Nat /\ n + c <= all
      /\ \A i \in 1 .. n : rom.pending[i] = r.pending[i]
      /\ \A w \in 1 .. c : rom.pending[n + w] = DataItems(rel)[w]
      /\ NeedsStart =>
           /\ Len(StartCode(r, rel)) \in Nat /\ all = (n + c) + Len(StartCode(r, rel))
           /\ \A s \in 1 .. Len(StartCode(r, rel)) :
                rom.pending[(n + c) + s] = StartCode(r, rel)[s]
      /\ ~NeedsStart => all = n /\ c = 0
  BY ImageItems
<1>3. CASE x \in 1 .. n
  BY <1>2, <1>3
<1>4. CASE x \in (n + 1) .. (n + c)
  <2>1. x - n \in 1 .. c /\ n + (x - n) = x
    <3>1. n \in Nat /\ c \in Nat /\ x \in Int /\ n + 1 <= x /\ x <= n + c
      BY <1>2, <1>4
    <3> QED BY ONLY <3>1
  <2>2. c = Len(DataItems(rel))
    BY <1>1, <1>2, <2>1, DataItemsAre DEF Copied
  <2>3. DataItems(rel)[x - n].line = 0
    BY <1>1, <2>1, <2>2, DataItemsAre
  <2> QED BY <1>2, <2>1, <2>3
<1>5. CASE x \in (n + c + 1) .. all
  <2>1. NeedsStart
    BY <1>2, <1>5
  <2> PICK s : s = x - (n + c)
    OBVIOUS
  <2> PICK l : l = Len(StartCode(r, rel))
    OBVIOUS
  <2>2. l \in Nat /\ all = (n + c) + l /\ n \in Nat /\ c \in Nat
    BY <1>2, <2>1
  <2>3. s \in 1 .. l /\ (n + c) + s = x
    <3>1. x \in Int /\ x >= n + c + 1 /\ x <= all /\ s = x - (n + c)
      BY <1>5, <2>2
    <3> QED BY ONLY <2>2, <3>1
  <2>4. StartCode(r, rel)[s].line = 0
    BY <1>1, <2>3, StartHasNoLine
  <2> QED BY <1>2, <2>1, <2>3, <2>4
<1> QED BY <1>2, <1>3, <1>4, <1>5

LEMMA CodeIndex ==
  ASSUME NEW r, NEW rel, NEW lab, Settled(r, rel, lab), NEW b, Code(b),
         NEW i \in 1 .. Len(r.pending), r.pending[i].line = b
  PROVE  IndexOf(b) = i /\ i \in DOMAIN image
<1>1. /\ Given /\ InOrder(r) /\ b \in Int /\ b # 0
  <2>1. Given /\ InOrder(r)
    BY DEF Settled, Finished, Final
  <2> QED BY <2>1, LinesAre DEF Code
<1> PICK n : n = Len(r.pending)
  OBVIOUS
<1> PICK all : all = Len(rom.pending)
  OBVIOUS
<1>2. /\ n \in Nat /\ all \in Nat /\ n <= all
      /\ \A x \in 1 .. n : rom.pending[x] = r.pending[x]
  <2>1. n \in Nat /\ Copied \in Nat /\ all \in Nat /\ n + Copied <= all
    BY ImageItems
  <2> QED BY <2>1, ImageItems
<1>3. ASSUME NEW x \in 1 .. all, rom.pending[x].line = b PROVE x = i
  <2>1. x \in 1 .. n /\ r.pending[x].line = b
    BY <1>1, <1>3, OnlyLines
  <2>2. \A u, v \in 1 .. n : r.pending[u].line = b /\ r.pending[v].line = b /\ u < v => b < b
    BY <1>1 DEF InOrder
  <2>3. ~ (b < b)
    BY <1>1
  <2>4. ~ (x < i) /\ ~ (i < x)
    BY <2>1, <2>2, <2>3
  <2> QED BY <1>2, <2>1, <2>4
<1>4. /\ DOMAIN image = 1 .. all
      /\ \A x \in 1 .. all : image[x].line = rom.pending[x].line
  BY WordsAre
<1>5. i \in 1 .. all /\ image[i].line = b
  <2>1. i \in 1 .. n /\ i \in 1 .. all
    BY <1>2
  <2>2. rom.pending[i] = r.pending[i] /\ image[i].line = rom.pending[i].line
    BY <1>2, <1>4, <2>1
  <2> QED BY <2>1, <2>2
<1>6. \A x \in DOMAIN image : image[x].line = b => x = i
  BY <1>3, <1>4
<1> QED BY <1>4, <1>5, <1>6 DEF IndexOf

\* A byte of the image in memory.
LEMMA ImageByte ==
  ASSUME NEW r, NEW rel, NEW lab, Settled(r, rel, lab), NEW q \in 0 .. ((4 * Len(r.pending)) - 1)
  PROVE  /\ (q \div 4) + 1 \in 1 .. Len(r.pending)
         /\ MemoryByte(ROM_BASE + q) = BytesOf(WordOf(r.pending[(q \div 4) + 1]))[(q % 4) + 1]
<1> PICK n : n = Len(r.pending)
  OBVIOUS
<1> PICK all : all = Len(rom.pending)
  OBVIOUS
<1>1. /\ n \in Nat /\ all \in Nat /\ n <= all
      /\ \A i \in 1 .. n : rom.pending[i] = r.pending[i]
  <2>1. Copied \in Nat /\ n \in Nat /\ all \in Nat /\ n + Copied <= all
    BY ImageItems
  <2> QED BY <2>1, ImageItems
<1>2. /\ all <= RESET_ROW
      /\ \A i \in 0 .. (all - 1) : RomWord(i) = WordOf(rom.pending[i + 1])
  BY WordsAre
<1> PICK i : i = q \div 4
  OBVIOUS
<1> PICK j : j = q % 4
  OBVIOUS
<1>3. q \in Nat /\ q < 4 * n
  BY <1>1
<1>4. i \in Nat /\ j \in 0 .. 3 /\ q = (4 * i) + j /\ i < n
  BY <1>1, <1>3, WordAndByte
<1>5. i \in 0 .. (all - 1) /\ i + 1 \in 1 .. n /\ i \in 0 .. (RESET_ROW + 3)
  BY <1>1, <1>2, <1>4, MachineIs
<1>6. RomWord(i) = WordOf(r.pending[i + 1])
  BY <1>1, <1>2, <1>5
<1>7. MemoryByte(ROM_BASE + ((4 * i) + j)) = BytesOf(RomWord(i))[j + 1]
  BY <1>4, <1>5, RomBytes
<1> QED BY <1>4, <1>5, <1>6, <1>7

\* The bytes a line stands for are those the first pass knows, if it knows any.
LEMMA LiteralIs ==
  ASSUME Given, NEW k \in Objects, NEW b \in Body(k), lines[b].dir # "ins", ~Refers(b)
  PROVE  LineBytes(b) = Literal(b) /\ Literal(b) = [i \in 1 .. Size(b) |-> Literal(b)[i]]
<1>1. b \in DOMAIN lines /\ lines[b].dir \in {"long", "data", "zero", "comm"}
  <2>1. CASE lines[k].dir = "comm"
    BY <2>1, BodyOf, LinesAre DEF Body
  <2>2. CASE lines[k].dir # "comm"
    BY <2>2, SameSection, BodyOf, LinesAre DEF Emits
  <2> QED BY <2>1, <2>2
<1>2. CASE lines[b].dir = "data"
  <2>1. lines[b].data \in Seq(Nat)
    BY <1>1, <1>2, TypedLine
  <2>2. DOMAIN lines[b].data = 1 .. Len(lines[b].data)
    BY <2>1
  <2> QED BY <1>2, <2>2 DEF LineBytes, Literal, Size, DataBytes
<1>3. CASE lines[b].dir = "long"
  <2>1. lines[b].data \in Seq(Nat) /\ Len(lines[b].data) = 4
    BY <1>1, <1>3, TypedLine
  <2>2. DOMAIN lines[b].data = 1 .. 4
    BY <2>1
  <2> QED BY <1>3, <2>2 DEF LineBytes, Literal, Size, DataBytes, Refers
<1>4. CASE lines[b].dir \in {"zero", "comm"}
  <2>1. LineBytes(b) = Zeros(Size(b)) /\ Literal(b) = Zeros(Size(b))
    BY <1>4 DEF LineBytes, Literal
  <2>2. Zeros(Size(b)) = [i \in 1 .. Size(b) |-> Zeros(Size(b))[i]]
    BY DEF Zeros
  <2> QED BY <2>1, <2>2
<1> QED BY <1>1, <1>2, <1>3, <1>4

\* A value that names a label is the address it has.
LEMMA ReferenceIs ==
  ASSUME NEW r, NEW rel, NEW lab, Settled(r, rel, lab), NEW b \in DOMAIN lines, Refers(b),
         NEW item, item.kind = "raw", item.expr = lines[b].expr, Resolvable(item)
  PROVE  /\ WordOf(item) = DataWord(LineBytes(b)) /\ Size(b) = 4
         /\ LineBytes(b) = [i \in 1 .. 4 |-> LineBytes(b)[i]]
<1>1. /\ Given /\ Addresses(label_map) /\ OffsetsAreBytes
  BY DEF Settled, Limits
<1> PICK expr : expr = lines[b].expr
  OBVIOUS
<1>2. lines[b].dir = "long" /\ expr # NoExpr /\ expr.kind = "sym" /\ expr.off \in Int
  BY <1>1, TypedLine DEF Refers
<1>3. Defined(expr, label_map)
  BY <1>2 DEF Resolvable
<1> PICK a : a = label_map[expr.sym]
  OBVIOUS
<1>4. a \in Int
  BY <1>1, <1>3 DEF Addresses, Defined
<1>5. expr.off = 0 \/ (a >= WORD_LIMIT /\ a + expr.off >= WORD_LIMIT)
  BY <1>1, <1>2 DEF OffsetsAreBytes, OffsetIsBytes, Indices
<1>6. physical(eval_label_expr(expr, label_map)) = physical(a) + expr.off
  <2>1. eval_label_expr(expr, label_map) = a + expr.off
    BY DEF eval_label_expr
  <2>2. CASE expr.off = 0
    <3>1. a + expr.off = a
      BY <1>4, <2>2
    <3>2. physical(a) \in Int
      <4>1. (4 * a) % ROM_SIZE \in Int /\ ROM_BASE \in Int
        BY <1>4, RomAssumption, MachineIs
      <4> QED BY <1>4, <4>1 DEF physical
    <3> QED BY <2>1, <2>2, <3>1, <3>2
  <2>3. CASE a >= WORD_LIMIT /\ a + expr.off >= WORD_LIMIT
    BY <2>1, <2>3 DEF physical
  <2> QED BY <1>5, <2>2, <2>3
<1>7. LineBytes(b) = AddressBytes(physical(a) + expr.off)
  BY <1>2 DEF LineBytes
<1>8. WordOf(item) = DataWord(AddressBytes(physical(eval_label_expr(expr, label_map))))
  BY <1>2 DEF WordOf
<1>9. Size(b) = 4
  BY <1>2 DEF Size
<1>10. LineBytes(b) = [i \in 1 .. 4 |-> LineBytes(b)[i]]
  BY <1>7 DEF AddressBytes
<1> QED BY <1>6, <1>7, <1>8, <1>9, <1>10

\* The n bytes f are in memory from a.
Row(f, n) == f = [i \in 1 .. n |-> f[i]]
Found(a, n, f) == \A j \in 1 .. n : MemoryByte(a + j - 1) = f[j]

LEMMA BytesAre ==
  ASSUME NEW a, NEW n, NEW f, Row(f, n), Found(a, n, f)
  PROVE  Bytes(a, n) = f
<1>1. Bytes(a, n) = [i \in 1 .. n |-> MemoryByte(a + i - 1)]
  BY DEF Bytes
<1>2. [i \in 1 .. n |-> MemoryByte(a + i - 1)] = [i \in 1 .. n |-> f[i]]
  BY DEF Found
<1>3. f = [i \in 1 .. n |-> f[i]]
  BY DEF Row
<1> QED BY <1>1, <1>2, <1>3

LEMMA DataWordBytes ==
  ASSUME NEW bytes
  PROVE  BytesOf(DataWord(bytes)) = bytes
  BY DEF BytesOf, DataWord

LEMMA ItemResolves ==
  ASSUME NEW r, NEW rel, NEW lab, Settled(r, rel, lab), NEW i \in 1 .. Len(r.pending)
  PROVE  Resolvable(r.pending[i])
<1>1. /\ ImageIs /\ rom.pending[i] = r.pending[i] /\ i \in 1 .. Len(rom.pending)
  BY ImageItems DEF Settled
<1>2. i \in DOMAIN image /\ DOMAIN image = DOMAIN rom.pending
  BY <1>1, WordsAre DEF ImageIs
<1> QED BY <1>1, <1>2 DEF ImageIs

\* In the image, at the place p.
LEMMA ImageCode ==
  ASSUME NEW r, NEW rel, NEW lab, Settled(r, rel, lab), NEW b \in DOMAIN lines, NEW p \in Nat,
         InImage(r, p, b), lines[b].dir = "ins"
  PROVE  CodeAddress(b) = ROM_BASE + p
<1> PICK i : i = p \div 4
  OBVIOUS
<1>1. p % 4 = 0 /\ i + 1 \in 1 .. Len(r.pending) /\ r.pending[i + 1].line = b
  BY DEF InImage
<1>2. p = 4 * i /\ i \in Nat
  BY <1>1, WordAndByte
<1>3. IndexOf(b) = i + 1
  BY <1>1, CodeIndex DEF Code
<1>4. (i + 1) - 1 = i
  BY <1>2
<1> QED BY <1>2, <1>3, <1>4 DEF CodeAddress

LEMMA ImageReference ==
  ASSUME NEW r, NEW rel, NEW lab, Settled(r, rel, lab), NEW b \in DOMAIN lines, NEW p \in Nat,
         InImage(r, p, b), Refers(b)
  PROVE  Bytes(ROM_BASE + p, Size(b)) = LineBytes(b)
<1> PICK i : i = p \div 4
  OBVIOUS
<1>1. /\ p % 4 = 0 /\ i + 1 \in 1 .. Len(r.pending)
      /\ r.pending[i + 1].kind = "raw" /\ r.pending[i + 1].expr = lines[b].expr
  BY DEF InImage
<1>2. p = 4 * i /\ i \in Nat /\ ROM_BASE \in Nat /\ Len(r.pending) \in Nat
  BY <1>1, WordAndByte, MachineIs, ImageItems
<1>3. Resolvable(r.pending[i + 1])
  BY <1>1, ItemResolves
<1>4. /\ WordOf(r.pending[i + 1]) = DataWord(LineBytes(b)) /\ Size(b) = 4
      /\ LineBytes(b) = [j \in 1 .. 4 |-> LineBytes(b)[j]]
  BY <1>1, <1>3, ReferenceIs
<1>5. ASSUME NEW j \in 1 .. 4 PROVE MemoryByte((ROM_BASE + p) + j - 1) = LineBytes(b)[j]
  <2> PICK q : q = p + (j - 1)
    OBVIOUS
  <2> PICK n : n = Len(r.pending)
    OBVIOUS
  <2>1. q \in 0 .. ((4 * n) - 1) /\ q \div 4 = i /\ q % 4 = j - 1
        /\ (ROM_BASE + p) + j - 1 = ROM_BASE + q
    BY <1>1, <1>2
  <2>2. MemoryByte(ROM_BASE + q) = BytesOf(WordOf(r.pending[i + 1]))[(j - 1) + 1]
    BY <2>1, ImageByte
  <2>3. (j - 1) + 1 = j
    OBVIOUS
  <2> QED BY <1>4, <2>1, <2>2, <2>3, DataWordBytes
<1> PICK a : a = ROM_BASE + p
  OBVIOUS
<1> PICK f : f = LineBytes(b)
  OBVIOUS
<1>6. Row(f, 4) /\ Found(a, 4, f)
  BY <1>4, <1>5 DEF Row, Found
<1>7. Bytes(a, 4) = f
  BY <1>6, BytesAre
<1> QED BY <1>4, <1>7

LEMMA ImageLiteral ==
  ASSUME NEW r, NEW rel, NEW lab, Settled(r, rel, lab), NEW k \in Objects, NEW b \in Body(k),
         NEW p \in Nat, InImage(r, p, b), lines[b].dir # "ins", ~Refers(b),
         Size(b) \in Nat, p + Size(b) <= 4 * Len(r.pending)
  PROVE  Bytes(ROM_BASE + p, Size(b)) = LineBytes(b)
<1>1. /\ LineBytes(b) = Literal(b) /\ Literal(b) = [i \in 1 .. Size(b) |-> Literal(b)[i]]
  BY LiteralIs DEF Settled
<1>2. \A j \in 1 .. Size(b) : Has(r, (p + j) - 1, Literal(b)[j])
  BY DEF InImage
<1>3. ASSUME NEW j \in 1 .. Size(b) PROVE MemoryByte((ROM_BASE + p) + j - 1) = Literal(b)[j]
  <2> PICK q : q = (p + j) - 1
    OBVIOUS
  <2> PICK n : n = Len(r.pending)
    OBVIOUS
  <2>1. n \in Nat /\ ROM_BASE \in Nat
    BY ImageItems, MachineIs
  <2>2. q \in 0 .. ((4 * n) - 1) /\ q < 4 * n /\ (ROM_BASE + p) + j - 1 = ROM_BASE + q
    BY <2>1
  <2> PICK item : item = r.pending[(q \div 4) + 1]
    OBVIOUS
  <2>3. item.kind = "raw" /\ item.expr = NoExpr /\ item.bytes[(q % 4) + 1] = Literal(b)[j]
    <3>1. Has(r, q, Literal(b)[j])
      BY <1>2
    <3> QED BY <2>2, <3>1 DEF Has
  <2>4. WordOf(item) = DataWord(item.bytes)
    BY <2>3 DEF WordOf
  <2>5. MemoryByte(ROM_BASE + q) = BytesOf(WordOf(item))[(q % 4) + 1]
    BY <2>2, ImageByte
  <2> QED BY <2>2, <2>3, <2>4, <2>5, DataWordBytes
<1> PICK a : a = ROM_BASE + p
  OBVIOUS
<1> PICK n : n = Size(b)
  OBVIOUS
<1> PICK f : f = Literal(b)
  OBVIOUS
<1>4. Row(f, n) /\ Found(a, n, f)
  BY <1>1, <1>3 DEF Row, Found
<1>5. Bytes(a, n) = f
  BY <1>4, BytesAre
<1> QED BY <1>1, <1>5

-----------------------------------------------------------------------------
(***************************************************************************)
(* The RAM once .start has copied w words of the image, from n on.         *)
(***************************************************************************)
Held(n, w) ==
  /\ DOMAIN cpu.mem = RAM_BASE .. ((RAM_BASE + (4 * w)) - 1)
  /\ \A q \in 0 .. ((4 * w) - 1) :
       cpu.mem[RAM_BASE + q] = BytesOf(RomWord(n + (q \div 4)))[(q % 4) + 1]

LEMMA DataByte ==
  ASSUME NEW r, NEW rel, NEW lab, Settled(r, rel, lab), Held(Len(r.pending), Copied),
         NEW q \in 0 .. ((4 * Copied) - 1)
  PROVE  /\ (q \div 4) + 1 \in 1 .. Copied /\ Copied = Len(DataItems(rel))
         /\ MemoryByte(RAM_BASE + q)
              = BytesOf(WordOf(DataItems(rel)[(q \div 4) + 1]))[(q % 4) + 1]
<1>1. /\ RamCounts(ram) /\ CopyIsShort
  BY DEF Settled, Limits
<1> PICK n : n = Len(r.pending)
  OBVIOUS
<1> PICK c : c = Copied
  OBVIOUS
<1> PICK all : all = Len(rom.pending)
  OBVIOUS
<1> PICK i : i = q \div 4
  OBVIOUS
<1>2. /\ n \in Nat /\ c \in Nat /\ all \in Nat /\ n + c <= all
      /\ \A w \in 1 .. c : rom.pending[n + w] = DataItems(rel)[w]
      /\ ~NeedsStart => c = 0
  BY ImageItems
<1>3. q \in Nat /\ q < 4 * c
  BY <1>2
<1>4. i \in Nat /\ i < c /\ i + 1 \in 1 .. c
  BY <1>2, <1>3, WordAndByte
<1>5. /\ (4 * c) + 4 <= HALF /\ RAM_BASE + (4 * c) <= BSS_MARK
  BY <1>1, BasesAre
<1>6. ~InRom(RAM_BASE + q)
  BY <1>2, <1>3, <1>5, MachineIs DEF InRom
<1>7. RAM_BASE + q \in DOMAIN cpu.mem
  BY <1>2, <1>3, MachineIs DEF Held
<1>8. cpu.mem[RAM_BASE + q] = BytesOf(RomWord(n + i))[(q % 4) + 1]
  BY <1>3 DEF Held
<1>9. RomWord(n + i) = WordOf(DataItems(rel)[i + 1])
  <2> PICK x : x = n + i
    OBVIOUS
  <2>1. x \in 0 .. (all - 1) /\ x + 1 = n + (i + 1)
    <3>1. n \in Nat /\ c \in Nat /\ all \in Nat /\ n + c <= all /\ i \in Nat /\ i < c
      BY <1>2, <1>4
    <3>2. x = n + i
      OBVIOUS
    <3> QED BY ONLY <3>1, <3>2
  <2>2. RomWord(x) = WordOf(rom.pending[x + 1])
    BY <2>1, WordsAre
  <2> QED BY <1>2, <1>4, <2>1, <2>2
<1>10. MemoryByte(RAM_BASE + q) = cpu.mem[RAM_BASE + q]
  BY <1>6, <1>7 DEF MemoryByte
<1>11. c = Len(DataItems(rel))
  <2>1. NeedsStart
    BY <1>2, <1>3
  <2> QED BY <1>1, <2>1, DataItemsAre DEF Copied
<1> QED BY <1>4, <1>8, <1>9, <1>10, <1>11

LEMMA DataResolves ==
  ASSUME NEW r, NEW rel, NEW lab, Settled(r, rel, lab), NEW w \in 1 .. Copied
  PROVE  Resolvable(DataItems(rel)[w])
<1> PICK n : n = Len(r.pending)
  OBVIOUS
<1> PICK c : c = Copied
  OBVIOUS
<1> PICK all : all = Len(rom.pending)
  OBVIOUS
<1>1. /\ n \in Nat /\ c \in Nat /\ all \in Nat /\ n + c <= all
      /\ \A x \in 1 .. c : rom.pending[n + x] = DataItems(rel)[x]
  BY ImageItems
<1>2. n + w \in 1 .. all
  BY <1>1
<1>3. ImageIs /\ DOMAIN image = 1 .. all
  BY WordsAre DEF Settled
<1>4. n + w \in DOMAIN rom.pending
  BY <1>2, <1>3 DEF ImageIs
<1> QED BY <1>1, <1>3, <1>4 DEF ImageIs

LEMMA RamReference ==
  ASSUME NEW r, NEW rel, NEW lab, Settled(r, rel, lab), Held(Len(r.pending), Copied),
         NEW b \in DOMAIN lines, NEW p \in Nat, InRamData(ram, rel, p, b), Refers(b),
         p + 4 <= 4 * Copied
  PROVE  Bytes(RAM_BASE + p, Size(b)) = LineBytes(b)
<1>1. /\ RamCounts(ram) /\ CopyIsShort
  BY DEF Settled, Limits
<1> PICK i : i = p \div 4
  OBVIOUS
<1> PICK c : c = Copied
  OBVIOUS
<1>2. p % 4 = 0 /\ p \in DOMAIN rel /\ rel[p] = lines[b].expr
  BY DEF InRamData
<1>3. p = 4 * i /\ i \in Nat /\ RAM_BASE \in Nat /\ c \in Nat /\ i + 1 \in 1 .. c
  <2>1. p = 4 * i /\ i \in Nat /\ RAM_BASE \in Nat /\ c \in Nat
    BY <1>1, <1>2, WordAndByte, MachineIs, BasesAre, SMTT(30)
  <2> QED BY <2>1
<1>4. c = Len(DataItems(rel))
  <2>1. 0 \in 0 .. ((4 * c) - 1)
    BY <1>3
  <2> QED BY <2>1, DataByte
<1>5. DataItems(rel)[i + 1].kind = "raw" /\ DataItems(rel)[i + 1].expr = lines[b].expr
  <2>1. 4 * ((i + 1) - 1) = p
    BY <1>3
  <2> QED BY <1>1, <1>2, <1>3, <1>4, <2>1, DataItemsAre
<1>6. Resolvable(DataItems(rel)[i + 1])
  BY <1>3, DataResolves
<1>7. /\ WordOf(DataItems(rel)[i + 1]) = DataWord(LineBytes(b)) /\ Size(b) = 4
      /\ LineBytes(b) = [j \in 1 .. 4 |-> LineBytes(b)[j]]
  BY <1>5, <1>6, ReferenceIs
<1> PICK f : f = LineBytes(b)
  OBVIOUS
<1> PICK a : a = RAM_BASE + p
  OBVIOUS
<1>8. ASSUME NEW j \in 1 .. 4 PROVE MemoryByte(a + j - 1) = f[j]
  <2> PICK q : q = p + (j - 1)
    OBVIOUS
  <2>1. q \in 0 .. ((4 * c) - 1) /\ q \div 4 = i /\ q % 4 = j - 1
        /\ a + j - 1 = RAM_BASE + q
    BY <1>3
  <2>2. MemoryByte(RAM_BASE + q) = BytesOf(WordOf(DataItems(rel)[i + 1]))[(j - 1) + 1]
    BY <2>1, DataByte
  <2>3. (j - 1) + 1 = j
    OBVIOUS
  <2> QED BY <1>7, <2>1, <2>2, <2>3, DataWordBytes
<1>9. Row(f, 4) /\ Found(a, 4, f)
  BY <1>7, <1>8 DEF Row, Found
<1>10. Bytes(a, 4) = f
  BY <1>9, BytesAre
<1> QED BY <1>7, <1>10

LEMMA RamLiteral ==
  ASSUME NEW r, NEW rel, NEW lab, Settled(r, rel, lab), Held(Len(r.pending), Copied),
         NEW k \in Objects, NEW b \in Body(k), NEW p \in Nat, InRamData(ram, rel, p, b),
         lines[b].dir # "ins", ~Refers(b), Size(b) \in Nat,
         p + Size(b) <= Len(ram.rom_data_bytes), Len(ram.rom_data_bytes) <= 4 * Copied
  PROVE  Bytes(RAM_BASE + p, Size(b)) = LineBytes(b)
<1>1. /\ RamCounts(ram) /\ CopyIsShort /\ Given
  BY DEF Settled, Limits
<1>2. /\ LineBytes(b) = Literal(b) /\ Literal(b) = [i \in 1 .. Size(b) |-> Literal(b)[i]]
  BY <1>1, LiteralIs
<1> PICK f : f = Literal(b)
  OBVIOUS
<1> PICK n : n = Size(b)
  OBVIOUS
<1> PICK a : a = RAM_BASE + p
  OBVIOUS
<1> PICK d : d = Len(ram.rom_data_bytes)
  OBVIOUS
<1> PICK c : c = Copied
  OBVIOUS
<1>3. RAM_BASE \in Nat /\ c \in Nat /\ d \in Nat /\ n \in Nat /\ p + n <= d /\ d <= 4 * c
  BY <1>1, MachineIs, BasesAre, CopiedIs
<1>4. \A j \in 1 .. n : /\ 4 * (((p + j) - 1) \div 4) \notin DOMAIN rel
                        /\ ram.rom_data_bytes[p + j] = f[j]
  BY DEF InRamData
<1>5. ram.rom_data_bytes \in Seq(Byte)
  BY <1>1 DEF RamCounts, RamType
<1>6. ASSUME NEW j \in 1 .. n PROVE MemoryByte(a + j - 1) = f[j]
  <2> PICK q : q = (p + j) - 1
    OBVIOUS
  <2>1. q \in 0 .. ((4 * c) - 1) /\ q \in 0 .. (d - 1) /\ a + j - 1 = RAM_BASE + q
        /\ q + 1 = p + j
    BY <1>3
  <2> PICK i : i = q \div 4
    OBVIOUS
  <2>2. /\ i + 1 \in 1 .. c /\ c = Len(DataItems(rel))
        /\ MemoryByte(RAM_BASE + q) = BytesOf(WordOf(DataItems(rel)[i + 1]))[(q % 4) + 1]
    BY <2>1, DataByte
  <2>3. 4 * i \notin DOMAIN rel
    BY <1>4
  <2>4. i + 1 \in 1 .. Len(DataItems(rel)) /\ 4 * ((i + 1) - 1) \notin DOMAIN rel
    <3>1. (i + 1) - 1 = i
      BY <1>3, <2>2
    <3> QED BY <2>2, <2>3, <3>1
  <2>5. /\ DataItems(rel)[i + 1].kind = "raw" /\ DataItems(rel)[i + 1].expr = NoExpr
        /\ DataItems(rel)[i + 1].bytes = Packed(ram.rom_data_bytes)[i + 1].bytes
    BY <1>1, <2>4, DataItemsAre, ZenonT(30)
  <2>6. WordOf(DataItems(rel)[i + 1]) = DataWord(Packed(ram.rom_data_bytes)[i + 1].bytes)
    BY <2>5 DEF WordOf
  <2>7. Packed(ram.rom_data_bytes)[i + 1].bytes[(q % 4) + 1] = ram.rom_data_bytes[q + 1]
    BY <1>5, <2>1, PackedHolds
  <2>8. MemoryByte(RAM_BASE + q) = ram.rom_data_bytes[q + 1]
    BY <2>2, <2>6, <2>7, DataWordBytes, ZenonT(30)
  <2>9. ram.rom_data_bytes[q + 1] = f[j]
    BY <1>4, <2>1
  <2> QED BY <2>1, <2>8, <2>9
<1>7. Row(f, n) /\ Found(a, n, f)
  BY <1>2, <1>6 DEF Row, Found
<1>8. Bytes(a, n) = f
  BY <1>7, BytesAre
<1> QED BY <1>2, <1>8

\* RAM that nothing was copied to holds zeros.
LEMMA RamZeros ==
  ASSUME RamCounts(ram), CopyIsShort, NEW n \in Nat, Held(n, Copied), NEW p \in Nat, NEW size \in Nat,
         p + size < BSS_END - BSS_MARK
  PROVE  Bytes((RAM_BASE + (4 * Copied)) + p, size) = Zeros(size)
<1> PICK c : c = Copied
  OBVIOUS
<1> PICK a : a = (RAM_BASE + (4 * c)) + p
  OBVIOUS
<1> PICK f : f = Zeros(size)
  OBVIOUS
<1>1. /\ c \in Nat /\ RAM_BASE + (4 * c) <= BSS_MARK
  BY BasesAre
<1>2. ASSUME NEW j \in 1 .. size PROVE MemoryByte(a + j - 1) = f[j]
  <2> PICK x : x = a + j - 1
    OBVIOUS
  <2>1. x \in Int /\ x >= RAM_BASE + (4 * c) /\ x < ROM_BASE
    BY <1>1, MachineIs
  <2>2. ~InRom(x)
    BY <2>1, MachineIs DEF InRom
  <2>3. x \notin DOMAIN cpu.mem
    BY <1>1, <2>1, MachineIs DEF Held
  <2>4. MemoryByte(x) = ZeroByte
    BY <2>2, <2>3 DEF MemoryByte
  <2> QED BY <2>4 DEF Zeros
<1>3. Row(f, size)
  BY DEF Row, Zeros
<1>4. Found(a, size, f)
  BY <1>2 DEF Found
<1>5. Bytes(a, size) = f
  BY <1>3, <1>4, BytesAre
<1> QED BY <1>5

LEMMA BssLine ==
  ASSUME Given, BssIsPlain, CodeIsText, NEW k \in Objects, NEW b \in Body(k), Region(k) = "bss"
  PROVE  lines[b].dir # "ins" /\ LineBytes(b) = Zeros(Size(b))
<1>1. InBss(k) /\ b \in DOMAIN lines
  BY BodyOf, LinesAre DEF Region
<1>2. CASE lines[k].dir = "comm"
  <2>1. b = k
    BY <1>2, BodyOf
  <2> QED BY <1>2, <2>1 DEF LineBytes
<1>3. CASE lines[k].dir # "comm"
  <2>1. InBss(b) /\ SectionAt(b) = "bss" /\ lines[b].dir \in Emits
    BY <1>1, <1>3, SameSection DEF InBss
  <2>2. lines[b].dir # "ins"
    BY <1>1, <2>1 DEF CodeIsText, Indices
  <2>3. CASE lines[b].dir = "zero"
    BY <2>3 DEF LineBytes
  <2>4. CASE lines[b].dir \in {"long", "data"}
    <3>1. /\ DataBytes(lines[b].data) = Zeros(Size(b))
          /\ lines[b].dir = "long" => lines[b].expr = NoExpr
      BY <1>1, <2>1, <2>4 DEF BssIsPlain, Indices
    <3> QED BY <2>4, <3>1 DEF LineBytes
  <2> QED BY <2>1, <2>2, <2>3, <2>4 DEF Emits
<1> QED BY <1>2, <1>3

\* The sum of two natural numbers is one.
LEMMA NatSum ==
  ASSUME NEW x \in Nat, NEW y \in Nat
  PROVE  x + y \in Nat
  OBVIOUS

\* Every line of every object is in place in the RAM or the ROM.
LEMMA LineInPlace ==
  ASSUME NEW r, NEW rel, NEW lab, Settled(r, rel, lab), Held(Len(r.pending), Copied),
         NEW k \in Objects, NEW b \in Body(k)
  PROVE  LineIsInPlace(k, b)
<1>1. /\ RamCounts(ram) /\ CopyIsShort /\ BssIsPlain /\ Given /\ CodeIsText
  BY DEF Settled, Limits, Source
<1> PICK from : from = From(lab, k)
  OBVIOUS
<1> PICK off : off = Offset(k, b)
  OBVIOUS
<1> PICK size : size = Size(b)
  OBVIOUS
<1> PICK room : room = Room(r, k)
  OBVIOUS
<1> PICK base : base = Base(k)
  OBVIOUS
<1> PICK p : p = from + off
  OBVIOUS
<1> PICK a : a = Address(lines[k].name) + Offset(k, b)
  OBVIOUS
<1>2. /\ b \in DOMAIN lines /\ off \in Nat /\ size \in Nat /\ room \in Nat /\ from \in Nat
      /\ p + size <= room /\ LineAt(Region(k), r, ram, rel, p, b)
  <2>1. from \in 0 .. room /\ room \in Nat
    BY AddressIs
  <2>2. /\ b \in DOMAIN lines /\ off \in Nat /\ size \in Nat
        /\ (from + off) + size <= room /\ LineAt(Region(k), r, ram, rel, from + off, b)
    BY LineFits
  <2> QED BY <2>1, <2>2
<1>3. p \in Nat
  BY <1>2, NatSum
<1>4. base \in Nat
  BY <1>1, BasesAre, MachineIs DEF Base
<1>5. a = base + p
  <2>1. Address(lines[k].name) = base + from
    BY AddressIs
  <2> QED BY <1>2, <1>4, <2>1
<1>6. /\ Region(k) \in {"image", "data", "bss"}
      /\ Region(k) = "image" => room = 4 * Len(r.pending)
      /\ Region(k) = "data" => room = Len(ram.rom_data_bytes) /\ room <= 4 * Copied
      /\ Region(k) = "bss" => room < BSS_END - BSS_MARK
  BY RoomIs DEF Room
<1>7. Refers(b) => lines[b].dir # "ins" /\ size = 4
  BY DEF Refers, Size
<1>8. IF lines[b].dir = "ins" THEN CodeAddress(b) = a ELSE Bytes(a, Size(b)) = LineBytes(b)
  <2>1. CASE Region(k) = "image"
    <3>1. base = ROM_BASE /\ InImage(r, p, b) /\ p + size <= 4 * Len(r.pending)
      BY <1>2, <1>6, <2>1 DEF Base, LineAt
    <3>2. CASE lines[b].dir = "ins"
      BY <1>2, <1>3, <1>5, <3>1, <3>2, ImageCode
    <3>3. CASE Refers(b)
      BY <1>2, <1>3, <1>5, <1>7, <3>1, <3>3, ImageReference
    <3>4. CASE lines[b].dir # "ins" /\ ~Refers(b)
      BY <1>2, <1>3, <1>5, <3>1, <3>4, ImageLiteral
    <3> QED BY <3>2, <3>3, <3>4
  <2>2. CASE Region(k) = "data"
    <3>1. base = RAM_BASE /\ InRamData(ram, rel, p, b)
      BY <1>2, <2>2 DEF Base, LineAt
    <3>2. lines[b].dir # "ins"
      <4>1. lines[k].dir # "comm" /\ SectionAt(k) \in {"data", "rodata"}
        BY <2>2 DEF Region, InData
      <4>2. SectionAt(b) = SectionAt(k)
        BY <1>1, <4>1, SameSection
      <4> QED BY <1>1, <1>2, <4>1, <4>2 DEF CodeIsText, Indices
    <3>3. CASE Refers(b)
      <4>1. p + 4 <= 4 * Copied
        <5> PICK c : c = Copied
          OBVIOUS
        <5>1. c \in Nat
          BY <1>1, BasesAre
        <5> QED BY <1>2, <1>3, <1>6, <1>7, <2>2, <3>3, <5>1, SMTT(30)
      <4> QED BY <1>2, <1>3, <1>5, <1>7, <3>1, <3>3, <4>1, RamReference
    <3>4. CASE ~Refers(b)
      BY <1>2, <1>3, <1>5, <1>6, <2>2, <3>1, <3>2, <3>4, RamLiteral
    <3> QED BY <3>2, <3>3, <3>4
  <2>3. CASE Region(k) = "bss"
    <3>1. base = RAM_BASE + (4 * Copied)
      BY <2>3 DEF Base
    <3>2. lines[b].dir # "ins" /\ LineBytes(b) = Zeros(Size(b))
      BY <1>1, <2>3, BssLine
    <3>3. p + size < BSS_END - BSS_MARK
      BY <1>2, <1>3, <1>6, <2>3, MachineIs, SMTT(30)
    <3>4. Len(r.pending) \in Nat
      BY ImageItems
    <3>5. Bytes(base + p, size) = Zeros(size)
      BY <1>1, <1>2, <1>3, <3>1, <3>3, <3>4, RamZeros
    <3> QED BY <1>5, <3>2, <3>5
  <2> QED BY <1>6, <2>1, <2>2, <2>3
<1> QED BY <1>8 DEF LineIsInPlace

LEMMA MemoryHolds ==
  ASSUME NEW r, NEW rel, NEW lab, Settled(r, rel, lab), Held(Len(r.pending), Copied)
  PROVE  /\ \A k \in Objects : ObjectIsInPlace(k)
         /\ \A k, m \in Objects : k # m => Place(k) \cap Place(m) = {}
         /\ DOMAIN cpu.mem \subseteq RAM_BASE .. DataEnd
         /\ \A k \in Objects : Address(lines[k].name) < ROM_BASE =>
              Place(k) \subseteq RAM_BASE .. (DataEnd + ram.ram_bss_offset)
<1>1. \A k \in Objects : ObjectIsInPlace(k)
  BY LineInPlace, ObjectAligned DEF ObjectIsInPlace
<1>2. \A k, m \in Objects : k # m => Place(k) \cap Place(m) = {}
  BY ObjectsApart
<1>3. DOMAIN cpu.mem \subseteq RAM_BASE .. DataEnd
  <2> PICK c : c = Copied
    OBVIOUS
  <2> PICK d : d = Len(ram.rom_data_bytes)
    OBVIOUS
  <2>1. RamCounts(ram) /\ CopyIsShort
    BY DEF Settled, Limits
  <2>2. c \in Nat /\ d \in Nat /\ 4 * c <= d + 3
    <3> PICK p : p = Pad(Len(ram.rom_data_bytes), 4)
      OBVIOUS
    <3>1. d \in Nat /\ c \in Nat /\ p \in 0 .. 3 /\ (NeedsStart => 4 * c = d + p)
          /\ (~NeedsStart => c = 0)
      BY <2>1, CopiedIs
    <3> QED BY <3>1
  <2>3. DOMAIN cpu.mem = RAM_BASE .. ((RAM_BASE + (4 * c)) - 1)
    BY DEF Held
  <2>4. DataEnd = RAM_BASE + d + 3 /\ RAM_BASE \in Nat
    BY MachineIs DEF DataEnd
  <2>5. (RAM_BASE + (4 * c)) - 1 <= RAM_BASE + d + 3
    BY <2>2, <2>4
  <2> QED BY <2>2, <2>3, <2>4, <2>5
<1>4. \A k \in Objects : Address(lines[k].name) < ROM_BASE =>
        Place(k) \subseteq RAM_BASE .. (DataEnd + ram.ram_bss_offset)
  BY ObjectInRam
<1> QED BY <1>1, <1>2, <1>3, <1>4

-----------------------------------------------------------------------------
(***************************************************************************)
(* A label is of an object of the source, or it is .start.                 *)
(***************************************************************************)
Named(name) == \E k \in Objects : lines[k].name = name
NamesInv ==
  /\ phase = "first" => \A name \in DOMAIN label_map : Named(name)
  /\ phase \in Later =>
       \A name \in DOMAIN label_map : Named(name) \/ (name = ".start" /\ NeedsStart)

LEMMA LineNames ==
  ASSUME NamesInv, FirstPass, ~Raise, Numbered
  PROVE  NamesInv'
<1>1. PICK dir : Reading(dir)
  BY DEF FirstPass, Section, Comm, Align, Long, Data, Zero, Label, Ignored, Instruction
<1>2. /\ phase = "first" /\ phase' = "first" /\ SameJob /\ line \in DOMAIN lines
  BY <1>1 DEF Reading, SameJob
<1>3. \A name : Named(name)' <=> Named(name)
  BY <1>2, SameSource DEF Named
<1>4. \/ label_map' = label_map
      \/ /\ ThisLine.dir \in {"label", "comm"}
         /\ \E a : label_map' = Assigned(label_map, ThisLine.name, a)
  <2>1. CASE Comm
    BY <2>1 DEF Comm, CommRom, CommRam, Reading
  <2>2. CASE Label
    BY <2>2 DEF Label, Reading
  <2>3. CASE ~(Comm \/ Label)
    BY <2>3 DEF FirstPass, Section, Align, Long, Data, Zero, Ignored, Instruction
  <2> QED BY <2>1, <2>2, <2>3
<1>5. ThisLine.dir \in {"label", "comm"} => Named(ThisLine.name)
  BY <1>2 DEF Named, Objects, Indices, ThisLine
<1>6. \A name \in DOMAIN label_map' : Named(name)
  <2>1. \A name \in DOMAIN label_map : Named(name)
    BY <1>2 DEF NamesInv
  <2> QED BY <1>4, <1>5, <2>1 DEF Assigned
<1> QED BY <1>2, <1>3, <1>6 DEF NamesInv, Later

LEMMA StepNames ==
  ASSUME NamesInv, [BootNext]_vars, Numbered
  PROVE  NamesInv'
<1>1. CASE FirstPass /\ ~Raise
  BY <1>1, LineNames
<1>2. CASE Raise
  BY <1>2 DEF Raise, NamesInv, Later
<1>3. CASE EndFirstPass
  <2>1. phase = "first" /\ phase' = "second" /\ SameJob /\ ram' = ram
    BY <1>3 DEF EndFirstPass, SameJob
  <2>2. \A name : Named(name)' <=> Named(name)
    BY <2>1, SameSource DEF Named
  <2>3. NeedsStart' <=> NeedsStart
    BY <2>1, SameSource DEF NeedsStart
  <2>4. DOMAIN FixedUp(label_map) = DOMAIN label_map
    BY DEF FixedUp
  <2>5. \/ label_map' = FixedUp(label_map)
        \/ NeedsStart /\ \E a : label_map' = Assigned(FixedUp(label_map), ".start", a)
    BY <1>3 DEF EndFirstPass, InjectStart
  <2>6. \A name \in DOMAIN label_map' :
          name \in DOMAIN label_map \/ (name = ".start" /\ NeedsStart)
    BY <2>4, <2>5 DEF Assigned
  <2> QED BY <2>1, <2>2, <2>3, <2>6 DEF NamesInv, Later
<1>4. CASE SecondPass \/ write_rom_logisim \/ Cpu \/ UNCHANGED vars
  <2>1. /\ SameJob /\ UNCHANGED <<ram, label_map>>
        /\ phase' = phase \/ (phase \in Later /\ phase' \in Later)
    <3>1. CASE SecondPass
      BY <3>1 DEF SecondPass, SameJob, Later
    <3>2. CASE write_rom_logisim
      BY <3>2 DEF write_rom_logisim, SameJob, Later
    <3>3. CASE Cpu \/ UNCHANGED vars
      <4>1. UNCHANGED asm_vars
        BY <3>3 DEF Cpu, CpuNop, CpuLdi, CpuAdi, CpuLod, CpuStr, CpuJmp, CpuHlt, CpuLost,
                    Executing, vars
      <4> QED BY <4>1 DEF asm_vars, SameJob
    <3> QED BY <1>4, <3>1, <3>2, <3>3
  <2>2. \A name : Named(name)' <=> Named(name)
    BY <2>1, SameSource DEF Named
  <2>3. NeedsStart' <=> NeedsStart
    BY <2>1, SameSource DEF NeedsStart
  <2>4. phase' = "first" => phase = "first"
    BY <2>1 DEF Later
  <2>5. phase' \in Later => phase \in Later
    BY <2>1
  <2> QED BY <2>1, <2>2, <2>3, <2>4, <2>5 DEF NamesInv
<1>5. CASE NextJob
  <2>1. phase' = "first" /\ DOMAIN label_map' = {}
    BY <1>5 DEF NextJob, Begin
  <2> QED BY <2>1 DEF NamesInv, Later
<1> QED BY <1>1, <1>2, <1>3, <1>4, <1>5 DEF BootNext, Running, Assemble, FirstPass

-----------------------------------------------------------------------------
(***************************************************************************)
(* After the first pass every instruction of the source is in the image.   *)
(***************************************************************************)
TracedInv == phase \in Later => IsSeq(rom.pending) /\ Traces(rom, LastLine)

LEMMA SameTraces ==
  ASSUME SameJob, rom' = rom
  PROVE  (IsSeq(rom.pending) /\ Traces(rom, LastLine))' <=>
            IsSeq(rom.pending) /\ Traces(rom, LastLine)
<1>1. lines' = lines
  BY SameSource
<1> QED BY <1>1 DEF Traces, Meant, Code, LastLine, IsSeq

LEMMA StepTraced ==
  ASSUME TracedInv, CodeInv, [BootNext]_vars
  PROVE  TracedInv'
<1>1. CASE FirstPass
  <2>1. phase' \notin Later
    BY <1>1 DEF FirstPass, Section, Comm, Align, Long, Data, Zero, Label, Ignored, Instruction,
                Raise, Reading, Later
  <2> QED BY <2>1 DEF TracedInv
<1>2. CASE EndFirstPass
  <2>1. IsSeq(rom'.pending) /\ Traces(rom', Len(lines) + 1) /\ SameJob
    BY <1>2, EndTraces DEF CodeInv, EndFirstPass, SameJob
  <2>2. lines' = lines
    BY <2>1, SameSource
  <2> QED BY <2>1, <2>2 DEF TracedInv, Traces, Meant, Code, LastLine, IsSeq
<1>3. CASE SecondPass \/ write_rom_logisim \/ Cpu \/ UNCHANGED vars
  <2>1. /\ SameJob /\ rom' = rom /\ (phase' \in Later => phase \in Later)
    <3>1. CASE SecondPass
      BY <3>1 DEF SecondPass, SameJob, Later
    <3>2. CASE write_rom_logisim
      BY <3>2 DEF write_rom_logisim, SameJob, Later
    <3>3. CASE Cpu \/ UNCHANGED vars
      <4>1. UNCHANGED asm_vars
        BY <3>3 DEF Cpu, CpuNop, CpuLdi, CpuAdi, CpuLod, CpuStr, CpuJmp, CpuHlt, CpuLost,
                    Executing, vars
      <4> QED BY <4>1 DEF asm_vars, SameJob
    <3> QED BY <1>3, <3>1, <3>2, <3>3
  <2> QED BY <2>1, SameTraces DEF TracedInv
<1>4. CASE NextJob
  <2>1. phase' \notin Later
    BY <1>4 DEF NextJob, Begin, Later
  <2> QED BY <2>1 DEF TracedInv
<1> QED BY <1>1, <1>2, <1>3, <1>4 DEF BootNext, Running, Assemble

-----------------------------------------------------------------------------
(***************************************************************************)
(* The way in: from where the processor is sent, main or the beginning of  *)
(* .text, there is no code before the entry.                               *)
(***************************************************************************)
Landing(r) == IF "main" \in DOMAIN label_map THEN label_map["main"] ELSE r.text_start_word

LEMMA EntryIsFirst ==
  ASSUME Given, EntryIsCode
  PROVE  EntryLine \in EntryCode /\ Code(EntryLine) /\ \A c \in EntryCode : EntryLine <= c
<1>1. EntryCode \subseteq Nat /\ EntryCode # {}
  BY LinesAre DEF EntryCode, Indices, EntryIsCode
<1>2. PICK m \in EntryCode : \A c \in EntryCode : m <= c
  BY <1>1, FirstOf
<1>3. EntryLine \in EntryCode /\ \A c \in EntryCode : EntryLine <= c
  BY <1>2 DEF EntryLine
<1> QED BY <1>3 DEF EntryCode, Indices, Code

LEMMA LineItem ==
  ASSUME NEW r, NEW rel, NEW lab, Settled(r, rel, lab), TracedInv, phase \in Later, NEW b, Code(b)
  PROVE  \E i \in 1 .. Len(r.pending) : r.pending[i].line = b
<1>1. Traces(rom, Len(lines) + 1) /\ IsSeq(rom.pending)
  BY DEF TracedInv, LastLine
<1>2. b < Len(lines) + 1 /\ b # 0
  <2>1. Given
    BY DEF Settled
  <2> QED BY <2>1, LinesAre DEF Code
<1>3. PICK item \in ToSet(rom.pending) : item.line = b
  BY <1>1, <1>2 DEF Traces
<1>4. PICK x \in DOMAIN rom.pending : rom.pending[x] = item
  BY <1>3 DEF ToSet
<1>5. x \in 1 .. Len(rom.pending)
  BY <1>1, <1>4, SeqIs
<1> QED BY <1>2, <1>3, <1>4, <1>5, OnlyLines

LEMMA MainIs ==
  ASSUME NEW r, NEW rel, NEW lab, Settled(r, rel, lab), NamesInv, phase \in Later, EntryIsCode
  PROVE  /\ "main" \in DOMAIN label_map <=> MainLabels # {}
         /\ \A k \in MainLabels : /\ k \in Indices("label") /\ k < LastLine /\ Region(k) = "image"
                                  /\ lines[k].name = "main"
                                  /\ label_map["main"] = lab["main"]
<1>1. Given
  BY DEF Settled
<1>2. ASSUME NEW k \in MainLabels
      PROVE  /\ k \in Objects /\ k \in Indices("label") /\ lines[k].name = "main"
             /\ Region(k) = "image" /\ "main" \in DOMAIN label_map
             /\ label_map["main"] = lab["main"] /\ k < LastLine
  <2>1. k \in Objects /\ k \in Indices("label") /\ lines[k].name = "main" /\ lines[k].dir = "label"
        /\ k \in DOMAIN lines
    BY DEF MainLabels, Objects, Indices
  <2>2. SectionAt(k) = "text"
    BY <2>1 DEF EntryIsCode
  <2>3. Region(k) = "image"
    BY <2>1, <2>2 DEF Region, InBss, InData
  <2>4. "main" \in DOMAIN label_map /\ label_map["main"] = lab["main"]
    BY <2>1, <2>3, LabelIs, AddressIs
  <2> QED BY <1>1, <2>1, <2>3, <2>4, LinesAre DEF LastLine
<1>3. ASSUME "main" \in DOMAIN label_map PROVE MainLabels # {}
  <2>1. Named("main")
    BY <1>3 DEF NamesInv
  <2>2. PICK k \in Objects : lines[k].name = "main"
    BY <2>1 DEF Named
  <2>3. k \in MainLabels
    BY <2>2 DEF EntryIsCode, MainLabels, Objects, Indices
  <2> QED BY <2>3
<1> QED BY <1>2, <1>3

\* Code that is neither before main nor before .text is not before the entry.
LEMMA LandingIs ==
  ASSUME NEW r, NEW rel, NEW lab, Settled(r, rel, lab), NamesInv, TracedInv, phase \in Later,
         EntryIsCode,
         NEW x \in 1 .. Len(r.pending), r.pending[x].line = EntryLine
  PROVE  /\ Landing(r) \in 0 .. (x - 1)
         /\ "main" \notin DOMAIN label_map => Landing(r) = r.text_start_word
         /\ \A y \in 1 .. Len(r.pending) :
              y > Landing(r) /\ Code(r.pending[y].line) => r.pending[y].line \in EntryCode
<1>1. /\ Given /\ CodeIsText /\ CodeIn(r, LastLine) /\ InOrder(r) /\ Sided(r, lab, LastLine)
  BY DEF Settled, Source, Finished, Final
<1>2. EntryLine \in EntryCode /\ Code(EntryLine)
  BY <1>1, EntryIsFirst
<1>3. \A y \in 1 .. Len(r.pending) : Code(r.pending[y].line) =>
        r.pending[y].line \in Indices("ins") /\ SectionAt(r.pending[y].line) = "text"
  BY <1>1 DEF Code, Indices, CodeIsText
<1>4. Len(r.pending) \in Nat
  BY ImageItems
<1>5. CASE "main" \notin DOMAIN label_map
  <2>1. MainLabels = {}
    BY <1>5, MainIs
  <2>2. Landing(r) = r.text_start_word
    BY <1>5 DEF Landing
  <2>3. r.text_start_word \in 0 .. (x - 1)
    BY <1>1, <1>2 DEF CodeIn
  <2> QED BY <1>3, <2>1, <2>2, <2>3 DEF EntryCode
<1>6. CASE "main" \in DOMAIN label_map
  <2>1. MainLabels # {}
    BY <1>6, MainIs
  <2>2. PICK k \in MainLabels : EntryLine > k
    BY <1>2, <2>1 DEF EntryCode
  <2>3. /\ k \in Indices("label") /\ k < LastLine /\ Region(k) = "image"
        /\ lines[k].name = "main" /\ label_map["main"] = lab["main"]
    BY MainIs
  <2>4. k \in Objects
    BY <2>3 DEF Objects
  <2>5. lab["main"] \in 0 .. Len(r.pending)
    BY <2>3, <2>4, AddressIs
  <2>6. \A y \in 1 .. Len(r.pending) : Code(r.pending[y].line) =>
           (r.pending[y].line > k <=> y > lab["main"])
    BY <1>1, <2>3 DEF Sided
  <2>7. Landing(r) = lab["main"]
    BY <1>6, <2>3 DEF Landing
  <2>8. x > lab["main"]
    BY <1>2, <2>2, <2>6
  <2> PICK l : l = Landing(r)
    OBVIOUS
  <2>9. l \in 0 .. (x - 1)
    <3>1. l \in 0 .. Len(r.pending) /\ x > l
      BY <2>5, <2>7, <2>8
    <3> QED BY <1>4, <3>1
  <2>10. \A y \in 1 .. Len(r.pending) : y > l /\ Code(r.pending[y].line) =>
            r.pending[y].line \in EntryCode
    BY <1>3, <2>6, <2>7 DEF EntryCode
  <2> QED BY <1>6, <2>9, <2>10
<1> QED BY <1>5, <1>6

LEMMA EntryIs ==
  ASSUME NEW r, NEW rel, NEW lab, Settled(r, rel, lab), NamesInv, TracedInv, phase \in Later,
         EntryIsCode
  PROVE  \E e \in Nat : /\ e < Len(r.pending) /\ CodeAddress(EntryLine) = ROM_BASE + (4 * e)
                        /\ Landing(r) \in 0 .. e
                        /\ \A i \in Landing(r) .. (e - 1) : RomWord(i).kind = "data"
<1>1. /\ Given /\ CodeIn(r, LastLine) /\ InOrder(r)
  BY DEF Settled, Source, Finished, Final
<1>2. Code(EntryLine) /\ \A c \in EntryCode : EntryLine <= c
  BY <1>1, EntryIsFirst
<1>3. PICK x \in 1 .. Len(r.pending) : r.pending[x].line = EntryLine
  BY <1>2, LineItem
<1> PICK n : n = Len(r.pending)
  OBVIOUS
<1> PICK l : l = Landing(r)
  OBVIOUS
<1>4. /\ n \in Nat /\ l \in 0 .. (x - 1) /\ x \in 1 .. n
      /\ \A y \in 1 .. n :
           y > l /\ Code(r.pending[y].line) => r.pending[y].line \in EntryCode
  BY <1>3, LandingIs, ImageItems
<1>5. CodeAddress(EntryLine) = ROM_BASE + (4 * (x - 1))
  BY <1>2, <1>3, CodeIndex DEF CodeAddress
<1>6. ASSUME NEW i \in l .. ((x - 1) - 1) PROVE RomWord(i).kind = "data"
  <2>1. i + 1 \in 1 .. n /\ i + 1 > l /\ i + 1 < x /\ i \in Nat /\ i < n
    BY <1>4
  <2>2. ~Code(r.pending[i + 1].line)
    <3> SUFFICES ASSUME Code(r.pending[i + 1].line) PROVE FALSE
      OBVIOUS
    <3>1. EntryLine <= r.pending[i + 1].line
      BY <1>2, <1>4, <2>1
    <3>2. r.pending[i + 1].line < EntryLine
      BY <1>1, <1>2, <1>3, <2>1 DEF InOrder
    <3>3. EntryLine \in Int /\ r.pending[i + 1].line \in Int
      BY <1>1, <1>2, LinesAre DEF Code
    <3> QED BY ONLY <3>1, <3>2, <3>3
  <2>3. r.pending[i + 1].kind = "raw"
    BY <1>1, <2>1, <2>2 DEF CodeIn
  <2>4. RomWord(i) = WordOf(r.pending[i + 1])
    <3> PICK all : all = Len(rom.pending)
      OBVIOUS
    <3>1. Copied \in Nat /\ all \in Nat /\ n + Copied <= all
          /\ \A y \in 1 .. n : rom.pending[y] = r.pending[y]
      BY ImageItems
    <3>2. i \in 0 .. (all - 1)
      BY <1>4, <2>1, <3>1
    <3> QED BY <2>1, <3>1, <3>2, WordsAre
  <2> QED BY <2>3, <2>4 DEF WordOf, DataWord
<1>7. x - 1 \in Nat /\ x - 1 < n /\ l \in 0 .. (x - 1)
  BY <1>4
<1> QED BY <1>5, <1>6, <1>7

-----------------------------------------------------------------------------
(***************************************************************************)
(* The instructions of the assembler's own: the reset vector and .start.   *)
(***************************************************************************)
Instr(word, op, tipo, a, b, m) ==
  word.kind = "ins" /\ word.op = op /\ word.tipo = tipo /\ Holds(word, a, b, m)

\* Word i and the next one load the address u, of memory or of a word, in x.
Loads(i, x, u) ==
  /\ Instr(RomWord(i), OPCODES.LDI, 4, x, 0, compute_hi_lo(u).hi)
  /\ Instr(RomWord(i + 1), OPCODES.ADI, 4, x, 0, compute_hi_lo(u).lo)
Jumps(i) == Instr(RomWord(i), OPCODES.JMP, 0, 0, 15, 0)

LEMMA SplitInRange ==
  ASSUME NEW u \in Int
  PROVE  compute_hi_lo(u).hi \in 0 .. (HALF - 1) /\ compute_hi_lo(u).lo \in 0 .. (HALF - 1)
<1>1. HALF \in Nat \ {0}
  BY MachineIs
<1>0. PICK p : p = physical(u)
  OBVIOUS
<1>2. p \in Int
  <2>1. ROM_SIZE \in Nat \ {0} /\ ROM_BASE \in Int
    BY RomAssumption, MachineIs
  <2> PICK q : q = (4 * u) % ROM_SIZE
    OBVIOUS
  <2>2. q \in Int
    BY <2>1
  <2> QED BY <1>0, <2>1, <2>2 DEF physical
<1>3. \A n \in Int : n % HALF \in 0 .. (HALF - 1)
  BY <1>1
<1>4. p \div HALF \in Int /\ (p \div HALF) + 1 \in Int
  BY <1>1, <1>2
<1>5. high16(p) \in 0 .. (HALF - 1) /\ low16(p) \in 0 .. (HALF - 1)
  BY <1>2, <1>3, <1>4 DEF high16, low16
<1>6. compute_hi_lo(u).hi = high16(p) /\ compute_hi_lo(u).lo = low16(p)
  BY <1>0 DEF compute_hi_lo
<1> QED BY <1>5, <1>6

LEMMA WordsOfStart ==
  ASSUME NEW x \in 0 .. 15, NEW m \in 0 .. (HALF - 1), NEW tipo, NEW op
  PROVE  /\ Instr(build_word(tipo, op, (x * Weight("A")) + m), op, tipo, x, 0, m)
         /\ Instr(build_word(tipo, op, Weight("A") * x + Weight("I") * m + 0), op, tipo, x, 0, m)
         /\ Instr(build_word(tipo, op, (x * Weight("A")) + (2 * Weight("B")) + m),
                  op, tipo, x, 2, m)
         /\ Instr(build_word(tipo, op, x * Weight("B")), op, tipo, 0, x, 0)
<1>1. Weight("A") = 16 * HALF /\ Weight("B") = HALF /\ Weight("I") = 1
  BY DEF Weight
<1>2. HALF \in Nat \ {0}
  BY MachineIs
<1> PICK a : a = (16 * HALF) * x
  OBVIOUS
<1>3. x * (16 * HALF) = a /\ a \in Nat /\ x * HALF = HALF * x /\ HALF * x \in Nat
  BY <1>2
<1>4. /\ (x * Weight("A")) + m = Operands(x, 0, m)
      /\ Weight("A") * x + Weight("I") * m + 0 = Operands(x, 0, m)
      /\ (x * Weight("A")) + (2 * Weight("B")) + m = Operands(x, 2, m)
      /\ x * Weight("B") = Operands(0, x, 0)
  <2>1. /\ (x * Weight("A")) + m = a + m /\ Weight("A") * x + Weight("I") * m + 0 = a + m
        /\ (x * Weight("A")) + (2 * Weight("B")) + m = a + HALF * 2 + m
    BY <1>1, <1>2, <1>3
  <2>2. /\ Operands(x, 0, m) = a + m /\ Operands(x, 2, m) = a + HALF * 2 + m
        /\ Operands(0, x, 0) = HALF * x
    BY <1>2, <1>3 DEF Operands
  <2> QED BY <1>1, <1>3, <2>1, <2>2
<1>5. 0 \in 0 .. (HALF - 1) /\ 0 \in 0 .. 15 /\ 2 \in 0 .. 15
  BY <1>2
<1> QED BY <1>4, <1>5 DEF Instr, Holds, build_word

LEMMA ThreeItems ==
  ASSUME NEW a, NEW b, NEW c
  PROVE  LET items == <<a, b>> \o <<c>>
         IN  Len(items) = 3 /\ items[1] = a /\ items[2] = b /\ items[3] = c
  OBVIOUS

\* The three instructions at the end of .start.
LEMMA JumpItems ==
  ASSUME NEW text_start_word, text_start_word # None
  PROVE  LET items == JumpToMain(label_map, text_start_word)
             there == IF "main" \in DOMAIN label_map THEN label_map["main"] ELSE text_start_word
         IN  /\ Len(items) = 3 /\ IsSeq(items)
             /\ "main" \in DOMAIN label_map =>
                  /\ items[1] = Pending([prefix |-> "H", mnemonic |-> "LDI",
                                         args |-> <<R15, MainOperand("hi")>>], 0)
                  /\ items[2] = Pending([prefix |-> "SLT", mnemonic |-> "ADI",
                                         args |-> <<R15, MainOperand("lo")>>], 0)
             /\ "main" \notin DOMAIN label_map =>
                  /\ items[1] = Ldi(15, compute_hi_lo(there).hi)
                  /\ items[2] = Adi(15, compute_hi_lo(there).lo)
             /\ items[3] = Encoded(build_word(0, OPCODES.JMP, 15 * Weight("B")))
<1> DEFINE ldi == Pending([prefix |-> "H", mnemonic |-> "LDI",
                           args |-> <<R15, MainOperand("hi")>>], 0)
           adi == Pending([prefix |-> "SLT", mnemonic |-> "ADI",
                           args |-> <<R15, MainOperand("lo")>>], 0)
           a == Ldi(15, compute_hi_lo(text_start_word).hi)
           b == Adi(15, compute_hi_lo(text_start_word).lo)
           jmp == Encoded(build_word(0, OPCODES.JMP, 15 * Weight("B")))
           items == JumpToMain(label_map, text_start_word)
<1>1. items = (IF "main" \in DOMAIN label_map THEN <<ldi, adi>> ELSE <<a, b>>) \o <<jmp>>
  BY DEF JumpToMain, LoadAddress
<1>2. IsSeq(items)
  BY JumpInjected DEF Injected
<1> HIDE DEF ldi, adi, a, b, jmp, items
<1>3. CASE "main" \in DOMAIN label_map
  <2>1. items = <<ldi, adi>> \o <<jmp>>
    BY <1>1, <1>3
  <2>2. Len(items) = 3 /\ items[1] = ldi /\ items[2] = adi /\ items[3] = jmp
    BY ONLY <2>1, ThreeItems
  <2> QED BY <1>2, <1>3, <2>2 DEF ldi, adi, jmp, items
<1>4. CASE "main" \notin DOMAIN label_map
  <2>1. items = <<a, b>> \o <<jmp>>
    BY <1>1, <1>4
  <2>2. Len(items) = 3 /\ items[1] = a /\ items[2] = b /\ items[3] = jmp
    BY ONLY <2>1, ThreeItems
  <2> QED BY <1>2, <1>4, <2>2 DEF a, b, jmp, items
<1> QED BY <1>3, <1>4

LEMMA TargetIs ==
  ASSUME NEW r, NEW rel, NEW lab, Settled(r, rel, lab), NamesInv, phase \in Later,
         Landing(r) \in Nat, "main" \notin DOMAIN label_map => r.text_start_word # None
  PROVE  rom_file.target = IF NeedsStart THEN Len(r.pending) + Copied ELSE Landing(r)
<1>1. /\ Finished(r, rel, lab) /\ RomFileIs /\ StartIsFree /\ RamCounts(ram)
  BY DEF Settled, Source
<1>2. rom_file.target = ResetTarget
  BY <1>1 DEF RomFileIs
<1>3. CASE NeedsStart
  <2>1. Len(DataItems(rel)) = Copied
    BY <1>1, <1>3, DataItemsAre DEF Copied
  <2>2. label_map = Assigned(FixedUp(lab), ".start", Len(r.pending) + Copied)
    BY <1>1, <1>3, <2>1 DEF Finished
  <2>3. ".start" \in DOMAIN label_map /\ label_map[".start"] = Len(r.pending) + Copied
    BY <2>2 DEF Assigned
  <2>4. mode = "rom"
    BY <1>3 DEF NeedsStart
  <2> QED BY <1>2, <1>3, <2>3, <2>4 DEF ResetTarget
<1>4. CASE ~NeedsStart
  <2>1. ".start" \notin DOMAIN label_map
    <3>1. ~Named(".start")
      BY <1>1 DEF Named, StartIsFree
    <3> QED BY <1>4, <3>1 DEF NamesInv
  <2>2. rom.text_start_word = r.text_start_word
    BY <1>1 DEF Finished
  <2> QED BY <1>2, <1>4, <2>1, <2>2 DEF ResetTarget, Landing
<1> QED BY <1>3, <1>4

LEMMA VectorIs ==
  ASSUME rom_file.target \in Int
  PROVE  Loads(RESET_ROW, 15, rom_file.target) /\ Jumps(RESET_ROW + 2)
<1> PICK v : v = ResetVector
  OBVIOUS
<1> PICK hi : hi = compute_hi_lo(rom_file.target).hi
  OBVIOUS
<1> PICK lo : lo = compute_hi_lo(rom_file.target).lo
  OBVIOUS
<1>1. /\ v[1] = build_word(4, OPCODES.LDI, (15 * Weight("A")) + hi)
      /\ v[2] = build_word(4, OPCODES.ADI, (15 * Weight("A")) + lo)
      /\ v[3] = build_word(0, OPCODES.JMP, 15 * Weight("B"))
  BY DEF ResetVector
<1>2. RomWord(RESET_ROW) = v[1] /\ RomWord(RESET_ROW + 1) = v[2] /\ RomWord(RESET_ROW + 2) = v[3]
  <2> PICK z : z = RESET_ROW
    OBVIOUS
  <2>1. z \in Nat
    BY MachineIs
  <2>2. ASSUME NEW j \in 0 .. 2 PROVE RomWord(z + j) = v[j + 1]
    <3>1. z + j >= RESET_ROW /\ (z + j) - RESET_ROW + 1 = j + 1
      BY <2>1
    <3> QED BY <3>1 DEF RomWord
  <2>3. z + 0 = z /\ 0 + 1 = 1 /\ 1 + 1 = 2 /\ 2 + 1 = 3
    BY <2>1
  <2> QED BY <2>2, <2>3
<1>3. hi \in 0 .. (HALF - 1) /\ lo \in 0 .. (HALF - 1) /\ 15 \in 0 .. 15
  BY SplitInRange
<1>4. /\ Instr(v[1], OPCODES.LDI, 4, 15, 0, hi) /\ Instr(v[2], OPCODES.ADI, 4, 15, 0, lo)
      /\ Instr(v[3], OPCODES.JMP, 0, 0, 15, 0)
  BY <1>1, <1>3, WordsOfStart
<1> QED BY <1>2, <1>4 DEF Loads, Jumps

\* The instructions that copy n words from the word start on.
LEMMA CopyItems ==
  ASSUME NEW start, NEW n \in Nat \ {0}
  PROVE  LET items == CopyData(start, n)
         IN  /\ IsSeq(items) /\ Len(items) = 4 + (2 * n)
             /\ items[1] = Ldi(15, compute_hi_lo(start).hi)
             /\ items[2] = Adi(15, compute_hi_lo(start).lo)
             /\ items[3] = Ldi(1, compute_hi_lo(RAM_BASE).hi)
             /\ items[4] = Adi(1, compute_hi_lo(RAM_BASE).lo)
             /\ \A w \in 0 .. (n - 1) :
                  /\ items[4 + ((2 * w) + 1)] = Move(OPCODES.LOD, 15, 4 * w)
                  /\ items[4 + ((2 * w) + 2)] = Move(OPCODES.STR, 1, 4 * w)
<1> DEFINE copy == [i \in 1 .. (2 * n) |->
                      IF i % 2 = 1 THEN Move(OPCODES.LOD, 15, 4 * ((i - 1) \div 2))
                                   ELSE Move(OPCODES.STR, 1, 4 * ((i - 1) \div 2))]
           a == LoadAddress(15, start)
           b == LoadAddress(1, RAM_BASE)
           items == CopyData(start, n)
           S == {copy[i] : i \in 1 .. (2 * n)}
<1>1. items = (a \o b) \o copy
  BY DEF CopyData
<1>2. IsSeq(copy) /\ Len(copy) = 2 * n
  <2>1. copy \in [1 .. (2 * n) -> S] /\ 2 * n \in Nat
    OBVIOUS
  <2> HIDE DEF copy, S
  <2>2. copy \in Seq(S) /\ Len(copy) = 2 * n
    BY <2>1
  <2> QED BY <2>2 DEF IsSeq
<1>3. \A w \in 0 .. (n - 1) : copy[(2 * w) + 1] = Move(OPCODES.LOD, 15, 4 * w)
                              /\ copy[(2 * w) + 2] = Move(OPCODES.STR, 1, 4 * w)
  <2> TAKE w \in 0 .. (n - 1)
  <2>1. /\ (2 * w) + 1 \in 1 .. (2 * n) /\ ((2 * w) + 1) % 2 = 1
        /\ (((2 * w) + 1) - 1) \div 2 = w
        /\ (2 * w) + 2 \in 1 .. (2 * n) /\ ((2 * w) + 2) % 2 = 0
        /\ (((2 * w) + 2) - 1) \div 2 = w
    OBVIOUS
  <2> QED BY <2>1
<1>4. /\ a[1] = Ldi(15, compute_hi_lo(start).hi) /\ a[2] = Adi(15, compute_hi_lo(start).lo)
      /\ b[1] = Ldi(1, compute_hi_lo(RAM_BASE).hi) /\ b[2] = Adi(1, compute_hi_lo(RAM_BASE).lo)
      /\ Len(a) = 2 /\ Len(b) = 2
  BY DEF LoadAddress
<1>5. IsSeq(a) /\ IsSeq(b)
  BY LoadInjected DEF Injected
<1> HIDE DEF copy, a, b, items, S
<1>6. /\ IsSeq(a \o b) /\ Len(a \o b) = 4
      /\ (a \o b)[1] = a[1] /\ (a \o b)[2] = a[2] /\ (a \o b)[3] = b[1] /\ (a \o b)[4] = b[2]
  <2>1. /\ Len(a \o b) = Len(a) + Len(b) /\ IsSeq(a \o b)
        /\ \A i \in 1 .. Len(a) : (a \o b)[i] = a[i]
        /\ \A i \in 1 .. Len(b) : (a \o b)[Len(a) + i] = b[i]
    BY <1>5, JoinedSeq
  <2>2. Len(a) = 2 /\ Len(b) = 2
    BY <1>4
  <2>3. (a \o b)[2 + 1] = b[1] /\ (a \o b)[2 + 2] = b[2]
    BY <2>1, <2>2
  <2> QED BY <2>1, <2>2, <2>3
<1>7. /\ IsSeq(items) /\ Len(items) = 4 + (2 * n)
      /\ \A i \in 1 .. 4 : items[i] = (a \o b)[i]
      /\ \A i \in 1 .. (2 * n) : items[4 + i] = copy[i]
  <2> PICK ab : ab = a \o b
    OBVIOUS
  <2> PICK c : c = copy
    OBVIOUS
  <2>1. IsSeq(ab) /\ IsSeq(c)
    BY <1>2, <1>6
  <2>2. /\ Len(ab \o c) = Len(ab) + Len(c) /\ IsSeq(ab \o c)
        /\ \A i \in 1 .. Len(ab) : (ab \o c)[i] = ab[i]
        /\ \A i \in 1 .. Len(c) : (ab \o c)[Len(ab) + i] = c[i]
    BY ONLY <2>1, JoinedSeq
  <2>3. items = ab \o c
    BY <1>1
  <2>4. Len(ab) = 4 /\ Len(c) = 2 * n
    BY <1>2, <1>6
  <2> QED BY <2>2, <2>3, <2>4
<1>8. \A w \in 0 .. (n - 1) : (2 * w) + 1 \in 1 .. (2 * n) /\ (2 * w) + 2 \in 1 .. (2 * n)
  OBVIOUS
<1>9. items[1] = a[1] /\ items[2] = a[2] /\ items[3] = b[1] /\ items[4] = b[2]
  BY <1>6, <1>7
<1> QED BY <1>3, <1>4, <1>7, <1>8, <1>9 DEF items

\* Where .start is and where its last three instructions are.
StartsAt(r) == Len(r.pending) + Copied
CopyLength == IF Copied = 0 THEN 0 ELSE 4 + (2 * Copied)
TailAt(r) == StartsAt(r) + CopyLength

LEMMA StartWord ==
  ASSUME NEW r, NEW rel, NEW lab, Settled(r, rel, lab), NeedsStart,
         NEW s \in 1 .. Len(StartCode(r, rel))
  PROVE  /\ RomWord(StartsAt(r) + (s - 1)) = WordOf(StartCode(r, rel)[s])
         /\ Resolvable(StartCode(r, rel)[s])
<1> PICK n : n = StartsAt(r)
  OBVIOUS
<1> PICK l : l = Len(StartCode(r, rel))
  OBVIOUS
<1> PICK all : all = Len(rom.pending)
  OBVIOUS
<1>1. /\ n \in Nat /\ l \in Nat /\ all = n + l
      /\ \A x \in 1 .. l : rom.pending[n + x] = StartCode(r, rel)[x]
  BY ImageItems, SMTT(30) DEF StartsAt
<1>2. /\ n + s \in 1 .. all /\ n + (s - 1) \in 0 .. (all - 1) /\ (n + (s - 1)) + 1 = n + s
  BY <1>1
<1>3. rom.pending[n + s] = StartCode(r, rel)[s]
  BY <1>1
<1>4. RomWord(n + (s - 1)) = WordOf(rom.pending[n + s])
  BY <1>2, WordsAre
<1>5. Resolvable(rom.pending[n + s])
  <2>1. ImageIs /\ DOMAIN image = 1 .. all
    BY WordsAre DEF Settled
  <2> QED BY <1>2, <2>1 DEF ImageIs
<1> QED BY <1>3, <1>4, <1>5

\* How .start is put together.
LEMMA StartItems ==
  ASSUME NEW r, NEW rel, NEW lab, Settled(r, rel, lab), NeedsStart, r.text_start_word # None
  PROVE  LET copy == CopyData(Len(r.pending), Copied)
             jump == JumpToMain(label_map, r.text_start_word)
         IN  /\ Copied \in Nat /\ CopyLength \in Nat /\ Len(StartCode(r, rel)) = CopyLength + 3
             /\ \A i \in 1 .. CopyLength : StartCode(r, rel)[i] = copy[i]
             /\ \A i \in 1 .. 3 : StartCode(r, rel)[CopyLength + i] = jump[i]
<1> PICK copy : copy = CopyData(Len(r.pending), Copied)
  OBVIOUS
<1> PICK jump : jump = JumpToMain(label_map, r.text_start_word)
  OBVIOUS
<1> PICK items : items = StartCode(r, rel)
  OBVIOUS
<1>1. RamCounts(ram) /\ CopyIsShort
  BY DEF Settled, Limits
<1>2. Len(DataItems(rel)) = Copied /\ Copied \in Nat
  BY <1>1, CopiedIs, DataItemsAre DEF Copied
<1>3. items = copy \o jump
  BY <1>2 DEF StartCode
<1>4. Len(jump) = 3 /\ IsSeq(jump)
  BY JumpItems
<1> PICK p : p = CopyLength
  OBVIOUS
<1>5. IsSeq(copy) /\ Len(copy) = p /\ p \in Nat
  <2>1. CASE Copied = 0
    <3>1. copy = <<>> /\ p = 0
      BY <2>1 DEF CopyData, CopyLength
    <3>2. <<>> \in Seq({}) /\ Len(<<>>) = 0
      OBVIOUS
    <3> QED BY <3>1, <3>2 DEF IsSeq
  <2>2. CASE Copied # 0
    <3>1. Copied \in Nat \ {0} /\ p = 4 + (2 * Copied)
      BY <1>2, <2>2 DEF CopyLength
    <3> QED BY <3>1, CopyItems
  <2> QED BY <2>1, <2>2
<1>6. /\ Len(copy \o jump) = Len(copy) + Len(jump)
      /\ \A i \in 1 .. Len(copy) : (copy \o jump)[i] = copy[i]
      /\ \A i \in 1 .. Len(jump) : (copy \o jump)[Len(copy) + i] = jump[i]
  <2>1. IsSeq(copy) /\ IsSeq(jump)
    BY <1>4, <1>5
  <2> QED BY ONLY <2>1, JoinedSeq
<1>7. /\ Len(items) = p + 3
      /\ \A i \in 1 .. p : items[i] = copy[i]
      /\ \A i \in 1 .. 3 : items[p + i] = jump[i]
  BY <1>3, <1>4, <1>5, <1>6
<1> QED BY <1>2, <1>5, <1>7

LEMMA LoadLayout ==
  ASSUME NEW m
  PROVE  /\ m = "LDI" => Layout(m) = <<<<"reg", "A">>, <<"imm", "I">>>>
         /\ m = "ADI" => Layout(m) = <<<<"reg", "A">>, <<"simm", "I">>>>
<1>1. CASE m = "LDI"
  BY <1>1 DEF Layout, ThreeRegisters, MEM_INSTRUCTIONS
<1>2. CASE m = "ADI"
  BY <1>2 DEF Layout, ThreeRegisters, MEM_INSTRUCTIONS
<1> QED BY <1>1, <1>2

LEMMA TailIs ==
  ASSUME NEW r, NEW rel, NEW lab, Settled(r, rel, lab), NeedsStart, r.text_start_word # None,
         Landing(r) \in Int
  PROVE  /\ StartsAt(r) \in Nat /\ TailAt(r) \in Nat /\ TailAt(r) + 3 <= RESET_ROW
         /\ Loads(TailAt(r), 15, Landing(r)) /\ Jumps(TailAt(r) + 2)
<1> PICK items : items = StartCode(r, rel)
  OBVIOUS
<1> PICK jump : jump = JumpToMain(label_map, r.text_start_word)
  OBVIOUS
<1> PICK n : n = StartsAt(r)
  OBVIOUS
<1> PICK p : p = CopyLength
  OBVIOUS
<1> PICK hi : hi = compute_hi_lo(Landing(r)).hi
  OBVIOUS
<1> PICK lo : lo = compute_hi_lo(Landing(r)).lo
  OBVIOUS
<1>1. /\ Len(items) = p + 3 /\ p \in Nat /\ n \in Nat
      /\ \A i \in 1 .. 3 : items[p + i] = jump[i]
  <2>1. n \in Nat
    <3>1. Len(r.pending) \in Nat /\ Copied \in Nat
      BY ImageItems
    <3> QED BY <3>1 DEF StartsAt
  <2> QED BY <2>1, StartItems
<1>2. \A i \in 1 .. 3 : RomWord(n + ((p + i) - 1)) = WordOf(jump[i]) /\ Resolvable(jump[i])
  <2> TAKE i \in 1 .. 3
  <2> PICK s : s = p + i
    OBVIOUS
  <2>1. s \in 1 .. Len(items) /\ items[s] = jump[i]
    BY <1>1
  <2>2. RomWord(n + (s - 1)) = WordOf(items[s]) /\ Resolvable(items[s])
    BY <2>1, StartWord
  <2> QED BY <2>1, <2>2
<1> PICK t : t = n + p
  OBVIOUS
<1>3. t \in Nat /\ t = TailAt(r) /\ t + 3 <= RESET_ROW
  <2> PICK all : all = Len(rom.pending)
    OBVIOUS
  <2>1. all = n + (p + 3) /\ all <= RESET_ROW
    BY <1>1, ImageItems, WordsAre DEF StartsAt
  <2>2. RESET_ROW \in Nat
    BY MachineIs
  <2> QED BY <1>1, <2>1, <2>2, SMTT(30) DEF TailAt
<1>4. RomWord(t) = WordOf(jump[1]) /\ RomWord(t + 1) = WordOf(jump[2])
      /\ RomWord(t + 2) = WordOf(jump[3])
  <2>1. n + ((p + 1) - 1) = t /\ n + ((p + 2) - 1) = t + 1 /\ n + ((p + 3) - 1) = t + 2
    <3>1. n \in Nat /\ p \in Nat /\ t = n + p
      BY <1>1
    <3> QED BY ONLY <3>1
  <2> QED BY <1>2, <2>1
<1>5. hi \in 0 .. (HALF - 1) /\ lo \in 0 .. (HALF - 1) /\ 15 \in 0 .. 15
  BY SplitInRange
<1>6. Instr(WordOf(jump[3]), OPCODES.JMP, 0, 0, 15, 0)
  <2>1. jump[3] = Encoded(build_word(0, OPCODES.JMP, 15 * Weight("B")))
    BY JumpItems
  <2>2. WordOf(jump[3]) = build_word(0, OPCODES.JMP, 15 * Weight("B"))
    BY <2>1 DEF WordOf, Encoded
  <2> QED BY <1>5, <2>2, WordsOfStart
<1>7. /\ Instr(WordOf(jump[1]), OPCODES.LDI, 4, 15, 0, hi)
      /\ Instr(WordOf(jump[2]), OPCODES.ADI, 4, 15, 0, lo)
  <2>1. CASE "main" \notin DOMAIN label_map
    <3>1. jump[1] = Ldi(15, hi) /\ jump[2] = Adi(15, lo)
      BY <2>1, JumpItems DEF Landing
    <3>2. /\ WordOf(jump[1]) = build_word(4, OPCODES.LDI, (15 * Weight("A")) + hi)
          /\ WordOf(jump[2]) = build_word(4, OPCODES.ADI, (15 * Weight("A")) + lo)
      BY <3>1 DEF WordOf, Ldi, Adi, Encoded
    <3> QED BY <1>5, <3>2, WordsOfStart
  <2>2. CASE "main" \in DOMAIN label_map
    <3> DEFINE ldi == [prefix |-> "H", mnemonic |-> "LDI", args |-> <<R15, MainOperand("hi")>>]
               adi == [prefix |-> "SLT", mnemonic |-> "ADI", args |-> <<R15, MainOperand("lo")>>]
    <3>1. jump[1] = Pending(ldi, 0) /\ jump[2] = Pending(adi, 0)
      BY <2>2, JumpItems
    <3>2. WordOf(jump[1]) = encode_single(ldi, label_map)
          /\ WordOf(jump[2]) = encode_single(adi, label_map)
      BY <1>2, <3>1 DEF WordOf, Pending
    <3>3. /\ Layout("LDI") = <<<<"reg", "A">>, <<"imm", "I">>>>
          /\ Layout("ADI") = <<<<"reg", "A">>, <<"simm", "I">>>>
          /\ Tipo("H") = 4 /\ Tipo("SLT") = 4
      BY LoadLayout DEF Tipo
    <3>4. label_map["main"] + 0 = Landing(r)
      BY <2>2 DEF Landing
    <3>5. parse_register(R15) = 15
      BY DEF parse_register, R15
    <3>6. /\ Field(ldi, "reg", ldi.args[1], label_map) = 15
          /\ Field(adi, "reg", adi.args[1], label_map) = 15
      BY <3>5 DEF Field
    <3>7. /\ Field(ldi, "imm", ldi.args[2], label_map) = hi
          /\ Field(adi, "simm", adi.args[2], label_map) = lo
      <4>1. /\ ldi.args[2] = MainOperand("hi") /\ adi.args[2] = MainOperand("lo")
        OBVIOUS
      <4>2. eval_label_expr(MainOperand("hi"), label_map) = Landing(r)
            /\ eval_label_expr(MainOperand("lo"), label_map) = Landing(r)
        BY <3>4 DEF eval_label_expr, MainOperand
      <4>3. /\ _resolve_imm_or_pseudo(MainOperand("hi"), label_map, PseudoKind(ldi), FALSE) = hi
            /\ _resolve_imm_or_pseudo(MainOperand("lo"), label_map, PseudoKind(adi), TRUE) = lo
        BY <2>2, <4>2 DEF _resolve_imm_or_pseudo, MainOperand, Defined, compute_hi_lo
      <4> QED BY <4>1, <4>3 DEF Field
    <3>8. /\ encode_single(ldi, label_map)
               = build_word(4, OPCODES.LDI, Weight("A") * 15 + Weight("I") * hi + 0)
          /\ encode_single(adi, label_map)
               = build_word(4, OPCODES.ADI, Weight("A") * 15 + Weight("I") * lo + 0)
      <4>1. ldi.mnemonic = "LDI" /\ adi.mnemonic = "ADI" /\ ldi.prefix = "H" /\ adi.prefix = "SLT"
        OBVIOUS
      <4>2. OPCODES["LDI"] = OPCODES.LDI /\ OPCODES["ADI"] = OPCODES.ADI
        OBVIOUS
      <4> HIDE DEF ldi, adi
      <4> QED BY <3>3, <3>6, <3>7, <4>1, <4>2 DEF encode_single
    <3> QED BY <1>5, <3>2, <3>8, WordsOfStart
  <2> QED BY <2>1, <2>2
<1> QED BY <1>1, <1>3, <1>4, <1>6, <1>7 DEF Loads, Jumps

\* The words m and m + 1 copy word w.
Copies(m, w) ==
  /\ Instr(RomWord(m), OPCODES.LOD, 2, 15, 2, (4 * w) % HALF)
  /\ Instr(RomWord(m + 1), OPCODES.STR, 2, 1, 2, (4 * w) % HALF)

LEMMA CopyWords ==
  ASSUME NEW r, NEW rel, NEW lab, Settled(r, rel, lab), NeedsStart, r.text_start_word # None,
         Copied > 0
  PROVE  /\ Loads(StartsAt(r), 15, Len(r.pending)) /\ Loads(StartsAt(r) + 2, 1, RAM_BASE)
         /\ \A w \in 0 .. (Copied - 1) : Copies(StartsAt(r) + (4 + (2 * w)), w)
<1> PICK items : items = StartCode(r, rel)
  OBVIOUS
<1> PICK copy : copy = CopyData(Len(r.pending), Copied)
  OBVIOUS
<1> PICK n : n = StartsAt(r)
  OBVIOUS
<1> PICK c : c = Copied
  OBVIOUS
<1> PICK l : l = Len(r.pending)
  OBVIOUS
<1> PICK p : p = CopyLength
  OBVIOUS
<1>1. c \in Nat \ {0} /\ l \in Nat /\ n \in Nat
  <2>1. l \in Nat /\ c \in Nat
    BY ImageItems
  <2> QED BY <2>1 DEF StartsAt
<1>2. p = 4 + (2 * c)
  BY <1>1 DEF CopyLength
<1>3. /\ Len(items) = p + 3 /\ \A i \in 1 .. p : items[i] = copy[i]
  BY StartItems
<1>4. ASSUME NEW i \in 1 .. p PROVE RomWord(n + (i - 1)) = WordOf(copy[i])
  <2>1. i \in 1 .. Len(items) /\ items[i] = copy[i]
    BY <1>1, <1>2, <1>3
  <2> QED BY <2>1, StartWord
<1>5. /\ copy[1] = Ldi(15, compute_hi_lo(l).hi) /\ copy[2] = Adi(15, compute_hi_lo(l).lo)
      /\ copy[3] = Ldi(1, compute_hi_lo(RAM_BASE).hi)
      /\ copy[4] = Adi(1, compute_hi_lo(RAM_BASE).lo)
      /\ \A w \in 0 .. (c - 1) :
           /\ copy[4 + ((2 * w) + 1)] = Move(OPCODES.LOD, 15, 4 * w)
           /\ copy[4 + ((2 * w) + 2)] = Move(OPCODES.STR, 1, 4 * w)
  BY <1>1, CopyItems
<1>6. ASSUME NEW u \in Int, NEW x \in 0 .. 15
      PROVE  /\ Instr(WordOf(Ldi(x, compute_hi_lo(u).hi)), OPCODES.LDI, 4, x, 0, compute_hi_lo(u).hi)
             /\ Instr(WordOf(Adi(x, compute_hi_lo(u).lo)), OPCODES.ADI, 4, x, 0, compute_hi_lo(u).lo)
  <2> PICK hi : hi = compute_hi_lo(u).hi
    OBVIOUS
  <2> PICK lo : lo = compute_hi_lo(u).lo
    OBVIOUS
  <2>1. hi \in 0 .. (HALF - 1) /\ lo \in 0 .. (HALF - 1)
    BY SplitInRange
  <2>2. /\ WordOf(Ldi(x, hi)) = build_word(4, OPCODES.LDI, (x * Weight("A")) + hi)
        /\ WordOf(Adi(x, lo)) = build_word(4, OPCODES.ADI, (x * Weight("A")) + lo)
    BY DEF WordOf, Ldi, Adi, Encoded
  <2> QED BY <2>1, <2>2, WordsOfStart
<1>7. /\ Instr(WordOf(copy[1]), OPCODES.LDI, 4, 15, 0, compute_hi_lo(l).hi)
      /\ Instr(WordOf(copy[2]), OPCODES.ADI, 4, 15, 0, compute_hi_lo(l).lo)
      /\ Instr(WordOf(copy[3]), OPCODES.LDI, 4, 1, 0, compute_hi_lo(RAM_BASE).hi)
      /\ Instr(WordOf(copy[4]), OPCODES.ADI, 4, 1, 0, compute_hi_lo(RAM_BASE).lo)
  <2>1. RAM_BASE \in Int /\ l \in Int /\ 15 \in 0 .. 15 /\ 1 \in 0 .. 15
    BY <1>1, MachineIs
  <2> QED BY <1>5, <1>6, <2>1
<1>8. Loads(n, 15, l) /\ Loads(n + 2, 1, RAM_BASE)
  <2>1. 1 \in 1 .. p /\ 2 \in 1 .. p /\ 3 \in 1 .. p /\ 4 \in 1 .. p
    BY <1>1, <1>2
  <2>2. n + (1 - 1) = n /\ n + (2 - 1) = n + 1 /\ n + (3 - 1) = n + 2 /\ n + (4 - 1) = (n + 2) + 1
    BY <1>1
  <2>3. /\ RomWord(n) = WordOf(copy[1]) /\ RomWord(n + 1) = WordOf(copy[2])
        /\ RomWord(n + 2) = WordOf(copy[3]) /\ RomWord((n + 2) + 1) = WordOf(copy[4])
    BY <1>4, <2>1, <2>2
  <2> QED BY <1>7, <2>3 DEF Loads
<1>9. ASSUME NEW w \in 0 .. (c - 1) PROVE Copies(n + (4 + (2 * w)), w)
  <2> PICK i : i = 4 + ((2 * w) + 1)
    OBVIOUS
  <2> PICK j : j = 4 + ((2 * w) + 2)
    OBVIOUS
  <2> PICK m : m = n + (4 + (2 * w))
    OBVIOUS
  <2>1. i \in 1 .. p /\ j \in 1 .. p /\ n + (i - 1) = m /\ n + (j - 1) = m + 1
    BY <1>1, <1>2
  <2>2. RomWord(m) = WordOf(copy[i]) /\ RomWord(m + 1) = WordOf(copy[j])
    BY <1>4, <2>1
  <2>3. copy[i] = Move(OPCODES.LOD, 15, 4 * w) /\ copy[j] = Move(OPCODES.STR, 1, 4 * w)
    BY <1>5
  <2> PICK d : d = (4 * w) % HALF
    OBVIOUS
  <2>4. d \in 0 .. (HALF - 1)
    <3>1. 4 * w \in Nat /\ HALF \in Nat \ {0}
      BY MachineIs
    <3> QED BY <3>1
  <2>5. /\ WordOf(copy[i]) = build_word(2, OPCODES.LOD, (15 * Weight("A")) + (2 * Weight("B")) + d)
        /\ WordOf(copy[j]) = build_word(2, OPCODES.STR, (1 * Weight("A")) + (2 * Weight("B")) + d)
    BY <2>3 DEF WordOf, Move, Encoded, MEM_TYPES
  <2>6. /\ Instr(WordOf(copy[i]), OPCODES.LOD, 2, 15, 2, d)
        /\ Instr(WordOf(copy[j]), OPCODES.STR, 2, 1, 2, d)
    BY <2>4, <2>5, WordsOfStart, 15 \in 0 .. 15, 1 \in 0 .. 15
  <2> QED BY <2>2, <2>6 DEF Copies
<1> QED BY <1>8, <1>9

-----------------------------------------------------------------------------
(***************************************************************************)
(* What the processor does with each of these instructions.                *)
(***************************************************************************)
Shaped == DOMAIN cpu = {"status", "pc", "regs", "mem"} /\ DOMAIN cpu.regs = 0 .. 15
At(i) == cpu.pc = ROM_BASE + (4 * i)

LEMMA FetchedIs ==
  ASSUME NEW i \in 0 .. (RESET_ROW + 3), At(i)
  PROVE  /\ RomWord(i).kind = "ins" => Fetched = RomWord(i)
         /\ RomWord(i).kind = "data" => Fetched.kind = "data" \/ Fetched = Nop
<1>1. InRom(cpu.pc) /\ WordAt(cpu.pc) = RomWord(i)
  <2>1. 0 \in 0 .. 3
    OBVIOUS
  <2> QED BY <2>1, RomBytes DEF At
<1>2. DataWord(Zeros(4)).kind = "data"
  BY DEF DataWord
<1> QED BY <1>1, <1>2 DEF Fetched

\* The instruction that is fetched is the one that is executed.
LEMMA OneOperation ==
  ASSUME Cpu, Fetched.kind = "ins"
  PROVE  /\ Fetched.op = OPCODES.NOP => CpuNop
         /\ Fetched.op = OPCODES.LDI => CpuLdi
         /\ Fetched.op = OPCODES.ADI => CpuAdi
         /\ Fetched.op = OPCODES.LOD => CpuLod
         /\ Fetched.op = OPCODES.STR => CpuStr
         /\ Fetched.op = OPCODES.JMP => CpuJmp
<1>1. /\ OPCODES.NOP = 0 /\ OPCODES.HLT = 1 /\ OPCODES.LDI = 12 /\ OPCODES.ADI = 13
      /\ OPCODES.JMP = 14 /\ OPCODES.LOD = 18 /\ OPCODES.STR = 19
  BY DEF OPCODES
<1>2. CpuNop => Fetched.op = 0
  BY <1>1 DEF CpuNop, Executing
<1>3. CpuLdi => Fetched.op = 12
  BY <1>1 DEF CpuLdi, Executing
<1>4. CpuAdi => Fetched.op = 13
  BY <1>1 DEF CpuAdi, Executing
<1>5. CpuLod => Fetched.op = 18
  BY <1>1 DEF CpuLod, Executing
<1>6. CpuStr => Fetched.op = 19
  BY <1>1 DEF CpuStr, Executing
<1>7. CpuJmp => Fetched.op = 14
  BY <1>1 DEF CpuJmp, Executing
<1>8. CpuHlt => Fetched.op = 1
  BY <1>1 DEF CpuHlt, Executing
<1>9. CpuLost => Fetched.op \notin {0, 12, 13, 18, 19, 14, 1}
  BY <1>1 DEF CpuLost
<1>10. CpuNop \/ CpuLdi \/ CpuAdi \/ CpuLod \/ CpuStr \/ CpuJmp \/ CpuHlt \/ CpuLost
  BY DEF Cpu
<1> QED BY <1>1, <1>2, <1>3, <1>4, <1>5, <1>6, <1>7, <1>8, <1>9, <1>10

\* The next state of the processor when it writes a register.
Writes(x, value) ==
  /\ Shaped' /\ cpu'.status = cpu.status /\ cpu'.mem = cpu.mem
  /\ cpu'.pc = (cpu.pc + 4) % SPACE
  /\ cpu'.regs[x] = value
  /\ \A y \in 0 .. 15 : y # x => cpu'.regs[y] = cpu.regs[y]

LEMMA AdvanceWrites ==
  ASSUME Shaped, NEW x \in 0 .. 15, NEW v, Advance([cpu EXCEPT !.regs[x] = v])
  PROVE  Writes(x, v)
<1> DEFINE c == [cpu EXCEPT !.regs[x] = v]
           regs == [cpu.regs EXCEPT ![x] = v]
<1>1. /\ DOMAIN c = {"status", "pc", "regs", "mem"} /\ c.status = cpu.status /\ c.pc = cpu.pc
      /\ c.mem = cpu.mem /\ c.regs = regs
  BY DEF Shaped
<1>2. DOMAIN regs = 0 .. 15 /\ regs[x] = v /\ \A y \in 0 .. 15 : y # x => regs[y] = cpu.regs[y]
  BY DEF Shaped
<1> HIDE DEF regs
<1>3. cpu' = [c EXCEPT !.pc = (@ + 4) % SPACE]
  BY DEF Advance
<1> HIDE DEF c
<1>4. /\ DOMAIN cpu' = {"status", "pc", "regs", "mem"} /\ cpu'.status = c.status
      /\ cpu'.pc = (c.pc + 4) % SPACE /\ cpu'.mem = c.mem /\ cpu'.regs = c.regs
  BY <1>1, <1>3
<1> QED BY <1>1, <1>2, <1>4 DEF Writes, Shaped

LEMMA RunLdi ==
  ASSUME Shaped, Cpu, NEW x, NEW m, Instr(Fetched, OPCODES.LDI, 4, x, 0, m)
  PROVE  Writes(x, Number(m * HALF))
<1>1. CpuLdi /\ Fetched.tipo = 4
  BY OneOperation DEF Instr
<1>2. FieldA(Fetched) = x /\ Inmd(Fetched) = m /\ x \in 0 .. 15
  BY FieldsCut DEF Instr, Holds
<1>3. Advance([cpu EXCEPT !.regs[x] = Number(m * HALF)])
  BY <1>1, <1>2 DEF CpuLdi
<1> QED BY <1>2, <1>3, AdvanceWrites

LEMMA RunAdi ==
  ASSUME Shaped, Cpu, NEW x, NEW m, Instr(Fetched, OPCODES.ADI, 4, x, 0, m)
  PROVE  Writes(x, Number((cpu.regs[x].n + SignExtend(m)) % SPACE))
<1>1. CpuAdi
  BY OneOperation DEF Instr
<1>2. FieldA(Fetched) = x /\ Inmd(Fetched) = m /\ x \in 0 .. 15
  BY FieldsCut DEF Instr, Holds
<1>3. Advance([cpu EXCEPT !.regs[x] = Number((cpu.regs[x].n + SignExtend(m)) % SPACE)])
  BY <1>1, <1>2 DEF CpuAdi, Displaced, Reg
<1> QED BY <1>2, <1>3, AdvanceWrites

LEMMA RunLod ==
  ASSUME Shaped, Cpu, NEW x, NEW y, NEW m, Instr(Fetched, OPCODES.LOD, 2, x, y, m)
  PROVE  Writes(y, Content(Bytes((cpu.regs[x].n + SignExtend(m)) % SPACE, 4)))
<1>1. CpuLod
  BY OneOperation DEF Instr
<1>2. FieldA(Fetched) = x /\ FieldB(Fetched) = y /\ Inmd(Fetched) = m /\ y \in 0 .. 15
  BY FieldsCut DEF Instr, Holds
<1>3. Advance([cpu EXCEPT !.regs[y] =
                 Content(Bytes((cpu.regs[x].n + SignExtend(m)) % SPACE, 4))])
  BY <1>1, <1>2 DEF CpuLod, Displaced, Reg
<1> QED BY <1>2, <1>3, AdvanceWrites

\* The next state when it writes four bytes at a.
Stores(a, stored) ==
  /\ Shaped' /\ cpu'.status = cpu.status /\ cpu'.regs = cpu.regs
  /\ cpu'.pc = (cpu.pc + 4) % SPACE
  /\ cpu'.mem = [x \in DOMAIN cpu.mem \union a .. (a + 3) |->
                   IF x \in a .. (a + 3) THEN stored[x - a + 1] ELSE cpu.mem[x]]

LEMMA RunStr ==
  ASSUME Shaped, Cpu, NEW x, NEW y, NEW m, Instr(Fetched, OPCODES.STR, 2, x, y, m)
  PROVE  Stores((cpu.regs[x].n + SignExtend(m)) % SPACE, RegBytes(y))
<1> PICK a : a = (cpu.regs[x].n + SignExtend(m)) % SPACE
  OBVIOUS
<1> PICK stored : stored = RegBytes(y)
  OBVIOUS
<1> PICK mem : mem = [z \in DOMAIN cpu.mem \union a .. (a + 3) |->
                        IF z \in a .. (a + 3) THEN stored[z - a + 1] ELSE cpu.mem[z]]
  OBVIOUS
<1>1. CpuStr
  BY OneOperation DEF Instr
<1>2. FieldA(Fetched) = x /\ FieldB(Fetched) = y /\ Inmd(Fetched) = m
  BY FieldsCut DEF Instr
<1>3. Displaced(FieldA(Fetched)) = a /\ RegBytes(FieldB(Fetched)) = stored
  BY <1>2 DEF Displaced, Reg
<1>4. Advance([cpu EXCEPT !.mem = mem])
  BY <1>1, <1>3 DEF CpuStr
<1>5. /\ DOMAIN cpu' = {"status", "pc", "regs", "mem"} /\ cpu'.status = cpu.status
      /\ cpu'.pc = (cpu.pc + 4) % SPACE /\ cpu'.mem = mem /\ cpu'.regs = cpu.regs
  BY <1>4 DEF Advance, Shaped
<1> QED BY <1>5 DEF Stores, Shaped

LEMMA RunJmp ==
  ASSUME Shaped, Cpu, NEW y, Instr(Fetched, OPCODES.JMP, 0, 0, y, 0)
  PROVE  /\ Shaped' /\ cpu'.status = cpu.status /\ cpu'.regs = cpu.regs
         /\ cpu'.mem = cpu.mem /\ cpu'.pc = cpu.regs[y].n
<1>1. CpuJmp
  BY OneOperation DEF Instr
<1>2. FieldB(Fetched) = y
  BY FieldsCut DEF Instr
<1> QED BY <1>1, <1>2 DEF CpuJmp, Reg, Shaped

\* Data is executed as NOP or ends it.
LEMMA RunData ==
  ASSUME Shaped, Cpu, NEW i \in 0 .. (RESET_ROW + 3), At(i), RomWord(i).kind = "data"
  PROVE  /\ Shaped' /\ cpu'.mem = cpu.mem
         /\ cpu'.status = "on" => cpu'.pc = (cpu.pc + 4) % SPACE
<1>1. Fetched.kind = "data" \/ Fetched = Nop
  BY FetchedIs
<1>2. CASE Fetched.kind = "data"
  <2>1. CpuLost
    BY <1>2 DEF Cpu, CpuNop, CpuLdi, CpuAdi, CpuLod, CpuStr, CpuJmp, CpuHlt, Executing
  <2> QED BY <2>1 DEF CpuLost, Shaped
<1>3. CASE Fetched = Nop
  <2>1. CpuNop
    BY <1>3, OneOperation DEF Nop, build_word
  <2> QED BY <2>1 DEF CpuNop, Advance, Shaped
<1> QED BY <1>1, <1>2, <1>3

-----------------------------------------------------------------------------
(***************************************************************************)
(* The way from the reset vector to the entry.  The image has n words of   *)
(* the source and c to copy, the vector leads to the word u, .start ends   *)
(* at t and leads to l, and there is no code between l and the entry, e.   *)
(***************************************************************************)
HasStart(n, c, t, l) ==
  /\ t \in Nat /\ t + 3 <= RESET_ROW /\ Loads(t, 15, l) /\ Jumps(t + 2)
  /\ c = 0 => t = n
  /\ c > 0 => /\ t = (n + c) + (4 + (2 * c))
              /\ Loads(n + c, 15, n) /\ Loads((n + c) + 2, 1, RAM_BASE)
              /\ \A w \in 0 .. (c - 1) : Copies((n + c) + (4 + (2 * w)), w)

Boots(n, c, t, l, u, e) ==
  /\ n \in Nat /\ c \in Nat /\ l \in Nat /\ u \in Nat /\ e \in Nat
  /\ l <= e /\ e < n /\ n + c <= RESET_ROW /\ 4 * c <= HALF \div 2
  /\ Loads(RESET_ROW, 15, u) /\ Jumps(RESET_ROW + 2)
  /\ \/ u = l /\ c = 0
     \/ u = n + c /\ HasStart(n, c, t, l)
  /\ \A i \in l .. (e - 1) : RomWord(i).kind = "data"

\* An address is loaded in R15, to jump to it.
Loading(i, u, s) ==
  /\ At(i + s)
  /\ s = 1 => cpu.regs[15] = Number(compute_hi_lo(u).hi * HALF)
  /\ s = 2 => cpu.regs[15] = Number(physical(u))

\* Where the processor may be on that way, and what it has done.
InVector(n, u, s) == s \in 0 .. 2 /\ Loading(RESET_ROW, u, s) /\ Held(n, 0)
InBases(n, c, s) ==
  /\ s \in 0 .. 3 /\ c > 0 /\ At((n + c) + s) /\ Held(n, 0)
  /\ s = 1 => cpu.regs[15] = Number(compute_hi_lo(n).hi * HALF)
  /\ s >= 2 => cpu.regs[15] = Number(physical(n))
  /\ s = 3 => cpu.regs[1] = Number(compute_hi_lo(RAM_BASE).hi * HALF)
InCopy(n, c, w, s) ==
  /\ s \in 0 .. 1 /\ w \in 0 .. (c - 1) /\ At(((n + c) + (4 + (2 * w))) + s) /\ Held(n, w)
  /\ cpu.regs[15] = Number(physical(n)) /\ cpu.regs[1] = Number(RAM_BASE)
  /\ s = 1 => /\ cpu.regs[2].kind = "data"
              /\ \A j \in 1 .. 4 : cpu.regs[2].bytes[j] = BytesOf(RomWord(n + w))[j]
InTail(n, c, t, l, s) == s \in 0 .. 2 /\ Loading(t, l, s) /\ Held(n, c)
InWalk(n, c, l, e, i) == i \in l .. e /\ At(i) /\ Held(n, c)

OnTheWay(n, c, t, l, u, e) ==
  \/ \E s : InVector(n, u, s)
  \/ u = n + c /\ \E s : InBases(n, c, s)
  \/ u = n + c /\ \E w, s : InCopy(n, c, w, s)
  \/ u = n + c /\ \E s : InTail(n, c, t, l, s)
  \/ \E i : InWalk(n, c, l, e, i)

-----------------------------------------------------------------------------
(***************************************************************************)
(* What is known of the machine is true of it while its ROM is kept.       *)
(***************************************************************************)
LEMMA RomKept ==
  ASSUME rom_file' = rom_file
  PROVE  \A i : RomWord(i)' = RomWord(i)
  BY DEF RomWord, ResetVector

LEMMA HeldKept ==
  ASSUME NEW n, NEW w, Held(n, w), cpu'.mem = cpu.mem, rom_file' = rom_file
  PROVE  Held(n, w)'
  BY RomKept DEF Held, BytesOf, Opaque

LEMMA NextAt ==
  ASSUME NEW i \in 0 .. (RESET_ROW + 2), At(i), cpu'.pc = (cpu.pc + 4) % SPACE
  PROVE  At(i + 1)'
<1> PICK a : a = ROM_BASE + (4 * (i + 1))
  OBVIOUS
<1>1. a = cpu.pc + 4 /\ a \in 0 .. (SPACE - 1)
  BY MachineIs DEF At
<1>2. a % SPACE = a
  <2>1. SPACE \in Nat \ {0}
    BY MachineIs
  <2> QED BY <1>1, <2>1, ModUnique
<1> QED BY <1>1, <1>2 DEF At

\* The two instructions that load an address.
LEMMA LoadUpper ==
  ASSUME Shaped, Cpu, NEW i \in 0 .. (RESET_ROW + 2), NEW x, NEW u, Loads(i, x, u), At(i)
  PROVE  Writes(x, Number(compute_hi_lo(u).hi * HALF)) /\ At(i + 1)'
<1>1. Fetched = RomWord(i)
  <2>1. i \in 0 .. (RESET_ROW + 3) /\ RomWord(i).kind = "ins"
    BY MachineIs DEF Loads, Instr
  <2> QED BY <2>1, FetchedIs
<1>2. Writes(x, Number(compute_hi_lo(u).hi * HALF))
  BY <1>1, RunLdi DEF Loads
<1>3. cpu'.pc = (cpu.pc + 4) % SPACE
  BY <1>2 DEF Writes
<1> QED BY <1>2, <1>3, NextAt

LEMMA LoadLower ==
  ASSUME Shaped, Cpu, NEW i \in 0 .. (RESET_ROW + 1), NEW x, NEW u \in 0 .. (SPACE - 1),
         Loads(i, x, u), At(i + 1), cpu.regs[x] = Number(compute_hi_lo(u).hi * HALF)
  PROVE  Writes(x, Number(physical(u))) /\ At((i + 1) + 1)'
<1> PICK hi : hi = compute_hi_lo(u).hi
  OBVIOUS
<1> PICK lo : lo = compute_hi_lo(u).lo
  OBVIOUS
<1>1. Fetched = RomWord(i + 1)
  <2>1. i + 1 \in 0 .. (RESET_ROW + 3) /\ RomWord(i + 1).kind = "ins"
    BY MachineIs DEF Loads, Instr
  <2> QED BY <2>1, FetchedIs
<1>2. Instr(Fetched, OPCODES.ADI, 4, x, 0, lo)
  BY <1>1 DEF Loads
<1>3. Writes(x, Number((cpu.regs[x].n + SignExtend(lo)) % SPACE))
  BY <1>2, RunAdi
<1>4. cpu.regs[x].n = hi * HALF
  BY DEF Number
<1>5. (hi * HALF + SignExtend(lo)) % SPACE = physical(u)
  BY SplitIsExact DEF Joined
<1>6. Writes(x, Number(physical(u)))
  BY <1>3, <1>4, <1>5
<1>7. cpu'.pc = (cpu.pc + 4) % SPACE /\ i + 1 \in 0 .. (RESET_ROW + 2)
  BY <1>6, MachineIs DEF Writes
<1> QED BY <1>6, <1>7, NextAt

\* A word index of the image: the address it loads is where it is.
LEMMA LoadedIndex ==
  ASSUME NEW i \in 0 .. RESET_ROW
  PROVE  i \in 0 .. (SPACE - 1) /\ physical(i) = ROM_BASE + (4 * i)
<1>1. i <= SPACE - 1 /\ i \in Nat
  BY MachineIs
<1> QED BY <1>1, PhysicalIndex

LEMMA LoadedBase ==
  RAM_BASE \in 0 .. (SPACE - 1) /\ physical(RAM_BASE) = RAM_BASE
<1>1. RAM_BASE >= WORD_LIMIT /\ RAM_BASE \in 0 .. (SPACE - 1)
  BY MachineIs, RomAssumption
<1> QED BY <1>1 DEF physical

\* Loading an address to jump to, s instructions done.
LEMMA StepLoading ==
  ASSUME Shaped, Cpu, NEW i \in 0 .. (RESET_ROW + 1), NEW u \in 0 .. (SPACE - 1),
         Loads(i, 15, u), NEW s \in 0 .. 1, Loading(i, u, s)
  PROVE  /\ Loading(i, u, s + 1)' /\ Shaped' /\ cpu'.mem = cpu.mem
<1>1. CASE s = 0
  <2>1. i + 0 = i /\ i \in 0 .. (RESET_ROW + 2) /\ 0 + 1 = 1
    BY MachineIs
  <2>2. At(i)
    BY <1>1, <2>1 DEF Loading
  <2>3. Writes(15, Number(compute_hi_lo(u).hi * HALF)) /\ At(i + 1)'
    BY <2>1, <2>2, LoadUpper
  <2>4. Loading(i, u, 1)'
    BY <2>3 DEF Loading, Writes
  <2> QED BY <1>1, <2>1, <2>3, <2>4 DEF Writes
<1>2. CASE s = 1
  <2>1. (i + 1) + 1 = i + 2 /\ 1 + 1 = 2
    BY MachineIs
  <2>2. At(i + 1) /\ cpu.regs[15] = Number(compute_hi_lo(u).hi * HALF)
    BY <1>2 DEF Loading
  <2>3. Writes(15, Number(physical(u))) /\ At((i + 1) + 1)'
    BY <2>2, LoadLower
  <2>4. Loading(i, u, 2)'
    BY <2>1, <2>3 DEF Loading, Writes
  <2> QED BY <1>2, <2>1, <2>3, <2>4 DEF Writes
<1> QED BY <1>1, <1>2

\* The jump to it.
LEMMA StepJump ==
  ASSUME Shaped, Cpu, NEW i \in 0 .. (RESET_ROW + 1), NEW u \in 0 .. RESET_ROW,
         Jumps(i + 2), Loading(i, u, 2)
  PROVE  At(u)' /\ Shaped' /\ cpu'.mem = cpu.mem
<1>1. At(i + 2) /\ cpu.regs[15] = Number(physical(u))
  BY DEF Loading
<1>2. Fetched = RomWord(i + 2)
  <2>1. i + 2 \in 0 .. (RESET_ROW + 3) /\ RomWord(i + 2).kind = "ins"
    BY MachineIs DEF Jumps, Instr
  <2> QED BY <1>1, <2>1, FetchedIs
<1>3. Instr(Fetched, OPCODES.JMP, 0, 0, 15, 0)
  BY <1>2 DEF Jumps
<1>4. cpu'.pc = cpu.regs[15].n /\ Shaped' /\ cpu'.mem = cpu.mem
  BY <1>3, RunJmp
<1>5. cpu.regs[15].n = ROM_BASE + (4 * u)
  BY <1>1, LoadedIndex DEF Number
<1> QED BY <1>4, <1>5 DEF At

LEMMA StepVector ==
  ASSUME Shaped, Cpu, rom_file' = rom_file,
         NEW n, NEW c, NEW t, NEW l, NEW u, NEW e, Boots(n, c, t, l, u, e),
         NEW s, InVector(n, u, s)
  PROVE  OnTheWay(n, c, t, l, u, e)' /\ Shaped'
<1>1. /\ n \in Nat /\ c \in Nat /\ l \in Nat /\ u \in Nat /\ e \in Nat
      /\ l <= e /\ e < n /\ n + c <= RESET_ROW
      /\ Loads(RESET_ROW, 15, u) /\ Jumps(RESET_ROW + 2)
      /\ (u = l /\ c = 0) \/ (u = n + c /\ HasStart(n, c, t, l))
  BY DEF Boots
<1>2. /\ s \in 0 .. 2 /\ Loading(RESET_ROW, u, s) /\ Held(n, 0)
  BY DEF InVector
<1>3. u \in 0 .. RESET_ROW /\ RESET_ROW \in 0 .. (RESET_ROW + 1)
  BY <1>1, MachineIs
<1>4. CASE s \in 0 .. 1
  <2>1. Loading(RESET_ROW, u, s + 1)' /\ Shaped' /\ cpu'.mem = cpu.mem
    BY <1>1, <1>2, <1>3, <1>4, StepLoading, LoadedIndex
  <2>2. Held(n, 0)' /\ s + 1 \in 0 .. 2
    BY <1>2, <1>4, <2>1, HeldKept
  <2>3. InVector(n, u, s + 1)'
    BY <2>1, <2>2 DEF InVector
  <2> QED BY <2>1, <2>3 DEF OnTheWay
<1>5. CASE s = 2
  <2>1. At(u)' /\ Shaped' /\ cpu'.mem = cpu.mem
    BY <1>1, <1>2, <1>3, <1>5, StepJump
  <2>2. Held(n, 0)'
    BY <1>2, <2>1, HeldKept
  <2>3. CASE u = l /\ c = 0
    <3>1. InWalk(n, c, l, e, l)'
      BY <1>1, <2>1, <2>2, <2>3 DEF InWalk
    <3> QED BY <2>1, <3>1 DEF OnTheWay
  <2>4. CASE u = n + c /\ HasStart(n, c, t, l) /\ c = 0
    <3>1. t = n /\ u = t + 0
      BY <1>1, <2>4 DEF HasStart
    <3>2. Loading(t, l, 0)'
      BY <2>1, <3>1 DEF Loading
    <3>3. InTail(n, c, t, l, 0)'
      BY <2>2, <2>4, <3>2 DEF InTail
    <3> QED BY <2>1, <2>4, <3>3 DEF OnTheWay
  <2>5. CASE u = n + c /\ HasStart(n, c, t, l) /\ c > 0
    <3>1. u = (n + c) + 0
      BY <1>1, <2>5
    <3>2. InBases(n, c, 0)'
      BY <2>1, <2>2, <2>5, <3>1 DEF InBases
    <3> QED BY <2>1, <2>5, <3>2 DEF OnTheWay
  <2> QED BY <1>1, <2>3, <2>4, <2>5
<1> QED BY <1>2, <1>4, <1>5

LEMMA StepTail ==
  ASSUME Shaped, Cpu, rom_file' = rom_file,
         NEW n, NEW c, NEW t, NEW l, NEW u, NEW e, Boots(n, c, t, l, u, e), u = n + c,
         NEW s, InTail(n, c, t, l, s)
  PROVE  OnTheWay(n, c, t, l, u, e)' /\ Shaped'
<1>1. /\ n \in Nat /\ c \in Nat /\ l \in Nat /\ e \in Nat
      /\ l <= e /\ e < n /\ n + c <= RESET_ROW /\ HasStart(n, c, t, l)
  BY DEF Boots
<1>2. t \in 0 .. (RESET_ROW + 1) /\ Loads(t, 15, l) /\ Jumps(t + 2) /\ l \in 0 .. RESET_ROW
  BY <1>1, MachineIs DEF HasStart
<1>3. s \in 0 .. 2 /\ Loading(t, l, s) /\ Held(n, c)
  BY DEF InTail
<1>4. CASE s \in 0 .. 1
  <2>1. Loading(t, l, s + 1)' /\ Shaped' /\ cpu'.mem = cpu.mem
    BY <1>2, <1>3, <1>4, StepLoading, LoadedIndex
  <2>2. Held(n, c)' /\ s + 1 \in 0 .. 2
    BY <1>3, <1>4, <2>1, HeldKept
  <2>3. InTail(n, c, t, l, s + 1)'
    BY <2>1, <2>2 DEF InTail
  <2> QED BY <2>1, <2>3 DEF OnTheWay
<1>5. CASE s = 2
  <2>1. At(l)' /\ Shaped' /\ cpu'.mem = cpu.mem
    BY <1>2, <1>3, <1>5, StepJump
  <2>2. Held(n, c)'
    BY <1>3, <2>1, HeldKept
  <2>3. InWalk(n, c, l, e, l)'
    BY <1>1, <2>1, <2>2 DEF InWalk
  <2> QED BY <2>1, <2>3 DEF OnTheWay
<1> QED BY <1>3, <1>4, <1>5

LEMMA StepWalk ==
  ASSUME Shaped, Cpu, rom_file' = rom_file,
         NEW n, NEW c, NEW t, NEW l, NEW u, NEW e, Boots(n, c, t, l, u, e),
         NEW i, InWalk(n, c, l, e, i), i # e, cpu'.status = "on"
  PROVE  OnTheWay(n, c, t, l, u, e)' /\ Shaped'
<1>1. /\ n \in Nat /\ c \in Nat /\ l \in Nat /\ e \in Nat
      /\ l <= e /\ e < n /\ n + c <= RESET_ROW
      /\ \A x \in l .. (e - 1) : RomWord(x).kind = "data"
  BY DEF Boots
<1>2. i \in l .. e /\ At(i) /\ Held(n, c)
  BY DEF InWalk
<1>3. i \in l .. (e - 1) /\ i \in 0 .. (RESET_ROW + 3) /\ i \in 0 .. (RESET_ROW + 2)
      /\ i + 1 \in l .. e
  BY <1>1, <1>2, MachineIs
<1>4. Shaped' /\ cpu'.mem = cpu.mem /\ cpu'.pc = (cpu.pc + 4) % SPACE
  BY <1>1, <1>2, <1>3, RunData
<1>5. At(i + 1)' /\ Held(n, c)'
  BY <1>2, <1>3, <1>4, NextAt, HeldKept
<1>6. InWalk(n, c, l, e, i + 1)'
  BY <1>3, <1>5 DEF InWalk
<1> QED BY <1>4, <1>6 DEF OnTheWay

LEMMA StepBases ==
  ASSUME Shaped, Cpu, rom_file' = rom_file,
         NEW n, NEW c, NEW t, NEW l, NEW u, NEW e, Boots(n, c, t, l, u, e), u = n + c,
         NEW s, InBases(n, c, s)
  PROVE  OnTheWay(n, c, t, l, u, e)' /\ Shaped'
<1> PICK b : b = n + c
  OBVIOUS
<1>1. /\ n \in Nat /\ c \in Nat /\ c > 0 /\ b \in Nat /\ n <= b
      /\ l \in Nat /\ e \in Nat /\ l <= e /\ e < n /\ HasStart(n, c, t, l)
  BY DEF Boots, InBases
<1>2. /\ t \in Nat /\ t = b + (4 + (2 * c)) /\ t + 3 <= RESET_ROW
      /\ Loads(b, 15, n) /\ Loads(b + 2, 1, RAM_BASE)
  BY <1>1 DEF HasStart
<1>3. /\ b \in 0 .. (RESET_ROW + 1) /\ b + 2 \in 0 .. (RESET_ROW + 1) /\ n \in 0 .. RESET_ROW
      /\ b \in 0 .. (RESET_ROW + 2) /\ b + 2 \in 0 .. (RESET_ROW + 2)
  BY <1>1, <1>2, MachineIs
<1>4. /\ s \in 0 .. 3 /\ At(b + s) /\ Held(n, 0)
      /\ s = 1 => cpu.regs[15] = Number(compute_hi_lo(n).hi * HALF)
      /\ s >= 2 => cpu.regs[15] = Number(physical(n))
      /\ s = 3 => cpu.regs[1] = Number(compute_hi_lo(RAM_BASE).hi * HALF)
  BY DEF InBases
<1>5. n \in 0 .. (SPACE - 1) /\ RAM_BASE \in 0 .. (SPACE - 1) /\ physical(RAM_BASE) = RAM_BASE
  BY <1>3, LoadedIndex, LoadedBase
<1>6. CASE s = 0
  <2>1. At(b)
    <3>1. b + 0 = b
      BY <1>1
    <3> QED BY <1>4, <1>6, <3>1
  <2>2. Writes(15, Number(compute_hi_lo(n).hi * HALF)) /\ At(b + 1)'
    BY <1>2, <1>3, <2>1, LoadUpper
  <2>3. Held(n, 0)'
    BY <1>4, <2>2, HeldKept DEF Writes
  <2>4. InBases(n, c, 1)'
    BY <1>1, <2>2, <2>3 DEF InBases, Writes
  <2> QED BY <2>2, <2>4 DEF OnTheWay, Writes
<1>7. CASE s = 1
  <2>1. Writes(15, Number(physical(n))) /\ At((b + 1) + 1)'
    BY <1>2, <1>3, <1>4, <1>5, <1>7, LoadLower
  <2>2. Held(n, 0)' /\ (b + 1) + 1 = b + 2
    BY <1>1, <1>4, <2>1, HeldKept DEF Writes
  <2>3. InBases(n, c, 2)'
    BY <1>1, <2>1, <2>2 DEF InBases, Writes
  <2> QED BY <2>1, <2>3 DEF OnTheWay, Writes
<1>8. CASE s = 2
  <2>1. Writes(1, Number(compute_hi_lo(RAM_BASE).hi * HALF)) /\ At((b + 2) + 1)'
    BY <1>2, <1>3, <1>4, <1>8, LoadUpper
  <2>2. Held(n, 0)' /\ (b + 2) + 1 = b + 3
    BY <1>1, <1>4, <2>1, HeldKept DEF Writes
  <2>3. cpu'.regs[15] = Number(physical(n))
    BY <1>4, <1>8, <2>1 DEF Writes
  <2>4. InBases(n, c, 3)'
    BY <1>1, <2>1, <2>2, <2>3 DEF InBases, Writes
  <2> QED BY <2>1, <2>4 DEF OnTheWay, Writes
<1>9. CASE s = 3
  <2>1. (b + 2) + 1 = b + 3 /\ ((b + 2) + 1) + 1 = b + 4
    BY <1>1
  <2>2. Writes(1, Number(RAM_BASE)) /\ At(b + 4)'
    BY <1>2, <1>3, <1>4, <1>5, <1>9, <2>1, LoadLower
  <2>3. Held(n, 0)' /\ cpu'.regs[15] = Number(physical(n)) /\ cpu'.regs[1] = Number(RAM_BASE)
    BY <1>4, <1>9, <2>2, HeldKept DEF Writes
  <2>4. (b + (4 + (2 * 0))) + 0 = b + 4 /\ 0 \in 0 .. (c - 1) /\ 0 \in 0 .. 1
    BY <1>1
  <2>5. InCopy(n, c, 0, 0)'
    BY <2>2, <2>3, <2>4 DEF InCopy
  <2> QED BY <2>2, <2>5 DEF OnTheWay, Writes
<1> QED BY <1>4, <1>6, <1>7, <1>8, <1>9

\* What LOD reads is a word of the image.
LEMMA CopyReads ==
  ASSUME Shaped, Cpu, NEW n \in Nat, NEW w \in Nat, n + w <= RESET_ROW, 4 * w < HALF \div 2,
         Instr(Fetched, OPCODES.LOD, 2, 15, 2, (4 * w) % HALF),
         cpu.regs[15] = Number(physical(n))
  PROVE  \E f : Writes(2, Content(f)) /\ \A j \in 1 .. 4 : f[j] = BytesOf(RomWord(n + w))[j]
<1> PICK a : a = (cpu.regs[15].n + SignExtend((4 * w) % HALF)) % SPACE
  OBVIOUS
<1> PICK f : f = Bytes(a, 4)
  OBVIOUS
<1>1. Writes(2, Content(f))
  BY RunLod
<1>2. cpu.regs[15].n = ROM_BASE + (4 * n)
  <2>1. n \in 0 .. RESET_ROW
    BY MachineIs
  <2> QED BY <2>1, LoadedIndex DEF Number
<1>3. a = ROM_BASE + (4 * (n + w))
  <2>1. /\ ROM_BASE + (4 * n) \in Nat /\ 4 * w \in Nat
        /\ (ROM_BASE + (4 * n)) + (4 * w) < SPACE
        /\ (ROM_BASE + (4 * n)) + (4 * w) = ROM_BASE + (4 * (n + w))
    BY MachineIs
  <2> QED BY <1>2, <2>1, CopyReaches
<1>4. ASSUME NEW j \in 1 .. 4 PROVE f[j] = BytesOf(RomWord(n + w))[j]
  <2>1. f[j] = MemoryByte(a + j - 1)
    BY DEF Bytes
  <2> PICK i : i = n + w
    OBVIOUS
  <2>2. i \in 0 .. (RESET_ROW + 3) /\ j - 1 \in 0 .. 3 /\ (j - 1) + 1 = j
        /\ a + j - 1 = ROM_BASE + ((4 * i) + (j - 1))
    BY <1>3, MachineIs
  <2>3. MemoryByte(ROM_BASE + ((4 * i) + (j - 1))) = BytesOf(RomWord(i))[(j - 1) + 1]
    BY <2>2, RomBytes
  <2> QED BY <2>1, <2>2, <2>3
<1> QED BY <1>1, <1>4

\* What STR writes is the next word of RAM.
LEMMA CopyWrites ==
  ASSUME Shaped, Cpu, rom_file' = rom_file, NEW n \in Nat, NEW w \in Nat, 4 * w < HALF \div 2,
         Instr(Fetched, OPCODES.STR, 2, 1, 2, (4 * w) % HALF), Held(n, w),
         cpu.regs[1] = Number(RAM_BASE), cpu.regs[2].kind = "data",
         \A j \in 1 .. 4 : cpu.regs[2].bytes[j] = BytesOf(RomWord(n + w))[j]
  PROVE  /\ Held(n, w + 1)' /\ Shaped' /\ cpu'.regs = cpu.regs
         /\ cpu'.pc = (cpu.pc + 4) % SPACE
<1> PICK a : a = (cpu.regs[1].n + SignExtend((4 * w) % HALF)) % SPACE
  OBVIOUS
<1> PICK f : f = RegBytes(2)
  OBVIOUS
<1>1. Stores(a, f)
  BY RunStr
<1>2. f = cpu.regs[2].bytes
  BY DEF RegBytes, Reg
<1>3. a = RAM_BASE + (4 * w) /\ RAM_BASE \in Nat
  <2>1. /\ RAM_BASE \in Nat /\ 4 * w \in Nat /\ RAM_BASE + (4 * w) < SPACE
    BY MachineIs, RomAssumption
  <2>2. cpu.regs[1].n = RAM_BASE
    BY DEF Number
  <2> QED BY <2>1, <2>2, CopyReaches
<1>4. /\ Shaped' /\ cpu'.regs = cpu.regs /\ cpu'.pc = (cpu.pc + 4) % SPACE
      /\ cpu'.mem = [x \in DOMAIN cpu.mem \union a .. (a + 3) |->
                       IF x \in a .. (a + 3) THEN f[x - a + 1] ELSE cpu.mem[x]]
  BY <1>1 DEF Stores
<1>5. DOMAIN cpu.mem \union a .. (a + 3) = RAM_BASE .. ((RAM_BASE + (4 * (w + 1))) - 1)
  <2>1. DOMAIN cpu.mem = RAM_BASE .. ((RAM_BASE + (4 * w)) - 1)
    BY DEF Held
  <2> QED BY <1>3, <2>1, SMTT(30)
<1>6. ASSUME NEW q \in 0 .. ((4 * (w + 1)) - 1)
      PROVE  cpu'.mem[RAM_BASE + q] = BytesOf(RomWord(n + (q \div 4)))[(q % 4) + 1]
  <2> PICK x : x = RAM_BASE + q
    OBVIOUS
  <2>1. x \in DOMAIN cpu.mem \union a .. (a + 3)
    BY <1>3, <1>5
  <2>2. CASE q \in 0 .. ((4 * w) - 1)
    <3>1. x \notin a .. (a + 3)
      BY <1>3, <2>2
    <3>2. cpu'.mem[x] = cpu.mem[x]
      BY <1>4, <2>1, <3>1
    <3> QED BY <2>2, <3>2 DEF Held
  <2>3. CASE q \in (4 * w) .. ((4 * w) + 3)
    <3> PICK j : j = q - (4 * w)
      OBVIOUS
    <3>0. /\ RAM_BASE \in Nat /\ w \in Nat /\ q \in Int /\ 4 * w <= q /\ q <= (4 * w) + 3
          /\ x = RAM_BASE + q /\ a = RAM_BASE + (4 * w) /\ j = q - (4 * w)
      BY <1>3, <2>3
    <3>1. j \in 0 .. 3 /\ x \in a .. (a + 3) /\ x - a + 1 = j + 1 /\ j + 1 \in 1 .. 4
      BY ONLY <3>0
    <3>2. q \div 4 = w /\ q % 4 = j
      BY <2>3
    <3>3. cpu'.mem[x] = f[j + 1]
      BY <1>4, <2>1, <3>1
    <3> QED BY <1>2, <3>1, <3>2, <3>3
  <2>4. q \in 0 .. ((4 * w) - 1) \/ q \in (4 * w) .. ((4 * w) + 3)
    OBVIOUS
  <2> QED BY <2>2, <2>3, <2>4
<1>7. DOMAIN cpu'.mem = RAM_BASE .. ((RAM_BASE + (4 * (w + 1))) - 1)
  BY <1>4, <1>5
<1>8. Held(n, w + 1)'
  <2>1. \A i : BytesOf(RomWord(i))' = BytesOf(RomWord(i))
    BY RomKept DEF BytesOf, Opaque
  <2> QED BY <1>6, <1>7, <2>1 DEF Held
<1> QED BY <1>4, <1>8

LEMMA StepCopy ==
  ASSUME Shaped, Cpu, rom_file' = rom_file,
         NEW n, NEW c, NEW t, NEW l, NEW u, NEW e, Boots(n, c, t, l, u, e), u = n + c,
         NEW w, NEW s, InCopy(n, c, w, s)
  PROVE  OnTheWay(n, c, t, l, u, e)' /\ Shaped'
<1> PICK m : m = (n + c) + (4 + (2 * w))
  OBVIOUS
<1>1. /\ s \in 0 .. 1 /\ w \in 0 .. (c - 1) /\ At(m + s) /\ Held(n, w)
      /\ cpu.regs[15] = Number(physical(n)) /\ cpu.regs[1] = Number(RAM_BASE)
      /\ s = 1 => /\ cpu.regs[2].kind = "data"
                  /\ \A j \in 1 .. 4 : cpu.regs[2].bytes[j] = BytesOf(RomWord(n + w))[j]
  BY DEF InCopy
<1>2. /\ n \in Nat /\ c \in Nat /\ l \in Nat /\ e \in Nat /\ l <= e /\ e < n
      /\ n + c <= RESET_ROW /\ 4 * c <= HALF \div 2 /\ HasStart(n, c, t, l)
  BY DEF Boots
<1>3. c \in Nat /\ c > 0 /\ w \in Nat /\ w < c
  BY <1>1, <1>2
<1>4. /\ t \in Nat /\ t + 3 <= RESET_ROW /\ t = (n + c) + (4 + (2 * c)) /\ Copies(m, w)
  BY <1>1, <1>2, <1>3 DEF HasStart
<1>5. /\ m \in 0 .. (RESET_ROW + 2) /\ m + 1 \in 0 .. (RESET_ROW + 2)
      /\ m \in 0 .. (RESET_ROW + 3) /\ m + 1 \in 0 .. (RESET_ROW + 3)
      /\ m + 0 = m /\ (m + 1) + 1 = m + 2 /\ n + w <= RESET_ROW
  <2>1. RESET_ROW \in Nat
    BY MachineIs
  <2> QED BY ONLY <2>1, <1>2, <1>3, <1>4, m = (n + c) + (4 + (2 * w))
<1>6. 4 * w < HALF \div 2
  <2>1. HALF \div 2 \in Int
    BY MachineIs
  <2> QED BY <2>1, <1>2, <1>3
<1>7. /\ Instr(RomWord(m), OPCODES.LOD, 2, 15, 2, (4 * w) % HALF)
      /\ Instr(RomWord(m + 1), OPCODES.STR, 2, 1, 2, (4 * w) % HALF)
      /\ RomWord(m).kind = "ins" /\ RomWord(m + 1).kind = "ins"
  BY <1>4 DEF Copies, Instr
<1>8. CASE s = 0
  <2>1. At(m)
    BY <1>1, <1>5, <1>8
  <2>2. Fetched = RomWord(m)
    BY <1>5, <1>7, <2>1, FetchedIs
  <2>3. PICK f : Writes(2, Content(f)) /\ \A j \in 1 .. 4 : f[j] = BytesOf(RomWord(n + w))[j]
    BY <1>1, <1>2, <1>3, <1>5, <1>6, <1>7, <2>2, CopyReads
  <2>4. At(m + 1)' /\ Held(n, w)'
    BY <1>1, <1>5, <2>1, <2>3, NextAt, HeldKept DEF Writes
  <2>5. /\ cpu'.regs[15] = Number(physical(n)) /\ cpu'.regs[1] = Number(RAM_BASE)
        /\ cpu'.regs[2] = Content(f)
    BY <1>1, <2>3 DEF Writes
  <2>6. cpu'.regs[2].kind = "data" /\ cpu'.regs[2].bytes = f
    BY <2>5 DEF Content
  <2>7. \A i : BytesOf(RomWord(i))' = BytesOf(RomWord(i))
    BY RomKept DEF BytesOf, Opaque
  <2>8. InCopy(n, c, w, 1)'
    BY <1>1, <2>3, <2>4, <2>5, <2>6, <2>7 DEF InCopy
  <2> QED BY <2>3, <2>8 DEF OnTheWay, Writes
<1>9. CASE s = 1
  <2>1. At(m + 1)
    BY <1>1, <1>9
  <2>2. Fetched = RomWord(m + 1)
    BY <1>5, <1>7, <2>1, FetchedIs
  <2>3. /\ Held(n, w + 1)' /\ Shaped' /\ cpu'.regs = cpu.regs
        /\ cpu'.pc = (cpu.pc + 4) % SPACE
    BY <1>1, <1>2, <1>3, <1>6, <1>7, <1>9, <2>2, CopyWrites
  <2>4. At(m + 2)'
    BY <1>5, <2>1, <2>3, NextAt
  <2>5. CASE w + 1 < c
    <3>1. /\ w + 1 \in 0 .. (c - 1) /\ ((n + c) + (4 + (2 * (w + 1)))) + 0 = m + 2
      BY ONLY <1>2, <1>3, <2>5, m = (n + c) + (4 + (2 * w))
    <3>2. InCopy(n, c, w + 1, 0)'
      BY <1>1, <2>3, <2>4, <3>1 DEF InCopy
    <3> QED BY <2>3, <3>2 DEF OnTheWay
  <2>6. CASE w + 1 = c
    <3>1. t + 0 = m + 2
      BY ONLY <1>2, <1>3, <1>4, <2>6, m = (n + c) + (4 + (2 * w))
    <3>2. Loading(t, l, 0)'
      BY <2>4, <3>1 DEF Loading
    <3>3. InTail(n, c, t, l, 0)'
      BY <2>3, <2>6, <3>2 DEF InTail
    <3> QED BY <2>3, <3>3 DEF OnTheWay
  <2> QED BY <1>3, <2>5, <2>6
<1> QED BY <1>1, <1>8, <1>9

\* Any of them.
LEMMA StepOnTheWay ==
  ASSUME Shaped, Cpu, rom_file' = rom_file,
         NEW n, NEW c, NEW t, NEW l, NEW u, NEW e, Boots(n, c, t, l, u, e),
         OnTheWay(n, c, t, l, u, e), ~ At(e), cpu'.status = "on"
  PROVE  OnTheWay(n, c, t, l, u, e)' /\ Shaped'
<1>1. CASE \E s : InVector(n, u, s)
  BY <1>1, StepVector
<1>2. CASE u = n + c /\ \E s : InBases(n, c, s)
  BY <1>2, StepBases
<1>3. CASE u = n + c /\ \E w, s : InCopy(n, c, w, s)
  BY <1>3, StepCopy
<1>4. CASE u = n + c /\ \E s : InTail(n, c, t, l, s)
  BY <1>4, StepTail
<1>5. CASE \E i : InWalk(n, c, l, e, i)
  <2> PICK i : InWalk(n, c, l, e, i)
    BY <1>5
  <2>1. i # e
    BY DEF InWalk
  <2> QED BY <2>1, StepWalk
<1> QED BY <1>1, <1>2, <1>3, <1>4, <1>5 DEF OnTheWay

LEMMA BootsKept ==
  ASSUME rom_file' = rom_file, NEW n, NEW c, NEW t, NEW l, NEW u, NEW e, Boots(n, c, t, l, u, e)
  PROVE  Boots(n, c, t, l, u, e)'
<1>1. \A i, x, v : Loads(i, x, v)' = Loads(i, x, v)
  BY RomKept DEF Loads
<1>2. \A i : Jumps(i)' = Jumps(i)
  BY RomKept DEF Jumps
<1>3. \A m, w : Copies(m, w)' = Copies(m, w)
  BY RomKept DEF Copies
<1>4. HasStart(n, c, t, l)' = HasStart(n, c, t, l)
  BY <1>1, <1>2, <1>3 DEF HasStart
<1> QED BY RomKept, <1>1, <1>2, <1>4 DEF Boots

\* At the entry all of RAM has been copied.
LEMMA AllHeld ==
  ASSUME NEW n, NEW c, NEW t, NEW l, NEW u, NEW e, Boots(n, c, t, l, u, e),
         OnTheWay(n, c, t, l, u, e), At(e)
  PROVE  Held(n, c)
<1>1. /\ n \in Nat /\ c \in Nat /\ l \in Nat /\ e \in Nat /\ u \in Nat
      /\ l <= e /\ e < n /\ n + c <= RESET_ROW
  BY DEF Boots
<1>2. /\ cpu.pc = ROM_BASE + (4 * e) /\ ROM_BASE \in Nat /\ RESET_ROW \in Nat
  BY MachineIs DEF At
<1>3. ASSUME NEW i \in Nat, At(i) PROVE i = e
  BY <1>1, <1>2, <1>3 DEF At
<1>4. ASSUME NEW s, InVector(n, u, s) PROVE FALSE
  <2>1. RESET_ROW + s \in Nat /\ At(RESET_ROW + s) /\ s \in 0 .. 2
    BY <1>2, <1>4 DEF InVector, Loading
  <2>2. RESET_ROW + s = e
    BY <1>3, <2>1
  <2> QED BY <1>1, <1>2, <2>1, <2>2
<1>5. ASSUME NEW s, InBases(n, c, s) PROVE FALSE
  <2>1. (n + c) + s \in Nat /\ At((n + c) + s) /\ s \in 0 .. 3
    BY <1>1, <1>5 DEF InBases
  <2>2. (n + c) + s = e
    BY <1>3, <2>1
  <2> QED BY <1>1, <2>1, <2>2
<1>6. ASSUME NEW w, NEW s, InCopy(n, c, w, s) PROVE FALSE
  <2>1. /\ ((n + c) + (4 + (2 * w))) + s \in Nat /\ At(((n + c) + (4 + (2 * w))) + s)
        /\ s \in 0 .. 1 /\ w \in 0 .. (c - 1)
    BY <1>1, <1>6 DEF InCopy
  <2>2. ((n + c) + (4 + (2 * w))) + s = e
    BY <1>3, <2>1
  <2> QED BY <1>1, <2>1, <2>2
<1> QED BY <1>4, <1>5, <1>6 DEF OnTheWay, InTail, InWalk

LEMMA BootsIs ==
  ASSUME NEW r, NEW rel, NEW lab, Settled(r, rel, lab), NamesInv, TracedInv, phase \in Later,
         EntryIsCode
  PROVE  \E e \in Nat :
           /\ CodeAddress(EntryLine) = ROM_BASE + (4 * e)
           /\ Boots(Len(r.pending), Copied, TailAt(r), Landing(r), rom_file.target, e)
<1> PICK n : n = Len(r.pending)
  OBVIOUS
<1> PICK c : c = Copied
  OBVIOUS
<1> PICK t : t = TailAt(r)
  OBVIOUS
<1> PICK l : l = Landing(r)
  OBVIOUS
<1> PICK u : u = rom_file.target
  OBVIOUS
<1>1. PICK e \in Nat : /\ e < n /\ CodeAddress(EntryLine) = ROM_BASE + (4 * e)
                       /\ l \in 0 .. e
                       /\ \A i \in l .. (e - 1) : RomWord(i).kind = "data"
  BY EntryIs
<1>2. n \in Nat /\ c \in Nat /\ n + c <= RESET_ROW
  <2>1. /\ n \in Nat /\ c \in Nat /\ Len(rom.pending) \in Nat /\ n + c <= Len(rom.pending)
        /\ Len(rom.pending) <= RESET_ROW /\ RESET_ROW \in Nat
    BY ImageItems, WordsAre, MachineIs
  <2> QED BY <2>1
<1>3. RamCounts(ram) /\ CopyIsShort /\ CodeIn(r, LastLine)
  BY DEF Settled, Limits, Finished, Final
<1>4. 4 * c <= HALF \div 2 /\ (~NeedsStart => c = 0)
  BY <1>3, CopiedIs
<1>5. r.text_start_word \in Nat
  <2>1. Given
    BY DEF Settled
  <2>2. EntryLine \in EntryCode /\ Code(EntryLine)
    BY <2>1, EntryIsFirst
  <2>3. PICK x \in 1 .. Len(r.pending) : r.pending[x].line = EntryLine
    BY <2>2, LineItem
  <2>4. r.text_start_word \in 0 .. (x - 1)
    BY <1>3, <2>2, <2>3 DEF CodeIn
  <2> QED BY <2>4
<1>6. r.text_start_word # None
  BY <1>5 DEF None
<1>7. u = IF NeedsStart THEN n + c ELSE l
  BY <1>1, <1>6, TargetIs
<1>8. l \in Nat /\ l <= e /\ u \in Nat
  BY <1>1, <1>2, <1>7
<1>9. Loads(RESET_ROW, 15, u) /\ Jumps(RESET_ROW + 2)
  BY <1>8, VectorIs
<1>10. ASSUME NeedsStart PROVE HasStart(n, c, t, l)
  <2>1. /\ StartsAt(r) \in Nat /\ t \in Nat /\ t + 3 <= RESET_ROW
        /\ Loads(t, 15, l) /\ Jumps(t + 2)
    BY <1>6, <1>8, <1>10, TailIs
  <2>2. StartsAt(r) = n + c /\ t = (n + c) + (IF c = 0 THEN 0 ELSE 4 + (2 * c))
    BY DEF StartsAt, TailAt, CopyLength
  <2>3. ASSUME c > 0
        PROVE  /\ Loads(n + c, 15, n) /\ Loads((n + c) + 2, 1, RAM_BASE)
               /\ \A w \in 0 .. (c - 1) : Copies((n + c) + (4 + (2 * w)), w)
    BY <1>6, <1>10, <2>2, <2>3, CopyWords
  <2>4. c = 0 => t = n
    BY <1>2, <2>2
  <2>5. ASSUME c > 0 PROVE t = (n + c) + (4 + (2 * c))
    <3>1. c # 0
      BY <1>2, <2>5
    <3> QED BY <2>2, <3>1
  <2> QED BY <2>1, <2>3, <2>4, <2>5 DEF HasStart
<1>11. (u = l /\ c = 0) \/ (u = n + c /\ HasStart(n, c, t, l))
  BY <1>4, <1>7, <1>10
<1>12. Boots(n, c, t, l, u, e)
  BY <1>1, <1>2, <1>4, <1>8, <1>9, <1>11 DEF Boots
<1> QED BY <1>1, <1>12

\* What the way has to do with the image.
Way(n, c, t, l, u, e) ==
  /\ Boots(n, c, t, l, u, e)
  /\ \E r, rel, lab : Finished(r, rel, lab) /\ n = Len(r.pending)
  /\ c = Copied
  /\ CodeAddress(EntryLine) = ROM_BASE + (4 * e)

LEMMA SettledIs ==
  ASSUME AssemblyInv, phase = "running", Plain
  PROVE  /\ \E r, rel, lab : Finished(r, rel, lab)
         /\ \A r, rel, lab : Finished(r, rel, lab) => Settled(r, rel, lab)
<1>1. LaterIs /\ RomFileIs /\ CodeInv
  BY DEF AssemblyInv, Later
<1>2. ImageIs /\ errors = 0
  BY <1>1 DEF AssemblyInv, RomFileIs
<1>3. Source /\ Limits
  BY DEF Plain, Source, Limits
<1>4. Given /\ Addresses(label_map)
  BY <1>1 DEF CodeInv, TraceInv, Numbered, Given
<1>5. RamCounts(ram) /\ \E r, rel, lab : Finished(r, rel, lab)
  BY <1>1, <1>2, <1>3 DEF LaterIs
<1> QED BY <1>1, <1>2, <1>3, <1>4, <1>5 DEF Settled

LEMMA WayIs ==
  AssemblyInv /\ NamesInv /\ TracedInv /\ phase = "running" /\ Plain =>
    \E n, c, t, l, u, e : Way(n, c, t, l, u, e)
<1> SUFFICES ASSUME AssemblyInv, NamesInv, TracedInv, phase = "running", Plain
             PROVE  \E n, c, t, l, u, e : Way(n, c, t, l, u, e)
  OBVIOUS
<1>1. PICK r, rel, lab : Finished(r, rel, lab) /\ Settled(r, rel, lab)
  BY SettledIs
<1>2. phase \in Later /\ EntryIsCode
  BY DEF Later, Plain
<1>3. PICK e \in Nat :
        /\ CodeAddress(EntryLine) = ROM_BASE + (4 * e)
        /\ Boots(Len(r.pending), Copied, TailAt(r), Landing(r), rom_file.target, e)
  BY <1>1, <1>2, BootsIs
<1>4. Way(Len(r.pending), Copied, TailAt(r), Landing(r), rom_file.target, e)
  BY <1>1, <1>3 DEF Way
<1> QED BY <1>4

LEMMA WayNext ==
  (AssemblyInv /\ NamesInv /\ TracedInv /\ phase = "running" /\ Plain =>
    \E n, c, t, l, u, e : Way(n, c, t, l, u, e))'
BY WayIs, PTL

\* The condition the property is about, and the bytes it needs.
LEMMA EntryHolds ==
  ASSUME AssemblyInv, AtEntry, Plain,
         \E n, c, t, l, u, e : Way(n, c, t, l, u, e) /\ OnTheWay(n, c, t, l, u, e)
  PROVE  MemoryIsAsWritten
<1> PICK n, c, t, l, u, e : Way(n, c, t, l, u, e) /\ OnTheWay(n, c, t, l, u, e)
  OBVIOUS
<1>1. PICK r, rel, lab : Finished(r, rel, lab) /\ n = Len(r.pending)
  BY DEF Way
<1>2. phase = "running" /\ cpu.pc = CodeAddress(EntryLine)
  BY DEF AtEntry
<1>3. Settled(r, rel, lab)
  BY <1>1, <1>2, SettledIs
<1>4. Boots(n, c, t, l, u, e) /\ c = Copied /\ At(e)
  BY <1>2 DEF Way, At
<1>5. Held(Len(r.pending), Copied)
  BY <1>1, <1>4, AllHeld
<1> QED BY <1>3, <1>5, MemoryHolds DEF MemoryIsAsWritten

CpuInv ==
  /\ Shaped
  /\ phase = "running" /\ cpu.status = "on" /\ ~entered /\ Plain =>
       \E n, c, t, l, u, e : Way(n, c, t, l, u, e) /\ OnTheWay(n, c, t, l, u, e)

LEMMA SamePlain ==
  ASSUME UNCHANGED asm_vars
  PROVE  /\ Plain' <=> Plain
         /\ (EntryCode # {})' <=> EntryCode # {}
         /\ CodeAddress(EntryLine)' = CodeAddress(EntryLine)
<1>1. /\ SameJob /\ UNCHANGED <<batch, job, line, phase, section, rom, ram, label_map, relocs>>
      /\ UNCHANGED <<errors, image>>
  BY DEF asm_vars, SameJob
<1>2. Source' <=> Source
  BY <1>1, SameReading
<1>3. /\ lines' = lines /\ mode' = mode /\ Objects' = Objects
      /\ \A dir : Indices(dir)' = Indices(dir)
      /\ \A k : SectionAt(k)' = SectionAt(k)
      /\ \A k : Size(k)' = Size(k)
      /\ \A k : Packs(k)' <=> Packs(k)
  BY <1>1, SameSource
<1>4. (\A k : InBss(k)' <=> InBss(k)) /\ \A k : Alignment(k)' = Alignment(k)
  BY <1>1, SameRegions
<1>5. MainLabels' = MainLabels
  BY <1>3 DEF MainLabels
<1>6. EntryCode' = EntryCode
  BY <1>3, <1>5 DEF EntryCode
<1>7. EntryLine' = EntryLine
  BY <1>6 DEF EntryLine
<1>8. EntryIsCode' <=> EntryIsCode
  BY <1>3, <1>5, <1>6, <1>7 DEF EntryIsCode
<1>9. (CopyIsShort' <=> CopyIsShort) /\ (ImageFits' <=> ImageFits)
  BY <1>1 DEF CopyIsShort, ImageFits
<1>10. BssIsPlain' <=> BssIsPlain
  BY <1>1, <1>3, <1>4 DEF BssIsPlain
<1>11. OffsetsAreBytes' <=> OffsetsAreBytes
  BY <1>1, <1>3 DEF OffsetsAreBytes, OffsetIsBytes
<1>12. CodeAddress(EntryLine)' = CodeAddress(EntryLine)
  BY <1>1, <1>7 DEF CodeAddress, IndexOf
<1> QED BY <1>2, <1>6, <1>8, <1>9, <1>10, <1>11, <1>12 DEF Plain, Source

LEMMA SameWay ==
  ASSUME UNCHANGED <<asm_vars, rom_file>>,
         NEW n, NEW c, NEW t, NEW l, NEW u, NEW e, Way(n, c, t, l, u, e)
  PROVE  Way(n, c, t, l, u, e)'
<1>1. SameJob /\ UNCHANGED <<rom, ram, label_map>>
  BY DEF asm_vars, SameJob
<1>2. mode' = mode
  BY <1>1, SameSource
<1>3. Copied' = Copied
  BY <1>1, <1>2 DEF Copied, NeedsStart
<1>4. CodeAddress(EntryLine)' = CodeAddress(EntryLine)
  BY SamePlain
<1>5. Boots(n, c, t, l, u, e)'
  BY BootsKept DEF Way
<1>6. \A r, rel, lab : Finished(r, rel, lab)' <=> Finished(r, rel, lab)
  BY <1>1, SameFinished
<1> QED BY <1>3, <1>4, <1>5, <1>6 DEF Way

LEMMA CpuKeeps ==
  ASSUME Cpu
  PROVE  /\ UNCHANGED <<asm_vars, rom_file>> /\ phase = "running" /\ cpu.status = "on"
         /\ Shaped => Shaped'
<1>1. /\ UNCHANGED <<asm_vars, rom_file>> /\ phase = "running" /\ cpu.status = "on"
  BY DEF Cpu, CpuNop, CpuLdi, CpuAdi, CpuLod, CpuStr, CpuJmp, CpuHlt, CpuLost, Executing
<1>2. ASSUME Shaped, NEW m, Advance([cpu EXCEPT !.mem = m]) PROVE Shaped'
  BY <1>2 DEF Shaped, Advance
<1>3. ASSUME Shaped, NEW x, NEW v, Advance([cpu EXCEPT !.regs[x] = v]) PROVE Shaped'
  BY <1>3 DEF Shaped, Advance
<1>4. ASSUME Shaped, CpuNop \/ CpuJmp \/ CpuHlt \/ CpuLost PROVE Shaped'
  BY <1>4 DEF Shaped, Advance, CpuNop, CpuJmp, CpuHlt, CpuLost
<1>5. ASSUME Shaped, CpuLdi \/ CpuAdi \/ CpuLod PROVE Shaped'
  BY <1>3, <1>5 DEF CpuLdi, CpuAdi, CpuLod
<1>6. ASSUME Shaped, CpuStr PROVE Shaped'
  BY <1>2, <1>6 DEF CpuStr
<1> QED BY <1>1, <1>4, <1>5, <1>6 DEF Cpu

LEMMA CpuRuns ==
  ASSUME CpuInv, Cpu
  PROVE  CpuInv'
<1>1. UNCHANGED <<asm_vars, rom_file>> /\ phase = "running" /\ cpu.status = "on" /\ Shaped'
  BY CpuKeeps DEF CpuInv
<1> SUFFICES ASSUME cpu'.status = "on", ~entered', Plain'
             PROVE  \E n, c, t, l, u, e : (Way(n, c, t, l, u, e) /\ OnTheWay(n, c, t, l, u, e))'
  BY <1>1 DEF CpuInv
<1>2. Plain /\ ~entered /\ ~AtEntry
  BY <1>1, SamePlain DEF Cpu
<1>3. PICK n, c, t, l, u, e : Way(n, c, t, l, u, e) /\ OnTheWay(n, c, t, l, u, e)
  BY <1>1, <1>2 DEF CpuInv
<1>4. ~At(e)
  BY <1>1, <1>2, <1>3 DEF AtEntry, At, Way, Plain, EntryIsCode
<1>5. OnTheWay(n, c, t, l, u, e)'
  BY <1>1, <1>3, <1>4, StepOnTheWay DEF Way, CpuInv
<1>6. Way(n, c, t, l, u, e)'
  BY <1>1, <1>3, SameWay
<1> QED BY <1>5, <1>6

\* Out of reset.
LEMMA ResetRuns ==
  ASSUME write_rom_logisim, AssemblyInv', NamesInv', TracedInv'
  PROVE  CpuInv'
<1>1. phase' = "running" /\ cpu' = [CpuOff EXCEPT !.status = "on"]
  BY DEF write_rom_logisim
<1>2. /\ DOMAIN cpu' = {"status", "pc", "regs", "mem"} /\ DOMAIN cpu'.regs = 0 .. 15
      /\ cpu'.pc = SPACE - 16 /\ cpu'.mem = <<>>
  BY <1>1 DEF CpuOff
<1>3. Shaped'
  BY <1>2 DEF Shaped
<1>4. ASSUME Plain'
      PROVE  \E n, c, t, l, u, e : (Way(n, c, t, l, u, e) /\ OnTheWay(n, c, t, l, u, e))'
  <2>1. PICK n, c, t, l, u, e : Way(n, c, t, l, u, e)'
    BY <1>1, <1>4, WayNext
  <2>2. At(RESET_ROW + 0)'
    <3>1. SPACE - 16 = ROM_BASE + (4 * (RESET_ROW + 0))
      BY MachineIs
    <3> QED BY <1>2, <3>1 DEF At
  <2>3. Held(n, 0)'
    <3>1. RAM_BASE .. ((RAM_BASE + (4 * 0)) - 1) = {} /\ 0 .. ((4 * 0) - 1) = {}
      BY MachineIs
    <3>2. DOMAIN cpu'.mem = {}
      BY <1>2
    <3> QED BY <3>1, <3>2 DEF Held
  <2>4. InVector(n, u, 0)'
    BY <2>2, <2>3 DEF InVector, Loading
  <2> QED BY <2>1, <2>4 DEF OnTheWay
<1> QED BY <1>3, <1>4 DEF CpuInv

LEMMA StepRuns ==
  ASSUME CpuInv, [BootNext]_vars, AssemblyInv', NamesInv', TracedInv'
  PROVE  CpuInv'
<1>1. CASE Assemble /\ UNCHANGED <<rom_file, cpu, entered>>
  <2>1. phase' # "running"
    BY <1>1 DEF Assemble, FirstPass, Section, Comm, Align, Long, Data, Zero, Label, Ignored,
                Instruction, Raise, Reading, EndFirstPass, SecondPass
  <2> QED BY <1>1, <2>1 DEF CpuInv, Shaped
<1>2. CASE write_rom_logisim
  BY <1>2, ResetRuns
<1>3. CASE Cpu
  BY <1>3, CpuRuns
<1>4. CASE (Rejected \/ Stopped) /\ NextJob /\ UNCHANGED <<rom_file, cpu, entered>>
  BY <1>4 DEF CpuInv, Shaped, NextJob, Begin
<1>5. CASE UNCHANGED vars
  <2>1. UNCHANGED <<asm_vars, rom_file>> /\ cpu' = cpu /\ entered' = entered /\ phase' = phase
    BY <1>5 DEF vars, asm_vars
  <2>2. Shaped'
    BY <2>1 DEF CpuInv, Shaped
  <2>3. ASSUME phase = "running", cpu.status = "on", ~entered, Plain
        PROVE  \E n, c, t, l, u, e : (Way(n, c, t, l, u, e) /\ OnTheWay(n, c, t, l, u, e))'
    <3>1. PICK n, c, t, l, u, e : Way(n, c, t, l, u, e) /\ OnTheWay(n, c, t, l, u, e)
      BY <2>3 DEF CpuInv
    <3>2. (\A i : At(i)' <=> At(i)) /\ \A x, w : Held(x, w) => Held(x, w)'
      BY <2>1, HeldKept DEF At
    <3>3. \A i : BytesOf(RomWord(i))' = BytesOf(RomWord(i))
      BY <2>1, RomKept DEF BytesOf, Opaque
    <3>4. OnTheWay(n, c, t, l, u, e)'
      BY <2>1, <3>1, <3>2, <3>3
         DEF OnTheWay, InVector, InBases, InCopy, InTail, InWalk, Loading
    <3>5. Way(n, c, t, l, u, e)'
      BY <2>1, <3>1, SameWay
    <3> QED BY <3>4, <3>5
  <2> QED BY <2>1, <2>2, <2>3, SamePlain DEF CpuInv
<1> QED BY <1>1, <1>2, <1>3, <1>4, <1>5 DEF BootNext, Running

-----------------------------------------------------------------------------
(***************************************************************************)
(* All of it, in every state.                                              *)
(***************************************************************************)
BootInv == AssemblyInv /\ NamesInv /\ TracedInv /\ CpuInv

LEMMA InitBoot ==
  ASSUME BootInit
  PROVE  BootInv
<1>1. AssemblyInv
  BY InitAssembly
<1>2. phase = "first" /\ label_map = <<>> /\ cpu = CpuOff
  BY DEF BootInit, Init
<1>3. NamesInv /\ TracedInv /\ CpuInv
  BY <1>2 DEF NamesInv, TracedInv, CpuInv, Shaped, CpuOff, Later
<1> QED BY <1>1, <1>3 DEF BootInv

LEMMA StepBoot ==
  ASSUME BootInv, [BootNext]_vars
  PROVE  BootInv'
<1>1. AssemblyInv'
  BY StepAssembly DEF BootInv
<1>2. NamesInv'
  BY StepNames DEF BootInv, AssemblyInv, CodeInv, TraceInv
<1>3. TracedInv'
  BY StepTraced DEF BootInv, AssemblyInv
<1>4. CpuInv'
  BY <1>1, <1>2, <1>3, StepRuns DEF BootInv
<1> QED BY <1>1, <1>2, <1>3, <1>4 DEF BootInv

(***************************************************************************)
(* When the program gets control, memory is as the source says, whatever   *)
(* the source and the sizes of the machine.                                *)
(***************************************************************************)
THEOREM MemoryIsWritten == BootSpec => []MemoryIsAsWritten
<1>1. BootInit => BootInv
  BY InitBoot
<1>2. BootInv /\ [BootNext]_vars => BootInv'
  BY StepBoot
<1>3. BootInv => MemoryIsAsWritten
  <2> SUFFICES ASSUME BootInv, AtEntry, Plain PROVE MemoryIsAsWritten
    BY DEF MemoryIsAsWritten
  <2>1. AssemblyInv /\ CpuInv
    BY DEF BootInv
  <2>2. \E n, c, t, l, u, e : Way(n, c, t, l, u, e) /\ OnTheWay(n, c, t, l, u, e)
    BY <2>1 DEF CpuInv, AtEntry
  <2> QED BY <2>1, <2>2, EntryHolds
<1> QED BY <1>1, <1>2, <1>3, PTL DEF BootSpec

-----------------------------------------------------------------------------
(***************************************************************************)
(* The types: every word that can be fetched has numbers for operands, so  *)
(* the registers that hold a number hold an address.                       *)
(***************************************************************************)
\* What a field is read as is a number, and so is a word.
LEMMA FieldIsInt ==
  ASSUME NEW ins, NEW class \in Classes, NEW arg, NEW labels, Addresses(labels),
         arg.kind \in {"hi", "lo", "sym"} => arg.off \in Int
  PROVE  Field(ins, class, arg, labels) \in Int
<1>1. HALF \in Nat \ {0}
  BY Sixteenths
<1>2. \A signed : parse_immediate(arg, signed) \in Int
  BY <1>1 DEF parse_immediate, Invalid
<1>3. /\ parse_register(arg) \in Int /\ parse_special_register(arg) \in Int
      /\ parse_condition(arg) \in Int
  BY DEF parse_register, parse_special_register, parse_condition, CONDITIONS, Invalid
<1>4. \A signed : \A kind \in {"hi", "lo"} :
        _resolve_imm_or_pseudo(arg, labels, kind, signed) \in Int
  <2> TAKE signed
  <2> TAKE kind \in {"hi", "lo"}
  <2>1. CASE arg.kind \notin {"hi", "lo", "sym"}
    BY <1>2, <2>1 DEF _resolve_imm_or_pseudo
  <2>2. CASE arg.kind \in {"hi", "lo", "sym"} /\ ~Defined(arg, labels)
    BY <2>2 DEF _resolve_imm_or_pseudo, Invalid
  <2>3. CASE arg.kind \in {"hi", "lo", "sym"} /\ Defined(arg, labels)
    <3> PICK a : a = eval_label_expr(arg, labels)
      OBVIOUS
    <3>1. a \in Int
      BY <2>3 DEF eval_label_expr, Defined, Addresses
    <3>2. compute_hi_lo(a).hi \in Int /\ compute_hi_lo(a).lo \in Int
      BY <3>1, Halves, <1>1
    <3>3. /\ DOMAIN compute_hi_lo(a) = {"hi", "lo"}
          /\ compute_hi_lo(a)["hi"] \in Int /\ compute_hi_lo(a)["lo"] \in Int
      BY <3>2 DEF compute_hi_lo
    <3>4. _resolve_imm_or_pseudo(arg, labels, kind, signed)
            = compute_hi_lo(a)[IF arg.kind = "sym" THEN kind ELSE arg.kind]
      BY <2>3 DEF _resolve_imm_or_pseudo
    <3> HIDE DEF compute_hi_lo
    <3> QED BY <2>3, <3>3, <3>4
  <2> QED BY <2>1, <2>2, <2>3
<1>5. PseudoKind(ins) \in {"hi", "lo"}
  BY DEF PseudoKind
<1> QED BY <1>2, <1>3, <1>4, <1>5 DEF Field, Classes

LEMMA EncodedIsInt ==
  ASSUME NEW ins, Readable(ins.args), NEW labels, Addresses(labels), Encodable(ins, labels)
  PROVE  encode_single(ins, labels).operands \in Int
<1> PICK layout : layout = Layout(ins.mnemonic)
  OBVIOUS
<1> PICK args : args = ins.args
  OBVIOUS
<1>1. /\ ins.mnemonic \in DOMAIN OPCODES /\ Len(args) = Len(layout)
      /\ Len(layout) \in 0 .. 3 /\ DOMAIN layout = 1 .. Len(layout)
      /\ \A i \in 1 .. Len(layout) :
           layout[i][1] \in Classes /\ layout[i][2] \in {"A", "B", "C", "I"}
  BY LayoutOf DEF Encodable, PrefixApplies
<1>2. \A x \in {"A", "B", "C", "I"} : Weight(x) \in Int
  BY Sixteenths DEF Weight
<1>3. ASSUME NEW i \in DOMAIN layout PROVE Field(ins, layout[i][1], args[i], labels) \in Int
  <2> PICK arg : arg = args[i]
    OBVIOUS
  <2>1. i \in 1 .. Len(args)
    BY <1>1
  <2>2. arg.kind \in {"hi", "lo", "sym"} => arg.off \in Int
    BY <2>1 DEF Readable
  <2> QED BY <1>1, <2>2, FieldIsInt
<1> DEFINE part(i) == IF i \notin DOMAIN layout THEN 0
                      ELSE Weight(layout[i][2]) * Field(ins, layout[i][1], args[i], labels)
<1>4. \A i : part(i) \in Int
  <2> TAKE i
  <2>1. CASE i \notin DOMAIN layout
    BY <2>1
  <2>2. CASE i \in DOMAIN layout
    <3> PICK w : w = Weight(layout[i][2])
      OBVIOUS
    <3> PICK f : f = Field(ins, layout[i][1], args[i], labels)
      OBVIOUS
    <3>1. w \in Int /\ f \in Int
      BY <1>1, <1>2, <1>3, <2>2
    <3>2. part(i) = w * f
      BY <2>2
    <3> HIDE DEF part
    <3> QED BY <3>1, <3>2
  <2> QED BY <2>1, <2>2
<1>5. encode_single(ins, labels).operands = part(1) + part(2) + part(3)
  BY DEF encode_single, build_word
<1> HIDE DEF part
<1> QED BY <1>4, <1>5

TypesInv ==
  /\ section \in {"text", "data", "bss"} /\ entered \in BOOLEAN
  /\ phase \in Later => rom.text_start_word \in Int
  /\ cpu.status \in {"off", "on", "halted", "lost"}
  /\ cpu.pc \in 0 .. (SPACE - 1)
  /\ \A r \in 0 .. 15 : Reg(r).kind = "num" => Reg(r).n \in 0 .. (SPACE - 1)
  /\ DOMAIN cpu.mem \subseteq 0 .. (SPACE + 2)

LEMMA TargetIsInt ==
  ASSUME CodeInv, TypesInv, phase \in Later
  PROVE  ResetTarget \in Int
  BY DEF CodeInv, TypesInv, ResetTarget, Addresses

LEMMA FetchedIsTyped ==
  ASSUME AssemblyInv, TracedInv, TypesInv, phase = "running", Fetched.kind = "ins"
  PROVE  Fetched.operands \in Int
<1>1. CodeInv /\ RomFileIs /\ ImageIs /\ phase \in Later /\ Addresses(label_map)
  BY DEF AssemblyInv, CodeInv, RomFileIs, Later
<1>2. \A bytes : DataWord(bytes).kind = "data"
  BY DEF DataWord
<1>3. CASE Fetched = Nop
  BY <1>3 DEF Nop, build_word
<1>4. CASE InRom(cpu.pc) /\ Fetched = WordAt(cpu.pc)
  <2> PICK i : i = (cpu.pc - ROM_BASE) \div 4
    OBVIOUS
  <2>1. i \in 0 .. (RESET_ROW + 3)
    <3> PICK a : a = cpu.pc - ROM_BASE
      OBVIOUS
    <3>1. /\ a \in Nat /\ a < (4 * RESET_ROW) + 16 /\ RESET_ROW \in Nat /\ i = a \div 4
      BY <1>4, MachineIs DEF InRom
    <3> QED BY ONLY <3>1
  <2>2. Fetched = RomWord(i)
    BY <1>4 DEF WordAt
  <2>3. CASE i >= RESET_ROW
    <3> PICK v : v = ResetVector
      OBVIOUS
    <3> PICK j : j = i - RESET_ROW + 1
      OBVIOUS
    <3>1. j \in 1 .. 4
      BY <2>1, <2>3, MachineIs
    <3>2. rom_file.target \in Int
      BY <1>1, TargetIsInt DEF RomFileIs
    <3>3. \A k \in 1 .. 4 : v[k].operands \in Int
      <4> PICK hi, lo : hi = compute_hi_lo(rom_file.target).hi /\ lo = compute_hi_lo(rom_file.target).lo
        OBVIOUS
      <4>1. hi \in Int /\ lo \in Int /\ Weight("A") \in Int /\ Weight("B") \in Int
        BY <3>2, Halves, Sixteenths DEF Weight
      <4>2. /\ v[1] = build_word(4, OPCODES.LDI, (15 * Weight("A")) + hi)
            /\ v[2] = build_word(4, OPCODES.ADI, (15 * Weight("A")) + lo)
            /\ v[3] = build_word(0, OPCODES.JMP, 15 * Weight("B"))
            /\ v[4] = build_word(0, OPCODES.NOP, 0)
        BY DEF ResetVector
      <4>3. /\ v[1].operands \in Int /\ v[2].operands \in Int /\ v[3].operands \in Int
            /\ v[4].operands \in Int
        BY <4>1, <4>2 DEF build_word
      <4> QED BY <4>3
    <3>4. RomWord(i) = v[j]
      BY <2>3 DEF RomWord
    <3> QED BY <2>2, <3>1, <3>3, <3>4
  <2>4. CASE ~(i >= RESET_ROW) /\ i + 1 \in DOMAIN rom_file.words
    <3> PICK k : k = i + 1
      OBVIOUS
    <3> PICK item : item = rom.pending[k]
      OBVIOUS
    <3>1. RomWord(i) = rom_file.words[k]
      BY <2>4 DEF RomWord
    <3>2. k \in DOMAIN rom.pending /\ rom_file.words[k] = WordOf(item) /\ Resolvable(item)
      BY <1>1, <2>4 DEF RomFileIs, ImageIs
    <3>3. WellTyped(item)
      BY <1>1, <3>2 DEF TracedInv, Traces, Meant, ToSet
    <3>4. CASE item.kind = "raw"
      <4>1. WordOf(item).kind = "data"
        BY <1>2, <3>4 DEF WordOf
      <4> QED BY <2>2, <3>1, <3>2, <4>1
    <3>5. CASE item.kind = "tokens" /\ Readable(item.ins.args)
      <4>1. Encodable(item.ins, label_map) /\ WordOf(item) = encode_single(item.ins, label_map)
        BY <3>2, <3>5 DEF WordOf, Resolvable
      <4> QED BY <1>1, <2>2, <3>1, <3>2, <3>5, <4>1, EncodedIsInt
    <3>6. CASE item.kind = "word" /\ item.word.operands \in Int
      BY <2>2, <3>1, <3>2, <3>6 DEF WordOf
    <3> QED BY <3>3, <3>4, <3>5, <3>6 DEF WellTyped
  <2>5. CASE ~(i >= RESET_ROW) /\ i + 1 \notin DOMAIN rom_file.words
    <3>1. RomWord(i).kind = "data"
      BY <1>2, <2>5 DEF RomWord
    <3> QED BY <2>2, <3>1
  <2> QED BY <2>3, <2>4, <2>5
<1> QED BY <1>2, <1>3, <1>4 DEF Fetched

LEMMA FieldsAreInt ==
  ASSUME NEW word, word.operands \in Int
  PROVE  /\ FieldA(word) \in 0 .. 15 /\ FieldB(word) \in 0 .. 15
         /\ Inmd(word) \in 0 .. (HALF - 1)
<1> PICK x : x = word.operands
  OBVIOUS
<1>1. HALF \in Nat \ {0} /\ 16 * HALF \in Nat \ {0} /\ x \in Int
  BY Sixteenths
<1>2. x \div (16 * HALF) \in Int
  <2> PICK d : d = 16 * HALF
    OBVIOUS
  <2>1. d \in Nat \ {0}
    BY <1>1
  <2> QED BY <1>1, <2>1
<1> PICK y : y = x \div (16 * HALF)
  OBVIOUS
<1>3. x \div HALF \in Int /\ x % HALF \in 0 .. (HALF - 1)
  BY <1>1
<1>4. FieldA(word) = y % 16 /\ FieldB(word) = (x \div HALF) % 16 /\ Inmd(word) = x % HALF
  BY DEF FieldA, FieldB, Inmd
<1> QED BY <1>2, <1>3, <1>4

LEMMA CpuTypes ==
  ASSUME Shaped, AssemblyInv, TracedInv, TypesInv, Cpu
  PROVE  TypesInv'
<1>1. /\ UNCHANGED <<asm_vars, rom_file>> /\ phase = "running" /\ cpu.status = "on" /\ Shaped'
  BY CpuKeeps
<1>2. entered' \in BOOLEAN
  BY DEF Cpu, TypesInv
<1>3. SPACE \in Nat \ {0} /\ HALF \in Nat \ {0} /\ SPACE = HALF * HALF
  BY MachineIs, HalfAssumption, Widths
<1>4. /\ cpu.pc \in 0 .. (SPACE - 1) /\ DOMAIN cpu.mem \subseteq 0 .. (SPACE + 2)
      /\ \A r \in 0 .. 15 : cpu.regs[r].kind = "num" => cpu.regs[r].n \in 0 .. (SPACE - 1)
  BY DEF TypesInv, Reg
<1>5. SUFFICES /\ cpu'.status \in {"off", "on", "halted", "lost"}
               /\ cpu'.pc \in 0 .. (SPACE - 1)
               /\ \A r \in 0 .. 15 : cpu'.regs[r].kind = "num" => cpu'.regs[r].n \in 0 .. (SPACE - 1)
               /\ DOMAIN cpu'.mem \subseteq 0 .. (SPACE + 2)
  BY <1>1, <1>2 DEF TypesInv, Reg, asm_vars
<1>6. (cpu.pc + 4) % SPACE \in 0 .. (SPACE - 1)
  BY <1>3, <1>4
\* A register that is written holds an address, or no number.
<1>7. ASSUME NEW x \in 0 .. 15, NEW v, v.kind = "num" => v.n \in 0 .. (SPACE - 1),
             Advance([cpu EXCEPT !.regs[x] = v])
      PROVE  TypesInv'
  <2>1. Writes(x, v)
    BY <1>7, AdvanceWrites
  <2> QED BY <1>1, <1>2, <1>4, <1>6, <1>7, <2>1 DEF Writes, TypesInv, Reg, asm_vars
<1>8. ASSUME Fetched.kind = "ins"
      PROVE  /\ FieldA(Fetched) \in 0 .. 15 /\ FieldB(Fetched) \in 0 .. 15
             /\ Inmd(Fetched) \in 0 .. (HALF - 1)
             /\ \A r \in 0 .. 15 : Reg(r).kind = "num" => Displaced(r) \in 0 .. (SPACE - 1)
  <2>1. /\ FieldA(Fetched) \in 0 .. 15 /\ FieldB(Fetched) \in 0 .. 15
        /\ Inmd(Fetched) \in 0 .. (HALF - 1)
    BY <1>1, <1>8, FetchedIsTyped, FieldsAreInt
  <2>2. SignExtend(Inmd(Fetched)) \in Int
    BY <1>3, <2>1 DEF SignExtend
  <2>3. ASSUME NEW r \in 0 .. 15, Reg(r).kind = "num" PROVE Displaced(r) \in 0 .. (SPACE - 1)
    <3> PICK a : a = Reg(r).n + SignExtend(Inmd(Fetched))
      OBVIOUS
    <3>1. a \in Int
      BY <1>4, <2>2, <2>3 DEF Reg
    <3>2. a % SPACE \in 0 .. (SPACE - 1)
      BY <1>3, <3>1
    <3> QED BY <3>2 DEF Displaced
  <2> QED BY <2>1, <2>3
<1>9. CASE CpuNop
  <2>1. Advance(cpu)
    BY <1>9 DEF CpuNop
  <2>2. /\ cpu'.status = cpu.status /\ cpu'.regs = cpu.regs /\ cpu'.mem = cpu.mem
        /\ cpu'.pc = (cpu.pc + 4) % SPACE
    BY <2>1 DEF Advance, Shaped
  <2> QED BY <1>1, <1>4, <1>6, <2>2
<1>10. CASE CpuLdi
  <2> PICK v : v = IF Fetched.tipo = 4 THEN Inmd(Fetched) * HALF ELSE Inmd(Fetched)
    OBVIOUS
  <2>1. Fetched.kind = "ins" /\ Advance([cpu EXCEPT !.regs[FieldA(Fetched)] = Number(v)])
    BY <1>10 DEF CpuLdi, Executing
  <2>2. v \in 0 .. (SPACE - 1)
    <3> PICK m : m = Inmd(Fetched)
      OBVIOUS
    <3>1. m \in 0 .. (HALF - 1) /\ HALF \in Nat \ {0}
      BY <1>3, <1>8, <2>1
    <3>2. m * HALF \in 0 .. ((HALF * HALF) - 1) /\ m \in 0 .. ((HALF * HALF) - 1)
      BY ONLY <3>1
    <3> QED BY <1>3, <3>2
  <2>3. Number(v).n \in 0 .. (SPACE - 1)
    BY <2>2 DEF Number
  <2>4. TypesInv'
    BY <1>7, <1>8, <2>1, <2>3
  <2> QED BY <2>4, <1>5 DEF TypesInv, Reg
<1>11. CASE CpuAdi
  <2>1. /\ Fetched.kind = "ins" /\ Reg(FieldA(Fetched)).kind = "num"
        /\ Advance([cpu EXCEPT !.regs[FieldA(Fetched)] = Number(Displaced(FieldA(Fetched)))])
    BY <1>11 DEF CpuAdi, Executing
  <2>2. Number(Displaced(FieldA(Fetched))).n \in 0 .. (SPACE - 1)
    BY <1>8, <2>1 DEF Number
  <2>3. TypesInv'
    BY <1>7, <1>8, <2>1, <2>2
  <2> QED BY <2>3 DEF TypesInv, Reg
<1>12. CASE CpuLod
  <2> PICK v : v = Content(Bytes(Displaced(FieldA(Fetched)), 4))
    OBVIOUS
  <2>1. /\ Fetched.kind = "ins" /\ Advance([cpu EXCEPT !.regs[FieldB(Fetched)] = v])
    BY <1>12 DEF CpuLod, Executing
  <2>2. v.kind # "num"
    BY DEF Content
  <2>3. TypesInv'
    BY <1>7, <1>8, <2>1, <2>2
  <2> QED BY <2>3 DEF TypesInv, Reg
<1>13. CASE CpuStr
  <2> PICK a : a = Displaced(FieldA(Fetched))
    OBVIOUS
  <2> PICK stored : stored = RegBytes(FieldB(Fetched))
    OBVIOUS
  <2> PICK mem : mem = [x \in DOMAIN cpu.mem \union a .. (a + 3) |->
                          IF x \in a .. (a + 3) THEN stored[x - a + 1] ELSE cpu.mem[x]]
    OBVIOUS
  <2>1. /\ Fetched.kind = "ins" /\ Reg(FieldA(Fetched)).kind = "num"
        /\ Advance([cpu EXCEPT !.mem = mem])
    BY <1>13 DEF CpuStr, Executing
  <2>2. /\ cpu'.status = cpu.status /\ cpu'.regs = cpu.regs /\ cpu'.mem = mem
        /\ cpu'.pc = (cpu.pc + 4) % SPACE
    BY <2>1 DEF Advance, Shaped
  <2>3. a \in 0 .. (SPACE - 1)
    BY <1>8, <2>1
  <2>4. DOMAIN mem \subseteq 0 .. (SPACE + 2)
    <3>1. a .. (a + 3) \subseteq 0 .. (SPACE + 2)
      BY <1>3, <2>3
    <3>2. DOMAIN mem = DOMAIN cpu.mem \union a .. (a + 3)
      OBVIOUS
    <3> QED BY <1>4, <3>1, <3>2
  <2> QED BY <1>1, <1>4, <1>6, <2>2, <2>4
<1>14. CASE CpuJmp
  <2>1. /\ Fetched.kind = "ins" /\ Reg(FieldB(Fetched)).kind = "num"
        /\ cpu' = [cpu EXCEPT !.pc = Reg(FieldB(Fetched)).n]
    BY <1>14 DEF CpuJmp, Executing
  <2>2. Reg(FieldB(Fetched)).n \in 0 .. (SPACE - 1)
    BY <1>4, <1>8, <2>1 DEF Reg
  <2>3. /\ cpu'.status = cpu.status /\ cpu'.regs = cpu.regs /\ cpu'.mem = cpu.mem
        /\ cpu'.pc = Reg(FieldB(Fetched)).n
    BY <2>1 DEF Shaped
  <2> QED BY <1>1, <1>4, <2>2, <2>3
<1>15. CASE CpuHlt \/ CpuLost
  <2>1. /\ cpu'.status \in {"halted", "lost"} /\ cpu'.regs = cpu.regs /\ cpu'.mem = cpu.mem
        /\ cpu'.pc = cpu.pc
    BY <1>15 DEF CpuHlt, CpuLost, Shaped
  <2> QED BY <1>4, <2>1
<1> QED BY <1>9, <1>10, <1>11, <1>12, <1>13, <1>14, <1>15 DEF Cpu

\* The beginning of .text stays a number, whatever a line does to the image.
LEMMA StepMark ==
  ASSUME TypesInv, CodeInv, EndFirstPass
  PROVE  rom'.text_start_word \in Int
<1>1. RomCounts(rom) /\ RamCounts(ram)
  BY Counted DEF EndFirstPass, CodeInv, TraceInv
<1> DEFINE flushed == flush_pending_bytes(rom)
           withData == Emitted(flushed, DataWords)
<1>2. RomCounts(flushed)
  BY <1>1, FlushCounts
<1>3. RomCounts(withData)
  <2> HIDE DEF flushed
  <2>1. IsSeq(DataWords)
    BY <1>1, DataWordsInjected DEF Injected
  <2> QED BY <1>2, <2>1, EmittedCounts
<1>4. flushed.text_start_word \in Int
  <2> HIDE DEF flushed
  <2> QED BY <1>2 DEF RomCounts, RomType
<1>5. withData.text_start_word = flushed.text_start_word
  BY DEF Emitted
<1>6. CASE ~NeedsStart
  <2>1. rom' = flushed
    BY <1>6 DEF EndFirstPass
  <2> QED BY <1>4, <2>1
<1>7. CASE NeedsStart
  <2>1. \E items : rom' = [withData EXCEPT !.pending = items]
    BY <1>7 DEF EndFirstPass, InjectStart
  <2> HIDE DEF flushed, withData
  <2>2. rom'.text_start_word = withData.text_start_word
    BY <1>3, <2>1 DEF RomCounts, RomType
  <2> QED BY <1>4, <1>5, <2>2
<1> QED BY <1>6, <1>7

LEMMA LineTypes ==
  ASSUME TypesInv, CodeInv, FirstPass
  PROVE  section' \in {"text", "data", "bss"} /\ phase' \notin Later
<1>1. phase' \notin Later
  BY DEF FirstPass, Section, Comm, Align, Long, Data, Zero, Label, Ignored, Instruction,
         Raise, Reading, Later
<1>2. CASE Section
  <2>1. /\ batch \in Batches /\ job \in DOMAIN batch /\ line \in DOMAIN lines
        /\ ThisLine.dir = "section"
        /\ section' = IF ThisLine.name = "rodata" THEN "data" ELSE ThisLine.name
    BY <1>2 DEF Section, Reading, CodeInv, TraceInv, Numbered
  <2>2. ThisLine.name \in {"text", "data", "rodata", "bss"}
    BY <2>1, BatchAssumption DEF ThisLine, lines
  <2> QED BY <1>1, <2>1, <2>2
<1>3. CASE ~Section
  <2>1. section' = section
    BY <1>3 DEF FirstPass, Comm, Align, Long, Data, Zero, Label, Ignored, Instruction, Raise
  <2> QED BY <1>1, <2>1 DEF TypesInv
<1> QED BY <1>2, <1>3

LEMMA StepTypes ==
  ASSUME TypesInv, BootInv, [BootNext]_vars
  PROVE  TypesInv'
<1>1. AssemblyInv /\ CodeInv /\ TracedInv /\ Shaped
  BY DEF BootInv, AssemblyInv, CpuInv
<1>2. CASE Cpu
  BY <1>1, <1>2, CpuTypes
<1>3. CASE FirstPass /\ UNCHANGED <<rom_file, cpu, entered>>
  <2>1. section' \in {"text", "data", "bss"} /\ phase' \notin Later
    BY <1>1, <1>3, LineTypes
  <2> QED BY <1>3, <2>1 DEF TypesInv, Reg
<1>4. CASE EndFirstPass /\ UNCHANGED <<rom_file, cpu, entered>>
  <2>1. rom'.text_start_word \in Int
    BY <1>1, <1>4, StepMark
  <2>2. section' = section
    BY <1>4 DEF EndFirstPass
  <2> QED BY <1>4, <2>1, <2>2 DEF TypesInv, Reg
<1>5. CASE SecondPass /\ UNCHANGED <<rom_file, cpu, entered>>
  BY <1>5 DEF SecondPass, TypesInv, Reg, Later
<1>6. CASE write_rom_logisim
  <2>1. /\ phase \in Later /\ rom' = rom /\ section' = section /\ entered' = FALSE
        /\ cpu' = [CpuOff EXCEPT !.status = "on"]
    BY <1>6 DEF write_rom_logisim, Later
  <2>2. /\ cpu'.status = "on" /\ cpu'.pc = SPACE - 16 /\ cpu'.mem = <<>>
        /\ cpu'.regs = [r \in 0 .. 15 |-> Number(0)]
    BY <2>1 DEF CpuOff
  <2>3. SPACE - 16 \in 0 .. (SPACE - 1) /\ 0 \in 0 .. (SPACE - 1)
    BY MachineIs
  <2>4. \A r \in 0 .. 15 : cpu'.regs[r].n = 0
    BY <2>2 DEF Number
  <2>5. DOMAIN cpu'.mem = {}
    BY <2>2
  <2> QED BY <2>1, <2>2, <2>3, <2>4, <2>5 DEF TypesInv, Reg
<1>7. CASE NextJob /\ UNCHANGED <<rom_file, cpu, entered>>
  <2>1. section' = "text" /\ phase' \notin Later
    BY <1>7 DEF NextJob, Begin, Later
  <2> QED BY <1>7, <2>1 DEF TypesInv, Reg
<1>8. CASE UNCHANGED vars
  BY <1>8 DEF vars, asm_vars, TypesInv, Reg
<1> QED BY <1>2, <1>3, <1>4, <1>5, <1>6, <1>7, <1>8 DEF BootNext, Running, Assemble

\* Every variable has the values it is declared for.
THEOREM BootTypes == BootSpec => []TypeOK
<1>1. BootInit => BootInv /\ TypesInv
  <2> SUFFICES ASSUME BootInit PROVE BootInv /\ TypesInv
    OBVIOUS
  <2>1. BootInv
    BY InitBoot
  <2>2. phase = "first" /\ section = "text" /\ cpu = CpuOff /\ entered = FALSE
    BY DEF BootInit, Init
  <2>3. /\ cpu.status = "off" /\ cpu.pc = SPACE - 16 /\ cpu.mem = <<>>
        /\ cpu.regs = [r \in 0 .. 15 |-> Number(0)]
    BY <2>2 DEF CpuOff
  <2>4. SPACE - 16 \in 0 .. (SPACE - 1) /\ 0 \in 0 .. (SPACE - 1)
    BY MachineIs
  <2>5. \A r \in 0 .. 15 : cpu.regs[r].n = 0
    BY <2>3 DEF Number
  <2>6. DOMAIN cpu.mem = {}
    BY <2>3
  <2> QED BY <2>1, <2>2, <2>3, <2>4, <2>5, <2>6 DEF TypesInv, Reg, Later
<1>2. BootInv /\ TypesInv /\ [BootNext]_vars => BootInv' /\ TypesInv'
  BY StepBoot, StepTypes
<1>3. BootInv /\ TypesInv => TypeOK
  <2> SUFFICES ASSUME BootInv, TypesInv PROVE TypeOK
    OBVIOUS
  <2>1. /\ batch \in Batches /\ job \in DOMAIN batch /\ line \in 1 .. (Len(lines) + 1)
        /\ errors \in Nat /\ phase \in Later \union {"first", "raised"} /\ Shaped
    BY DEF BootInv, AssemblyInv, CodeInv, TraceInv, Numbered, CpuInv
  <2> QED BY <2>1 DEF TypesInv, TypeOK, Shaped, Later
<1> QED BY <1>1, <1>2, <1>3, PTL DEF BootSpec

=============================================================================
