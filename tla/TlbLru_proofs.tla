---------------------------- MODULE TlbLru_proofs ----------------------------
(***************************************************************************)
(* For every number of entries, set of pages and set of process            *)
(* identifiers: the ages of the valid entries are ranks, a full buffer     *)
(* evicts an entry of age 0, a request matches at most one entry, without  *)
(* aliases of the identifiers a hit is the right translation, and the      *)
(* buffer implements LruCache.                                             *)
(*                                                                         *)
(* The inductive invariant adds to the checked properties that an invalid  *)
(* entry has age 0 (else loading it would leave some ages behind), that a  *)
(* valid entry holds what some walk found, and that no two valid entries   *)
(* could ever answer the same request.                                     *)
(***************************************************************************)
EXTENDS TlbLru, FiniteSetTheorems, SequenceTheorems, TLAPS

FreeIsZero == \A i \in Entries : ~tlb_valid[i] => tlb_age[i] = 0

HoldsWalk ==
  \A i \in Valid :
    \E p \in PCIDs : /\ tlb_vpn[i] \in Pages
                     /\ tlb_pcid[i] = p % PCID_KEPT
                     /\ tlb_frame[i] = Translation(tlb_vpn[i], p)

NoTwins ==
  \A i, j \in Valid :
    /\ tlb_vpn[i] = tlb_vpn[j]
    /\ tlb_pcid[i] = tlb_pcid[j] \/ tlb_vpn[i] \in GlobalPages
    => i = j

IInv == TypeOK /\ AgesAreRanks /\ FreeIsZero /\ HoldsWalk /\ NoTwins

-----------------------------------------------------------------------------
(***************************************************************************)
(* A finite, totally ordered set has a least element.  The number of       *)
(* smaller elements tells the elements apart; were none of these numbers   *)
(* 0, there would be more elements than numbers left for them.             *)
(***************************************************************************)
LEMMA LeastExists ==
  ASSUME NEW S, IsFiniteSet(S), S # {}, NEW R,
         \A x \in S : <<x, x>> \notin R,
         \A x, y, z \in S : <<x, y>> \in R /\ <<y, z>> \in R => <<x, z>> \in R,
         \A x, y \in S : x = y \/ <<x, y>> \in R \/ <<y, x>> \in R
  PROVE  \E x \in S : \A y \in S : <<y, x>> \notin R
<1> DEFINE Below(x) == {y \in S : <<y, x>> \in R}
           n == Cardinality(S)
           rank == [x \in S |-> Cardinality(Below(x))]
<1>1. n \in Nat /\ n # 0
  BY FS_CardinalityType, FS_EmptySet
<1>2. ASSUME NEW x \in S
      PROVE  /\ IsFiniteSet(Below(x))
             /\ Cardinality(Below(x)) \in 0 .. n - 1
  <2>1. Below(x) \in SUBSET S /\ x \notin Below(x)
    OBVIOUS
  <2>2. IsFiniteSet(Below(x)) /\ Cardinality(Below(x)) <= n
        /\ (n = Cardinality(Below(x)) => S = Below(x))
    BY <2>1, FS_Subset
  <2>3. Cardinality(Below(x)) \in Nat
    BY <2>2, FS_CardinalityType
  <2>4. Cardinality(Below(x)) # n
    BY <2>1, <2>2
  <2> QED BY <2>2, <2>3, <2>4, <1>1
<1>3. ASSUME NEW x \in S, NEW y \in S, <<x, y>> \in R
      PROVE  Cardinality(Below(x)) # Cardinality(Below(y))
  <2>1. Below(x) \in SUBSET Below(y)
    BY <1>3
  <2>2. x \in Below(y) /\ x \notin Below(x)
    BY <1>3
  <2>3. Below(x) # Below(y)
    BY <2>2
  <2> HIDE DEF Below
  <2> QED BY <2>1, <2>3, <1>2, FS_Subset
<1>4. \E x \in S : Cardinality(Below(x)) = 0
  <2> SUFFICES ASSUME \A x \in S : Cardinality(Below(x)) # 0 PROVE FALSE
    OBVIOUS
  <2>1. rank \in [S -> 1 .. n - 1]
    <3>1. \A x \in S : Cardinality(Below(x)) \in 1 .. n - 1
      <4> HIDE DEF Below, n
      <4> QED BY <1>1, <1>2
    <3> HIDE DEF Below, n
    <3> QED BY <3>1
  <2>2. IsFiniteSet(1 .. n - 1) /\ Cardinality(1 .. n - 1) < n
    <3>1. 1 \in Int /\ n - 1 \in Int
      BY <1>1
    <3>2. IsFiniteSet(1 .. n - 1)
          /\ Cardinality(1 .. n - 1) = IF 1 > n - 1 THEN 0 ELSE (n - 1) - 1 + 1
      BY <3>1, FS_Interval
    <3> QED BY <3>2, <1>1
  <2>3. PICK x \in S, y \in S : x # y /\ rank[x] = rank[y]
    <3> DEFINE T == 1 .. n - 1
    <3>1. /\ IsFiniteSet(S) /\ IsFiniteSet(T)
          /\ Cardinality(T) < Cardinality(S)
          /\ rank \in [S -> T]
      BY <2>1, <2>2
    <3> HIDE DEF rank, n, T
    <3> QED BY ONLY <3>1, FS_PigeonHole
  <2>4. Cardinality(Below(x)) = Cardinality(Below(y))
    BY <2>3
  <2> HIDE DEF Below
  <2> QED BY <2>3, <2>4, <1>3
<1>5. PICK x \in S : Cardinality(Below(x)) = 0
  BY <1>4
<1>6. Below(x) = {}
  <2> HIDE DEF Below
  <2> QED BY <1>2, <1>5, FS_EmptySet
<1> QED BY <1>6

LEMMA EntriesAreFinite ==
  /\ IsFiniteSet(Entries)
  /\ Cardinality(Entries) = NUM_ENTRIES
  /\ \A S \in SUBSET Entries :
       IsFiniteSet(S) /\ Cardinality(S) \in Nat /\ Cardinality(S) <= NUM_ENTRIES
<1>1. 0 \in Int /\ NUM_ENTRIES - 1 \in Int
  BY EntriesAssumption
<1>2. IsFiniteSet(Entries) /\ Cardinality(Entries) = NUM_ENTRIES
  BY <1>1, FS_Interval, EntriesAssumption DEF Entries
<1> QED BY <1>2, FS_Subset, FS_CardinalityType

(***************************************************************************)
(* A nonempty set of entries has a first and a last one, so the CHOOSEs of *)
(* TlbLru choose from the set.                                             *)
(***************************************************************************)
LEMMA FirstExists ==
  ASSUME NEW S \in SUBSET Entries, S # {}
  PROVE  \E x \in S : \A y \in S : x <= y
<1> DEFINE R == {e \in Entries \X Entries : e[1] < e[2]}
<1>1. \A x \in S : x \in Entries /\ x \in Int
  BY EntriesAssumption DEF Entries
<1>2. \A x, y \in S : <<x, y>> \in R <=> x < y
  BY <1>1
<1> HIDE DEF R
<1>3. \A x, y \in S : x = y \/ <<x, y>> \in R \/ <<y, x>> \in R
  <2> SUFFICES ASSUME NEW x \in S, NEW y \in S
               PROVE  x = y \/ <<x, y>> \in R \/ <<y, x>> \in R
    OBVIOUS
  <2>1. x = y \/ x < y \/ y < x
    BY <1>1
  <2> QED BY <1>2, <2>1
<1>4. \A x \in S : <<x, x>> \notin R
  BY <1>1, <1>2
<1>5. \A x, y, z \in S : <<x, y>> \in R /\ <<y, z>> \in R => <<x, z>> \in R
  <2> SUFFICES ASSUME NEW x \in S, NEW y \in S, NEW z \in S, x < y, y < z
               PROVE  x < z
    BY <1>2
  <2> QED BY <1>1
<1>6. \E x \in S : \A y \in S : <<y, x>> \notin R
  BY EntriesAreFinite, <1>3, <1>4, <1>5, LeastExists
<1>7. PICK x \in S : \A y \in S : <<y, x>> \notin R
  BY <1>6
<1>8. \A y \in S : x <= y
  <2> SUFFICES ASSUME NEW y \in S PROVE x <= y
    OBVIOUS
  <2>1. ~ (y < x)
    BY <1>2, <1>7
  <2> QED BY <1>1, <2>1
<1> QED BY <1>8

LEMMA FirstIs ==
  ASSUME NEW S \in SUBSET Entries, S # {}
  PROVE  firstOf(S) \in S /\ \A j \in S : firstOf(S) <= j
BY FirstExists DEF firstOf

LEMMA HitIs ==
  ASSUME NEW v, NEW p, Hits(v, p) # {}
  PROVE  s_hit_idx(v, p) \in Hits(v, p)
<1> DEFINE H == Hits(v, p)
           mirror == [e \in Entries |-> NUM_ENTRIES - 1 - e]
           S == {e \in Entries : mirror[e] \in H}
<1>1. \A e \in Entries : mirror[e] \in Entries /\ mirror[mirror[e]] = e
  BY EntriesAssumption DEF Entries
<1>2. \A x \in H : x \in Entries
  BY DEF Hits
<1>3. S \in SUBSET Entries /\ S # {}
  <2>1. PICK x \in H : TRUE
    OBVIOUS
  <2> HIDE DEF mirror, H
  <2>2. mirror[x] \in S
    BY <1>1, <1>2, <2>1
  <2> QED BY <2>2
<1>4. PICK x \in S : \A y \in S : x <= y
  <2> HIDE DEF S
  <2> QED BY <1>3, FirstExists
<1>5. mirror[x] \in H
  BY <1>4
<1>6. \A y \in H : mirror[x] >= y
  <2> SUFFICES ASSUME NEW y \in H PROVE mirror[x] >= y
    OBVIOUS
  <2>1. x \in Entries /\ y \in Entries
    BY <1>2, <1>4
  <2>2. mirror[y] \in S
    <3> HIDE DEF mirror, H
    <3> QED BY <1>1, <2>1
  <2>3. x <= mirror[y]
    <3> HIDE DEF mirror, S
    <3> QED BY <1>4, <2>2
  <2> HIDE DEF S
  <2>4. mirror[x] = NUM_ENTRIES - 1 - x /\ mirror[y] = NUM_ENTRIES - 1 - y
    BY <2>1
  <2> HIDE DEF mirror
  <2> QED BY <2>1, <2>3, <2>4, EntriesAssumption DEF Entries
<1> HIDE DEF mirror, S
<1> QED BY <1>5, <1>6 DEF s_hit_idx

-----------------------------------------------------------------------------
(***************************************************************************)
(* Ages.  Entry t becomes the most recent one, whether it was valid (a hit *)
(* or an eviction) or free.                                                *)
(***************************************************************************)
LEMMA ValidIs ==
  ASSUME TypeOK
  PROVE  /\ IsFiniteSet(Valid) /\ Cardinality(Valid) \in Nat
         /\ Cardinality(Valid) <= NUM_ENTRIES
         /\ \A i : i \in Valid <=> i \in Entries /\ tlb_valid[i]
         /\ \A t \in Entries : ~tlb_valid[t]
              => Cardinality(Valid) < NUM_ENTRIES
<1>1. Valid \in SUBSET Entries
  BY DEF Valid
<1>2. IsFiniteSet(Valid) /\ Cardinality(Valid) \in Nat
      /\ Cardinality(Valid) <= NUM_ENTRIES
      /\ (Cardinality(Valid) = NUM_ENTRIES => Valid = Entries)
  BY <1>1, EntriesAreFinite, FS_Subset
<1>3. \A i : i \in Valid <=> i \in Entries /\ tlb_valid[i]
  BY DEF Valid
<1> QED BY <1>2, <1>3, EntriesAssumption

Promotes(t) ==
  /\ tlb_age' = Aged(t, tlb_age[t])
  /\ tlb_valid' = [tlb_valid EXCEPT ![t] = TRUE]

LEMMA PromoteKeepsAges ==
  ASSUME TypeOK, AgesAreRanks, FreeIsZero, NEW t \in Entries, Promotes(t)
  PROVE  /\ tlb_age' \in [Entries -> 0 .. MAX_AGE]
         /\ tlb_valid' \in [Entries -> BOOLEAN]
         /\ AgesAreRanks' /\ FreeIsZero'
<1> DEFINE A == tlb_age[t]
           c == Cardinality(Valid)
<1>1. \A i \in Entries : tlb_age[i] \in Nat /\ tlb_age[i] < NUM_ENTRIES
  BY EntriesAssumption DEF TypeOK, MAX_AGE
<1>2. tlb_age'[t] = NUM_ENTRIES - 1
  BY DEF Promotes, Aged, MAX_AGE
<1>3. \A i \in Entries : i # t =>
        tlb_age'[i] = IF tlb_valid[i] /\ tlb_age[i] > A THEN tlb_age[i] - 1
                                                       ELSE tlb_age[i]
  BY DEF Promotes, Aged
<1>4. \A i \in Entries : i # t => tlb_valid'[i] = tlb_valid[i]
  BY DEF Promotes, TypeOK
<1>5. tlb_valid'[t] = TRUE
  BY DEF Promotes, TypeOK
<1>6. \A i \in Entries : i # t /\ tlb_valid[i] => tlb_age'[i] < NUM_ENTRIES - 1
  <2> SUFFICES ASSUME NEW i \in Entries, i # t, tlb_valid[i]
               PROVE  tlb_age'[i] < NUM_ENTRIES - 1
    OBVIOUS
  <2>1. CASE tlb_valid[t]
    <3>1. tlb_age[i] # A
      BY <2>1, ValidIs DEF AgesAreRanks
    <3> QED BY <1>1, <1>3, <3>1, EntriesAssumption
  <2>2. CASE ~tlb_valid[t]
    <3>1. A = 0
      BY <2>2 DEF FreeIsZero
    <3>2. tlb_age[i] > 0
      BY <2>2, ValidIs, <1>1, EntriesAssumption DEF AgesAreRanks
    <3> QED BY <1>1, <1>3, <3>1, <3>2, EntriesAssumption
  <2> QED BY <2>1, <2>2
<1>7. tlb_age' \in [Entries -> 0 .. MAX_AGE] /\ tlb_valid' \in [Entries -> BOOLEAN]
  <2>1. \A i \in Entries : tlb_age'[i] \in 0 .. MAX_AGE
    <3> SUFFICES ASSUME NEW i \in Entries PROVE tlb_age'[i] \in 0 .. MAX_AGE
      OBVIOUS
    <3>1. CASE i = t
      BY <3>1, <1>2, EntriesAssumption DEF MAX_AGE
    <3>2. CASE i # t
      BY <3>2, <1>1, <1>3, EntriesAssumption DEF MAX_AGE
    <3> QED BY <3>1, <3>2
  <2>2. tlb_age' = [i \in Entries |-> tlb_age'[i]]
    BY DEF Promotes, Aged
  <2> QED BY <2>1, <2>2 DEF Promotes, TypeOK
<1>8. FreeIsZero'
  <2> SUFFICES ASSUME NEW i \in Entries, ~tlb_valid'[i] PROVE tlb_age'[i] = 0
    BY DEF FreeIsZero
  <2> QED BY <1>3, <1>4, <1>5 DEF FreeIsZero
<1>9. \A i, j \in Valid' : tlb_age'[i] = tlb_age'[j] => i = j
  <2> SUFFICES ASSUME NEW i \in Entries, NEW j \in Entries,
                      tlb_valid'[i], tlb_valid'[j], tlb_age'[i] = tlb_age'[j],
                      i # j
               PROVE  FALSE
    BY DEF Valid
  <2>1. i # t /\ j # t
    <3>1. CASE i = t
      <4>1. tlb_valid[j] /\ tlb_age'[j] < NUM_ENTRIES - 1
        BY <3>1, <1>4, <1>6
      <4> QED BY <3>1, <4>1, <1>2, EntriesAssumption
    <3>2. CASE j = t
      <4>1. tlb_valid[i] /\ tlb_age'[i] < NUM_ENTRIES - 1
        BY <3>2, <1>4, <1>6
      <4> QED BY <3>2, <4>1, <1>2, EntriesAssumption
    <3> QED BY <3>1, <3>2
  <2>2. tlb_valid[i] /\ tlb_valid[j] /\ tlb_age[i] # tlb_age[j]
    BY <2>1, <1>4, ValidIs DEF AgesAreRanks
  <2>3. CASE tlb_valid[t]
    <3>1. tlb_age[i] # A /\ tlb_age[j] # A
      BY <2>1, <2>2, <2>3, ValidIs DEF AgesAreRanks
    <3> QED BY <1>1, <1>3, <2>1, <2>2, <3>1
  <2>4. CASE ~tlb_valid[t]
    <3>1. A = 0
      BY <2>4 DEF FreeIsZero
    <3>2. tlb_age[i] > 0 /\ tlb_age[j] > 0
      BY <2>2, <2>4, ValidIs, <1>1, EntriesAssumption DEF AgesAreRanks
    <3> QED BY <1>1, <1>3, <2>1, <2>2, <3>1, <3>2
  <2> QED BY <2>3, <2>4
<1>10. \A i \in Valid' : tlb_age'[i] + Cardinality(Valid') >= NUM_ENTRIES
  <2>1. Valid' = Valid \cup {t}
    BY <1>4, <1>5 DEF Valid
  <2>2. Cardinality(Valid \cup {t}) = IF t \in Valid THEN c ELSE c + 1
    BY ValidIs, FS_AddElement
  <2> SUFFICES ASSUME NEW i \in Entries, tlb_valid'[i]
               PROVE  tlb_age'[i] + Cardinality(Valid') >= NUM_ENTRIES
    BY DEF Valid
  <2>3. c \in Nat /\ (tlb_valid[t] => A + c >= NUM_ENTRIES)
    BY ValidIs DEF AgesAreRanks
  <2>4. CASE i = t
    <3>1. Cardinality(Valid') >= 1
      <4>1. t \in Valid => c # 0
        BY ValidIs, FS_EmptySet
      <4> QED BY <2>1, <2>2, <2>3, <4>1
    <3>2. Cardinality(Valid') \in Nat
      BY <2>1, <2>2, <2>3
    <3> HIDE DEF c
    <3> QED BY <2>4, <3>1, <3>2, <1>2, EntriesAssumption
  <2>5. CASE i # t
    <3>1. tlb_valid[i] /\ tlb_age[i] + c >= NUM_ENTRIES
      BY <2>5, <1>4, ValidIs DEF AgesAreRanks
    <3>2. CASE t \in Valid
      <4>1. Cardinality(Valid') = c /\ tlb_valid[t]
        BY <3>2, <2>1, <2>2, ValidIs
      <4> HIDE DEF c
      <4> QED BY <4>1, <3>1, <2>3, <2>5, <1>1, <1>3, EntriesAssumption
    <3>3. CASE t \notin Valid
      <4>1. Cardinality(Valid') = c + 1
        BY <3>3, <2>1, <2>2
      <4> HIDE DEF c
      <4> QED BY <4>1, <3>1, <2>3, <2>5, <1>1, <1>3, EntriesAssumption
    <3> QED BY <3>2, <3>3
  <2> QED BY <2>4, <2>5
<1> QED BY <1>7, <1>8, <1>9, <1>10 DEF AgesAreRanks

(***************************************************************************)
(* The victim of a full buffer has age 0: its ages are NUM_ENTRIES         *)
(* different numbers below NUM_ENTRIES, so 0 is one of them.               *)
(***************************************************************************)
LEMMA OldestIsZero ==
  ASSUME TypeOK, AgesAreRanks, Free = {}
  PROVE  Oldest # {} /\ \A i \in Oldest : tlb_age[i] = 0
<1>1. \A i \in Entries : tlb_age[i] \in Nat /\ tlb_age[i] < NUM_ENTRIES
  BY EntriesAssumption DEF TypeOK, MAX_AGE
<1>2. \E i \in Entries : tlb_age[i] = 0
  <2> SUFFICES ASSUME \A i \in Entries : tlb_age[i] # 0 PROVE FALSE
    OBVIOUS
  <2> DEFINE T == 1 .. NUM_ENTRIES - 1
  <2>1. tlb_age \in [Entries -> T]
    <3>1. \A i \in Entries : tlb_age[i] \in T
      BY <1>1, EntriesAssumption
    <3>2. tlb_age = [i \in Entries |-> tlb_age[i]]
      BY DEF TypeOK
    <3> QED BY <3>1, <3>2
  <2>2. IsFiniteSet(T) /\ Cardinality(T) < NUM_ENTRIES
    <3>1. 1 \in Int /\ NUM_ENTRIES - 1 \in Int
      BY EntriesAssumption
    <3>2. IsFiniteSet(T)
          /\ Cardinality(T) = IF 1 > NUM_ENTRIES - 1 THEN 0
                                                     ELSE NUM_ENTRIES - 1 - 1 + 1
      BY <3>1, FS_Interval
    <3> QED BY <3>2, EntriesAssumption
  <2> HIDE DEF T
  <2>3. IsFiniteSet(Entries) /\ Cardinality(T) < Cardinality(Entries)
    BY <2>2, EntriesAreFinite
  <2>4. \E i, j \in Entries : i # j /\ tlb_age[i] = tlb_age[j]
    BY ONLY <2>1, <2>2, <2>3, FS_PigeonHole
  <2> QED BY <2>4 DEF AgesAreRanks, Valid, Free
<1>3. PICK z \in Entries : tlb_age[z] = 0
  BY <1>2
<1>4. z \in Oldest
  BY <1>1, <1>3 DEF Oldest
<1>5. ASSUME NEW i \in Oldest PROVE tlb_age[i] = 0
  <2>1. i \in Entries /\ tlb_age[i] <= tlb_age[z]
    BY <1>5 DEF Oldest
  <2> QED BY <2>1, <1>1, <1>3
<1> QED BY <1>4, <1>5

LEMMA TargetIs ==
  ASSUME TypeOK, AgesAreRanks
  PROVE  /\ Target \in Entries
         /\ Free # {} => Target \in Free
         /\ Free = {} => tlb_age[Target] = 0
<1>1. CASE Free # {}
  <2>1. Free \in SUBSET Entries
    BY DEF Free
  <2> QED BY <1>1, <2>1, FirstIs DEF Target
<1>2. CASE Free = {}
  <2>1. Oldest \in SUBSET Entries
    BY DEF Oldest
  <2> QED BY <1>2, <2>1, OldestIsZero, FirstIs DEF Target
<1> QED BY <1>1, <1>2

-----------------------------------------------------------------------------
(***************************************************************************)
(* What a translation says.                                                *)
(***************************************************************************)
LEMMA TranslationIs ==
  ASSUME NEW v \in Pages, NEW p \in PCIDs
  PROVE  /\ Translation(v, p) \in [page: Pages \cup {0}, owner: PCIDs \cup {-1},
                                   global: BOOLEAN]
         /\ Translation(v, p).global <=> v \in GlobalPages
         /\ v \in GlobalPages => \A q : Translation(v, q) = Translation(v, p)
BY DEF Translation

LEMMA PcidIs ==
  ASSUME NEW p \in PCIDs
  PROVE  p % PCID_KEPT \in 0 .. PCID_KEPT - 1
BY PcidAssumption DEF PCID_KEPT

-----------------------------------------------------------------------------
LEMMA InitEstablishes == Init => IInv
<1> SUFFICES ASSUME Init PROVE IInv
  OBVIOUS
<1>1. TypeOK
  BY EntriesAssumption DEF Init, TypeOK, NoFrame, MAX_AGE, PCID_KEPT
<1>2. Valid = {}
  BY DEF Init, Valid
<1>3. FreeIsZero
  BY DEF Init, FreeIsZero
<1> QED BY <1>1, <1>2, <1>3 DEF IInv, AgesAreRanks, HoldsWalk, NoTwins

LEMMA ResetKeeps ==
  ASSUME IInv, Reset
  PROVE  IInv'
<1>1. TypeOK'
  BY EntriesAssumption DEF IInv, TypeOK, Reset, MAX_AGE
<1>2. Valid' = {}
  BY DEF Reset, Valid
<1>3. FreeIsZero'
  BY DEF Reset, FreeIsZero
<1> QED BY <1>1, <1>2, <1>3 DEF IInv, AgesAreRanks, HoldsWalk, NoTwins

LEMMA LookupKeeps ==
  ASSUME IInv, NEW v \in Pages, NEW p \in PCIDs, Lookup(v, p)
  PROVE  IInv'
<1> DEFINE t == s_hit_idx(v, p)
<1>1. t \in Entries /\ tlb_valid[t]
  BY HitIs DEF Lookup, Hits, Matches
<1>2. tlb_valid' = [tlb_valid EXCEPT ![t] = TRUE]
  BY <1>1 DEF Lookup, IInv, TypeOK
<1>3. Promotes(t)
  BY <1>2 DEF Promotes, Lookup
<1> HIDE DEF t
<1>4. /\ tlb_age' \in [Entries -> 0 .. MAX_AGE]
      /\ AgesAreRanks' /\ FreeIsZero'
  BY <1>1, <1>3, PromoteKeepsAges DEF IInv
<1>5. UNCHANGED <<tlb_valid, tlb_vpn, tlb_pcid, tlb_frame>>
  BY DEF Lookup
<1>6. TypeOK'
  BY <1>4, <1>5 DEF IInv, TypeOK
<1>7. HoldsWalk' /\ NoTwins'
  BY <1>5 DEF IInv, HoldsWalk, NoTwins, Valid
<1> QED BY <1>4, <1>6, <1>7 DEF IInv

LEMMA WalkKeeps ==
  ASSUME IInv, NEW v \in Pages, NEW p \in PCIDs, Walk(v, p)
  PROVE  IInv'
<1> DEFINE t == Target
<1>1. t \in Entries
  BY TargetIs DEF IInv
<1>2. Promotes(t)
  BY DEF Promotes, Walk, Write
<1>3. /\ tlb_vpn' = [tlb_vpn EXCEPT ![t] = v]
      /\ tlb_pcid' = [tlb_pcid EXCEPT ![t] = p % PCID_KEPT]
      /\ tlb_frame' = [tlb_frame EXCEPT ![t] = Translation(v, p)]
      /\ tlb_valid' = [tlb_valid EXCEPT ![t] = TRUE]
  BY DEF Walk, Write
<1> HIDE DEF t
<1>4. /\ tlb_age' \in [Entries -> 0 .. MAX_AGE]
      /\ tlb_valid' \in [Entries -> BOOLEAN]
      /\ AgesAreRanks' /\ FreeIsZero'
  BY <1>1, <1>2, PromoteKeepsAges DEF IInv
<1>5. TypeOK'
  BY <1>3, <1>4, TranslationIs, PcidIs DEF IInv, TypeOK
<1>6. /\ tlb_vpn'[t] = v /\ tlb_pcid'[t] = p % PCID_KEPT
      /\ tlb_frame'[t] = Translation(v, p)
      /\ \A i \in Entries : i # t =>
           /\ tlb_vpn'[i] = tlb_vpn[i] /\ tlb_pcid'[i] = tlb_pcid[i]
           /\ tlb_frame'[i] = tlb_frame[i] /\ tlb_valid'[i] = tlb_valid[i]
  BY <1>1, <1>3 DEF IInv, TypeOK
<1>7. HoldsWalk'
  <2> SUFFICES ASSUME NEW i \in Entries, tlb_valid'[i]
               PROVE  \E q \in PCIDs :
                        /\ tlb_vpn'[i] \in Pages
                        /\ tlb_pcid'[i] = q % PCID_KEPT
                        /\ tlb_frame'[i] = Translation(tlb_vpn'[i], q)
    BY DEF HoldsWalk, Valid, Translation
  <2>1. CASE i = t
    BY <2>1, <1>6
  <2>2. CASE i # t
    <3>1. tlb_valid[i]
      BY <2>2, <1>6
    <3>2. PICK q \in PCIDs : /\ tlb_vpn[i] \in Pages
                             /\ tlb_pcid[i] = q % PCID_KEPT
                             /\ tlb_frame[i] = Translation(tlb_vpn[i], q)
      BY <3>1 DEF IInv, HoldsWalk, Valid
    <3> QED BY <2>2, <3>2, <1>6
  <2> QED BY <2>1, <2>2
<1>8. \A i \in Entries : tlb_valid[i] /\ tlb_vpn[i] = v
        => tlb_pcid[i] # p % PCID_KEPT /\ v \notin GlobalPages
  <2> SUFFICES ASSUME NEW i \in Entries, tlb_valid[i], tlb_vpn[i] = v
               PROVE  tlb_pcid[i] # p % PCID_KEPT /\ v \notin GlobalPages
    OBVIOUS
  <2>1. PICK q \in PCIDs : tlb_frame[i] = Translation(v, q)
    BY DEF IInv, HoldsWalk, Valid
  <2>2. tlb_frame[i].global <=> v \in GlobalPages
    BY <2>1, TranslationIs
  <2>3. ~Matches(i, v, p)
    BY DEF Walk, Hits
  <2> QED BY <2>2, <2>3 DEF Matches
<1>9. NoTwins'
  <2> SUFFICES ASSUME NEW i \in Entries, NEW j \in Entries,
                      tlb_valid'[i], tlb_valid'[j], i # j,
                      tlb_vpn'[i] = tlb_vpn'[j],
                      tlb_pcid'[i] = tlb_pcid'[j] \/ tlb_vpn'[i] \in GlobalPages
               PROVE  FALSE
    BY DEF NoTwins, Valid
  <2>1. CASE i # t /\ j # t
    BY <2>1, <1>6 DEF IInv, NoTwins, Valid
  <2>2. CASE i = t
    BY <2>2, <1>6, <1>8
  <2>3. CASE j = t
    BY <2>3, <1>6, <1>8
  <2> QED BY <2>1, <2>2, <2>3
<1> QED BY <1>4, <1>5, <1>7, <1>9 DEF IInv

LEMMA StepKeeps == IInv /\ [Next]_vars => IInv'
<1> SUFFICES ASSUME IInv, [Next]_vars PROVE IInv'
  OBVIOUS
<1>1. CASE Reset
  BY <1>1, ResetKeeps
<1>2. CASE \E v \in Pages, p \in PCIDs : Lookup(v, p)
  BY <1>2, LookupKeeps
<1>3. CASE \E v \in Pages, p \in PCIDs : Walk(v, p)
  BY <1>3, WalkKeeps
<1>4. CASE UNCHANGED vars
  BY <1>4 DEF vars, IInv, TypeOK, AgesAreRanks, FreeIsZero, HoldsWalk, NoTwins,
              Valid
<1> QED BY <1>1, <1>2, <1>3, <1>4 DEF Next

\* IInv is an invariant of the translation lookaside buffer.
THEOREM Inductive == Spec => []IInv
<1> QED BY InitEstablishes, StepKeeps, PTL DEF Spec

\* Every variable keeps its type, and an age its bits, for every number of
\* entries (TLB_LRU.vhd:66-71).
THEOREM TypesAreKept == Spec => []TypeOK
<1>1. IInv => TypeOK
  BY DEF IInv
<1> QED BY <1>1, Inductive, PTL

\* The ages of the valid entries are their ranks by last use
\* (TLB_LRU.vhd:226-235, 245-257).
THEOREM AgesAreAlwaysRanks == Spec => []AgesAreRanks
<1>1. IInv => AgesAreRanks
  BY DEF IInv
<1> QED BY <1>1, Inductive, PTL

\* A full buffer always evicts an entry of age 0 (TLB_LRU.vhd:191-217).
THEOREM VictimAlwaysHasAgeZero == Spec => []VictimHasAgeZero
<1>1. IInv => VictimHasAgeZero
  BY TargetIs DEF IInv, VictimHasAgeZero
<1> QED BY <1>1, Inductive, PTL

\* No request ever matches two entries (TLB_LRU.vhd:127-138).
THEOREM NeverDoubleHit == Spec => []NoDoubleHit
<1>1. ASSUME IInv PROVE NoDoubleHit
  <2> SUFFICES ASSUME NEW v \in Pages, NEW p \in PCIDs,
                      NEW i \in Hits(v, p), NEW j \in Hits(v, p)
               PROVE  i = j
    BY DEF NoDoubleHit
  <2>1. /\ i \in Valid /\ j \in Valid
        /\ tlb_vpn[i] = v /\ tlb_vpn[j] = v
        /\ tlb_pcid[i] = p % PCID_KEPT \/ tlb_frame[i].global
        /\ tlb_pcid[j] = p % PCID_KEPT \/ tlb_frame[j].global
    BY DEF Hits, Matches, Valid
  <2>2. ASSUME NEW k \in Valid, tlb_vpn[k] = v, tlb_frame[k].global
        PROVE  v \in GlobalPages
    <3>1. PICK q \in PCIDs : tlb_frame[k] = Translation(v, q)
      BY <1>1, <2>2 DEF IInv, HoldsWalk
    <3> QED BY <2>2, <3>1, TranslationIs
  <2>3. tlb_pcid[i] = tlb_pcid[j] \/ v \in GlobalPages
    BY <2>1, <2>2
  <2> QED BY <1>1, <2>1, <2>3 DEF IInv, NoTwins
<1> QED BY <1>1, Inductive, PTL

\* When no two identifiers in use agree in their low 8 bits, a hit is what a
\* walk for the process that asks would find (TLB_LRU.vhd:119, 128-130).
THEOREM HitIsAlwaysTranslation ==
  ASSUME \A p, q \in PCIDs : p % PCID_KEPT = q % PCID_KEPT => p = q
  PROVE  Spec => []HitIsTranslation
<1>1. ASSUME IInv PROVE HitIsTranslation
  <2> SUFFICES ASSUME NEW v \in Pages, NEW p \in PCIDs, NEW i \in Hits(v, p)
               PROVE  tlb_frame[i] = Translation(v, p)
    BY DEF HitIsTranslation
  <2>1. i \in Valid /\ tlb_vpn[i] = v
        /\ (tlb_pcid[i] = p % PCID_KEPT \/ tlb_frame[i].global)
    BY DEF Hits, Matches, Valid
  <2>2. PICK q \in PCIDs : /\ tlb_pcid[i] = q % PCID_KEPT
                           /\ tlb_frame[i] = Translation(v, q)
    BY <1>1, <2>1 DEF IInv, HoldsWalk
  <2>3. CASE v \in GlobalPages
    BY <2>2, <2>3 DEF Translation
  <2>4. CASE v \notin GlobalPages
    <3>1. ~tlb_frame[i].global
      BY <2>2, <2>4, TranslationIs
    <3>2. q = p
      BY <2>1, <2>2, <3>1
    <3> QED BY <2>2, <3>2
  <2> QED BY <2>3, <2>4
<1> QED BY <1>1, Inductive, PTL

-----------------------------------------------------------------------------
(***************************************************************************)
(* The buffer is an LRU cache.  The line ByAge makes of it is a function   *)
(* of three things that a step changes together, so what is known of it is *)
(* said of any valid entries V, ages and frames, and used before and after *)
(* a step.                                                                 *)
(***************************************************************************)
LineOf(V, age, frame) ==
  [k \in 1 .. Cardinality(V) |->
     frame[CHOOSE i \in V : age[i] = NUM_ENTRIES - Cardinality(V) + k - 1]]

Ranked(V, age) ==
  /\ V \in SUBSET Entries
  /\ \A i \in V : /\ age[i] \in Nat /\ age[i] < NUM_ENTRIES
                  /\ age[i] + Cardinality(V) >= NUM_ENTRIES
  /\ \A i, j \in V : age[i] = age[j] => i = j

\* c different ages among the c uppermost ones: each of them is somebody's.
LEMMA EveryRankIsUsed ==
  ASSUME NEW V, NEW age, Ranked(V, age), NEW c, c = Cardinality(V),
         NEW a \in Nat, a < NUM_ENTRIES, a + c >= NUM_ENTRIES
  PROVE  \E i \in V : age[i] = a
<1> DEFINE T == (NUM_ENTRIES - c .. NUM_ENTRIES - 1) \ {a}
           ageOf == [i \in V |-> age[i]]
<1> SUFFICES ASSUME \A i \in V : age[i] # a PROVE FALSE
  OBVIOUS
<1>1. IsFiniteSet(V) /\ c \in Nat /\ c <= NUM_ENTRIES
  BY EntriesAreFinite DEF Ranked
<1>2. ageOf \in [V -> T]
  <2>1. \A i \in V : age[i] \in T
    BY <1>1, EntriesAssumption DEF Ranked
  <2> HIDE DEF T
  <2> QED
    BY <2>1
<1>3. IsFiniteSet(T) /\ Cardinality(T) < c
  <2> DEFINE U == NUM_ENTRIES - c .. NUM_ENTRIES - 1
  <2>1. NUM_ENTRIES - c \in Int /\ NUM_ENTRIES - 1 \in Int
    BY <1>1, EntriesAssumption
  <2>2. IsFiniteSet(U)
        /\ Cardinality(U) = IF NUM_ENTRIES - c > NUM_ENTRIES - 1 THEN 0
                            ELSE NUM_ENTRIES - 1 - (NUM_ENTRIES - c) + 1
    BY <2>1, FS_Interval
  <2>3. a \in U
    BY <1>1, EntriesAssumption
  <2>4. Cardinality(U) = c
    <3> HIDE DEF U
    <3> QED
      BY <1>1, <2>2, <2>3, EntriesAssumption
  <2>5. IsFiniteSet(U \ {a}) /\ Cardinality(U \ {a}) = Cardinality(U) - 1
    <3> HIDE DEF U
    <3> QED
      BY <2>2, <2>3, FS_RemoveElement
  <2> QED
    BY <1>1, <2>4, <2>5
<1>4. \E i, j \in V : i # j /\ ageOf[i] = ageOf[j]
  <2> HIDE DEF T, ageOf
  <2> QED
    BY <1>1, <1>2, <1>3, FS_PigeonHole
<1> QED
  BY <1>4 DEF Ranked

\* Every place of the line is somebody's, and every entry has the place its age
\* gives.
LEMMA PlacesAre ==
  ASSUME NEW V, NEW age, Ranked(V, age), NEW c, c = Cardinality(V)
  PROVE  /\ c \in Nat /\ c <= NUM_ENTRIES
         /\ \A k \in 1 .. c : \E i \in V : age[i] = NUM_ENTRIES - c + k - 1
         /\ \A i \in V : age[i] - NUM_ENTRIES + c + 1 \in 1 .. c
<1>1. c \in Nat /\ c <= NUM_ENTRIES
  BY EntriesAreFinite DEF Ranked
<1>2. \A k \in 1 .. c : \E i \in V : age[i] = NUM_ENTRIES - c + k - 1
  <2> SUFFICES ASSUME NEW k \in 1 .. c
               PROVE  \E i \in V : age[i] = NUM_ENTRIES - c + k - 1
    OBVIOUS
  <2> DEFINE a == NUM_ENTRIES - c + k - 1
  <2>1. a \in Nat /\ a < NUM_ENTRIES /\ a + c >= NUM_ENTRIES
    BY <1>1, EntriesAssumption
  <2> HIDE DEF a
  <2>2. \E i \in V : age[i] = a
    BY <2>1, EveryRankIsUsed
  <2> QED
    BY <2>2 DEF a
<1>3. \A i \in V : age[i] - NUM_ENTRIES + c + 1 \in 1 .. c
  BY <1>1, EntriesAssumption DEF Ranked
<1> QED
  BY <1>1, <1>2, <1>3

\* Place k of the line holds the entry of the k-th age in use.
LEMMA LineIs ==
  ASSUME NEW V, NEW age, NEW frame, Ranked(V, age), NEW c, c = Cardinality(V)
  PROVE  /\ LineOf(V, age, frame) = [k \in 1 .. c |-> LineOf(V, age, frame)[k]]
         /\ \A k \in 1 .. c : \A i \in V : age[i] = NUM_ENTRIES - c + k - 1
              => LineOf(V, age, frame)[k] = frame[i]
<1>1. LineOf(V, age, frame) = [k \in 1 .. c |-> LineOf(V, age, frame)[k]]
  BY DEF LineOf
<1>2. ASSUME NEW k \in 1 .. c, NEW i \in V, age[i] = NUM_ENTRIES - c + k - 1
      PROVE  LineOf(V, age, frame)[k] = frame[i]
  <2> DEFINE a == NUM_ENTRIES - c + k - 1
             e == CHOOSE x \in V : age[x] = a
  <2>1. e \in V /\ age[e] = a
    BY <1>2
  <2>2. e = i
    <3> HIDE DEF e, a
    <3> QED
      BY <1>2, <2>1 DEF Ranked, a
  <2>3. LineOf(V, age, frame)[k] = frame[e]
    BY DEF LineOf
  <2> QED
    BY <2>2, <2>3
<1> QED
  BY <1>1, <1>2

\* What the invariant says of the line now; Line' says it of the next one.
LEMMA ByAgeIs ==
  ASSUME IInv
  PROVE  ByAge = LineOf(Valid, tlb_age, tlb_frame) /\ Ranked(Valid, tlb_age)
<1>1. ByAge = LineOf(Valid, tlb_age, tlb_frame)
  BY DEF ByAge, LineOf, WithAge
<1>2. Ranked(Valid, tlb_age)
  BY EntriesAssumption DEF IInv, TypeOK, AgesAreRanks, Ranked, Valid, MAX_AGE
<1> QED
  BY <1>1, <1>2

LEMMA NextByAgeIs ==
  ASSUME IInv'
  PROVE  ByAge' = LineOf(Valid', tlb_age', tlb_frame') /\ Ranked(Valid', tlb_age')
<1>1. ByAge' = LineOf(Valid', tlb_age', tlb_frame')
  BY DEF ByAge, LineOf, WithAge
<1>2. Ranked(Valid', tlb_age')
  BY EntriesAssumption DEF IInv, TypeOK, AgesAreRanks, Ranked, Valid, MAX_AGE
<1> QED
  BY <1>1, <1>2

\* The line is a sequence of what the valid entries hold, as long as they are
\* many.
LEMMA LineIsSeq ==
  ASSUME NEW S, NEW V, NEW age, NEW frame, Ranked(V, age),
         NEW c, c = Cardinality(V), \A i \in V : frame[i] \in S
  PROVE  LineOf(V, age, frame) \in Seq(S) /\ Len(LineOf(V, age, frame)) = c
<1> DEFINE line == LineOf(V, age, frame)
<1>1. c \in Nat
  BY PlacesAre
<1>2. ASSUME NEW k \in 1 .. c PROVE line[k] \in S
  <2>1. PICK i \in V : age[i] = NUM_ENTRIES - c + k - 1
    BY PlacesAre
  <2>2. line[k] = frame[i]
    BY <2>1, LineIs
  <2> QED
    BY <2>2
<1>3. line = [k \in 1 .. c |-> line[k]]
  BY LineIs
<1> HIDE DEF line
<1>4. line \in [1 .. c -> S]
  BY <1>2, <1>3
<1>5. line \in Seq(S)
  BY <1>1, <1>4
<1>6. Len(line) \in Nat /\ DOMAIN line = 1 .. Len(line)
  BY <1>5, LenProperties
<1>7. DOMAIN line = 1 .. c
  BY <1>4
<1>8. Len(line) = c
  BY <1>1, <1>6, <1>7
<1> QED
  BY <1>5, <1>8 DEF line

\* A sequence that is another one and a last element is the other one with it
\* appended.
LEMMA GrowsBy ==
  ASSUME NEW S, NEW before \in Seq(S), NEW after \in Seq(S), NEW x \in S,
         Len(after) = Len(before) + 1,
         \A k \in 1 .. Len(before) : after[k] = before[k],
         after[Len(before) + 1] = x
  PROVE  after = Append(before, x)
<1> DEFINE longer == Append(before, x)
<1>1. /\ longer \in Seq(S) /\ Len(longer) = Len(before) + 1
      /\ \A k \in 1 .. Len(before) : longer[k] = before[k]
      /\ longer[Len(before) + 1] = x
  BY AppendProperties
<1>2. Len(before) \in Nat
  BY LenProperties
<1> HIDE DEF longer
<1>3. \A k \in 1 .. Len(after) : after[k] = longer[k]
  <2> SUFFICES ASSUME NEW k \in 1 .. Len(before) + 1 PROVE after[k] = longer[k]
    OBVIOUS
  <2>1. k \in 1 .. Len(before) \/ k = Len(before) + 1
    BY <1>2
  <2> QED
    BY <1>1, <2>1
<1>4. after = longer
  BY <1>1, <1>3, SeqEqual
<1> QED
  BY <1>4 DEF longer

Kept == {Translation(v, p) : v \in Pages, p \in PCIDs}

LEMMA ValidAreKept ==
  ASSUME IInv
  PROVE  \A i \in Valid : tlb_frame[i] \in Kept
BY DEF IInv, HoldsWalk, Kept

LEMMA NextValidAreKept ==
  ASSUME IInv'
  PROVE  \A i \in Valid' : tlb_frame'[i] \in Kept
<1> SUFFICES ASSUME NEW i \in Valid' PROVE tlb_frame'[i] \in Kept
  OBVIOUS
<1>1. HoldsWalk'
  BY DEF IInv
<1>2. \E p \in PCIDs : /\ tlb_vpn'[i] \in Pages
                       /\ tlb_frame'[i] = Translation(tlb_vpn'[i], p)
  BY <1>1 DEF HoldsWalk, Translation
<1> QED
  BY <1>2 DEF Kept

(***************************************************************************)
(* A hit takes its entry out of the line and puts it at the end: what was  *)
(* used later moves one place forward.                                     *)
(***************************************************************************)
LEMMA LookupUses ==
  ASSUME IInv, IInv', NEW v \in Pages, NEW p \in PCIDs, Lookup(v, p)
  PROVE  \E x \in Kept : Lru!Use(x)
<1> DEFINE t == s_hit_idx(v, p)
           c == Cardinality(Valid)
           k0 == tlb_age[t] - NUM_ENTRIES + c + 1
           x == tlb_frame[t]
<1>1. t \in Valid /\ t \in Entries
  BY HitIs DEF Lookup, Hits, Matches, Valid
<1>2. /\ tlb_age'[t] = NUM_ENTRIES - 1
      /\ \A i \in Valid : i # t =>
           tlb_age'[i] = IF tlb_age[i] > tlb_age[t] THEN tlb_age[i] - 1
                                                    ELSE tlb_age[i]
  <2>1. tlb_age' = Aged(t, tlb_age[t])
    BY DEF Lookup
  <2> HIDE DEF t
  <2> QED
    BY <1>1, <2>1 DEF Aged, MAX_AGE, Valid
<1>3. Valid' = Valid /\ tlb_frame' = tlb_frame
  BY DEF Lookup, Valid
<1>4. /\ ByAge = LineOf(Valid, tlb_age, tlb_frame) /\ Ranked(Valid, tlb_age)
      /\ ByAge' = LineOf(Valid, tlb_age', tlb_frame) /\ Ranked(Valid, tlb_age')
  BY <1>3, ByAgeIs, NextByAgeIs
<1>5. x \in Kept
  BY <1>1, ValidAreKept
<1>6. /\ c \in Nat /\ c <= NUM_ENTRIES
      /\ \A k \in 1 .. c : \E i \in Valid : tlb_age[i] = NUM_ENTRIES - c + k - 1
      /\ \A k \in 1 .. c : \A i \in Valid : tlb_age[i] = NUM_ENTRIES - c + k - 1
           => ByAge[k] = tlb_frame[i]
      /\ \A i \in Valid : tlb_age[i] - NUM_ENTRIES + c + 1 \in 1 .. c
  <2>1. \A k \in 1 .. c : \A i \in Valid : tlb_age[i] = NUM_ENTRIES - c + k - 1
          => ByAge[k] = tlb_frame[i]
    BY <1>4, LineIs
  <2> QED
    BY <1>4, <2>1, PlacesAre
<1>7. \A k \in 1 .. c : \A i \in Valid : tlb_age'[i] = NUM_ENTRIES - c + k - 1
        => ByAge'[k] = tlb_frame[i]
  BY <1>4, LineIs
<1>8. /\ ByAge \in Seq(Kept) /\ Len(ByAge) = c
      /\ ByAge' \in Seq(Kept) /\ Len(ByAge') = c
  BY <1>4, ValidAreKept, LineIsSeq
<1>9. \A i \in Valid : tlb_age[i] \in Nat
  BY <1>4 DEF Ranked
<1> HIDE DEF t, c
<1>10. k0 \in 1 .. c
  BY <1>1, <1>6
<1>11. ByAge[k0] = x
  <2>1. tlb_age[t] = NUM_ENTRIES - c + k0 - 1
    BY <1>1, <1>6, <1>9, EntriesAssumption
  <2> HIDE DEF k0
  <2> QED
    BY <1>1, <1>6, <1>10, <2>1
<1>12. ByAge'[c] = x
  BY <1>1, <1>2, <1>6, <1>7, <1>10, EntriesAssumption
<1>13. ASSUME NEW k \in 1 .. c - 1, k < k0 PROVE ByAge'[k] = ByAge[k]
  <2>1. PICK i \in Valid : tlb_age[i] = NUM_ENTRIES - c + k - 1
    BY <1>6
  <2>2. tlb_age[i] < tlb_age[t]
    BY <1>1, <1>6, <1>9, <1>13, <2>1, EntriesAssumption
  <2>3. tlb_age'[i] = tlb_age[i]
    BY <1>1, <1>2, <1>9, <2>2
  <2>4. k \in 1 .. c
    BY <1>6
  <2> QED
    BY <1>6, <1>7, <2>1, <2>3, <2>4
<1>14. ASSUME NEW k \in 1 .. c - 1, ~(k < k0) PROVE ByAge'[k] = ByAge[k + 1]
  <2>1. k \in 1 .. c /\ k + 1 \in 1 .. c
    BY <1>6
  <2>2. PICK i \in Valid : tlb_age[i] = NUM_ENTRIES - c + (k + 1) - 1
    BY <1>6, <2>1
  <2>3. tlb_age[i] > tlb_age[t]
    BY <1>1, <1>6, <1>9, <1>14, <2>2, EntriesAssumption
  <2>4. tlb_age'[i] = tlb_age[i] - 1
    BY <1>1, <1>2, <1>9, <2>3
  <2>5. tlb_age'[i] = NUM_ENTRIES - c + k - 1
    BY <1>6, <1>9, <2>2, <2>4, EntriesAssumption
  <2>6. ByAge'[k] = tlb_frame[i]
    BY <1>7, <2>1, <2>5
  <2> QED
    BY <1>6, <2>1, <2>2, <2>6
<1>15. Lru!Without(k0) \in Seq(Kept) /\ Len(Lru!Without(k0)) = c - 1
       /\ \A k \in 1 .. c - 1 :
            Lru!Without(k0)[k] = ByAge[IF k < k0 THEN k ELSE k + 1]
  <2>1. Lru!Without(k0) = [k \in 1 .. c - 1 |-> ByAge[IF k < k0 THEN k ELSE k + 1]]
    BY <1>8 DEF Lru!Without
  <2>2. ASSUME NEW k \in 1 .. c - 1
        PROVE  ByAge[IF k < k0 THEN k ELSE k + 1] \in Kept
    <3>1. (IF k < k0 THEN k ELSE k + 1) \in 1 .. Len(ByAge)
      BY <1>6, <1>8
    <3> HIDE DEF k0
    <3> QED
      BY <1>8, <3>1, ElementOfSeq
  <2>3. c - 1 \in Nat
    BY <1>6, <1>10
  <2> HIDE DEF k0
  <2> QED
    BY <2>1, <2>2, <2>3
<1>16. ByAge' = Append(Lru!Without(k0), x)
  <2>1. \A k \in 1 .. c - 1 : ByAge'[k] = Lru!Without(k0)[k]
    BY <1>13, <1>14, <1>15
  <2>2. c = c - 1 + 1
    BY <1>6
  <2> HIDE DEF k0, x
  <2> QED
    BY <1>5, <1>8, <1>12, <1>15, <2>1, <2>2, GrowsBy
<1> HIDE DEF k0
<1> QED
  BY <1>5, <1>8, <1>10, <1>11, <1>16 DEF Lru!Use

(***************************************************************************)
(* A walk puts what it found at the end of the line.  In a full buffer the *)
(* victim has age 0, so it was the first, and the others move one place    *)
(* forward; otherwise the line grows by the new entry.  No entry held the  *)
(* translation already, or the request would have hit it.                  *)
(***************************************************************************)
LEMMA WalkFindsNew ==
  ASSUME IInv, NEW v \in Pages, NEW p \in PCIDs, Hits(v, p) = {}
  PROVE  \A i \in Valid : tlb_frame[i] # Translation(v, p)
<1> SUFFICES ASSUME NEW i \in Valid, tlb_frame[i] = Translation(v, p)
             PROVE  FALSE
  OBVIOUS
<1>1. PICK q \in PCIDs : /\ tlb_vpn[i] \in Pages
                         /\ tlb_pcid[i] = q % PCID_KEPT
                         /\ tlb_frame[i] = Translation(tlb_vpn[i], q)
  BY DEF IInv, HoldsWalk
<1>2. tlb_vpn[i] = v
  BY <1>1 DEF Translation
<1>3. v \in GlobalPages => tlb_frame[i].global
  BY DEF Translation
<1>4. v \notin GlobalPages => q = p
  BY <1>1, <1>2 DEF Translation
<1>5. Matches(i, v, p)
  BY <1>1, <1>2, <1>3, <1>4 DEF Matches, Valid
<1> QED
  BY <1>5 DEF Hits, Valid

LEMMA WalkLoads ==
  ASSUME IInv, IInv', NEW v \in Pages, NEW p \in PCIDs, Walk(v, p)
  PROVE  \E x \in Kept : Lru!Load(x)
<1> DEFINE t == Target
           c == Cardinality(Valid)
           d == Cardinality(Valid')
           x == Translation(v, p)
<1>1. /\ t \in Entries
      /\ t \in Valid => c = NUM_ENTRIES
      /\ tlb_age[t] = 0
  <2>1. /\ t \in Entries /\ (Free # {} => t \in Free)
        /\ (Free = {} => tlb_age[t] = 0)
    BY TargetIs DEF IInv
  <2> HIDE DEF t
  <2>2. CASE Free = {}
    <3>1. Valid = Entries
      BY <2>2 DEF Free, Valid
    <3> QED
      BY <2>1, <2>2, <3>1, EntriesAreFinite
  <2>3. CASE Free # {}
    BY <2>1, <2>3 DEF Free, Valid, IInv, FreeIsZero
  <2> QED
    BY <2>2, <2>3
<1>2. /\ tlb_age'[t] = NUM_ENTRIES - 1
      /\ \A i \in Valid : i # t =>
           tlb_age'[i] = IF tlb_age[i] > 0 THEN tlb_age[i] - 1 ELSE tlb_age[i]
  <2>1. tlb_age' = Aged(t, tlb_age[t])
    BY DEF Walk, Write
  <2> HIDE DEF t
  <2> QED
    BY <1>1, <2>1 DEF Aged, MAX_AGE, Valid
<1>3. /\ tlb_frame'[t] = x /\ \A i \in Valid : i # t => tlb_frame'[i] = tlb_frame[i]
      /\ Valid' = Valid \cup {t}
  <2>1. /\ tlb_frame' = [tlb_frame EXCEPT ![t] = x]
        /\ tlb_valid' = [tlb_valid EXCEPT ![t] = TRUE]
    BY DEF Walk, Write
  <2> HIDE DEF t, x
  <2> QED
    BY <1>1, <2>1 DEF Valid, IInv, TypeOK
<1>4. /\ ByAge = LineOf(Valid, tlb_age, tlb_frame) /\ Ranked(Valid, tlb_age)
      /\ ByAge' = LineOf(Valid', tlb_age', tlb_frame') /\ Ranked(Valid', tlb_age')
  BY ByAgeIs, NextByAgeIs
<1>5. x \in Kept
  BY DEF Kept
<1>6. /\ c \in Nat /\ c <= NUM_ENTRIES
      /\ \A k \in 1 .. c : \E i \in Valid : tlb_age[i] = NUM_ENTRIES - c + k - 1
  BY <1>4, PlacesAre
<1>7. \A k \in 1 .. c : \A i \in Valid : tlb_age[i] = NUM_ENTRIES - c + k - 1
        => ByAge[k] = tlb_frame[i]
  BY <1>4, LineIs
<1>8. \A k \in 1 .. d : \A i \in Valid' : tlb_age'[i] = NUM_ENTRIES - d + k - 1
        => ByAge'[k] = tlb_frame'[i]
  BY <1>4, LineIs
<1>9. ByAge \in Seq(Kept) /\ Len(ByAge) = c
  BY <1>4, ValidAreKept, LineIsSeq
<1>10. ByAge' \in Seq(Kept) /\ Len(ByAge') = d
  BY <1>4, NextValidAreKept, LineIsSeq
<1>11. /\ d = IF t \in Valid THEN c ELSE c + 1
       /\ d <= NUM_ENTRIES /\ d \in Nat \ {0}
  <2>1. d = IF t \in Valid THEN c ELSE c + 1
    BY <1>3, <1>4, EntriesAreFinite, FS_AddElement DEF Ranked
  <2>2. d <= NUM_ENTRIES
    BY <1>4, PlacesAre
  <2> HIDE DEF t, c, d
  <2> QED
    BY <1>1, <1>6, <2>1, <2>2, EntriesAssumption
<1>12. \A i \in Valid : tlb_age[i] \in Nat
                        /\ (i # t /\ tlb_age[i] = 0 => FALSE)
  <2>1. \A i \in Valid : tlb_age[i] \in Nat /\ tlb_age[i] + c >= NUM_ENTRIES
    BY <1>4 DEF Ranked
  <2>2. \A i \in Valid : t \in Valid /\ tlb_age[i] = tlb_age[t] => i = t
    BY <1>4 DEF Ranked
  <2>3. c = NUM_ENTRIES => t \in Valid
    <3>1. c = NUM_ENTRIES => Valid = Entries
      BY <1>4, EntriesAreFinite, FS_Subset DEF Ranked
    <3> QED
      BY <1>1, <3>1
  <2> HIDE DEF t, c
  <2> QED
    BY <1>1, <1>6, <2>1, <2>2, <2>3, EntriesAssumption
<1>13. x \notin Lru!Cached
  <2>1. \A i \in Valid : tlb_frame[i] # x
    BY WalkFindsNew DEF Walk
  <2>2. ASSUME NEW k \in 1 .. c PROVE ByAge[k] # x
    <3>1. PICK i \in Valid : tlb_age[i] = NUM_ENTRIES - c + k - 1
      BY <1>6
    <3> HIDE DEF x
    <3> QED
      BY <1>7, <2>1, <3>1
  <2> HIDE DEF x
  <2> QED
    BY <1>9, <2>2 DEF Lru!Cached
<1> HIDE DEF t, c, d, x
<1>14. ByAge'[d] = x
  <2>1. tlb_age'[t] = NUM_ENTRIES - d + d - 1 /\ t \in Valid' /\ d \in 1 .. d
    BY <1>2, <1>3, <1>11, EntriesAssumption
  <2> QED
    BY <1>3, <1>8, <2>1
\* Whoever is not the target moves from the age behind place k of one line to
\* the age of place k of the other.
<1>15. ASSUME NEW k \in 1 .. d - 1, NEW i \in Valid, tlb_age[i] = NUM_ENTRIES - d + k
       PROVE  ByAge'[k] = tlb_frame[i]
  <2>1. tlb_age[i] > 0
    BY <1>11, <1>15, EntriesAssumption
  <2>2. i # t
    BY <1>1, <2>1
  <2>3. tlb_age'[i] = NUM_ENTRIES - d + k - 1
    BY <1>2, <1>11, <1>12, <1>15, <2>1, <2>2, EntriesAssumption
  <2>4. k \in 1 .. d /\ i \in Valid'
    BY <1>3, <1>11
  <2> QED
    BY <1>3, <1>8, <2>2, <2>3, <2>4
<1>16. CASE t \notin Valid
  <2>1. d = c + 1 /\ c < NUM_ENTRIES
    BY <1>6, <1>11, <1>16, EntriesAssumption
  <2>2. ASSUME NEW k \in 1 .. c PROVE ByAge'[k] = ByAge[k]
    <3>1. PICK i \in Valid : tlb_age[i] = NUM_ENTRIES - c + k - 1
      BY <1>6
    <3>2. k \in 1 .. d - 1 /\ tlb_age[i] = NUM_ENTRIES - d + k
      BY <1>6, <2>1, <3>1, EntriesAssumption
    <3>3. ByAge'[k] = tlb_frame[i]
      BY <1>15, <3>2
    <3> QED
      BY <1>7, <3>1, <3>3
  <2>3. ByAge' = Append(ByAge, x)
    BY <1>5, <1>9, <1>10, <1>14, <2>1, <2>2, GrowsBy
  <2> QED
    BY <1>5, <1>9, <1>13, <2>1, <2>3 DEF Lru!Load
<1>17. CASE t \in Valid
  <2>1. d = c /\ c = NUM_ENTRIES
    BY <1>1, <1>11, <1>17
  <2>2. ByAge # <<>>
    BY <1>9, <1>11, <2>1, EmptySeq
  <2>3. /\ Tail(ByAge) \in Seq(Kept) /\ Len(Tail(ByAge)) = c - 1
        /\ \A k \in 1 .. c - 1 : Tail(ByAge)[k] = ByAge[k + 1]
    BY <1>9, <2>2, HeadTailProperties
  <2>4. ASSUME NEW k \in 1 .. c - 1 PROVE ByAge'[k] = Tail(ByAge)[k]
    <3>1. k + 1 \in 1 .. c /\ k \in 1 .. d - 1
      BY <1>6, <2>1
    <3>2. PICK i \in Valid : tlb_age[i] = NUM_ENTRIES - c + (k + 1) - 1
      BY <1>6, <3>1
    <3>3. tlb_age[i] = NUM_ENTRIES - d + k
      BY <1>6, <2>1, <3>2, EntriesAssumption
    <3>4. ByAge'[k] = tlb_frame[i]
      BY <1>15, <3>1, <3>3
    <3>5. ByAge[k + 1] = tlb_frame[i]
      BY <1>7, <3>1, <3>2
    <3> QED
      BY <2>3, <3>4, <3>5
  <2>5. c = c - 1 + 1
    BY <1>6
  <2>6. ByAge' = Append(Tail(ByAge), x)
    BY <1>5, <1>10, <1>14, <2>1, <2>3, <2>4, <2>5, GrowsBy
  <2>7. ~(Len(ByAge) < NUM_ENTRIES)
    BY <1>9, <2>1, EntriesAssumption
  <2> QED
    BY <1>5, <1>13, <2>6, <2>7 DEF Lru!Load
<1> QED
  BY <1>16, <1>17

\* No valid entry, no line.
LEMMA NoneIsEmpty ==
  ASSUME NEW age, NEW frame
  PROVE  LineOf({}, age, frame) = <<>>
<1>1. Ranked({}, age) /\ Cardinality({}) = 0
  BY FS_EmptySet DEF Ranked
<1>2. LineOf({}, age, frame) \in Seq(Entries) /\ Len(LineOf({}, age, frame)) = 0
  BY <1>1, LineIsSeq
<1> QED
  BY <1>2, EmptySeq

LEMMA StepImplements ==
  ASSUME IInv, IInv', [Next]_vars
  PROVE  [Lru!Next]_ByAge
<1>1. CASE Reset
  <2>1. Valid' = {}
    BY <1>1 DEF Reset, Valid
  <2>2. ByAge' = <<>>
    BY <2>1, NextByAgeIs, NoneIsEmpty
  <2> QED
    BY <2>2 DEF Lru!Next, Lru!Flush
<1>2. CASE \E v \in Pages, p \in PCIDs : Lookup(v, p)
  BY <1>2, LookupUses DEF Lru!Next, Kept
<1>3. CASE \E v \in Pages, p \in PCIDs : Walk(v, p)
  BY <1>3, WalkLoads DEF Lru!Next, Kept
<1>4. CASE UNCHANGED vars
  <2>1. Valid' = Valid /\ tlb_age' = tlb_age /\ tlb_frame' = tlb_frame
    BY <1>4 DEF vars, Valid
  <2> QED
    BY <2>1, ByAgeIs, NextByAgeIs
<1> QED
  BY <1>1, <1>2, <1>3, <1>4 DEF Next

\* For every number of entries the buffer is an exact least-recently-used
\* cache: its ages are enough to know the order of all last uses
\* (TLB_LRU.vhd:17-29, 191-235, 245-257).
THEOREM ImplementsLeastRecentlyUsed == Spec => ImplementsLru
<1>1. Init => Lru!Init
  <2> SUFFICES ASSUME Init PROVE ByAge = <<>>
    BY DEF Lru!Init
  <2>1. Valid = {}
    BY DEF Init, Valid
  <2> QED
    BY <2>1, InitEstablishes, ByAgeIs, NoneIsEmpty
<1>2. IInv /\ IInv' /\ [Next]_vars => [Lru!Next]_ByAge
  BY StepImplements
<1> QED
  BY <1>1, <1>2, Inductive, PTL DEF Spec, ImplementsLru, Lru!Spec
=============================================================================
