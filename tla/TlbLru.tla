------------------------------- MODULE TlbLru -------------------------------
(***************************************************************************)
(* The translation lookaside buffer (Core/hdl_export/TLB_LRU.vhd), clock   *)
(* by clock, with the page walks that fill it.                             *)
(*                                                                         *)
(* A translation is what a walk of the page tables of a process finds for  *)
(* a page: the frame, and the Global flag (bit 3), which makes an entry    *)
(* match in every process.  Global pages are the same in all of them.      *)
(***************************************************************************)
EXTENDS Integers, FiniteSets

CONSTANTS
  NUM_ENTRIES,   \* entries of the buffer
  Pages,         \* virtual page numbers
  PCIDs,         \* process-context identifiers, 32 bits wide
  GlobalPages    \* pages mapped with the Global flag

ASSUME EntriesAssumption == NUM_ENTRIES \in Nat \ {0}
ASSUME PageAssumption == GlobalPages \subseteq Pages
ASSUME PcidAssumption == PCIDs \subseteq Nat

Entries == 0 .. NUM_ENTRIES - 1
MAX_AGE == NUM_ENTRIES - 1
PCID_KEPT == 256       \* pcid(PCID_LOW_BITS downto 0)

VARIABLES
  tlb_valid, tlb_vpn, tlb_pcid, tlb_frame, tlb_age

vars == <<tlb_valid, tlb_vpn, tlb_pcid, tlb_frame, tlb_age>>

\* A frame stands for the translation: whose page tables gave it, -1 for all.
Translation(v, p) ==
  IF v \in GlobalPages THEN [page |-> v, owner |-> -1, global |-> TRUE]
                       ELSE [page |-> v, owner |-> p, global |-> FALSE]
NoFrame == [page |-> 0, owner |-> -1, global |-> FALSE]

Init ==
  /\ tlb_valid = [i \in Entries |-> FALSE]
  /\ tlb_vpn = [i \in Entries |-> 0]
  /\ tlb_pcid = [i \in Entries |-> 0]
  /\ tlb_frame = [i \in Entries |-> NoFrame]
  /\ tlb_age = [i \in Entries |-> 0]

-----------------------------------------------------------------------------
(***************************************************************************)
(* comb_lookup: the entries that match; the last one wins.                 *)
(***************************************************************************)
matchesWithoutPcid(i, v, p) == tlb_valid[i] /\ tlb_vpn[i] = v
Matches(i, v, p) ==
  /\ tlb_valid[i]
  /\ tlb_vpn[i] = v
  /\ tlb_pcid[i] = p % PCID_KEPT \/ tlb_frame[i].global

Hits(v, p) == {i \in Entries : Matches(i, v, p)}
s_hit_idx(v, p) == CHOOSE i \in Hits(v, p) : \A j \in Hits(v, p) : i >= j

(***************************************************************************)
(* sync_tlb: entries more recent than the one that becomes the most recent *)
(* lose a place, the others keep theirs.                                   *)
(***************************************************************************)
agedAll(t, A) ==
  [i \in Entries |->
     IF i = t THEN MAX_AGE
     ELSE IF tlb_valid[i] /\ tlb_age[i] > 0 THEN tlb_age[i] - 1
     ELSE tlb_age[i]]
agedPastMax(t, A) ==
  [i \in Entries |->
     IF i = t THEN MAX_AGE + 1
     ELSE IF tlb_valid[i] /\ tlb_age[i] > A THEN tlb_age[i] - 1
     ELSE tlb_age[i]]
Aged(t, A) ==
  [i \in Entries |->
     IF i = t THEN MAX_AGE
     ELSE IF tlb_valid[i] /\ tlb_age[i] > A THEN tlb_age[i] - 1
     ELSE tlb_age[i]]

Free == {i \in Entries : ~tlb_valid[i]}
Oldest == {i \in Entries : \A j \in Entries : tlb_age[i] <= tlb_age[j]}
firstOf(S) == CHOOSE i \in S : \A j \in S : i <= j
targetFirstEntry == firstOf(IF Free # {} THEN Free ELSE Entries)
Target == firstOf(IF Free # {} THEN Free ELSE Oldest)

Reset ==
  /\ tlb_valid' = [i \in Entries |-> FALSE]
  /\ tlb_age' = [i \in Entries |-> 0]
  /\ UNCHANGED <<tlb_vpn, tlb_pcid, tlb_frame>>

Lookup(v, p) ==
  /\ Hits(v, p) # {}
  /\ tlb_age' = Aged(s_hit_idx(v, p), tlb_age[s_hit_idx(v, p)])
  /\ UNCHANGED <<tlb_valid, tlb_vpn, tlb_pcid, tlb_frame>>

Write(v, p) ==
  /\ tlb_vpn' = [tlb_vpn EXCEPT ![Target] = v]
  /\ tlb_pcid' = [tlb_pcid EXCEPT ![Target] = p % PCID_KEPT]
  /\ tlb_frame' = [tlb_frame EXCEPT ![Target] = Translation(v, p)]
  /\ tlb_valid' = [tlb_valid EXCEPT ![Target] = TRUE]
  /\ tlb_age' = Aged(Target, tlb_age[Target])

(***************************************************************************)
(* Page_Walker writes what it found at the end of a walk, and it walks     *)
(* only after a miss; the request stays the same meanwhile.                *)
(***************************************************************************)
WalkOnHit(v, p) == Write(v, p)
Walk(v, p) ==
  /\ Hits(v, p) = {}
  /\ Write(v, p)

Next ==
  \/ Reset
  \/ \E v \in Pages, p \in PCIDs : Lookup(v, p) \/ Walk(v, p)

Spec == Init /\ [][Next]_vars

-----------------------------------------------------------------------------
\* Every variable keeps its type; an age fits its bits.
TypeOK ==
  /\ tlb_valid \in [Entries -> BOOLEAN]
  /\ tlb_vpn \in [Entries -> Pages \cup {0}]
  /\ tlb_pcid \in [Entries -> 0 .. PCID_KEPT - 1]
  /\ tlb_frame \in [Entries -> [page: Pages \cup {0}, owner: PCIDs \cup {-1},
                                global: BOOLEAN]]
  /\ tlb_age \in [Entries -> 0 .. MAX_AGE]

Valid == {i \in Entries : tlb_valid[i]}

(***************************************************************************)
(* The ages of the valid entries are the ranks of their last uses: no two  *)
(* are equal and they fill the range from the top.  A tie would make the   *)
(* victim arbitrary (TLB_LRU.vhd:17-29, 226-228, MEMORY_SYSTEM.md:85).     *)
(***************************************************************************)
AgesAreRanks ==
  /\ \A i, j \in Valid : tlb_age[i] = tlb_age[j] => i = j
  /\ \A i \in Valid : tlb_age[i] + Cardinality(Valid) >= NUM_ENTRIES

\* A full buffer evicts the entry of age 0 (CRITICAL_ANALYSIS.md:157).
VictimHasAgeZero == Free = {} => tlb_age[Target] = 0

(***************************************************************************)
(* At most one entry matches, whatever mixture of global and private pages *)
(* was loaded: the loop has no break and the last match wins               *)
(* (TLB_LRU.vhd:136-137).                                                  *)
(***************************************************************************)
NoDoubleHit ==
  \A v \in Pages, p \in PCIDs : \A i, j \in Hits(v, p) : i = j

(***************************************************************************)
(* A hit gives the translation of the process that asks: what a walk of    *)
(* its page tables would find.                                             *)
(***************************************************************************)
HitIsTranslation ==
  \A v \in Pages, p \in PCIDs : \A i \in Hits(v, p) :
    tlb_frame[i] = Translation(v, p)

-----------------------------------------------------------------------------
(***************************************************************************)
(* The buffer is an exact least-recently-used cache: in whatever slots its *)
(* entries are, ordering them by age is ordering them by last use          *)
(* (MEMORY_SYSTEM.md:70, 82-86).                                           *)
(***************************************************************************)
WithAge(a) == CHOOSE i \in Valid : tlb_age[i] = a
ByAge == [k \in 1 .. Cardinality(Valid) |->
            tlb_frame[WithAge(NUM_ENTRIES - Cardinality(Valid) + k - 1)]]

Lru == INSTANCE LruCache WITH
  Items <- {Translation(v, p) : v \in Pages, p \in PCIDs},
  Capacity <- NUM_ENTRIES,
  recency <- ByAge

ImplementsLru == Lru!Spec
=============================================================================
