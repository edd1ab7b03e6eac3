---------------------------- MODULE Loader_proofs ----------------------------
(***************************************************************************)
(* Proofs about the loader: the 16-bit segments of Segments.tla, the list   *)
(* of modules of ModuleTable.tla, and the code for missing entries of       *)
(* Image.tla.                                                               *)
(*                                                                          *)
(* The blocks of Dos16AllocHuge are runs of selectors over runs of memory   *)
(* because every segment gets the slot of its own number.  That holds while *)
(* memory of other kinds always finds a slot above those of the segments:   *)
(* `Roomy` says when there are enough of them.                              *)
(*                                                                          *)
(* The list of modules has what is counted because every reference has one  *)
(* who holds it: the program, a place in a table of dependencies, the       *)
(* result on its way to the caller, or a call in progress.  `TableInv` says *)
(* so at every step of the recursive calls, and where in the stack of calls *)
(* a structure may be.                                                      *)
(*                                                                          *)
(* Code for a missing entry goes behind the code there is in its page, or   *)
(* to a page in a tile of its own: `MissingInv`.                            *)
(***************************************************************************)
EXTENDS Segments, ModuleTable, Image, FoldTheorems, FiniteSetTheorems

Others == {p.tile : p \in Piece}
High   == LastTile + 1 .. NumSlots - 1

(* There are as many slots above those of the segments as there are tiles   *)
(* of other memory, no two pieces of which share a tile, or share one with  *)
(* the stack or the segments.                                               *)
Roomy ==
    /\ LastTile < NumSlots
    /\ Others \cap (Stack \cup FirstTile .. LastTile) = {}
    /\ \A p, q \in Piece : p.tile = q.tile => p = q
    /\ IsFiniteSet(Others) /\ Cardinality(Others) <= NumSlots - 1 - LastTile

-----------------------------------------------------------------------------
(* The LDT: below the high slots a slot has the tile of its own number or   *)
(* none, in the high ones it has one of the other tiles or none, and no     *)
(* tile is in two slots.                                                    *)
Good(L) ==
    /\ L \in [Slot -> Nat]
    /\ \A s \in Slot \ High : L[s] \in {0, s}
    /\ \A s \in High : L[s] \in Others \cup {0}
    /\ \A s \in Stack : L[s] = s
    /\ \A r, s \in Slot : L[r] = L[s] /\ L[r] # 0 => r = s

(* The slot for a tile: it has the tile, or it is free and no slot has it.  *)
Suits(L, tile, slot) ==
    /\ slot \in Slot
    /\ L[slot] = tile \/ (L[slot] = 0 /\ \A s \in Slot : L[s] # tile)
    /\ slot = tile \/ (slot \in High /\ tile \in Others)

(* What lxFindSelector and lxFreeSegment do to the LDT leaves it good.      *)
LEMMA GoodWithEntry ==
    ASSUME Roomy, NEW L, Good(L), NEW slot, NEW tile \in Stack \cup FirstTile .. LastTile \cup Others,
           Suits(L, tile, slot)
    PROVE  Good([L EXCEPT ![slot] = tile])
<1> DEFINE M == [L EXCEPT ![slot] = tile]
<1>1. tile \in Nat \ {0} /\ (slot = tile \/ slot \notin Stack)
  BY SegmentsAssumption DEF Suits, Roomy, Others, High
<1>2. M \in [Slot -> Nat] /\ M[slot] = tile /\ \A s \in Slot \ {slot} : M[s] = L[s]
  BY <1>1 DEF Good, Suits
<1> HIDE DEF M
<1>3. \A s \in Slot \ High : M[s] \in {0, s}
  BY <1>2 DEF Good, Suits
<1>4. \A s \in High : M[s] \in Others \cup {0}
  <2>1. High \subseteq Slot
    BY SegmentsAssumption DEF High, Slot
  <2>2. slot \in High => tile \in Others
    BY SegmentsAssumption DEF Suits, High, Roomy
  <2> QED
    BY <1>2, <2>1, <2>2 DEF Good
<1>5. \A s \in Stack : M[s] = s
  <2>1. Stack \subseteq Slot
    BY SegmentsAssumption DEF Slot
  <2> QED
    BY <1>1, <1>2, <2>1 DEF Good
<1>6. \A r, s \in Slot : M[r] = M[s] /\ M[r] # 0 => r = s
  BY <1>1, <1>2 DEF Good, Suits
<1> QED
  BY <1>2, <1>3, <1>4, <1>5, <1>6 DEF Good, M

LEMMA GoodWithout ==
    ASSUME NEW L, Good(L), NEW S \in SUBSET Slot, S \cap Stack = {}
    PROVE  Good([s \in Slot |-> IF s \in S THEN 0 ELSE L[s]])
<1>1. High \subseteq Slot /\ Stack \subseteq Slot
  BY SegmentsAssumption DEF High, Slot
<1> QED
  BY <1>1 DEF Good

-----------------------------------------------------------------------------
(* Every tile of other memory that no slot has finds a free one above those *)
(* of the segments.                                                         *)
LEMMA RoomForOthers ==
    ASSUME Roomy, NEW L, Good(L), NEW tile \in Others, \A s \in Slot : L[s] # tile
    PROVE  \E s \in High : L[s] = 0
<1> SUFFICES ASSUME \A s \in High : L[s] # 0 PROVE FALSE
  OBVIOUS
<1> DEFINE T == Others \ {tile}
           f == [s \in High |-> L[s]]
<1>1. High \subseteq Slot
  BY SegmentsAssumption DEF High, Slot
<1>2. f \in [High -> T]
  BY <1>1 DEF Good
<1>3. IsFiniteSet(High) /\ Cardinality(High) = NumSlots - 1 - LastTile
  BY FS_Interval, SegmentsAssumption DEF High, Roomy
<1>4. IsFiniteSet(T) /\ Cardinality(T) = Cardinality(Others) - 1
  BY FS_RemoveElement DEF Roomy
<1>5. Cardinality(Others) \in Nat
  BY FS_CardinalityType DEF Roomy
<1>6. Cardinality(T) < Cardinality(High)
  BY <1>3, <1>4, <1>5, SegmentsAssumption DEF Roomy
<1> HIDE DEF T, f
<1>7. PICK x, y \in High : x # y /\ f[x] = f[y]
  BY <1>2, <1>3, <1>4, <1>6, FS_PigeonHole
<1> QED
  BY <1>1, <1>7 DEF Good, f

(* lxFindSelector gives the tile a slot that suits it.                      *)
LEMMA FindSelectorSuits ==
    ASSUME Roomy, Good(ldt), NEW tile \in Stack \cup FirstTile .. LastTile \cup Others
    PROVE  Suits(ldt, tile, FindSelector(tile)) /\ FindSelector(tile) # None
<1> DEFINE covering == {s \in Slot : ldt[s] = tile}
           free     == {s \in Slot : ldt[s] = 0}
<1>0. FindSelector(tile) = IF covering # {} THEN IF tile \in covering THEN tile ELSE Min(covering)
        ELSE IF tile \in free THEN tile
        ELSE IF free # {} THEN Max(free) ELSE None
  BY DEF FindSelector
<1>1. tile \in Nat \ {0} /\ High \subseteq Slot
  BY SegmentsAssumption DEF Others, High, Slot
<1>2. \A s \in Slot : s # None
  BY SegmentsAssumption DEF Slot, None
<1>3. \A s \in covering : s = tile \/ (s \in High /\ tile \in Others)
  BY <1>1 DEF Good
<1>4. CASE covering # {}
  <2>1. PICK s \in covering : TRUE
    BY <1>4
  <2>2. covering = {s}
    BY <1>1, <2>1 DEF Good
  <2>3. Min(covering) = s
    <3>1. s <= s
      BY SegmentsAssumption DEF Slot
    <3> QED
      BY <2>2, <3>1 DEF Min
  <2>4. FindSelector(tile) = s
    BY <1>0, <2>2, <2>3
  <2> QED
    BY <1>2, <1>3, <2>4 DEF Suits
<1>5. CASE covering = {} /\ tile \in free
  BY <1>0, <1>2, <1>5 DEF Suits
<1>6. CASE covering = {} /\ tile \notin free
  <2>1. tile \in Others
    <3>1. ASSUME tile \in Stack \cup FirstTile .. LastTile PROVE FALSE
      <4>1. tile \in Slot \ High
        BY <3>1, SegmentsAssumption DEF Slot, High, Roomy
      <4> QED
        BY <1>6, <4>1 DEF Good
    <3> QED
      BY <3>1
  <2>2. PICK s \in High : ldt[s] = 0
    BY <1>6, <2>1, RoomForOthers
  <2>3. free \in SUBSET (0 .. NumSlots - 1) /\ free # {} /\ NumSlots - 1 \in Nat
    BY <1>1, <2>2, SegmentsAssumption DEF Slot
  <2>5. Max(free) \in free /\ \A n \in free : Max(free) >= n
    <3> HIDE DEF free
    <3> QED
      BY <2>3, MaxIsIn
  <2>6. Max(free) \in High
    <3> HIDE DEF free
    <3>1. s \in free
      BY <1>1, <2>2 DEF free
    <3>2. PICK m \in free : m = Max(free)
      BY <2>5
    <3>3. m \in 0 .. NumSlots - 1 /\ m >= s
      BY <2>3, <2>5, <3>1, <3>2
    <3>4. m \in High
      BY <3>3, SegmentsAssumption DEF High
    <3> QED
      BY <3>2, <3>4
  <2>7. FindSelector(tile) = Max(free)
    BY <1>0, <1>6, <2>3
  <2> QED
    BY <1>2, <1>6, <2>1, <2>5, <2>6, <2>7 DEF Suits
<1> QED
  BY <1>4, <1>5, <1>6

-----------------------------------------------------------------------------
(* Who has which segments: blocks H that the program has, and what thread t *)
(* has of the block it is allocating, C[t].                                 *)
Run(h) == h.first .. h.first + h.segs - 1
Owned(H, C) == (UNION {Run(h) : h \in H}) \cup (UNION {C[t] : t \in Thread})
Apart(H, C) ==
    /\ \A g, h \in H : g # h => Run(g) \cap Run(h) = {}
    /\ \A h \in H, t \in Thread : Run(h) \cap C[t] = {}
    /\ \A t, u \in Thread : t # u => C[t] \cap C[u] = {}

LEMMA InOwned ==
    ASSUME NEW H, NEW C, NEW s
    PROVE  s \in Owned(H, C) <=> (\E h \in H : s \in Run(h)) \/ (\E t \in Thread : s \in C[t])
<1> DEFINE A == UNION {Run(h) : h \in H}
           B == UNION {C[t] : t \in Thread}
<1>1. s \in A <=> \E h \in H : s \in Run(h)
  OBVIOUS
<1>2. s \in B <=> \E t \in Thread : s \in C[t]
  OBVIOUS
<1>3. Owned(H, C) = A \cup B
  BY DEF Owned
<1> HIDE DEF A, B
<1> QED
  BY <1>1, <1>2, <1>3

(* A block is freed, what there is of one is given up, one grows by a       *)
(* segment, and one is handed to the program.                               *)
LEMMA BlockFreed ==
    ASSUME NEW H, NEW C, Apart(H, C), NEW h \in H
    PROVE  Apart(H \ {h}, C) /\ Owned(H \ {h}, C) = Owned(H, C) \ Run(h)
<1>1. Owned(H \ {h}, C) \subseteq Owned(H, C) \ Run(h)
  <2>1. ASSUME NEW s \in Owned(H \ {h}, C) PROVE s \in Owned(H, C) \ Run(h)
    <3>1. CASE \E g \in H \ {h} : s \in Run(g)
      BY <3>1, InOwned DEF Apart
    <3>2. CASE \E t \in Thread : s \in C[t]
      BY <3>2, InOwned DEF Apart
    <3> QED
      BY <2>1, <3>1, <3>2, InOwned
  <2> QED
    BY <2>1
<1>2. Owned(H, C) \ Run(h) \subseteq Owned(H \ {h}, C)
  BY InOwned
<1> QED
  BY <1>1, <1>2 DEF Apart

LEMMA ClaimDropped ==
    ASSUME NEW H, NEW C, Apart(H, C), NEW t \in Thread, NEW D,
           D[t] = {}, \A u \in Thread \ {t} : D[u] = C[u]
    PROVE  Apart(H, D) /\ Owned(H, D) = Owned(H, C) \ C[t]
<1>1. Owned(H, D) \subseteq Owned(H, C) \ C[t]
  <2>1. ASSUME NEW s \in Owned(H, D) PROVE s \in Owned(H, C) \ C[t]
    <3>1. CASE \E g \in H : s \in Run(g)
      BY <3>1, InOwned DEF Apart
    <3>2. CASE \E u \in Thread : s \in D[u]
      BY <3>2, InOwned DEF Apart
    <3> QED
      BY <2>1, <3>1, <3>2, InOwned
  <2> QED
    BY <2>1
<1>2. Owned(H, C) \ C[t] \subseteq Owned(H, D)
  BY InOwned
<1> QED
  BY <1>1, <1>2 DEF Apart

LEMMA ClaimGrown ==
    ASSUME NEW H, NEW C, Apart(H, C), NEW t \in Thread, NEW b, b \notin Owned(H, C),
           NEW D, D[t] = C[t] \cup {b}, \A u \in Thread \ {t} : D[u] = C[u]
    PROVE  Apart(H, D) /\ Owned(H, D) = Owned(H, C) \cup {b}
<1>1. Owned(H, D) = Owned(H, C) \cup {b}
  <2>1. ASSUME NEW s \in Owned(H, D) PROVE s \in Owned(H, C) \cup {b}
    BY <2>1, InOwned
  <2>2. ASSUME NEW s \in Owned(H, C) \cup {b} PROVE s \in Owned(H, D)
    BY <2>2, InOwned
  <2> QED
    BY <2>1, <2>2
<1>2. (\A h \in H : b \notin Run(h)) /\ \A u \in Thread : b \notin C[u]
  BY InOwned
<1>3. \A u \in Thread : D[u] = C[u] \/ (u = t /\ D[u] = C[u] \cup {b})
  OBVIOUS
<1> QED
  BY <1>1, <1>2, <1>3 DEF Apart

LEMMA BlockHanded ==
    ASSUME NEW H, NEW C, Apart(H, C), NEW t \in Thread, NEW g, Run(g) = C[t],
           NEW D, D[t] = {}, \A u \in Thread \ {t} : D[u] = C[u]
    PROVE  Apart(H \cup {g}, D) /\ Owned(H \cup {g}, D) = Owned(H, C)
<1>1. Owned(H \cup {g}, D) = Owned(H, C)
  <2>1. ASSUME NEW s \in Owned(H \cup {g}, D) PROVE s \in Owned(H, C)
    <3>1. CASE \E h \in H \cup {g} : s \in Run(h)
      BY <3>1, InOwned
    <3>2. CASE \E u \in Thread : s \in D[u]
      BY <3>2, InOwned
    <3> QED
      BY <2>1, <3>1, <3>2, InOwned
  <2>2. ASSUME NEW s \in Owned(H, C) PROVE s \in Owned(H \cup {g}, D)
    <3>1. CASE \E h \in H : s \in Run(h)
      BY <3>1, InOwned
    <3>2. CASE \E u \in Thread : s \in C[u]
      BY <3>2, InOwned
    <3> QED
      BY <2>2, <3>1, <3>2, InOwned
  <2> QED
    BY <2>1, <2>2
<1> QED
  BY <1>1 DEF Apart

-----------------------------------------------------------------------------
AllocState == [pc : {"map", "take"}, segs : Nat \ {0}, huge : BOOLEAN, got : Nat,
               first : Int, tile : Nat, at : Nat]

SegTypes ==
    /\ base \in FirstTile .. LastTile + 1
    /\ alloc \in [Thread -> {Quiet} \cup AllocState]
    /\ held \subseteq [first : Nat, segs : Nat \ {0}, tile : Nat]
    /\ huge_block_segs \in [Slot -> Nat]
    /\ pieces \subseteq Piece
    /\ alias \in [Piece -> Int]

(* What a thread has of the block it is allocating.                         *)
Claimed(a) == IF a.pc = "out" THEN {} ELSE a.first .. a.first + a.got - 1
Claims     == [t \in Thread |-> Claimed(alloc[t])]

Taking(t) == alloc[t].pc = "take"

(* One thread at a time is inside lxAllocSegment, at the next tile, and what *)
(* a thread has of its block starts at the block's first tile.              *)
TakeInv ==
    /\ \A t, u \in Thread : Taking(t) /\ Taking(u) => t = u
    /\ \A t \in Thread : Taking(t) => alloc[t].at = base /\ base <= LastTile
    /\ \A t \in Thread : alloc[t].pc # "out" =>
        /\ alloc[t].got < alloc[t].segs
        /\ alloc[t].got > 0 => /\ alloc[t].first = alloc[t].tile
                               /\ FirstTile <= alloc[t].first
                               /\ alloc[t].first + alloc[t].got <= base
        /\ alloc[t].got = 0 /\ Taking(t) => alloc[t].tile = base
    /\ \A t \in Thread : alloc[t].pc # "out" /\ ~alloc[t].huge => alloc[t].segs = 1

(* Blocks are of tiles already passed, their selectors have the numbers of  *)
(* their tiles, and huge_block_segs has the size of each huge one.          *)
HeldInv ==
    \A h \in held :
        /\ h.first = h.tile /\ FirstTile <= h.first /\ h.first + h.segs <= base
        /\ huge_block_segs[h.first] = h.segs \/ (h.segs = 1 /\ huge_block_segs[h.first] = 0)

HugeInv == \A s \in Slot : huge_block_segs[s] # 0 => \E h \in held : h.first = s

(* No segment is in two blocks; those that are in one are in the LDT and,   *)
(* with the one that is about to be, in memory.                             *)
OwnInv ==
    /\ Apart(held, Claims)
    /\ \A s \in FirstTile .. LastTile : ldt[s] = s <=> s \in Owned(held, Claims)
    /\ \A s : s \in mapped <=> s \in Owned(held, Claims) \/ (s = base /\ \E t \in Thread : Taking(t))

(* A library's alias and a pointer are for a slot that has the tile.        *)
StackPlaces == [tile : Stack, kind : {"stack"}]
InHeld(tile) == \E h \in held : tile \in Run(h)
PointInv ==
    /\ \A p \in pieces : NeedsAlias(p) => alias[p] \in Slot /\ ldt[alias[p]] = p.tile
    /\ \A p \in pointers :
        /\ p.slot \in Slot /\ ldt[p.slot] = p.to.tile
        /\ \/ \E tile \in FirstTile .. LastTile : InHeld(tile) /\ p.to = Segment(tile)
           \/ p.to \in pieces
           \/ p.to \in StackPlaces

SegInv == SegTypes /\ Good(ldt) /\ TakeInv /\ HeldInv /\ HugeInv /\ OwnInv /\ PointInv

(* All of it while no two threads have met inside lxAllocSegment.           *)
SegmentsInv == overlapped \in BOOLEAN /\ (~overlapped => SegInv)

LEMMA SegmentsInvInit == Roomy /\ SegInit => SegmentsInv
<1> SUFFICES ASSUME Roomy, SegInit PROVE SegInv /\ overlapped \in BOOLEAN
  BY DEF SegmentsInv
<1>0. \A t \in Thread : alloc[t] = Quiet /\ alloc[t].pc = "out"
  BY DEF SegInit, Quiet
<1>1. SegTypes
  BY <1>0, SegmentsAssumption DEF SegTypes, SegInit, None, Slot
<1>2. Good(ldt)
  BY SegmentsAssumption DEF SegInit, Good, Slot, High
<1>3. TakeInv
  BY <1>0 DEF TakeInv, Taking
<1>4. HeldInv /\ HugeInv
  BY DEF SegInit, HeldInv, HugeInv
<1>5. OwnInv
  <2>1. \A t \in Thread : Claims[t] = {}
    BY <1>0 DEF Claims, Claimed
  <2>2. \A s : s \notin Owned(held, Claims)
    BY <2>1, InOwned DEF SegInit
  <2>3. \A s \in FirstTile .. LastTile : ldt[s] # s
    BY SegmentsAssumption DEF SegInit, Slot, Roomy
  <2> QED
    BY <1>0, <2>1, <2>2, <2>3 DEF OwnInv, Apart, SegInit, Taking
<1>6. PointInv
  BY DEF SegInit, PointInv
<1> QED
  BY <1>1, <1>2, <1>3, <1>4, <1>5, <1>6 DEF SegInv, SegInit

(* The properties follow.                                                   *)
LEMMA SegInvSound == SegInv => SegmentsAreSound
<1> SUFFICES ASSUME SegInv PROVE SegmentsAreSound
  OBVIOUS
<1>1. \A h \in held : Run(h) = h.tile .. h.tile + h.segs - 1
  BY DEF SegInv, HeldInv, Run
<1>2. ASSUME NEW h \in held, NEW j \in 0 .. h.segs - 1
      PROVE  ldt[h.first + j] = h.tile + j /\ h.tile + j \in mapped
  <2>1. h.first \in Nat /\ h.segs \in Nat /\ h.first = h.tile /\ FirstTile <= h.first
        /\ h.first + h.segs <= base /\ base \in Nat /\ base <= LastTile + 1
    BY SegmentsAssumption DEF SegInv, HeldInv, SegTypes
  <2>2. h.first + j \in FirstTile .. LastTile /\ h.first + j \in Run(h)
    BY <2>1, SegmentsAssumption DEF Run
  <2>3. h.first + j \in Owned(held, Claims)
    BY <2>2, InOwned
  <2> QED
    BY <2>1, <2>2, <2>3 DEF SegInv, OwnInv
<1>3. ASSUME \A t \in Thread : alloc[t].pc = "out" PROVE mapped = TilesHeld
  <2>1. \A t \in Thread : Claims[t] = {} /\ ~Taking(t)
    BY <1>3 DEF Claims, Claimed, Taking
  <2>2. \A s : s \in mapped <=> \E h \in held : s \in Run(h)
    BY <2>1, InOwned DEF SegInv, OwnInv
  <2>3. \A s : s \in TilesHeld <=> \E h \in held : s \in Run(h)
    BY <1>1 DEF TilesHeld
  <2> QED
    BY <2>2, <2>3
<1>4. \A p \in pointers : ldt[p.slot] = p.to.tile
  BY DEF SegInv, PointInv
<1> QED
  BY <1>2, <1>3, <1>4 DEF SegmentsAreSound, HugeIsContiguous, NoSegmentLeaks, PointersStayGood

-----------------------------------------------------------------------------
(* Dos16AllocSeg and Dos16AllocHuge begin.                                  *)
LEMMA BeginKeeps ==
    ASSUME Roomy, SegInv, NEW t \in Thread, NEW segs \in Nat \ {0}, NEW huge \in BOOLEAN,
           huge \/ segs = 1, Begin(t, segs, huge)
    PROVE  SegInv'
<1> USE DEF SegInv
<1>0. alloc[t].pc = "out" /\ alloc \in [Thread -> {Quiet} \cup AllocState]
  BY DEF Begin, InAlloc, SegTypes
<1> DEFINE new == [pc |-> "map", segs |-> segs, huge |-> huge, got |-> 0, first |-> None, tile |-> 0, at |-> 0]
<1>1. new \in AllocState /\ new.pc = "map" /\ new.got = 0 /\ new.segs = segs /\ new.first = None
      /\ new.huge = huge
  BY DEF AllocState, None
<1>2. alloc' = [alloc EXCEPT ![t] = new]
  BY DEF Begin
<1> HIDE DEF new
<1>3. alloc'[t] = new /\ \A u \in Thread \ {t} : alloc'[u] = alloc[u]
  BY <1>0, <1>2
<1>4. ~Taking(t) /\ ~Taking(t)' /\ \A u \in Thread : Taking(u)' <=> Taking(u)
  BY <1>0, <1>1, <1>3 DEF Taking
<1>5. SegTypes'
  BY <1>0, <1>1, <1>2 DEF SegTypes, Begin
<1>6. Claims' = Claims
  <2>1. Claimed(new) = {} /\ Claimed(alloc[t]) = {}
    BY <1>0, <1>1 DEF Claimed, None
  <2>2. \A u \in Thread : Claimed(alloc'[u]) = Claimed(alloc[u])
    BY <1>3, <2>1
  <2> QED
    BY <2>2 DEF Claims
<1>7. TakeInv'
  BY <1>0, <1>1, <1>3, <1>4 DEF TakeInv, Begin
<1>8. OwnInv'
  BY <1>4, <1>6 DEF OwnInv, Begin
<1> QED
  BY <1>5, <1>7, <1>8 DEF HeldInv, HugeInv, PointInv, Good, InHeld, Begin

(* The mmap of lxAllocSegment, unless another thread is in there.           *)
LEMMA MapKeeps ==
    ASSUME Roomy, SegInv, NEW t \in Thread, MapSegment(t), ~overlapped'
    PROVE  SegInv'
<1> USE DEF SegInv
<1> DEFINE a == alloc[t]
<1>0. a.pc = "map" /\ base <= LastTile /\ alloc \in [Thread -> {Quiet} \cup AllocState] /\ base \in Nat
  BY SegmentsAssumption DEF MapSegment, InAlloc, SegTypes
<1>1. a \in AllocState
  BY <1>0 DEF Quiet
<1>2. PICK new : new = [a EXCEPT !.pc = "take", !.at = base, !.tile = IF a.got = 0 THEN base ELSE @]
  OBVIOUS
<1>3. alloc' = [alloc EXCEPT ![t] = new]
  BY <1>2 DEF MapSegment
<1>4. /\ new \in AllocState /\ new.pc = "take" /\ new.at = base /\ new.got = a.got /\ new.segs = a.segs /\ new.huge = a.huge
      /\ new.first = a.first /\ new.tile = IF a.got = 0 THEN base ELSE a.tile
  BY <1>0, <1>1, <1>2 DEF AllocState
<1>5. alloc'[t] = new /\ \A u \in Thread \ {t} : alloc'[u] = alloc[u]
  BY <1>0, <1>3
<1>6. \A u \in Thread : ~Taking(u)
  BY <1>0 DEF MapSegment, Taking
<1>7. \A u \in Thread : Taking(u)' <=> u = t
  BY <1>4, <1>5, <1>6 DEF Taking
<1>8. SegTypes'
  BY <1>0, <1>3, <1>4 DEF SegTypes, MapSegment
<1>9. Claims' = Claims
  <2>1. Claimed(new) = Claimed(a)
    BY <1>0, <1>4 DEF Claimed
  <2>2. \A u \in Thread : Claimed(alloc'[u]) = Claimed(alloc[u])
    BY <1>5, <2>1
  <2> QED
    BY <2>2 DEF Claims
<1>10. TakeInv'
  <2>1. base' = base
    BY DEF MapSegment
  <2>2. ASSUME NEW u \in Thread, alloc'[u].pc # "out"
        PROVE /\ alloc'[u].got < alloc'[u].segs
              /\ alloc'[u].got > 0 => /\ alloc'[u].first = alloc'[u].tile
                                      /\ FirstTile <= alloc'[u].first
                                      /\ alloc'[u].first + alloc'[u].got <= base
              /\ alloc'[u].got = 0 /\ alloc'[u].pc = "take" => alloc'[u].tile = base
    <3>1. CASE u = t
      <4>1. a.pc # "out" /\ a.got \in Nat
        BY <1>0, <1>1 DEF AllocState
      <4> QED
        BY <1>4, <1>5, <3>1, <4>1 DEF TakeInv
    <3>2. CASE u # t
      BY <1>5, <2>2, <3>2 DEF TakeInv, Taking
    <3> QED
      BY <3>1, <3>2
  <2>3. \A u \in Thread : alloc'[u].pc # "out" /\ ~alloc'[u].huge => alloc'[u].segs = 1
    BY <1>0, <1>4, <1>5 DEF TakeInv
  <2> QED
    BY <1>0, <1>4, <1>5, <1>7, <2>1, <2>2, <2>3 DEF TakeInv, Taking
<1>11. OwnInv'
  <2>1. \A s : s \in mapped' <=> s \in mapped \/ s = base
    BY DEF MapSegment
  <2>2. \A s : s \in mapped' <=> s \in Owned(held, Claims) \/ s = base
    BY <1>6, <2>1 DEF OwnInv
  <2> QED
    BY <1>7, <1>9, <2>2 DEF OwnInv, MapSegment
<1> QED
  BY <1>8, <1>10, <1>11 DEF HeldInv, HugeInv, PointInv, Good, InHeld, MapSegment

-----------------------------------------------------------------------------
(* Segments go: their entries with them, and the pointers into them; no     *)
(* other entry, alias or pointer is touched.                                *)
LEMMA OthersSurvive ==
    ASSUME Roomy, SegInv, NEW S \in SUBSET (FirstTile .. LastTile), \A s \in S : ldt[s] = s,
           ldt' = [s \in Slot |-> IF s \in S THEN 0 ELSE ldt[s]],
           pointers' \subseteq {p \in pointers : p.to \notin {Segment(s) : s \in S}},
           pieces' = pieces, alias' = alias,
           \A tile \in (FirstTile .. LastTile) \ S : InHeld(tile) => InHeld(tile)'
    PROVE  Good(ldt') /\ PointInv'
<1>1. S \subseteq Slot /\ S \cap Stack = {} /\ S \cap Others = {}
  <2>1. \A s \in FirstTile .. LastTile : s \in Slot /\ s \notin Stack /\ s # 0
    BY SegmentsAssumption DEF Roomy, Slot
  <2>2. \A s \in FirstTile .. LastTile : s \notin Others
    BY DEF Roomy
  <2> QED
    BY <2>1, <2>2
<1>2. Good(ldt) /\ PointInv
  BY DEF SegInv
<1>3. Good(ldt')
  BY <1>1, <1>2, GoodWithout
<1>4. \A r \in Slot : r \in S <=> ldt[r] \in S
  <2>1. ASSUME NEW r \in Slot, ldt[r] \in S PROVE r \in S
    <3>1. PICK s \in S : s = ldt[r]
      BY <2>1
    <3>2. s # 0 /\ s \in Slot /\ ldt[s] = s
      BY <1>1, <3>1, SegmentsAssumption
    <3>3. r = s
      BY <1>2, <2>1, <3>1, <3>2 DEF Good
    <3> QED
      BY <3>3
  <2> QED
    BY <2>1
<1>5. ASSUME NEW p \in pieces, NeedsAlias(p) PROVE alias[p] \in Slot /\ ldt'[alias[p]] = p.tile
  <2>1. p.tile \in Others /\ alias[p] \in Slot /\ ldt[alias[p]] = p.tile
    BY <1>2, <1>5 DEF PointInv, SegInv, SegTypes, Others
  <2> QED
    BY <1>1, <1>4, <2>1
<1>6. ASSUME NEW p \in pointers'
      PROVE  /\ p.slot \in Slot /\ ldt'[p.slot] = p.to.tile
             /\ \/ \E tile \in FirstTile .. LastTile : InHeld(tile)' /\ p.to = Segment(tile)
                \/ p.to \in pieces
                \/ p.to \in StackPlaces
  <2>1. p \in pointers /\ p.to \notin {Segment(s) : s \in S}
    BY <1>6
  <2>2. p.slot \in Slot /\ ldt[p.slot] = p.to.tile
    BY <1>2, <2>1 DEF PointInv
  <2>3. CASE \E tile \in FirstTile .. LastTile : InHeld(tile) /\ p.to = Segment(tile)
    <3>1. PICK tile \in FirstTile .. LastTile : InHeld(tile) /\ p.to = Segment(tile)
      BY <2>3
    <3>2. tile \notin S /\ p.to.tile = tile
      BY <2>1, <3>1 DEF Segment
    <3>3. ldt'[p.slot] = tile
      BY <1>4, <2>2, <3>2
    <3> QED
      BY <2>2, <3>1, <3>2, <3>3
  <2>4. CASE p.to \in pieces
    <3>1. p.to.tile \in Others
      BY <2>4 DEF SegInv, SegTypes, Others
    <3> QED
      BY <1>1, <1>4, <2>2, <2>4, <3>1
  <2>5. CASE p.to \in StackPlaces
    <3>1. p.to.tile \in Stack
      BY <2>5 DEF StackPlaces
    <3> QED
      BY <1>1, <1>4, <2>2, <2>5, <3>1
  <2> QED
    BY <1>2, <2>1, <2>3, <2>4, <2>5 DEF PointInv
<1> QED
  BY <1>3, <1>5, <1>6 DEF PointInv

(* What a thread has of its block: the slots of Before, which have the      *)
(* tiles of the same numbers.                                               *)
LEMMA ClaimIsOwn ==
    ASSUME SegInv, NEW t \in Thread, alloc[t].pc # "out"
    PROVE  /\ alloc[t] \in AllocState
           /\ Before(alloc[t]) = Claims[t]
           /\ Claims[t] \in SUBSET (FirstTile .. LastTile)
           /\ \A s \in Claims[t] : s < base /\ ldt[s] = s
           /\ {ldt[s] : s \in Claims[t]} = Claims[t]
<1> DEFINE a == alloc[t]
<1>1. a \in AllocState
  BY DEF SegInv, SegTypes, Quiet
<1>2. Claims[t] = a.first .. a.first + a.got - 1
  BY DEF Claims, Claimed
<1>3. Before(a) = Claims[t]
  <2>1. a.first \in Int /\ a.got \in Nat
    BY <1>1 DEF AllocState
  <2>2. \A i \in Int, n \in Nat : {i + j : j \in 0 .. n - 1} = i .. i + n - 1
    <3>1. ASSUME NEW i \in Int, NEW n \in Nat, NEW k \in i .. i + n - 1
          PROVE  k \in {i + j : j \in 0 .. n - 1}
      <4>1. k - i \in 0 .. n - 1 /\ k = i + (k - i)
        OBVIOUS
      <4> QED
        BY <4>1
    <3> QED
      BY <3>1
  <2> QED
    BY <1>2, <2>1, <2>2 DEF Before
<1>4. base \in Nat /\ base <= LastTile + 1
  BY SegmentsAssumption DEF SegInv, SegTypes
<1>5. a.got > 0 => FirstTile <= a.first /\ a.first + a.got <= base
  BY DEF SegInv, TakeInv
<1>6. \A s \in Claims[t] : s \in FirstTile .. LastTile /\ s < base
  <2> HIDE DEF a
  <2> QED
    BY <1>1, <1>2, <1>4, <1>5, SegmentsAssumption DEF AllocState
<1>7. \A s \in Claims[t] : ldt[s] = s
  BY <1>6, InOwned DEF SegInv, OwnInv
<1> QED
  BY <1>1, <1>3, <1>6, <1>7

(* Where the next tile is: no thread and no block has it, and it is not in  *)
(* the LDT.                                                                 *)
LEMMA NextIsNew ==
    ASSUME SegInv
    PROVE  base \notin Owned(held, Claims)
<1>1. base \in Nat
  BY SegmentsAssumption DEF SegInv, SegTypes
<1>2. \A h \in held : base \notin Run(h)
  BY <1>1 DEF SegInv, SegTypes, HeldInv, Run
<1>3. ASSUME NEW t \in Thread PROVE base \notin Claims[t]
  <2>1. CASE alloc[t].pc = "out"
    BY <2>1 DEF Claims, Claimed
  <2>2. CASE alloc[t].pc # "out"
    BY <1>1, <2>2, ClaimIsOwn
  <2> QED
    BY <2>1, <2>2
<1> QED
  BY <1>2, <1>3, InOwned

-----------------------------------------------------------------------------
(* A thread gives up what it has of its block: the mmap failed, or the slot *)
(* was not the one that follows.                                            *)
GivesBackTile(t) ==
    /\ alloc[t].pc # "out"
    /\ alloc' = [alloc EXCEPT ![t] = Quiet]
    /\ ldt' = [s \in Slot |-> IF s \in Claims[t] THEN 0 ELSE ldt[s]]
    /\ pointers' = {p \in pointers : p.to \notin {Segment(s) : s \in Claims[t]}}
    /\ base' \in FirstTile .. LastTile + 1 /\ base <= base'
    /\ \A s : s \in mapped' <=> s \in mapped \ Claims[t] /\ (Taking(t) => s # base)
    /\ \A u \in Thread \ {t} : Taking(u) => base' = base
    /\ UNCHANGED <<pieces, alias, huge_block_segs, held>>

LEMMA GivesUpKeeps ==
    ASSUME Roomy, SegInv, NEW t \in Thread, GivesBackTile(t)
    PROVE  SegInv'
<1>0. alloc[t].pc # "out" /\ alloc \in [Thread -> {Quiet} \cup AllocState] /\ base \in Nat
  BY SegmentsAssumption DEF SegInv, SegTypes, GivesBackTile
<1>1. alloc'[t] = Quiet /\ \A u \in Thread \ {t} : alloc'[u] = alloc[u]
  BY <1>0 DEF GivesBackTile
<1>2. PICK S : S = Claims[t]
  OBVIOUS
<1>3. S \in SUBSET (FirstTile .. LastTile) /\ \A s \in S : s < base /\ ldt[s] = s
  BY <1>0, <1>2, ClaimIsOwn
<1>4. Claims'[t] = {} /\ \A u \in Thread \ {t} : Claims'[u] = Claims[u]
  BY <1>1 DEF Claims, Claimed, Quiet
<1>5. held' = held /\ Apart(held, Claims)
  BY DEF GivesBackTile, SegInv, OwnInv
<1>6. Apart(held, Claims') /\ Owned(held, Claims') = Owned(held, Claims) \ S
  BY <1>2, <1>4, <1>5, ClaimDropped
<1>7. ~Taking(t)' /\ \A u \in Thread \ {t} : Taking(u)' <=> Taking(u)
  BY <1>1 DEF Taking, Quiet
<1>8. SegTypes'
  BY DEF SegInv, SegTypes, GivesBackTile
<1>9. TakeInv'
  <2>1. ASSUME NEW u \in Thread, alloc'[u].pc # "out" PROVE u # t /\ alloc'[u] = alloc[u]
    BY <1>1, <2>1 DEF Quiet
  <2>2. \A u \in Thread : Taking(u)' => u # t /\ Taking(u) /\ base' = base
    BY <1>7 DEF GivesBackTile
  <2>3. ASSUME NEW u \in Thread, alloc'[u].pc # "out"
        PROVE  /\ alloc'[u].got < alloc'[u].segs
               /\ alloc'[u].got > 0 => /\ alloc'[u].first = alloc'[u].tile
                                       /\ FirstTile <= alloc'[u].first
                                       /\ alloc'[u].first + alloc'[u].got <= base'
               /\ alloc'[u].got = 0 /\ Taking(u)' => alloc'[u].tile = base'
    <3>1. u # t /\ alloc'[u] = alloc[u] /\ (Taking(u)' => Taking(u) /\ base' = base)
      BY <2>1, <2>2, <2>3
    <3>2. alloc[u] \in AllocState
      BY <2>3, <3>1, ClaimIsOwn
    <3>3. alloc[u].first \in Int /\ alloc[u].got \in Nat /\ base <= base' /\ base' \in Nat
      BY <3>2, SegmentsAssumption DEF GivesBackTile, AllocState
    <3>4. alloc[u].got > 0 => alloc[u].first + alloc[u].got <= base
      BY <2>3, <3>1 DEF SegInv, TakeInv
    <3>5. alloc[u].got > 0 => alloc[u].first + alloc[u].got <= base'
      BY <1>0, <3>3, <3>4
    <3> QED
      BY <2>3, <3>1, <3>5 DEF SegInv, TakeInv
  <2>4. \A u \in Thread : Taking(u)' => alloc'[u].at = base' /\ base' <= LastTile
    BY <1>1, <2>2 DEF SegInv, TakeInv
  <2>5. \A u, v \in Thread : Taking(u)' /\ Taking(v)' => u = v
    BY <2>2 DEF SegInv, TakeInv
  <2>6. \A u \in Thread : alloc'[u].pc # "out" /\ ~alloc'[u].huge => alloc'[u].segs = 1
    BY <1>1 DEF SegInv, TakeInv, Quiet
  <2> QED
    BY <2>3, <2>4, <2>5, <2>6 DEF TakeInv
<1>10. HeldInv' /\ HugeInv'
  <2>1. base <= base' /\ base' \in Nat /\ held \subseteq [first : Nat, segs : Nat \ {0}, tile : Nat]
    BY SegmentsAssumption DEF GivesBackTile, SegInv, SegTypes
  <2>2. \A h \in held : h.first + h.segs <= base'
    BY <1>0, <2>1 DEF SegInv, HeldInv
  <2> QED
    BY <1>5, <2>2 DEF SegInv, HeldInv, HugeInv, GivesBackTile
<1>11. OwnInv'
  <2>1. \A s \in FirstTile .. LastTile : ldt'[s] = s <=> s \in Owned(held, Claims')
    <3>1. \A s \in FirstTile .. LastTile : s \in Slot /\ s # 0
      BY SegmentsAssumption DEF Slot, Roomy
    <3>2. \A s \in FirstTile .. LastTile : ldt'[s] = s <=> s \notin S /\ ldt[s] = s
      BY <1>2, <3>1 DEF GivesBackTile
    <3> QED
      BY <1>6, <3>2 DEF SegInv, OwnInv
  <2>2. \A s : s \in mapped' <=> s \in Owned(held, Claims') \/ (s = base' /\ \E u \in Thread : Taking(u)')
    <3>1. base \notin S /\ base \notin Owned(held, Claims)
      BY <1>0, <1>3, NextIsNew
    <3>2. \A s : s \in mapped <=> s \in Owned(held, Claims) \/ (s = base /\ \E u \in Thread : Taking(u))
      BY DEF SegInv, OwnInv
    <3>3. \A s : s \in mapped' <=> s \in mapped \ S /\ (Taking(t) => s # base)
      BY <1>2 DEF GivesBackTile
    <3>4. CASE Taking(t)
      <4>1. \A u \in Thread : ~Taking(u)'
        BY <1>7, <3>4 DEF SegInv, TakeInv
      <4> QED
        BY <1>6, <3>1, <3>2, <3>3, <3>4, <4>1
    <3>5. CASE ~Taking(t)
      <4>1. \A u \in Thread : Taking(u)' <=> Taking(u)
        BY <1>7, <3>5
      <4>2. (\E u \in Thread : Taking(u)) => base' = base
        BY <3>5 DEF GivesBackTile
      <4> QED
        BY <1>6, <3>1, <3>2, <3>3, <3>5, <4>1, <4>2
    <3> QED
      BY <3>4, <3>5
  <2> QED
    BY <1>5, <1>6, <2>1, <2>2 DEF OwnInv
<1>12. Good(ldt') /\ PointInv'
  <2>1. ldt' = [s \in Slot |-> IF s \in S THEN 0 ELSE ldt[s]]
    BY <1>2 DEF GivesBackTile
  <2>2. pointers' \subseteq {p \in pointers : p.to \notin {Segment(s) : s \in S}}
    BY <1>2 DEF GivesBackTile
  <2>3. \A tile \in (FirstTile .. LastTile) \ S : InHeld(tile) => InHeld(tile)'
    BY <1>5 DEF InHeld
  <2>4. pieces' = pieces /\ alias' = alias
    BY DEF GivesBackTile
  <2> QED
    BY <1>3, <2>1, <2>2, <2>3, <2>4, OthersSurvive
<1> QED
  BY <1>8, <1>9, <1>10, <1>11, <1>12 DEF SegInv

LEMMA MapFailsKeeps ==
    ASSUME Roomy, SegInv, NEW t \in Thread, MapFails(t)
    PROVE  SegInv'
<1>1. alloc[t].pc = "map" /\ ~Taking(t)
  BY DEF MapFails, InAlloc, Taking
<1>2. Before(alloc[t]) = Claims[t] /\ {ldt[s] : s \in Claims[t]} = Claims[t]
  BY <1>1, ClaimIsOwn
<1>3. PICK S : S = Claims[t]
  OBVIOUS
<1>4. FreeSegments(S) /\ {ldt[s] : s \in S} = S
  BY <1>2, <1>3 DEF MapFails
<1>5. \A x : x \in {Segment(ldt[s]) : s \in S} <=> x \in {Segment(s) : s \in S}
  BY <1>3, <1>1, ClaimIsOwn
<1>6. /\ ldt' = [s \in Slot |-> IF s \in S THEN 0 ELSE ldt[s]]
      /\ mapped' = mapped \ S
      /\ pointers' = {p \in pointers : p.to \notin {Segment(s) : s \in S}}
  BY <1>4, <1>5 DEF FreeSegments
<1>7. base' = base /\ base \in FirstTile .. LastTile + 1
  BY DEF MapFails, SegInv, SegTypes
<1>8. GivesBackTile(t)
  BY <1>1, <1>3, <1>6, <1>7, SegmentsAssumption DEF GivesBackTile, MapFails
<1> QED
  BY <1>8, GivesUpKeeps

-----------------------------------------------------------------------------
(* An entry is made, or found: no entry that was there changes, and of the  *)
(* segments' slots at most the one of the tile is filled.                   *)
LEMMA EntryMade ==
    ASSUME Roomy, SegInv, NEW tile \in Stack \cup FirstTile .. LastTile \cup Others, NEW slot,
           slot = FindSelector(tile), ldt' = [ldt EXCEPT ![slot] = tile]
    PROVE  /\ slot \in Slot /\ slot # None
           /\ Good(ldt') /\ ldt'[slot] = tile
           /\ \A s \in Slot : ldt[s] # 0 => ldt'[s] = ldt[s]
           /\ \A s \in FirstTile .. LastTile : ldt'[s] = s <=> ldt[s] = s \/ s = tile
<1>1. Good(ldt) /\ Suits(ldt, tile, slot) /\ slot # None
  BY FindSelectorSuits DEF SegInv
<1>2. Good(ldt')
  BY <1>1, GoodWithEntry
<1>3. slot \in Slot /\ ldt'[slot] = tile /\ \A s \in Slot \ {slot} : ldt'[s] = ldt[s]
  BY <1>1 DEF Suits, Good
<1>4. \A s \in Slot : ldt[s] # 0 => ldt'[s] = ldt[s]
  BY <1>1, <1>3 DEF Suits
<1>5. ASSUME NEW s \in FirstTile .. LastTile PROVE ldt'[s] = s <=> ldt[s] = s \/ s = tile
  <2>1. s \in Slot /\ s # 0 /\ s \notin High
    BY SegmentsAssumption DEF Slot, High, Roomy
  <2>2. CASE s = slot
    BY <1>1, <1>3, <2>1, <2>2 DEF Suits
  <2>3. CASE s # slot
    <3>1. s # tile \/ ldt[s] = s
      <4>1. CASE slot = tile
        BY <2>3, <4>1
      <4>2. CASE slot \in High /\ tile \in Others
        BY <4>2 DEF Roomy
      <4> QED
        BY <1>1, <4>1, <4>2 DEF Suits
    <3> QED
      BY <1>3, <2>1, <2>3, <3>1
  <2> QED
    BY <2>2, <2>3
<1> QED
  BY <1>1, <1>2, <1>3, <1>4, <1>5

(* No alias and no pointer is for nothing.                                  *)
LEMMA PlacesAreSomewhere ==
    ASSUME SegInv
    PROVE  (\A p \in pieces : p.tile \in Others /\ p.tile # 0) /\ (\A p \in pointers : p.to.tile # 0)
<1>1. \A p \in pieces : p.tile \in Others /\ p.tile # 0
  BY SegmentsAssumption DEF SegInv, SegTypes, Others
<1>2. ASSUME NEW p \in pointers PROVE p.to.tile # 0
  <2>1. CASE \E tile \in FirstTile .. LastTile : p.to = Segment(tile)
    BY <2>1, SegmentsAssumption DEF Segment
  <2>2. CASE p.to \in StackPlaces
    BY <2>2, SegmentsAssumption DEF StackPlaces
  <2> QED
    BY <1>1, <2>1, <2>2 DEF SegInv, PointInv
<1> QED
  BY <1>1, <1>2

(* The rest of lxAllocSegment gives the segment the slot of its own number. *)
LEMMA TakesItsOwn ==
    ASSUME Roomy, SegInv, NEW t \in Thread, Taking(t)
    PROVE  /\ base \in FirstTile .. LastTile /\ base \in Slot /\ ldt[base] = 0
           /\ FindSelector(alloc[t].at) = base /\ alloc[t].at = base /\ base # None
<1>1. base \in FirstTile .. LastTile /\ alloc[t].at = base
  BY SegmentsAssumption DEF SegInv, SegTypes, TakeInv
<1>2. base \in Slot /\ base \notin High /\ base # None /\ base \notin Others
  BY <1>1, SegmentsAssumption DEF Slot, High, Roomy, None
<1>3. ldt[base] = 0
  BY <1>1, <1>2, NextIsNew DEF SegInv, OwnInv, Good
<1>4. Suits(ldt, base, FindSelector(base))
  BY <1>1, FindSelectorSuits DEF SegInv
<1> QED
  BY <1>1, <1>2, <1>3, <1>4 DEF Suits

(* The segment joins the block.                                             *)
Joined(t) == [alloc[t] EXCEPT !.got = @ + 1, !.first = IF alloc[t].got = 0 THEN base ELSE @,
                              !.pc = "map"]

LEMMA JoinedIsRun ==
    ASSUME SegInv, NEW t \in Thread, Taking(t),
           alloc[t].got > 0 => base = alloc[t].first + alloc[t].got
    PROVE  /\ Joined(t) \in AllocState /\ Joined(t).pc = "map"
           /\ Joined(t).got = alloc[t].got + 1 /\ Joined(t).segs = alloc[t].segs
           /\ Joined(t).huge = alloc[t].huge /\ Joined(t).tile = alloc[t].tile
           /\ Joined(t).first = Joined(t).tile /\ Joined(t).first \in Nat
           /\ FirstTile <= Joined(t).first /\ Joined(t).first + Joined(t).got = base + 1
           /\ Joined(t).got <= Joined(t).segs
           /\ Claimed(Joined(t)) = Claims[t] \cup {base}
<1> DEFINE a == alloc[t]
           b == Joined(t)
<1>1. a \in AllocState /\ a.pc = "take" /\ a.pc # "out"
  BY ClaimIsOwn DEF Taking
<1>2. base \in Nat /\ FirstTile <= base /\ FirstTile \in Nat
  BY SegmentsAssumption DEF SegInv, SegTypes
<1>3. /\ b \in AllocState /\ b.pc = "map" /\ b.got = a.got + 1 /\ b.segs = a.segs /\ b.huge = a.huge
      /\ b.tile = a.tile /\ b.first = IF a.got = 0 THEN base ELSE a.first
  <2>1. PICK x \in AllocState : x = a
    BY <1>1
  <2>2. b = [x EXCEPT !.got = x.got + 1, !.first = IF x.got = 0 THEN base ELSE x.first, !.pc = "map"]
    BY <2>1 DEF Joined
  <2>3. x.got \in Nat /\ x.first \in Int /\ (IF x.got = 0 THEN base ELSE x.first) \in Int
    BY <1>2 DEF AllocState
  <2>4. b = [pc |-> "map", segs |-> x.segs, huge |-> x.huge, got |-> x.got + 1,
             first |-> IF x.got = 0 THEN base ELSE x.first, tile |-> x.tile, at |-> x.at]
    BY <2>2 DEF AllocState
  <2> HIDE DEF b
  <2> QED
    BY <2>1, <2>3, <2>4 DEF AllocState
<1>4. /\ a.got < a.segs
      /\ a.got > 0 => a.first = a.tile /\ FirstTile <= a.first
      /\ a.got = 0 => a.tile = base
  BY <1>1 DEF SegInv, TakeInv, Taking
<1>5. a.got \in Nat /\ a.segs \in Nat /\ a.first \in Int
  BY <1>1 DEF AllocState
<1>6. Claims[t] = a.first .. a.first + a.got - 1
  BY <1>1 DEF Claims, Claimed
<1>7. Claimed(b) = b.first .. b.first + b.got - 1
  BY <1>3 DEF Claimed
<1> HIDE DEF a, b
<1>8. b.first = b.tile /\ b.first \in Nat /\ FirstTile <= b.first /\ b.first + b.got = base + 1 /\ b.got <= b.segs
  BY <1>2, <1>3, <1>4, <1>5 DEF a
<1>9. Claimed(b) = Claims[t] \cup {base}
  <2>1. CASE a.got = 0
    BY <1>2, <1>3, <1>5, <1>6, <1>7, <2>1
  <2>2. CASE a.got > 0
    <3>1. base = a.first + a.got
      BY <2>2 DEF a
    <3> QED
      BY <1>2, <1>3, <1>5, <1>6, <1>7, <2>2, <3>1
  <2> QED
    BY <1>5, <2>1, <2>2
<1> QED
  BY <1>3, <1>8, <1>9 DEF a, b

(* The segment does not follow the others of its block.                     *)
LEMMA GapKeeps ==
    ASSUME Roomy, SegInv, NEW t \in Thread, TakeSelector(t),
           alloc[t].got > 0 /\ base # alloc[t].first + alloc[t].got
    PROVE  SegInv'
<1>1. Taking(t) /\ alloc[t].pc # "out"
  BY DEF TakeSelector, InAlloc, Taking
<1>2. /\ base \in FirstTile .. LastTile /\ base \in Slot /\ ldt[base] = 0
      /\ FindSelector(alloc[t].at) = base /\ alloc[t].at = base /\ base # None
  BY <1>1, TakesItsOwn
<1>3. PICK S : S = Claims[t]
  OBVIOUS
<1>4. Before(alloc[t]) = S /\ {ldt[s] : s \in S} = S /\ \A s \in S : s < base /\ ldt[s] = s
  BY <1>1, <1>3, ClaimIsOwn
<1>5. /\ base' = base + 1
      /\ ldt' = [s \in Slot |-> IF s \in S \cup {base} THEN 0 ELSE ldt[s]]
      /\ mapped' = mapped \ ({base} \cup S)
      /\ pointers' = {p \in pointers : p.to \notin {Segment(ldt[s]) : s \in S}}
      /\ alloc' = [alloc EXCEPT ![t] = Quiet]
      /\ UNCHANGED <<pieces, alias, huge_block_segs, held>>
  BY <1>2, <1>4 DEF TakeSelector
<1>6. ldt' = [s \in Slot |-> IF s \in S THEN 0 ELSE ldt[s]]
  BY <1>2, <1>5
<1>7. \A x : x \in {Segment(ldt[s]) : s \in S} <=> x \in {Segment(s) : s \in S}
  BY <1>4
<1>8. base' \in FirstTile .. LastTile + 1 /\ base <= base'
  BY <1>2, <1>5, SegmentsAssumption
<1>9. \A u \in Thread \ {t} : ~Taking(u)
  BY <1>1 DEF SegInv, TakeInv
<1>10. GivesBackTile(t)
  BY <1>1, <1>3, <1>5, <1>6, <1>7, <1>8, <1>9 DEF GivesBackTile
<1> QED
  BY <1>10, GivesUpKeeps

(* The segment follows, and the block is whole or not: what both have.      *)
Joins(t) ==
    /\ Taking(t) /\ (alloc[t].got > 0 => base = alloc[t].first + alloc[t].got)
    /\ ldt' = [ldt EXCEPT ![base] = base]
    /\ base' = base + 1
    /\ alloc'[t] = Quiet \/ (alloc'[t] = Joined(t) /\ Joined(t).got < Joined(t).segs)
    /\ \A u \in Thread \ {t} : alloc'[u] = alloc[u]
    /\ held \subseteq held'
    /\ Apart(held', Claims') /\ Owned(held', Claims') = Owned(held, Claims) \cup {base}
    /\ UNCHANGED <<mapped, pieces, alias, pointers>>

LEMMA JoinsKeeps ==
    ASSUME Roomy, SegInv, NEW t \in Thread, Joins(t), SegTypes', HeldInv', HugeInv'
    PROVE  SegInv'
<1>1. Taking(t) /\ alloc[t].pc # "out"
  BY DEF Joins, Taking
<1>2. /\ base \in FirstTile .. LastTile /\ base \in Slot /\ ldt[base] = 0
      /\ FindSelector(base) = base
  BY <1>1, TakesItsOwn
<1>3. /\ Good(ldt') /\ \A s \in Slot : ldt[s] # 0 => ldt'[s] = ldt[s]
      /\ \A s \in FirstTile .. LastTile : ldt'[s] = s <=> ldt[s] = s \/ s = base
  BY <1>2, EntryMade DEF Joins
<1>4. \A u \in Thread \ {t} : ~Taking(u)
  BY <1>1 DEF SegInv, TakeInv
<1>5. \A u \in Thread : ~Taking(u)'
  BY <1>1, <1>4, JoinedIsRun DEF Joins, Taking, Quiet
<1>6. base \in Nat /\ base' = base + 1
  BY <1>2, SegmentsAssumption DEF Joins
<1>7. TakeInv'
  <2>1. ASSUME NEW u \in Thread, alloc'[u].pc # "out"
        PROVE  /\ alloc'[u].got < alloc'[u].segs
               /\ alloc'[u].got > 0 => /\ alloc'[u].first = alloc'[u].tile
                                       /\ FirstTile <= alloc'[u].first
                                       /\ alloc'[u].first + alloc'[u].got <= base'
    <3>1. CASE u = t
      <4>1. alloc'[u] = Joined(t) /\ Joined(t).got < Joined(t).segs
        BY <2>1, <3>1 DEF Joins, Quiet
      <4>2. /\ Joined(t).first = Joined(t).tile /\ FirstTile <= Joined(t).first
            /\ Joined(t).first + Joined(t).got = base + 1
        BY <1>1, JoinedIsRun DEF Joins
      <4>3. Joined(t).first + Joined(t).got <= base'
        BY <1>6, <4>2
      <4> QED
        BY <4>1, <4>2, <4>3
    <3>2. CASE u # t
      <4>1. alloc'[u] = alloc[u] /\ alloc[u].pc # "out"
        BY <2>1, <3>2 DEF Joins
      <4>2. alloc[u] \in AllocState
        BY <4>1, ClaimIsOwn
      <4>3. alloc[u].first \in Int /\ alloc[u].got \in Nat
        BY <4>2 DEF AllocState
      <4>4. /\ alloc[u].got < alloc[u].segs
            /\ alloc[u].got > 0 => /\ alloc[u].first = alloc[u].tile
                                   /\ FirstTile <= alloc[u].first
                                   /\ alloc[u].first + alloc[u].got <= base
        BY <4>1 DEF SegInv, TakeInv
      <4>5. alloc[u].got > 0 => alloc[u].first + alloc[u].got <= base'
        BY <1>6, <4>3, <4>4
      <4> QED
        BY <4>1, <4>4, <4>5
    <3> QED
      BY <3>1, <3>2
  <2>2. ASSUME NEW u \in Thread, alloc'[u].pc # "out", ~alloc'[u].huge PROVE alloc'[u].segs = 1
    <3>1. CASE u = t
      <4>1. alloc'[u].huge = alloc[t].huge /\ alloc'[u].segs = alloc[t].segs
        BY <1>1, <2>2, <3>1, JoinedIsRun DEF Joins, Quiet
      <4> QED
        BY <1>1, <2>2, <4>1 DEF SegInv, TakeInv
    <3>2. CASE u # t
      BY <2>2, <3>2 DEF Joins, SegInv, TakeInv
    <3> QED
      BY <3>1, <3>2
  <2> QED
    BY <1>5, <2>1, <2>2 DEF TakeInv
<1>8. OwnInv'
  <2>1. \A s : s \in mapped' <=> s \in Owned(held, Claims) \/ s = base
    BY <1>1 DEF SegInv, OwnInv, Joins
  <2>2. \A s : s \in mapped' <=> s \in Owned(held', Claims')
    BY <2>1 DEF Joins
  <2>3. \A s \in FirstTile .. LastTile : ldt'[s] = s <=> s \in Owned(held', Claims')
    BY <1>3 DEF SegInv, OwnInv, Joins
  <2> QED
    BY <1>5, <2>2, <2>3 DEF OwnInv, Joins
<1>9. PointInv'
  <2>1. pieces' = pieces /\ alias' = alias /\ pointers' = pointers
    BY DEF Joins
  <2>2. \A p \in pieces : NeedsAlias(p) => alias[p] \in Slot /\ ldt'[alias[p]] = p.tile
    BY <1>3, PlacesAreSomewhere DEF SegInv, PointInv
  <2>3. \A p \in pointers : p.slot \in Slot /\ ldt'[p.slot] = p.to.tile
    BY <1>3, PlacesAreSomewhere DEF SegInv, PointInv
  <2>4. \A tile : InHeld(tile) => InHeld(tile)'
    BY DEF InHeld, Joins
  <2> QED
    BY <2>1, <2>2, <2>3, <2>4 DEF SegInv, PointInv
<1> QED
  BY <1>3, <1>7, <1>8, <1>9 DEF SegInv

LEMMA FollowsKeeps ==
    ASSUME Roomy, SegInv, NEW t \in Thread, TakeSelector(t),
           alloc[t].got > 0 => base = alloc[t].first + alloc[t].got
    PROVE  SegInv'
<1> DEFINE b == Joined(t)
           done == b.got = b.segs
           g == [first |-> b.first, segs |-> alloc[t].segs, tile |-> alloc[t].tile]
<1>1. Taking(t) /\ alloc[t].pc # "out" /\ ~outOfSlots
  BY DEF TakeSelector, InAlloc, Taking
<1>2. /\ base \in FirstTile .. LastTile /\ base \in Slot /\ ldt[base] = 0
      /\ FindSelector(alloc[t].at) = base /\ alloc[t].at = base /\ base # None
  BY <1>1, TakesItsOwn
<1>3. /\ base' = base + 1
      /\ ldt' = [ldt EXCEPT ![base] = base]
      /\ alloc' = [alloc EXCEPT ![t] = IF done THEN Quiet ELSE b]
      /\ huge_block_segs' = IF done /\ alloc[t].huge
                            THEN [huge_block_segs EXCEPT ![b.first] = alloc[t].segs]
                            ELSE huge_block_segs
      /\ held' = IF done THEN held \cup {g} ELSE held
      /\ UNCHANGED <<mapped, pieces, alias, pointers>>
  BY <1>2 DEF TakeSelector, Joined
<1>4. /\ b \in AllocState /\ b.pc = "map"
      /\ b.got = alloc[t].got + 1 /\ b.segs = alloc[t].segs
      /\ b.huge = alloc[t].huge /\ b.tile = alloc[t].tile
      /\ b.first = b.tile /\ b.first \in Nat
      /\ FirstTile <= b.first /\ b.first + b.got = base + 1
      /\ b.got <= b.segs
      /\ Claimed(b) = Claims[t] \cup {base}
  BY <1>1, JoinedIsRun
<1>5. b.got \in Nat \ {0} /\ b.segs \in Nat \ {0}
  BY <1>1, <1>4, ClaimIsOwn DEF AllocState
<1>6. alloc'[t] = (IF done THEN Quiet ELSE b) /\ \A u \in Thread \ {t} : alloc'[u] = alloc[u]
  BY <1>3 DEF SegInv, SegTypes
<1>7. /\ g.first = b.first /\ g.segs = b.segs /\ g.tile = b.tile
      /\ g \in [first : Nat, segs : Nat \ {0}, tile : Nat]
  BY <1>4, <1>5 DEF AllocState
<1> HIDE DEF b, g
<1>8. base' \in FirstTile .. LastTile + 1 /\ base \in Nat
  BY <1>2, <1>3, SegmentsAssumption
<1>9. b.first \in Slot
  BY <1>2, <1>4, <1>5, SegmentsAssumption DEF Slot, Roomy
<1>10. SegTypes'
  <2>1. alloc' \in [Thread -> {Quiet} \cup AllocState]
    BY <1>3, <1>4 DEF SegInv, SegTypes
  <2>2. held' \subseteq [first : Nat, segs : Nat \ {0}, tile : Nat]
    BY <1>3, <1>7 DEF SegInv, SegTypes
  <2>3. huge_block_segs' \in [Slot -> Nat]
    BY <1>3, <1>4, <1>5 DEF SegInv, SegTypes
  <2> QED
    BY <1>3, <1>8, <2>1, <2>2, <2>3 DEF SegInv, SegTypes
<1>11. done => Run(g) = Claims[t] \cup {base}
  BY <1>4, <1>7 DEF Run, Claimed
<1>12. Apart(held', Claims') /\ Owned(held', Claims') = Owned(held, Claims) \cup {base}
  <2>1. PICK C : C = Claims
    OBVIOUS
  <2>2. PICK H : H = held
    OBVIOUS
  <2>3. PICK c : c = base
    OBVIOUS
  <2>4. Apart(H, C) /\ c \notin Owned(H, C)
    BY <2>1, <2>2, <2>3, NextIsNew DEF SegInv, OwnInv
  <2>5. PICK D : D = [u \in Thread |-> IF u = t THEN C[t] \cup {c} ELSE C[u]]
    OBVIOUS
  <2>6. D[t] = C[t] \cup {c} /\ \A u \in Thread \ {t} : D[u] = C[u]
    BY <2>5
  <2>7. Apart(H, D) /\ Owned(H, D) = Owned(H, C) \cup {c}
    BY <2>4, <2>6, ClaimGrown
  <2>8. \A u \in Thread \ {t} : Claims'[u] = C[u]
    BY <1>6, <2>1 DEF Claims
  <2>9. CASE done
    <3>1. Claims'[t] = {}
      BY <1>6, <2>9 DEF Claims, Claimed, Quiet
    <3>2. PICK h : h = g
      OBVIOUS
    <3>3. Run(h) = D[t]
      BY <1>11, <2>1, <2>3, <2>6, <2>9, <3>2
    <3>4. PICK E : E = Claims'
      OBVIOUS
    <3>5. E[t] = {} /\ \A u \in Thread \ {t} : E[u] = D[u]
      BY <2>6, <2>8, <3>1, <3>4
    <3>6. Apart(H \cup {h}, E) /\ Owned(H \cup {h}, E) = Owned(H, D)
      BY <2>7, <3>3, <3>5, BlockHanded
    <3>7. held' = H \cup {h}
      BY <1>3, <2>2, <2>9, <3>2
    <3> QED
      BY <2>1, <2>2, <2>3, <2>7, <3>4, <3>6, <3>7
  <2>10. CASE ~done
    <3>1. Claims'[t] = D[t]
      BY <1>4, <1>6, <2>1, <2>3, <2>6, <2>10 DEF Claims
    <3>2. Claims' = D
      <4>1. Claims' = [u \in Thread |-> Claims'[u]] /\ D = [u \in Thread |-> D[u]]
        BY <2>5 DEF Claims
      <4>2. \A u \in Thread : Claims'[u] = D[u]
        BY <2>6, <2>8, <3>1
      <4> HIDE DEF Claims
      <4> QED
        BY <4>1, <4>2
    <3>3. held' = H
      BY <1>3, <2>2, <2>10
    <3> QED
      BY <2>1, <2>2, <2>3, <2>7, <3>2, <3>3
  <2> QED
    BY <2>9, <2>10
<1>13. g.first \notin {h.first : h \in held}
  <2>1. SUFFICES ASSUME NEW h \in held, h.first = g.first PROVE FALSE
    OBVIOUS
  <2>2. h.first \in Nat /\ h.segs \in Nat \ {0} /\ h.first + h.segs <= base
    BY DEF SegInv, SegTypes, HeldInv
  <2>3. h.first \in Run(h)
    BY <2>2 DEF Run
  <2>4. CASE alloc[t].got = 0
    BY <1>4, <1>5, <1>7, <1>8, <2>1, <2>2, <2>4
  <2>5. CASE alloc[t].got > 0
    <3>1. h.first \in Claims[t] \cup {base} /\ h.first # base
      BY <1>4, <1>5, <1>7, <1>8, <2>1, <2>2, <2>5 DEF Claimed
    <3>2. Apart(held, Claims)
      BY DEF SegInv, OwnInv
    <3> QED
      BY <2>3, <3>1, <3>2 DEF Apart
  <2>6. alloc[t].got \in Nat
    BY <1>1, ClaimIsOwn DEF AllocState
  <2> QED
    BY <2>4, <2>5, <2>6
<1>14. HeldInv' /\ HugeInv'
  <2>1. ASSUME NEW h \in held PROVE
          /\ h.first = h.tile /\ FirstTile <= h.first /\ h.first + h.segs <= base'
          /\ huge_block_segs'[h.first] = huge_block_segs[h.first]
          /\ huge_block_segs[h.first] = h.segs \/ (h.segs = 1 /\ huge_block_segs[h.first] = 0)
    <3>1. /\ h.first = h.tile /\ FirstTile <= h.first /\ h.first + h.segs <= base
          /\ h.first \in Nat /\ h.segs \in Nat
          /\ huge_block_segs[h.first] = h.segs \/ (h.segs = 1 /\ huge_block_segs[h.first] = 0)
      BY DEF SegInv, SegTypes, HeldInv
    <3>2. h.first # b.first
      BY <1>7, <1>13
    <3>3. huge_block_segs'[h.first] = huge_block_segs[h.first]
      BY <1>3, <3>2 DEF SegInv, SegTypes
    <3> QED
      BY <1>3, <1>8, <3>1, <3>3
  <2>2. huge_block_segs[b.first] = 0
    BY <1>7, <1>9, <1>13 DEF SegInv, HugeInv
  <2>3. huge_block_segs \in [Slot -> Nat]
    BY DEF SegInv, SegTypes
  <2>4. done => /\ g.first = g.tile /\ FirstTile <= g.first /\ g.first + g.segs <= base'
                /\ huge_block_segs'[g.first] = IF alloc[t].huge THEN g.segs ELSE 0
    BY <1>3, <1>4, <1>5, <1>7, <1>8, <1>9, <2>2, <2>3
  <2>5. ~alloc[t].huge => g.segs = 1
    BY <1>1, <1>4, <1>7 DEF SegInv, TakeInv
  <2>6. HeldInv'
    <3>1. ASSUME NEW h \in held' PROVE
            /\ h.first = h.tile /\ FirstTile <= h.first /\ h.first + h.segs <= base'
            /\ huge_block_segs'[h.first] = h.segs \/ (h.segs = 1 /\ huge_block_segs'[h.first] = 0)
      <4>1. CASE h \in held
        BY <2>1, <4>1
      <4>2. CASE done /\ h = g
        BY <2>4, <2>5, <4>2
      <4> QED
        BY <1>3, <3>1, <4>1, <4>2
    <3> QED
      BY <3>1 DEF HeldInv
  <2>7. HugeInv'
    <3>1. ASSUME NEW s \in Slot, huge_block_segs'[s] # 0 PROVE \E h \in held' : h.first = s
      <4>1. CASE done /\ s = b.first
        BY <1>3, <1>7, <4>1
      <4>2. CASE ~(done /\ s = b.first)
        <5>1. huge_block_segs'[s] = huge_block_segs[s]
          BY <1>3, <2>3, <4>2
        <5>2. \E h \in held : h.first = s
          BY <3>1, <5>1 DEF SegInv, HugeInv
        <5> QED
          BY <1>3, <5>2
      <4> QED
        BY <4>1, <4>2
    <3> QED
      BY <3>1 DEF HugeInv
  <2> QED
    BY <2>6, <2>7
<1>15. Joins(t)
  <2>1. alloc'[t] = Quiet \/ (alloc'[t] = b /\ b.got < b.segs)
    BY <1>4, <1>5, <1>6
  <2>2. alloc[t].got > 0 => base = alloc[t].first + alloc[t].got
    OBVIOUS
  <2> QED
    BY <1>1, <1>3, <1>6, <1>12, <2>1, <2>2 DEF Joins, b
<1> QED
  BY <1>10, <1>14, <1>15, JoinsKeeps

-----------------------------------------------------------------------------
(* Dos16FreeSeg frees a block, the whole of it and nothing else.            *)
LEMMA FreeKeeps ==
    ASSUME Roomy, SegInv, NEW t \in Thread, DosFreeSeg(t)
    PROVE  SegInv'
<1>1. PICK h \in held :
        LET segs == huge_block_segs[h.first] IN
        /\ FreeSegments(IF segs # 0 THEN h.first .. h.first + segs - 1 ELSE {h.first})
        /\ huge_block_segs' = [huge_block_segs EXCEPT ![h.first] = 0]
        /\ held' = held \ {h}
        /\ UNCHANGED <<base, pieces, alias, alloc, overlapped, outOfSlots>>
  BY DEF DosFreeSeg
<1>2. /\ h.first \in Nat /\ h.segs \in Nat \ {0} /\ h.first = h.tile
      /\ FirstTile <= h.first /\ h.first + h.segs <= base
      /\ huge_block_segs[h.first] = h.segs \/ (h.segs = 1 /\ huge_block_segs[h.first] = 0)
  BY DEF SegInv, SegTypes, HeldInv
<1>3. PICK S : S = Run(h)
  OBVIOUS
<1>4. (IF huge_block_segs[h.first] # 0 THEN h.first .. h.first + huge_block_segs[h.first] - 1 ELSE {h.first}) = S
  <2>1. CASE huge_block_segs[h.first] = h.segs
    BY <1>2, <1>3, <2>1 DEF Run
  <2>2. CASE h.segs = 1 /\ huge_block_segs[h.first] = 0
    <3>1. \A i \in Nat : i .. i + 1 - 1 = {i}
      OBVIOUS
    <3> QED
      BY <1>2, <1>3, <2>2, <3>1 DEF Run
  <2> QED
    BY <1>2, <2>1, <2>2
<1>5. FreeSegments(S)
  BY <1>1, <1>4
<1>6. base \in Nat /\ base <= LastTile + 1
  BY SegmentsAssumption DEF SegInv, SegTypes
<1>7. S \in SUBSET (FirstTile .. LastTile) /\ \A s \in S : s < base
  BY <1>2, <1>3, <1>6, SegmentsAssumption DEF Run
<1>8. \A s \in S : ldt[s] = s
  BY <1>3, <1>7, InOwned DEF SegInv, OwnInv
<1>9. /\ ldt' = [s \in Slot |-> IF s \in S THEN 0 ELSE ldt[s]]
      /\ \A s : s \in mapped' <=> s \in mapped \ S
      /\ pointers' \subseteq {p \in pointers : p.to \notin {Segment(s) : s \in S}}
  <2>1. {ldt[s] : s \in S} = S
    BY <1>8
  <2>2. \A x : x \in {Segment(ldt[s]) : s \in S} <=> x \in {Segment(s) : s \in S}
    BY <1>8
  <2> QED
    BY <1>5, <2>1, <2>2 DEF FreeSegments
<1>10. Claims' = Claims /\ \A u \in Thread : Taking(u)' <=> Taking(u)
  BY <1>1 DEF Claims, Taking
<1>11. Apart(held', Claims) /\ Owned(held', Claims) = Owned(held, Claims) \ S
  BY <1>1, <1>3, BlockFreed DEF SegInv, OwnInv
<1>12. SegTypes'
  BY <1>1 DEF SegInv, SegTypes
<1>13. TakeInv'
  BY <1>1 DEF SegInv, TakeInv, Taking
<1>14. ASSUME NEW g \in held, g # h PROVE g.first # h.first
  <2>1. g.first \in Nat /\ g.segs \in Nat \ {0}
    BY DEF SegInv, SegTypes
  <2>2. g.first \in Run(g) /\ h.first \in Run(h)
    BY <1>2, <2>1 DEF Run
  <2>3. Run(g) \cap Run(h) = {}
    BY <1>14 DEF SegInv, OwnInv, Apart
  <2> QED
    BY <2>2, <2>3
<1>15. HeldInv'
  BY <1>1, <1>14 DEF SegInv, SegTypes, HeldInv
<1>16. HugeInv'
  <2>1. ASSUME NEW s \in Slot, huge_block_segs'[s] # 0 PROVE \E g \in held' : g.first = s
    <3>1. huge_block_segs \in [Slot -> Nat]
      BY DEF SegInv, SegTypes
    <3>2. s # h.first /\ huge_block_segs[s] # 0
      BY <1>1, <2>1, <3>1
    <3>3. PICK g \in held : g.first = s
      BY <3>2 DEF SegInv, HugeInv
    <3> QED
      BY <1>1, <3>2, <3>3
  <2> QED
    BY <2>1 DEF HugeInv
<1>17. OwnInv'
  <2>1. \A s \in FirstTile .. LastTile : s \in Slot /\ s # 0
    BY SegmentsAssumption DEF Slot, Roomy
  <2>2. \A s \in FirstTile .. LastTile : ldt'[s] = s <=> s \in Owned(held', Claims)
    BY <1>9, <1>11, <2>1 DEF SegInv, OwnInv
  <2>3. \A s : s \in mapped' <=> s \in Owned(held', Claims) \/ (s = base /\ \E u \in Thread : Taking(u))
    <3>1. base \notin S
      BY <1>6, <1>7
    <3> QED
      BY <1>9, <1>11, <3>1 DEF SegInv, OwnInv
  <2>4. base' = base
    BY <1>1
  <2> QED
    BY <1>10, <1>11, <2>2, <2>3, <2>4 DEF OwnInv
<1>18. Good(ldt') /\ PointInv'
  <2>1. \A tile \in (FirstTile .. LastTile) \ S : InHeld(tile) => InHeld(tile)'
    BY <1>1, <1>3 DEF InHeld
  <2>2. pieces' = pieces /\ alias' = alias
    BY <1>1
  <2> QED
    BY <1>7, <1>8, <1>9, <2>1, <2>2, OthersSurvive
<1> QED
  BY <1>12, <1>13, <1>15, <1>16, <1>17, <1>18 DEF SegInv

(* An entry is made or found for an address, a library or other memory:     *)
(* what the segments are does not change.                                   *)
LEMMA EntryKeeps ==
    ASSUME Roomy, SegInv, NEW tile \in Stack \cup FirstTile .. LastTile \cup Others, NEW slot,
           slot = FindSelector(tile), ldt' = [ldt EXCEPT ![slot] = tile],
           tile \in FirstTile .. LastTile => tile \in Owned(held, Claims),
           UNCHANGED <<base, mapped, huge_block_segs, held, alloc>>,
           SegTypes', PointInv'
    PROVE  SegInv'
<1>1. /\ Good(ldt')
      /\ \A s \in FirstTile .. LastTile : ldt'[s] = s <=> ldt[s] = s \/ s = tile
  BY EntryMade
<1>2. Claims' = Claims /\ \A u \in Thread : Taking(u)' <=> Taking(u)
  BY DEF Claims, Taking
<1>3. TakeInv' /\ HeldInv' /\ HugeInv'
  BY DEF SegInv, TakeInv, HeldInv, HugeInv, Taking
<1>4. OwnInv'
  BY <1>1, <1>2 DEF SegInv, OwnInv
<1> QED
  BY <1>1, <1>3, <1>4 DEF SegInv

(* A 16:16 pointer is made.                                                 *)
LEMMA ConvertKeeps ==
    ASSUME Roomy, SegInv, NEW t \in Thread, Convert32to1616(t)
    PROVE  SegInv'
<1>1. PICK to \in {Segment(tile) : tile \in TilesHeld} \cup pieces \cup StackPlaces :
        /\ ldt' = [ldt EXCEPT ![FindSelector(to.tile)] = to.tile]
        /\ pointers' = pointers \cup {[slot |-> FindSelector(to.tile), to |-> to]}
        /\ UNCHANGED <<base, mapped, pieces, alias, huge_block_segs, held, alloc, overlapped, outOfSlots>>
  BY DEF Convert32to1616, StackPlaces
<1>2. /\ \/ \E tile \in FirstTile .. LastTile : InHeld(tile) /\ to = Segment(tile)
         \/ to \in pieces
         \/ to \in StackPlaces
      /\ to.tile \in Stack \cup FirstTile .. LastTile \cup Others
      /\ to.tile \in FirstTile .. LastTile => to.tile \in Owned(held, Claims)
  <2>1. CASE to \in {Segment(tile) : tile \in TilesHeld}
    <3>1. PICK tile \in TilesHeld : to = Segment(tile)
      BY <2>1
    <3>2. PICK h \in held : tile \in h.tile .. h.tile + h.segs - 1
      BY <3>1 DEF TilesHeld
    <3>3. /\ h.first \in Nat /\ h.segs \in Nat /\ h.first = h.tile
          /\ FirstTile <= h.first /\ h.first + h.segs <= base /\ base \in Nat /\ base <= LastTile + 1
      BY SegmentsAssumption DEF SegInv, SegTypes, HeldInv
    <3>4. tile \in FirstTile .. LastTile
      BY <3>2, <3>3, SegmentsAssumption
    <3>5. tile \in Run(h)
      BY <3>2, <3>3 DEF Run
    <3>6. tile \in Owned(held, Claims) /\ InHeld(tile)
      BY <3>5, InOwned DEF InHeld
    <3>7. to.tile = tile
      BY <3>1 DEF Segment
    <3> QED
      BY <3>1, <3>4, <3>6, <3>7
  <2>2. CASE to \in pieces
    BY <2>2, PlacesAreSomewhere DEF Roomy
  <2>3. CASE to \in StackPlaces
    <3>1. to.tile \in Stack
      BY <2>3 DEF StackPlaces
    <3>2. to.tile \notin FirstTile .. LastTile
      BY <3>1, SegmentsAssumption
    <3> QED
      BY <2>3, <3>1, <3>2
  <2> QED
    BY <1>1, <2>1, <2>2, <2>3
<1>3. PICK slot : slot = FindSelector(to.tile)
  OBVIOUS
<1>4. PICK tile : tile = to.tile
  OBVIOUS
<1>5. tile \in Stack \cup FirstTile .. LastTile \cup Others /\ slot = FindSelector(tile)
      /\ ldt' = [ldt EXCEPT ![slot] = tile]
  BY <1>1, <1>2, <1>3, <1>4
<1>6. /\ slot \in Slot /\ ldt'[slot] = tile
      /\ \A s \in Slot : ldt[s] # 0 => ldt'[s] = ldt[s]
  BY <1>5, EntryMade
<1>7. SegTypes'
  BY <1>1 DEF SegInv, SegTypes
<1>8. PointInv'
  <2>1. \A x : InHeld(x)' <=> InHeld(x)
    BY <1>1 DEF InHeld
  <2>2. pieces' = pieces /\ alias' = alias
    BY <1>1
  <2>3. \A p \in pieces : NeedsAlias(p) => alias[p] \in Slot /\ ldt'[alias[p]] = p.tile
    BY <1>6, PlacesAreSomewhere DEF SegInv, PointInv
  <2>4. \A p \in pointers : p.slot \in Slot /\ ldt'[p.slot] = p.to.tile
    BY <1>6, PlacesAreSomewhere DEF SegInv, PointInv
  <2>5. PICK new : new = [slot |-> slot, to |-> to]
    OBVIOUS
  <2>6. new.slot \in Slot /\ ldt'[new.slot] = new.to.tile /\ new.to = to
    BY <1>4, <1>6, <2>5
  <2>7. pointers' = pointers \cup {new}
    BY <1>1, <1>3, <2>5
  <2> QED
    BY <1>2, <2>1, <2>2, <2>3, <2>4, <2>6, <2>7 DEF SegInv, PointInv
<1> QED
  BY <1>1, <1>2, <1>4, <1>5, <1>7, <1>8, EntryKeeps

(* Memory comes, with an alias where it needs one.                          *)
LEMMA GetKeeps ==
    ASSUME Roomy, SegInv, NEW t \in Thread, GetMemory(t)
    PROVE  SegInv'
<1>1. PICK p \in Piece \ pieces :
        /\ pieces' = pieces \cup {p}
        /\ alias' = IF NeedsAlias(p) THEN [alias EXCEPT ![p] = FindSelector(p.tile)] ELSE alias
        /\ ldt' = IF NeedsAlias(p) THEN [ldt EXCEPT ![FindSelector(p.tile)] = p.tile] ELSE ldt
        /\ UNCHANGED <<base, mapped, huge_block_segs, held, alloc, pointers, overlapped, outOfSlots>>
  BY DEF GetMemory
<1>2. p.tile \in Others /\ p.tile \notin FirstTile .. LastTile
  BY DEF Others, Roomy
<1>3. \A x : InHeld(x)' <=> InHeld(x)
  BY <1>1 DEF InHeld
<1>4. CASE NeedsAlias(p)
  <2>1. PICK slot : slot = FindSelector(p.tile)
    OBVIOUS
  <2>2. ldt' = [ldt EXCEPT ![slot] = p.tile]
    BY <1>1, <1>4, <2>1
  <2>3. /\ slot \in Slot /\ ldt'[slot] = p.tile
        /\ \A s \in Slot : ldt[s] # 0 => ldt'[s] = ldt[s]
    <3>1. PICK tile \in Others : tile = p.tile
      BY <1>2
    <3>2. slot = FindSelector(tile) /\ ldt' = [ldt EXCEPT ![slot] = tile]
      BY <2>1, <2>2, <3>1
    <3>3. slot \in Slot /\ ldt'[slot] = tile /\ \A s \in Slot : ldt[s] # 0 => ldt'[s] = ldt[s]
      BY <3>2, EntryMade
    <3> QED
      BY <3>1, <3>3
  <2>4. alias' = [alias EXCEPT ![p] = slot]
    BY <1>1, <1>4, <2>1
  <2>5. alias'[p] = slot /\ \A q \in pieces : alias'[q] = alias[q]
    BY <2>4 DEF SegInv, SegTypes
  <2>6. SegTypes'
    BY <1>1, <2>3, <2>4 DEF SegInv, SegTypes, Slot
  <2>7. PointInv'
    <3>1. \A q \in pieces' : NeedsAlias(q) => alias'[q] \in Slot /\ ldt'[alias'[q]] = q.tile
      BY <1>1, <2>3, <2>5, PlacesAreSomewhere DEF SegInv, PointInv
    <3>2. \A q \in pointers : q.slot \in Slot /\ ldt'[q.slot] = q.to.tile
      BY <2>3, PlacesAreSomewhere DEF SegInv, PointInv
    <3> QED
      BY <1>1, <1>3, <3>1, <3>2 DEF SegInv, PointInv
  <2> QED
    BY <1>1, <1>2, <2>1, <2>2, <2>6, <2>7, EntryKeeps
<1>5. CASE ~NeedsAlias(p)
  <2>1. Claims' = Claims /\ \A u \in Thread : Taking(u)' <=> Taking(u)
    BY <1>1 DEF Claims, Taking
  <2>2. ldt' = ldt /\ alias' = alias
    BY <1>1, <1>5
  <2>3. SegTypes' /\ TakeInv' /\ HeldInv' /\ HugeInv'
    BY <1>1, <2>2 DEF SegInv, SegTypes, TakeInv, HeldInv, HugeInv, Taking
  <2>4. OwnInv'
    BY <1>1, <2>1, <2>2 DEF SegInv, OwnInv
  <2>5. PointInv'
    BY <1>1, <1>3, <1>5, <2>2 DEF SegInv, PointInv
  <2> QED
    BY <2>2, <2>3, <2>4, <2>5 DEF SegInv
<1> QED
  BY <1>4, <1>5

(* Memory goes, and its alias.                                              *)
LEMMA LoseKeeps ==
    ASSUME Roomy, SegInv, NEW t \in Thread, LoseMemory(t)
    PROVE  SegInv'
<1>1. PICK p \in pieces :
        /\ pieces' = pieces \ {p}
        /\ alias' = [alias EXCEPT ![p] = None]
        /\ ldt' = IF NeedsAlias(p) THEN [ldt EXCEPT ![alias[p]] = 0] ELSE ldt
        /\ pointers' = {q \in pointers : q.to # p}
        /\ UNCHANGED <<base, mapped, huge_block_segs, held, alloc, overlapped, outOfSlots>>
  BY DEF LoseMemory
<1>2. p \in Piece /\ p.tile \in Others /\ p.tile # 0 /\ p.tile \notin FirstTile .. LastTile /\ p.tile \notin Stack
  BY PlacesAreSomewhere DEF SegInv, SegTypes, Roomy
<1>3. Good(ldt) /\ pieces \subseteq Piece
  BY DEF SegInv, SegTypes
<1>4. PICK S : S = IF NeedsAlias(p) THEN {alias[p]} ELSE {}
  OBVIOUS
<1>5. /\ \A s \in S : s \in Slot /\ ldt[s] = p.tile
      /\ ldt' = [s \in Slot |-> IF s \in S THEN 0 ELSE ldt[s]]
  BY <1>1, <1>3, <1>4 DEF SegInv, PointInv, Good
<1>6. S \in SUBSET Slot /\ S \cap Stack = {}
  BY <1>2, <1>3, <1>5 DEF Good
<1>7. Good(ldt')
  BY <1>3, <1>5, <1>6, GoodWithout
<1>8. \A s \in Slot : ldt[s] # p.tile => ldt'[s] = ldt[s]
  BY <1>5
<1>9. \A s \in FirstTile .. LastTile : ldt'[s] = s <=> ldt[s] = s
  <2>1. \A s \in FirstTile .. LastTile : s \in Slot /\ s # 0 /\ s # p.tile
    BY <1>2, SegmentsAssumption DEF Slot, Roomy
  <2> QED
    BY <1>5, <2>1
<1>10. Claims' = Claims /\ \A u \in Thread : Taking(u)' <=> Taking(u)
  BY <1>1 DEF Claims, Taking
<1>11. SegTypes' /\ TakeInv' /\ HeldInv' /\ HugeInv'
  <2>1. None \in Int
    BY DEF None
  <2> QED
    BY <1>1, <2>1 DEF SegInv, SegTypes, TakeInv, HeldInv, HugeInv, Taking
<1>12. OwnInv'
  BY <1>1, <1>9, <1>10 DEF SegInv, OwnInv
<1>13. PointInv'
  <2>1. \A x : InHeld(x)' <=> InHeld(x)
    BY <1>1 DEF InHeld
  <2>2. ASSUME NEW q \in pieces', NeedsAlias(q) PROVE alias'[q] \in Slot /\ ldt'[alias'[q]] = q.tile
    <3>1. q \in pieces /\ q \in Piece /\ q # p /\ alias'[q] = alias[q]
      BY <1>1, <1>3, <2>2 DEF SegInv, SegTypes
    <3>2. alias[q] \in Slot /\ ldt[alias[q]] = q.tile /\ q.tile # p.tile
      BY <1>2, <2>2, <3>1 DEF SegInv, PointInv, Roomy
    <3> QED
      BY <1>8, <3>1, <3>2
  <2>3. ASSUME NEW q \in pointers' PROVE q.slot \in Slot /\ ldt'[q.slot] = q.to.tile /\ q \in pointers /\ q.to # p
    <3>1. q \in pointers /\ q.to # p /\ q.slot \in Slot /\ ldt[q.slot] = q.to.tile
      BY <1>1, <2>3 DEF SegInv, PointInv
    <3>2. q.to.tile # p.tile
      <4>1. CASE \E tile \in FirstTile .. LastTile : q.to = Segment(tile)
        BY <1>2, <4>1 DEF Segment
      <4>2. CASE q.to \in pieces
        BY <1>2, <1>3, <3>1, <4>2 DEF Roomy
      <4>3. CASE q.to \in StackPlaces
        BY <1>2, <4>3 DEF StackPlaces
      <4> QED
        BY <3>1, <4>1, <4>2, <4>3 DEF SegInv, PointInv
    <3> QED
      BY <1>8, <3>1, <3>2
  <2>4. \A q \in pointers' :
          \/ \E tile \in FirstTile .. LastTile : InHeld(tile)' /\ q.to = Segment(tile)
          \/ q.to \in pieces'
          \/ q.to \in StackPlaces
    BY <1>1, <2>1, <2>3 DEF SegInv, PointInv
  <2> QED
    BY <2>2, <2>3, <2>4 DEF PointInv
<1> QED
  BY <1>7, <1>11, <1>12, <1>13 DEF SegInv

-----------------------------------------------------------------------------
LEMMA SegmentsInvStep == Roomy /\ SegmentsInv /\ [SegNext]_segVars => SegmentsInv'
<1> SUFFICES ASSUME Roomy, SegmentsInv, [SegNext]_segVars PROVE SegmentsInv'
  OBVIOUS
<1>1. CASE UNCHANGED segVars
  BY <1>1 DEF segVars, SegmentsInv, SegInv, SegTypes, Good, TakeInv, HeldInv, HugeInv, OwnInv, PointInv,
              Claims, Taking, InHeld
<1>2. CASE SegNext
  <2>1. PICK t \in Thread :
          \/ DosAllocSeg(t) \/ DosAllocHuge(t) \/ MapSegment(t) \/ MapFails(t) \/ TakeSelector(t)
          \/ DosFreeSeg(t) \/ Convert32to1616(t) \/ GetMemory(t) \/ LoseMemory(t)
    BY <1>2 DEF SegNext
  <2>2. overlapped' \in BOOLEAN /\ (overlapped => overlapped')
    <3>1. overlapped \in BOOLEAN
      BY DEF SegmentsInv
    <3>2. CASE MapSegment(t)
      BY <3>1, <3>2, Zenon DEF MapSegment
    <3>3. CASE ~MapSegment(t)
      <4>1. overlapped' = overlapped
        BY <2>1, <3>3 DEF DosAllocSeg, DosAllocHuge, Begin, MapFails, TakeSelector, DosFreeSeg,
                          Convert32to1616, GetMemory, LoseMemory
      <4> QED
        BY <3>1, <4>1
    <3> QED
      BY <3>2, <3>3
  <2>3. ASSUME ~overlapped' PROVE SegInv'
    <3>1. SegInv
      BY <2>2, <2>3 DEF SegmentsInv
    <3>2. CASE DosAllocSeg(t)
      <4>1. Begin(t, 1, FALSE)
        BY <3>2 DEF DosAllocSeg
      <4>2. 1 \in Nat \ {0}
        OBVIOUS
      <4> QED
        BY <3>1, <4>1, <4>2, BeginKeeps
    <3>3. CASE DosAllocHuge(t)
      <4>1. PICK segs \in HugeSizes : Begin(t, segs, TRUE)
        BY <3>3 DEF DosAllocHuge
      <4>2. segs \in Nat \ {0}
        BY SegmentsAssumption
      <4> QED
        BY <3>1, <4>1, <4>2, BeginKeeps
    <3>4. CASE MapSegment(t)
      BY <2>3, <3>1, <3>4, MapKeeps
    <3>5. CASE MapFails(t)
      BY <3>1, <3>5, MapFailsKeeps
    <3>6. CASE TakeSelector(t)
      <4>1. CASE alloc[t].got > 0 /\ base # alloc[t].first + alloc[t].got
        BY <3>1, <3>6, <4>1, GapKeeps
      <4>2. CASE alloc[t].got > 0 => base = alloc[t].first + alloc[t].got
        BY <3>1, <3>6, <4>2, FollowsKeeps
      <4> QED
        BY <4>1, <4>2
    <3>7. CASE DosFreeSeg(t)
      BY <3>1, <3>7, FreeKeeps
    <3>8. CASE Convert32to1616(t)
      BY <3>1, <3>8, ConvertKeeps
    <3>9. CASE GetMemory(t)
      BY <3>1, <3>9, GetKeeps
    <3>10. CASE LoseMemory(t)
      BY <3>1, <3>10, LoseKeeps
    <3> QED
      BY <2>1, <3>2, <3>3, <3>4, <3>5, <3>6, <3>7, <3>8, <3>9, <3>10
  <2> QED
    BY <2>2, <2>3 DEF SegmentsInv
<1> QED
  BY <1>1, <1>2

(* Blocks are whole, what is freed is all freed, and a 16:16 pointer into a *)
(* block, a library or the stack is good for as long as the memory lives,   *)
(* however the calls of the threads mix, unless two of them met between the *)
(* mmap of lxAllocSegment and the rest of it.                               *)
THEOREM SegmentsWork == Roomy => (SegSpec => []SegmentsAreSound)
<1>1. Roomy /\ SegInit => SegmentsInv
  BY SegmentsInvInit
<1>2. Roomy /\ SegmentsInv /\ [SegNext]_segVars => SegmentsInv'
  BY SegmentsInvStep
<1>3. SegmentsInv => SegmentsAreSound
  <2>1. CASE overlapped
    BY <2>1 DEF SegmentsAreSound, HugeIsContiguous, NoSegmentLeaks, PointersStayGood
  <2>2. CASE ~overlapped
    BY <2>2, SegInvSound DEF SegmentsInv
  <2> QED
    BY <2>1, <2>2
<1> QED
  <2> SUFFICES ASSUME Roomy PROVE SegSpec => []SegmentsAreSound
    OBVIOUS
  <2>1. SegInit => SegmentsInv
    BY <1>1
  <2>2. SegmentsInv /\ [SegNext]_segVars => SegmentsInv'
    BY <1>2
  <2> QED
    BY <1>3, <2>1, <2>2, PTL DEF SegSpec

-----------------------------------------------------------------------------
(* What a structure holds, and a call in progress.                          *)
Structure == [name : Name \cup {"exe"}, refcount : Nat, dependencies : Seq(Module \cup {Null}),
              native : BOOLEAN, life : {"unused", "new", "in", "up", "down"}]
Call == [at : {"name", "module", "init", "failed", "unref", "free", "terminate"},
         name : Name \cup {"exe"}, depth : 0 .. MaxDepth + 1, mod : Module \cup {Null}, i : Nat]

TableTypes ==
    /\ mod \in [Module -> Structure]
    /\ loaded_modules \in Seq(Module)
    /\ main_module \in Module \cup {Null}
    /\ stack \in Seq(Call)
    /\ result \in Module \cup {Null, NoResult}
    /\ roots \in [Module -> Nat]
    /\ phase \in {"start", "running", "exit", "ended", "crashed"}
    /\ world \in Worlds

(* The calls that are about a structure, and those that hold a reference.   *)
Owner(f)  == f.at \in {"module", "init", "unref", "free"}
Holder(f) == f.at \in {"module", "init", "unref"}
Loading(f) == f.at \in {"name", "module", "init"}

(* A call that waits for one it has made.                                   *)
Waiting(f) ==
    /\ f.at # "unref"
    /\ f.at = "name" => f.i = 1
    /\ f.at = "module" => f.i <= Len(mod[f.mod].dependencies) /\ f.depth <= MaxDepth

(* What a call in progress finds in the structure it is about.              *)
CallOk(f) ==
    /\ Owner(f) => f.mod \in Module
    /\ f.at = "name" => f.name \in Name /\ f.i \in {0, 1} /\ f.depth <= MaxDepth
    /\ f.at = "module" =>
          /\ mod[f.mod].life = "new" /\ mod[f.mod].name = f.name
          /\ f.name \in world.files \cup {"exe"}
          /\ Len(mod[f.mod].dependencies) = Len(Imports(f.name))
          /\ f.i \in 1 .. Len(mod[f.mod].dependencies) + 1
          /\ \A j \in f.i .. Len(mod[f.mod].dependencies) : mod[f.mod].dependencies[j] = Null
          /\ f.i > 1 => f.depth <= MaxDepth
          /\ f.name = "exe" => f.mod = main_module
    /\ f.at = "init" => mod[f.mod].life = "in" /\ mod[f.mod].name = f.name /\ f.name # "exe"
    /\ f.at = "unref" => mod[f.mod].life \in {"new", "up"}
    /\ f.at = "free" =>
          /\ mod[f.mod].life \in {"new", "down"} /\ mod[f.mod].refcount = 0
          /\ f.i \in 0 .. Len(mod[f.mod].dependencies) /\ f.mod # main_module
    /\ f.at = "terminate" => phase = "exit"

CallsOk == \A k \in DOMAIN stack : CallOk(stack[k])

Places ==
    /\ \A k \in DOMAIN stack :
          /\ k # 1 => Waiting(stack[k])
          /\ stack[k].at = "terminate" => k = Len(stack)
          /\ (Loading(stack[k]) \/ stack[k].at = "failed") /\ k # Len(stack) => Loading(stack[k + 1])
          /\ stack[k].at = "module" /\ stack[k].name = "exe" => k = Len(stack)
    /\ phase = "start" /\ stack # <<>> =>
          stack[Len(stack)].name = "exe" /\ stack[Len(stack)].at \in {"module", "failed"}
    /\ phase = "exit" => stack # <<>> /\ stack[Len(stack)].at = "terminate"
    /\ phase = "exit" => \A k \in DOMAIN stack : stack[k].at \in {"unref", "free", "terminate"}
    /\ phase = "ended" => stack = <<>>

Unique ==
    \A j, k \in DOMAIN stack : Owner(stack[j]) /\ Owner(stack[k]) /\ stack[j].mod = stack[k].mod => j = k

Lives ==
    /\ \A m \in Module : mod[m].life \in {"new", "in", "down"} =>
          \E k \in DOMAIN stack : Owner(stack[k]) /\ stack[k].mod = m
    /\ \A m \in Module : mod[m].life = "unused" => mod[m] = Unused
    /\ \A m \in Module : roots[m] > 0 => mod[m].life = "up"

ResultInv ==
    /\ result # NoResult =>
          /\ stack # <<>> /\ Top.at \in {"module", "name"} /\ Waiting(Top)
    /\ result \in Module => mod[result].life = "up" /\ mod[result].name # "exe"

(* The references to m that freeLxModule has not given back yet.            *)
GivenBack(d, i) == \E k \in DOMAIN stack : stack[k].at = "free" /\ stack[k].mod = d /\ stack[k].i < i
Refs(m) == {p \in References(m) : ~GivenBack(p[1], p[2])}
Held(m) == \E k \in DOMAIN stack : Holder(stack[k]) /\ stack[k].mod = m
One(P) == IF P THEN 1 ELSE 0

Counts ==
    \A m \in Module :
        /\ mod[m].refcount = roots[m] + Cardinality(Refs(m)) + One(result = m) + One(Held(m))
        /\ Refs(m) # {} => mod[m].life = "up" /\ mod[m].name # "exe"

ListInv ==
    /\ InOrderOfDependency
    /\ \A j, k \in DOMAIN loaded_modules : loaded_modules[j] = loaded_modules[k] => j = k

ExeInv ==
    /\ \A m \in Module : mod[m].life = "up" /\ mod[m].name = "exe" =>
          m = main_module /\ phase \in {"running", "exit"}
    /\ main_module \in Module => mod[main_module].name = "exe" /\ mod[main_module].life \in {"new", "up"}
    /\ phase = "running" => main_module \in Module /\ mod[main_module].life = "up" /\ roots[main_module] = 1
    /\ phase = "exit" /\ main_module # Null =>
          Len(stack) = 2 /\ stack[1].at = "unref" /\ stack[1].mod = main_module /\ roots[main_module] = 0
    /\ phase = "start" /\ stack = <<>> => \A m \in Module : mod[m].life = "unused"

TableInv ==
    TableTypes /\ CallsOk /\ Places /\ Unique /\ Lives /\ ResultInv /\ Counts /\ ListInv /\ ExeInv

(* A step takes c calls off the stack and puts n there instead.             *)
Moved(n, c) ==
    /\ stack' \in Seq(Call) /\ Len(stack') = Len(stack) - c + n /\ c <= Len(stack)
    /\ \A k \in DOMAIN stack' : k > n => k - n + c \in DOMAIN stack /\ k - n + c > c /\ stack'[k] = stack[k - n + c]
    /\ \A k \in DOMAIN stack : k > c => k - c + n \in DOMAIN stack' /\ k - c + n > n /\ stack'[k - c + n] = stack[k]

(* A call begins on top of the others.                                      *)
LEMMA PushMoves ==
    ASSUME stack \in Seq(Call), NEW f \in Call, stack' = <<f>> \o stack
    PROVE  Moved(1, 0) /\ stack'[1] = f /\ 1 \in DOMAIN stack'
<1>1. /\ stack' \in Seq(Call) /\ Len(stack') = Len(stack) + 1 /\ stack'[1] = f
      /\ DOMAIN stack' = 1 .. Len(stack) + 1
      /\ \A k \in DOMAIN stack' : k # 1 => k - 1 \in DOMAIN stack /\ stack'[k] = stack[k - 1]
      /\ \A k \in DOMAIN stack : k + 1 \in DOMAIN stack' /\ stack'[k + 1] = stack[k]
  BY Pushed
<1>2. Len(stack) \in Nat /\ DOMAIN stack = 1 .. Len(stack)
  OBVIOUS
<1>3. ASSUME NEW k \in DOMAIN stack', k > 1
      PROVE  k - 1 + 0 \in DOMAIN stack /\ k - 1 + 0 > 0 /\ stack'[k] = stack[k - 1 + 0]
  <2>1. k - 1 + 0 = k - 1 /\ k # 1 /\ k \in Int
    BY <1>1, <1>2, <1>3
  <2> QED
    BY <1>1, <1>2, <1>3, <2>1
<1>4. ASSUME NEW k \in DOMAIN stack
      PROVE  k - 0 + 1 \in DOMAIN stack' /\ k - 0 + 1 > 1 /\ stack'[k - 0 + 1] = stack[k]
  <2>1. k - 0 + 1 = k + 1 /\ k \in Nat \ {0}
    BY <1>2
  <2> QED
    BY <1>1, <2>1
<1> QED
  BY <1>1, <1>2, <1>3, <1>4 DEF Moved

(* A call returns.                                                          *)
LEMMA PopMoves ==
    ASSUME stack \in Seq(Call), stack # <<>>, stack' = Tail(stack)
    PROVE  Moved(0, 1)
<1>1. /\ stack' \in Seq(Call) /\ Len(stack') = Len(stack) - 1
      /\ Len(stack) \in Nat \ {0} /\ DOMAIN stack = 1 .. Len(stack) /\ DOMAIN stack' = 1 .. Len(stack) - 1
      /\ \A k \in DOMAIN stack' : k + 1 \in DOMAIN stack /\ stack'[k] = stack[k + 1]
      /\ \A k \in DOMAIN stack : k # 1 => k - 1 \in DOMAIN stack' /\ stack'[k - 1] = stack[k]
  BY Popped
<1>2. ASSUME NEW k \in DOMAIN stack'
      PROVE  k - 0 + 1 \in DOMAIN stack /\ k - 0 + 1 > 1 /\ stack'[k] = stack[k - 0 + 1]
  <2>1. k - 0 + 1 = k + 1 /\ k \in Nat \ {0}
    BY <1>1
  <2> QED
    BY <1>1, <2>1
<1>3. ASSUME NEW k \in DOMAIN stack, k > 1
      PROVE  k - 1 + 0 \in DOMAIN stack' /\ k - 1 + 0 > 0 /\ stack'[k - 1 + 0] = stack[k]
  <2>1. k - 1 + 0 = k - 1 /\ k # 1 /\ k \in Int
    BY <1>1, <1>3
  <2> QED
    BY <1>1, <1>3, <2>1
<1> QED
  BY <1>1, <1>2, <1>3 DEF Moved

(* A call goes on.                                                          *)
LEMMA TopMoves ==
    ASSUME stack \in Seq(Call), stack # <<>>, NEW f \in Call, stack' = <<f>> \o Tail(stack)
    PROVE  Moved(1, 1) /\ stack'[1] = f /\ 1 \in DOMAIN stack'
<1> DEFINE t == Tail(stack)
<1>1. /\ t \in Seq(Call) /\ Len(t) = Len(stack) - 1
      /\ Len(stack) \in Nat \ {0} /\ DOMAIN stack = 1 .. Len(stack) /\ DOMAIN t = 1 .. Len(stack) - 1
      /\ \A k \in DOMAIN t : k + 1 \in DOMAIN stack /\ t[k] = stack[k + 1]
      /\ \A k \in DOMAIN stack : k # 1 => k - 1 \in DOMAIN t /\ t[k - 1] = stack[k]
  BY Popped
<1> HIDE DEF t
<1>2. /\ stack' \in Seq(Call) /\ Len(stack') = Len(t) + 1 /\ stack'[1] = f
      /\ DOMAIN stack' = 1 .. Len(t) + 1
      /\ \A k \in DOMAIN stack' : k # 1 => k - 1 \in DOMAIN t /\ stack'[k] = t[k - 1]
  BY <1>1, Pushed DEF t
<1>3. Len(stack') = Len(stack) /\ DOMAIN stack' = DOMAIN stack
  BY <1>1, <1>2
<1>4. ASSUME NEW k \in DOMAIN stack, k > 1
      PROVE  k - 1 + 1 = k /\ stack'[k] = stack[k]
  <2>1. k - 1 + 1 = k /\ k # 1 /\ k \in Int
    BY <1>1, <1>4
  <2>2. stack'[k] = t[k - 1]
    BY <1>2, <1>3, <2>1
  <2> QED
    BY <1>1, <2>1, <2>2
<1>5. Len(stack) - 1 + 1 = Len(stack) /\ 1 <= Len(stack) /\ 1 \in DOMAIN stack
  BY <1>1
<1> QED
  BY <1>2, <1>3, <1>4, <1>5 DEF Moved

(* A call goes on and makes another.                                        *)
LEMMA CallMoves ==
    ASSUME stack \in Seq(Call), stack # <<>>, NEW f \in Call, NEW g \in Call,
           stack' = <<f>> \o (<<g>> \o Tail(stack))
    PROVE  Moved(2, 1) /\ stack'[1] = f /\ stack'[2] = g /\ 1 \in DOMAIN stack' /\ 2 \in DOMAIN stack'
<1> DEFINE t == Tail(stack)
           u == <<g>> \o t
<1>1. /\ t \in Seq(Call) /\ Len(t) = Len(stack) - 1
      /\ Len(stack) \in Nat \ {0} /\ DOMAIN stack = 1 .. Len(stack) /\ DOMAIN t = 1 .. Len(stack) - 1
      /\ \A k \in DOMAIN stack : k # 1 => k - 1 \in DOMAIN t /\ t[k - 1] = stack[k]
  BY Popped
<1> HIDE DEF t
<1>2. /\ u \in Seq(Call) /\ Len(u) = Len(t) + 1 /\ u[1] = g
      /\ DOMAIN u = 1 .. Len(t) + 1
      /\ \A k \in DOMAIN t : k + 1 \in DOMAIN u /\ u[k + 1] = t[k]
  BY <1>1, Pushed
<1>3. stack' = <<f>> \o u
  BY DEF t
<1> HIDE DEF u
<1>4. /\ stack' \in Seq(Call) /\ Len(stack') = Len(u) + 1 /\ stack'[1] = f
      /\ DOMAIN stack' = 1 .. Len(u) + 1
      /\ \A k \in DOMAIN u : k + 1 \in DOMAIN stack' /\ stack'[k + 1] = u[k]
  BY <1>2, <1>3, Pushed
<1>5. /\ Len(stack') = Len(stack) + 1 /\ DOMAIN stack' = 1 .. Len(stack) + 1
      /\ Len(u) = Len(stack) /\ DOMAIN u = 1 .. Len(stack)
  BY <1>1, <1>2, <1>4
<1>6. stack'[2] = g /\ 1 \in DOMAIN stack' /\ 2 \in DOMAIN stack'
  <2>1. 1 \in DOMAIN u /\ 1 + 1 = 2
    BY <1>1, <1>5
  <2> QED
    BY <1>1, <1>2, <1>4, <1>5, <2>1
<1>7. ASSUME NEW k \in DOMAIN stack, k > 1
      PROVE  k + 1 \in DOMAIN stack' /\ stack'[k + 1] = stack[k]
  <2>1. k - 1 + 1 = k /\ k # 1 /\ k \in Int
    BY <1>1, <1>7
  <2>2. k - 1 \in DOMAIN t /\ t[k - 1] = stack[k]
    BY <1>1, <2>1
  <2>3. k \in DOMAIN u /\ u[k] = t[k - 1]
    BY <1>2, <2>1, <2>2
  <2> QED
    BY <1>4, <2>2, <2>3
<1>8. ASSUME NEW k \in DOMAIN stack', k > 2
      PROVE  k - 2 + 1 \in DOMAIN stack /\ k - 2 + 1 > 1 /\ stack'[k] = stack[k - 2 + 1]
  <2>1. k - 2 + 1 \in DOMAIN stack /\ k - 2 + 1 > 1 /\ (k - 2 + 1) + 1 = k
    BY <1>1, <1>5, <1>8
  <2> QED
    BY <1>7, <2>1
<1>9. ASSUME NEW k \in DOMAIN stack, k > 1
      PROVE  k - 1 + 2 \in DOMAIN stack' /\ k - 1 + 2 > 2 /\ stack'[k - 1 + 2] = stack[k]
  <2>1. k - 1 + 2 = k + 1 /\ k - 1 + 2 > 2
    BY <1>1, <1>9
  <2> QED
    BY <1>7, <1>9, <2>1
<1>10. Len(stack') = Len(stack) - 1 + 2 /\ 1 <= Len(stack)
  BY <1>1, <1>5
<1> QED
  BY <1>4, <1>6, <1>8, <1>9, <1>10 DEF Moved

(* A step changes no structure but m, and no call that goes on below the    *)
(* first c is about that one.                                               *)
Changes(c, m) ==
    /\ mod' \in [Module -> Structure] /\ world' = world
    /\ \A d \in Module : d # m => mod'[d] = mod[d]
    /\ \A k \in DOMAIN stack : k > c /\ Owner(stack[k]) => stack[k].mod # m

(* What the calls below find does not change.                               *)
LEMMA CallsKept ==
    ASSUME CallsOk, stack \in Seq(Call), NEW n \in Nat, NEW c \in Nat, NEW m, Moved(n, c), Changes(c, m),
           \/ main_module' = main_module
           \/ \A k \in DOMAIN stack : k > c =>
                 /\ ~(stack[k].at = "module" /\ stack[k].name = "exe")
                 /\ stack[k].at = "free" => stack[k].mod # main_module',
           \A k \in DOMAIN stack : k > c /\ stack[k].at = "terminate" => phase' = "exit",
           \A k \in DOMAIN stack' : k <= n => CallOk(stack[k])'
    PROVE  CallsOk'
<1> SUFFICES ASSUME NEW k \in DOMAIN stack', k > n PROVE CallOk(stack[k])'
  <2>1. \A k \in DOMAIN stack' : k <= n \/ k > n
    BY DEF Moved
  <2> QED
    BY <2>1 DEF CallsOk
<1> DEFINE j == k - n + c
<1>1. j \in DOMAIN stack /\ j > c /\ stack'[k] = stack[j]
  BY DEF Moved
<1> HIDE DEF j
<1>2. PICK f \in Call : f = stack[j]
  BY <1>1
<1>3. CallOk(f) /\ (Owner(f) => f.mod \in Module)
  BY <1>1, <1>2 DEF CallsOk, CallOk
<1>4. Owner(f) => mod'[f.mod] = mod[f.mod]
  BY <1>1, <1>2, <1>3 DEF Changes
<1>5. f.at = "module" => Imports(f.name)' = Imports(f.name) /\ world' = world
  BY DEF Changes, Imports
<1>6. f.at = "module" /\ f.name = "exe" => main_module' = main_module
  BY <1>1, <1>2
<1>7. f.at = "terminate" => phase' = "exit"
  BY <1>1, <1>2
<1>10. f.at = "free" => f.mod # main_module'
  BY <1>1, <1>2, <1>3 DEF CallOk
<1>8. CASE f.at = "module"
  BY <1>1, <1>2, <1>3, <1>4, <1>5, <1>6, <1>8 DEF CallOk, Owner
<1>9. CASE f.at # "module"
  BY <1>1, <1>2, <1>3, <1>4, <1>7, <1>9, <1>10 DEF CallOk, Owner
<1> QED
  BY <1>8, <1>9

(* Where the calls below stand does not change either.                      *)
LEMMA PlacesKept ==
    ASSUME Places, CallsOk, stack \in Seq(Call), NEW n \in 0 .. 2, NEW c \in 0 .. 1, NEW m, Moved(n, c), Changes(c, m),
           c = 0 /\ n > 0 /\ stack # <<>> => Waiting(Top),
           n = 0 => c = 1,
           \A k \in DOMAIN stack' : k <= n =>
              /\ k # 1 => Waiting(stack[k])'
              /\ stack'[k].at = "terminate" => k = Len(stack')
              /\ (Loading(stack'[k]) \/ stack'[k].at = "failed") /\ k # Len(stack') => Loading(stack'[k + 1])
              /\ stack'[k].at = "module" /\ stack'[k].name = "exe" => k = Len(stack'),
           phase' = "start" /\ stack' # <<>> =>
              IF Len(stack) > c THEN phase = "start"
              ELSE stack'[Len(stack')].name = "exe" /\ stack'[Len(stack')].at \in {"module", "failed"},
           phase' = "exit" =>
              /\ phase = "exit" /\ (c = 1 => Top.at # "terminate")
              /\ \A k \in DOMAIN stack' : k <= n => stack'[k].at \in {"unref", "free"},
           phase' = "ended" => stack' = <<>>
    PROVE  Places'
<1>1. /\ Len(stack) \in Nat /\ DOMAIN stack = 1 .. Len(stack) /\ stack' \in Seq(Call)
      /\ Len(stack') \in Nat /\ DOMAIN stack' = 1 .. Len(stack')
      /\ Len(stack') = Len(stack) - c + n /\ c <= Len(stack)
  BY DEF Moved
<1>2. ASSUME NEW k \in DOMAIN stack', k > n
      PROVE  LET j == k - n + c IN
             /\ j \in DOMAIN stack /\ j > c /\ stack'[k] = stack[j]
             /\ k = Len(stack') <=> j = Len(stack)
             /\ k # Len(stack') => j + 1 \in DOMAIN stack /\ stack'[k + 1] = stack[j + 1]
             /\ k # 1 => Waiting(stack[k])'
  <2> DEFINE j == k - n + c
  <2>1. j \in DOMAIN stack /\ j > c /\ stack'[k] = stack[j]
    BY <1>2 DEF Moved
  <2>2. k = Len(stack') <=> j = Len(stack)
    BY <1>1, <2>1
  <2>3. k # Len(stack') => j + 1 \in DOMAIN stack /\ stack'[k + 1] = stack[j + 1]
    <3> SUFFICES ASSUME k # Len(stack') PROVE j + 1 \in DOMAIN stack /\ stack'[k + 1] = stack[j + 1]
      OBVIOUS
    <3>1. k + 1 \in DOMAIN stack' /\ k + 1 > n /\ (k + 1) - n + c = j + 1
      BY <1>1, <1>2
    <3> QED
      BY <3>1 DEF Moved
  <2>4. ASSUME k # 1 PROVE Waiting(stack[k])'
    <3>1. Waiting(stack[j])
      <4>1. CASE j = 1
        <5>1. c = 0 /\ n > 0
          BY <1>1, <1>2, <2>1, <2>4, <4>1
        <5> QED
          BY <5>1, <4>1, <1>1, <2>1 DEF Top
      <4>2. CASE j # 1
        BY <2>1, <4>2 DEF Places
      <4> QED
        BY <4>1, <4>2
    <3> HIDE DEF j
    <3>2. stack[j].at = "module" => mod'[stack[j].mod] = mod[stack[j].mod]
      BY <2>1 DEF CallsOk, CallOk, Owner, Changes
    <3> QED
      BY <3>1, <3>2, <2>1 DEF Waiting
  <2> QED
    BY <2>1, <2>2, <2>3, <2>4
<1>3. \A k \in DOMAIN stack' : k <= n \/ k > n
  BY <1>1
<1>4. ASSUME NEW k \in DOMAIN stack'
      PROVE  /\ k # 1 => Waiting(stack[k])'
             /\ stack'[k].at = "terminate" => k = Len(stack')
             /\ (Loading(stack'[k]) \/ stack'[k].at = "failed") /\ k # Len(stack') => Loading(stack'[k + 1])
             /\ stack'[k].at = "module" /\ stack'[k].name = "exe" => k = Len(stack')
  <2>1. CASE k <= n
    BY <2>1
  <2>2. CASE k > n
    <3> DEFINE j == k - n + c
    <3>1. /\ j \in DOMAIN stack /\ j > c /\ stack'[k] = stack[j]
          /\ k = Len(stack') <=> j = Len(stack)
          /\ k # Len(stack') => j + 1 \in DOMAIN stack /\ stack'[k + 1] = stack[j + 1]
          /\ k # 1 => Waiting(stack[k])'
      BY <1>2, <2>2
    <3> HIDE DEF j
    <3> QED
      BY <3>1 DEF Places
  <2> QED
    BY <1>3, <2>1, <2>2
<1>5. ASSUME Len(stack) > c
      PROVE  Len(stack') \in DOMAIN stack' /\ stack'[Len(stack')] = stack[Len(stack)]
  <2>1. Len(stack) \in DOMAIN stack /\ Len(stack) - c + n = Len(stack')
    BY <1>1, <1>5
  <2> QED
    BY <1>5, <2>1 DEF Moved
<1>6. ASSUME phase' = "start", stack' # <<>>
      PROVE  stack'[Len(stack')].name = "exe" /\ stack'[Len(stack')].at \in {"module", "failed"}
  <2>1. CASE Len(stack) > c
    <3>1. phase = "start" /\ stack # <<>>
      BY <1>1, <1>6, <2>1
    <3> QED
      BY <1>5, <2>1, <3>1 DEF Places
  <2>2. CASE ~(Len(stack) > c)
    BY <1>6, <2>2
  <2> QED
    BY <2>1, <2>2
<1>7. ASSUME phase' = "exit"
      PROVE  stack' # <<>> /\ stack'[Len(stack')].at = "terminate"
  <2>1. phase = "exit" /\ stack # <<>> /\ stack[Len(stack)].at = "terminate"
    BY <1>7 DEF Places
  <2>2. Len(stack) > c
    <3>1. c = 1 => Len(stack) # 1
      BY <1>7, <2>1 DEF Top
    <3> QED
      BY <1>1, <2>1, <3>1
  <2>3. Len(stack') # 0
    BY <1>1, <2>2
  <2> QED
    BY <1>5, <2>1, <2>2, <2>3
<1>8. ASSUME phase' = "exit", NEW k \in DOMAIN stack'
      PROVE  stack'[k].at \in {"unref", "free", "terminate"}
  <2>1. CASE k <= n
    BY <1>8, <2>1
  <2>2. CASE k > n
    <3>1. PICK j \in DOMAIN stack : stack'[k] = stack[j]
      BY <2>2 DEF Moved
    <3> QED
      BY <1>8, <3>1 DEF Places
  <2> QED
    BY <1>3, <2>1, <2>2
<1> QED
  BY <1>4, <1>6, <1>7, <1>8 DEF Places, Loading

(* A structure has one call about it while the new calls are about others   *)
(* than the calls below.                                                    *)
LEMMA UniqueKept ==
    ASSUME Unique, stack \in Seq(Call), NEW n \in Nat, NEW c \in Nat, Moved(n, c),
           \A j, k \in DOMAIN stack' : j <= n /\ k <= n /\ Owner(stack'[j]) /\ Owner(stack'[k])
                                          /\ stack'[j].mod = stack'[k].mod => j = k,
           \A j \in DOMAIN stack', k \in DOMAIN stack :
              j <= n /\ k > c /\ Owner(stack'[j]) /\ Owner(stack[k]) => stack'[j].mod # stack[k].mod
    PROVE  Unique'
<1> SUFFICES ASSUME NEW j \in DOMAIN stack', NEW k \in DOMAIN stack',
                    Owner(stack'[j]), Owner(stack'[k]), stack'[j].mod = stack'[k].mod
             PROVE  j = k
  BY DEF Unique, Owner
<1>1. \A l \in DOMAIN stack' : l \in Nat /\ (l <= n \/ l > n)
  BY DEF Moved
<1>2. \A l \in DOMAIN stack' : l > n =>
         l - n + c \in DOMAIN stack /\ l - n + c > c /\ stack'[l] = stack[l - n + c]
  BY DEF Moved
<1>3. CASE j <= n /\ k <= n
  BY <1>3
<1>4. CASE j <= n /\ k > n
  BY <1>2, <1>4
<1>5. CASE j > n /\ k <= n
  BY <1>2, <1>5
<1>6. CASE j > n /\ k > n
  <2>1. j - n + c = k - n + c
    BY <1>2, <1>6 DEF Unique
  <2> QED
    BY <1>1, <2>1
<1> QED
  BY <1>1, <1>3, <1>4, <1>5, <1>6

(* Every structure that is neither up nor unused has a call about it.       *)
LEMMA LivesKept ==
    ASSUME Lives, stack \in Seq(Call), NEW n \in Nat, NEW c \in 0 .. 1, NEW m, Moved(n, c), Changes(c, m),
           roots \in [Module -> Nat], roots' \in [Module -> Nat],
           \A d \in Module : roots'[d] > roots[d] => mod'[d].life = "up",
           c = 1 /\ Owner(Top) => Top.mod = m,
           m \in Module =>
              /\ mod'[m].life \in {"new", "in", "down"} =>
                    \E k \in DOMAIN stack' : Owner(stack'[k]) /\ stack'[k].mod = m
              /\ mod'[m].life = "unused" => mod'[m] = Unused
              /\ roots'[m] > 0 => mod'[m].life = "up"
    PROVE  Lives'
<1>1. ASSUME NEW d \in Module, d # m, mod'[d].life \in {"new", "in", "down"}
      PROVE  \E k \in DOMAIN stack' : Owner(stack'[k]) /\ stack'[k].mod = d
  <2>1. PICK k \in DOMAIN stack : Owner(stack[k]) /\ stack[k].mod = d
    BY <1>1 DEF Changes, Lives
  <2>2. k > c
    <3>1. k \in Nat \ {0} /\ (c = 1 => k # 1)
      BY <2>1, <1>1 DEF Top
    <3> QED
      BY <3>1
  <2>3. k - c + n \in DOMAIN stack' /\ stack'[k - c + n] = stack[k]
    BY <2>2 DEF Moved
  <2> QED
    BY <2>1, <2>3
<1>2. ASSUME NEW d \in Module, d # m
      PROVE  /\ mod'[d].life = "unused" => mod'[d] = Unused
             /\ roots'[d] > 0 => mod'[d].life = "up"
  <2>1. mod'[d] = mod[d]
    BY <1>2 DEF Changes
  <2>2. roots[d] \in Nat /\ roots'[d] \in Nat
    OBVIOUS
  <2> QED
    BY <2>1, <2>2 DEF Lives
<1>3. \A d \in Module : mod'[d].life \in {"new", "in", "down"} =>
          \E k \in DOMAIN stack' : Owner(stack'[k]) /\ stack'[k].mod = d
  BY <1>1
<1>4. \A d \in Module : /\ mod'[d].life = "unused" => mod'[d] = Unused
                        /\ roots'[d] > 0 => mod'[d].life = "up"
  BY <1>2
<1>5. (\A d \in Module : mod[d].life \in {"new", "in", "down"} =>
           \E k \in DOMAIN stack : Owner(stack[k]) /\ stack[k].mod = d)'
  BY <1>3
<1>6. (\A d \in Module : mod[d].life = "unused" => mod[d] = Unused)'
  BY <1>4 DEF Unused
<1>7. (\A d \in Module : roots[d] > 0 => mod[d].life = "up")'
  BY <1>4
<1> QED
  BY <1>5, <1>6, <1>7 DEF Lives

(* What counts as a reference to m.                                         *)
LEMMA InRefs ==
    ASSUME NEW m, NEW p
    PROVE  p \in Refs(m) <=>
              \E d \in Module : \E i \in DOMAIN mod[d].dependencies :
                  p = <<d, i>> /\ mod[d].dependencies[i] = m /\ ~GivenBack(d, i)
<1> DEFINE Of(d) == {i \in DOMAIN mod[d].dependencies : mod[d].dependencies[i] = m}
<1>1. p \in References(m) <=> \E d \in Module : p \in {d} \X Of(d)
  BY DEF References
<1>2. \A d \in Module : p \in {d} \X Of(d) <=> \E i \in Of(d) : p = <<d, i>>
  OBVIOUS
<1>3. p \in References(m) <=> \E d \in Module : \E i \in Of(d) : p = <<d, i>>
  BY <1>1, <1>2
<1>4. p \in Refs(m) <=> p \in References(m) /\ ~GivenBack(p[1], p[2])
  BY DEF Refs
<1>5. \A d, i : p = <<d, i>> => p[1] = d /\ p[2] = i
  OBVIOUS
<1>6. ASSUME p \in Refs(m)
      PROVE  \E d \in Module : \E i \in DOMAIN mod[d].dependencies :
                  p = <<d, i>> /\ mod[d].dependencies[i] = m /\ ~GivenBack(d, i)
  <2>1. PICK d \in Module : \E i \in Of(d) : p = <<d, i>>
    BY <1>3, <1>4, <1>6
  <2>2. PICK i \in Of(d) : p = <<d, i>>
    BY <2>1
  <2>3. ~GivenBack(d, i)
    BY <1>4, <1>5, <1>6, <2>2
  <2> QED
    BY <2>2, <2>3
<1>7. ASSUME NEW d \in Module, NEW i \in DOMAIN mod[d].dependencies,
             p = <<d, i>>, mod[d].dependencies[i] = m, ~GivenBack(d, i)
      PROVE  p \in Refs(m)
  <2>1. i \in Of(d)
    BY <1>7
  <2>2. p \in References(m)
    BY <1>3, <1>7, <2>1
  <2>3. ~GivenBack(p[1], p[2])
    BY <1>5, <1>7
  <2> QED
    BY <1>4, <2>2, <2>3
<1> QED
  BY <1>6, <1>7

(* There are finitely many.                                                 *)
LEMMA RefsFinite ==
    ASSUME mod \in [Module -> Structure], NEW m
    PROVE  /\ IsFiniteSet(References(m)) /\ IsFiniteSet(Refs(m))
           /\ Cardinality(Refs(m)) \in Nat /\ (Refs(m) = {} <=> Cardinality(Refs(m)) = 0)
<1> DEFINE Of(d) == {i \in DOMAIN mod[d].dependencies : mod[d].dependencies[i] = m}
           all == {{d} \X Of(d) : d \in Module}
<1>1. ASSUME NEW d \in Module PROVE IsFiniteSet({d} \X Of(d))
  <2>1. mod[d].dependencies \in Seq(Module \cup {Null})
    BY DEF Structure
  <2>2. DOMAIN mod[d].dependencies = 1 .. Len(mod[d].dependencies) /\ Len(mod[d].dependencies) \in Nat
    BY <2>1
  <2>3. IsFiniteSet(DOMAIN mod[d].dependencies)
    BY <2>2, FS_Interval
  <2>4. IsFiniteSet(Of(d))
    BY <2>3, FS_Subset
  <2>5. IsFiniteSet({d})
    BY FS_Singleton
  <2> HIDE DEF Of
  <2> QED
    BY <2>4, <2>5, FS_Product
<1>2. IsFiniteSet(all)
  <2> DEFINE g == [d \in Module |-> {d} \X Of(d)]
  <2>1. g \in Surjection(Module, all)
    BY DEF Surjection
  <2> QED
    BY <2>1, FS_Surjection, ModuleAssumption
<1>3. IsFiniteSet(UNION all)
  <2>1. \A T \in all : IsFiniteSet(T)
    BY <1>1
  <2> HIDE DEF all
  <2> QED
    BY <1>2, <2>1, FS_UNION
<1>4. References(m) = UNION all
  BY DEF References
<1>5. Refs(m) \in SUBSET References(m)
  BY DEF Refs
<1>6. IsFiniteSet(Refs(m))
  BY <1>3, <1>4, <1>5, FS_Subset
<1> QED
  BY <1>3, <1>4, <1>6, FS_CardinalityType, FS_EmptySet

(* They stay the same while each place that refers to m does.               *)
LEMMA RefsKept ==
    ASSUME NEW m,
           \A d \in Module : \A i :
               (i \in DOMAIN mod'[d].dependencies /\ mod'[d].dependencies[i] = m /\ ~GivenBack(d, i)') <=>
               (i \in DOMAIN mod[d].dependencies /\ mod[d].dependencies[i] = m /\ ~GivenBack(d, i))
    PROVE  Refs(m)' = Refs(m)
<1>1. ASSUME NEW p PROVE p \in Refs(m)' <=> p \in Refs(m)
  <2>1. p \in Refs(m) <=>
              \E d \in Module : \E i \in DOMAIN mod[d].dependencies :
                  p = <<d, i>> /\ mod[d].dependencies[i] = m /\ ~GivenBack(d, i)
    BY InRefs
  <2>2. (p \in Refs(m) <=>
              \E d \in Module : \E i \in DOMAIN mod[d].dependencies :
                  p = <<d, i>> /\ mod[d].dependencies[i] = m /\ ~GivenBack(d, i))'
    BY InRefs, PTL
  <2> QED
    BY <2>1, <2>2
<1> QED
  BY <1>1, Zenon DEF Refs

(* What a structure being freed has given back changes with its call only.  *)
LEMMA GivenBackKept ==
    ASSUME stack \in Seq(Call), NEW n \in Nat, NEW c \in 0 .. 1, Moved(n, c), NEW d, NEW i,
           c = 1 => ~(Top.at = "free" /\ Top.mod = d),
           \A k \in DOMAIN stack' : k <= n => ~(stack'[k].at = "free" /\ stack'[k].mod = d)
    PROVE  GivenBack(d, i)' <=> GivenBack(d, i)
<1>1. ASSUME GivenBack(d, i)' PROVE GivenBack(d, i)
  <2>1. PICK k \in DOMAIN stack' : stack'[k].at = "free" /\ stack'[k].mod = d /\ stack'[k].i < i
    BY <1>1 DEF GivenBack
  <2>2. k > n
    BY <2>1 DEF Moved
  <2> QED
    BY <2>1, <2>2 DEF Moved, GivenBack
<1>2. ASSUME GivenBack(d, i) PROVE GivenBack(d, i)'
  <2>1. PICK k \in DOMAIN stack : stack[k].at = "free" /\ stack[k].mod = d /\ stack[k].i < i
    BY <1>2 DEF GivenBack
  <2>2. k > c
    <3>1. k \in Nat \ {0} /\ (c = 1 => k # 1)
      BY <2>1 DEF Top
    <3> QED
      BY <3>1
  <2>3. k - c + n \in DOMAIN stack' /\ stack'[k - c + n] = stack[k]
    BY <2>2 DEF Moved
  <2> QED
    BY <2>1, <2>3 DEF GivenBack
<1> QED
  BY <1>1, <1>2

(* So does what the calls hold.                                             *)
LEMMA HeldKept ==
    ASSUME stack \in Seq(Call), NEW n \in Nat, NEW c \in 0 .. 1, Moved(n, c), NEW m,
           c = 1 => ~(Holder(Top) /\ Top.mod = m),
           \A k \in DOMAIN stack' : k <= n => ~(Holder(stack'[k]) /\ stack'[k].mod = m)
    PROVE  Held(m)' <=> Held(m)
<1>1. ASSUME Held(m)' PROVE Held(m)
  <2>1. PICK k \in DOMAIN stack' : Holder(stack'[k]) /\ stack'[k].mod = m
    BY <1>1 DEF Held, Holder
  <2>2. k > n
    BY <2>1 DEF Moved
  <2>3. PICK j \in DOMAIN stack : stack'[k] = stack[j]
    BY <2>2 DEF Moved
  <2> QED
    BY <2>1, <2>3 DEF Held
<1>2. ASSUME Held(m) PROVE Held(m)'
  <2>1. PICK k \in DOMAIN stack : Holder(stack[k]) /\ stack[k].mod = m
    BY <1>2 DEF Held
  <2>2. k > c
    <3>1. k \in Nat \ {0} /\ (c = 1 => k # 1)
      BY <2>1 DEF Top
    <3> QED
      BY <3>1
  <2>3. k - c + n \in DOMAIN stack' /\ stack'[k - c + n] = stack[k]
    BY <2>2 DEF Moved
  <2> QED
    BY <2>1, <2>3 DEF Held, Holder
<1> QED
  BY <1>1, <1>2

(* No call below is about m.                                                *)
LEMMA NotHeld ==
    ASSUME stack \in Seq(Call), NEW n \in Nat, NEW c \in Nat, Moved(n, c), NEW m,
           \A k \in DOMAIN stack : k > c /\ Owner(stack[k]) => stack[k].mod # m,
           \A k \in DOMAIN stack' : k <= n => ~(Holder(stack'[k]) /\ stack'[k].mod = m)
    PROVE  ~Held(m)'
<1> SUFFICES ASSUME NEW k \in DOMAIN stack', Holder(stack'[k]), stack'[k].mod = m PROVE FALSE
  BY DEF Held, Holder
<1>1. k > n
  BY DEF Moved
<1>2. k - n + c \in DOMAIN stack /\ k - n + c > c /\ stack'[k] = stack[k - n + c]
  BY <1>1 DEF Moved
<1> QED
  BY <1>2 DEF Holder, Owner

(* What a step does to the count of m makes up for what it does to the      *)
(* references the program, a result and a call hold; and to no other's.     *)
Settles(m) ==
    /\ \A d \in Module : d # m => mod'[d] = mod[d] /\ roots'[d] = roots[d] /\ (result' = d <=> result = d)
    /\ m \in Module =>
          /\ mod'[m].refcount + roots[m] + One(result = m) + One(Held(m)) =
                mod[m].refcount + roots'[m] + One(result' = m) + One(Held(m)')
          /\ Refs(m) # {} => mod'[m].life = "up" /\ mod'[m].name # "exe"

(* The counts stay right when m is settled and nothing else is touched.    *)
LEMMA CountsKept ==
    ASSUME Counts, mod \in [Module -> Structure], mod' \in [Module -> Structure],
           roots \in [Module -> Nat], roots' \in [Module -> Nat],
           stack \in Seq(Call), NEW n \in Nat, NEW c \in 0 .. 1, Moved(n, c), NEW m,
           \A d \in Module : Refs(d)' = Refs(d),
           Settles(m), c = 1 /\ Holder(Top) => Top.mod = m,
           \A k \in DOMAIN stack' : k <= n /\ Holder(stack'[k]) => stack'[k].mod = m
    PROVE  Counts'
<1> SUFFICES ASSUME NEW d \in Module
             PROVE  /\ mod'[d].refcount = roots'[d] + Cardinality(Refs(d)') + One(result' = d) + One(Held(d)')
                    /\ Refs(d)' # {} => mod'[d].life = "up" /\ mod'[d].name # "exe"
  BY DEF Counts, One
<1>1. /\ mod[d].refcount = roots[d] + Cardinality(Refs(d)) + One(result = d) + One(Held(d))
      /\ Refs(d) # {} => mod[d].life = "up" /\ mod[d].name # "exe"
      /\ Refs(d)' = Refs(d)
  BY DEF Counts
<1>2. CASE d # m
  <2>1. Held(d)' <=> Held(d)
    <3>1. c = 1 => ~(Holder(Top) /\ Top.mod = d)
      BY <1>2
    <3>2. \A k \in DOMAIN stack' : k <= n => ~(Holder(stack'[k]) /\ stack'[k].mod = d)
      BY <1>2
    <3> QED
      BY <3>1, <3>2, HeldKept
  <2>2. One(Held(d)') = One(Held(d)) /\ One(result' = d) = One(result = d)
    BY <1>2, <2>1 DEF One, Settles
  <2> QED
    BY <1>1, <1>2, <2>2 DEF Settles
<1>3. CASE d = m
  <2>1. /\ mod[d].refcount \in Nat /\ mod'[d].refcount \in Nat /\ roots[d] \in Nat /\ roots'[d] \in Nat
        /\ Cardinality(Refs(d)) \in Nat
    BY RefsFinite DEF Structure
  <2>2. \A P : One(P) \in 0 .. 1
    BY DEF One
  <2>3. One(result' = d) \in Int /\ One(Held(d)') \in Int /\ One(result = d) \in Int /\ One(Held(d)) \in Int
    BY <2>2
  <2>4. mod'[d].refcount + roots[d] + One(result = d) + One(Held(d)) =
            mod[d].refcount + roots'[d] + One(result' = d) + One(Held(d)')
    BY <1>3 DEF Settles
  <2>5. mod'[d].refcount = roots'[d] + Cardinality(Refs(d)) + One(result' = d) + One(Held(d)')
    <3> DEFINE a == mod'[d].refcount
               b == mod[d].refcount
               x == roots'[d]
               y == roots[d]
               q == Cardinality(Refs(d))
               u == One(result' = d)
               v == One(Held(d)')
               w == One(result = d)
               z == One(Held(d))
    <3>1. a \in Int /\ b \in Int /\ x \in Int /\ y \in Int /\ q \in Int
      BY <2>1
    <3>2. u \in Int /\ v \in Int /\ w \in Int /\ z \in Int
      BY <2>3
    <3>3. a + y + w + z = b + x + u + v
      BY <2>4
    <3>4. b = y + q + w + z
      BY <1>1
    <3> HIDE DEF a, b, x, y, q, u, v, w, z
    <3>5. a = x + q + u + v
      BY <3>1, <3>2, <3>3, <3>4
    <3> QED
      BY <3>5 DEF a, x, q, u, v
  <2> QED
    BY <1>1, <1>3, <2>5 DEF Settles
<1> QED
  BY <1>2, <1>3

(* What a call of the loader gives back.                                    *)
LEMMA ReturnIs ==
    ASSUME stack \in Seq(Call), stack # <<>>, roots \in [Module -> Nat], NEW r \in Module \cup {Null}, Return(r)
    PROVE  /\ Moved(0, 1)
           /\ roots' \in [Module -> Nat] /\ result' \in {r, NoResult}
           /\ \A m \in Module : m # r => roots'[m] = roots[m]
           /\ r \in Module => roots'[r] + One(result' = r) = roots[r] + 1
           /\ result' # NoResult => roots' = roots /\ stack' # <<>> /\ Top'.at # "init"
           /\ phase' = phase \/ (phase = "start" /\ stack' = <<>> /\ phase' = IF r = Null THEN "ended" ELSE "running")
           /\ stack' = Tail(stack)
           /\ phase = "start" /\ stack' = <<>> => phase' # "start"
<1>1. stack' = Tail(stack)
  BY DEF Return
<1>2. Moved(0, 1)
  BY <1>1, PopMoves
<1>3. r \in Module => r # Null /\ r # NoResult
  BY ModuleAssumption DEF NoResult
<1> DEFINE toProgram == stack' = <<>> \/ stack'[1].at = "init"
<1>4. /\ result' = IF toProgram THEN NoResult ELSE r
      /\ roots' = IF toProgram /\ r # Null THEN [roots EXCEPT ![r] = @ + 1] ELSE roots
      /\ phase' = IF phase = "start" /\ stack' = <<>>
                  THEN IF r = Null THEN "ended" ELSE "running"
                  ELSE phase
  BY <1>1 DEF Return
<1>5. CASE toProgram
  <2>1. result' = NoResult
    BY <1>4, <1>5
  <2>2. CASE r = Null
    BY <1>1, <1>2, <1>3, <1>4, <1>5, <2>1, <2>2
  <2>3. CASE r \in Module
    <3>1. roots' = [roots EXCEPT ![r] = @ + 1]
      BY <1>3, <1>4, <1>5, <2>3
    <3>2. roots' \in [Module -> Nat] /\ roots'[r] = roots[r] + 1
      BY <2>3, <3>1
    <3>3. One(result' = r) = 0
      BY <1>3, <2>1, <2>3 DEF One
    <3>4. \A d \in Module : d # r => roots'[d] = roots[d]
      BY <3>1
    <3>5. roots'[r] + One(result' = r) = roots[r] + 1
      BY <2>3, <3>2, <3>3
    <3>6. phase' = phase \/ (phase = "start" /\ stack' = <<>> /\ phase' = IF r = Null THEN "ended" ELSE "running")
      BY <1>4
    <3>7. phase = "start" /\ stack' = <<>> => phase' # "start"
      BY <1>4
    <3> QED
      BY <1>1, <1>2, <2>1, <2>3, <3>2, <3>4, <3>5, <3>6, <3>7
  <2> QED
    BY <2>2, <2>3
<1>6. CASE ~toProgram
  <2>1. result' = r /\ roots' = roots /\ One(result' = r) = 1
    BY <1>4, <1>6 DEF One
  <2> QED
    BY <1>1, <1>2, <1>4, <1>6, <2>1 DEF Top
<1> QED
  BY <1>5, <1>6

(* No structure is the Null of C, or no result yet.                         *)
LEMMA NotModules == Null \notin Module /\ NoResult \notin Module /\ Null # NoResult /\ "exe" \notin Name
<1>1. Module \subseteq Nat /\ Null \notin Int /\ "exe" \notin Name
  BY ModuleAssumption
<1>2. ASSUME Null \in Module PROVE FALSE
  <2>1. Null \in Nat
    BY <1>1, <1>2
  <2> QED
    BY <1>1, <2>1
<1>3. ASSUME NoResult \in Module PROVE FALSE
  <2>1. -1 \in Nat
    BY <1>1, <1>3 DEF NoResult
  <2> QED
    BY <2>1
<1>4. NoResult \in Int
  BY DEF NoResult
<1> QED
  BY <1>1, <1>2, <1>3, <1>4

(* What the innermost call finds, and that it is the only one about its     *)
(* structure.                                                               *)
LEMMA TopIs ==
    ASSUME TableInv, stack # <<>>
    PROVE  /\ stack \in Seq(Call) /\ Top \in Call /\ 1 \in DOMAIN stack /\ Top = stack[1] /\ CallOk(Top)
           /\ Owner(Top) => \A k \in DOMAIN stack : k > 1 /\ Owner(stack[k]) => stack[k].mod # Top.mod
           /\ \A k \in DOMAIN stack : k > 1 => Waiting(stack[k])
           /\ Len(stack) > 1 /\ (Loading(Top) \/ Top.at = "failed") => Loading(stack[2])
<1>1. stack \in Seq(Call) /\ Len(stack) \in Nat \ {0} /\ DOMAIN stack = 1 .. Len(stack)
  BY DEF TableInv, TableTypes
<1>2. 1 \in DOMAIN stack /\ Top \in Call /\ Top = stack[1] /\ 1 + 1 = 2
  BY <1>1 DEF Top
<1>3. CallOk(Top)
  BY <1>2 DEF TableInv, CallsOk
<1>4. ASSUME Owner(Top), NEW k \in DOMAIN stack, k > 1, Owner(stack[k]) PROVE stack[k].mod # Top.mod
  <2>1. k # 1
    BY <1>1, <1>4
  <2> QED
    BY <1>2, <1>4, <2>1 DEF TableInv, Unique
<1>5. ASSUME NEW k \in DOMAIN stack, k > 1 PROVE Waiting(stack[k])
  <2>1. k # 1
    BY <1>1, <1>5
  <2> QED
    BY <1>5, <2>1 DEF TableInv, Places
<1>6. Len(stack) > 1 /\ (Loading(Top) \/ Top.at = "failed") => Loading(stack[2])
  BY <1>1, <1>2 DEF TableInv, Places
<1> QED
  BY <1>1, <1>2, <1>3, <1>4, <1>5, <1>6

(* No call is about a structure that is not in use, and about one that is   *)
(* up only freeLxModule, as the innermost.                                  *)
LEMMA NoCallAbout ==
    ASSUME TableInv, NEW k \in DOMAIN stack, Owner(stack[k])
    PROVE  /\ stack[k].mod \in Module /\ mod[stack[k].mod].life # "unused"
           /\ mod[stack[k].mod].life = "up" => k = 1 /\ stack[k].at = "unref"
<1>1. CallOk(stack[k]) /\ stack[k].at \in {"module", "init", "unref", "free"}
  BY DEF TableInv, CallsOk, Owner
<1>2. k # 1 => stack[k].at # "unref"
  BY DEF TableInv, Places, Waiting
<1>3. stack[k].at # "unref" => mod[stack[k].mod].life \in {"new", "in", "down"}
  BY <1>1 DEF CallOk
<1> QED
  BY <1>1, <1>2, <1>3 DEF CallOk, Owner

(* The list stays sound while the libraries in it stay the same...          *)
LEMMA ListKept ==
    ASSUME ListInv, loaded_modules \in Seq(Module), loaded_modules' = loaded_modules,
           \A m \in Module :
              /\ mod'[m].life = "up" /\ mod'[m].name # "exe" <=> mod[m].life = "up" /\ mod[m].name # "exe"
              /\ mod[m].life = "up" /\ mod[m].name # "exe" => mod'[m].dependencies = mod[m].dependencies
    PROVE  ListInv'
<1>1. \A j \in DOMAIN loaded_modules : loaded_modules[j] \in Module /\ loaded_modules[j] \in ToSet(loaded_modules)
  BY DEF ToSet
<1>2. \A j \in DOMAIN loaded_modules : ImportsOf(loaded_modules[j])' = ImportsOf(loaded_modules[j])
  BY <1>1 DEF ListInv, InOrderOfDependency, ImportsOf
<1>3. {m \in Module : mod'[m].life = "up" /\ mod'[m].name # "exe"} = {m \in Module : mod[m].life = "up" /\ mod[m].name # "exe"}
  OBVIOUS
<1> QED
  BY <1>2, <1>3 DEF ListInv, InOrderOfDependency

(* ...while one comes in that no library in it imports...                   *)
LEMMA ListGrows ==
    ASSUME ListInv, loaded_modules \in Seq(Module), NEW m \in Module, loaded_modules' = <<m>> \o loaded_modules,
           mod[m].life # "up", mod'[m].life = "up", mod'[m].name # "exe",
           \A d \in Module : d # m => mod'[d] = mod[d],
           \A d \in Module : d = m \/ (mod[d].life = "up" /\ mod[d].name # "exe") => m \notin ImportsOf(d)'
    PROVE  ListInv'
<1> DEFINE old == loaded_modules
           Now(d) == ToSet(mod'[d].dependencies) \ {Null}
<1>0. PICK new \in Seq(Module) : new = loaded_modules'
  <2>1. loaded_modules' \in Seq(Module)
    BY Pushed
  <2> QED
    BY <2>1
<1>1. /\ new \in Seq(Module) /\ Len(new) = Len(old) + 1 /\ new[1] = m
      /\ DOMAIN new = 1 .. Len(old) + 1
      /\ \A k \in DOMAIN new : k # 1 => k - 1 \in DOMAIN old /\ new[k] = old[k - 1]
      /\ \A k \in DOMAIN old : k + 1 \in DOMAIN new /\ new[k + 1] = old[k]
  BY <1>0, Pushed
<1>2. Len(old) \in Nat /\ DOMAIN old = 1 .. Len(old)
  OBVIOUS
<1>3. /\ ToSet(old) = {d \in Module : mod[d].life = "up" /\ mod[d].name # "exe"}
      /\ \A i, j \in DOMAIN old : i <= j => old[i] \notin ImportsOf(old[j])
      /\ \A j, k \in DOMAIN old : old[j] = old[k] => j = k
  BY DEF ListInv, InOrderOfDependency
<1>4. \A j \in DOMAIN old : old[j] \in Module /\ mod[old[j]].life = "up" /\ mod[old[j]].name # "exe" /\ old[j] # m
  BY <1>3 DEF ToSet
<1> HIDE DEF old, Now
<1>5. ToSet(new) = ToSet(old) \cup {m}
  <2>1. ASSUME NEW x \in ToSet(new) PROVE x \in ToSet(old) \cup {m}
    <3>1. PICK k \in DOMAIN new : x = new[k]
      BY <2>1 DEF ToSet
    <3> QED
      BY <1>1, <3>1 DEF ToSet
  <2>2. ASSUME NEW x \in ToSet(old) PROVE x \in ToSet(new)
    <3>1. PICK k \in DOMAIN old : x = old[k]
      BY <2>2 DEF ToSet
    <3> QED
      BY <1>1, <3>1 DEF ToSet
  <2>3. m \in ToSet(new)
    <3>1. 1 \in DOMAIN new
      BY <1>1, <1>2
    <3> QED
      BY <1>1, <3>1 DEF ToSet
  <2> QED
    BY <2>1, <2>2, <2>3
<1>6. ToSet(new) = {d \in Module : mod'[d].life = "up" /\ mod'[d].name # "exe"}
  BY <1>3, <1>5
<1>7. ASSUME NEW d \in Module, d # m PROVE Now(d) = ImportsOf(d)
  BY <1>7 DEF ImportsOf, Now
<1>8. ASSUME NEW i \in DOMAIN new, NEW j \in DOMAIN new, i <= j
      PROVE  new[i] \notin Now(new[j])
  <2>1. CASE i = 1
    <3>1. new[j] \in Module /\ (new[j] = m \/ (mod[new[j]].life = "up" /\ mod[new[j]].name # "exe"))
      BY <1>1, <1>4
    <3>2. m \notin Now(new[j])
      BY <3>1 DEF ImportsOf, Now
    <3> QED
      BY <1>1, <2>1, <3>2
  <2>2. CASE i # 1
    <3>1. /\ i - 1 \in DOMAIN old /\ j - 1 \in DOMAIN old /\ i - 1 <= j - 1
          /\ new[i] = old[i - 1] /\ new[j] = old[j - 1]
      BY <1>1, <1>2, <1>8, <2>2
    <3>2. Now(new[j]) = ImportsOf(new[j])
      BY <1>4, <1>7, <3>1
    <3> QED
      BY <1>3, <3>1, <3>2
  <2> QED
    BY <2>1, <2>2
<1>9. ASSUME NEW j \in DOMAIN new, NEW k \in DOMAIN new, new[j] = new[k] PROVE j = k
  <2>1. CASE j = 1 \/ k = 1
    BY <1>1, <1>4, <1>9, <2>1
  <2>2. CASE j # 1 /\ k # 1
    <3>1. /\ j - 1 \in DOMAIN old /\ k - 1 \in DOMAIN old /\ old[j - 1] = old[k - 1] /\ j \in Int /\ k \in Int
      BY <1>1, <1>2, <1>9, <2>2
    <3>2. j - 1 = k - 1
      BY <1>3, <3>1
    <3> QED
      BY <3>1, <3>2
  <2> QED
    BY <2>1, <2>2
<1> QED
  <2>1. \A j \in DOMAIN new : ImportsOf(loaded_modules[j])' = Now(new[j])
    BY <1>0 DEF ImportsOf, Now
  <2> QED
    BY <1>0, <1>6, <1>8, <1>9, <2>1 DEF ListInv, InOrderOfDependency

(* ...and when one goes out.                                                *)
LEMMA ListShrinks ==
    ASSUME ListInv, loaded_modules \in Seq(Module), NEW m \in Module, loaded_modules' = Without(loaded_modules, m),
           mod'[m].life # "up", \A d \in Module : d # m => mod'[d] = mod[d]
    PROVE  ListInv' /\ loaded_modules' \in Seq(Module)
<1> DEFINE old == loaded_modules
           Now(d) == ToSet(mod'[d].dependencies) \ {Null}
<1>1. /\ ToSet(old) = {d \in Module : mod[d].life = "up" /\ mod[d].name # "exe"}
      /\ \A i, j \in DOMAIN old : i <= j => old[i] \notin ImportsOf(old[j])
      /\ \A j, k \in DOMAIN old : old[j] = old[k] => j = k
  BY DEF ListInv, InOrderOfDependency
<1>2. Len(old) \in Nat /\ DOMAIN old = 1 .. Len(old) /\ old \in Seq(Module)
  OBVIOUS
<1>3. CASE m \notin ToSet(old)
  <2>1. loaded_modules' = loaded_modules
    BY <1>3 DEF Without
  <2>2. \A d \in Module :
              /\ mod'[d].life = "up" /\ mod'[d].name # "exe" <=> mod[d].life = "up" /\ mod[d].name # "exe"
              /\ mod[d].life = "up" /\ mod[d].name # "exe" => mod'[d].dependencies = mod[d].dependencies
    BY <1>1, <1>3
  <2> QED
    BY <2>1, <2>2, ListKept
<1>4. CASE m \in ToSet(old)
  <2> DEFINE at == {k \in DOMAIN old : old[k] = m}
  <2>1. loaded_modules' = RemoveAt(old, Min(at))
    BY <1>4 DEF Without
  <2>2. at \in SUBSET Nat /\ at # {}
    <3>1. \E k \in DOMAIN old : old[k] = m
      BY <1>4 DEF ToSet
    <3> QED
      BY <1>2, <3>1
  <2>3. PICK n \in 1 .. Len(old) : n = Min(at) /\ old[n] = m
    <3>1. Min(at) \in at
      BY <2>2, LeastNatural
    <3> QED
      BY <1>2, <3>1
  <2> DEFINE rest == RemoveAt(old, n)
  <2>17. /\ rest \in Seq(Module) /\ Len(rest) = Len(old) - 1
         /\ \A k \in 1 .. Len(old) - 1 : rest[k] = IF k < n THEN old[k] ELSE old[k + 1]
    BY <1>2, ElementRemoved
  <2>18. loaded_modules' = rest
    BY <2>1, <2>3
  <2> HIDE DEF rest
  <2> PICK new \in Seq(Module) : new = loaded_modules'
    BY <2>17, <2>18
  <2>4. /\ new \in Seq(Module) /\ Len(new) = Len(old) - 1
        /\ \A k \in 1 .. Len(old) - 1 : new[k] = IF k < n THEN old[k] ELSE old[k + 1]
    BY <2>17, <2>18
  <2> HIDE DEF old, Now, at
  <2> DEFINE from(k) == IF k < n THEN k ELSE k + 1
  <2>5. DOMAIN new = 1 .. Len(old) - 1
    BY <1>2, <2>4
  <2>6. \A k \in DOMAIN new : from(k) \in DOMAIN old /\ from(k) # n /\ new[k] = old[from(k)] /\ k \in Int
    BY <1>2, <2>3, <2>4, <2>5
  <2>7. \A j, k \in DOMAIN new : j <= k => from(j) <= from(k)
    BY <1>2, <2>5
  <2>8. \A j, k \in DOMAIN new : from(j) = from(k) => j = k
    BY <1>2, <2>5
  <2>9. ASSUME NEW j \in DOMAIN old, j # n PROVE \E k \in DOMAIN new : from(k) = j
    <3>1. CASE j < n
      <4>1. j \in DOMAIN new /\ from(j) = j
        BY <1>2, <2>3, <2>5, <3>1
      <4> QED
        BY <4>1
    <3>2. CASE j > n
      <4>1. j - 1 \in DOMAIN new /\ from(j - 1) = j
        BY <1>2, <2>3, <2>5, <3>2
      <4> QED
        BY <4>1
    <3> QED
      BY <1>2, <2>3, <2>9, <3>1, <3>2
  <2> HIDE DEF from
  <2>10. \A k \in DOMAIN new : new[k] # m
    BY <1>1, <1>2, <2>3, <2>6
  <2>11. ToSet(new) = ToSet(old) \ {m}
    <3>1. ASSUME NEW x \in ToSet(new) PROVE x \in ToSet(old) \ {m}
      BY <2>6, <2>10, <3>1 DEF ToSet
    <3>2. ASSUME NEW x \in ToSet(old), x # m PROVE x \in ToSet(new)
      <4>1. PICK j \in DOMAIN old : x = old[j]
        BY <3>2 DEF ToSet
      <4>2. PICK k \in DOMAIN new : from(k) = j
        BY <2>3, <2>9, <3>2, <4>1
      <4> QED
        BY <2>6, <4>1, <4>2 DEF ToSet
    <3> QED
      BY <3>1, <3>2
  <2>12. ToSet(new) = {d \in Module : mod'[d].life = "up" /\ mod'[d].name # "exe"}
    BY <1>1, <2>11
  <2>13. ASSUME NEW d \in Module, d # m PROVE Now(d) = ImportsOf(d)
    BY <2>13 DEF ImportsOf, Now
  <2>14. ASSUME NEW i \in DOMAIN new, NEW j \in DOMAIN new, i <= j
         PROVE  new[i] \notin Now(new[j])
    <3>1. new[j] \in Module /\ new[j] # m
      BY <2>4, <2>10
    <3>2. Now(new[j]) = ImportsOf(new[j])
      BY <2>13, <3>1
    <3> QED
      BY <1>1, <2>6, <2>7, <2>14, <3>2
  <2>15. ASSUME NEW j \in DOMAIN new, NEW k \in DOMAIN new, new[j] = new[k] PROVE j = k
    BY <1>1, <2>6, <2>8, <2>15
  <2>16. ListInv'
    <3>1. \A j \in DOMAIN new : ImportsOf(loaded_modules[j])' = Now(new[j])
      BY DEF ImportsOf, Now
    <3> QED
      BY <2>12, <2>14, <2>15, <3>1 DEF ListInv, InOrderOfDependency
  <2> QED
    BY <2>4, <2>16
<1> QED
  BY <1>3, <1>4

(* The references stay the same unless a structure being freed gives one    *)
(* back or a table of dependencies changes.                                 *)
LEMMA SameRefs ==
    ASSUME stack \in Seq(Call), NEW n \in Nat, NEW c \in 0 .. 1, Moved(n, c), c = 1 => Top.at # "free",
           \A k \in DOMAIN stack' : k <= n => stack'[k].at # "free",
           \A d, m \in Module : \A i :
               (i \in DOMAIN mod'[d].dependencies /\ mod'[d].dependencies[i] = m) <=>
               (i \in DOMAIN mod[d].dependencies /\ mod[d].dependencies[i] = m)
    PROVE  \A m \in Module : Refs(m)' = Refs(m)
<1> SUFFICES ASSUME NEW m \in Module PROVE Refs(m)' = Refs(m)
  OBVIOUS
<1>1. \A d, i : GivenBack(d, i)' <=> GivenBack(d, i)
  BY GivenBackKept
<1> QED
  BY <1>1, RefsKept

(* A call of the loader returns: what the others find.                      *)
LEMMA ReturnPlaces ==
    ASSUME TableInv, stack # <<>>, Top.at \in {"name", "module", "init", "failed"},
           NEW r \in Module \cup {Null}, NEW m, Return(r), Changes(1, m), main_module' = main_module,
           r \in Module => mod'[r].life = "up" /\ (result' = r => mod'[r].name # "exe")
    PROVE  CallsOk' /\ Places' /\ Unique' /\ ResultInv'
<1>1. /\ Moved(0, 1) /\ result' \in {r, NoResult} /\ stack' = Tail(stack)
      /\ result' # NoResult => roots' = roots /\ stack' # <<>> /\ Top'.at # "init"
      /\ phase' = phase \/ (phase = "start" /\ stack' = <<>> /\ phase' = IF r = Null THEN "ended" ELSE "running")
      /\ phase = "start" /\ stack' = <<>> => phase' # "start"
  BY ReturnIs DEF TableInv, TableTypes
<1>2. /\ stack \in Seq(Call) /\ 1 \in DOMAIN stack /\ Top = stack[1]
      /\ \A k \in DOMAIN stack : k > 1 => Waiting(stack[k])
      /\ Len(stack) > 1 /\ (Loading(Top) \/ Top.at = "failed") => Loading(stack[2])
  BY TopIs
<1>3. phase # "exit" /\ phase' # "exit"
  BY <1>1, <1>2 DEF TableInv, Places
<1>4. \A k \in DOMAIN stack : stack[k].at # "terminate"
  BY <1>3 DEF TableInv, CallsOk, CallOk
<1>5. \A k \in DOMAIN stack' : ~(k <= 0)
  BY <1>1 DEF Moved
<1>6. CallsOk'
  BY <1>1, <1>2, <1>4, <1>5, CallsKept DEF TableInv
<1>7. /\ Len(stack) \in Nat \ {0} /\ DOMAIN stack = 1 .. Len(stack) /\ Len(stack') = Len(stack) - 1
      /\ DOMAIN stack' = 1 .. Len(stack') /\ (stack' # <<>> => Len(stack) > 1)
  <2>1. Len(stack) \in Nat \ {0} /\ DOMAIN stack = 1 .. Len(stack)
    BY <1>2
  <2>2. stack' \in Seq(Call) /\ Len(stack') = Len(stack) - 1
    BY <1>1, <2>1 DEF Moved
  <2> QED
    BY <2>1, <2>2
<1>8. phase' = "start" /\ stack' # <<>> => Len(stack) > 1 /\ phase = "start"
  BY <1>1, <1>7
<1>9. Places'
  <2>1. phase' = "start" /\ stack' # <<>> =>
              IF Len(stack) > 1 THEN phase = "start"
              ELSE stack'[Len(stack')].name = "exe" /\ stack'[Len(stack')].at \in {"module", "failed"}
    BY <1>8
  <2> QED
    <3>1. phase # "ended"
      BY DEF TableInv, Places
    <3>2. phase' = "ended" => stack' = <<>>
      BY <1>1, <3>1
    <3> QED
      BY <1>1, <1>2, <1>3, <1>5, <2>1, <3>2, PlacesKept DEF TableInv
<1>10. Unique'
  BY <1>1, <1>2, <1>5, UniqueKept DEF TableInv
<1>11. ASSUME result' # NoResult
       PROVE  stack' # <<>> /\ Top'.at \in {"module", "name"} /\ Waiting(Top)'
  <2>1. stack' # <<>> /\ Top'.at # "init" /\ Len(stack) > 1
    BY <1>1, <1>7, <1>11
  <2>2. 2 \in DOMAIN stack /\ stack[2] \in Call /\ Top' = stack[2]
    <3>1. 2 \in DOMAIN stack /\ 1 \in DOMAIN stack' /\ 1 - 0 + 1 = 2
      BY <1>7, <2>1
    <3> QED
      BY <1>1, <1>2, <3>1 DEF Moved, Top
  <2>3. Loading(stack[2]) /\ Waiting(stack[2])
    BY <1>2, <2>1, <2>2 DEF Loading
  <2>4. stack[2].at = "module" => mod'[stack[2].mod] = mod[stack[2].mod]
    BY <2>2 DEF TableInv, CallsOk, CallOk, Owner, Changes
  <2> QED
    BY <2>1, <2>2, <2>3, <2>4 DEF Loading, Waiting
<1>12. result' \in Module => mod'[result'].life = "up" /\ mod'[result'].name # "exe"
  BY <1>1, ModuleAssumption DEF NoResult
<1> QED
  BY <1>6, <1>9, <1>10, <1>11, <1>12 DEF ResultInv

(* The program of the process while a call returns to a library, or to it.  *)
LEMMA ReturnExe ==
    ASSUME TableInv, stack # <<>>, Top.at \in {"name", "init", "failed"},
           NEW r \in Module \cup {Null}, Top.at = "failed" => r = Null, Return(r), main_module' = main_module,
           r \in Module => r # main_module,
           \A m \in Module : mod'[m].life = "up" /\ mod'[m].name = "exe" => mod'[m] = mod[m],
           main_module \in Module => mod'[main_module] = mod[main_module]
    PROVE  ExeInv'
<1>1. /\ result' \in {r, NoResult}
      /\ \A m \in Module : m # r => roots'[m] = roots[m]
      /\ phase' = phase \/ (phase = "start" /\ stack' = <<>> /\ phase' = IF r = Null THEN "ended" ELSE "running")
      /\ phase = "start" /\ stack' = <<>> => phase' # "start"
      /\ stack' = Tail(stack)
  BY ReturnIs DEF TableInv, TableTypes
<1>2. phase # "exit"
  BY TopIs DEF TableInv, Places
<1>3. phase' = phase \/ phase' = "ended"
  <2> SUFFICES ASSUME phase = "start", stack' = <<>>, r # Null PROVE FALSE
    BY <1>1
  <2>1. Len(stack) = 1
    <3>1. stack \in Seq(Call)
      BY DEF TableInv, TableTypes
    <3>2. Len(stack') = Len(stack) - 1 /\ Len(stack) \in Nat
      BY <1>1, <3>1, Popped
    <3>3. Len(stack') = 0
      OBVIOUS
    <3> QED
      BY <3>2, <3>3
  <2>2. Top.at = "failed"
    BY <2>1 DEF TableInv, Places, Top
  <2> QED
    BY <2>2
<1>4. ASSUME NEW m \in Module, mod'[m].life = "up", mod'[m].name = "exe"
      PROVE  m = main_module /\ phase' \in {"running", "exit"}
  <2>1. m = main_module /\ phase = "running"
    BY <1>2, <1>4 DEF TableInv, ExeInv
  <2> QED
    BY <1>1, <2>1
<1>5. phase' = "start" => stack' # <<>>
  BY <1>1
<1>6. phase' = "running" => phase = "running"
  BY <1>3
<1>7. phase' # "exit"
  BY <1>2, <1>3
<1>8. main_module \in Module => mod[main_module].name = "exe" /\ mod[main_module].life \in {"new", "up"}
  BY DEF TableInv, ExeInv
<1>9. phase = "running" => main_module \in Module /\ mod[main_module].life = "up" /\ roots[main_module] = 1
  BY DEF TableInv, ExeInv
<1>10. phase' = "running" => main_module \in Module /\ mod'[main_module].life = "up" /\ roots'[main_module] = 1
  BY <1>1, <1>6, <1>9, ModuleAssumption
<1> QED
  BY <1>4, <1>5, <1>7, <1>8, <1>10 DEF ExeInv

(* A call of the loader returns m, with one reference, or nothing.          *)
LEMMA ReturnKeeps ==
    ASSUME TableInv, stack # <<>>, Top.at \in {"name", "module", "init", "failed"},
           NEW m \in Module \cup {Null}, Return(m), Changes(1, m), main_module' = main_module,
           loaded_modules' \in Seq(Module), Owner(Top) => Top.mod = m, result \in Module => result = m,
           \A d, e \in Module : \A i :
               (i \in DOMAIN mod'[d].dependencies /\ mod'[d].dependencies[i] = e) <=>
               (i \in DOMAIN mod[d].dependencies /\ mod[d].dependencies[i] = e),
           m \in Module =>
              /\ mod'[m].life = "up" /\ (mod'[m].name = "exe" => Tail(stack) = <<>> /\ Refs(m) = {})
              /\ mod'[m].refcount + One(result = m) + One(Held(m)) = mod[m].refcount + 1
    PROVE  TableTypes' /\ CallsOk' /\ Places' /\ Unique' /\ Lives' /\ ResultInv' /\ Counts'
<1>1. /\ mod \in [Module -> Structure] /\ roots \in [Module -> Nat] /\ main_module \in Module \cup {Null}
      /\ stack \in Seq(Call) /\ world \in Worlds /\ phase \in {"start", "running", "exit", "ended", "crashed"}
      /\ result \in Module \cup {Null, NoResult}
  BY DEF TableInv, TableTypes
<1>2. mod' \in [Module -> Structure] /\ world' = world /\ \A d \in Module : d # m => mod'[d] = mod[d]
  BY DEF Changes
<1>3. /\ Moved(0, 1) /\ roots' \in [Module -> Nat] /\ result' \in {m, NoResult}
      /\ \A d \in Module : d # m => roots'[d] = roots[d]
      /\ phase' = phase \/ (phase = "start" /\ stack' = <<>> /\ phase' = IF m = Null THEN "ended" ELSE "running")
  BY <1>1, ReturnIs
<1>4. m \in Module => roots'[m] + One(result' = m) = roots[m] + 1
  BY <1>1, ReturnIs
<1>5. result' = m /\ m \in Module => mod'[m].name # "exe"
  <2>1. result' # NoResult => stack' # <<>>
    BY <1>1, ReturnIs
  <2>2. stack' = Tail(stack)
    BY <1>1, ReturnIs
  <2>3. m \in Module => m # NoResult
    BY ModuleAssumption DEF NoResult
  <2> QED
    BY <2>1, <2>2, <2>3
<1>6. CallsOk' /\ Places' /\ Unique' /\ ResultInv'
  BY <1>5, ReturnPlaces
<1>7. Top.at # "free"
  OBVIOUS
<1>8. \A k \in DOMAIN stack' : ~(k <= 0)
  BY <1>3 DEF Moved
<1>9. TableTypes'
  <2>1. stack' \in Seq(Call) /\ phase' \in {"start", "running", "exit", "ended", "crashed"}
    BY <1>1, <1>3 DEF Moved
  <2> QED
    BY <1>1, <1>2, <1>3, <2>1 DEF TableTypes, Structure, Call
<1>10. Lives'
  <2>1. \A d \in Module : roots'[d] > roots[d] => mod'[d].life = "up"
    <3> SUFFICES ASSUME NEW d \in Module, roots'[d] > roots[d], d # m PROVE FALSE
      OBVIOUS
    <3>1. roots'[d] = roots[d] /\ roots[d] \in Nat
      BY <1>1, <1>3
    <3> QED
      BY <3>1
  <2>2. Lives /\ stack \in Seq(Call) /\ Moved(0, 1) /\ roots \in [Module -> Nat] /\ roots' \in [Module -> Nat]
    BY <1>1, <1>3 DEF TableInv
  <2>3. m \in Module =>
              /\ mod'[m].life \in {"new", "in", "down"} =>
                    \E k \in DOMAIN stack' : Owner(stack'[k]) /\ stack'[k].mod = m
              /\ mod'[m].life = "unused" => mod'[m] = Unused
              /\ roots'[m] > 0 => mod'[m].life = "up"
    OBVIOUS
  <2> QED
    BY <2>1, <2>2, <2>3, LivesKept
<1>11. Counts'
  <2>1. \A d \in Module : Refs(d)' = Refs(d)
    <3>1. \A k \in DOMAIN stack' : k <= 0 => stack'[k].at # "free"
      BY <1>8
    <3>2. stack \in Seq(Call) /\ Moved(0, 1) /\ 0 \in Nat /\ 1 \in 0 .. 1
      BY <1>1, <1>3
    <3>3. \A e, f \in Module : \A i :
              (i \in DOMAIN mod'[e].dependencies /\ mod'[e].dependencies[i] = f) <=>
              (i \in DOMAIN mod[e].dependencies /\ mod[e].dependencies[i] = f)
      OBVIOUS
    <3> QED
      BY <1>7, <3>1, <3>2, <3>3, SameRefs
  <2>2. ~Held(m)'
    <3>1. \A k \in DOMAIN stack' : k <= 0 => ~(Holder(stack'[k]) /\ stack'[k].mod = m)
      BY <1>8
    <3>2. \A k \in DOMAIN stack : k > 1 /\ Owner(stack[k]) => stack[k].mod # m
      BY DEF Changes
    <3> QED
      BY <1>1, <1>3, <3>1, <3>2, NotHeld
  <2>3. ASSUME m \in Module
        PROVE  mod'[m].refcount + roots[m] + One(result = m) + One(Held(m)) =
                    mod[m].refcount + roots'[m] + One(result' = m) + One(Held(m)')
    <3>1. One(Held(m)') = 0
      BY <2>2 DEF One
    <3>2. roots[m] \in Int /\ roots'[m] \in Int /\ mod[m].refcount \in Int /\ mod'[m].refcount \in Int
      BY <1>1, <1>2, <1>3, <2>3 DEF Structure
    <3>3. \A P : One(P) \in Int
      BY DEF One
    <3>4. One(result = m) \in Int /\ One(Held(m)) \in Int /\ One(result' = m) \in Int
      BY <3>3
    <3>5. mod'[m].refcount + One(result = m) + One(Held(m)) = mod[m].refcount + 1
      BY <2>3
    <3>6. roots'[m] + One(result' = m) = roots[m] + 1
      BY <1>4, <2>3
    <3> DEFINE a == mod'[m].refcount
               b == mod[m].refcount
               x == roots'[m]
               y == roots[m]
               u == One(result' = m)
               w == One(result = m)
               z == One(Held(m))
    <3>7. a \in Int /\ b \in Int /\ x \in Int /\ y \in Int
      BY <3>2
    <3>8. u \in Int /\ w \in Int /\ z \in Int
      BY <3>4
    <3>9. a + w + z = b + 1 /\ x + u = y + 1
      BY <3>5, <3>6
    <3> HIDE DEF a, b, x, y, u, w, z
    <3>10. a + y + w + z = b + x + u + 0
      BY <3>7, <3>8, <3>9
    <3> QED
      BY <3>1, <3>10 DEF a, b, x, y, u, w, z
  <2>4. Counts /\ mod \in [Module -> Structure] /\ mod' \in [Module -> Structure]
        /\ roots \in [Module -> Nat] /\ roots' \in [Module -> Nat] /\ stack \in Seq(Call) /\ Moved(0, 1)
    BY <1>1, <1>2, <1>3 DEF TableInv
  <2>5. ASSUME NEW d \in Module, d # m
        PROVE  mod'[d] = mod[d] /\ roots'[d] = roots[d] /\ (result' = d <=> result = d)
    <3>1. d # NoResult /\ result # d
      BY <2>5, ModuleAssumption DEF NoResult
    <3> QED
      BY <1>2, <1>3, <2>5, <3>1
  <2>6. Settles(m)
    BY <2>3, <2>5 DEF Settles
  <2>7. \A k \in DOMAIN stack' : k <= 0 /\ Holder(stack'[k]) => stack'[k].mod = m
    BY <1>8
  <2>8. Holder(Top) => Top.mod = m
    BY DEF Holder, Owner
  <2> QED
    BY <2>1, <2>4, <2>6, <2>7, <2>8, CountsKept
<1> QED
  BY <1>6, <1>9, <1>10, <1>11

(* What a call for a name finds before it returns.                          *)
LEMMA NameIs ==
    ASSUME TableInv, stack # <<>>, Top.at = "name"
    PROVE  /\ Top.i = 0 => result = NoResult
           /\ ~Owner(Top) /\ ~Holder(Top) /\ Top.name \in Name /\ Top.depth <= MaxDepth
           /\ \A m \in Module : mod[m].life \in {"unused", "up"} =>
                 /\ ~Held(m) /\ \A k \in DOMAIN stack : k > 1 /\ Owner(stack[k]) => stack[k].mod # m
<1>1. Top.i = 0 => result = NoResult
  BY DEF TableInv, ResultInv, Waiting
<1>2. ~Owner(Top) /\ ~Holder(Top)
  BY DEF Owner, Holder
<1>3. Top.name \in Name /\ Top.depth <= MaxDepth
  BY TopIs DEF CallOk
<1>4. ASSUME NEW m \in Module, mod[m].life \in {"unused", "up"}, NEW k \in DOMAIN stack, Owner(stack[k])
      PROVE  stack[k].mod # m
  BY <1>2, <1>4, NoCallAbout DEF Top
<1>5. ASSUME NEW m \in Module, mod[m].life \in {"unused", "up"}
      PROVE  ~Held(m)
  BY <1>4, <1>5 DEF Held, Holder, Owner
<1> QED
  BY <1>1, <1>2, <1>3, <1>4, <1>5

(* A name that is loaded already: one more reference.                       *)
LEMMA FoundKeeps == ASSUME TableInv, NameFound PROVE TableInv'
<1>1. /\ stack # <<>> /\ Top.at = "name" /\ Top.i = 0 /\ Loaded(Top.name) # {}
      /\ UNCHANGED <<world, loaded_modules, main_module>>
  BY DEF NameFound, InCall
<1>2. /\ mod \in [Module -> Structure] /\ loaded_modules \in Seq(Module)
  BY DEF TableInv, TableTypes
<1>3. PICK m \in Module : /\ mod' = [mod EXCEPT ![m].refcount = @ + 1] /\ Return(m)
                          /\ mod[m].life = "up" /\ mod[m].name # "exe"
  <2>1. Loaded(Top.name) \in SUBSET Nat
    BY <1>2 DEF Loaded
  <2>2. Min(Loaded(Top.name)) \in DOMAIN loaded_modules
    BY <1>1, <2>1, LeastNatural DEF Loaded
  <2> DEFINE m == loaded_modules[Min(Loaded(Top.name))]
  <2>3. m \in Module /\ m \in ToSet(loaded_modules)
    BY <1>2, <2>2 DEF ToSet
  <2>4. mod[m].life = "up" /\ mod[m].name # "exe"
    BY <2>3 DEF TableInv, ListInv, InOrderOfDependency
  <2>5. mod' = [mod EXCEPT ![m].refcount = @ + 1] /\ Return(m)
    BY DEF NameFound
  <2> HIDE DEF m
  <2> QED
    BY <2>3, <2>4, <2>5
<1>4. /\ mod' \in [Module -> Structure] /\ \A d \in Module : d # m => mod'[d] = mod[d]
      /\ mod'[m].refcount = mod[m].refcount + 1 /\ mod'[m].life = mod[m].life /\ mod'[m].name = mod[m].name
      /\ mod'[m].dependencies = mod[m].dependencies
  <2>1. mod'[m] = [mod[m] EXCEPT !.refcount = @ + 1] /\ mod[m] \in Structure
    BY <1>2, <1>3
  <2>2. mod'[m] \in Structure /\ mod'[m].refcount = mod[m].refcount + 1 /\ mod'[m].life = mod[m].life
        /\ mod'[m].name = mod[m].name /\ mod'[m].dependencies = mod[m].dependencies
    BY <2>1 DEF Structure
  <2> QED
    BY <1>2, <1>3, <2>2
<1>5. ~Owner(Top) /\ ~Held(m) /\ result = NoResult
  BY <1>1, <1>3, NameIs
<1>6. Changes(1, m)
  BY <1>1, <1>3, <1>4, NameIs DEF Changes
<1>7. TableTypes' /\ CallsOk' /\ Places' /\ Unique' /\ Lives' /\ ResultInv' /\ Counts'
  <2>1. result \notin Module
    BY <1>5, ModuleAssumption DEF NoResult
  <2>2. mod'[m].refcount + One(result = m) + One(Held(m)) = mod[m].refcount + 1
    <3>1. One(result = m) = 0 /\ One(Held(m)) = 0 /\ mod[m].refcount \in Int
      BY <1>2, <1>5, <2>1 DEF One, Structure
    <3> QED
      BY <1>4, <3>1
  <2>3. \A d, e \in Module : \A i :
               (i \in DOMAIN mod'[d].dependencies /\ mod'[d].dependencies[i] = e) <=>
               (i \in DOMAIN mod[d].dependencies /\ mod[d].dependencies[i] = e)
    BY <1>4
  <2> QED
    BY <1>1, <1>2, <1>3, <1>4, <1>5, <1>6, <2>1, <2>2, <2>3, ReturnKeeps
<1>8. ListInv'
  <2>1. \A d \in Module : mod'[d].life = mod[d].life /\ mod'[d].name = mod[d].name /\ mod'[d].dependencies = mod[d].dependencies
    BY <1>4
  <2> QED
    BY <1>1, <1>2, <2>1, ListKept DEF TableInv
<1>9. ExeInv'
  <2>1. m # main_module
    BY <1>3 DEF TableInv, ExeInv
  <2>2. \A d \in Module : mod'[d].life = "up" /\ mod'[d].name = "exe" => mod'[d] = mod[d]
    BY <1>3, <1>4
  <2> QED
    BY <1>1, <1>3, <1>4, <2>1, <2>2, ReturnExe
<1> QED
  BY <1>7, <1>8, <1>9 DEF TableInv

(* The library is returned that the file gave.                              *)
LEMMA FileKeeps == ASSUME TableInv, FileLoaded PROVE TableInv'
<1>1. /\ stack # <<>> /\ Top.at = "name" /\ result \in Module /\ Return(result)
      /\ UNCHANGED <<world, mod, loaded_modules, main_module>>
  BY DEF FileLoaded, InCall
<1>2. /\ mod \in [Module -> Structure] /\ loaded_modules \in Seq(Module)
  BY DEF TableInv, TableTypes
<1>3. PICK m \in Module : m = result
  BY <1>1
<1>4. mod[m].life = "up" /\ mod[m].name # "exe"
  BY <1>1, <1>3 DEF TableInv, ResultInv
<1>5. ~Owner(Top) /\ ~Held(m)
  BY <1>1, <1>4, NameIs
<1>6. Changes(1, m)
  BY <1>1, <1>2, <1>4, NameIs DEF Changes
<1>7. TableTypes' /\ CallsOk' /\ Places' /\ Unique' /\ Lives' /\ ResultInv' /\ Counts'
  <2>1. mod'[m].refcount + One(result = m) + One(Held(m)) = mod[m].refcount + 1
    <3>1. One(result = m) = 1 /\ One(Held(m)) = 0 /\ mod[m].refcount \in Int
      BY <1>2, <1>3, <1>5 DEF One, Structure
    <3> QED
      BY <1>1, <3>1
  <2> QED
    BY <1>1, <1>2, <1>3, <1>4, <1>5, <1>6, <2>1, ReturnKeeps
<1>8. ListInv'
  BY <1>1, <1>2, ListKept DEF TableInv
<1>9. ExeInv'
  <2>1. m # main_module
    BY <1>4 DEF TableInv, ExeInv
  <2> QED
    BY <1>1, <1>3, <2>1, ReturnExe
<1> QED
  BY <1>7, <1>8, <1>9 DEF TableInv

(* Nothing is returned by a load that has failed.                           *)
LEMMA FailureKeeps == ASSUME TableInv, FailureReturns PROVE TableInv'
<1>1. /\ stack # <<>> /\ Top.at = "failed" /\ Return(Null)
      /\ UNCHANGED <<world, mod, loaded_modules, main_module>>
  BY DEF FailureReturns, InCall
<1>2. /\ mod \in [Module -> Structure] /\ loaded_modules \in Seq(Module)
  BY DEF TableInv, TableTypes
<1>3. result \notin Module /\ Null \notin Module /\ ~Owner(Top)
  <2>1. result = NoResult
    BY <1>1 DEF TableInv, ResultInv
  <2>2. result \notin Module /\ Null \notin Module
    BY <2>1, NotModules
  <2> QED
    BY <1>1, <2>2 DEF Owner
<1>4. \A k \in DOMAIN stack : Owner(stack[k]) => stack[k].mod # Null
  BY <1>3, NoCallAbout
<1>5. Changes(1, Null)
  BY <1>1, <1>2, <1>4 DEF Changes
<1>6. TableTypes' /\ CallsOk' /\ Places' /\ Unique' /\ Lives' /\ ResultInv' /\ Counts'
  BY <1>1, <1>2, <1>3, <1>5, ReturnKeeps
<1>7. ListInv'
  BY <1>1, <1>2, ListKept DEF TableInv
<1>8. ExeInv'
  BY <1>1, <1>3, ReturnExe
<1> QED
  BY <1>6, <1>7, <1>8 DEF TableInv

(* A library that is up, or comes up, has given nothing back.               *)
LEMMA NotImported ==
    ASSUME TableInv, NEW m \in Module, Refs(m) = {}, NEW d \in Module, mod[d].life \in {"in", "up"}
    PROVE  m \notin ImportsOf(d)
<1> SUFFICES ASSUME m \in ImportsOf(d) PROVE FALSE
  OBVIOUS
<1>1. PICK i \in DOMAIN mod[d].dependencies : mod[d].dependencies[i] = m
  BY DEF ImportsOf, ToSet
<1>2. ~GivenBack(d, i)
  <2> SUFFICES ASSUME NEW k \in DOMAIN stack, stack[k].at = "free", stack[k].mod = d PROVE FALSE
    BY DEF GivenBack
  <2>1. mod[d].life \in {"new", "down"}
    BY DEF TableInv, CallsOk, CallOk
  <2> QED
    BY <2>1
<1>3. <<d, i>> \in Refs(m)
  BY <1>1, <1>2, InRefs
<1> QED
  BY <1>3

(* What malloc gives.                                                       *)
LEMMA FreshIs ==
    ASSUME TableInv, FreeModules # {}
    PROVE  LET m == Min(FreeModules) IN
           /\ m \in Module /\ mod[m] = Unused /\ mod[m].life = "unused" /\ roots[m] = 0
           /\ result # m /\ main_module # m /\ Refs(m) = {} /\ ~Held(m)
           /\ \A k \in DOMAIN stack : Owner(stack[k]) => stack[k].mod # m
<1> DEFINE m == Min(FreeModules)
<1>1. m \in Module /\ mod[m].life = "unused"
  <2>1. FreeModules \in SUBSET Nat
    BY ModuleAssumption DEF FreeModules
  <2>2. m \in FreeModules
    BY <2>1, LeastNatural
  <2> QED
    BY <2>2 DEF FreeModules
<1> HIDE DEF m
<1>2. mod[m] = Unused
  BY <1>1 DEF TableInv, Lives
<1>3. roots[m] = 0
  <2>1. ~(roots[m] > 0) /\ roots[m] \in Nat
    BY <1>1 DEF TableInv, Lives, TableTypes
  <2> QED
    BY <2>1
<1>4. result # m
  BY <1>1 DEF TableInv, ResultInv
<1>5. main_module # m
  BY <1>1 DEF TableInv, ExeInv
<1>6. Refs(m) = {}
  BY <1>1 DEF TableInv, Counts
<1>7. ASSUME NEW k \in DOMAIN stack, Owner(stack[k]) PROVE stack[k].mod # m
  BY <1>1, <1>7, NoCallAbout
<1>8. ~Held(m)
  BY <1>7 DEF Held, Holder, Owner
<1> QED
  BY <1>1, <1>2, <1>3, <1>4, <1>5, <1>6, <1>7, <1>8 DEF m

(* A native library, or nothing.                                            *)
LEMMA NativeKeeps == ASSUME TableInv, loadNativeModule PROVE TableInv'
<1>1. stack # <<>> /\ Top.at = "name" /\ UNCHANGED <<world, main_module>>
  BY DEF loadNativeModule, InCall
<1>2. /\ mod \in [Module -> Structure] /\ loaded_modules \in Seq(Module)
  BY DEF TableInv, TableTypes
<1>3. ~Owner(Top) /\ Top.name \in Name /\ result \notin Module /\ Null \notin Module /\ Top.name # "exe"
  <2>1. result = NoResult \/ result = Null
    BY <1>1, NameIs DEF loadNativeModule
  <2>2. ~Owner(Top) /\ Top.name \in Name
    BY <1>1, NameIs
  <2> QED
    BY <2>1, <2>2, NotModules
<1>4. CASE FreeModules # {} /\ Top.name \in world.native
  <2>1. PICK m \in Module :
          /\ mod' = [mod EXCEPT ![m] = New(Top.name, <<>>, TRUE, "up")]
          /\ loaded_modules' = <<m>> \o loaded_modules
          /\ Return(m)
          /\ mod[m] = Unused /\ mod[m].life = "unused" /\ main_module # m /\ Refs(m) = {} /\ ~Held(m)
          /\ \A k \in DOMAIN stack : Owner(stack[k]) => stack[k].mod # m
    BY <1>4, FreshIs DEF loadNativeModule
  <2> DEFINE s == [name |-> Top.name, refcount |-> 1, dependencies |-> <<>>, native |-> TRUE, life |-> "up"]
  <2>2. New(Top.name, <<>>, TRUE, "up") = s
    BY DEF New
  <2>3. s \in Structure
    BY <1>3 DEF Structure
  <2>4. s.name # "exe" /\ s.refcount = 1 /\ s.dependencies = <<>> /\ s.life = "up"
    BY <1>3
  <2> HIDE DEF s
  <2>5. mod' \in [Module -> Structure] /\ mod'[m] = s /\ \A d \in Module : d # m => mod'[d] = mod[d]
    BY <1>2, <2>1, <2>2, <2>3
  <2>6. mod[m].dependencies = <<>> /\ mod[m].refcount = 0 /\ mod[m].life # "up"
    BY <2>1 DEF Unused
  <2>7. Changes(1, m)
    BY <1>1, <2>1, <2>5 DEF Changes
  <2>8. loaded_modules' \in Seq(Module)
    BY <1>2, <2>1
  <2>9. TableTypes' /\ CallsOk' /\ Places' /\ Unique' /\ Lives' /\ ResultInv' /\ Counts'
    <3>1. mod'[m].refcount + One(result = m) + One(Held(m)) = mod[m].refcount + 1
      <4>1. One(result = m) = 0 /\ One(Held(m)) = 0
        BY <1>3, <2>1 DEF One
      <4> QED
        BY <2>4, <2>5, <2>6, <4>1
    <3>2. \A d \in Module : mod'[d].dependencies = mod[d].dependencies
      BY <2>4, <2>5, <2>6
    <3>3. mod'[m].life = "up" /\ mod'[m].name # "exe"
      BY <2>4, <2>5
    <3> QED
      BY <1>1, <1>3, <2>1, <2>7, <2>8, <3>1, <3>2, <3>3, ReturnKeeps
  <2>10. ListInv'
    <3>1. ASSUME NEW d \in Module, d = m \/ (mod[d].life = "up" /\ mod[d].name # "exe")
          PROVE  m \notin ImportsOf(d)'
      <4>1. CASE d = m
        BY <2>4, <2>5, <4>1 DEF ImportsOf, ToSet
      <4>2. CASE d # m
        <5>1. m \notin ImportsOf(d)
          BY <2>1, <3>1, <4>2, NotImported
        <5> QED
          BY <2>5, <4>2, <5>1 DEF ImportsOf
      <4> QED
        BY <4>1, <4>2
    <3>2. mod'[m].life = "up" /\ mod'[m].name # "exe" /\ mod[m].life # "up"
      BY <2>4, <2>5, <2>6
    <3> QED
      BY <1>2, <2>1, <2>5, <3>1, <3>2, ListGrows DEF TableInv
  <2>11. ExeInv'
    <3>1. \A d \in Module : mod'[d].life = "up" /\ mod'[d].name = "exe" => mod'[d] = mod[d]
      BY <2>4, <2>5
    <3>2. main_module \in Module => mod'[main_module] = mod[main_module]
      BY <2>1, <2>5
    <3> QED
      BY <1>1, <2>1, <3>1, <3>2, ReturnExe
  <2> QED
    BY <2>9, <2>10, <2>11 DEF TableInv
<1>5. CASE ~(FreeModules # {} /\ Top.name \in world.native)
  <2>1. Return(Null) /\ UNCHANGED <<mod, loaded_modules>>
    BY <1>5 DEF loadNativeModule
  <2>2. \A k \in DOMAIN stack : Owner(stack[k]) => stack[k].mod # Null
    BY <1>3, NoCallAbout
  <2>3. Changes(1, Null)
    BY <1>1, <1>2, <2>1, <2>2 DEF Changes
  <2>4. TableTypes' /\ CallsOk' /\ Places' /\ Unique' /\ Lives' /\ ResultInv' /\ Counts'
    BY <1>1, <1>2, <1>3, <2>1, <2>3, ReturnKeeps
  <2>5. ListInv'
    BY <1>2, <2>1, ListKept DEF TableInv
  <2>6. ExeInv'
    BY <1>1, <1>3, <2>1, ReturnExe
  <2> QED
    BY <2>4, <2>5, <2>6 DEF TableInv
<1> QED
  BY <1>4, <1>5

(* A library has been initialised.                                          *)
LEMMA InitKeeps == ASSUME TableInv, InitReturns PROVE TableInv'
<1>1. /\ stack # <<>> /\ Top.at = "init" /\ UNCHANGED <<world, main_module>>
      /\ mod' = [mod EXCEPT ![Top.mod].life = "up"]
      /\ loaded_modules' = <<Top.mod>> \o loaded_modules
      /\ Return(Top.mod)
  BY DEF InitReturns, InCall
<1>2. /\ mod \in [Module -> Structure] /\ loaded_modules \in Seq(Module) /\ Owner(Top) /\ Holder(Top)
  BY <1>1 DEF TableInv, TableTypes, Owner, Holder
<1>3. PICK m \in Module : m = Top.mod
  BY <1>2, TopIs, <1>1 DEF CallOk
<1>4. mod[m].life = "in" /\ mod[m].name # "exe"
  BY <1>1, <1>3, TopIs DEF CallOk
<1>5. \A k \in DOMAIN stack : k > 1 /\ Owner(stack[k]) => stack[k].mod # m
  BY <1>1, <1>2, <1>3, TopIs
<1>6. Held(m) /\ result = NoResult /\ result # m /\ Refs(m) = {}
  <2>1. result = NoResult
    BY <1>1 DEF TableInv, ResultInv
  <2>2. Held(m)
    BY <1>1, <1>2, <1>3, TopIs DEF Held
  <2>3. Refs(m) = {}
    BY <1>4 DEF TableInv, Counts
  <2> QED
    BY <2>1, <2>2, <2>3, NotModules
<1>7. /\ mod' \in [Module -> Structure] /\ \A d \in Module : d # m => mod'[d] = mod[d]
      /\ mod'[m].refcount = mod[m].refcount /\ mod'[m].life = "up" /\ mod'[m].name = mod[m].name
      /\ mod'[m].dependencies = mod[m].dependencies
  <2>1. mod'[m] = [mod[m] EXCEPT !.life = "up"] /\ mod[m] \in Structure
    BY <1>1, <1>2, <1>3
  <2>2. mod'[m] \in Structure /\ mod'[m].refcount = mod[m].refcount /\ mod'[m].life = "up"
        /\ mod'[m].name = mod[m].name /\ mod'[m].dependencies = mod[m].dependencies
    BY <2>1 DEF Structure
  <2> QED
    BY <1>1, <1>2, <1>3, <2>2
<1>8. Changes(1, m)
  BY <1>1, <1>5, <1>7 DEF Changes
<1>9. loaded_modules' \in Seq(Module)
  BY <1>1, <1>2, <1>3
<1>10. TableTypes' /\ CallsOk' /\ Places' /\ Unique' /\ Lives' /\ ResultInv' /\ Counts'
  <2>1. mod'[m].refcount + One(result = m) + One(Held(m)) = mod[m].refcount + 1
    <3>1. One(result = m) = 0 /\ One(Held(m)) = 1 /\ mod[m].refcount \in Int
      BY <1>2, <1>6 DEF One, Structure
    <3> QED
      BY <1>7, <3>1
  <2>2. \A d \in Module : mod'[d].dependencies = mod[d].dependencies
    BY <1>7
  <2>3. result \notin Module
    BY <1>6, NotModules
  <2> QED
    BY <1>1, <1>3, <1>4, <1>7, <1>8, <1>9, <2>1, <2>2, <2>3, ReturnKeeps
<1>11. ListInv'
  <2>1. ASSUME NEW d \in Module, d = m \/ (mod[d].life = "up" /\ mod[d].name # "exe")
        PROVE  m \notin ImportsOf(d)'
    <3>1. m \notin ImportsOf(d)
      BY <1>4, <1>6, <2>1, NotImported
    <3>2. mod'[d].dependencies = mod[d].dependencies
      BY <1>7
    <3> QED
      BY <3>1, <3>2 DEF ImportsOf
  <2>2. mod[m].life # "up" /\ mod'[m].name # "exe"
    BY <1>4, <1>7
  <2> QED
    BY <1>1, <1>2, <1>3, <1>7, <2>1, <2>2, ListGrows DEF TableInv
<1>12. ExeInv'
  <2>1. main_module # m
    BY <1>4 DEF TableInv, ExeInv
  <2>2. \A d \in Module : mod'[d].life = "up" /\ mod'[d].name = "exe" => mod'[d] = mod[d]
    BY <1>4, <1>7
  <2> QED
    BY <1>1, <1>3, <1>7, <2>1, <2>2, ReturnExe
<1> QED
  BY <1>10, <1>11, <1>12 DEF TableInv

(* What a call that loads a file finds.                                     *)
LEMMA LoadIs ==
    ASSUME TableInv, InCall("module")
    PROVE  \E m \in Module :
              /\ m = Top.mod /\ stack # <<>> /\ Top.at = "module" /\ Owner(Top) /\ Holder(Top) /\ Held(m)
              /\ mod[m].life = "new" /\ mod[m].name = Top.name /\ Refs(m) = {} /\ roots[m] = 0 /\ result # m
              /\ \A k \in DOMAIN stack : k > 1 /\ Owner(stack[k]) => stack[k].mod # m
              /\ Top.name = "exe" => m = main_module /\ Len(stack) = 1 /\ Tail(stack) = <<>>
              /\ phase \in {"start", "running"}
<1>1. stack # <<>> /\ Top.at = "module" /\ Owner(Top) /\ Holder(Top) /\ phase # "crashed"
  BY DEF InCall, Owner, Holder
<1>2. PICK m \in Module : m = Top.mod
  BY <1>1, TopIs DEF CallOk
<1>3. mod[m].life = "new" /\ mod[m].name = Top.name /\ (Top.name = "exe" => m = main_module)
  BY <1>1, <1>2, TopIs DEF CallOk
<1>4. Held(m)
  BY <1>1, <1>2, TopIs DEF Held
<1>5. Refs(m) = {} /\ result # m
  BY <1>3 DEF TableInv, Counts, ResultInv
<1>6. roots[m] = 0
  <2>1. ~(roots[m] > 0) /\ roots[m] \in Nat
    BY <1>3 DEF TableInv, Lives, TableTypes
  <2> QED
    BY <2>1
<1>7. Top.name = "exe" => Len(stack) = 1 /\ Tail(stack) = <<>>
  <2>1. stack \in Seq(Call) /\ 1 \in DOMAIN stack /\ Top = stack[1]
    BY <1>1, TopIs
  <2>2. Top.name = "exe" => Len(stack) = 1
    BY <1>1, <2>1 DEF TableInv, Places
  <2>3. Len(Tail(stack)) = Len(stack) - 1 /\ Tail(stack) \in Seq(Call)
    BY <1>1, <2>1, Popped
  <2> QED
    BY <2>2, <2>3
<1>8. phase \in {"start", "running"}
  <2>1. phase # "exit" /\ phase # "ended"
    BY <1>1, TopIs DEF TableInv, Places
  <2> QED
    BY <1>1, <2>1 DEF TableInv, TableTypes
<1> QED
  BY <1>1, <1>2, <1>3, <1>4, <1>5, <1>6, <1>7, <1>8, TopIs

(* The program has been loaded.                                             *)
LEMMA ProgramKeeps == ASSUME TableInv, ModuleComplete, Top.name = "exe" PROVE TableInv'
<1>1. /\ InCall("module") /\ result = NoResult
      /\ mod' = [mod EXCEPT ![Top.mod].life = "up"] /\ Return(Top.mod)
      /\ UNCHANGED <<world, loaded_modules, main_module>>
  BY DEF ModuleComplete
<1>2. PICK m \in Module :
              /\ m = Top.mod /\ stack # <<>> /\ Top.at = "module" /\ Owner(Top) /\ Holder(Top) /\ Held(m)
              /\ mod[m].life = "new" /\ mod[m].name = Top.name /\ Refs(m) = {} /\ roots[m] = 0 /\ result # m
              /\ \A k \in DOMAIN stack : k > 1 /\ Owner(stack[k]) => stack[k].mod # m
              /\ Top.name = "exe" => m = main_module /\ Len(stack) = 1 /\ Tail(stack) = <<>>
              /\ phase \in {"start", "running"}
  BY <1>1, LoadIs
<1>3. mod \in [Module -> Structure] /\ loaded_modules \in Seq(Module) /\ stack \in Seq(Call) /\ roots \in [Module -> Nat]
  BY DEF TableInv, TableTypes
<1>4. /\ mod' \in [Module -> Structure] /\ \A d \in Module : d # m => mod'[d] = mod[d]
      /\ mod'[m].refcount = mod[m].refcount /\ mod'[m].life = "up" /\ mod'[m].name = mod[m].name
      /\ mod'[m].dependencies = mod[m].dependencies
  <2>1. mod'[m] = [mod[m] EXCEPT !.life = "up"] /\ mod[m] \in Structure
    BY <1>1, <1>2, <1>3
  <2>2. mod'[m] \in Structure /\ mod'[m].refcount = mod[m].refcount /\ mod'[m].life = "up"
        /\ mod'[m].name = mod[m].name /\ mod'[m].dependencies = mod[m].dependencies
    BY <2>1 DEF Structure
  <2> QED
    BY <1>1, <1>2, <1>3, <2>2
<1>5. Changes(1, m)
  BY <1>1, <1>2, <1>4 DEF Changes
<1>6. TableTypes' /\ CallsOk' /\ Places' /\ Unique' /\ Lives' /\ ResultInv' /\ Counts'
  <2>1. mod'[m].refcount + One(result = m) + One(Held(m)) = mod[m].refcount + 1
    <3>1. One(result = m) = 0 /\ One(Held(m)) = 1 /\ mod[m].refcount \in Int
      BY <1>2, <1>3 DEF One, Structure
    <3> QED
      BY <1>4, <3>1
  <2>2. \A d \in Module : mod'[d].dependencies = mod[d].dependencies
    BY <1>4
  <2>3. result \notin Module
    BY <1>1, NotModules
  <2> QED
    BY <1>1, <1>2, <1>3, <1>4, <1>5, <2>1, <2>2, <2>3, ReturnKeeps
<1>7. ListInv'
  <2>1. \A d \in Module :
              /\ mod'[d].life = "up" /\ mod'[d].name # "exe" <=> mod[d].life = "up" /\ mod[d].name # "exe"
              /\ mod[d].life = "up" /\ mod[d].name # "exe" => mod'[d].dependencies = mod[d].dependencies
    BY <1>2, <1>4
  <2> QED
    BY <1>1, <1>3, <2>1, ListKept DEF TableInv
<1>8. ExeInv'
  <2>1. phase = "start"
    <3>1. phase # "running"
      BY <1>2 DEF TableInv, ExeInv
    <3> QED
      BY <1>2, <3>1
  <2>2. stack' = <<>> /\ phase' = "running" /\ roots'[m] + One(result' = m) = roots[m] + 1
        /\ result' \in {m, NoResult} /\ (result' # NoResult => stack' # <<>>)
    BY <1>1, <1>2, <1>3, <2>1, NotModules, ReturnIs
  <2>3. roots'[m] = 1
    <3>1. One(result' = m) = 0
      BY <2>2, NotModules DEF One
    <3>2. roots'[m] \in Nat
      BY <1>6 DEF TableTypes
    <3> QED
      BY <1>2, <2>2, <3>1, <3>2
  <2>4. m = main_module /\ main_module' = m /\ mod'[m].name = "exe"
    BY <1>1, <1>2, <1>4
  <2>5. ASSUME NEW d \in Module, mod'[d].life = "up", mod'[d].name = "exe" PROVE d = m
    <3> SUFFICES ASSUME d # m PROVE FALSE
      OBVIOUS
    <3>1. mod[d].life = "up" /\ mod[d].name = "exe"
      BY <1>4, <2>5
    <3> QED
      BY <2>1, <3>1 DEF TableInv, ExeInv
  <2> QED
    BY <1>4, <2>2, <2>3, <2>4, <2>5 DEF ExeInv
<1> QED
  BY <1>6, <1>7, <1>8 DEF TableInv

(* A call for the name of a library begins.                                 *)
LEMMA AskKeeps ==
    ASSUME TableInv, NEW name \in Name, NEW depth \in 0 .. MaxDepth,
           stack' = <<Frame("name", name, depth, Null, 0)>> \o stack, result = NoResult,
           UNCHANGED <<world, mod, loaded_modules, main_module, result, roots, phase>>,
           IF stack = <<>> THEN phase = "running"
           ELSE Top.at \in {"module", "init"} /\ Waiting(Top) /\ phase \in {"start", "running"}
    PROVE  TableInv'
<1> DEFINE f == Frame("name", name, depth, Null, 0)
<1>1. f \in Call /\ f.at = "name" /\ f.name = name /\ f.depth = depth /\ f.i = 0
  <2>1. depth \in 0 .. MaxDepth + 1
    BY ModuleAssumption
  <2> QED
    BY <2>1 DEF Frame, Call
<1> HIDE DEF f
<1>2. /\ mod \in [Module -> Structure] /\ loaded_modules \in Seq(Module) /\ stack \in Seq(Call)
      /\ roots \in [Module -> Nat]
  BY DEF TableInv, TableTypes
<1>3. Moved(1, 0) /\ stack'[1] = f /\ 1 \in DOMAIN stack' /\ stack' \in Seq(Call)
  BY <1>1, <1>2, PushMoves DEF f, Moved
<1>4. \A k \in DOMAIN stack' : k <= 1 => k = 1 /\ stack'[k] = f
  <2>1. \A k \in DOMAIN stack' : k \in Nat \ {0}
    BY <1>3
  <2> QED
    BY <1>3, <2>1
<1>5. Changes(0, Null)
  <2>1. \A k \in DOMAIN stack : Owner(stack[k]) => stack[k].mod # Null
    BY NoCallAbout, NotModules
  <2> QED
    BY <1>2, <2>1 DEF Changes
<1>6. TableTypes'
  BY <1>3 DEF TableInv, TableTypes, Structure, Call
<1>7. CallsOk'
  <2>1. \A k \in DOMAIN stack' : k <= 1 => CallOk(stack[k])'
    BY <1>1, <1>4 DEF CallOk, Owner
  <2>2. \A k \in DOMAIN stack : k > 0 /\ stack[k].at = "terminate" => phase' = "exit"
    BY DEF TableInv, CallsOk, CallOk
  <2> QED
    BY <1>2, <1>3, <1>5, <2>1, <2>2, CallsKept DEF TableInv
<1>8. Places'
  <2>1. phase \in {"start", "running"} /\ phase' = phase
    BY DEF TableInv, TableTypes
  <2>2. Len(stack) > 0 \/ phase = "running"
    BY <1>2
  <2>3. \A k \in DOMAIN stack' : k <= 1 =>
              /\ k # 1 => Waiting(stack[k])'
              /\ stack'[k].at = "terminate" => k = Len(stack')
              /\ (Loading(stack'[k]) \/ stack'[k].at = "failed") /\ k # Len(stack') => Loading(stack'[k + 1])
              /\ stack'[k].at = "module" /\ stack'[k].name = "exe" => k = Len(stack')
    <3> SUFFICES 1 # Len(stack') => Loading(stack'[2])
      BY <1>1, <1>4
    <3> SUFFICES ASSUME 1 # Len(stack') PROVE Loading(stack'[2])
      OBVIOUS
    <3>1. Len(stack') = Len(stack) + 1 /\ Len(stack) \in Nat
      BY <1>2, <1>3 DEF Moved
    <3>2. stack # <<>> /\ 1 \in DOMAIN stack
      BY <1>2, <3>1
    <3>3. stack'[2] = stack[1]
      BY <1>3, <3>2 DEF Moved
    <3> QED
      BY <3>2, <3>3 DEF Loading, Top
  <2>4. 1 \in 0 .. 2 /\ 0 \in 0 .. 1
    OBVIOUS
  <2> QED
    BY <1>2, <1>3, <1>5, <2>1, <2>2, <2>3, <2>4, PlacesKept DEF TableInv
<1>9. Unique'
  <2>1. ~Owner(f) /\ ~Holder(f)
    BY <1>1 DEF Owner, Holder
  <2> QED
    BY <1>2, <1>3, <1>4, <2>1, UniqueKept DEF TableInv
<1>10. Lives'
  <2>1. \A d \in Module : ~(roots'[d] > roots[d])
    BY <1>2
  <2>2. \A d \in Module : roots'[d] > roots[d] => mod'[d].life = "up"
    BY <2>1
  <2>3. Lives /\ Null \notin Module /\ roots' \in [Module -> Nat] /\ 0 \in 0 .. 1 /\ 1 \in Nat
    BY <1>2, NotModules DEF TableInv
  <2> QED
    BY <1>2, <1>3, <1>5, <2>2, <2>3, LivesKept
<1>11. ResultInv' /\ result' # Null
  BY NotModules DEF ResultInv
<1>12. Counts'
  <2>1. \A d \in Module : Refs(d)' = Refs(d)
    <3>1. \A k \in DOMAIN stack' : k <= 1 => stack'[k].at # "free"
      BY <1>1, <1>4
    <3>2. \A d, m \in Module : \A i :
               (i \in DOMAIN mod'[d].dependencies /\ mod'[d].dependencies[i] = m) <=>
               (i \in DOMAIN mod[d].dependencies /\ mod[d].dependencies[i] = m)
      OBVIOUS
    <3>3. 0 \in 0 .. 1 /\ 1 \in Nat /\ (0 = 1 => Top.at # "free")
      OBVIOUS
    <3>4. stack \in Seq(Call) /\ Moved(1, 0)
      BY <1>2, <1>3
    <3> QED
      BY <3>1, <3>2, <3>3, <3>4, SameRefs
  <2>2. Settles(Null)
    BY NotModules DEF Settles
  <2>3. \A k \in DOMAIN stack' : k <= 1 => ~Holder(stack'[k])
    BY <1>1, <1>4 DEF Holder
  <2> QED
    BY <1>2, <1>3, <2>1, <2>2, <2>3, CountsKept DEF TableInv
<1>13. ListInv'
  BY <1>2, ListKept DEF TableInv
<1>14. ExeInv'
  <2>1. phase # "exit"
    BY DEF TableInv, TableTypes
  <2>2. stack' # <<>>
    BY <1>3
  <2> QED
    BY <2>1, <2>2 DEF TableInv, ExeInv
<1> QED
  BY <1>6, <1>7, <1>8, <1>9, <1>10, <1>11, <1>12, <1>13, <1>14 DEF TableInv

(* The program's turn: its own, or the one of a library that is initialised.*)
LEMMA TurnIs ==
    ASSUME TableInv, ProgramsTurn
    PROVE  /\ result = NoResult
           /\ IF stack = <<>> THEN phase = "running"
              ELSE Top.at \in {"module", "init"} /\ Waiting(Top) /\ phase \in {"start", "running"}
<1>1. result = NoResult
  BY DEF TableInv, ResultInv, ProgramsTurn
<1>2. ASSUME stack # <<>> PROVE Top.at = "init" /\ phase \in {"start", "running"}
  <2>1. Top.at = "init" /\ phase # "crashed"
    BY <1>2 DEF ProgramsTurn
  <2>2. phase # "exit" /\ phase # "ended"
    BY <1>2, <2>1, TopIs DEF TableInv, Places
  <2> QED
    BY <2>1, <2>2 DEF TableInv, TableTypes
<1> QED
  BY <1>1, <1>2 DEF ProgramsTurn, Waiting

(* DosLoadModule with a name.                                               *)
LEMMA AskedKeeps == ASSUME TableInv, NEW name \in Name, DosLoadModule(name) PROVE TableInv'
<1>1. 0 \in 0 .. MaxDepth
  BY ModuleAssumption
<1> QED
  BY <1>1, AskKeeps, TurnIs DEF DosLoadModule, MayLoad

(* What a module imports are names.                                         *)
LEMMA ImportsAreNames ==
    ASSUME TableInv, NEW name \in world.files \cup {"exe"}
    PROVE  Imports(name) \in Seq(Name)
<1>1. world \in Worlds
  BY DEF TableInv, TableTypes
<1>2. world.exe \in Seq(Name) /\ world.imports \in [world.files -> Seq(Name)]
  BY <1>1, WorldsAssumption
<1> QED
  BY <1>2 DEF Imports

(* The next import of a module is asked for.                                *)
LEMMA ImportKeeps == ASSUME TableInv, ImportNext PROVE TableInv'
<1>1. /\ InCall("module") /\ result = NoResult /\ ~GivesUp(Top) /\ ~AllImported(Top)
      /\ stack' = <<Frame("name", Imports(Top.name)[Top.i], Top.depth, Null, 0)>> \o stack
      /\ UNCHANGED <<world, mod, loaded_modules, main_module, result, roots, phase>>
  BY DEF ImportNext
<1>2. PICK m \in Module : m = Top.mod /\ stack # <<>> /\ Top.at = "module" /\ phase \in {"start", "running"}
  BY <1>1, LoadIs
<1>3. Top \in Call /\ CallOk(Top)
  BY <1>2, TopIs
<1>4. /\ Top.name \in world.files \cup {"exe"} /\ Len(mod[m].dependencies) = Len(Imports(Top.name))
      /\ Top.i \in 1 .. Len(mod[m].dependencies) + 1 /\ (Top.i > 1 => Top.depth <= MaxDepth)
  BY <1>2, <1>3 DEF CallOk
<1>5. mod[m].dependencies \in Seq(Module \cup {Null}) /\ Len(mod[m].dependencies) \in Nat
  BY DEF TableInv, TableTypes, Structure
<1>6. Top.i \in 1 .. Len(mod[m].dependencies)
  BY <1>1, <1>2, <1>4, <1>5 DEF AllImported
<1>7. Imports(Top.name)[Top.i] \in Name
  BY <1>4, <1>6, ImportsAreNames
<1>8. Top.depth \in 0 .. MaxDepth
  <2>1. Top.depth \in 0 .. MaxDepth + 1 /\ MaxDepth \in Nat
    BY <1>3, ModuleAssumption DEF Call
  <2>2. Top.i = 1 => ~(Top.depth > MaxDepth)
    BY <1>1 DEF GivesUp
  <2> QED
    BY <1>4, <1>5, <2>1, <2>2
<1>9. Waiting(Top)
  BY <1>2, <1>5, <1>6, <1>8 DEF Waiting
<1> QED
  BY <1>1, <1>2, <1>7, <1>8, <1>9, AskKeeps

(* A call begins to load a file, for the program (c = 0) or for a call for  *)
(* its name (c = 1); without memory for the structure it has failed (Null). *)
LEMMA EnteringKeeps ==
    ASSUME TableInv, result = NoResult, NEW n \in 1 .. 2, NEW c \in 0 .. 1, n = c + 1, NEW f \in Call,
           Moved(n, c), 1 \in DOMAIN stack', stack'[1] = f,
           UNCHANGED <<world, loaded_modules, result, roots, phase>>,
           c = 0 => IF stack = <<>> THEN phase = "running" \/ (phase = "start" /\ f.name = "exe") ELSE Top.at = "init",
           c = 1 => /\ stack # <<>> /\ Top.at = "name" /\ 2 \in DOMAIN stack'
                    /\ stack'[2].at = "name" /\ stack'[2].name \in Name
                    /\ stack'[2].depth <= MaxDepth /\ stack'[2].i = 1,
           f.name = "exe" => stack = <<>> /\ phase = "start",
           NEW m \in Module \cup {Null},
           mod' \in [Module -> Structure], \A d \in Module : d # m => mod'[d] = mod[d],
           m = Null => f.at = "failed" /\ main_module' = main_module,
           m \in Module =>
              /\ f.at = "module" /\ f.mod = m /\ f.i = 1 /\ f.name \in world.files \cup {"exe"}
              /\ mod[m] = Unused /\ roots[m] = 0 /\ main_module # m /\ Refs(m) = {} /\ ~Held(m)
              /\ \A k \in DOMAIN stack : Owner(stack[k]) => stack[k].mod # m
              /\ mod'[m].life = "new" /\ mod'[m].name = f.name /\ mod'[m].refcount = 1
              /\ Len(mod'[m].dependencies) = Len(Imports(f.name)) /\ Len(mod'[m].dependencies) \in Nat
              /\ DOMAIN mod'[m].dependencies = 1 .. Len(mod'[m].dependencies)
              /\ \A i \in DOMAIN mod'[m].dependencies : mod'[m].dependencies[i] = Null
              /\ main_module' = IF f.name = "exe" THEN m ELSE main_module
    PROVE  TableInv'
<1>1. /\ mod \in [Module -> Structure] /\ loaded_modules \in Seq(Module) /\ stack \in Seq(Call)
      /\ roots \in [Module -> Nat] /\ main_module \in Module \cup {Null}
  BY DEF TableInv, TableTypes
<1>2. Null \notin Module /\ NoResult \notin Module /\ Null # NoResult
  BY NotModules
<1>3. stack' \in Seq(Call) /\ stack' # <<>> /\ Len(stack') = Len(stack) + 1 /\ Len(stack) \in Nat
  <2>1. stack' \in Seq(Call) /\ Len(stack') = Len(stack) - c + n /\ Len(stack) \in Nat
    BY <1>1 DEF Moved
  <2>2. Len(stack) - c + n = Len(stack) + 1
    BY <2>1
  <2> QED
    BY <2>1, <2>2
<1>4. \A k \in DOMAIN stack' : k <= n => (k = 1 /\ stack'[k] = f) \/ (k = 2 /\ c = 1)
  <2>1. \A k \in DOMAIN stack' : k \in Nat \ {0}
    BY <1>3
  <2> QED
    BY <2>1
<1>5. phase \in {"start", "running", "crashed"}
  <2>1. stack # <<>> => phase # "exit" /\ phase # "ended"
    <3> SUFFICES ASSUME stack # <<>> PROVE phase # "exit" /\ phase # "ended"
      OBVIOUS
    <3>1. Top.at \in {"name", "init"} /\ Top = stack[1] /\ 1 \in DOMAIN stack
      BY TopIs
    <3> QED
      BY <3>1 DEF TableInv, Places
  <2> QED
    BY <2>1 DEF TableInv, TableTypes
<1>6. f.at \in {"failed", "module"} /\ (Owner(f) => m \in Module /\ f.mod = m) /\ (Holder(f) => m \in Module /\ f.mod = m)
  BY <1>2 DEF Owner, Holder
<1>7. c = 1 => ~Owner(stack'[2]) /\ ~Holder(stack'[2]) /\ ~Owner(Top) /\ ~Holder(Top)
  BY DEF Owner, Holder
<1>8. \A k \in DOMAIN stack : Owner(stack[k]) => stack[k].mod # m
  BY <1>2, NoCallAbout
<1>9. Changes(c, m)
  BY <1>8 DEF Changes
<1>10. TableTypes'
  <2>1. main_module' \in Module \cup {Null}
    BY <1>1
  <2> QED
    BY <1>3, <2>1 DEF TableInv, TableTypes, Structure, Call
<1>11. CallsOk'
  <2>1. CallOk(f)'
    <3>1. CASE m = Null
      BY <3>1 DEF CallOk, Owner
    <3>2. CASE m \in Module
      <4>1. f.i \in 1 .. Len(mod'[m].dependencies) + 1 /\ ~(f.i > 1)
        BY <3>2
      <4>2. Imports(f.name)' = Imports(f.name)
        BY DEF Imports
      <4>3. \A j \in f.i .. Len(mod'[m].dependencies) : mod'[m].dependencies[j] = Null
        BY <3>2
      <4> QED
        BY <3>2, <4>1, <4>2, <4>3 DEF CallOk, Owner
    <3> QED
      BY <3>1, <3>2
  <2>2. c = 1 => CallOk(stack[2])'
    BY DEF CallOk, Owner
  <2>3. \A k \in DOMAIN stack' : k <= n => CallOk(stack[k])'
    <3> SUFFICES ASSUME NEW k \in DOMAIN stack', k <= n PROVE CallOk(stack[k])'
      OBVIOUS
    <3>1. CASE k = 1
      BY <2>1, <3>1 DEF CallOk, Owner
    <3>2. CASE k = 2 /\ c = 1
      BY <2>2, <3>2
    <3> QED
      BY <1>4, <3>1, <3>2
  <2>4. \A k \in DOMAIN stack : k > c /\ stack[k].at = "terminate" => phase' = "exit"
    BY DEF TableInv, CallsOk, CallOk
  <2>5. \/ main_module' = main_module
        \/ \A k \in DOMAIN stack : k > c =>
                 /\ ~(stack[k].at = "module" /\ stack[k].name = "exe")
                 /\ stack[k].at = "free" => stack[k].mod # main_module'
    <3>1. CASE f.name = "exe"
      BY <3>1
    <3>2. CASE f.name # "exe"
      BY <3>2
    <3> QED
      BY <3>1, <3>2
  <2>6. CallsOk /\ n \in Nat /\ c \in Nat
    BY DEF TableInv
  <2> QED
    BY <1>1, <1>9, <2>3, <2>4, <2>5, <2>6, CallsKept
<1>12. Places'
  <2>1. ASSUME c = 0, stack # <<>> PROVE 2 \in DOMAIN stack' /\ stack'[2] = Top /\ Top.at = "init"
    <3>1. 1 \in DOMAIN stack /\ 1 > c /\ 1 - c + n = 2
      BY <1>1, <2>1
    <3> QED
      BY <2>1, <3>1 DEF Moved, Top
  <2>2. c = 0 /\ n > 0 /\ stack # <<>> => Waiting(Top)
    BY DEF Waiting
  <2>3. ASSUME c = 1, 2 # Len(stack') PROVE Loading(stack'[2 + 1])
    <3>1. Len(stack) > 1 /\ 2 \in DOMAIN stack /\ 2 > c /\ 2 - c + n = 2 + 1
      BY <1>1, <1>3, <2>3
    <3>2. stack'[2 + 1] = stack[2]
      BY <3>1 DEF Moved
    <3> QED
      BY <2>3, <3>1, <3>2, TopIs DEF Loading
  <2>4. ASSUME 1 # Len(stack') PROVE Loading(stack'[1 + 1])
    <3>1. stack # <<>> /\ 1 + 1 = 2
      BY <1>1, <1>3, <2>4
    <3>2. CASE c = 0
      BY <2>1, <3>1, <3>2 DEF Loading
    <3>3. CASE c = 1
      BY <3>1, <3>3 DEF Loading
    <3> QED
      BY <3>2, <3>3
  <2>5. \A k \in DOMAIN stack' : k <= n =>
              /\ k # 1 => Waiting(stack[k])'
              /\ stack'[k].at = "terminate" => k = Len(stack')
              /\ (Loading(stack'[k]) \/ stack'[k].at = "failed") /\ k # Len(stack') => Loading(stack'[k + 1])
              /\ stack'[k].at = "module" /\ stack'[k].name = "exe" => k = Len(stack')
    <3>1. f.name = "exe" => Len(stack') = 1
      BY <1>3
    <3>2. c = 1 => Waiting(stack[2])'
      BY DEF Waiting
    <3>3. ASSUME NEW k \in DOMAIN stack', k = 1
          PROVE  /\ k # 1 => Waiting(stack[k])'
                 /\ stack'[k].at = "terminate" => k = Len(stack')
                 /\ (Loading(stack'[k]) \/ stack'[k].at = "failed") /\ k # Len(stack') => Loading(stack'[k + 1])
                 /\ stack'[k].at = "module" /\ stack'[k].name = "exe" => k = Len(stack')
      BY <1>6, <2>4, <3>1, <3>3
    <3>4. ASSUME NEW k \in DOMAIN stack', k = 2, c = 1
          PROVE  /\ k # 1 => Waiting(stack[k])'
                 /\ stack'[k].at = "terminate" => k = Len(stack')
                 /\ (Loading(stack'[k]) \/ stack'[k].at = "failed") /\ k # Len(stack') => Loading(stack'[k + 1])
                 /\ stack'[k].at = "module" /\ stack'[k].name = "exe" => k = Len(stack')
      BY <2>3, <3>2, <3>4
    <3> QED
      BY <1>4, <3>3, <3>4
  <2>6. phase' = "start" /\ stack' # <<>> =>
              IF Len(stack) > c THEN phase = "start"
              ELSE stack'[Len(stack')].name = "exe" /\ stack'[Len(stack')].at \in {"module", "failed"}
    <3> SUFFICES ASSUME phase = "start", ~(Len(stack) > c)
                 PROVE  stack'[Len(stack')].name = "exe" /\ stack'[Len(stack')].at \in {"module", "failed"}
      OBVIOUS
    <3>1. c = 0
      <4> SUFFICES ASSUME c = 1 PROVE FALSE
        OBVIOUS
      <4>0. stack # <<>> /\ Top.at = "name" /\ Top = stack[1]
        BY DEF Top
      <4>1. Len(stack) = 1 /\ stack # <<>> /\ Top = stack[1] /\ Top.at = "name"
        <5>1. Len(stack) # 0 /\ Len(stack) \in Nat
          BY <1>1, <4>0
        <5>2. ~(Len(stack) > 1)
          OBVIOUS
        <5>3. \A l \in Nat : l # 0 /\ ~(l > 1) => l = 1
          OBVIOUS
        <5>4. Len(stack) = 1
          BY <5>1, <5>2, <5>3
        <5> QED
          BY <4>0, <5>4
      <4> QED
        BY <4>1 DEF TableInv, Places
    <3>2. stack = <<>> /\ Len(stack') = 1
      BY <1>1, <1>3, <3>1
    <3> QED
      BY <1>6, <3>1, <3>2
  <2>7. phase' # "exit" /\ phase' # "ended"
    <3>1. phase # "exit" /\ phase # "ended"
      BY <1>5
    <3> QED
      BY <3>1
  <2>8. Places /\ CallsOk /\ n \in 0 .. 2
    BY DEF TableInv
  <2> QED
    BY <1>1, <1>9, <2>2, <2>5, <2>6, <2>7, <2>8, PlacesKept
<1>13. Unique'
  <2>1. \A j, k \in DOMAIN stack' : j <= n /\ k <= n /\ Owner(stack'[j]) /\ Owner(stack'[k])
                                          /\ stack'[j].mod = stack'[k].mod => j = k
    BY <1>4, <1>7
  <2>2. \A j \in DOMAIN stack', k \in DOMAIN stack :
              j <= n /\ k > c /\ Owner(stack'[j]) /\ Owner(stack[k]) => stack'[j].mod # stack[k].mod
    BY <1>4, <1>6, <1>7, <1>8
  <2>3. Unique /\ n \in Nat /\ c \in Nat
    BY DEF TableInv
  <2> QED
    BY <1>1, <2>1, <2>2, <2>3, UniqueKept
<1>14. Lives'
  <2>1. \A d \in Module : roots'[d] > roots[d] => mod'[d].life = "up"
    <3>1. \A d \in Module : ~(roots'[d] > roots[d])
      BY <1>1
    <3> QED
      BY <3>1
  <2>2. m \in Module =>
              /\ mod'[m].life \in {"new", "in", "down"} =>
                    \E k \in DOMAIN stack' : Owner(stack'[k]) /\ stack'[k].mod = m
              /\ mod'[m].life = "unused" => mod'[m] = Unused
              /\ roots'[m] > 0 => mod'[m].life = "up"
    BY DEF Owner
  <2>3. Lives /\ n \in Nat /\ roots' \in [Module -> Nat]
    BY <1>1 DEF TableInv
  <2>4. c = 1 /\ Owner(Top) => Top.mod = m
    BY <1>7
  <2> QED
    BY <1>1, <1>9, <2>1, <2>2, <2>3, <2>4, LivesKept
<1>15. ResultInv'
  BY <1>2 DEF ResultInv
<1>16. Counts'
  <2>1. \A d \in Module : Refs(d)' = Refs(d)
    <3>1. \A k \in DOMAIN stack' : k <= n => stack'[k].at # "free"
      BY <1>4, <1>6
    <3>2. ASSUME NEW d \in Module, NEW e \in Module, NEW i
          PROVE  (i \in DOMAIN mod'[d].dependencies /\ mod'[d].dependencies[i] = e) <=>
                 (i \in DOMAIN mod[d].dependencies /\ mod[d].dependencies[i] = e)
      <4>1. CASE d = m
        <5>1. mod[d].dependencies = <<>>
          BY <4>1 DEF Unused
        <5>2. i \notin DOMAIN mod[d].dependencies
          BY <5>1
        <5>3. i \in DOMAIN mod'[d].dependencies => mod'[d].dependencies[i] = Null
          BY <4>1
        <5> QED
          BY <1>2, <5>2, <5>3
      <4>2. CASE d # m
        BY <4>2
      <4> QED
        BY <4>1, <4>2
    <3>3. c = 1 => Top.at # "free"
      OBVIOUS
    <3>4. n \in Nat
      OBVIOUS
    <3> QED
      BY <1>1, <3>1, <3>2, <3>3, <3>4, SameRefs
  <2>2. ASSUME m \in Module
        PROVE  /\ mod'[m].refcount + roots[m] + One(result = m) + One(Held(m)) =
                      mod[m].refcount + roots'[m] + One(result' = m) + One(Held(m)')
               /\ Refs(m) # {} => mod'[m].life = "up" /\ mod'[m].name # "exe"
    <3>1. Held(m)'
      <4>1. Holder(f) /\ f.mod = m
        BY <1>2, <2>2 DEF Holder
      <4> QED
        BY <4>1 DEF Held, Holder
    <3>2. mod'[m].refcount = 1 /\ mod[m].refcount = 0 /\ roots[m] = 0 /\ roots'[m] = 0
      BY <2>2 DEF Unused
    <3>3. One(result = m) = 0 /\ One(result' = m) = 0 /\ One(Held(m)) = 0 /\ One(Held(m)') = 1
      BY <1>2, <2>2, <3>1 DEF One
    <3> QED
      BY <2>2, <3>2, <3>3
  <2>3. Settles(m)
    BY <2>2 DEF Settles
  <2>4. \A k \in DOMAIN stack' : k <= n /\ Holder(stack'[k]) => stack'[k].mod = m
    BY <1>4, <1>6, <1>7
  <2>5. Counts /\ n \in Nat /\ roots' \in [Module -> Nat] /\ (c = 1 /\ Holder(Top) => Top.mod = m)
    BY <1>1, <1>7 DEF TableInv
  <2> QED
    BY <1>1, <2>1, <2>3, <2>4, <2>5, CountsKept
<1>17. ListInv'
  <2>1. \A d \in Module :
              /\ mod'[d].life = "up" /\ mod'[d].name # "exe" <=> mod[d].life = "up" /\ mod[d].name # "exe"
              /\ mod[d].life = "up" /\ mod[d].name # "exe" => mod'[d].dependencies = mod[d].dependencies
    BY DEF Unused
  <2> QED
    BY <1>1, <2>1, ListKept DEF TableInv
<1>18. ExeInv'
  <2>1. phase' # "exit"
    BY <1>5
  <2>2. CASE f.name = "exe" /\ m \in Module
    <3>1. \A d \in Module : mod[d].life = "unused"
      BY <2>2 DEF TableInv, ExeInv
    <3>2. \A d \in Module : mod'[d].life # "up"
      BY <2>2, <3>1
    <3>3. phase' = "start" /\ main_module' = m
      BY <2>2
    <3> QED
      BY <1>2, <1>3, <2>2, <3>2, <3>3 DEF ExeInv
  <2>3. CASE ~(f.name = "exe" /\ m \in Module)
    <3>1. main_module' = main_module
      BY <2>3
    <3>2. ASSUME NEW d \in Module, mod'[d].life = "up" PROVE mod'[d] = mod[d]
      BY <3>2
    <3>3. main_module \in Module => mod'[main_module] = mod[main_module]
      BY <1>2
    <3> QED
      BY <1>3, <2>1, <3>1, <3>2, <3>3 DEF TableInv, ExeInv
  <2> QED
    BY <2>2, <2>3
<1> QED
  BY <1>10, <1>11, <1>12, <1>13, <1>14, <1>15, <1>16, <1>17, <1>18 DEF TableInv

(* Loading begins, for whomever.                                            *)
LEMMA LoadKeeps ==
    ASSUME TableInv, result = NoResult, NEW name \in world.files \cup {"exe"}, name \in Name \cup {"exe"},
           NEW depth \in 0 .. MaxDepth, NEW callers, LoadModule(name, depth, callers),
           UNCHANGED <<world, loaded_modules, result, roots, phase>>,
           name = "exe" => stack = <<>> /\ phase = "start",
           \/ /\ callers = stack
              /\ IF stack = <<>> THEN phase = "running" \/ (phase = "start" /\ name = "exe") ELSE Top.at = "init"
           \/ /\ stack # <<>> /\ Top.at = "name" /\ Top.name \in Name /\ Top.depth <= MaxDepth
              /\ callers = <<[Top EXCEPT !.i = 1]>> \o Tail(stack)
    PROVE  TableInv'
<1>1. /\ mod \in [Module -> Structure] /\ stack \in Seq(Call) /\ world \in Worlds
  BY DEF TableInv, TableTypes
<1>2. depth \in 0 .. MaxDepth + 1 /\ depth + 1 \in 0 .. MaxDepth + 1 /\ NoResult # Null /\ Null \notin Module
  BY ModuleAssumption, NotModules
<1>3. PICK f \in Call, m \in Module \cup {Null} :
        /\ stack' = <<f>> \o callers
        /\ mod' \in [Module -> Structure] /\ \A d \in Module : d # m => mod'[d] = mod[d]
        /\ f.name = name
        /\ m = Null => f.at = "failed" /\ main_module' = main_module
        /\ m \in Module =>
              /\ f.at = "module" /\ f.mod = m /\ f.i = 1
              /\ mod[m] = Unused /\ roots[m] = 0 /\ main_module # m /\ Refs(m) = {} /\ ~Held(m)
              /\ \A k \in DOMAIN stack : Owner(stack[k]) => stack[k].mod # m
              /\ mod'[m].life = "new" /\ mod'[m].name = f.name /\ mod'[m].refcount = 1
              /\ Len(mod'[m].dependencies) = Len(Imports(f.name)) /\ Len(mod'[m].dependencies) \in Nat
              /\ DOMAIN mod'[m].dependencies = 1 .. Len(mod'[m].dependencies)
              /\ \A i \in DOMAIN mod'[m].dependencies : mod'[m].dependencies[i] = Null
              /\ main_module' = IF f.name = "exe" THEN m ELSE main_module
  <2>1. CASE FreeModules = {}
    <3> DEFINE f == Frame("failed", name, depth, Null, 0)
    <3>1. f \in Call /\ f.at = "failed" /\ f.name = name
      BY <1>2 DEF Frame, Call
    <3>2. stack' = <<f>> \o callers /\ UNCHANGED <<mod, main_module>>
      BY <2>1 DEF LoadModule
    <3> HIDE DEF f
    <3> QED
      BY <1>1, <1>2, <3>1, <3>2
  <2>2. CASE FreeModules # {}
    <3>1. PICK m \in Module :
           /\ mod' = [mod EXCEPT ![m] = New(name, [i \in DOMAIN Imports(name) |-> Null], FALSE, "new")]
           /\ main_module' = IF name = "exe" THEN m ELSE main_module
           /\ stack' = <<Frame("module", name, depth + 1, m, 1)>> \o callers
           /\ mod[m] = Unused /\ roots[m] = 0 /\ main_module # m /\ Refs(m) = {} /\ ~Held(m)
           /\ \A k \in DOMAIN stack : Owner(stack[k]) => stack[k].mod # m
      BY <2>2, FreshIs DEF LoadModule
    <3> DEFINE f == Frame("module", name, depth + 1, m, 1)
               deps == [i \in DOMAIN Imports(name) |-> Null]
               s == [name |-> name, refcount |-> 1, dependencies |-> deps, native |-> FALSE, life |-> "new"]
    <3>2. f \in Call /\ f.at = "module" /\ f.name = name /\ f.mod = m /\ f.i = 1
      BY <1>2 DEF Frame, Call
    <3>3. Imports(name) \in Seq(Name)
      BY ImportsAreNames
    <3>4. /\ deps \in Seq(Module \cup {Null}) /\ Len(deps) = Len(Imports(name)) /\ Len(deps) \in Nat
          /\ DOMAIN deps = 1 .. Len(deps) /\ \A i \in DOMAIN deps : deps[i] = Null
      BY <3>3
    <3> HIDE DEF f
    <3>5. mod' = [mod EXCEPT ![m] = s]
      BY <3>1 DEF New
    <3> HIDE DEF deps
    <3>6. s \in Structure
      BY <3>4 DEF Structure
    <3>7. s.name = name /\ s.refcount = 1 /\ s.dependencies = deps /\ s.life = "new"
      OBVIOUS
    <3> HIDE DEF s
    <3>8. mod' \in [Module -> Structure] /\ mod'[m] = s /\ \A d \in Module : d # m => mod'[d] = mod[d]
      BY <1>1, <3>5, <3>6
    <3>9. stack' = <<f>> \o callers
      BY <3>1 DEF f
    <3>10. m # Null
      BY <1>2
    <3>11. /\ mod'[m].life = "new" /\ mod'[m].name = f.name /\ mod'[m].refcount = 1
           /\ mod'[m].dependencies = deps
           /\ main_module' = IF f.name = "exe" THEN m ELSE main_module
      BY <3>1, <3>2, <3>7, <3>8
    <3>12. /\ Len(mod'[m].dependencies) = Len(Imports(f.name)) /\ Len(mod'[m].dependencies) \in Nat
           /\ DOMAIN mod'[m].dependencies = 1 .. Len(mod'[m].dependencies)
           /\ \A i \in DOMAIN mod'[m].dependencies : mod'[m].dependencies[i] = Null
      BY <3>2, <3>4, <3>11
    <3> f \in Call /\ m \in Module \cup {Null}
      BY <3>2
    <3> WITNESS f \in Call, m \in Module \cup {Null}
    <3> QED
      BY <3>1, <3>2, <3>8, <3>9, <3>10, <3>11, <3>12
  <2> QED
    BY <2>1, <2>2
<1>4. CASE callers = stack /\ IF stack = <<>> THEN phase = "running" \/ (phase = "start" /\ name = "exe") ELSE Top.at = "init"
  <2>1. Moved(1, 0) /\ stack'[1] = f /\ 1 \in DOMAIN stack'
    BY <1>1, <1>3, <1>4, PushMoves
  <2>2. 1 \in 1 .. 2 /\ 0 \in 0 .. 1 /\ 1 = 0 + 1 /\ 0 # 1
    OBVIOUS
  <2>3. IF stack = <<>> THEN phase = "running" \/ (phase = "start" /\ f.name = "exe") ELSE Top.at = "init"
    BY <1>3, <1>4
  <2>4. f.name = "exe" => stack = <<>> /\ phase = "start"
    BY <1>3
  <2>5. m \in Module => f.name \in world.files \cup {"exe"}
    BY <1>3
  <2> QED
    BY <1>3, <2>1, <2>2, <2>3, <2>4, <2>5, EnteringKeeps
<1>5. CASE /\ stack # <<>> /\ Top.at = "name" /\ Top.name \in Name /\ Top.depth <= MaxDepth
           /\ callers = <<[Top EXCEPT !.i = 1]>> \o Tail(stack)
  <2> DEFINE g == [Top EXCEPT !.i = 1]
  <2>1. g \in Call /\ g.at = "name" /\ g.name \in Name /\ g.depth <= MaxDepth /\ g.i = 1
    BY <1>5, TopIs DEF Call
  <2>2. stack' = <<f>> \o (<<g>> \o Tail(stack))
    BY <1>3, <1>5
  <2> HIDE DEF g
  <2>3. Moved(2, 1) /\ stack'[1] = f /\ stack'[2] = g /\ 1 \in DOMAIN stack' /\ 2 \in DOMAIN stack'
    BY <1>1, <1>5, <2>1, <2>2, CallMoves
  <2>4. 2 \in 1 .. 2 /\ 1 \in 0 .. 1 /\ 2 = 1 + 1 /\ 1 # 0
    OBVIOUS
  <2>5. f.name = "exe" => stack = <<>> /\ phase = "start"
    BY <1>3
  <2>6. m \in Module => f.name \in world.files \cup {"exe"}
    BY <1>3
  <2>7. /\ stack # <<>> /\ Top.at = "name" /\ 2 \in DOMAIN stack'
        /\ stack'[2].at = "name" /\ stack'[2].name \in Name
        /\ stack'[2].depth <= MaxDepth /\ stack'[2].i = 1
    BY <1>5, <2>1, <2>3
  <2>8. 1 = 0 => IF stack = <<>> THEN phase = "running" \/ (phase = "start" /\ f.name = "exe") ELSE Top.at = "init"
    OBVIOUS
  <2> QED
    BY <1>3, <2>3, <2>4, <2>5, <2>6, <2>7, <2>8, EnteringKeeps
<1> QED
  BY <1>4, <1>5

(* The program is loaded.                                                   *)
LEMMA StartKeeps == ASSUME TableInv, LoadProgram PROVE TableInv'
<1>1. /\ phase = "start" /\ stack = <<>> /\ LoadModule("exe", 0, stack)
      /\ UNCHANGED <<world, loaded_modules, result, roots, phase>>
  BY DEF LoadProgram
<1>2. result = NoResult /\ 0 \in 0 .. MaxDepth
  BY <1>1, ModuleAssumption DEF TableInv, ResultInv
<1> QED
  BY <1>1, <1>2, LoadKeeps

(* DosLoadModule with the path of a file.                                   *)
LEMMA PathKeeps == ASSUME TableInv, NEW name \in Name, DosLoadModulePath(name) PROVE TableInv'
<1>1. /\ ProgramsTurn /\ name \in world.files /\ LoadModule(name, 0, stack)
      /\ UNCHANGED <<world, loaded_modules, result, roots, phase>>
  BY DEF DosLoadModulePath, MayLoad
<1>2. result = NoResult /\ 0 \in 0 .. MaxDepth /\ name # "exe"
  BY <1>1, TurnIs, ModuleAssumption, NotModules
<1>3. IF stack = <<>> THEN phase = "running" ELSE Top.at = "init"
  BY <1>1 DEF ProgramsTurn
<1> QED
  BY <1>1, <1>2, <1>3, LoadKeeps

(* A name that has a file.                                                  *)
LEMMA FileBegins == ASSUME TableInv, NameHasFile PROVE TableInv'
<1>1. /\ stack # <<>> /\ Top.at = "name" /\ Top.i = 0 /\ Top.name \in world.files
      /\ LoadModule(Top.name, Top.depth, <<[Top EXCEPT !.i = 1]>> \o Tail(stack))
      /\ UNCHANGED <<world, loaded_modules, result, roots, phase>>
  BY DEF NameHasFile, InCall
<1>2. result = NoResult /\ Top.name \in Name /\ Top.depth <= MaxDepth
  BY <1>1, NameIs
<1>3. Top.depth \in 0 .. MaxDepth
  <2>1. Top.depth \in 0 .. MaxDepth + 1 /\ MaxDepth \in Nat
    BY <1>1, TopIs, ModuleAssumption DEF Call
  <2> QED
    BY <1>2, <2>1
<1>4. Top.name # "exe"
  BY <1>2, NotModules
<1> QED
  BY <1>1, <1>2, <1>3, <1>4, LoadKeeps

(* The innermost call goes on with its structure.                           *)
LEMMA GoesOn ==
    ASSUME TableInv, stack # <<>>, Owner(Top), NEW m \in Module, m = Top.mod, NEW f \in Call,
           stack' = <<f>> \o Tail(stack), f.at \in {"module", "init", "free"}, f.mod = m, f.name = Top.name,
           mod' \in [Module -> Structure], \A d \in Module : d # m => mod'[d] = mod[d], world' = world,
           main_module' = main_module \/ (m = main_module /\ main_module' = Null), phase' = phase \/ (phase = "start" /\ phase' = "crashed"), roots' = roots,
           CallOk(f)', f.at = "module" => Top.at = "module", f.at = "init" => Top.at = "module",
           Top.at = "module" /\ Top.name = "exe" => f.at = "module",
           mod'[m].life # "unused", roots[m] > 0 => mod'[m].life = "up"
    PROVE  /\ Moved(1, 1) /\ stack'[1] = f /\ 1 \in DOMAIN stack' /\ \A k \in DOMAIN stack' : k <= 1 => k = 1
           /\ CallsOk' /\ Places' /\ Unique' /\ Lives'
<1>1. /\ mod \in [Module -> Structure] /\ stack \in Seq(Call) /\ roots \in [Module -> Nat]
  BY DEF TableInv, TableTypes
<1>2. /\ 1 \in DOMAIN stack /\ Top \in Call /\ Top = stack[1] /\ CallOk(Top)
      /\ \A k \in DOMAIN stack : k > 1 /\ Owner(stack[k]) => stack[k].mod # m
      /\ Len(stack) > 1 /\ (Loading(Top) \/ Top.at = "failed") => Loading(stack[2])
  BY TopIs
<1>3. Moved(1, 1) /\ stack'[1] = f /\ 1 \in DOMAIN stack'
  BY <1>1, TopMoves
<1>4. stack' \in Seq(Call) /\ Len(stack') = Len(stack) /\ Len(stack) \in Nat /\ Len(stack) # 0
  <2>1. stack' \in Seq(Call) /\ Len(stack') = Len(stack) - 1 + 1 /\ Len(stack) \in Nat /\ Len(stack) # 0
    BY <1>1, <1>3 DEF Moved
  <2> QED
    BY <2>1
<1>5. \A k \in DOMAIN stack' : k <= 1 => k = 1 /\ stack'[k] = f
  <2>1. \A k \in DOMAIN stack' : k \in Nat \ {0}
    BY <1>4
  <2> QED
    BY <1>3, <2>1
<1>6. Changes(1, m)
  BY <1>2 DEF Changes
<1>7. 1 \in Nat /\ 1 \in 0 .. 1 /\ 1 \in 0 .. 2 /\ ~(1 = 0) /\ Owner(f)
  BY DEF Owner
<1>8. CallsOk'
  <2>1. \A k \in DOMAIN stack' : k <= 1 => CallOk(stack[k])'
    BY <1>5 DEF CallOk, Owner
  <2>2. \/ main_module' = main_module
        \/ \A k \in DOMAIN stack : k > 1 =>
                 /\ ~(stack[k].at = "module" /\ stack[k].name = "exe")
                 /\ stack[k].at = "free" => stack[k].mod # main_module'
    <3> SUFFICES ASSUME m = main_module, main_module' = Null, NEW k \in DOMAIN stack, k > 1
                 PROVE  /\ ~(stack[k].at = "module" /\ stack[k].name = "exe")
                        /\ stack[k].at = "free" => stack[k].mod # main_module'
      OBVIOUS
    <3>1. stack[k].at = "module" /\ stack[k].name = "exe" => Owner(stack[k]) /\ stack[k].mod = main_module
      BY DEF TableInv, CallsOk, CallOk, Owner
    <3>2. stack[k].at = "free" => stack[k].mod \in Module
      BY DEF TableInv, CallsOk, CallOk, Owner
    <3> QED
      BY <1>2, <3>1, <3>2, NotModules
  <2>3. \A k \in DOMAIN stack : k > 1 /\ stack[k].at = "terminate" => phase' = "exit"
    <3> SUFFICES ASSUME NEW k \in DOMAIN stack, stack[k].at = "terminate" PROVE phase' = "exit"
      OBVIOUS
    <3>1. phase = "exit"
      BY DEF TableInv, CallsOk, CallOk
    <3>2. Top.at \in {"unref", "free"}
      BY <1>2, <3>1 DEF TableInv, Places, Owner
    <3> QED
      BY <3>1, <3>2, <1>2 DEF CallOk
  <2>4. CallsOk
    BY DEF TableInv
  <2> QED
    BY <1>1, <1>3, <1>6, <1>7, <2>1, <2>2, <2>3, <2>4, CallsKept
<1>9. Places'
  <2>1. ASSUME Loading(f) \/ f.at = "failed", 1 # Len(stack') PROVE Loading(stack'[1 + 1])
    <3>1. Loading(stack[2])
      <4>1. Loading(Top) /\ Len(stack) > 1
        BY <1>4, <2>1 DEF Loading
      <4> QED
        BY <1>2, <4>1
    <3>2. stack'[1 + 1] = stack[2]
      <4>1. 2 \in DOMAIN stack /\ 2 > 1 /\ 2 - 1 + 1 = 1 + 1
        BY <1>1, <1>4, <2>1
      <4> QED
        BY <1>3, <4>1 DEF Moved
    <3> QED
      BY <3>1, <3>2
  <2>2. ASSUME f.at = "module", f.name = "exe" PROVE 1 = Len(stack')
    BY <1>2, <1>4, <2>2 DEF TableInv, Places
  <2>3. \A k \in DOMAIN stack' : k <= 1 =>
              /\ k # 1 => Waiting(stack[k])'
              /\ stack'[k].at = "terminate" => k = Len(stack')
              /\ (Loading(stack'[k]) \/ stack'[k].at = "failed") /\ k # Len(stack') => Loading(stack'[k + 1])
              /\ stack'[k].at = "module" /\ stack'[k].name = "exe" => k = Len(stack')
    <3> SUFFICES ASSUME NEW k \in DOMAIN stack', k = 1, stack'[k] = f
                 PROVE  /\ k # 1 => Waiting(stack[k])'
                        /\ stack'[k].at = "terminate" => k = Len(stack')
                        /\ (Loading(stack'[k]) \/ stack'[k].at = "failed") /\ k # Len(stack') => Loading(stack'[k + 1])
                        /\ stack'[k].at = "module" /\ stack'[k].name = "exe" => k = Len(stack')
      BY <1>5
    <3> QED
      BY <2>1, <2>2
  <2>4. phase' = "start" /\ stack' # <<>> =>
              IF Len(stack) > 1 THEN phase = "start"
              ELSE stack'[Len(stack')].name = "exe" /\ stack'[Len(stack')].at \in {"module", "failed"}
    <3> SUFFICES ASSUME phase = "start", ~(Len(stack) > 1)
                 PROVE  stack'[Len(stack')].name = "exe" /\ stack'[Len(stack')].at \in {"module", "failed"}
      OBVIOUS
    <3>1. Len(stack) = 1 /\ Len(stack') = 1
      <4>1. \A l \in Nat : l # 0 /\ ~(l > 1) => l = 1
        OBVIOUS
      <4> QED
        BY <1>4, <4>1
    <3>2. Top.name = "exe" /\ Top.at \in {"module", "failed"}
      BY <1>2, <3>1 DEF TableInv, Places
    <3> QED
      BY <1>3, <3>1, <3>2 DEF Owner
  <2>5. phase' = "exit" =>
              /\ phase = "exit" /\ (1 = 1 => Top.at # "terminate")
              /\ \A k \in DOMAIN stack' : k <= 1 => stack'[k].at \in {"unref", "free"}
    <3> SUFFICES ASSUME phase = "exit"
                 PROVE  Top.at # "terminate" /\ \A k \in DOMAIN stack' : k <= 1 => stack'[k].at \in {"unref", "free"}
      OBVIOUS
    <3>1. Top.at \in {"unref", "free"}
      BY <1>2 DEF TableInv, Places, Owner
    <3>2. f.at = "free"
      BY <3>1
    <3> QED
      BY <1>5, <3>1, <3>2
  <2>6. phase' # "ended"
    BY DEF TableInv, Places
  <2>7. Places /\ CallsOk
    BY DEF TableInv
  <2> QED
    BY <1>1, <1>3, <1>6, <1>7, <2>3, <2>4, <2>5, <2>6, <2>7, PlacesKept
<1>10. Unique'
  <2>1. \A j, k \in DOMAIN stack' : j <= 1 /\ k <= 1 /\ Owner(stack'[j]) /\ Owner(stack'[k])
                                          /\ stack'[j].mod = stack'[k].mod => j = k
    BY <1>5
  <2>2. \A j \in DOMAIN stack', k \in DOMAIN stack :
              j <= 1 /\ k > 1 /\ Owner(stack'[j]) /\ Owner(stack[k]) => stack'[j].mod # stack[k].mod
    BY <1>2, <1>5
  <2>3. Unique
    BY DEF TableInv
  <2> QED
    BY <1>1, <1>3, <1>7, <2>1, <2>2, <2>3, UniqueKept
<1>11. Lives'
  <2>1. \A d \in Module : roots'[d] > roots[d] => mod'[d].life = "up"
    <3>1. \A d \in Module : ~(roots'[d] > roots[d])
      BY <1>1
    <3> QED
      BY <3>1
  <2>2. m \in Module =>
              /\ mod'[m].life \in {"new", "in", "down"} =>
                    \E k \in DOMAIN stack' : Owner(stack'[k]) /\ stack'[k].mod = m
              /\ mod'[m].life = "unused" => mod'[m] = Unused
              /\ roots'[m] > 0 => mod'[m].life = "up"
    BY <1>3, <1>7
  <2>3. Lives /\ roots' \in [Module -> Nat]
    BY <1>1 DEF TableInv
  <2>4. 1 = 1 /\ Owner(Top) => Top.mod = m
    OBVIOUS
  <2> QED
    BY <1>1, <1>3, <1>6, <1>7, <2>1, <2>2, <2>3, <2>4, LivesKept
<1> QED
  BY <1>3, <1>5, <1>8, <1>9, <1>10, <1>11

(* What counts as one after the step.                                       *)
LEMMA InRefsNext ==
    ASSUME NEW m, NEW p
    PROVE  p \in Refs(m)' <=>
              \E d \in Module : \E i \in DOMAIN mod'[d].dependencies :
                  p = <<d, i>> /\ mod'[d].dependencies[i] = m /\ ~GivenBack(d, i)'
<1>1. (p \in Refs(m) <=>
              \E d \in Module : \E i \in DOMAIN mod[d].dependencies :
                  p = <<d, i>> /\ mod[d].dependencies[i] = m /\ ~GivenBack(d, i))'
  BY InRefs, PTL
<1> QED
  BY <1>1

(* One reference more.                                                      *)
LEMMA OneMore ==
    ASSUME NEW S, IsFiniteSet(S), NEW x, x \notin S, NEW T, T = S \cup {x}
    PROVE  Cardinality(T) = Cardinality(S) + 1
BY FS_AddElement

(* An import has been loaded.                                               *)
LEMMA ImportedKeeps == ASSUME TableInv, Imported PROVE TableInv'
<1>1. /\ InCall("module") /\ result \in Module
      /\ mod' = [mod EXCEPT ![Top.mod].dependencies[Top.i] = result]
      /\ stack' = <<[Top EXCEPT !.i = @ + 1]>> \o Tail(stack)
      /\ result' = NoResult
      /\ UNCHANGED <<world, loaded_modules, main_module, roots, phase>>
  BY DEF Imported, Replace
<1>2. PICK m \in Module :
              /\ m = Top.mod /\ stack # <<>> /\ Top.at = "module" /\ Owner(Top) /\ Holder(Top) /\ Held(m)
              /\ mod[m].life = "new" /\ mod[m].name = Top.name /\ Refs(m) = {} /\ roots[m] = 0 /\ result # m
              /\ \A k \in DOMAIN stack : k > 1 /\ Owner(stack[k]) => stack[k].mod # m
              /\ phase \in {"start", "running"}
  BY <1>1, LoadIs
<1>3. /\ mod \in [Module -> Structure] /\ loaded_modules \in Seq(Module) /\ stack \in Seq(Call)
      /\ roots \in [Module -> Nat]
  BY DEF TableInv, TableTypes
<1>4. PICK r \in Module : r = result /\ mod[r].life = "up" /\ mod[r].name # "exe"
  BY <1>1 DEF TableInv, ResultInv
<1>5. Null \notin Module /\ NoResult \notin Module /\ Null # NoResult
  BY NotModules
<1>6. Top \in Call /\ CallOk(Top)
  BY <1>2, TopIs
<1>28. PICK i \in Nat : i = Top.i
  BY <1>6 DEF Call
<1> DEFINE deps == mod[m].dependencies
           now == [deps EXCEPT ![i] = r]
           s == [mod[m] EXCEPT !.dependencies = now]
<1>7. deps \in Seq(Module \cup {Null}) /\ mod[m] \in Structure
  BY <1>3 DEF Structure
<1>8. i <= Len(deps) /\ Top.depth <= MaxDepth
  <2>1. Waiting(Top)
    BY <1>1, <1>5 DEF TableInv, ResultInv
  <2> QED
    BY <1>2, <1>28, <2>1 DEF Waiting
<1>9. /\ Top.name \in world.files \cup {"exe"} /\ Len(deps) = Len(Imports(Top.name))
      /\ i \in 1 .. Len(deps) + 1 /\ (Top.name = "exe" => m = main_module)
      /\ \A j \in i .. Len(deps) : deps[j] = Null
  BY <1>2, <1>6, <1>28 DEF CallOk
<1>10. Len(deps) \in Nat /\ DOMAIN deps = 1 .. Len(deps) /\ i \in 1 .. Len(deps) /\ deps[i] = Null
  <2>1. Len(deps) \in Nat /\ DOMAIN deps = 1 .. Len(deps)
    BY <1>7
  <2>2. i \in 1 .. Len(deps) /\ i \in i .. Len(deps)
    BY <1>8, <1>9, <2>1
  <2> QED
    BY <1>9, <2>1, <2>2
<1>11. /\ now \in Seq(Module \cup {Null}) /\ Len(now) = Len(deps) /\ DOMAIN now = DOMAIN deps
       /\ now[i] = r /\ \A j \in DOMAIN deps : j # i => now[j] = deps[j]
  BY <1>7, <1>10
<1>12. mod'[m] = s /\ mod' = [mod EXCEPT ![m] = s]
  BY <1>1, <1>2, <1>3, <1>4, <1>28
<1> HIDE DEF now
<1>13. s \in Structure /\ s.life = "new" /\ s.name = Top.name /\ s.refcount = mod[m].refcount /\ s.dependencies = now
  BY <1>2, <1>7, <1>11 DEF Structure
<1> HIDE DEF s
<1>14. /\ mod' \in [Module -> Structure] /\ \A d \in Module : d # m => mod'[d] = mod[d]
       /\ mod'[m].refcount = mod[m].refcount /\ mod'[m].life = "new" /\ mod'[m].name = mod[m].name
       /\ mod'[m].dependencies = now
  BY <1>2, <1>3, <1>12, <1>13
<1>29. PICK f : f = [Top EXCEPT !.i = @ + 1]
  OBVIOUS
<1>15. f \in Call /\ f.at = "module" /\ f.mod = m /\ f.name = Top.name /\ f.i = i + 1 /\ f.depth = Top.depth
  BY <1>2, <1>6, <1>28, <1>29 DEF Call
<1>16. stack' = <<f>> \o Tail(stack)
  BY <1>1, <1>29
<1>17. CallOk(f)'
  <2>1. Imports(f.name)' = Imports(f.name)
    BY <1>1 DEF Imports
  <2>2. f.i \in 1 .. Len(now) + 1 /\ \A j \in f.i .. Len(now) : now[j] = Null
    <3>1. f.i \in 1 .. Len(deps) + 1
      BY <1>10, <1>15
    <3>2. ASSUME NEW j \in f.i .. Len(deps) PROVE now[j] = Null
      <4>1. j \in i .. Len(deps) /\ j # i /\ j \in DOMAIN deps
        BY <1>10, <1>15, <3>2
      <4> QED
        BY <1>9, <1>11, <4>1
    <3> QED
      BY <1>11, <3>1, <3>2
  <2>3. f.depth <= MaxDepth /\ f.name \in world'.files \cup {"exe"} /\ Len(now) = Len(Imports(f.name))
        /\ (f.name = "exe" => m = main_module')
    BY <1>1, <1>8, <1>9, <1>11, <1>15
  <2> QED
    BY <1>2, <1>14, <1>15, <2>1, <2>2, <2>3 DEF CallOk, Owner
<1>18. /\ Moved(1, 1) /\ stack'[1] = f /\ 1 \in DOMAIN stack' /\ \A k \in DOMAIN stack' : k <= 1 => k = 1
       /\ CallsOk' /\ Places' /\ Unique' /\ Lives'
  <2>1. ~(roots[m] > 0)
    BY <1>2
  <2> QED
    BY <1>1, <1>2, <1>14, <1>15, <1>16, <1>17, <2>1, GoesOn
<1>19. TableTypes'
  <2>1. stack' \in Seq(Call)
    BY <1>18 DEF Moved
  <2> QED
    BY <1>1, <1>14, <2>1 DEF TableInv, TableTypes, Structure, Call
<1>20. ResultInv'
  BY <1>1, <1>5 DEF ResultInv
<1>21. \A d, j : GivenBack(d, j)' <=> GivenBack(d, j)
  <2>1. 1 \in Nat /\ 1 \in 0 .. 1 /\ Top.at # "free"
    BY <1>2
  <2>2. \A k \in DOMAIN stack' : k <= 1 => stack'[k].at # "free"
    BY <1>15, <1>18
  <2> QED
    BY <1>3, <1>18, <2>1, <2>2, GivenBackKept
<1>22. \A d \in Module : \A j : d # m \/ j # i =>
          ((j \in DOMAIN mod'[d].dependencies <=> j \in DOMAIN mod[d].dependencies)
           /\ (j \in DOMAIN mod[d].dependencies => mod'[d].dependencies[j] = mod[d].dependencies[j]))
  BY <1>11, <1>14
<1>23. ASSUME NEW e \in Module, e # r PROVE Refs(e)' = Refs(e)
  <2>1. ASSUME NEW d \in Module, NEW j
        PROVE  (j \in DOMAIN mod'[d].dependencies /\ mod'[d].dependencies[j] = e /\ ~GivenBack(d, j)') <=>
               (j \in DOMAIN mod[d].dependencies /\ mod[d].dependencies[j] = e /\ ~GivenBack(d, j))
    <3>1. CASE d = m /\ j = i
      BY <1>5, <1>10, <1>11, <1>14, <1>23, <3>1
    <3>2. CASE ~(d = m /\ j = i)
      BY <1>21, <1>22, <3>2
    <3> QED
      BY <3>1, <3>2
  <2> QED
    BY <2>1, RefsKept
<1>24. Refs(r)' = Refs(r) \cup {<<m, i>>} /\ <<m, i>> \notin Refs(r)
  <2>1. ASSUME NEW p
        PROVE  p \in Refs(r) <=>
              \E d \in Module : \E j \in DOMAIN mod[d].dependencies :
                  p = <<d, j>> /\ mod[d].dependencies[j] = r /\ ~GivenBack(d, j)
    BY InRefs
  <2>2. ASSUME NEW p
        PROVE  p \in Refs(r)' <=>
              \E d \in Module : \E j \in DOMAIN mod'[d].dependencies :
                  p = <<d, j>> /\ mod'[d].dependencies[j] = r /\ ~GivenBack(d, j)'
    BY InRefsNext
  <2>3. <<m, i>> \notin Refs(r)
    <3> SUFFICES ASSUME <<m, i>> \in Refs(r) PROVE FALSE
      OBVIOUS
    <3>1. PICK d \in Module : \E j \in DOMAIN mod[d].dependencies :
                <<m, i>> = <<d, j>> /\ mod[d].dependencies[j] = r
      BY <2>1
    <3>3. PICK j \in DOMAIN mod[d].dependencies :
                <<m, i>> = <<d, j>> /\ mod[d].dependencies[j] = r
      BY <3>1
    <3>2. d = m /\ j = i
      BY <3>3
    <3> QED
      BY <1>5, <1>10, <3>2, <3>3
  <2>4. ~GivenBack(m, i)
    <3> SUFFICES ASSUME NEW k \in DOMAIN stack, stack[k].at = "free", stack[k].mod = m PROVE FALSE
      BY DEF GivenBack
    <3>1. Owner(stack[k]) /\ k \in Nat \ {0} /\ k # 1
      BY <1>2, <1>3 DEF Owner, Top
    <3> QED
      BY <1>2, <3>1
  <2>5. ASSUME NEW p \in Refs(r)' PROVE p \in Refs(r) \cup {<<m, i>>}
    <3>1. PICK d \in Module : \E j \in DOMAIN mod'[d].dependencies :
                  p = <<d, j>> /\ mod'[d].dependencies[j] = r /\ ~GivenBack(d, j)'
      BY <2>2, <2>5
    <3>2. PICK j \in DOMAIN mod'[d].dependencies :
                  p = <<d, j>> /\ mod'[d].dependencies[j] = r /\ ~GivenBack(d, j)'
      BY <3>1
    <3>3. CASE d = m /\ j = i
      BY <3>2, <3>3
    <3>4. CASE ~(d = m /\ j = i)
      <4>1. j \in DOMAIN mod[d].dependencies /\ mod[d].dependencies[j] = r /\ ~GivenBack(d, j)
        BY <1>21, <1>22, <3>2, <3>4
      <4> QED
        BY <2>1, <3>2, <4>1
    <3> QED
      BY <3>3, <3>4
  <2>6. ASSUME NEW p \in Refs(r) PROVE p \in Refs(r)'
    <3>1. PICK d \in Module : \E j \in DOMAIN mod[d].dependencies :
                  p = <<d, j>> /\ mod[d].dependencies[j] = r /\ ~GivenBack(d, j)
      BY <2>1, <2>6
    <3>2. PICK j \in DOMAIN mod[d].dependencies :
                  p = <<d, j>> /\ mod[d].dependencies[j] = r /\ ~GivenBack(d, j)
      BY <3>1
    <3>3. ~(d = m /\ j = i)
      BY <1>5, <1>10, <3>2
    <3>4. j \in DOMAIN mod'[d].dependencies /\ mod'[d].dependencies[j] = r /\ ~GivenBack(d, j)'
      BY <1>21, <1>22, <3>2, <3>3
    <3> QED
      BY <2>2, <3>2, <3>4
  <2>7. <<m, i>> \in Refs(r)'
    <3>1. i \in DOMAIN mod'[m].dependencies /\ mod'[m].dependencies[i] = r /\ ~GivenBack(m, i)'
      BY <1>10, <1>11, <1>14, <1>21, <2>4
    <3> QED
      BY <2>2, <3>1
  <2> QED
    BY <2>3, <2>5, <2>6, <2>7
<1>25. Counts'
  <2> SUFFICES ASSUME NEW d \in Module
               PROVE  /\ mod'[d].refcount = roots'[d] + Cardinality(Refs(d)') + One(result' = d) + One(Held(d)')
                      /\ Refs(d)' # {} => mod'[d].life = "up" /\ mod'[d].name # "exe"
    BY DEF Counts, One
  <2>1. /\ mod[d].refcount = roots[d] + Cardinality(Refs(d)) + One(result = d) + One(Held(d))
        /\ Refs(d) # {} => mod[d].life = "up" /\ mod[d].name # "exe"
    BY DEF TableInv, Counts
  <2>2. mod'[d].refcount = mod[d].refcount /\ roots'[d] = roots[d] /\ One(result' = d) = 0
    BY <1>1, <1>5, <1>14 DEF One
  <2>3. One(Held(d)') = One(Held(d)) /\ One(Held(d)) \in Int
    <3>1. Held(d)' <=> Held(d)
      <4>1. CASE d = m
        <5>1. Held(m)'
          BY <1>15, <1>18 DEF Held, Holder
        <5> QED
          BY <1>2, <4>1, <5>1
      <4>2. CASE d # m
        <5>1. 1 \in Nat /\ 1 \in 0 .. 1 /\ ~(Holder(Top) /\ Top.mod = d)
          BY <1>2, <4>2
        <5>2. \A k \in DOMAIN stack' : k <= 1 => ~(Holder(stack'[k]) /\ stack'[k].mod = d)
          BY <1>15, <1>18, <4>2
        <5> QED
          BY <1>3, <1>18, <5>1, <5>2, HeldKept
      <4> QED
        BY <4>1, <4>2
    <3> QED
      BY <3>1 DEF One
  <2>4. roots[d] \in Int /\ Cardinality(Refs(d)) \in Int
    BY <1>3, RefsFinite
  <2>5. CASE d = r
    <3>1. Cardinality(Refs(d)') = Cardinality(Refs(d)) + 1
      BY <1>3, <1>24, <2>5, OneMore, RefsFinite
    <3>2. One(result = d) = 1 /\ mod'[d].life = "up" /\ mod'[d].name # "exe"
      BY <1>2, <1>4, <1>14, <2>5 DEF One
    <3> DEFINE a == mod[d].refcount
               b == mod'[d].refcount
               x == roots[d]
               y == roots'[d]
               q == Cardinality(Refs(d))
               w == Cardinality(Refs(d)')
               h == One(Held(d))
               g == One(Held(d)')
    <3>3. a = x + q + 1 + h /\ b = a /\ y = x /\ w = q + 1 /\ g = h /\ x \in Int /\ q \in Int /\ h \in Int
      BY <2>1, <2>2, <2>3, <2>4, <3>1, <3>2
    <3> HIDE DEF a, b, x, y, q, w, h, g
    <3>4. b = y + w + 0 + g
      BY <3>3
    <3> QED
      BY <2>2, <3>2, <3>4 DEF b, y, w, g
  <2>6. CASE d # r
    <3>1. Refs(d)' = Refs(d) /\ One(result = d) = 0
      BY <1>4, <1>23, <2>6 DEF One
    <3>2. Refs(d) # {} => mod'[d].life = "up" /\ mod'[d].name # "exe"
      BY <1>2, <1>14, <2>1
    <3> QED
      BY <2>1, <2>2, <2>3, <3>1, <3>2
  <2> QED
    BY <2>5, <2>6
<1>26. ListInv'
  <2>1. \A d \in Module :
              /\ mod'[d].life = "up" /\ mod'[d].name # "exe" <=> mod[d].life = "up" /\ mod[d].name # "exe"
              /\ mod[d].life = "up" /\ mod[d].name # "exe" => mod'[d].dependencies = mod[d].dependencies
    BY <1>2, <1>14
  <2> QED
    BY <1>1, <1>3, <2>1, ListKept DEF TableInv
<1>27. ExeInv'
  <2>1. \A d \in Module : mod'[d].life = mod[d].life /\ mod'[d].name = mod[d].name
    BY <1>2, <1>14
  <2>2. phase' # "exit" /\ stack' # <<>>
    BY <1>1, <1>2, <1>18
  <2> QED
    BY <1>1, <2>1, <2>2 DEF TableInv, ExeInv
<1> QED
  BY <1>18, <1>19, <1>20, <1>25, <1>26, <1>27 DEF TableInv

(* The imports of a library are there: it is initialised.                   *)
LEMMA LibraryKeeps == ASSUME TableInv, ModuleComplete, Top.name # "exe" PROVE TableInv'
<1>1. /\ InCall("module") /\ result = NoResult
      /\ mod' = [mod EXCEPT ![Top.mod].life = "in"]
      /\ stack' = <<[Top EXCEPT !.at = "init"]>> \o Tail(stack)
      /\ UNCHANGED <<world, loaded_modules, main_module, result, roots, phase>>
  BY DEF ModuleComplete, Replace
<1>2. PICK m \in Module :
              /\ m = Top.mod /\ stack # <<>> /\ Top.at = "module" /\ Owner(Top) /\ Holder(Top) /\ Held(m)
              /\ mod[m].life = "new" /\ mod[m].name = Top.name /\ Refs(m) = {} /\ roots[m] = 0 /\ result # m
              /\ \A k \in DOMAIN stack : k > 1 /\ Owner(stack[k]) => stack[k].mod # m
              /\ phase \in {"start", "running"}
  BY <1>1, LoadIs
<1>3. /\ mod \in [Module -> Structure] /\ loaded_modules \in Seq(Module) /\ stack \in Seq(Call)
      /\ roots \in [Module -> Nat]
  BY DEF TableInv, TableTypes
<1>4. Null \notin Module /\ NoResult \notin Module /\ Null # NoResult
  BY NotModules
<1>5. /\ mod' \in [Module -> Structure] /\ \A d \in Module : d # m => mod'[d] = mod[d]
      /\ mod'[m].refcount = mod[m].refcount /\ mod'[m].life = "in" /\ mod'[m].name = mod[m].name
      /\ mod'[m].dependencies = mod[m].dependencies
  <2>1. mod'[m] = [mod[m] EXCEPT !.life = "in"] /\ mod[m] \in Structure
    BY <1>1, <1>2, <1>3
  <2>2. mod'[m] \in Structure /\ mod'[m].refcount = mod[m].refcount /\ mod'[m].life = "in"
        /\ mod'[m].name = mod[m].name /\ mod'[m].dependencies = mod[m].dependencies
    BY <2>1 DEF Structure
  <2> QED
    BY <1>1, <1>2, <1>3, <2>2
<1>6. PICK f : f = [Top EXCEPT !.at = "init"]
  OBVIOUS
<1>7. f \in Call /\ f.at = "init" /\ f.mod = m /\ f.name = Top.name
  BY <1>2, <1>6, TopIs DEF Call
<1>8. CallOk(f)'
  BY <1>2, <1>5, <1>7 DEF CallOk, Owner
<1>9. stack' = <<f>> \o Tail(stack)
  BY <1>1, <1>6
<1>10. /\ Moved(1, 1) /\ stack'[1] = f /\ 1 \in DOMAIN stack' /\ \A k \in DOMAIN stack' : k <= 1 => k = 1
       /\ CallsOk' /\ Places' /\ Unique' /\ Lives'
  <2>1. ~(roots[m] > 0)
    BY <1>2
  <2> QED
    BY <1>1, <1>2, <1>5, <1>7, <1>8, <1>9, <2>1, GoesOn
<1>11. TableTypes'
  <2>1. stack' \in Seq(Call)
    BY <1>10 DEF Moved
  <2> QED
    BY <1>1, <1>5, <2>1 DEF TableInv, TableTypes, Structure, Call
<1>12. ResultInv'
  BY <1>1, <1>4 DEF ResultInv
<1>13. Counts'
  <2>1. 1 \in Nat /\ 1 \in 0 .. 1 /\ Top.at # "free" /\ (Holder(Top) => Top.mod = m)
    BY <1>2
  <2>2. \A k \in DOMAIN stack' : k <= 1 => stack'[k].at # "free" /\ stack'[k].mod = m
    BY <1>7, <1>10
  <2>3. \A d \in Module : Refs(d)' = Refs(d)
    <3>1. \A d, e \in Module : \A i :
               (i \in DOMAIN mod'[d].dependencies /\ mod'[d].dependencies[i] = e) <=>
               (i \in DOMAIN mod[d].dependencies /\ mod[d].dependencies[i] = e)
      BY <1>5
    <3> QED
      BY <1>3, <1>10, <2>1, <2>2, <3>1, SameRefs
  <2>4. Settles(m)
    <3>1. Held(m)'
      BY <1>7, <1>10 DEF Held, Holder
    <3>2. One(Held(m)') = One(Held(m)) /\ One(result' = m) = One(result = m)
      BY <1>1, <1>2, <3>1 DEF One
    <3>3. One(result = m) \in Int /\ One(Held(m)) \in Int /\ roots[m] \in Int /\ mod[m].refcount \in Int
      BY <1>3 DEF One, Structure
    <3> QED
      BY <1>1, <1>2, <1>5, <3>2, <3>3 DEF Settles
  <2>5. Counts /\ roots' \in [Module -> Nat]
    BY <1>1, <1>3 DEF TableInv
  <2> QED
    BY <1>3, <1>5, <1>10, <2>1, <2>2, <2>3, <2>4, <2>5, CountsKept
<1>14. ListInv'
  <2>1. \A d \in Module :
              /\ mod'[d].life = "up" /\ mod'[d].name # "exe" <=> mod[d].life = "up" /\ mod[d].name # "exe"
              /\ mod[d].life = "up" /\ mod[d].name # "exe" => mod'[d].dependencies = mod[d].dependencies
    BY <1>2, <1>5
  <2> QED
    BY <1>1, <1>3, <2>1, ListKept DEF TableInv
<1>15. ExeInv'
  <2>1. main_module # m
    BY <1>2 DEF TableInv, ExeInv
  <2>2. ASSUME NEW d \in Module, mod'[d].life = "up" PROVE mod'[d] = mod[d]
    BY <1>5, <2>2
  <2>3. main_module \in Module => mod'[main_module] = mod[main_module]
    BY <1>5, <2>1
  <2>4. phase' # "exit" /\ stack' # <<>>
    BY <1>1, <1>2, <1>10
  <2> QED
    BY <1>1, <2>2, <2>3, <2>4 DEF TableInv, ExeInv
<1> QED
  BY <1>10, <1>11, <1>12, <1>13, <1>14, <1>15 DEF TableInv

(* Two in front are one in front of one.                                    *)
LEMMA TwoInFront ==
    ASSUME NEW S, NEW t \in Seq(S), NEW a \in S, NEW b \in S
    PROVE  <<a, b>> \o t = <<a>> \o (<<b>> \o t)
<1> DEFINE one == <<b>> \o t
           two == <<a>> \o one
           both == <<a, b>> \o t
<1>1. Len(t) \in Nat /\ DOMAIN t = 1 .. Len(t)
  OBVIOUS
<1>2. /\ one \in Seq(S) /\ Len(one) = Len(t) + 1 /\ one[1] = b /\ DOMAIN one = 1 .. Len(t) + 1
      /\ \A k \in DOMAIN t : k + 1 \in DOMAIN one /\ one[k + 1] = t[k]
  BY Pushed
<1>3. /\ both \in Seq(S) /\ DOMAIN both = 1 .. Len(t) + 2
      /\ both[1] = a /\ both[2] = b /\ \A k \in 3 .. Len(t) + 2 : both[k] = t[k - 2]
  OBVIOUS
<1> HIDE DEF one, both
<1>4. /\ two \in Seq(S) /\ DOMAIN two = 1 .. Len(one) + 1 /\ two[1] = a
      /\ \A k \in DOMAIN one : k + 1 \in DOMAIN two /\ two[k + 1] = one[k]
  BY <1>2, Pushed
<1> HIDE DEF two
<1>5. DOMAIN two = DOMAIN both
  BY <1>1, <1>2, <1>3, <1>4
<1>6. ASSUME NEW k \in DOMAIN both PROVE both[k] = two[k]
  <2>1. CASE k = 1
    BY <1>3, <1>4, <2>1
  <2>2. CASE k = 2
    <3>1. 1 \in DOMAIN one /\ 1 + 1 = 2
      BY <1>1, <1>2
    <3> QED
      BY <1>2, <1>3, <1>4, <2>2, <3>1
  <2>3. CASE k # 1 /\ k # 2
    <3>1. k \in 3 .. Len(t) + 2 /\ k - 2 \in DOMAIN t /\ (k - 2) + 1 = k - 1 /\ (k - 1) + 1 = k
      BY <1>1, <1>3, <2>3
    <3>2. k - 1 \in DOMAIN one /\ one[k - 1] = t[k - 2]
      BY <1>2, <3>1
    <3>3. two[k] = one[k - 1]
      BY <1>4, <3>1, <3>2
    <3> QED
      BY <1>3, <3>1, <3>2, <3>3
  <2> QED
    BY <2>1, <2>2, <2>3
<1>7. both = two
  BY <1>3, <1>4, <1>5, <1>6
<1> QED
  BY <1>7 DEF one, two, both

(* The innermost call goes on and has freeLxModule called.                  *)
LEMMA GoesOnFreeing ==
    ASSUME TableInv, stack # <<>>, Owner(Top), NEW f \in Call, NEW g \in Call,
           stack' = <<f>> \o (<<g>> \o Tail(stack)), f.at = "unref", g.name = Top.name,
           f.mod \in Module, mod[f.mod].life \in {"new", "up"},
           UNCHANGED <<world, mod, main_module, roots, phase>>, result' = NoResult,
           \/ g.at = "failed" /\ Top.at = "module" /\ f.mod = Top.mod
           \/ /\ g.at = "free" /\ Top.at = "free" /\ g.mod = Top.mod /\ CallOk(g)
              /\ \A k \in DOMAIN stack : Owner(stack[k]) => stack[k].mod # f.mod
    PROVE  /\ Moved(2, 1) /\ stack'[1] = f /\ stack'[2] = g /\ 1 \in DOMAIN stack' /\ 2 \in DOMAIN stack'
           /\ \A k \in DOMAIN stack' : k <= 2 => k \in {1, 2}
           /\ CallsOk' /\ Places' /\ Unique' /\ Lives' /\ ResultInv'
<1>1. /\ mod \in [Module -> Structure] /\ stack \in Seq(Call) /\ roots \in [Module -> Nat]
  BY DEF TableInv, TableTypes
<1>2. /\ 1 \in DOMAIN stack /\ Top \in Call /\ Top = stack[1] /\ CallOk(Top)
      /\ \A k \in DOMAIN stack : k > 1 /\ Owner(stack[k]) => stack[k].mod # Top.mod
      /\ Len(stack) > 1 /\ (Loading(Top) \/ Top.at = "failed") => Loading(stack[2])
  BY TopIs
<1>3. Moved(2, 1) /\ stack'[1] = f /\ stack'[2] = g /\ 1 \in DOMAIN stack' /\ 2 \in DOMAIN stack'
  BY <1>1, CallMoves
<1>4. stack' \in Seq(Call) /\ Len(stack') = Len(stack) + 1 /\ Len(stack) \in Nat /\ Len(stack) # 0
  <2>1. stack' \in Seq(Call) /\ Len(stack') = Len(stack) - 1 + 2 /\ Len(stack) \in Nat /\ Len(stack) # 0
    BY <1>1, <1>3 DEF Moved
  <2> QED
    BY <2>1
<1>5. \A k \in DOMAIN stack' : k <= 2 => (k = 1 /\ stack'[k] = f) \/ (k = 2 /\ stack'[k] = g)
  <2>1. \A k \in DOMAIN stack' : k \in Nat \ {0}
    BY <1>4
  <2>2. \A l \in Nat \ {0} : l <= 2 => l = 1 \/ l = 2
    OBVIOUS
  <2> QED
    BY <1>3, <2>1, <2>2
<1>6. PICK m \in Module : m = Top.mod
  BY <1>2 DEF CallOk
<1>7. Changes(1, m)
  BY <1>1, <1>2, <1>6 DEF Changes
<1>8. 2 \in Nat /\ 2 \in 0 .. 2 /\ 1 \in Nat /\ 1 \in 0 .. 1 /\ ~(1 = 0) /\ ~(2 = 0) /\ Owner(f)
  BY DEF Owner
<1>9. CallsOk'
  <2>1. CallOk(f)' /\ CallOk(g)'
    BY <1>2 DEF CallOk, Owner
  <2>2. \A k \in DOMAIN stack' : k <= 2 => CallOk(stack[k])'
    <3> SUFFICES ASSUME NEW k \in DOMAIN stack', stack'[k] = f \/ stack'[k] = g PROVE CallOk(stack[k])'
      BY <1>5
    <3> QED
      BY <2>1 DEF CallOk, Owner
  <2>3. \A k \in DOMAIN stack : k > 1 /\ stack[k].at = "terminate" => phase' = "exit"
    BY DEF TableInv, CallsOk, CallOk
  <2>4. CallsOk
    BY DEF TableInv
  <2> QED
    BY <1>1, <1>3, <1>7, <1>8, <2>2, <2>3, <2>4, CallsKept
<1>10. Places'
  <2>1. ASSUME g.at = "failed", 2 # Len(stack') PROVE Loading(stack'[2 + 1])
    <3>1. Loading(stack[2])
      <4>1. Loading(Top) /\ Len(stack) > 1
        BY <1>4, <2>1 DEF Loading
      <4> QED
        BY <1>2, <4>1
    <3>2. stack'[2 + 1] = stack[2]
      <4>1. 2 \in DOMAIN stack /\ 2 > 1 /\ 2 - 1 + 2 = 2 + 1
        BY <1>1, <1>4, <2>1
      <4> QED
        BY <1>3, <4>1 DEF Moved
    <3> QED
      BY <3>1, <3>2
  <2>2. Waiting(g)'
    BY DEF Waiting
  <2>3. \A k \in DOMAIN stack' : k <= 2 =>
              /\ k # 1 => Waiting(stack[k])'
              /\ stack'[k].at = "terminate" => k = Len(stack')
              /\ (Loading(stack'[k]) \/ stack'[k].at = "failed") /\ k # Len(stack') => Loading(stack'[k + 1])
              /\ stack'[k].at = "module" /\ stack'[k].name = "exe" => k = Len(stack')
    <3> SUFFICES ASSUME NEW k \in DOMAIN stack', (k = 1 /\ stack'[k] = f) \/ (k = 2 /\ stack'[k] = g)
                 PROVE  /\ k # 1 => Waiting(stack[k])'
                        /\ stack'[k].at = "terminate" => k = Len(stack')
                        /\ (Loading(stack'[k]) \/ stack'[k].at = "failed") /\ k # Len(stack') => Loading(stack'[k + 1])
                        /\ stack'[k].at = "module" /\ stack'[k].name = "exe" => k = Len(stack')
      BY <1>5
    <3>1. CASE k = 1 /\ stack'[k] = f
      BY <3>1 DEF Loading
    <3>2. CASE k = 2 /\ stack'[k] = g
      <4>1. Waiting(stack[k])'
        BY <3>2 DEF Waiting
      <4> QED
        BY <2>1, <3>2, <4>1 DEF Loading
    <3> QED
      BY <3>1, <3>2
  <2>4. phase' = "start" /\ stack' # <<>> =>
              IF Len(stack) > 1 THEN phase = "start"
              ELSE stack'[Len(stack')].name = "exe" /\ stack'[Len(stack')].at \in {"module", "failed"}
    <3> SUFFICES ASSUME phase = "start", ~(Len(stack) > 1)
                 PROVE  stack'[Len(stack')].name = "exe" /\ stack'[Len(stack')].at \in {"module", "failed"}
      OBVIOUS
    <3>1. Len(stack) = 1 /\ Len(stack') = 2
      <4>1. \A l \in Nat : l # 0 /\ ~(l > 1) => l = 1 /\ l + 1 = 2
        OBVIOUS
      <4> QED
        BY <1>4, <4>1
    <3>2. Top.name = "exe" /\ Top.at \in {"module", "failed"}
      BY <1>2, <3>1 DEF TableInv, Places
    <3> QED
      BY <1>3, <3>1, <3>2 DEF Owner
  <2>5. phase' = "exit" =>
              /\ phase = "exit" /\ (1 = 1 => Top.at # "terminate")
              /\ \A k \in DOMAIN stack' : k <= 2 => stack'[k].at \in {"unref", "free"}
    <3> SUFFICES ASSUME phase = "exit"
                 PROVE  Top.at # "terminate" /\ \A k \in DOMAIN stack' : k <= 2 => stack'[k].at \in {"unref", "free"}
      OBVIOUS
    <3>1. Top.at \in {"unref", "free"}
      BY <1>2 DEF TableInv, Places, Owner
    <3>2. g.at = "free"
      BY <3>1
    <3> QED
      BY <1>5, <3>1, <3>2
  <2>6. phase' # "ended"
    BY DEF TableInv, Places
  <2>7. Places /\ CallsOk
    BY DEF TableInv
  <2> QED
    BY <1>1, <1>3, <1>7, <1>8, <2>3, <2>4, <2>5, <2>6, <2>7, PlacesKept
<1>11. Unique'
  <2>1. Owner(g) => g.at = "free" /\ f.mod # g.mod
    BY <1>2 DEF Owner
  <2>2. \A j, k \in DOMAIN stack' : j <= 2 /\ k <= 2 /\ Owner(stack'[j]) /\ Owner(stack'[k])
                                          /\ stack'[j].mod = stack'[k].mod => j = k
    BY <1>5, <2>1
  <2>3. \A k \in DOMAIN stack : k > 1 /\ Owner(stack[k]) => f.mod # stack[k].mod /\ (Owner(g) => g.mod # stack[k].mod)
    BY <1>2 DEF Owner
  <2>4. \A j \in DOMAIN stack', k \in DOMAIN stack :
              j <= 2 /\ k > 1 /\ Owner(stack'[j]) /\ Owner(stack[k]) => stack'[j].mod # stack[k].mod
    BY <1>5, <2>3
  <2>5. Unique /\ stack \in Seq(Call) /\ 2 \in Nat /\ 1 \in Nat /\ Moved(2, 1)
    BY <1>1, <1>3 DEF TableInv
  <2> QED
    BY <2>2, <2>4, <2>5, UniqueKept
<1>12. Lives'
  <2>1. \A d \in Module : roots'[d] > roots[d] => mod'[d].life = "up"
    <3>1. \A d \in Module : ~(roots'[d] > roots[d])
      BY <1>1
    <3> QED
      BY <3>1
  <2>2. m \in Module =>
              /\ mod'[m].life \in {"new", "in", "down"} =>
                    \E k \in DOMAIN stack' : Owner(stack'[k]) /\ stack'[k].mod = m
              /\ mod'[m].life = "unused" => mod'[m] = Unused
              /\ roots'[m] > 0 => mod'[m].life = "up"
    <3>1. \E k \in DOMAIN stack' : Owner(stack'[k]) /\ stack'[k].mod = m
      BY <1>3, <1>6, <1>8 DEF Owner
    <3> QED
      BY <3>1 DEF TableInv, Lives
  <2>3. Lives /\ roots' \in [Module -> Nat]
    BY <1>1 DEF TableInv
  <2>4. 1 = 1 /\ Owner(Top) => Top.mod = m
    BY <1>6
  <2> QED
    BY <1>1, <1>3, <1>7, <1>8, <2>1, <2>2, <2>3, <2>4, LivesKept
<1>13. ResultInv'
  BY NotModules DEF ResultInv
<1> QED
  BY <1>3, <1>5, <1>9, <1>10, <1>11, <1>12, <1>13

(* Loading fails.                                                           *)
LEMMA FailsKeeps == ASSUME TableInv, ModuleFails PROVE TableInv'
<1>1. /\ InCall("module") /\ (result = Null \/ result = NoResult)
      /\ stack' = <<[Top EXCEPT !.at = "unref"], [Top EXCEPT !.at = "failed"]>> \o Tail(stack)
      /\ result' = NoResult
      /\ UNCHANGED <<world, mod, loaded_modules, main_module, roots, phase>>
  BY DEF ModuleFails
<1>2. PICK m \in Module :
              /\ m = Top.mod /\ stack # <<>> /\ Top.at = "module" /\ Owner(Top) /\ Holder(Top) /\ Held(m)
              /\ mod[m].life = "new" /\ mod[m].name = Top.name /\ Refs(m) = {} /\ roots[m] = 0 /\ result # m
              /\ \A k \in DOMAIN stack : k > 1 /\ Owner(stack[k]) => stack[k].mod # m
              /\ phase \in {"start", "running"}
  BY <1>1, LoadIs
<1>3. /\ mod \in [Module -> Structure] /\ loaded_modules \in Seq(Module) /\ stack \in Seq(Call)
      /\ roots \in [Module -> Nat]
  BY DEF TableInv, TableTypes
<1>4. PICK f : f = [Top EXCEPT !.at = "unref"]
  OBVIOUS
<1>5. PICK g : g = [Top EXCEPT !.at = "failed"]
  OBVIOUS
<1>6. f \in Call /\ f.at = "unref" /\ f.mod = m /\ g \in Call /\ g.at = "failed" /\ g.name = Top.name
  BY <1>2, <1>4, <1>5, TopIs DEF Call
<1>7. stack' = <<f>> \o (<<g>> \o Tail(stack))
  <2>1. Tail(stack) \in Seq(Call)
    BY <1>2, <1>3, Popped
  <2>2. stack' = <<f, g>> \o Tail(stack)
    BY <1>1, <1>4, <1>5
  <2> QED
    BY <1>6, <2>1, <2>2, TwoInFront
<1>8. /\ Moved(2, 1) /\ stack'[1] = f /\ stack'[2] = g /\ 1 \in DOMAIN stack' /\ 2 \in DOMAIN stack'
      /\ \A k \in DOMAIN stack' : k <= 2 => k \in {1, 2}
      /\ CallsOk' /\ Places' /\ Unique' /\ Lives' /\ ResultInv'
  BY <1>1, <1>2, <1>6, <1>7, GoesOnFreeing
<1>9. TableTypes'
  <2>1. stack' \in Seq(Call)
    BY <1>8 DEF Moved
  <2> QED
    BY <1>1, <2>1 DEF TableInv, TableTypes, Structure, Call
<1>10. Counts'
  <2>1. 2 \in Nat /\ 1 \in 0 .. 1 /\ Top.at # "free" /\ (Holder(Top) => Top.mod = m)
    BY <1>2
  <2>2. \A k \in DOMAIN stack' : k <= 2 => stack'[k].at # "free" /\ (Holder(stack'[k]) => stack'[k].mod = m)
    BY <1>6, <1>8 DEF Holder
  <2>3. \A d \in Module : Refs(d)' = Refs(d)
    <3>1. \A d, e \in Module : \A i :
               (i \in DOMAIN mod'[d].dependencies /\ mod'[d].dependencies[i] = e) <=>
               (i \in DOMAIN mod[d].dependencies /\ mod[d].dependencies[i] = e)
      BY <1>1
    <3> QED
      BY <1>3, <1>8, <2>1, <2>2, <3>1, SameRefs
  <2>4. Settles(m)
    <3>1. Held(m)'
      BY <1>6, <1>8 DEF Held, Holder
    <3>2. result' # m /\ \A d \in Module : result # d /\ result' # d
      BY <1>1, NotModules
    <3>3. One(Held(m)') = One(Held(m)) /\ One(result' = m) = One(result = m)
      BY <1>2, <3>1, <3>2 DEF One
    <3>4. One(result = m) \in Int /\ One(Held(m)) \in Int /\ roots[m] \in Int /\ mod[m].refcount \in Int
      BY <1>3 DEF One, Structure
    <3> QED
      BY <1>1, <1>2, <3>2, <3>3, <3>4 DEF Settles
  <2>5. Counts /\ roots' \in [Module -> Nat] /\ mod' \in [Module -> Structure]
    BY <1>1, <1>3 DEF TableInv
  <2> QED
    BY <1>3, <1>8, <2>1, <2>2, <2>3, <2>4, <2>5, CountsKept
<1>11. ListInv'
  BY <1>1, <1>3, ListKept DEF TableInv
<1>12. ExeInv'
  <2>1. phase' # "exit" /\ stack' # <<>>
    BY <1>1, <1>2, <1>8
  <2> QED
    BY <1>1, <2>1 DEF TableInv, ExeInv
<1> QED
  BY <1>8, <1>9, <1>10, <1>11, <1>12 DEF TableInv

(* What a structure being freed has given back: its last imports.           *)
LEMMA GivenBackIs ==
    Unique => \A k \in DOMAIN stack : stack[k].at = "free" =>
                  \A d, j : stack[k].mod = d => (GivenBack(d, j) <=> stack[k].i < j)
<1> SUFFICES ASSUME Unique, NEW k \in DOMAIN stack, stack[k].at = "free", NEW d, NEW j, stack[k].mod = d
             PROVE  GivenBack(d, j) <=> stack[k].i < j
  OBVIOUS
<1>1. ASSUME GivenBack(d, j) PROVE stack[k].i < j
  <2>1. PICK l \in DOMAIN stack : stack[l].at = "free" /\ stack[l].mod = d /\ stack[l].i < j
    BY <1>1 DEF GivenBack
  <2>2. l = k
    BY <2>1 DEF Unique, Owner
  <2> QED
    BY <2>1, <2>2
<1>2. ASSUME stack[k].i < j PROVE GivenBack(d, j)
  BY <1>2 DEF GivenBack
<1> QED
  BY <1>1, <1>2

(* After the step too.                                                      *)
LEMMA GivenBackIsNext ==
    Unique' => \A k \in DOMAIN stack' : stack'[k].at = "free" =>
                  \A d, j : stack'[k].mod = d => (GivenBack(d, j)' <=> stack'[k].i < j)
<1>1. (Unique => \A k \in DOMAIN stack : stack[k].at = "free" =>
                  \A d, j : stack[k].mod = d => (GivenBack(d, j) <=> stack[k].i < j))'
  BY GivenBackIs, PTL
<1> QED
  BY <1>1

(* What freeLxModule finds when it is called.                               *)
LEMMA UnrefIs ==
    ASSUME TableInv, InCall("unref")
    PROVE  \E m \in Module :
              /\ m = Top.mod /\ stack # <<>> /\ Top.at = "unref" /\ Owner(Top) /\ Holder(Top) /\ Held(m)
              /\ mod[m].life \in {"new", "up"} /\ result = NoResult
              /\ mod[m].refcount = roots[m] + Cardinality(Refs(m)) + 1
              /\ \A k \in DOMAIN stack : k > 1 /\ Owner(stack[k]) => stack[k].mod # m
              /\ phase \in {"start", "running", "exit"}
<1>1. stack # <<>> /\ Top.at = "unref" /\ Owner(Top) /\ Holder(Top) /\ phase # "crashed"
  BY DEF InCall, Owner, Holder
<1>2. PICK m \in Module : m = Top.mod
  BY <1>1, TopIs DEF CallOk
<1>3. mod[m].life \in {"new", "up"}
  BY <1>1, <1>2, TopIs DEF CallOk
<1>4. Held(m)
  BY <1>1, <1>2, TopIs DEF Held
<1>5. result = NoResult
  BY <1>1 DEF TableInv, ResultInv
<1>6. mod[m].refcount = roots[m] + Cardinality(Refs(m)) + 1
  <2>1. mod[m].refcount = roots[m] + Cardinality(Refs(m)) + One(result = m) + One(Held(m))
    BY DEF TableInv, Counts
  <2>2. One(result = m) = 0 /\ One(Held(m)) = 1
    BY <1>4, <1>5, NotModules DEF One
  <2>3. roots[m] \in Nat /\ Cardinality(Refs(m)) \in Nat
    BY RefsFinite DEF TableInv, TableTypes
  <2> DEFINE q == Cardinality(Refs(m))
  <2> HIDE DEF q
  <2>4. mod[m].refcount = roots[m] + q + 0 + 1 /\ roots[m] \in Nat /\ q \in Nat
    BY <2>1, <2>2, <2>3 DEF q
  <2>5. mod[m].refcount = roots[m] + q + 1
    BY <2>4
  <2> QED
    BY <2>5 DEF q
<1>7. phase \in {"start", "running", "exit"}
  BY <1>1 DEF TableInv, TableTypes, Places
<1> QED
  BY <1>1, <1>2, <1>3, <1>4, <1>5, <1>6, <1>7, TopIs

(* freeLxModule returns.                                                    *)
LEMMA FreeReturns ==
    ASSUME TableInv, stack # <<>>, Top.at \in {"unref", "free"}, NEW m \in Module, m = Top.mod, stack' = Tail(stack),
           mod' \in [Module -> Structure], \A d \in Module : d # m => mod'[d] = mod[d],
           UNCHANGED <<world, loaded_modules, main_module, result, roots, phase>>,
           mod'[m].life = "up" \/ (mod'[m] = Unused /\ roots[m] = 0),
           mod'[m].life = "up" <=> mod[m].life = "up",
           mod'[m].life = "up" => mod'[m].name = mod[m].name /\ mod'[m].dependencies = mod[m].dependencies,
           \A d \in Module : Refs(d)' = Refs(d),
           mod'[m].refcount + One(Held(m)) = mod[m].refcount
    PROVE  /\ TableTypes' /\ CallsOk' /\ Places' /\ Unique' /\ Lives' /\ ResultInv' /\ Counts' /\ ListInv'
           /\ Moved(0, 1) /\ (phase = "start" => stack' # <<>>) /\ (phase = "exit" => stack' # <<>>)
<1>1. /\ mod \in [Module -> Structure] /\ stack \in Seq(Call) /\ roots \in [Module -> Nat]
      /\ loaded_modules \in Seq(Module)
  BY DEF TableInv, TableTypes
<1>2. /\ 1 \in DOMAIN stack /\ Top \in Call /\ Top = stack[1] /\ CallOk(Top) /\ Owner(Top)
      /\ \A k \in DOMAIN stack : k > 1 /\ Owner(stack[k]) => stack[k].mod # m
  BY TopIs DEF Owner
<1>3. Moved(0, 1)
  BY <1>1, PopMoves
<1>4. stack' \in Seq(Call) /\ Len(stack') = Len(stack) - 1 /\ Len(stack) \in Nat /\ Len(stack) # 0
  <2>1. stack' \in Seq(Call) /\ Len(stack') = Len(stack) - 1 + 0 /\ Len(stack) \in Nat /\ Len(stack) # 0
    BY <1>1, <1>3 DEF Moved
  <2> QED
    BY <2>1
<1>5. \A k \in DOMAIN stack' : ~(k <= 0)
  BY <1>4
<1>6. Changes(1, m)
  BY <1>2 DEF Changes
<1>7. 0 \in Nat /\ 1 \in Nat /\ 1 \in 0 .. 1 /\ 0 \in 0 .. 2 /\ ~(1 = 0)
  OBVIOUS
<1>8. CallsOk'
  <2>1. \A k \in DOMAIN stack : k > 1 /\ stack[k].at = "terminate" => phase' = "exit"
    BY DEF TableInv, CallsOk, CallOk
  <2>2. \A k \in DOMAIN stack' : k <= 0 => CallOk(stack[k])'
    BY <1>5
  <2>3. CallsOk
    BY DEF TableInv
  <2> QED
    BY <1>1, <1>3, <1>6, <1>7, <2>1, <2>2, <2>3, CallsKept
<1>9. Len(stack) = 1 => phase # "start" /\ phase # "exit"
  BY <1>2 DEF TableInv, Places
<1>10. Len(stack') = 0 => Len(stack) = 1
  BY <1>4
<1>11. (phase = "start" => stack' # <<>>) /\ (phase = "exit" => stack' # <<>>)
  <2>1. stack' = <<>> => Len(stack') = 0
    OBVIOUS
  <2> QED
    BY <1>9, <1>10, <2>1
<1>12. Places'
  <2>1. phase' = "start" /\ stack' # <<>> =>
              IF Len(stack) > 1 THEN phase = "start"
              ELSE stack'[Len(stack')].name = "exe" /\ stack'[Len(stack')].at \in {"module", "failed"}
    <3>1. phase = "start" => Len(stack) > 1
      <4>1. \A l \in Nat : l # 0 /\ l # 1 => l > 1
        OBVIOUS
      <4> QED
        BY <1>4, <1>9, <4>1
    <3> QED
      BY <3>1
  <2>2. phase' = "exit" =>
              /\ phase = "exit" /\ (1 = 1 => Top.at # "terminate")
              /\ \A k \in DOMAIN stack' : k <= 0 => stack'[k].at \in {"unref", "free"}
    BY <1>5
  <2>3. phase' # "ended"
    BY DEF TableInv, Places
  <2>4. \A k \in DOMAIN stack' : k <= 0 =>
              /\ k # 1 => Waiting(stack[k])'
              /\ stack'[k].at = "terminate" => k = Len(stack')
              /\ (Loading(stack'[k]) \/ stack'[k].at = "failed") /\ k # Len(stack') => Loading(stack'[k + 1])
              /\ stack'[k].at = "module" /\ stack'[k].name = "exe" => k = Len(stack')
    BY <1>5
  <2>5. Places /\ CallsOk /\ (0 = 0 => 1 = 1)
    BY DEF TableInv
  <2> QED
    BY <1>1, <1>3, <1>6, <1>7, <2>1, <2>2, <2>3, <2>4, <2>5, PlacesKept
<1>13. Unique'
  <2>1. Unique
    BY DEF TableInv
  <2> QED
    BY <1>1, <1>3, <1>5, <1>7, <2>1, UniqueKept
<1>14. Lives'
  <2>1. \A d \in Module : roots'[d] > roots[d] => mod'[d].life = "up"
    <3>1. \A d \in Module : ~(roots'[d] > roots[d])
      BY <1>1
    <3> QED
      BY <3>1
  <2>2. m \in Module =>
              /\ mod'[m].life \in {"new", "in", "down"} =>
                    \E k \in DOMAIN stack' : Owner(stack'[k]) /\ stack'[k].mod = m
              /\ mod'[m].life = "unused" => mod'[m] = Unused
              /\ roots'[m] > 0 => mod'[m].life = "up"
    BY DEF Unused
  <2>3. Lives /\ roots' \in [Module -> Nat]
    BY <1>1 DEF TableInv
  <2>4. 1 = 1 /\ Owner(Top) => Top.mod = m
    OBVIOUS
  <2> QED
    BY <1>1, <1>3, <1>6, <1>7, <2>1, <2>2, <2>3, <2>4, LivesKept
<1>15. result = NoResult /\ ResultInv'
  <2>1. result = NoResult
    BY DEF TableInv, ResultInv
  <2> QED
    BY <2>1, NotModules DEF ResultInv
<1>16. Counts'
  <2>1. ~Held(m)'
    <3>1. \A k \in DOMAIN stack' : k <= 0 => ~(Holder(stack'[k]) /\ stack'[k].mod = m)
      BY <1>5
    <3> QED
      BY <1>1, <1>2, <1>3, <1>7, <3>1, NotHeld
  <2>2. ASSUME NEW d \in Module
        PROVE  result # d /\ result' # d
    BY <1>15, NotModules
  <2>3. mod'[m].refcount + roots[m] + One(result = m) + One(Held(m)) =
                mod[m].refcount + roots'[m] + One(result' = m) + One(Held(m)')
    <3>1. One(result = m) = 0 /\ One(result' = m) = 0 /\ One(Held(m)') = 0 /\ roots'[m] = roots[m]
      BY <2>1, <2>2 DEF One
    <3>2. One(Held(m)) \in Int /\ roots[m] \in Int /\ mod'[m].refcount \in Int /\ mod[m].refcount \in Int
      BY <1>1 DEF One, Structure
    <3>3. mod'[m].refcount + One(Held(m)) = mod[m].refcount
      OBVIOUS
    <3> DEFINE a == mod'[m].refcount
               b == mod[m].refcount
               x == roots[m]
               h == One(Held(m))
    <3>4. a \in Int /\ b \in Int /\ x \in Int /\ h \in Int /\ a + h = b
      BY <3>2, <3>3
    <3> HIDE DEF a, b, x, h
    <3>5. a + x + 0 + h = b + x + 0 + 0
      BY <3>4
    <3> QED
      BY <3>1, <3>5 DEF a, b, x, h
  <2>4. Refs(m) # {} => mod'[m].life = "up" /\ mod'[m].name # "exe"
    BY DEF TableInv, Counts
  <2>5. Settles(m)
    BY <2>2, <2>3, <2>4 DEF Settles
  <2>6. Counts /\ roots' \in [Module -> Nat] /\ (1 = 1 /\ Holder(Top) => Top.mod = m)
    BY <1>1 DEF TableInv
  <2>7. \A k \in DOMAIN stack' : k <= 0 /\ Holder(stack'[k]) => stack'[k].mod = m
    BY <1>5
  <2> QED
    BY <1>1, <1>3, <1>7, <2>5, <2>6, <2>7, CountsKept
<1>17. ListInv'
  <2>1. \A d \in Module :
              /\ mod'[d].life = "up" /\ mod'[d].name # "exe" <=> mod[d].life = "up" /\ mod[d].name # "exe"
              /\ mod[d].life = "up" /\ mod[d].name # "exe" => mod'[d].dependencies = mod[d].dependencies
    OBVIOUS
  <2> QED
    BY <1>1, <2>1, ListKept DEF TableInv
<1>18. TableTypes'
  BY <1>4 DEF TableInv, TableTypes, Structure, Call
<1> QED
  BY <1>3, <1>8, <1>11, <1>12, <1>13, <1>14, <1>15, <1>16, <1>17, <1>18

(* Somebody may still use the module.                                       *)
LEMMA StillKeeps == ASSUME TableInv, StillInUse PROVE TableInv'
<1>1. /\ InCall("unref") /\ mod[Top.mod].refcount > 1
      /\ mod' = [mod EXCEPT ![Top.mod].refcount = @ - 1]
      /\ stack' = Tail(stack)
      /\ UNCHANGED <<world, loaded_modules, main_module, result, roots, phase>>
  BY DEF StillInUse
<1>2. PICK m \in Module :
              /\ m = Top.mod /\ stack # <<>> /\ Top.at = "unref" /\ Owner(Top) /\ Holder(Top) /\ Held(m)
              /\ mod[m].life \in {"new", "up"} /\ result = NoResult
              /\ mod[m].refcount = roots[m] + Cardinality(Refs(m)) + 1
              /\ \A k \in DOMAIN stack : k > 1 /\ Owner(stack[k]) => stack[k].mod # m
              /\ phase \in {"start", "running", "exit"}
  BY <1>1, UnrefIs
<1>3. /\ mod \in [Module -> Structure] /\ stack \in Seq(Call) /\ roots \in [Module -> Nat]
  BY DEF TableInv, TableTypes
<1>4. roots[m] > 0 \/ Refs(m) # {}
  <2>1. roots[m] \in Nat /\ Cardinality(Refs(m)) \in Nat /\ (Refs(m) = {} <=> Cardinality(Refs(m)) = 0)
    BY <1>3, RefsFinite
  <2> DEFINE q == Cardinality(Refs(m))
  <2>2. q \in Nat /\ roots[m] + q + 1 > 1 /\ roots[m] \in Nat
    BY <1>1, <1>2, <2>1
  <2> HIDE DEF q
  <2>3. roots[m] > 0 \/ q # 0
    BY <2>2
  <2> QED
    BY <2>1, <2>3 DEF q
<1>5. mod[m].life = "up"
  BY <1>4 DEF TableInv, Lives, Counts
<1>6. /\ mod' \in [Module -> Structure] /\ \A d \in Module : d # m => mod'[d] = mod[d]
      /\ mod'[m].refcount = mod[m].refcount - 1 /\ mod'[m].life = mod[m].life /\ mod'[m].name = mod[m].name
      /\ mod'[m].dependencies = mod[m].dependencies
  <2>1. mod'[m] = [mod[m] EXCEPT !.refcount = @ - 1] /\ mod[m] \in Structure
    BY <1>1, <1>2, <1>3
  <2>2. mod[m].refcount - 1 \in Nat
    <3>1. mod[m].refcount \in Nat /\ mod[m].refcount > 1
      BY <1>1, <1>2, <2>1 DEF Structure
    <3> QED
      BY <3>1
  <2>3. mod'[m] \in Structure /\ mod'[m].refcount = mod[m].refcount - 1 /\ mod'[m].life = mod[m].life
        /\ mod'[m].name = mod[m].name /\ mod'[m].dependencies = mod[m].dependencies
    BY <2>1, <2>2 DEF Structure
  <2> QED
    BY <1>1, <1>2, <1>3, <2>3
<1>7. \A d \in Module : Refs(d)' = Refs(d)
  <2>1. Moved(0, 1)
    BY <1>1, <1>2, <1>3, PopMoves
  <2>2. \A d, e \in Module : \A i :
               (i \in DOMAIN mod'[d].dependencies /\ mod'[d].dependencies[i] = e) <=>
               (i \in DOMAIN mod[d].dependencies /\ mod[d].dependencies[i] = e)
    BY <1>6
  <2>3. 0 \in Nat /\ 1 \in 0 .. 1 /\ Top.at # "free"
    BY <1>2
  <2>4. \A k \in DOMAIN stack' : k <= 0 => stack'[k].at # "free"
    BY <2>1 DEF Moved
  <2> QED
    BY <1>3, <2>1, <2>2, <2>3, <2>4, SameRefs
<1>8. mod'[m].refcount + One(Held(m)) = mod[m].refcount
  <2>1. One(Held(m)) = 1 /\ mod[m].refcount \in Int
    BY <1>2, <1>3 DEF One, Structure
  <2> QED
    BY <1>6, <2>1
<1>9. /\ TableTypes' /\ CallsOk' /\ Places' /\ Unique' /\ Lives' /\ ResultInv' /\ Counts' /\ ListInv'
      /\ Moved(0, 1) /\ (phase = "start" => stack' # <<>>)
  BY <1>1, <1>2, <1>5, <1>6, <1>7, <1>8, FreeReturns
<1>10. ExeInv'
  <2>1. \A d \in Module : mod'[d].life = mod[d].life /\ mod'[d].name = mod[d].name
    BY <1>6
  <2>2. ASSUME phase = "exit", main_module # Null PROVE FALSE
    <3>1. m = main_module /\ roots[m] = 0
      BY <1>2, <2>2, TopIs DEF TableInv, ExeInv
    <3>2. Refs(m) # {}
      BY <1>3, <1>4, <3>1
    <3> QED
      BY <3>1, <3>2 DEF TableInv, Counts, ExeInv
  <2> QED
    BY <1>1, <1>9, <2>1, <2>2 DEF TableInv, ExeInv
<1> QED
  BY <1>9, <1>10 DEF TableInv

(* A structure is freed.                                                    *)
LEMMA FreedKeeps == ASSUME TableInv, Freed PROVE TableInv'
<1>1. /\ stack # <<>> /\ Top.at = "free" /\ Top.i = 0
      /\ mod' = [mod EXCEPT ![Top.mod] = Unused]
      /\ stack' = Tail(stack)
      /\ UNCHANGED <<world, loaded_modules, main_module, result, roots, phase>>
  BY DEF Freed, InCall
<1>2. /\ mod \in [Module -> Structure] /\ stack \in Seq(Call) /\ roots \in [Module -> Nat]
  BY DEF TableInv, TableTypes
<1>3. CallOk(Top) /\ Owner(Top) /\ ~Holder(Top) /\ 1 \in DOMAIN stack /\ Top = stack[1]
      /\ \A k \in DOMAIN stack : k > 1 /\ Owner(stack[k]) => stack[k].mod # Top.mod
  BY <1>1, TopIs DEF Owner, Holder
<1>4. PICK m \in Module : /\ m = Top.mod /\ mod[m].life \in {"new", "down"} /\ mod[m].refcount = 0
                          /\ m # main_module
  BY <1>1, <1>3 DEF CallOk
<1>5. Unused \in Structure /\ Unused.life = "unused" /\ Unused.dependencies = <<>> /\ Unused.refcount = 0
  BY DEF Unused, Structure
<1>6. mod' \in [Module -> Structure] /\ mod'[m] = Unused /\ \A d \in Module : d # m => mod'[d] = mod[d]
  BY <1>1, <1>2, <1>4, <1>5
<1>7. roots[m] = 0
  <2>1. ~(roots[m] > 0) /\ roots[m] \in Nat
    BY <1>2, <1>4 DEF TableInv, Lives
  <2> QED
    BY <2>1
<1>8. ~Held(m)
  <2> SUFFICES ASSUME NEW k \in DOMAIN stack, Holder(stack[k]), stack[k].mod = m PROVE FALSE
    BY DEF Held
  <2>1. Owner(stack[k]) /\ k # 1 /\ k \in Nat \ {0}
    BY <1>2, <1>3 DEF Owner, Holder
  <2> QED
    BY <1>3, <1>4, <2>1
<1>9. Moved(0, 1)
  BY <1>1, <1>2, PopMoves
<1>10. ASSUME NEW e \in Module PROVE Refs(e)' = Refs(e)
  <2>1. ASSUME NEW d \in Module, NEW j
        PROVE  (j \in DOMAIN mod'[d].dependencies /\ mod'[d].dependencies[j] = e /\ ~GivenBack(d, j)') <=>
               (j \in DOMAIN mod[d].dependencies /\ mod[d].dependencies[j] = e /\ ~GivenBack(d, j))
    <3>1. CASE d = m
      <4>1. j \notin DOMAIN mod'[d].dependencies
        BY <1>5, <1>6, <3>1
      <4>2. j \in DOMAIN mod[d].dependencies => GivenBack(d, j)
        <5> SUFFICES ASSUME j \in DOMAIN mod[d].dependencies PROVE GivenBack(d, j)
          OBVIOUS
        <5>1. mod[d].dependencies \in Seq(Module \cup {Null})
          BY <1>2 DEF Structure
        <5>2. 0 < j
          BY <5>1
        <5> QED
          BY <1>1, <1>3, <1>4, <3>1, <5>2 DEF GivenBack
      <4> QED
        BY <4>1, <4>2
    <3>2. CASE d # m
      <4>1. 0 \in Nat /\ 1 \in 0 .. 1 /\ ~(Top.at = "free" /\ Top.mod = d)
        BY <1>4, <3>2
      <4>2. \A k \in DOMAIN stack' : k <= 0 => ~(stack'[k].at = "free" /\ stack'[k].mod = d)
        BY <1>9 DEF Moved
      <4>3. GivenBack(d, j)' <=> GivenBack(d, j)
        BY <1>2, <1>9, <4>1, <4>2, GivenBackKept
      <4> QED
        BY <1>6, <3>2, <4>3
    <3> QED
      BY <3>1, <3>2
  <2> QED
    BY <2>1, RefsKept
<1>11. mod'[m].refcount + One(Held(m)) = mod[m].refcount
  BY <1>4, <1>5, <1>6, <1>8 DEF One
<1>12. /\ TableTypes' /\ CallsOk' /\ Places' /\ Unique' /\ Lives' /\ ResultInv' /\ Counts' /\ ListInv'
       /\ Moved(0, 1) /\ (phase = "start" => stack' # <<>>)
  BY <1>1, <1>4, <1>5, <1>6, <1>7, <1>10, <1>11, FreeReturns
<1>13. ExeInv'
  <2>1. ASSUME NEW d \in Module, mod'[d].life = "up" PROVE mod'[d] = mod[d]
    BY <1>5, <1>6, <2>1
  <2>2. main_module \in Module => mod'[main_module] = mod[main_module]
    BY <1>4, <1>6
  <2>3. ~(phase = "exit" /\ main_module # Null)
    BY <1>1, <1>3 DEF TableInv, ExeInv
  <2> QED
    BY <1>1, <1>12, <2>1, <2>2, <2>3 DEF TableInv, ExeInv
<1> QED
  BY <1>12, <1>13 DEF TableInv

(* The last reference to a module is given back.                            *)
LEMMA LastKeeps == ASSUME TableInv, LastReference PROVE TableInv'
<1>1. PICK m \in Module :
              /\ m = Top.mod /\ stack # <<>> /\ Top.at = "unref" /\ Owner(Top) /\ Holder(Top) /\ Held(m)
              /\ mod[m].life \in {"new", "up"} /\ result = NoResult
              /\ mod[m].refcount = roots[m] + Cardinality(Refs(m)) + 1
              /\ \A k \in DOMAIN stack : k > 1 /\ Owner(stack[k]) => stack[k].mod # m
              /\ phase \in {"start", "running", "exit"}
  BY UnrefIs DEF LastReference
<1>2. /\ mod[m].refcount <= 1
      /\ phase' = phase \/ (phase = "start" /\ phase' = "crashed")
      /\ mod' = [mod EXCEPT ![m].refcount = 0, ![m].life = IF @ = "up" THEN "down" ELSE @]
      /\ loaded_modules' = Without(loaded_modules, m)
      /\ main_module' = IF m = main_module THEN Null ELSE main_module
      /\ stack' = <<[Top EXCEPT !.at = "free", !.i = Len(mod[m].dependencies)]>> \o Tail(stack)
      /\ UNCHANGED <<world, result, roots>>
  BY <1>1 DEF LastReference, Replace
<1>3. /\ mod \in [Module -> Structure] /\ stack \in Seq(Call) /\ roots \in [Module -> Nat]
      /\ loaded_modules \in Seq(Module) /\ main_module \in Module \cup {Null}
  BY DEF TableInv, TableTypes
<1>4. roots[m] = 0 /\ Refs(m) = {} /\ mod[m].refcount = 1
  <2>1. roots[m] \in Nat /\ Cardinality(Refs(m)) \in Nat /\ (Refs(m) = {} <=> Cardinality(Refs(m)) = 0)
    BY <1>3, RefsFinite
  <2> DEFINE q == Cardinality(Refs(m))
  <2>2. q \in Nat /\ roots[m] + q + 1 <= 1 /\ roots[m] \in Nat /\ mod[m].refcount = roots[m] + q + 1
    BY <1>1, <1>2, <2>1
  <2> HIDE DEF q
  <2>3. roots[m] = 0 /\ q = 0 /\ mod[m].refcount = 1
    BY <2>2
  <2> QED
    BY <2>1, <2>3 DEF q
<1>5. /\ mod' \in [Module -> Structure] /\ \A d \in Module : d # m => mod'[d] = mod[d]
      /\ mod'[m].refcount = 0 /\ mod'[m].life = IF mod[m].life = "up" THEN "down" ELSE mod[m].life
      /\ mod'[m].name = mod[m].name /\ mod'[m].dependencies = mod[m].dependencies
  <2> DEFINE s == [mod[m] EXCEPT !.refcount = 0, !.life = IF @ = "up" THEN "down" ELSE @]
  <2>1. mod[m] \in Structure
    BY <1>3
  <2>2. s \in Structure /\ s.refcount = 0 /\ s.life = (IF mod[m].life = "up" THEN "down" ELSE mod[m].life)
        /\ s.name = mod[m].name /\ s.dependencies = mod[m].dependencies
    BY <2>1 DEF Structure
  <2>3. mod' = [mod EXCEPT ![m] = s]
    BY <1>2, <1>3
  <2> HIDE DEF s
  <2> QED
    BY <1>3, <2>2, <2>3
<1>6. PICK f : f = [Top EXCEPT !.at = "free", !.i = Len(mod[m].dependencies)]
  OBVIOUS
<1>7. mod[m].dependencies \in Seq(Module \cup {Null}) /\ Len(mod[m].dependencies) \in Nat
      /\ DOMAIN mod[m].dependencies = 1 .. Len(mod[m].dependencies)
  <2>1. mod[m].dependencies \in Seq(Module \cup {Null})
    BY <1>3 DEF Structure
  <2> QED
    BY <2>1
<1>8. f \in Call /\ f.at = "free" /\ f.mod = m /\ f.name = Top.name /\ f.i = Len(mod[m].dependencies)
  BY <1>1, <1>6, <1>7, TopIs DEF Call
<1>9. stack' = <<f>> \o Tail(stack)
  BY <1>2, <1>6
<1>10. main_module' # m /\ main_module' \in Module \cup {Null}
  BY <1>2, <1>3, NotModules
<1>11. CallOk(f)'
  <2>1. f.i \in 0 .. Len(mod'[m].dependencies)
    BY <1>5, <1>7, <1>8
  <2> QED
    BY <1>1, <1>5, <1>8, <1>10, <2>1 DEF CallOk, Owner
<1>12. /\ Moved(1, 1) /\ stack'[1] = f /\ 1 \in DOMAIN stack' /\ \A k \in DOMAIN stack' : k <= 1 => k = 1
       /\ CallsOk' /\ Places' /\ Unique' /\ Lives'
  <2>1. ~(roots[m] > 0) /\ mod'[m].life # "unused"
    BY <1>1, <1>4, <1>5
  <2>2. main_module' = main_module \/ (m = main_module /\ main_module' = Null)
    BY <1>2
  <2>3. world' = world /\ roots' = roots /\ f.at \in {"module", "init", "free"} /\ Top.at # "module"
        /\ f.at # "module" /\ f.at # "init"
    BY <1>1, <1>2, <1>8
  <2> QED
    BY <1>1, <1>2, <1>5, <1>8, <1>9, <1>11, <2>1, <2>2, <2>3, GoesOn
<1>13. ListInv' /\ loaded_modules' \in Seq(Module)
  <2>1. mod'[m].life # "up"
    BY <1>1, <1>5
  <2> QED
    BY <1>2, <1>3, <1>5, <2>1, ListShrinks DEF TableInv
<1>14. TableTypes'
  <2>1. stack' \in Seq(Call)
    BY <1>12 DEF Moved
  <2>2. phase' \in {"start", "running", "exit", "ended", "crashed"}
    BY <1>1, <1>2
  <2> QED
    BY <1>2, <1>5, <1>10, <1>13, <2>1, <2>2 DEF TableInv, TableTypes, Structure, Call
<1>15. ResultInv'
  BY <1>1, <1>2, NotModules DEF ResultInv
<1>16. \A e \in Module : Refs(e)' = Refs(e)
  <2> SUFFICES ASSUME NEW e \in Module PROVE Refs(e)' = Refs(e)
    OBVIOUS
  <2>1. ASSUME NEW d \in Module, NEW j
        PROVE  (j \in DOMAIN mod'[d].dependencies /\ mod'[d].dependencies[j] = e /\ ~GivenBack(d, j)') <=>
               (j \in DOMAIN mod[d].dependencies /\ mod[d].dependencies[j] = e /\ ~GivenBack(d, j))
    <3>1. CASE d = m
      <4>1. GivenBack(d, j)' <=> f.i < j
        BY <1>8, <1>12, <3>1, GivenBackIsNext
      <4>2. ~GivenBack(d, j)
        <5> SUFFICES ASSUME NEW k \in DOMAIN stack, stack[k].at = "free", stack[k].mod = d PROVE FALSE
          BY DEF GivenBack
        <5>1. Owner(stack[k]) /\ k # 1 /\ k \in Nat \ {0}
          BY <1>1, <1>3 DEF Owner, Top
        <5> QED
          BY <1>1, <3>1, <5>1
      <4>3. j \in DOMAIN mod[d].dependencies => ~(f.i < j)
        BY <1>7, <1>8, <3>1
      <4> QED
        BY <1>5, <3>1, <4>1, <4>2, <4>3
    <3>2. CASE d # m
      <4>1. 1 \in Nat /\ 1 \in 0 .. 1 /\ ~(Top.at = "free" /\ Top.mod = d)
        BY <1>1
      <4>2. \A k \in DOMAIN stack' : k <= 1 => ~(stack'[k].at = "free" /\ stack'[k].mod = d)
        BY <1>8, <1>12, <3>2
      <4>3. GivenBack(d, j)' <=> GivenBack(d, j)
        BY <1>3, <1>12, <4>1, <4>2, GivenBackKept
      <4> QED
        BY <1>5, <3>2, <4>3
    <3> QED
      BY <3>1, <3>2
  <2> QED
    BY <2>1, RefsKept
<1>17. Counts'
  <2>1. ~Held(m)'
    <3>1. \A k \in DOMAIN stack' : k <= 1 => ~(Holder(stack'[k]) /\ stack'[k].mod = m)
      BY <1>8, <1>12 DEF Holder
    <3>2. 1 \in Nat
      OBVIOUS
    <3> QED
      BY <1>1, <1>3, <1>12, <3>1, <3>2, NotHeld
  <2>2. Settles(m)
    <3>1. \A d \in Module : result # d /\ result' # d
      BY <1>1, <1>2, NotModules
    <3>2. One(Held(m)') = 0 /\ One(Held(m)) = 1 /\ One(result = m) = 0 /\ One(result' = m) = 0
      BY <1>1, <2>1, <3>1 DEF One
    <3>3. mod'[m].refcount + roots[m] + One(result = m) + One(Held(m)) =
                mod[m].refcount + roots'[m] + One(result' = m) + One(Held(m)')
      BY <1>2, <1>4, <1>5, <3>2
    <3> QED
      BY <1>2, <1>4, <1>5, <3>1, <3>3 DEF Settles
  <2>3. 1 \in Nat /\ 1 \in 0 .. 1 /\ (1 = 1 /\ Holder(Top) => Top.mod = m)
    BY <1>1
  <2>4. \A k \in DOMAIN stack' : k <= 1 /\ Holder(stack'[k]) => stack'[k].mod = m
    BY <1>8, <1>12
  <2>5. Counts /\ roots' \in [Module -> Nat]
    BY <1>2, <1>3 DEF TableInv
  <2> QED
    BY <1>3, <1>5, <1>12, <1>16, <2>2, <2>3, <2>4, <2>5, CountsKept
<1>18. ExeInv'
  <2>1. ASSUME NEW d \in Module, mod'[d].life = "up" PROVE mod'[d] = mod[d] /\ d # m
    BY <1>1, <1>5, <2>1
  <2>2. main_module' \in Module => main_module' = main_module /\ mod'[main_module] = mod[main_module]
    BY <1>2, <1>5, <1>10, NotModules
  <2>3. phase = "running" => m # main_module
    BY <1>4 DEF TableInv, ExeInv
  <2>4. ASSUME phase = "exit", main_module' # Null PROVE FALSE
    <3>1. main_module # Null /\ main_module # m
      BY <1>2, <1>3, <1>10, <2>4, NotModules
    <3> QED
      BY <1>1, <2>4, <3>1, TopIs DEF TableInv, ExeInv
  <2>5. stack' # <<>>
    BY <1>12
  <2>6. \A d \in Module : mod'[d].life = "up" /\ mod'[d].name = "exe" =>
          d = main_module' /\ phase' \in {"running", "exit"}
    <3> SUFFICES ASSUME NEW d \in Module, mod'[d].life = "up", mod'[d].name = "exe"
                 PROVE  d = main_module' /\ phase' \in {"running", "exit"}
      OBVIOUS
    <3>1. d = main_module /\ phase \in {"running", "exit"} /\ d # m
      BY <2>1 DEF TableInv, ExeInv
    <3> QED
      BY <1>2, <3>1
  <2>7. main_module' \in Module => mod'[main_module'].name = "exe" /\ mod'[main_module'].life \in {"new", "up"}
    BY <2>2 DEF TableInv, ExeInv
  <2>8. phase' = "running" => main_module' \in Module /\ mod'[main_module'].life = "up" /\ roots'[main_module'] = 1
    BY <1>2, <1>5, <2>3 DEF TableInv, ExeInv
  <2>9. ~(phase' = "exit" /\ main_module' # Null)
    BY <1>2, <2>4
  <2> QED
    BY <2>5, <2>6, <2>7, <2>8, <2>9 DEF ExeInv
<1> QED
  BY <1>12, <1>13, <1>14, <1>15, <1>17, <1>18 DEF TableInv

(* One reference less.                                                      *)
LEMMA OneLess ==
    ASSUME NEW S, IsFiniteSet(S), NEW x \in S, NEW T, T = S \ {x}
    PROVE  Cardinality(T) + 1 = Cardinality(S)
<1>1. Cardinality(T) = Cardinality(S) - 1 /\ Cardinality(S) \in Nat
  BY FS_RemoveElement, FS_CardinalityType
<1> QED
  BY <1>1

(* What the call that frees a structure finds.                              *)
LEMMA FreeIs ==
    ASSUME TableInv, InCall("free"), Top.i > 0
    PROVE  \E m \in Module : \E i \in 1 .. Len(mod[m].dependencies) :
              /\ m = Top.mod /\ i = Top.i /\ stack # <<>> /\ Top.at = "free" /\ Owner(Top) /\ ~Holder(Top)
              /\ mod[m].life \in {"new", "down"} /\ mod[m].refcount = 0 /\ m # main_module
              /\ mod[m].dependencies \in Seq(Module \cup {Null}) /\ roots[m] = 0
              /\ \A k \in DOMAIN stack : k > 1 /\ Owner(stack[k]) => stack[k].mod # m
              /\ \A j : GivenBack(m, j) <=> i < j
<1>1. stack # <<>> /\ Top.at = "free" /\ Owner(Top) /\ ~Holder(Top)
  BY DEF InCall, Owner, Holder
<1>2. CallOk(Top) /\ Top \in Call /\ 1 \in DOMAIN stack /\ Top = stack[1]
      /\ \A k \in DOMAIN stack : k > 1 /\ Owner(stack[k]) => stack[k].mod # Top.mod
  BY <1>1, TopIs
<1>3. PICK m \in Module : /\ m = Top.mod /\ mod[m].life \in {"new", "down"} /\ mod[m].refcount = 0
                          /\ m # main_module /\ Top.i \in 0 .. Len(mod[m].dependencies)
  BY <1>1, <1>2 DEF CallOk
<1>4. mod[m].dependencies \in Seq(Module \cup {Null}) /\ roots[m] \in Nat
  BY DEF TableInv, TableTypes, Structure
<1>5. Top.i \in 1 .. Len(mod[m].dependencies)
  BY <1>3, <1>4
<1>6. roots[m] = 0
  <2>1. ~(roots[m] > 0)
    BY <1>3 DEF TableInv, Lives
  <2> QED
    BY <1>4, <2>1
<1>7. \A j : GivenBack(m, j) <=> Top.i < j
  BY <1>1, <1>2, <1>3, GivenBackIs DEF TableInv
<1> QED
  BY <1>1, <1>2, <1>3, <1>4, <1>5, <1>6, <1>7

(* An import of a structure being freed is given back.                      *)
LEMMA GiveBackKeeps == ASSUME TableInv, FreeImport PROVE TableInv'
<1>1. PICK m \in Module : \E i \in 1 .. Len(mod[m].dependencies) :
              /\ m = Top.mod /\ i = Top.i /\ stack # <<>> /\ Top.at = "free" /\ Owner(Top) /\ ~Holder(Top)
              /\ mod[m].life \in {"new", "down"} /\ mod[m].refcount = 0 /\ m # main_module
              /\ mod[m].dependencies \in Seq(Module \cup {Null}) /\ roots[m] = 0
              /\ \A k \in DOMAIN stack : k > 1 /\ Owner(stack[k]) => stack[k].mod # m
              /\ \A j : GivenBack(m, j) <=> i < j
  BY FreeIs DEF FreeImport
<1>2. PICK i \in 1 .. Len(mod[m].dependencies) :
              /\ m = Top.mod /\ i = Top.i /\ stack # <<>> /\ Top.at = "free" /\ Owner(Top) /\ ~Holder(Top)
              /\ mod[m].life \in {"new", "down"} /\ mod[m].refcount = 0 /\ m # main_module
              /\ mod[m].dependencies \in Seq(Module \cup {Null}) /\ roots[m] = 0
              /\ \A k \in DOMAIN stack : k > 1 /\ Owner(stack[k]) => stack[k].mod # m
              /\ \A j : GivenBack(m, j) <=> i < j
  BY <1>1
<1>3. /\ mod \in [Module -> Structure] /\ stack \in Seq(Call) /\ roots \in [Module -> Nat]
      /\ loaded_modules \in Seq(Module)
  BY DEF TableInv, TableTypes
<1>4. Null \notin Module /\ NoResult \notin Module /\ result = NoResult
  <2>1. result = NoResult
    BY <1>2 DEF TableInv, ResultInv
  <2> QED
    BY <2>1, NotModules
<1>5. PICK g : g = [Top EXCEPT !.i = @ - 1]
  OBVIOUS
<1>6. Len(mod[m].dependencies) \in Nat /\ DOMAIN mod[m].dependencies = 1 .. Len(mod[m].dependencies)
      /\ i \in Nat /\ i - 1 \in Nat /\ i - 1 \in 0 .. Len(mod[m].dependencies)
  <2>1. Len(mod[m].dependencies) \in Nat /\ DOMAIN mod[m].dependencies = 1 .. Len(mod[m].dependencies)
    BY <1>2
  <2> QED
    BY <2>1
<1>7. g \in Call /\ g.at = "free" /\ g.mod = m /\ g.name = Top.name /\ g.i = i - 1
  BY <1>2, <1>5, <1>6, TopIs DEF Call
<1>8. CallOk(g) /\ UNCHANGED <<world, mod, loaded_modules, main_module, result, roots, phase>>
  BY <1>2, <1>6, <1>7 DEF CallOk, Owner, FreeImport
<1>9. CASE mod[m].dependencies[i] = Null
  <2>1. stack' = <<g>> \o Tail(stack)
    BY <1>2, <1>5, <1>9 DEF FreeImport
  <2>2. CallOk(g)'
    BY <1>7, <1>8 DEF CallOk, Owner
  <2>3. /\ Moved(1, 1) /\ stack'[1] = g /\ 1 \in DOMAIN stack' /\ \A k \in DOMAIN stack' : k <= 1 => k = 1
        /\ CallsOk' /\ Places' /\ Unique' /\ Lives'
    <3>1. ~(roots[m] > 0) /\ mod'[m].life # "unused" /\ Top.at # "module" /\ g.at # "module" /\ g.at # "init"
      BY <1>2, <1>7, <1>8
    <3>2. mod' \in [Module -> Structure] /\ g.at \in {"module", "init", "free"}
          /\ \A d \in Module : d # m => mod'[d] = mod[d]
      BY <1>3, <1>7, <1>8
    <3> QED
      BY <1>2, <1>7, <1>8, <2>1, <2>2, <3>1, <3>2, GoesOn
  <2>4. TableTypes'
    <3>1. stack' \in Seq(Call)
      BY <2>3 DEF Moved
    <3> QED
      BY <1>8, <3>1 DEF TableInv, TableTypes, Structure, Call
  <2>5. ResultInv'
    BY <1>4, <1>8 DEF ResultInv
  <2>6. \A e \in Module : Refs(e)' = Refs(e)
    <3> SUFFICES ASSUME NEW e \in Module PROVE Refs(e)' = Refs(e)
      OBVIOUS
    <3>1. ASSUME NEW d \in Module, NEW j
          PROVE  (j \in DOMAIN mod'[d].dependencies /\ mod'[d].dependencies[j] = e /\ ~GivenBack(d, j)') <=>
                 (j \in DOMAIN mod[d].dependencies /\ mod[d].dependencies[j] = e /\ ~GivenBack(d, j))
      <4>1. CASE d = m
        <5>1. GivenBack(d, j)' <=> i - 1 < j
          BY <1>7, <2>3, <4>1, GivenBackIsNext
        <5>2. GivenBack(d, j) <=> i < j
          BY <1>2, <4>1
        <5>3. j \in DOMAIN mod[m].dependencies => j \in Int
          BY <1>6
        <5>4. j \in Int /\ j # i => (i - 1 < j <=> i < j)
          BY <1>6
        <5> QED
          BY <1>4, <1>8, <1>9, <4>1, <5>1, <5>2, <5>3, <5>4
      <4>2. CASE d # m
        <5>1. 1 \in Nat /\ 1 \in 0 .. 1 /\ ~(Top.at = "free" /\ Top.mod = d)
          BY <1>2, <4>2
        <5>2. \A k \in DOMAIN stack' : k <= 1 => ~(stack'[k].at = "free" /\ stack'[k].mod = d)
          BY <1>7, <2>3, <4>2
        <5>3. GivenBack(d, j)' <=> GivenBack(d, j)
          BY <1>3, <2>3, <5>1, <5>2, GivenBackKept
        <5> QED
          BY <1>8, <5>3
      <4> QED
        BY <4>1, <4>2
    <3> QED
      BY <3>1, RefsKept
  <2>7. Counts'
    <3>1. \A k \in DOMAIN stack' : k <= 1 => ~Holder(stack'[k])
      BY <1>7, <2>3 DEF Holder
    <3>2. Settles(Null)
      BY <1>4, <1>8 DEF Settles
    <3>3. 1 \in Nat /\ 1 \in 0 .. 1 /\ (1 = 1 /\ Holder(Top) => Top.mod = Null)
      BY <1>2
    <3>4. Counts /\ roots' \in [Module -> Nat] /\ mod' \in [Module -> Structure]
      BY <1>3, <1>8 DEF TableInv
    <3>5. \A k \in DOMAIN stack' : k <= 1 /\ Holder(stack'[k]) => stack'[k].mod = Null
      BY <3>1
    <3> QED
      BY <1>3, <2>3, <2>6, <3>2, <3>3, <3>4, <3>5, CountsKept
  <2>8. ListInv'
    BY <1>3, <1>8, ListKept DEF TableInv
  <2>9. ExeInv'
    <3>1. ~(phase = "exit" /\ main_module # Null)
      BY <1>2, TopIs DEF TableInv, ExeInv
    <3>2. stack' # <<>>
      BY <2>3
    <3> QED
      BY <1>8, <3>1, <3>2 DEF TableInv, ExeInv
  <2> QED
    BY <2>3, <2>4, <2>5, <2>7, <2>8, <2>9 DEF TableInv
<1>10. CASE mod[m].dependencies[i] # Null
  <2>1. PICK r \in Module : r = mod[m].dependencies[i]
    <3>1. mod[m].dependencies[i] \in Module \cup {Null}
      BY <1>2
    <3> QED
      BY <1>10, <3>1
  <2>2. <<m, i>> \in Refs(r)
    <3>1. ~GivenBack(m, i) /\ i \in DOMAIN mod[m].dependencies
      BY <1>2, <1>6
    <3> QED
      BY <2>1, <3>1, InRefs
  <2>3. mod[r].life = "up" /\ mod[r].name # "exe" /\ r # m
    BY <1>2, <2>2 DEF TableInv, Counts
  <2>4. ASSUME NEW k \in DOMAIN stack, Owner(stack[k]) PROVE stack[k].mod # r
    <3> SUFFICES ASSUME stack[k].mod = r PROVE FALSE
      OBVIOUS
    <3>1. k = 1 /\ stack[k].at = "unref"
      BY <2>3, <2>4, NoCallAbout
    <3> QED
      BY <1>2, <3>1 DEF Top
  <2>5. PICK f : f = Frame("unref", mod[r].name, 0, r, 0)
    OBVIOUS
  <2>6. f \in Call /\ f.at = "unref" /\ f.mod = r
    <3>1. mod[r].name \in Name \cup {"exe"}
      BY <1>3 DEF Structure
    <3>2. 0 \in 0 .. MaxDepth + 1
      BY ModuleAssumption
    <3> QED
      BY <2>5, <3>1, <3>2 DEF Frame, Call
  <2>7. stack' = <<f>> \o (<<g>> \o Tail(stack))
    <3>1. r # Null
      BY <1>4
    <3> QED
      BY <1>2, <1>5, <2>1, <2>5, <3>1 DEF FreeImport
  <2>8. /\ Moved(2, 1) /\ stack'[1] = f /\ stack'[2] = g /\ 1 \in DOMAIN stack' /\ 2 \in DOMAIN stack'
        /\ \A k \in DOMAIN stack' : k <= 2 => k \in {1, 2}
        /\ CallsOk' /\ Places' /\ Unique' /\ Lives' /\ ResultInv'
    BY <1>2, <1>4, <1>7, <1>8, <2>3, <2>4, <2>6, <2>7, GoesOnFreeing
  <2>9. TableTypes'
    <3>1. stack' \in Seq(Call)
      BY <2>8 DEF Moved
    <3> QED
      BY <1>8, <3>1 DEF TableInv, TableTypes, Structure, Call
  <2>10. ASSUME NEW d \in Module, NEW j, j \in DOMAIN mod[d].dependencies
         PROVE  GivenBack(d, j)' <=> GivenBack(d, j) \/ (d = m /\ j = i)
    <3>1. CASE d = m
      <4>1. GivenBack(d, j)' <=> i - 1 < j
        BY <1>7, <2>8, <3>1, GivenBackIsNext
      <4>2. GivenBack(d, j) <=> i < j
        BY <1>2, <3>1
      <4>3. j \in Int
        BY <1>6, <2>10, <3>1
      <4>4. i - 1 < j <=> i < j \/ j = i
        BY <1>6, <4>3
      <4> QED
        BY <3>1, <4>1, <4>2, <4>4
    <3>2. CASE d # m
      <4>1. 2 \in Nat /\ 1 \in 0 .. 1 /\ ~(Top.at = "free" /\ Top.mod = d)
        BY <1>2, <3>2
      <4>2. \A k \in DOMAIN stack' : k <= 2 => ~(stack'[k].at = "free" /\ stack'[k].mod = d)
        BY <1>7, <2>6, <2>8, <3>2
      <4>3. GivenBack(d, j)' <=> GivenBack(d, j)
        BY <1>3, <2>8, <4>1, <4>2, GivenBackKept
      <4> QED
        BY <3>2, <4>3
    <3> QED
      BY <3>1, <3>2
  <2>11. ASSUME NEW e \in Module, e # r PROVE Refs(e)' = Refs(e)
    <3>1. ASSUME NEW d \in Module, NEW j
          PROVE  (j \in DOMAIN mod'[d].dependencies /\ mod'[d].dependencies[j] = e /\ ~GivenBack(d, j)') <=>
                 (j \in DOMAIN mod[d].dependencies /\ mod[d].dependencies[j] = e /\ ~GivenBack(d, j))
      BY <1>8, <2>1, <2>10, <2>11
    <3> QED
      BY <3>1, RefsKept
  <2>12. Refs(r)' = Refs(r) \ {<<m, i>>}
    <3>1. ASSUME NEW p PROVE p \in Refs(r)' <=> p \in Refs(r) \ {<<m, i>>}
      <4>1. p \in Refs(r) <=>
              \E d \in Module : \E j \in DOMAIN mod[d].dependencies :
                  p = <<d, j>> /\ mod[d].dependencies[j] = r /\ ~GivenBack(d, j)
        BY InRefs
      <4>2. p \in Refs(r)' <=>
              \E d \in Module : \E j \in DOMAIN mod'[d].dependencies :
                  p = <<d, j>> /\ mod'[d].dependencies[j] = r /\ ~GivenBack(d, j)'
        BY InRefsNext
      <4>3. p \in Refs(r)' <=>
              \E d \in Module : \E j \in DOMAIN mod[d].dependencies :
                  p = <<d, j>> /\ mod[d].dependencies[j] = r /\ ~GivenBack(d, j) /\ ~(d = m /\ j = i)
        BY <1>8, <2>10, <4>2
      <4>4. \A d, j : <<d, j>> = <<m, i>> <=> d = m /\ j = i
        OBVIOUS
      <4> QED
        BY <4>1, <4>3, <4>4
    <3> QED
      BY <3>1
  <2>13. Counts'
    <3> SUFFICES ASSUME NEW d \in Module
                 PROVE  /\ mod'[d].refcount = roots'[d] + Cardinality(Refs(d)') + One(result' = d) + One(Held(d)')
                        /\ Refs(d)' # {} => mod'[d].life = "up" /\ mod'[d].name # "exe"
      BY DEF Counts, One
    <3>1. /\ mod[d].refcount = roots[d] + Cardinality(Refs(d)) + One(result = d) + One(Held(d))
          /\ Refs(d) # {} => mod[d].life = "up" /\ mod[d].name # "exe"
      BY DEF TableInv, Counts
    <3>2. mod'[d] = mod[d] /\ roots'[d] = roots[d] /\ result' = result
      BY <1>8
    <3>3. One(result = d) = 0
      BY <1>4 DEF One
    <3>4. CASE d = r
      <4>1. Cardinality(Refs(d)') + 1 = Cardinality(Refs(d))
        BY <1>3, <2>2, <2>12, <3>4, OneLess, RefsFinite
      <4>2. One(Held(d)) = 0
        <5>1. ~Held(d)
          BY <2>4, <3>4 DEF Held, Holder, Owner
        <5> QED
          BY <5>1 DEF One
      <4>3. One(Held(d)') = 1
        <5>1. Held(d)'
          BY <2>6, <2>8, <3>4 DEF Held, Holder
        <5> QED
          BY <5>1 DEF One
      <4>4. roots[d] \in Nat /\ Cardinality(Refs(d)) \in Nat
        BY <1>3, RefsFinite
      <4>5. Cardinality(Refs(d)') \in Nat
        <5>1. IsFiniteSet(Refs(d)) /\ Refs(d)' \in SUBSET Refs(d)
          BY <1>3, <2>12, <3>4, RefsFinite
        <5> QED
          BY <5>1, FS_Subset, FS_CardinalityType
      <4> DEFINE q == Cardinality(Refs(d))
                 w == Cardinality(Refs(d)')
                 x == roots[d]
      <4>6. q \in Nat /\ w \in Nat /\ x \in Nat /\ w + 1 = q /\ mod[d].refcount = x + q + 0 + 0
        BY <3>1, <3>3, <4>1, <4>2, <4>4, <4>5
      <4> HIDE DEF q, w, x
      <4>7. mod[d].refcount = x + w + 0 + 1
        BY <4>6
      <4> QED
        BY <2>3, <3>2, <3>3, <3>4, <4>3, <4>7 DEF w, x
    <3>5. CASE d # r
      <4>1. Refs(d)' = Refs(d)
        BY <2>11, <3>5
      <4>2. Held(d)' <=> Held(d)
        <5>1. 2 \in Nat /\ 1 \in 0 .. 1 /\ ~(Holder(Top) /\ Top.mod = d)
          BY <1>2
        <5>2. \A k \in DOMAIN stack' : k <= 2 => ~(Holder(stack'[k]) /\ stack'[k].mod = d)
          BY <1>7, <2>6, <2>8, <3>5 DEF Holder
        <5> QED
          BY <1>3, <2>8, <5>1, <5>2, HeldKept
      <4>3. One(Held(d)') = One(Held(d))
        BY <4>2 DEF One
      <4> QED
        BY <3>1, <3>2, <4>1, <4>3
    <3> QED
      BY <3>4, <3>5
  <2>14. ListInv'
    BY <1>3, <1>8, ListKept DEF TableInv
  <2>15. ExeInv'
    <3>1. ~(phase = "exit" /\ main_module # Null)
      BY <1>2, TopIs DEF TableInv, ExeInv
    <3>2. stack' # <<>>
      BY <2>8
    <3> QED
      BY <1>8, <3>1, <3>2 DEF TableInv, ExeInv
  <2> QED
    BY <2>8, <2>9, <2>13, <2>14, <2>15 DEF TableInv
<1> QED
  BY <1>9, <1>10

(* The process ends: the program gives its module back.                     *)
LEMMA ExitKeeps == ASSUME TableInv, lxTerminate PROVE TableInv'
<1>1. /\ phase = "running" /\ stack = <<>> /\ phase' = "exit"
      /\ stack' = <<Frame("unref", "exe", 0, main_module, 0), Frame("terminate", "exe", 0, Null, 0)>>
      /\ roots' = [roots EXCEPT ![main_module] = 0]
      /\ UNCHANGED <<world, mod, loaded_modules, main_module, result>>
  BY DEF lxTerminate
<1>2. /\ mod \in [Module -> Structure] /\ stack \in Seq(Call) /\ roots \in [Module -> Nat]
      /\ loaded_modules \in Seq(Module)
  BY DEF TableInv, TableTypes
<1>3. PICK m \in Module : m = main_module /\ mod[m].life = "up" /\ roots[m] = 1
  BY <1>1 DEF TableInv, ExeInv
<1>4. result = NoResult /\ Null \notin Module /\ NoResult \notin Module
  BY <1>1, NotModules DEF TableInv, ResultInv
<1>5. PICK f : f = Frame("unref", "exe", 0, m, 0)
  OBVIOUS
<1>6. PICK g : g = Frame("terminate", "exe", 0, Null, 0)
  OBVIOUS
<1>7. f \in Call /\ f.at = "unref" /\ f.mod = m /\ g \in Call /\ g.at = "terminate"
  <2>1. 0 \in 0 .. MaxDepth + 1
    BY ModuleAssumption
  <2> QED
    BY <1>5, <1>6, <2>1 DEF Frame, Call
<1>8. stack' = <<f, g>> /\ stack' \in Seq(Call) /\ DOMAIN stack' = {1, 2} /\ Len(stack') = 2
      /\ stack'[1] = f /\ stack'[2] = g
  <2>1. stack' = <<f, g>>
    BY <1>1, <1>3, <1>5, <1>6
  <2>2. <<f, g>> \in Seq(Call) /\ DOMAIN <<f, g>> = 1 .. 2 /\ Len(<<f, g>>) = 2 /\ <<f, g>>[1] = f /\ <<f, g>>[2] = g
    BY <1>7
  <2>3. 1 .. 2 = {1, 2}
    OBVIOUS
  <2> QED
    BY <2>1, <2>2, <2>3
<1>9. Moved(2, 0)
  <2>1. Len(stack') = Len(stack) - 0 + 2 /\ 0 <= Len(stack) /\ DOMAIN stack = {}
    BY <1>1, <1>8
  <2>2. \A k \in DOMAIN stack' : ~(k > 2)
    BY <1>8
  <2> QED
    BY <1>8, <2>1, <2>2 DEF Moved
<1>10. Changes(0, m)
  BY <1>1, <1>2 DEF Changes
<1>11. roots' \in [Module -> Nat] /\ roots'[m] = 0 /\ \A d \in Module : d # m => roots'[d] = roots[d]
  BY <1>1, <1>2, <1>3
<1>12. ~Owner(g) /\ ~Holder(g) /\ Owner(f) /\ Holder(f)
  BY <1>7 DEF Owner, Holder
<1>13. TableTypes'
  BY <1>1, <1>8, <1>11 DEF TableInv, TableTypes, Structure, Call
<1>14. CallsOk'
  <2>1. CallOk(f)' /\ CallOk(g)'
    BY <1>1, <1>3, <1>7 DEF CallOk, Owner
  <2> SUFFICES ASSUME NEW k \in DOMAIN stack', stack'[k] = f \/ stack'[k] = g PROVE CallOk(stack[k])'
    BY <1>8 DEF CallsOk
  <2> QED
    BY <2>1 DEF CallOk, Owner
<1>15. Places'
  <2>1. Waiting(g)'
    BY <1>7 DEF Waiting
  <2>2. ASSUME NEW k \in DOMAIN stack', (k = 1 /\ stack'[k] = f) \/ (k = 2 /\ stack'[k] = g)
        PROVE  /\ k # 1 => Waiting(stack[k])'
               /\ stack'[k].at = "terminate" => k = Len(stack')
               /\ (Loading(stack'[k]) \/ stack'[k].at = "failed") /\ k # Len(stack') => Loading(stack'[k + 1])
               /\ stack'[k].at = "module" /\ stack'[k].name = "exe" => k = Len(stack')
               /\ stack'[k].at \in {"unref", "free", "terminate"}
    BY <1>7, <1>8, <2>1, <2>2 DEF Loading, Waiting
  <2>3. \A k \in DOMAIN stack' : (k = 1 /\ stack'[k] = f) \/ (k = 2 /\ stack'[k] = g)
    BY <1>8
  <2>4. phase' = "exit" /\ stack' # <<>> /\ stack'[Len(stack')].at = "terminate"
    BY <1>1, <1>7, <1>8
  <2> QED
    BY <2>2, <2>3, <2>4 DEF Places, Loading
<1>16. Unique'
  BY <1>8, <1>12 DEF Unique, Owner
<1>17. Lives'
  <2>1. \A d \in Module : roots'[d] > roots[d] => mod'[d].life = "up"
    <3>1. \A d \in Module : d # m => ~(roots'[d] > roots[d])
      BY <1>2, <1>11
    <3>2. ~(roots'[m] > roots[m])
      BY <1>3, <1>11
    <3> QED
      BY <3>1, <3>2
  <2>2. m \in Module =>
              /\ mod'[m].life \in {"new", "in", "down"} =>
                    \E k \in DOMAIN stack' : Owner(stack'[k]) /\ stack'[k].mod = m
              /\ mod'[m].life = "unused" => mod'[m] = Unused
              /\ roots'[m] > 0 => mod'[m].life = "up"
    BY <1>1, <1>3
  <2>3. Lives /\ 0 \in 0 .. 1 /\ 2 \in Nat /\ (0 = 1 /\ Owner(Top) => Top.mod = m)
    BY DEF TableInv
  <2> QED
    BY <1>2, <1>9, <1>10, <1>11, <2>1, <2>2, <2>3, LivesKept
<1>18. ResultInv'
  BY <1>1, <1>4 DEF ResultInv
<1>19. Counts'
  <2>1. 0 \in 0 .. 1 /\ 2 \in Nat /\ (0 = 1 => Top.at # "free") /\ (0 = 1 /\ Holder(Top) => Top.mod = m)
    OBVIOUS
  <2>2. \A k \in DOMAIN stack' : k <= 2 => stack'[k].at # "free"
    BY <1>7, <1>8
  <2>3. \A d \in Module : Refs(d)' = Refs(d)
    <3>1. \A d, e \in Module : \A i :
               (i \in DOMAIN mod'[d].dependencies /\ mod'[d].dependencies[i] = e) <=>
               (i \in DOMAIN mod[d].dependencies /\ mod[d].dependencies[i] = e)
      BY <1>1
    <3> QED
      BY <1>2, <1>9, <2>1, <2>2, <3>1, SameRefs
  <2>4. Settles(m)
    <3>1. ~Held(m) /\ Held(m)'
      BY <1>1, <1>7, <1>8, <1>12 DEF Held, Holder
    <3>2. \A d \in Module : result # d /\ result' # d
      BY <1>1, <1>4
    <3>3. One(Held(m)) = 0 /\ One(Held(m)') = 1 /\ One(result = m) = 0 /\ One(result' = m) = 0
      BY <3>1, <3>2 DEF One
    <3>4. mod[m].refcount \in Int
      BY <1>2 DEF Structure
    <3>5. mod'[m].refcount + roots[m] + One(result = m) + One(Held(m)) =
                mod[m].refcount + roots'[m] + One(result' = m) + One(Held(m)')
      BY <1>1, <1>3, <1>11, <3>3, <3>4
    <3>6. Refs(m) # {} => mod'[m].life = "up" /\ mod'[m].name # "exe"
      BY <1>1 DEF TableInv, Counts
    <3> QED
      BY <1>1, <1>11, <3>2, <3>5, <3>6 DEF Settles
  <2>5. \A k \in DOMAIN stack' : k <= 2 /\ Holder(stack'[k]) => stack'[k].mod = m
    BY <1>7, <1>8, <1>12
  <2>6. Counts /\ mod' \in [Module -> Structure]
    BY <1>1, <1>2 DEF TableInv
  <2> QED
    BY <1>2, <1>9, <1>11, <2>1, <2>3, <2>4, <2>5, <2>6, CountsKept
<1>20. ListInv'
  BY <1>1, <1>2, ListKept DEF TableInv
<1>21. ExeInv'
  <2>1. \A d \in Module : mod[d].life = "up" /\ mod[d].name = "exe" => d = m
    BY <1>3 DEF TableInv, ExeInv
  <2>2. mod[m].name = "exe"
    BY <1>3 DEF TableInv, ExeInv
  <2> QED
    BY <1>1, <1>3, <1>7, <1>8, <1>11, <2>1, <2>2 DEF ExeInv
<1> QED
  BY <1>13, <1>14, <1>15, <1>16, <1>17, <1>18, <1>19, <1>20, <1>21 DEF TableInv

(* While lxTerminate looks at the list nothing is loading or being freed,   *)
(* and no module is up but the libraries in the list.                       *)
LEMMA TerminateIs ==
    ASSUME TableInv, InCall("terminate")
    PROVE  /\ stack # <<>> /\ Top.at = "terminate" /\ ~Owner(Top) /\ Len(stack) = 1 /\ phase = "exit"
           /\ main_module = Null /\ result = NoResult
           /\ \A m \in Module : mod[m].life = "unused" \/ (mod[m].life = "up" /\ m \in ToSet(loaded_modules))
           /\ \A k \in DOMAIN stack : ~Owner(stack[k])
<1>1. stack # <<>> /\ Top.at = "terminate" /\ ~Owner(Top)
  BY DEF InCall, Owner
<1>2. /\ stack \in Seq(Call) /\ 1 \in DOMAIN stack /\ Top = stack[1] /\ CallOk(Top)
  BY <1>1, TopIs
<1>3. Len(stack) = 1 /\ phase = "exit"
  BY <1>1, <1>2 DEF TableInv, Places, CallOk
<1>4. main_module = Null /\ result = NoResult
  BY <1>1, <1>2, <1>3 DEF TableInv, ExeInv, ResultInv
<1>5. ASSUME NEW k \in DOMAIN stack PROVE ~Owner(stack[k])
  <2>1. k = 1
    BY <1>2, <1>3
  <2> QED
    BY <1>1, <1>2, <2>1
<1>6. ASSUME NEW m \in Module
      PROVE  mod[m].life = "unused" \/ (mod[m].life = "up" /\ m \in ToSet(loaded_modules))
  <2>1. mod[m].life \in {"unused", "up"}
    <3>1. mod[m].life \in {"unused", "new", "in", "up", "down"}
      BY DEF TableInv, TableTypes, Structure
    <3> QED
      BY <1>5, <3>1 DEF TableInv, Lives
  <2>2. ASSUME mod[m].life = "up" PROVE m \in ToSet(loaded_modules)
    <3>1. mod[m].name # "exe"
      <4> SUFFICES ASSUME mod[m].name = "exe" PROVE FALSE
        OBVIOUS
      <4>1. m = main_module
        BY <2>2 DEF TableInv, ExeInv
      <4> QED
        BY <1>4, <4>1, NotModules
    <3> QED
      BY <2>2, <3>1 DEF TableInv, ListInv, InOrderOfDependency
  <2> QED
    BY <2>1, <2>2
<1> QED
  BY <1>1, <1>3, <1>4, <1>5, <1>6

(* lxTerminate takes the module in front of the list.                       *)
LEMMA NextKeeps == ASSUME TableInv, TerminateNext PROVE TableInv'
<1>1. /\ InCall("terminate") /\ loaded_modules # <<>>
      /\ UNCHANGED <<world, loaded_modules, main_module, result, phase>>
  BY DEF TerminateNext
<1>2. /\ stack # <<>> /\ Top.at = "terminate" /\ ~Owner(Top) /\ Len(stack) = 1 /\ phase = "exit"
      /\ main_module = Null /\ result = NoResult
      /\ \A m \in Module : mod[m].life = "unused" \/ (mod[m].life = "up" /\ m \in ToSet(loaded_modules))
      /\ \A k \in DOMAIN stack : ~Owner(stack[k])
  BY <1>1, TerminateIs
<1>3. /\ mod \in [Module -> Structure] /\ stack \in Seq(Call) /\ roots \in [Module -> Nat]
      /\ loaded_modules \in Seq(Module)
  BY DEF TableInv, TableTypes
<1>4. PICK m \in Module : m = Head(loaded_modules) /\ m = loaded_modules[1] /\ 1 \in DOMAIN loaded_modules
  BY <1>1, <1>3
<1>5. /\ mod' = [mod EXCEPT ![m].refcount = 1]
      /\ stack' = <<Frame("unref", mod[m].name, 0, m, 0)>> \o stack
      /\ roots' = [roots EXCEPT ![m] = 0]
  BY <1>4 DEF TerminateNext
<1>6. mod[m].life = "up" /\ mod[m].name # "exe"
  <2>1. m \in ToSet(loaded_modules)
    BY <1>4 DEF ToSet
  <2> QED
    BY <2>1 DEF TableInv, ListInv, InOrderOfDependency
<1>7. /\ mod' \in [Module -> Structure] /\ \A d \in Module : d # m => mod'[d] = mod[d]
      /\ mod'[m].refcount = 1 /\ mod'[m].life = mod[m].life /\ mod'[m].name = mod[m].name
      /\ mod'[m].dependencies = mod[m].dependencies
  <2>1. mod'[m] = [mod[m] EXCEPT !.refcount = 1] /\ mod[m] \in Structure
    BY <1>3, <1>5
  <2>2. mod'[m] \in Structure /\ mod'[m].refcount = 1 /\ mod'[m].life = mod[m].life
        /\ mod'[m].name = mod[m].name /\ mod'[m].dependencies = mod[m].dependencies
    BY <2>1 DEF Structure
  <2> QED
    BY <1>3, <1>5, <2>2
<1>8. PICK f : f = Frame("unref", mod[m].name, 0, m, 0)
  OBVIOUS
<1>9. f \in Call /\ f.at = "unref" /\ f.mod = m
  <2>1. mod[m].name \in Name \cup {"exe"}
    BY <1>3 DEF Structure
  <2>2. 0 \in 0 .. MaxDepth + 1
    BY ModuleAssumption
  <2> QED
    BY <1>8, <2>1, <2>2 DEF Frame, Call
<1>10. Moved(1, 0) /\ stack'[1] = f /\ 1 \in DOMAIN stack'
  BY <1>3, <1>5, <1>8, <1>9, PushMoves
<1>11. stack' \in Seq(Call) /\ \A k \in DOMAIN stack' : k <= 1 => k = 1
  <2>1. stack' \in Seq(Call)
    BY <1>10 DEF Moved
  <2>2. \A k \in DOMAIN stack' : k \in Nat \ {0}
    BY <2>1
  <2> QED
    BY <2>1, <2>2
<1>12. Changes(0, m)
  BY <1>1, <1>2, <1>7 DEF Changes
<1>13. roots' \in [Module -> Nat] /\ roots'[m] = 0 /\ \A d \in Module : d # m => roots'[d] = roots[d]
  BY <1>3, <1>5
<1>14. 0 \in Nat /\ 1 \in Nat /\ 0 \in 0 .. 1 /\ 1 \in 0 .. 2 /\ ~(0 = 1) /\ Owner(f) /\ Holder(f)
  BY <1>9 DEF Owner, Holder
<1>15. TableTypes'
  BY <1>1, <1>7, <1>11, <1>13 DEF TableInv, TableTypes, Structure, Call
<1>16. CallsOk'
  <2>1. \A k \in DOMAIN stack' : k <= 1 => CallOk(stack[k])'
    BY <1>6, <1>7, <1>9, <1>10, <1>11 DEF CallOk, Owner
  <2>2. \A k \in DOMAIN stack : k > 0 /\ stack[k].at = "terminate" => phase' = "exit"
    BY <1>1, <1>2
  <2>3. CallsOk
    BY DEF TableInv
  <2> QED
    BY <1>1, <1>3, <1>10, <1>12, <1>14, <2>1, <2>2, <2>3, CallsKept
<1>17. Places'
  <2>1. Waiting(Top)
    BY <1>2 DEF Waiting
  <2>2. \A k \in DOMAIN stack' : k <= 1 =>
              /\ k # 1 => Waiting(stack[k])'
              /\ stack'[k].at = "terminate" => k = Len(stack')
              /\ (Loading(stack'[k]) \/ stack'[k].at = "failed") /\ k # Len(stack') => Loading(stack'[k + 1])
              /\ stack'[k].at = "module" /\ stack'[k].name = "exe" => k = Len(stack')
    BY <1>9, <1>10, <1>11 DEF Loading
  <2>3. phase' = "exit" =>
              /\ phase = "exit" /\ (0 = 1 => Top.at # "terminate")
              /\ \A k \in DOMAIN stack' : k <= 1 => stack'[k].at \in {"unref", "free"}
    BY <1>2, <1>9, <1>10, <1>11
  <2>4. phase' # "start" /\ phase' # "ended"
    BY <1>1, <1>2
  <2>5. Places /\ CallsOk /\ (1 = 0 => 0 = 1)
    BY DEF TableInv
  <2> QED
    BY <1>3, <1>10, <1>12, <1>14, <2>1, <2>2, <2>3, <2>4, <2>5, PlacesKept
<1>18. Unique'
  <2>1. \A j, k \in DOMAIN stack' : j <= 1 /\ k <= 1 /\ Owner(stack'[j]) /\ Owner(stack'[k])
                                          /\ stack'[j].mod = stack'[k].mod => j = k
    BY <1>11
  <2>2. \A j \in DOMAIN stack', k \in DOMAIN stack :
              j <= 1 /\ k > 0 /\ Owner(stack'[j]) /\ Owner(stack[k]) => stack'[j].mod # stack[k].mod
    BY <1>2
  <2>3. Unique
    BY DEF TableInv
  <2> QED
    BY <1>3, <1>10, <1>14, <2>1, <2>2, <2>3, UniqueKept
<1>19. Lives'
  <2>1. \A d \in Module : roots'[d] > roots[d] => mod'[d].life = "up"
    <3>1. \A d \in Module : d # m => ~(roots'[d] > roots[d])
      BY <1>3, <1>13
    <3>2. ~(roots'[m] > roots[m])
      <4>1. roots[m] \in Nat
        BY <1>3
      <4> QED
        BY <1>13, <4>1
    <3> QED
      BY <3>1, <3>2
  <2>2. m \in Module =>
              /\ mod'[m].life \in {"new", "in", "down"} =>
                    \E k \in DOMAIN stack' : Owner(stack'[k]) /\ stack'[k].mod = m
              /\ mod'[m].life = "unused" => mod'[m] = Unused
              /\ roots'[m] > 0 => mod'[m].life = "up"
    BY <1>6, <1>7
  <2>3. Lives /\ (0 = 1 /\ Owner(Top) => Top.mod = m)
    BY DEF TableInv
  <2> QED
    BY <1>3, <1>10, <1>12, <1>13, <1>14, <2>1, <2>2, <2>3, LivesKept
<1>20. ResultInv'
  BY <1>1, <1>2, NotModules DEF ResultInv
<1>21. Refs(m) = {}
  <2> SUFFICES ASSUME Refs(m) # {} PROVE FALSE
    OBVIOUS
  <2>1. PICK p : p \in Refs(m)
    OBVIOUS
  <2>2. PICK d \in Module : \E i \in DOMAIN mod[d].dependencies : p = <<d, i>> /\ mod[d].dependencies[i] = m
    BY <2>1, InRefs
  <2>3. PICK i \in DOMAIN mod[d].dependencies : mod[d].dependencies[i] = m
    BY <2>2
  <2>4. mod[d].life = "up" /\ d \in ToSet(loaded_modules)
    <3> SUFFICES ASSUME mod[d].life = "unused" PROVE FALSE
      BY <1>2
    <3>1. mod[d].dependencies = <<>>
      BY DEF TableInv, Lives, Unused
    <3> QED
      BY <2>3, <3>1
  <2>5. PICK j \in DOMAIN loaded_modules : loaded_modules[j] = d
    BY <2>4 DEF ToSet
  <2>6. 1 <= j
    BY <1>3
  <2>7. m \notin ImportsOf(d)
    BY <1>4, <2>5, <2>6 DEF TableInv, ListInv, InOrderOfDependency
  <2> QED
    BY <2>3, <2>7, NotModules DEF ImportsOf, ToSet
<1>22. Counts'
  <2>1. \A k \in DOMAIN stack' : k <= 1 => stack'[k].at # "free"
    BY <1>9, <1>10, <1>11
  <2>2. \A d \in Module : Refs(d)' = Refs(d)
    <3>1. \A d, e \in Module : \A i :
               (i \in DOMAIN mod'[d].dependencies /\ mod'[d].dependencies[i] = e) <=>
               (i \in DOMAIN mod[d].dependencies /\ mod[d].dependencies[i] = e)
      BY <1>7
    <3>2. 0 = 1 => Top.at # "free"
      OBVIOUS
    <3> QED
      BY <1>3, <1>10, <1>14, <2>1, <3>1, <3>2, SameRefs
  <2>3. Settles(m)
    <3>1. ~Held(m) /\ Held(m)'
      BY <1>2, <1>9, <1>10, <1>14 DEF Held, Holder, Owner
    <3>2. \A d \in Module : result # d /\ result' # d
      BY <1>1, <1>2, NotModules
    <3>3. One(Held(m)) = 0 /\ One(Held(m)') = 1 /\ One(result = m) = 0 /\ One(result' = m) = 0
      BY <3>1, <3>2 DEF One
    <3>4. mod[m].refcount = roots[m] + Cardinality(Refs(m)) + One(result = m) + One(Held(m))
      BY DEF TableInv, Counts
    <3>8. Refs(m) = {} <=> Cardinality(Refs(m)) = 0
      BY <1>3, RefsFinite
    <3>5. Cardinality(Refs(m)) = 0 /\ roots[m] \in Int
      BY <1>3, <1>21, <3>8
    <3>6. mod[m].refcount = roots[m] + 0 + 0 + 0
      BY <3>3, <3>4, <3>5
    <3>7. 1 + roots[m] + 0 + 0 = mod[m].refcount + 0 + 0 + 1
      BY <3>5, <3>6
    <3> QED
      BY <1>7, <1>13, <1>21, <3>2, <3>3, <3>7 DEF Settles
  <2>4. \A k \in DOMAIN stack' : k <= 1 /\ Holder(stack'[k]) => stack'[k].mod = m
    BY <1>9, <1>10, <1>11
  <2>5. Counts /\ (0 = 1 /\ Holder(Top) => Top.mod = m)
    BY DEF TableInv
  <2> QED
    BY <1>3, <1>7, <1>10, <1>13, <1>14, <2>2, <2>3, <2>4, <2>5, CountsKept
<1>23. ListInv'
  <2>1. \A d \in Module : mod'[d].life = mod[d].life /\ mod'[d].name = mod[d].name /\ mod'[d].dependencies = mod[d].dependencies
    BY <1>7
  <2> QED
    BY <1>1, <1>3, <2>1, ListKept DEF TableInv
<1>24. ExeInv'
  <2>1. \A d \in Module : mod'[d].life = mod[d].life /\ mod'[d].name = mod[d].name
    BY <1>7
  <2> QED
    BY <1>1, <1>2, <2>1, NotModules DEF TableInv, ExeInv
<1> QED
  BY <1>15, <1>16, <1>17, <1>18, <1>19, <1>20, <1>22, <1>23, <1>24 DEF TableInv

(* The list is empty.                                                       *)
LEMMA EndKeeps ==
    ASSUME TableInv, TerminateEnds
    PROVE  TableInv' /\ \A m \in Module : mod[m].life = "unused"
<1>1. /\ InCall("terminate") /\ loaded_modules = <<>>
      /\ phase' = "ended" /\ stack' = <<>>
      /\ UNCHANGED <<world, mod, loaded_modules, main_module, result, roots>>
  BY DEF TerminateEnds
<1>2. /\ stack # <<>> /\ Top.at = "terminate" /\ ~Owner(Top) /\ Len(stack) = 1 /\ phase = "exit"
      /\ main_module = Null /\ result = NoResult
      /\ \A m \in Module : mod[m].life = "unused" \/ (mod[m].life = "up" /\ m \in ToSet(loaded_modules))
      /\ \A k \in DOMAIN stack : ~Owner(stack[k])
  BY <1>1, TerminateIs
<1>3. /\ mod \in [Module -> Structure] /\ stack \in Seq(Call) /\ roots \in [Module -> Nat]
      /\ loaded_modules \in Seq(Module)
  BY DEF TableInv, TableTypes
<1>4. \A m \in Module : mod[m].life = "unused" /\ mod[m] = Unused
  <2>1. ToSet(loaded_modules) = {}
    BY <1>1 DEF ToSet
  <2> QED
    BY <1>2, <2>1 DEF TableInv, Lives
<1>5. DOMAIN stack' = {} /\ stack' \in Seq(Call)
  BY <1>1
<1>6. TableTypes'
  BY <1>1, <1>5 DEF TableInv, TableTypes, Structure, Call
<1>7. CallsOk' /\ Places' /\ Unique'
  BY <1>1, <1>5 DEF CallsOk, Places, Unique
<1>8. Lives'
  BY <1>1, <1>4 DEF TableInv, Lives, Unused
<1>9. ResultInv'
  BY <1>1, <1>2, NotModules DEF ResultInv
<1>10. Counts'
  <2> SUFFICES ASSUME NEW d \in Module
               PROVE  /\ mod'[d].refcount = roots'[d] + Cardinality(Refs(d)') + One(result' = d) + One(Held(d)')
                      /\ Refs(d)' # {} => mod'[d].life = "up" /\ mod'[d].name # "exe"
    BY DEF Counts, One
  <2>1. /\ mod[d].refcount = roots[d] + Cardinality(Refs(d)) + One(result = d) + One(Held(d))
        /\ Refs(d) # {} => mod[d].life = "up" /\ mod[d].name # "exe"
    BY DEF TableInv, Counts
  <2>2. Refs(d)' = Refs(d)
    <3>1. ASSUME NEW e \in Module, NEW j
          PROVE  (j \in DOMAIN mod'[e].dependencies /\ mod'[e].dependencies[j] = d /\ ~GivenBack(e, j)') <=>
                 (j \in DOMAIN mod[e].dependencies /\ mod[e].dependencies[j] = d /\ ~GivenBack(e, j))
      <4>1. mod[e].dependencies = <<>> /\ mod'[e].dependencies = <<>>
        BY <1>1, <1>4 DEF Unused
      <4> QED
        BY <4>1
    <3> QED
      BY <3>1, RefsKept
  <2>3. ~Held(d) /\ ~Held(d)'
    BY <1>2, <1>5 DEF Held, Holder, Owner
  <2>4. One(Held(d)') = One(Held(d))
    BY <2>3 DEF One
  <2> QED
    BY <1>1, <2>1, <2>2, <2>4
<1>11. ListInv'
  BY <1>1, <1>3, ListKept DEF TableInv
<1>12. ExeInv'
  BY <1>1, <1>2, <1>4, NotModules DEF ExeInv
<1> QED
  BY <1>4, <1>6, <1>7, <1>8, <1>9, <1>10, <1>11, <1>12 DEF TableInv

(* Nothing is loaded at first.                                              *)
LEMMA InitHolds == ASSUME Init PROVE TableInv
<1>1. /\ world \in Worlds /\ mod = [m \in Module |-> Unused]
      /\ loaded_modules = <<>> /\ main_module = Null /\ stack = <<>> /\ result = NoResult
      /\ roots = [m \in Module |-> 0] /\ phase = "start"
  BY DEF Init
<1>2. Unused \in Structure /\ Unused.life = "unused" /\ Unused.dependencies = <<>> /\ Unused.refcount = 0
  BY DEF Unused, Structure
<1>3. mod \in [Module -> Structure] /\ roots \in [Module -> Nat] /\ \A m \in Module : mod[m] = Unused /\ roots[m] = 0
  BY <1>1, <1>2
<1>4. DOMAIN stack = {} /\ stack \in Seq(Call) /\ DOMAIN loaded_modules = {} /\ loaded_modules \in Seq(Module)
  BY <1>1
<1>5. TableTypes
  BY <1>1, <1>3, <1>4 DEF TableTypes
<1>6. CallsOk /\ Places /\ Unique
  BY <1>1, <1>4 DEF CallsOk, Places, Unique
<1>7. Lives /\ ResultInv
  BY <1>1, <1>2, <1>3, NotModules DEF Lives, ResultInv
<1>8. Counts
  <2> SUFFICES ASSUME NEW m \in Module
               PROVE  /\ mod[m].refcount = roots[m] + Cardinality(Refs(m)) + One(result = m) + One(Held(m))
                      /\ Refs(m) # {} => mod[m].life = "up" /\ mod[m].name # "exe"
    BY DEF Counts
  <2>1. Refs(m) = {}
    <3> SUFFICES ASSUME NEW p, p \in Refs(m) PROVE FALSE
      OBVIOUS
    <3>1. PICK d \in Module : \E i \in DOMAIN mod[d].dependencies : mod[d].dependencies[i] = m
      BY InRefs
    <3>2. mod[d].dependencies = <<>>
      BY <1>2, <1>3
    <3> QED
      BY <3>1, <3>2
  <2>2. Cardinality(Refs(m)) = 0
    <3>1. Refs(m) = {} <=> Cardinality(Refs(m)) = 0
      BY <1>3, RefsFinite
    <3> QED
      BY <2>1, <3>1
  <2>3. One(result = m) = 0 /\ One(Held(m)) = 0
    BY <1>1, <1>4, NotModules DEF One, Held
  <2>4. mod[m].refcount = 0 /\ roots[m] = 0
    BY <1>2, <1>3
  <2>5. mod[m].refcount = roots[m] + Cardinality(Refs(m)) + One(result = m) + One(Held(m))
    <3>1. 0 = 0 + 0 + 0 + 0
      OBVIOUS
    <3> QED
      BY <2>2, <2>3, <2>4, <3>1, Zenon
  <2> QED
    BY <2>1, <2>5
<1>9. ListInv
  <2>1. ToSet(loaded_modules) = {}
    BY <1>4 DEF ToSet
  <2>2. {m \in Module : mod[m].life = "up" /\ mod[m].name # "exe"} = {}
    BY <1>2, <1>3
  <2> QED
    BY <1>4, <2>1, <2>2 DEF ListInv, InOrderOfDependency
<1>10. ExeInv
  BY <1>1, <1>2, <1>3, NotModules DEF ExeInv
<1> QED
  BY <1>5, <1>6, <1>7, <1>8, <1>9, <1>10 DEF TableInv

(* When nothing happens, nothing changes.                                   *)
LEMMA NothingKeeps == ASSUME TableInv, UNCHANGED vars PROVE TableInv'
<1>1. UNCHANGED <<world, mod, loaded_modules, main_module, stack, result, roots, phase>>
  BY DEF vars
<1>2. TableTypes' /\ CallsOk' /\ Places'
  BY <1>1 DEF TableInv, TableTypes, Structure, Call, CallsOk, CallOk, Owner, Imports, Places, Waiting, Loading
<1>3. Unique' /\ Lives' /\ ResultInv'
  BY <1>1 DEF TableInv, Unique, Lives, ResultInv, Owner, Waiting, Top, Unused
<1>4. Counts'
  <2>1. ASSUME NEW m \in Module PROVE Refs(m)' = Refs(m) /\ Held(m)' = Held(m)
    BY <1>1 DEF Refs, References, GivenBack, Held, Holder
  <2> QED
    BY <1>1, <2>1 DEF TableInv, Counts, One
<1>5. ListInv' /\ ExeInv'
  BY <1>1 DEF TableInv, ListInv, InOrderOfDependency, ImportsOf, ExeInv
<1> QED
  BY <1>2, <1>3, <1>4, <1>5 DEF TableInv

(* Every step keeps the invariant.                                          *)
LEMMA StepKeeps == ASSUME TableInv, [Next]_vars PROVE TableInv'
<1>1. CASE LoadProgram
  BY <1>1, StartKeeps
<1>2. ASSUME NEW name \in Name, DosLoadModule(name) PROVE TableInv'
  BY <1>2, AskedKeeps
<1>3. ASSUME NEW name \in Name, DosLoadModulePath(name) PROVE TableInv'
  BY <1>3, PathKeeps
<1>4. CASE NameFound
  BY <1>4, FoundKeeps
<1>5. CASE NameHasFile
  BY <1>5, FileBegins
<1>6. CASE FileLoaded
  BY <1>6, FileKeeps
<1>7. CASE loadNativeModule
  BY <1>7, NativeKeeps
<1>8. CASE ImportNext
  BY <1>8, ImportKeeps
<1>9. CASE Imported
  BY <1>9, ImportedKeeps
<1>10. CASE ModuleComplete
  BY <1>10, ProgramKeeps, LibraryKeeps
<1>11. CASE InitReturns
  BY <1>11, InitKeeps
<1>12. CASE ModuleFails
  BY <1>12, FailsKeeps
<1>13. CASE FailureReturns
  BY <1>13, FailureKeeps
<1>14. CASE StillInUse
  BY <1>14, StillKeeps
<1>15. CASE LastReference
  BY <1>15, LastKeeps
<1>16. CASE FreeImport
  BY <1>16, GiveBackKeeps
<1>17. CASE Freed
  BY <1>17, FreedKeeps
<1>18. CASE lxTerminate
  BY <1>18, ExitKeeps
<1>19. CASE TerminateNext
  BY <1>19, NextKeeps
<1>20. CASE TerminateEnds
  BY <1>20, EndKeeps
<1>21. CASE UNCHANGED vars
  BY <1>21, NothingKeeps
<1> QED
  BY <1>1, <1>2, <1>3, <1>4, <1>5, <1>6, <1>7, <1>8, <1>9, <1>10, <1>11, <1>12, <1>13, <1>14, <1>15,
     <1>16, <1>17, <1>18, <1>19, <1>20, <1>21 DEF Next

(* The invariant holds in every state.                                      *)
LEMMA TableInvHolds == Spec => []TableInv
<1>1. Init => TableInv
  BY InitHolds
<1>2. TableInv /\ [Next]_vars => TableInv'
  BY StepKeeps
<1> QED
  BY <1>1, <1>2, PTL DEF Spec

(* Between calls the counts and the list are right.                         *)
LEMMA TableInvIsSound == ASSUME TableInv PROVE ModuleListIsSound
<1>1. ASSUME stack = <<>>, NEW m \in Module
      PROVE  mod[m].refcount = roots[m] + Cardinality(References(m))
  <2>1. mod[m].refcount = roots[m] + Cardinality(Refs(m)) + One(result = m) + One(Held(m))
    BY DEF TableInv, Counts
  <2>2. DOMAIN stack = {}
    BY <1>1
  <2>3. Refs(m) = References(m)
    <3>1. \A d, i : ~GivenBack(d, i)
      BY <2>2 DEF GivenBack
    <3> QED
      BY <3>1 DEF Refs
  <2>4. One(result = m) = 0 /\ One(Held(m)) = 0
    BY <1>1, <2>2, NotModules DEF TableInv, ResultInv, One, Held
  <2>5. roots[m] \in Nat /\ Cardinality(Refs(m)) \in Nat
    BY RefsFinite DEF TableInv, TableTypes
  <2> DEFINE q == Cardinality(Refs(m))
  <2>6. mod[m].refcount = roots[m] + q + 0 + 0 /\ q \in Nat /\ roots[m] \in Nat
    BY <2>1, <2>4, <2>5
  <2> HIDE DEF q
  <2>7. mod[m].refcount = roots[m] + q
    BY <2>6
  <2> QED
    BY <2>3, <2>7 DEF q
<1>2. InOrderOfDependency
  BY DEF TableInv, ListInv
<1> QED
  BY <1>1, <1>2 DEF ModuleListIsSound, RefcountsExact

(* The list of modules and their reference counts: whatever the program     *)
(* loads, whatever part of a load fails and however deep, between calls a   *)
(* module is counted exactly for its importers and for the program, and the *)
(* list holds the libraries that are up, in the order of their dependencies *)
(* (lx_loader.c:711-714, the failure path of loadLxModule, freeLxModule).   *)
THEOREM ListIsSound == Spec => []ModuleListIsSound
BY TableInvHolds, TableInvIsSound, PTL

(* Which steps have a library initialised or terminated.                    *)
LEMMA LifeChanges ==
    ASSUME TableInv, [Next]_vars, NEW m \in Module, mod'[m].life # mod[m].life, mod'[m].life \in {"in", "down"}
    PROVE  \/ InCall("module") /\ m = Top.mod
           \/ LastReference /\ m = Top.mod /\ mod[m].life = "up"
<1>1. mod \in [Module -> Structure] /\ mod[m] \in Structure
  BY DEF TableInv, TableTypes
<1>2. mod' # mod
  OBVIOUS
<1>3. ~LoadProgram /\ ~NameHasFile /\ \A name \in Name : ~DosLoadModulePath(name)
  <2>1. ASSUME NEW name, NEW depth, NEW callers, LoadModule(name, depth, callers), FreeModules # {} PROVE FALSE
    <3>1. PICK d \in Module : mod' = [mod EXCEPT ![d] = New(name, [i \in DOMAIN Imports(name) |-> Null], FALSE, "new")]
      BY <2>1, FreshIs DEF LoadModule
    <3>2. New(name, [i \in DOMAIN Imports(name) |-> Null], FALSE, "new").life = "new"
      BY DEF New
    <3>3. mod'[m] = mod[m] \/ mod'[m] = New(name, [i \in DOMAIN Imports(name) |-> Null], FALSE, "new")
      BY <1>1, <3>1
    <3> QED
      BY <3>2, <3>3
  <2>2. ASSUME NEW name, NEW depth, NEW callers, LoadModule(name, depth, callers) PROVE FALSE
    BY <1>2, <2>1, <2>2 DEF LoadModule
  <2> QED
    BY <2>2 DEF LoadProgram, NameHasFile, DosLoadModulePath
<1>4. ~loadNativeModule
  <2> SUFFICES ASSUME loadNativeModule PROVE FALSE
    OBVIOUS
  <2>1. FreeModules # {}
    BY <1>2 DEF loadNativeModule
  <2>2. PICK d \in Module : mod' = [mod EXCEPT ![d] = New(Top.name, <<>>, TRUE, "up")]
    BY <1>2, <2>1, FreshIs DEF loadNativeModule
  <2>3. New(Top.name, <<>>, TRUE, "up").life = "up"
    BY DEF New
  <2>4. mod'[m] = mod[m] \/ mod'[m] = New(Top.name, <<>>, TRUE, "up")
    BY <1>1, <2>2
  <2> QED
    BY <2>3, <2>4
<1>5. ~NameFound
  <2> SUFFICES ASSUME NameFound PROVE FALSE
    OBVIOUS
  <2>1. PICK d : mod' = [mod EXCEPT ![d].refcount = @ + 1]
    BY DEF NameFound
  <2>2. mod'[m] = mod[m] \/ mod'[m] = [mod[m] EXCEPT !.refcount = @ + 1]
    BY <1>1, <2>1
  <2> QED
    BY <1>1, <2>2 DEF Structure
<1>6. ~InitReturns
  <2> SUFFICES ASSUME InitReturns PROVE FALSE
    OBVIOUS
  <2>1. mod'[m] = mod[m] \/ mod'[m] = [mod[m] EXCEPT !.life = "up"]
    BY <1>1 DEF InitReturns
  <2> QED
    BY <1>1, <2>1 DEF Structure
<1>7. ~StillInUse
  <2> SUFFICES ASSUME StillInUse PROVE FALSE
    OBVIOUS
  <2>1. mod'[m] = mod[m] \/ mod'[m] = [mod[m] EXCEPT !.refcount = @ - 1]
    BY <1>1 DEF StillInUse
  <2> QED
    BY <1>1, <2>1 DEF Structure
<1>8. ~Freed
  <2> SUFFICES ASSUME Freed PROVE FALSE
    OBVIOUS
  <2>1. mod'[m] = mod[m] \/ mod'[m] = Unused
    BY <1>1 DEF Freed
  <2> QED
    BY <2>1 DEF Unused
<1>9. ~TerminateNext
  <2> SUFFICES ASSUME TerminateNext PROVE FALSE
    OBVIOUS
  <2>1. mod'[m] = mod[m] \/ mod'[m] = [mod[m] EXCEPT !.refcount = 1]
    BY <1>1 DEF TerminateNext
  <2> QED
    BY <1>1, <2>1 DEF Structure
<1>10. ~Imported
  <2> SUFFICES ASSUME Imported PROVE FALSE
    OBVIOUS
  <2>1. mod'[m] = mod[m] \/ mod'[m] = [mod[m] EXCEPT !.dependencies[Top.i] = result]
    BY <1>1 DEF Imported
  <2>2. [mod[m] EXCEPT !.dependencies[Top.i] = result].life = mod[m].life
    BY <1>1 DEF Structure
  <2> QED
    BY <2>1, <2>2
<1>11. ASSUME ModuleComplete PROVE InCall("module") /\ m = Top.mod
  <2>1. InCall("module")
    BY <1>11 DEF ModuleComplete
  <2>2. PICK l : mod' = [mod EXCEPT ![Top.mod].life = l]
    BY <1>11 DEF ModuleComplete
  <2> QED
    BY <1>1, <2>1, <2>2
<1>12. ASSUME LastReference PROVE m = Top.mod /\ mod[m].life = "up"
  <2>1. mod' = [mod EXCEPT ![Top.mod].refcount = 0, ![Top.mod].life = IF @ = "up" THEN "down" ELSE @]
    BY <1>12 DEF LastReference
  <2>2. m = Top.mod
    BY <1>1, <2>1
  <2>3. mod'[m] = [mod[m] EXCEPT !.refcount = 0, !.life = IF @ = "up" THEN "down" ELSE @]
    BY <1>1, <2>1, <2>2
  <2>4. mod'[m].life = IF mod[m].life = "up" THEN "down" ELSE mod[m].life
    BY <1>1, <2>3 DEF Structure
  <2> QED
    BY <2>2, <2>4
<1> QED
  BY <1>2, <1>3, <1>4, <1>5, <1>6, <1>7, <1>8, <1>9, <1>10, <1>11, <1>12
     DEF Next, vars, DosLoadModule, FileLoaded, ImportNext, ModuleFails, FailureReturns, FreeImport, lxTerminate,
         TerminateEnds

(* A module no call is freeing has what it imports, and that is up.         *)
LEMMA ImportsAreUp ==
    ASSUME TableInv, NEW m \in Module, NEW d \in ImportsOf(m),
           \A k \in DOMAIN stack : ~(stack[k].at = "free" /\ stack[k].mod = m)
    PROVE  mod[d].life = "up"
<1>1. PICK i \in DOMAIN mod[m].dependencies : mod[m].dependencies[i] = d /\ d # Null
  BY DEF ImportsOf, ToSet
<1>2. mod[m].dependencies \in Seq(Module \cup {Null})
  BY DEF TableInv, TableTypes, Structure
<1>3. d \in Module
  <2>1. mod[m].dependencies[i] \in Module \cup {Null}
    BY <1>2
  <2> QED
    BY <1>1, <2>1
<1>4. ~GivenBack(m, i)
  BY DEF GivenBack
<1>5. <<m, i>> \in Refs(d)
  BY <1>1, <1>4, InRefs
<1> QED
  BY <1>3, <1>5 DEF TableInv, Counts

(* The routines of a library run in their order in every step.              *)
LEMMA CallsInOrder ==
    ASSUME TableInv, [Next]_vars
    PROVE  /\ \A m \in Module :
                 (mod'[m].life # mod[m].life /\ mod'[m].life \in {"in", "down"}) =>
                     /\ \A d \in ImportsOf(m) : mod[d].life = "up"
                     /\ \A u \in Module : m \in ImportsOf(u) => mod[u].life \notin {"in", "up"}
           /\ (phase = "exit" /\ phase' = "ended") => \A m \in Module : mod[m].life = "unused"
<1>1. ASSUME NEW m \in Module, mod'[m].life # mod[m].life, mod'[m].life \in {"in", "down"}
      PROVE  /\ \A d \in ImportsOf(m) : mod[d].life = "up"
             /\ \A u \in Module : m \in ImportsOf(u) => mod[u].life \notin {"in", "up"}
  <2>1. Refs(m) = {} /\ \A k \in DOMAIN stack : ~(stack[k].at = "free" /\ stack[k].mod = m)
    <3>1. CASE InCall("module") /\ m = Top.mod
      <4>1. Refs(m) = {} /\ Top.at = "module"
            /\ \A k \in DOMAIN stack : k > 1 /\ Owner(stack[k]) => stack[k].mod # m
        BY <3>1, LoadIs
      <4>2. ASSUME NEW k \in DOMAIN stack, stack[k].at = "free", stack[k].mod = m PROVE FALSE
        <5>1. k = 1 \/ k > 1
          BY DEF TableInv, TableTypes
        <5> QED
          BY <4>1, <4>2, <5>1 DEF Owner, Top
      <4> QED
        BY <4>1, <4>2
    <3>2. CASE LastReference /\ m = Top.mod /\ mod[m].life = "up"
      <4>1. \A k \in DOMAIN stack : ~(stack[k].at = "free" /\ stack[k].mod = m)
        BY <3>2, NoCallAbout DEF Owner
      <4>2. mod[m].refcount = roots[m] + Cardinality(Refs(m)) + 1 /\ mod[m].refcount <= 1
        BY <3>2, UnrefIs DEF LastReference
      <4>3. roots[m] \in Nat /\ Cardinality(Refs(m)) \in Nat /\ (Refs(m) = {} <=> Cardinality(Refs(m)) = 0)
        BY RefsFinite DEF TableInv, TableTypes
      <4> DEFINE q == Cardinality(Refs(m))
      <4>4. q \in Nat /\ roots[m] + q + 1 <= 1 /\ roots[m] \in Nat
        BY <4>2, <4>3
      <4> HIDE DEF q
      <4>5. q = 0
        BY <4>4
      <4> QED
        BY <4>1, <4>3, <4>5 DEF q
    <3> QED
      BY <1>1, <3>1, <3>2, LifeChanges
  <2>2. \A d \in ImportsOf(m) : mod[d].life = "up"
    BY <2>1, ImportsAreUp
  <2>3. \A u \in Module : m \in ImportsOf(u) => mod[u].life \notin {"in", "up"}
    BY <2>1, NotImported
  <2> QED
    BY <2>2, <2>3
<1>2. ASSUME phase = "exit", phase' = "ended"
      PROVE  \A m \in Module : mod[m].life = "unused"
  <2>1. TerminateEnds
    BY <1>2 DEF Next, vars, LoadProgram, DosLoadModule, DosLoadModulePath, NameFound, NameHasFile, FileLoaded,
                loadNativeModule, ImportNext, Imported, ModuleComplete, InitReturns, ModuleFails, FailureReturns,
                StillInUse, LastReference, FreeImport, Freed, lxTerminate, TerminateNext, Return, LoadModule
  <2> QED
    BY <2>1, EndKeeps
<1> QED
  BY <1>1, <1>2

(* The routines of libraries run in the order of dependency: initialisation *)
(* after that of everything imported, termination before it and when no     *)
(* importer is up, and nothing is left at the end (runInitFunctions in      *)
(* lx_loader.c, freeLxModule, lxTerminate).                                 *)
THEOREM RoutinesRunInOrder == Spec => LibraryCallsInOrder
<1>1. TableInv /\ [Next]_vars =>
         [/\ \A m \in Module :
                (mod'[m].life # mod[m].life /\ mod'[m].life \in {"in", "down"}) =>
                    /\ \A d \in ImportsOf(m) : mod[d].life = "up"
                    /\ \A u \in Module : m \in ImportsOf(u) => mod[u].life \notin {"in", "up"}
          /\ (phase = "exit" /\ phase' = "ended") => \A m \in Module : mod[m].life = "unused"]_vars
  BY CallsInOrder
<1> QED
  BY <1>1, TableInvHolds, PTL DEF Spec, LibraryCallsInOrder

(* Every variable has its type.                                             *)
THEOREM TableTypesHold == Spec => []TypeOK
<1>1. TableInv => TypeOK
  <2> SUFFICES ASSUME TableInv PROVE TypeOK
    OBVIOUS
  <2>1. TableTypes
    BY DEF TableInv
  <2>2. DOMAIN mod = Module /\ \A m \in Module : mod[m] \in Structure
    BY <2>1 DEF TableTypes
  <2>3. \A k \in DOMAIN stack : stack[k] \in Call
    BY <2>1 DEF TableTypes
  <2> QED
    BY <2>1, <2>2, <2>3 DEF TypeOK, TableTypes, Structure, Call
<1> QED
  BY <1>1, TableInvHolds, PTL

-----------------------------------------------------------------------------
(* Addresses: tile t begins at t * Half.                                    *)
LEMMA HalfIs == Half \in Nat /\ Half >= 7 /\ PageSize \in 5 .. Half
<1>1. \A b \in Nat : b * b \in Nat
  OBVIOUS
<1> QED
  BY <1>1, ImageAssumption, MissingAssumption DEF Half

(* The next tile begins where this one ends.                                *)
LEMMA BaseGrows ==
    ASSUME NEW t \in Nat, NEW u \in Nat, t < u
    PROVE  Base(t) \in Nat /\ Base(u) \in Nat /\ Base(t) + Half <= Base(u)
<1>1. \A h \in Nat : t * h \in Nat /\ u * h \in Nat /\ (t + 1) * h = t * h + h
  OBVIOUS
<1>2. \A d, h \in Nat : d * h \in Nat
  OBVIOUS
<1>3. u - t - 1 \in Nat
  OBVIOUS
<1>4. \A h \in Nat : (u - t - 1) * h \in Nat
  BY <1>2, <1>3
<1>5. \A h \in Nat : (u - t - 1) * h = u * h - t * h - h
  OBVIOUS
<1>6. \A h \in Nat : t * h + h <= u * h
  BY <1>1, <1>4, <1>5
<1> QED
  BY <1>1, <1>6, HalfIs DEF Base

(* The tile of an address, and the offset in it.                            *)
LEMMA TileIs ==
    ASSUME NEW t \in Nat, NEW o \in Nat, o < Half
    PROVE  /\ Base(t) \in Nat /\ Tile(Base(t) + o) = t /\ (Base(t) + o) % Half = o
<1>1. Half \in Nat /\ Half > 0
  BY HalfIs
<1>2. \A h \in Nat : t * h \in Nat
  OBVIOUS
<1> DEFINE b == Base(t)
           a == b + o
           q == a \div Half
           r == a % Half
<1>3. b \in Nat /\ a \in Nat
  BY <1>1, <1>2 DEF Base
<1> HIDE DEF b
<1>4. q \in Nat /\ r \in Nat /\ r < Half /\ a = q * Half + r
  BY <1>1, <1>3
<1> HIDE DEF q, r
<1>5. a = Base(q) + r /\ a = Base(t) + o
  BY <1>4 DEF Base, b
<1>6. ASSUME q < t PROVE FALSE
  <2>1. Base(q) + Half <= Base(t) /\ Base(q) \in Nat /\ Base(t) \in Nat
    BY <1>4, <1>6, BaseGrows
  <2> QED
    BY <1>1, <1>4, <1>5, <2>1
<1>7. ASSUME t < q PROVE FALSE
  <2>1. Base(t) + Half <= Base(q) /\ Base(q) \in Nat /\ Base(t) \in Nat
    BY <1>4, <1>7, BaseGrows
  <2> QED
    BY <1>1, <1>4, <1>5, <2>1
<1>8. q = t
  BY <1>4, <1>6, <1>7
<1>9. r = o
  BY <1>3, <1>4, <1>5, <1>8 DEF b
<1> QED
  BY <1>3, <1>8, <1>9 DEF Tile, b, q, r

(* Code in a page: it ends before the page does.                            *)
InPage(c) ==
    /\ c.at \in Nat /\ c.size \in Nat /\ c.bits \in {16, 32}
    /\ Tile(c.at) \in 1 .. Half - 1
    /\ Base(Tile(c.at)) <= c.at /\ c.at + c.size <= Base(Tile(c.at)) + PageOf(c.bits)

Disjoint(c, d) == c.at + c.size <= d.at \/ d.at + d.size <= c.at

(* The page code of a kind goes to: none yet, or one that has some, all of  *)
(* that kind and below what is used.                                        *)
RoomInv(bits) ==
    /\ room[bits] \in [at : Nat, used : Nat]
    /\ \/ room[bits].used = Half
       \/ \E t \in 1 .. Half - 1 :
             /\ room[bits].at = Base(t) /\ room[bits].used <= PageOf(bits)
             /\ \E i \in DOMAIN made : Tile(made[i].at) = t
             /\ \A i \in DOMAIN made : Tile(made[i].at) = t =>
                   made[i].bits = bits /\ made[i].at + made[i].size <= Base(t) + room[bits].used

MissingInv ==
    /\ image \in Images /\ fixed \in 0 .. Len(image.fixups)
    /\ made \in Seq(ToSet(made)) /\ Len(made) <= fixed
    /\ \A i \in DOMAIN made : InPage(made[i])
    /\ \A i, j \in DOMAIN made : i # j => Disjoint(made[i], made[j])
    /\ DOMAIN room = {16, 32} /\ \A bits \in {16, 32} : RoomInv(bits)

(* A page of either kind is in one tile and has room for its code.          *)
LEMMA PageFits ==
    ASSUME NEW bits \in {16, 32}
    PROVE  PageOf(bits) \in Nat /\ PageOf(bits) <= Half /\ SpaceKept(bits) <= PageOf(bits)
           /\ CodeSize(bits) \in Nat /\ CodeSize(bits) > 0 /\ CodeSize(bits) <= SpaceKept(bits)
           /\ SpaceKept(bits) \in Nat /\ SpaceKept(bits) > 0
BY HalfIs DEF PageOf, SpaceKept, CodeSize

(* While there is a fixup to do, there is a tile without code.              *)
LEMMA TileIsFree ==
    ASSUME MissingInv, fixed < Len(image.fixups)
    PROVE  \E t \in 1 .. Half - 1 :
              NewPage = [at |-> Base(t), used |-> 0] /\ \A i \in DOMAIN made : Tile(made[i].at) # t
<1> DEFINE n == Len(made)
           l == Len(FreeTiles)
           used == {Tile(made[i].at) : i \in DOMAIN made}
           free == {i \in DOMAIN FreeTiles : FreeTiles[i] \notin used}
<1>1. n \in Nat /\ DOMAIN made = 1 .. n /\ n < l /\ l \in Nat /\ DOMAIN FreeTiles = 1 .. l
  <2>1. n \in Nat /\ DOMAIN made = 1 .. n /\ n <= fixed
    BY DEF MissingInv
  <2>2. Len(image.fixups) \in 0 .. l /\ l \in Nat /\ DOMAIN FreeTiles = 1 .. l /\ fixed \in Nat
    BY MissingAssumption DEF MissingInv
  <2> QED
    BY <2>1, <2>2
<1>2. free # {}
  <2> SUFFICES ASSUME \A i \in 1 .. l : \E j \in 1 .. n : Tile(made[j].at) = FreeTiles[i]
               PROVE  FALSE
    BY <1>1
  <2> DEFINE g == [i \in 1 .. l |-> CHOOSE j \in 1 .. n : Tile(made[j].at) = FreeTiles[i]]
  <2>1. \A i \in 1 .. l : g[i] \in 1 .. n /\ Tile(made[g[i]].at) = FreeTiles[i]
    OBVIOUS
  <2>2. g \in [1 .. l -> 1 .. n]
    BY <2>1
  <2> HIDE DEF g, n, l
  <2>3. IsFiniteSet(1 .. n) /\ Cardinality(1 .. n) = n /\ IsFiniteSet(1 .. l) /\ Cardinality(1 .. l) = l
    BY <1>1, FS_Interval
  <2>4. PICK x, y \in 1 .. l : x # y /\ g[x] = g[y]
    BY <1>1, <2>2, <2>3, FS_PigeonHole
  <2>5. FreeTiles[x] = FreeTiles[y]
    BY <2>1, <2>4
  <2> QED
    BY <1>1, <2>4, <2>5, MissingAssumption DEF l
<1>3. free \in SUBSET Nat
  BY <1>1
<1>4. Min(free) \in free
  <2> HIDE DEF free
  <2> QED
    BY <1>2, <1>3, LeastNatural
<1>5. FreeTiles[Min(free)] \in 1 .. Half - 1 /\ FreeTiles[Min(free)] \notin used
  <2>1. \A i \in free : FreeTiles[i] \in 1 .. Half - 1 /\ FreeTiles[i] \notin used
    <3>1. \A i \in DOMAIN FreeTiles : FreeTiles[i] \in 1 .. Half - 1
      <4> DEFINE S == 1 .. Half - 1
      <4>1. FreeTiles \in Seq(S)
        BY MissingAssumption
      <4> HIDE DEF S
      <4>2. \A i \in DOMAIN FreeTiles : FreeTiles[i] \in S
        BY <4>1
      <4> QED
        BY <4>2 DEF S
    <3> QED
      BY <3>1
  <2> HIDE DEF free, used
  <2> QED
    BY <1>4, <2>1
<1>6. NewPage = [at |-> Base(FreeTiles[Min(free)]), used |-> 0]
  BY DEF NewPage
<1> QED
  BY <1>5, <1>6

(* Where code goes for which there is room behind `used` in tile t.         *)
LEMMA CodeInPage ==
    ASSUME NEW bits \in {16, 32}, NEW t \in 1 .. Half - 1, NEW used \in Nat,
           used + CodeSize(bits) <= PageOf(bits),
           NEW c, c.at = Base(t) + used, c.size = CodeSize(bits), c.bits = bits
    PROVE  InPage(c) /\ Tile(c.at) = t /\ Base(t) \in Nat
<1>1. /\ PageOf(bits) \in Nat /\ PageOf(bits) <= Half /\ CodeSize(bits) \in Nat /\ CodeSize(bits) > 0
      /\ Half \in Nat /\ t \in Nat
  BY PageFits, HalfIs
<1>2. used < Half
  BY <1>1
<1>3. Base(t) \in Nat /\ Tile(Base(t) + used) = t
  BY <1>1, <1>2, TileIs
<1> QED
  BY <1>1, <1>3 DEF InPage

(* Code in two tiles.                                                       *)
LEMMA TilesApart ==
    ASSUME NEW c, InPage(c), NEW d, InPage(d), Tile(c.at) # Tile(d.at)
    PROVE  Disjoint(c, d)
<1> DEFINE t == Tile(c.at)
           u == Tile(d.at)
           p == PageOf(c.bits)
           q == PageOf(d.bits)
<1>1. Half \in Nat /\ t \in Nat /\ u \in Nat /\ p \in Nat /\ q \in Nat /\ p <= Half /\ q <= Half
  BY HalfIs, PageFits DEF InPage
<1>2. c.at \in Nat /\ d.at \in Nat /\ c.size \in Nat /\ d.size \in Nat
  BY DEF InPage
<1>3. Base(t) <= c.at /\ c.at + c.size <= Base(t) + p /\ Base(u) <= d.at /\ d.at + d.size <= Base(u) + q
  BY DEF InPage
<1>4. t < u \/ u < t
  BY <1>1
<1> HIDE DEF t, u, p, q
<1>5. CASE t < u
  <2>1. Base(t) \in Nat /\ Base(u) \in Nat /\ Base(t) + Half <= Base(u)
    BY <1>1, <1>5, BaseGrows
  <2> QED
    BY <1>1, <1>2, <1>3, <2>1 DEF Disjoint
<1>6. CASE u < t
  <2>1. Base(t) \in Nat /\ Base(u) \in Nat /\ Base(u) + Half <= Base(t)
    BY <1>1, <1>6, BaseGrows
  <2> QED
    BY <1>1, <1>2, <1>3, <2>1 DEF Disjoint
<1> QED
  BY <1>4, <1>5, <1>6

(* What generateMissingTrampoline and generateMissingTrampoline16 make: the *)
(* code is behind all there is in its page, and the page has no other code. *)
LEMMA TrampolineIs ==
    ASSUME MissingInv, fixed < Len(image.fixups), NEW bits \in {16, 32}, NEW module, NEW entry
    PROVE  LET c == Trampoline(bits, module, entry).code
               r == Trampoline(bits, module, entry).room
           IN  /\ InPage(c) /\ c.bits = bits
               /\ \A i \in DOMAIN made : Disjoint(made[i], c)
               /\ r \in [at : Nat, used : Nat] /\ r.used <= PageOf(bits)
               /\ r.at = Base(Tile(c.at)) /\ c.at + c.size <= r.at + r.used
               /\ \A i \in DOMAIN made : Tile(made[i].at) = Tile(c.at) =>
                     made[i].bits = bits /\ made[i].at + made[i].size <= r.at + r.used
<1> DEFINE p == IF room[bits].at = 0 \/ PageOf(bits) - room[bits].used < SpaceKept(bits) THEN NewPage ELSE room[bits]
           c == [at |-> p.at + p.used, size |-> CodeSize(bits), bits |-> bits, module |-> module, entry |-> entry]
           r == [p EXCEPT !.used = @ + CodeSize(bits)]
<1>1. Trampoline(bits, module, entry).code = c /\ Trampoline(bits, module, entry).room = r
  BY DEF Trampoline
<1>2. /\ PageOf(bits) \in Nat /\ PageOf(bits) <= Half /\ SpaceKept(bits) <= PageOf(bits)
      /\ CodeSize(bits) \in Nat /\ CodeSize(bits) > 0 /\ CodeSize(bits) <= SpaceKept(bits)
      /\ SpaceKept(bits) \in Nat /\ SpaceKept(bits) > 0 /\ Half \in Nat
  BY PageFits, HalfIs
<1>3. PICK t \in 1 .. Half - 1 :
         /\ p = [at |-> Base(t), used |-> p.used] /\ p.used \in Nat /\ p.used + CodeSize(bits) <= PageOf(bits)
         /\ \A i \in DOMAIN made : Tile(made[i].at) = t =>
               made[i].bits = bits /\ made[i].at + made[i].size <= Base(t) + p.used
  <2>1. CASE room[bits].at = 0 \/ PageOf(bits) - room[bits].used < SpaceKept(bits)
    <3>1. p = NewPage
      BY <2>1
    <3>2. PICK t \in 1 .. Half - 1 :
             NewPage = [at |-> Base(t), used |-> 0] /\ \A i \in DOMAIN made : Tile(made[i].at) # t
      BY TileIsFree
    <3> HIDE DEF p
    <3>3. p = [at |-> Base(t), used |-> p.used] /\ p.used = 0 /\ p.used \in Nat
      BY <3>1, <3>2
    <3>4. p.used + CodeSize(bits) <= PageOf(bits)
      BY <1>2, <3>3
    <3> QED
      BY <3>2, <3>3, <3>4
  <2>2. CASE ~(room[bits].at = 0 \/ PageOf(bits) - room[bits].used < SpaceKept(bits))
    <3>1. p = room[bits]
      BY <2>2
    <3>2. RoomInv(bits)
      BY DEF MissingInv
    <3>3. room[bits].used \in Nat /\ room[bits].used # Half /\ room[bits].used + CodeSize(bits) <= PageOf(bits)
      BY <1>2, <2>2, <3>2 DEF RoomInv
    <3>4. PICK t \in 1 .. Half - 1 :
             /\ room[bits].at = Base(t) /\ room[bits].used <= PageOf(bits)
             /\ \A i \in DOMAIN made : Tile(made[i].at) = t =>
                   made[i].bits = bits /\ made[i].at + made[i].size <= Base(t) + room[bits].used
      BY <3>2, <3>3 DEF RoomInv
    <3>5. room[bits] = [at |-> room[bits].at, used |-> room[bits].used]
      BY <3>2 DEF RoomInv
    <3> HIDE DEF p
    <3>6. p = [at |-> Base(t), used |-> p.used] /\ p.used \in Nat /\ p.used + CodeSize(bits) <= PageOf(bits)
      BY <3>1, <3>3, <3>4, <3>5
    <3> QED
      BY <3>1, <3>4, <3>6
  <2> QED
    BY <2>1, <2>2
<1> HIDE DEF p
<1>4. r.at = Base(t) /\ r.used = p.used + CodeSize(bits) /\ r.used \in Nat /\ r = [at |-> r.at, used |-> r.used]
  <2>1. r = [at |-> Base(t), used |-> p.used + CodeSize(bits)]
    BY <1>3
  <2> QED
    BY <1>2, <1>3, <2>1
<1>5. c.at = Base(t) + p.used /\ c.size = CodeSize(bits) /\ c.bits = bits
  BY <1>3
<1> HIDE DEF c, r
<1>6. InPage(c) /\ Tile(c.at) = t /\ Base(t) \in Nat
  BY <1>3, <1>5, CodeInPage
<1>7. ASSUME NEW i \in DOMAIN made PROVE Disjoint(made[i], c)
  <2>1. InPage(made[i])
    BY DEF MissingInv
  <2>2. CASE Tile(made[i].at) = t
    <3>1. made[i].at + made[i].size <= c.at
      BY <1>3, <1>5, <2>2
    <3> QED
      BY <3>1 DEF Disjoint
  <2>3. CASE Tile(made[i].at) # t
    BY <1>6, <2>1, <2>3, TilesApart
  <2> QED
    BY <2>2, <2>3
<1>8. ASSUME NEW i \in DOMAIN made, Tile(made[i].at) = t
      PROVE  made[i].bits = bits /\ made[i].at + made[i].size <= r.at + r.used
  <2>1. InPage(made[i]) /\ made[i].bits = bits /\ made[i].at + made[i].size <= Base(t) + p.used
    BY <1>3, <1>8 DEF MissingInv
  <2>2. made[i].at + made[i].size \in Nat
    BY <2>1 DEF InPage
  <2> QED
    BY <1>2, <1>3, <1>4, <1>6, <2>1, <2>2
<1>9. r.used <= PageOf(bits) /\ c.at + c.size <= r.at + r.used
  BY <1>2, <1>3, <1>4, <1>5, <1>6
<1>10. r \in [at : Nat, used : Nat]
  BY <1>4, <1>6
<1> QED
  BY <1>1, <1>4, <1>5, <1>6, <1>7, <1>8, <1>9, <1>10

(* What a lookup makes is nothing or the code for one entry.                *)
Made(new) == new = <<>> \/ \E bits \in {16, 32} : \E m, k : new = <<Trampoline(bits, m, k)>>

LEMMA GetProcMakes ==
    ASSUME NEW list, NEW module, NEW by, NEW key, NEW want16, NEW native,
           ~GetProc(list, module, by, key, want16, native).crash
    PROVE  Made(GetProc(list, module, by, key, want16, native).new)
<1> DEFINE t == Trampoline(IF want16 THEN 16 ELSE 32, module, key)
           p == GetProc(list, module, by, key, want16, native)
<1>1. (IF want16 THEN 16 ELSE 32) \in {16, 32}
  OBVIOUS
<1>2. Made(<<t>>) /\ Made(<<>>)
  BY <1>1 DEF Made
<1> HIDE DEF t
<1>3. p.new = <<>> \/ p.new = <<t>>
  BY DEF GetProc, t
<1> QED
  BY <1>2, <1>3

(* A fixup makes the code for one missing entry at most.                    *)
LEMMA FixMakes ==
    ASSUME NEW f, ~(IF image.lx THEN FixLx(f) ELSE FixNe(f)).crash
    PROVE  Made((IF image.lx THEN FixLx(f) ELSE FixNe(f)).new)
<1>1. Made(<<>>)
  BY DEF Made
<1>2. ASSUME image.lx PROVE Made(FixLx(f).new)
  <2> DEFINE p == GetProc(Library[f.of].exports, f.of, f.by, f.key, f.alias, TRUE)
  <2>1. ~FixLx(f).crash
    BY <1>2
  <2>2. CASE f.by = "object"
    <3>1. FixLx(f).new = <<>>
      BY <2>2 DEF FixLx
    <3> QED
      BY <1>1, <3>1
  <2>3. CASE f.by # "object"
    <3>1. FixLx(f).new = p.new /\ FixLx(f).crash = p.crash
      BY <2>3 DEF FixLx
    <3>2. ~p.crash
      BY <2>1, <3>1
    <3>3. Made(p.new)
      BY <3>2, GetProcMakes
    <3> QED
      BY <3>1, <3>3
  <2> QED
    BY <2>2, <2>3
<1>3. ASSUME ~image.lx PROVE Made(FixNe(f).new)
  <2>1. ~FixNe(f).crash
    BY <1>3
  <2>2. FixNe(f).new = NeTarget(f).new /\ FixNe(f).crash = NeTarget(f).crash
    BY DEF FixNe
  <2>3. CASE f.by = "segment"
    <3>1. NeTarget(f).new = <<>>
      BY <2>3 DEF NeTarget
    <3> QED
      BY <1>1, <2>2, <3>1
  <2>4. CASE f.by = "movable"
    <3> DEFINE own == [i \in DOMAIN exports |-> exports[i] @@ [aliased |-> TRUE, holds |-> 0]]
               p == GetProc(own, "self", "ordinal", f.key, TRUE, FALSE)
    <3>1. NeTarget(f) = p
      BY <2>4 DEF NeTarget
    <3> HIDE DEF own
    <3>2. ~p.crash
      BY <2>1, <2>2, <3>1
    <3>3. Made(p.new)
      BY <3>2, GetProcMakes
    <3> QED
      BY <2>2, <3>1, <3>3
  <2>5. CASE f.by # "segment" /\ f.by # "movable"
    <3> DEFINE p == GetProc(Library[f.of].exports, f.of, f.by, f.key, TRUE, TRUE)
    <3>1. NeTarget(f) = p
      BY <2>5 DEF NeTarget
    <3>2. ~p.crash
      BY <2>1, <2>2, <3>1
    <3>3. Made(p.new)
      BY <3>2, GetProcMakes
    <3> QED
      BY <2>2, <3>1, <3>3
  <2> QED
    BY <2>3, <2>4, <2>5
<1> QED
  BY <1>2, <1>3

(* The invariant with more code.                                            *)
LEMMA MadeMore ==
    ASSUME MissingInv, fixed < Len(image.fixups), NEW bits \in {16, 32}, NEW m, NEW k,
           made' = Append(made, Trampoline(bits, m, k).code),
           room' = [room EXCEPT ![bits] = Trampoline(bits, m, k).room],
           image' = image, fixed' = fixed + 1
    PROVE  MissingInv'
<1> DEFINE cc == Trampoline(bits, m, k).code
           rr == Trampoline(bits, m, k).room
           n == Len(made)
<1>0. /\ InPage(cc) /\ cc.bits = bits
      /\ \A i \in DOMAIN made : Disjoint(made[i], cc)
      /\ rr \in [at : Nat, used : Nat] /\ rr.used <= PageOf(bits)
      /\ rr.at = Base(Tile(cc.at)) /\ cc.at + cc.size <= rr.at + rr.used
      /\ \A i \in DOMAIN made : Tile(made[i].at) = Tile(cc.at) =>
            made[i].bits = bits /\ made[i].at + made[i].size <= rr.at + rr.used
  BY TrampolineIs
<1> HIDE DEF cc, rr
<1>1. PICK c, r :
         /\ c = cc /\ r = rr /\ InPage(c) /\ c.bits = bits
         /\ \A i \in DOMAIN made : Disjoint(made[i], c)
         /\ r \in [at : Nat, used : Nat] /\ r.used <= PageOf(bits)
         /\ r.at = Base(Tile(c.at)) /\ c.at + c.size <= r.at + r.used
         /\ \A i \in DOMAIN made : Tile(made[i].at) = Tile(c.at) =>
               made[i].bits = bits /\ made[i].at + made[i].size <= r.at + r.used
  BY <1>0
<1>2. n \in Nat /\ DOMAIN made = 1 .. n /\ fixed \in Nat /\ n <= fixed /\ made \in Seq(ToSet(made))
      /\ Len(image.fixups) \in Nat
  BY MissingAssumption DEF MissingInv
<1>3. /\ DOMAIN made' = 1 .. n + 1 /\ Len(made') = n + 1 /\ made'[n + 1] = c
      /\ \A i \in 1 .. n : made'[i] = made[i]
  <2> DEFINE S == ToSet(made) \cup {c}
  <2>1. made \in Seq(S) /\ c \in S
    BY <1>2
  <2>2. made' = Append(made, c)
    BY <1>1 DEF cc
  <2> HIDE DEF S
  <2> QED
    BY <1>2, <2>1, <2>2
<1>4. made' \in Seq(ToSet(made'))
  BY <1>2, <1>3 DEF ToSet
<1>5. \A i \in DOMAIN made' : InPage(made'[i])
  <2>1. \A i \in 1 .. n : InPage(made[i])
    BY <1>2 DEF MissingInv
  <2> QED
    BY <1>1, <1>2, <1>3, <2>1
<1>6. \A i, j \in DOMAIN made' : i # j => Disjoint(made'[i], made'[j])
  <2>1. \A i, j \in 1 .. n : i # j => Disjoint(made[i], made[j])
    BY <1>2 DEF MissingInv
  <2>2. \A i \in 1 .. n : Disjoint(made[i], c) /\ Disjoint(c, made[i])
    BY <1>1, <1>2 DEF Disjoint
  <2>3. \A i \in 1 .. n + 1 : i = n + 1 \/ i \in 1 .. n
    BY <1>2
  <2> QED
    BY <1>3, <2>1, <2>2, <2>3
<1>7. DOMAIN room' = {16, 32} /\ room'[bits] = r /\ \A b \in {16, 32} \ {bits} : room'[b] = room[b]
  BY <1>1 DEF MissingInv, rr
<1>8. RoomInv(bits)'
  <2>1. Tile(c.at) \in 1 .. Half - 1
    BY <1>1 DEF InPage
  <2>2. n + 1 \in DOMAIN made' /\ Tile(made'[n + 1].at) = Tile(c.at)
    BY <1>2, <1>3
  <2>3. \A i \in DOMAIN made' : Tile(made'[i].at) = Tile(c.at) =>
           made'[i].bits = bits /\ made'[i].at + made'[i].size <= Base(Tile(c.at)) + r.used
    BY <1>1, <1>2, <1>3
  <2> QED
    BY <1>1, <1>7, <2>1, <2>2, <2>3 DEF RoomInv
<1>9. ASSUME NEW b \in {16, 32}, b # bits PROVE RoomInv(b)'
  <2>1. RoomInv(b) /\ room'[b] = room[b]
    BY <1>7, <1>9 DEF MissingInv
  <2>2. CASE room[b].used = Half
    BY <2>1, <2>2 DEF RoomInv
  <2>3. CASE room[b].used # Half
    <3>1. PICK t \in 1 .. Half - 1 :
             /\ room[b].at = Base(t) /\ room[b].used <= PageOf(b)
             /\ \E i \in DOMAIN made : Tile(made[i].at) = t
             /\ \A i \in DOMAIN made : Tile(made[i].at) = t =>
                   made[i].bits = b /\ made[i].at + made[i].size <= Base(t) + room[b].used
      BY <2>1, <2>3 DEF RoomInv
    <3>2. Tile(c.at) # t
      BY <1>1, <1>9, <3>1
    <3>3. \E i \in DOMAIN made' : Tile(made'[i].at) = t
      BY <1>2, <1>3, <3>1
    <3>4. \A i \in DOMAIN made' : Tile(made'[i].at) = t =>
             made'[i].bits = b /\ made'[i].at + made'[i].size <= Base(t) + room[b].used
      <4>1. \A i \in 1 .. n + 1 : i = n + 1 \/ i \in 1 .. n
        BY <1>2
      <4> QED
        BY <1>2, <1>3, <3>1, <3>2, <4>1
    <3> QED
      BY <2>1, <3>1, <3>3, <3>4 DEF RoomInv
  <2> QED
    BY <2>2, <2>3
<1>10. image' \in Images /\ fixed' \in 0 .. Len(image'.fixups) /\ Len(made') <= fixed'
  BY <1>2, <1>3 DEF MissingInv
<1> QED
  BY <1>4, <1>5, <1>6, <1>7, <1>8, <1>9, <1>10 DEF MissingInv

(* A fixup, with what it makes.                                             *)
LEMMA FixupKeeps == ASSUME MissingInv, Fixup PROVE MissingInv'
<1> DEFINE f == image.fixups[fixed + 1]
           r == IF image.lx THEN FixLx(f) ELSE FixNe(f)
<1>1. fixed < Len(image.fixups) /\ image' = image
  BY DEF Fixup
<1>2. CASE r.crash
  BY <1>1, <1>2 DEF Fixup, MissingInv, RoomInv
<1>3. CASE ~r.crash
  <2>1. /\ made' = made \o [i \in DOMAIN r.new |-> r.new[i].code]
        /\ room' = IF r.new = <<>> THEN room ELSE [room EXCEPT ![r.new[1].code.bits] = r.new[1].room]
        /\ fixed' = fixed + 1
    BY <1>3 DEF Fixup
  <2>2. fixed' = fixed + 1
    BY <2>1
  <2>3. Made(r.new)
    BY <1>3, FixMakes
  <2>4. made \in Seq(ToSet(made)) /\ Len(image.fixups) \in Nat /\ fixed \in Nat
    BY MissingAssumption DEF MissingInv
  <2> DEFINE new == r.new
  <2>5. /\ made' = made \o [i \in DOMAIN new |-> new[i].code]
        /\ room' = IF new = <<>> THEN room ELSE [room EXCEPT ![new[1].code.bits] = new[1].room]
    BY <2>1
  <2> HIDE DEF new
  <2>6. CASE new = <<>>
    <3>1. [i \in DOMAIN new |-> new[i].code] = <<>>
      BY <2>6
    <3>2. made' = made
      BY <2>4, <2>5, <3>1
    <3>3. room' = room
      BY <2>5, <2>6
    <3>4. \A bits \in {16, 32} : RoomInv(bits)'
      BY <3>2, <3>3 DEF MissingInv, RoomInv
    <3>5. fixed' \in 0 .. Len(image'.fixups) /\ Len(made') <= fixed'
      <4>1. Len(made) \in Nat /\ Len(made) <= fixed
        BY <2>4 DEF MissingInv
      <4>2. Len(image'.fixups) = Len(image.fixups)
        BY <1>1
      <4> DEFINE l == Len(image.fixups)
      <4>3. l \in Nat /\ fixed < l /\ Len(image'.fixups) = l
        BY <1>1, <2>4, <4>2
      <4> HIDE DEF l
      <4>4. fixed' \in 0 .. l
        BY <2>4, <2>2, <4>3
      <4>5. Len(made') = Len(made)
        BY <3>2
      <4>6. Len(made') <= fixed'
        BY <2>4, <2>2, <4>1, <4>5
      <4> QED
        BY <4>3, <4>4, <4>6
    <3> QED
      BY <1>1, <3>2, <3>3, <3>4, <3>5 DEF MissingInv
  <2>7. CASE new # <<>>
    <3>0. PICK bits \in {16, 32} : \E m, k : new = <<Trampoline(bits, m, k)>>
      BY <2>3, <2>7 DEF Made, new
    <3>1. PICK m, k : new = <<Trampoline(bits, m, k)>>
      BY <3>0
    <3> DEFINE t == Trampoline(bits, m, k)
    <3>2. t.code.bits = bits
      BY DEF Trampoline
    <3>3. new = <<t>>
      BY <3>1
    <3> HIDE DEF t
    <3>4. new[1] = t /\ DOMAIN new = {1}
      BY <3>3
    <3>5. [i \in DOMAIN new |-> new[i].code] = <<t.code>>
      BY <3>4
    <3>6. made' = Append(made, t.code)
      <4> DEFINE S == ToSet(made) \cup {t.code}
      <4>1. made \in Seq(S) /\ t.code \in S
        BY <2>4
      <4> HIDE DEF S
      <4> QED
        BY <2>5, <3>5, <4>1
    <3>7. room' = [room EXCEPT ![bits] = t.room]
      BY <2>5, <2>7, <3>2, <3>4
    <3>8. /\ made' = Append(made, Trampoline(bits, m, k).code)
          /\ room' = [room EXCEPT ![bits] = Trampoline(bits, m, k).room]
      BY <3>6, <3>7 DEF t
    <3> QED
      BY <1>1, <2>2, <3>8, MadeMore
  <2> QED
    BY <2>6, <2>7
<1> QED
  BY <1>2, <1>3

(* No other step makes code.                                                *)
LEMMA MissingStep == ASSUME MissingInv, [ImgNext]_imgVars PROVE MissingInv'
<1>1. CASE Fixup
  BY <1>1, FixupKeeps
<1>2. CASE ~Fixup
  <2>1. UNCHANGED <<image, made, room, fixed>>
    BY <1>2 DEF ImgNext, LoadPart, SetUpExports, ImageLoaded, imgVars
  <2>2. \A bits \in {16, 32} : RoomInv(bits)'
    BY <2>1 DEF MissingInv, RoomInv
  <2> QED
    BY <2>1, <2>2 DEF MissingInv
<1> QED
  BY <1>1, <1>2

(* There is none at first.                                                  *)
LEMMA MissingInit == ASSUME ImgInit PROVE MissingInv
<1>1. /\ image \in Images /\ fixed = 0 /\ made = <<>>
      /\ room = [bits \in {16, 32} |-> [at |-> 0, used |-> Half]]
  BY DEF ImgInit
<1>2. Len(image.fixups) \in Nat
  BY <1>1, MissingAssumption
<1>3. made \in Seq(ToSet(made)) /\ Len(made) = 0 /\ DOMAIN made = {}
  BY <1>1
<1>4. \A bits \in {16, 32} : RoomInv(bits)
  BY <1>1, HalfIs DEF RoomInv
<1> QED
  BY <1>1, <1>2, <1>3, <1>4 DEF MissingInv

(* 16-bit code for a missing entry leads into the loader, with its          *)
(* selectors and on the stack of the program.                               *)
LEMMA RunsInTheLoader ==
    ASSUME NEW host \in Hosts, NEW c, NEW t \in 1 .. Half - 1, NEW sp \in Nat
    PROVE  LET r == RunTrampoline(host, c, SegmentOf[t], sp) IN
           /\ [cs |-> r.cs, ss |-> r.ss, ds |-> r.ds, es |-> r.es] = host
           /\ r.esp = Base(t) + sp
           /\ r.names = <<c.module, c.entry>>
<1>1. host = [cs |-> host.cs, ss |-> host.ss, ds |-> host.ds, es |-> host.es]
  BY ImageAssumption
<1>2. t \in 0 .. Half - 1 /\ DOMAIN SegmentOf = 0 .. Half - 1
  BY HalfIs, ImageAssumption
<1>3. TileOf(SegmentOf[t]) = t
  BY <1>2, ImageAssumption DEF TileOf
<1> QED
  BY <1>1, <1>3 DEF RunTrampoline

(* The invariant says what the property asks for.                           *)
LEMMA MissingInvIsEnough == ASSUME MissingInv PROVE MissingEntriesAreReported
<1>1. ASSUME NEW i \in DOMAIN made
      PROVE  (made[i].at % Half) + made[i].size <= PageOf(made[i].bits)
  <2> DEFINE a == made[i].at
             t == Tile(a)
             o == a % Half
             p == PageOf(made[i].bits)
  <2>1. InPage(made[i]) /\ Half \in Nat
    BY HalfIs DEF MissingInv
  <2>2. a \in Nat /\ made[i].size \in Nat /\ t \in Nat /\ Base(t) <= a /\ a + made[i].size <= Base(t) + p
    BY <2>1 DEF InPage
  <2>3. p \in Nat /\ p <= Half
    BY <2>1, PageFits DEF InPage
  <2>4. Base(t) \in Nat
    BY <2>1, <2>2, HalfIs, TileIs
  <2>5. o \in Nat /\ o < Half /\ a = Base(t) + o
    <3> HIDE DEF a
    <3>1. a \in Nat /\ Half \in Nat /\ Half > 0
      BY <2>2, HalfIs
    <3>2. o \in Nat /\ o < Half /\ a = (a \div Half) * Half + o
      BY <3>1
    <3> QED
      BY <3>2, Zenon DEF Tile, Base
  <2> DEFINE b == Base(t)
  <2>6. b \in Nat /\ a = b + o /\ a + made[i].size <= b + p
    BY <2>2, <2>4, <2>5
  <2> HIDE DEF a, t, p, o, b
  <2>7. o + made[i].size <= p
    BY <2>2, <2>3, <2>5, <2>6
  <2> QED
    BY <2>7 DEF a, p, o
<1>2. StubsAreWhole
  BY <1>1 DEF StubsAreWhole, MissingInv, Disjoint
<1>3. MissingEntryIsReported
  <2> SUFFICES ASSUME NEW i \in DOMAIN made, NEW host \in Hosts, NEW t \in 1 .. Half - 1,
                      NEW sp \in 0 .. Half - 1
               PROVE  LET r == RunTrampoline(host, made[i], SegmentOf[t], sp) IN
                      /\ [cs |-> r.cs, ss |-> r.ss, ds |-> r.ds, es |-> r.es] = host
                      /\ r.esp = Base(t) + sp
                      /\ r.names = <<made[i].module, made[i].entry>>
    BY DEF MissingEntryIsReported
  <2>1. sp \in Nat
    BY HalfIs
  <2> QED
    BY <2>1, RunsInTheLoader
<1> QED
  BY <1>2, <1>3 DEF MissingEntriesAreReported

(* Every missing entry a program calls is reported under its own name: the  *)
(* code made for two of them never overlaps and stays in its page           *)
(* (generateMissingTrampoline, generateMissingTrampoline16).                *)
THEOREM MissingAreReported == ImgSpec => []MissingEntriesAreReported
<1>1. ImgInit => MissingInv
  BY MissingInit
<1>2. MissingInv /\ [ImgNext]_imgVars => MissingInv'
  BY MissingStep
<1>3. MissingInv => MissingEntriesAreReported
  BY MissingInvIsEnough
<1> QED
  BY <1>1, <1>2, <1>3, PTL DEF ImgSpec
=============================================================================
