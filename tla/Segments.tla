------------------------------ MODULE Segments ------------------------------
(***************************************************************************)
(* 16-bit segments: the LDT of lx_loader.c with the selectors handed out    *)
(* for addresses, the 64k segments of lxAllocSegment, and Dos16AllocSeg,    *)
(* Dos16AllocHuge and Dos16FreeSeg of native/doscalls.c.                    *)
(*                                                                          *)
(* Memory is counted in tiles of 64k; an LDT entry covers the tile it holds.*)
(* Nothing here takes a lock: another thread may come in between the mmap   *)
(* of lxAllocSegment and the rest of it (`overlapped`); a search of the LDT *)
(* with the entry it makes is one step.  Whether a selector is for code or  *)
(* for data is left out, and so are the system calls' refusals of an entry. *)
(***************************************************************************)
EXTENDS Integers, FiniteSets, FiniteSetsExt

CONSTANTS Thread,     \* the threads of the program
          NumSlots,   \* LX_MAX_LDT_SLOTS
          FirstTile,  \* where lxAllocSegment starts
          LastTile,   \* bound on how far it gets
          Stack,      \* tiles of the main thread's stack
          Piece,      \* other memory: [tile, kind], kind "object" for an object of a
                      \* library that needs an alias, "memory" for the rest
          HugeSizes,  \* segments in a huge block
          MaxPointers \* bound on the pointers the program has

ASSUME SegmentsAssumption ==
    /\ NumSlots \in Nat /\ FirstTile \in Nat \ {0} /\ LastTile \in Nat
    /\ FirstTile <= NumSlots /\ FirstTile <= LastTile
    /\ Stack \subseteq 1 .. FirstTile - 1
    /\ Piece \subseteq [tile : Nat \ {0}, kind : {"object", "memory"}]
    /\ HugeSizes \subseteq Nat \ {0}

VARIABLES ldt,        \* slot -> tile, 0 for none
          base,       \* the next tile of lxAllocSegment
          mapped,     \* tiles that are segments of lxAllocSegment
          pieces,     \* the other memory there is
          alias,      \* piece -> the slot it was given when it was loaded
          huge_block_segs,
          held,       \* blocks the program has: [first, segs, tile]
          alloc,      \* thread -> where it is in an allocation
          pointers,   \* 16:16 pointers the program was given: [slot, to]
          overlapped, \* two threads were inside lxAllocSegment at once
          outOfSlots  \* assert(*selector != 0xFFFF) failed

segVars == <<ldt, base, mapped, pieces, alias, huge_block_segs, held, alloc, pointers,
             overlapped, outOfSlots>>

Slot == 0 .. NumSlots - 1
None == -1
Quiet == [pc |-> "out"]
InAlloc(t, pc) == ~outOfSlots /\ alloc[t].pc = pc
Segment(tile) == [tile |-> tile, kind |-> "segment"]

(* initOs2StackSegments tiles the stack before anything else has a selector.*)
SegInit ==
    /\ ldt = [s \in Slot |-> IF s \in Stack THEN s ELSE 0]
    /\ base = FirstTile
    /\ mapped = {} /\ pieces = {}
    /\ alias = [p \in Piece |-> None]
    /\ huge_block_segs = [s \in Slot |-> 0]
    /\ held = {}
    /\ alloc = [t \in Thread |-> Quiet]
    /\ pointers = {}
    /\ overlapped = FALSE /\ outOfSlots = FALSE

-----------------------------------------------------------------------------
(* lxFindSelector: the slot that covers the tile, else the slot of the same *)
(* number, else the last free one.                                          *)
FindSelector(tile) ==
    LET covering == {s \in Slot : ldt[s] = tile}
        free     == {s \in Slot : ldt[s] = 0}
    IN  IF covering # {} THEN IF tile \in covering THEN tile ELSE Min(covering)
        ELSE IF tile \in free THEN tile
        ELSE IF free # {} THEN Max(free) ELSE None

(* lxFreeSegment, of each of some slots: the memory goes and the entry too. *)
FreeSegments(slots) ==
    /\ ldt' = [s \in Slot |-> IF s \in slots THEN 0 ELSE ldt[s]]
    /\ mapped' = mapped \ {ldt[s] : s \in slots}
    /\ pointers' = {p \in pointers : p.to \notin {Segment(ldt[s]) : s \in slots}}

-----------------------------------------------------------------------------
(* Dos16AllocSeg and Dos16AllocHuge.                                        *)
Begin(t, segs, huge) ==
    /\ InAlloc(t, "out")
    /\ alloc' = [alloc EXCEPT ![t] = [pc |-> "map", segs |-> segs, huge |-> huge,
                                      got |-> 0, first |-> None, tile |-> 0, at |-> 0]]
    /\ UNCHANGED <<ldt, base, mapped, pieces, alias, huge_block_segs, held, pointers, overlapped, outOfSlots>>

DosAllocSeg(t)  == Begin(t, 1, FALSE)
DosAllocHuge(t) == \E segs \in HugeSizes : Begin(t, segs, TRUE)

Before(a) == {a.first + j : j \in 0 .. a.got - 1}

(* The mmap of lxAllocSegment, at a fixed address; the first tile of the    *)
(* block is remembered.                                                     *)
MapSegment(t) ==
    LET a == alloc[t] IN
    /\ InAlloc(t, "map") /\ base <= LastTile
    /\ mapped' = mapped \cup {base}
    /\ alloc' = [alloc EXCEPT ![t] = [a EXCEPT !.pc = "take", !.at = base,
                                                 !.tile = IF a.got = 0 THEN base ELSE @]]
    /\ overlapped' = (overlapped \/ \E u \in Thread \ {t} : alloc[u].pc = "take")
    /\ UNCHANGED <<ldt, base, pieces, alias, huge_block_segs, held, pointers, outOfSlots>>

(* The mmap fails: what there is of the block goes.                         *)
MapFails(t) ==
    /\ InAlloc(t, "map")
    /\ FreeSegments(Before(alloc[t]))
    /\ alloc' = [alloc EXCEPT ![t] = Quiet]
    /\ UNCHANGED <<base, pieces, alias, huge_block_segs, held, overlapped, outOfSlots>>

(* The rest of lxAllocSegment, and what its caller makes of the slot: more, *)
(* the whole block, or nothing when the slot is not the one that follows.   *)
TakeAnySlot(t) ==
    LET a    == alloc[t]
        tile == a.at
        slot == FindSelector(tile)
        b    == [a EXCEPT !.got = @ + 1, !.first = IF a.got = 0 THEN slot ELSE @, !.pc = "map"]
    IN  /\ InAlloc(t, "take")
        /\ base' = base + 1
        /\ IF slot = None
           THEN outOfSlots' = TRUE /\ UNCHANGED <<ldt, alloc, huge_block_segs, held>>
           ELSE /\ ldt' = [ldt EXCEPT ![slot] = tile]
                /\ IF b.got < b.segs
                   THEN alloc' = [alloc EXCEPT ![t] = b] /\ UNCHANGED <<huge_block_segs, held>>
                   ELSE /\ alloc' = [alloc EXCEPT ![t] = Quiet]
                        /\ huge_block_segs' = IF a.huge THEN [huge_block_segs EXCEPT ![b.first] = a.segs]
                                              ELSE huge_block_segs
                        /\ held' = held \cup {[first |-> b.first, segs |-> a.segs, tile |-> a.tile]}
                /\ UNCHANGED outOfSlots
        /\ UNCHANGED <<mapped, pieces, alias, pointers, overlapped>>

TakeSelector(t) ==
    LET a    == alloc[t]
        tile == a.at
        slot == FindSelector(tile)
        b    == [a EXCEPT !.got = @ + 1, !.first = IF a.got = 0 THEN slot ELSE @, !.pc = "map"]
        done == b.got = b.segs
    IN  /\ InAlloc(t, "take")
        /\ base' = base + 1
        /\ CASE slot = None ->
                  outOfSlots' = TRUE
                  /\ UNCHANGED <<ldt, mapped, alloc, huge_block_segs, held, pointers>>
             [] slot # None /\ a.got > 0 /\ slot # a.first + a.got ->
                  /\ ldt' = [s \in Slot |-> IF s \in Before(a) \cup {slot} THEN 0 ELSE ldt[s]]
                  /\ mapped' = mapped \ ({tile} \cup {ldt[s] : s \in Before(a)})
                  /\ pointers' = {p \in pointers : p.to \notin {Segment(ldt[s]) : s \in Before(a)}}
                  /\ alloc' = [alloc EXCEPT ![t] = Quiet]
                  /\ UNCHANGED <<huge_block_segs, held, outOfSlots>>
             [] OTHER ->
                  /\ ldt' = [ldt EXCEPT ![slot] = tile]
                  /\ alloc' = [alloc EXCEPT ![t] = IF done THEN Quiet ELSE b]
                  /\ huge_block_segs' = IF done /\ a.huge
                                        THEN [huge_block_segs EXCEPT ![b.first] = a.segs]
                                        ELSE huge_block_segs
                  /\ held' = IF done THEN held \cup {[first |-> b.first, segs |-> a.segs, tile |-> a.tile]}
                             ELSE held
                  /\ UNCHANGED <<mapped, pointers, outOfSlots>>
        /\ UNCHANGED <<pieces, alias, overlapped>>

(* Dos16FreeSeg, of what the program was given: all of a huge block.        *)
DosFreeSeg(t) == \E h \in held :
    LET segs == huge_block_segs[h.first] IN
    /\ InAlloc(t, "out")
    /\ FreeSegments(IF segs # 0 THEN h.first .. h.first + segs - 1 ELSE {h.first})
    /\ huge_block_segs' = [huge_block_segs EXCEPT ![h.first] = 0]
    /\ held' = held \ {h}
    /\ UNCHANGED <<base, pieces, alias, alloc, overlapped, outOfSlots>>

-----------------------------------------------------------------------------
TilesHeld == UNION {h.tile .. h.tile + h.segs - 1 : h \in held}

(* lxConvert32to1616 of an address in a segment, in the stack or in other   *)
(* memory; without a slot it answers 0.                                     *)
Convert32to1616(t) ==
    \E to \in {Segment(tile) : tile \in TilesHeld} \cup pieces
              \cup [tile : Stack, kind : {"stack"}] :
        LET slot == FindSelector(to.tile) IN
        /\ InAlloc(t, "out") /\ Cardinality(pointers) < MaxPointers
        /\ slot # None
        /\ ldt' = [ldt EXCEPT ![slot] = to.tile]
        /\ pointers' = pointers \cup {[slot |-> slot, to |-> to]}
        /\ UNCHANGED <<base, mapped, pieces, alias, huge_block_segs, held, alloc, overlapped, outOfSlots>>

NeedsAlias(p) == p.kind = "object"

(* Memory comes: from DosAllocMem, or with a library, whose objects may     *)
(* need an alias; the library fails to load when no slot is left for it.    *)
GetMemory(t) == \E p \in Piece \ pieces :
    LET slot == FindSelector(p.tile) IN
    /\ InAlloc(t, "out")
    /\ NeedsAlias(p) => slot # None
    /\ pieces' = pieces \cup {p}
    /\ alias' = IF NeedsAlias(p) THEN [alias EXCEPT ![p] = slot] ELSE alias
    /\ ldt' = IF NeedsAlias(p) THEN [ldt EXCEPT ![slot] = p.tile] ELSE ldt
    /\ UNCHANGED <<base, mapped, huge_block_segs, held, alloc, pointers, overlapped, outOfSlots>>

(* Memory goes: freeLxModule gives up the selector of the object with it.   *)
LoseMemory(t) == \E p \in pieces :
    /\ InAlloc(t, "out")
    /\ pieces' = pieces \ {p}
    /\ alias' = [alias EXCEPT ![p] = None]
    /\ ldt' = IF NeedsAlias(p) THEN [ldt EXCEPT ![alias[p]] = 0] ELSE ldt
    /\ pointers' = {q \in pointers : q.to # p}
    /\ UNCHANGED <<base, mapped, huge_block_segs, held, alloc, overlapped, outOfSlots>>

SegNext == \E t \in Thread :
    \/ DosAllocSeg(t) \/ DosAllocHuge(t) \/ MapSegment(t) \/ MapFails(t) \/ TakeSelector(t)
    \/ DosFreeSeg(t) \/ Convert32to1616(t) \/ GetMemory(t) \/ LoseMemory(t)

SegSpec == SegInit /\ [][SegNext]_segVars

-----------------------------------------------------------------------------
(* A huge block is one run of tiles under one run of selectors, whatever    *)
(* other threads allocated in between ("Enforce it; a gap would corrupt the *)
(* flat pointer model"), unless two threads met inside lxAllocSegment.      *)
HugeIsContiguous ==
    ~overlapped => \A h \in held : \A j \in 0 .. h.segs - 1 :
        ldt[h.first + j] = h.tile + j /\ h.tile + j \in mapped

(* When no allocation is under way, the memory of segments is that of the   *)
(* blocks the program has: a huge block that failed half-way, or was freed, *)
(* leaves nothing behind.                                                   *)
NoSegmentLeaks ==
    ~overlapped /\ (\A t \in Thread : alloc[t].pc = "out") =>
        mapped = TilesHeld

(* A 16:16 pointer converts back to the address it was made for as long as  *)
(* the memory there lives, while no two pieces of memory share a tile.      *)
PointersStayGood == ~overlapped => \A p \in pointers : ldt[p.slot] = p.to.tile

(* Blocks are whole, none is lost, and pointers into them stay good.        *)
SegmentsAreSound == HugeIsContiguous /\ NoSegmentLeaks /\ PointersStayGood

=============================================================================
