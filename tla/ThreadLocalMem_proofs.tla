------------------------ MODULE ThreadLocalMem_proofs ------------------------
(***************************************************************************)
(* The TLS allocator for any number of slots, any block size and any        *)
(* program: its two records always agree, and, as long as the program never *)
(* asks for a block of no slots, no assertion of the code fails.  As long   *)
(* as it touches the page in the forms the fault handler decodes, every     *)
(* thread finds in a block what it stored there.                            *)
(***************************************************************************)
EXTENDS ThreadLocalMem, TLAPS

(* The three opcodes with the address in one register, and no other         *)
(* encoding of them, have the length the handler adds to EIP; with these it *)
(* finds the register and the immediate value.                              *)
LEMMA PlainFormsAreDecoded ==
    ASSUME NEW i \in Instructions, i.op # "other"
    PROVE  /\ i \in Decoded <=> Length(i) = Advance(i)
           /\ i \in Decoded => RegisterFound(i) /\ \A v : Stored(i, v) = {v}
<1>1. /\ i \in [op : {"imm", "store", "load"}, form : Form]
      /\ i.op \in {"imm", "store", "load"} /\ i.form \in Form
  BY InstructionsAssumption DEF Instruction
<1>2. i \in Decoded <=> i.form = "plain"
  BY <1>1 DEF Decoded
<1>3. /\ i.form = "plain" => Displacement(i.form) = 0
      /\ i.form # "plain" => Displacement(i.form) \in {1, 4}
  BY <1>1 DEF Displacement, Form
<1>4. Length(i) = Advance(i) <=> i.form = "plain"
  BY <1>1, <1>3 DEF Length, Advance
<1> QED
  BY <1>2, <1>4 DEF RegisterFound, Stored

(* Every variable of the allocator and of the fault handler keeps its type. *)
THEOREM TypeCorrect == TlsSpec => []TlsTypeOK
<1>1. TlsInit => TlsTypeOK
  <2> SUFFICES ASSUME TlsInit PROVE TlsTypeOK
    OBVIOUS
  <2>1. /\ tlspage \in BOOLEAN /\ watch \in Cell \cup {Nothing} /\ rc \in ResultCode
        /\ got \in Value \cup {Nothing} /\ insn \in Instructions \cup {Nothing}
    BY DEF TlsInit, ResultCode
  <2>2. tlsallocs \in [TlsSlot -> 0 .. MaxBlock]
    BY BlockAssumption DEF TlsInit
  <2>3. tls \in [TlsThread -> [TlsSlot -> Value]]
    BY ValueAssumption DEF TlsInit
  <2> QED
    BY <2>1, <2>2, <2>3 DEF TlsInit, TlsTypeOK
<1>2. TlsTypeOK /\ [TlsNext]_tlsVars => TlsTypeOK'
  <2> SUFFICES ASSUME TlsTypeOK, [TlsNext]_tlsVars PROVE TlsTypeOK'
    OBVIOUS
  <2>1. CASE UNCHANGED tlsVars
    BY <2>1 DEF TlsTypeOK, tlsVars
  <2>2. ASSUME NEW cb \in Sizes, DosAllocThreadLocalMemory(cb) PROVE TlsTypeOK'
    <3>1. cb \in Nat
      BY SizesAssumption
    <3>2. CASE AllocTooLarge(cb)
      BY <3>2 DEF AllocTooLarge, handlerVars, TlsTypeOK, ResultCode
    <3>3. CASE AllocPageFails(cb)
      BY <3>3 DEF AllocPageFails, handlerVars, TlsTypeOK, ResultCode
    <3>4. CASE AllocFull(cb)
      BY <3>4 DEF AllocFull, handlerVars, TlsTypeOK, ResultCode
    <3>5. ASSUME NEW i \in TlsSlot, AllocAt(i, cb) PROVE TlsTypeOK'
      <4>1. cb \in 0 .. MaxBlock /\ <<i, cb>> \in Block
        BY <3>1, <3>5, BlockAssumption DEF AllocAt, Block
      <4>2. Mask(i, cb) \subseteq TlsSlot
        BY DEF Mask
      <4> QED
        BY <3>5, <4>1, <4>2 DEF AllocAt, handlerVars, TlsTypeOK, ResultCode
    <3> QED
      BY <2>2, <3>2, <3>3, <3>4, <3>5 DEF DosAllocThreadLocalMemory
  <2>3. ASSUME NEW slot \in 0 .. TlsSlots, DosFreeThreadLocalMemory(slot) PROVE TlsTypeOK'
    BY <2>3, BlockAssumption DEF DosFreeThreadLocalMemory, handlerVars, TlsTypeOK, ResultCode
  <2>4. ASSUME NEW t \in TlsThread, NEW b \in blocks, NEW o \in 0 .. MaxBlock - 1,
               NEW i \in Instructions, Access(t, b, o, i)
        PROVE  TlsTypeOK'
    <3>1. b[1] \in TlsSlot
      BY DEF TlsTypeOK, Block
    <3>2. ASSUME OnThePage(b, o) PROVE b[1] + o \in TlsSlot
      BY <3>1, <3>2, SlotsAssumption, BlockAssumption DEF TlsSlot, OnThePage
    <3>3. ASSUME Resume(i)
          PROVE  /\ halted' \in {"no", "assert", "fault", "abort", "astray"}
                 /\ insn' \in Instructions \cup {Nothing}
      BY <3>3 DEF Resume, TlsTypeOK
    <3>4. ASSUME NEW v \in Value, TlsStore(t, b, o, i, v) PROVE TlsTypeOK'
      <4>1. PICK w \in Stored(i, v) : tls' = [tls EXCEPT ![t][b[1] + o] = w]
        BY <3>4 DEF TlsStore
      <4>2. w \in Value
        BY DEF Stored
      <4>3. tls' \in [TlsThread -> [TlsSlot -> Value]]
        BY <3>2, <3>4, <4>1, <4>2 DEF TlsStore, TlsTypeOK
      <4>4. watch' \in Cell \cup {Nothing} /\ got' \in Value \cup {Nothing}
        BY <3>1, <3>4 DEF TlsStore, TlsTypeOK, Cell
      <4>5. Resume(i) /\ UNCHANGED callVars
        BY <3>4 DEF TlsStore
      <4> QED
        BY <3>3, <4>3, <4>4, <4>5 DEF callVars, TlsTypeOK
    <3>5. CASE TlsLoad(t, b, o, i)
      <4>1. got' \in Value \cup {Nothing}
        BY <3>2, <3>5 DEF TlsLoad, TlsTypeOK
      <4>2. Resume(i) /\ UNCHANGED <<callVars, tls, watch>>
        BY <3>5 DEF TlsLoad
      <4> QED
        BY <3>3, <4>1, <4>2 DEF callVars, TlsTypeOK
    <3>6. CASE Unhandled(b, o, i)
      BY <3>6 DEF Unhandled, callVars, TlsTypeOK
    <3> QED
      BY <2>4, <3>4, <3>5, <3>6 DEF Access
  <2>5. ASSUME NEW b \in blocks, NEW o \in 0 .. MaxBlock - 1, OffThePage(b, o) PROVE TlsTypeOK'
    BY <2>5 DEF OffThePage, callVars, TlsTypeOK
  <2> QED
    BY <2>1, <2>2, <2>3, <2>4, <2>5 DEF TlsNext
<1> QED
  BY <1>1, <1>2, PTL DEF TlsSpec

(* The mask of no slots is empty, and any other mask holds its first slot.  *)
LEMMA MaskFacts ==
    ASSUME NEW i \in TlsSlot
    PROVE  /\ Mask(i, 0) = {}
           /\ \A n \in Nat \ {0} : i \in Mask(i, n)
  BY SlotsAssumption DEF Mask, TlsSlot

(* The records after a block of cb slots is entered at a free place i. *)
LEMMA AllocKeepsBookkeeping ==
    ASSUME TlsTypeOK, BookkeepingAgrees, NEW cb \in Sizes, NEW i \in TlsSlot, AllocAt(i, cb)
    PROVE  BookkeepingAgrees'
<1>1. CASE tlsallocs[i] # 0
  BY <1>1 DEF AllocAt, BookkeepingAgrees, MaskIsUnionOfBlocks, BlocksDisjoint, Mask
<1>2. CASE tlsallocs[i] = 0
  <2>1. /\ tlsallocs' = [tlsallocs EXCEPT ![i] = cb]
        /\ tlsmask' = tlsmask \cup Mask(i, cb)
        /\ Mask(i, cb) \cap tlsmask = {}
    BY <1>2 DEF AllocAt, Fits
  <2>2. \A j \in TlsSlot : tlsallocs'[j] = IF j = i THEN cb ELSE tlsallocs[j]
    BY <2>1 DEF TlsTypeOK
  <2>3. \A j \in TlsSlot : Mask(j, tlsallocs[j]) \subseteq tlsmask
    BY DEF BookkeepingAgrees, MaskIsUnionOfBlocks
  <2>4. Mask(i, tlsallocs[i]) = {}
    BY <1>2, MaskFacts
  <2>5. MaskIsUnionOfBlocks'
    <3>1. tlsmask' \subseteq UNION {Mask(j, tlsallocs'[j]) : j \in TlsSlot}
      BY <2>1, <2>2, <2>4 DEF BookkeepingAgrees, MaskIsUnionOfBlocks
    <3>2. \A j \in TlsSlot : Mask(j, tlsallocs'[j]) \subseteq tlsmask'
      BY <2>1, <2>2, <2>3
    <3> QED
      BY <3>1, <3>2 DEF MaskIsUnionOfBlocks, Mask, TlsSlot
  <2>6. BlocksDisjoint'
    <3>1. ASSUME NEW j \in TlsSlot, NEW k \in TlsSlot, j # k
          PROVE  Mask(j, tlsallocs'[j]) \cap Mask(k, tlsallocs'[k]) = {}
      <4>1. CASE j = i
        BY <4>1, <3>1, <2>1, <2>2, <2>3
      <4>2. CASE k = i
        BY <4>2, <3>1, <2>1, <2>2, <2>3
      <4>3. CASE j # i /\ k # i
        BY <4>3, <3>1, <2>2 DEF BookkeepingAgrees, BlocksDisjoint
      <4> QED
        BY <4>1, <4>2, <4>3
    <3> QED
      BY <3>1 DEF BlocksDisjoint, Mask, TlsSlot
  <2> QED
    BY <2>5, <2>6 DEF BookkeepingAgrees
<1> QED
  BY <1>1, <1>2

(* The records after a block is freed: only its own slots become free,      *)
(* because no other block shares one of them.                               *)
LEMMA FreeKeepsBookkeeping ==
    ASSUME TlsTypeOK, BookkeepingAgrees, NEW slot \in 0 .. TlsSlots,
           DosFreeThreadLocalMemory(slot)
    PROVE  BookkeepingAgrees'
<1>1. CASE ~(tlspage /\ slot \in TlsSlot /\ tlsallocs[slot] > 0)
  BY <1>1 DEF DosFreeThreadLocalMemory, BookkeepingAgrees, MaskIsUnionOfBlocks,
              BlocksDisjoint, Mask
<1>2. CASE tlspage /\ slot \in TlsSlot /\ tlsallocs[slot] > 0
  <2>1. /\ slot \in TlsSlot
        /\ tlsmask' = tlsmask \ Mask(slot, tlsallocs[slot])
        /\ tlsallocs' = [tlsallocs EXCEPT ![slot] = 0]
    BY <1>2 DEF DosFreeThreadLocalMemory
  <2>2. \A j \in TlsSlot : tlsallocs'[j] = IF j = slot THEN 0 ELSE tlsallocs[j]
    BY <2>1 DEF TlsTypeOK
  <2>3. Mask(slot, 0) = {}
    BY <2>1, MaskFacts
  <2>4. MaskIsUnionOfBlocks'
    <3>1. \A j \in TlsSlot : Mask(j, tlsallocs'[j]) \subseteq tlsmask'
      <4> SUFFICES ASSUME NEW j \in TlsSlot PROVE Mask(j, tlsallocs'[j]) \subseteq tlsmask'
        OBVIOUS
      <4>1. CASE j = slot
        BY <4>1, <2>2, <2>3
      <4>2. CASE j # slot
        <5>1. Mask(j, tlsallocs[j]) \subseteq tlsmask
          BY DEF BookkeepingAgrees, MaskIsUnionOfBlocks
        <5>2. Mask(j, tlsallocs[j]) \cap Mask(slot, tlsallocs[slot]) = {}
          BY <4>2, <2>1 DEF BookkeepingAgrees, BlocksDisjoint
        <5> QED
          BY <4>2, <5>1, <5>2, <2>1, <2>2
      <4> QED
        BY <4>1, <4>2
    <3>2. tlsmask' \subseteq UNION {Mask(j, tlsallocs'[j]) : j \in TlsSlot}
      BY <2>1, <2>2 DEF BookkeepingAgrees, MaskIsUnionOfBlocks
    <3> QED
      BY <3>1, <3>2 DEF MaskIsUnionOfBlocks, Mask, TlsSlot
  <2>5. BlocksDisjoint'
    <3>1. ASSUME NEW j \in TlsSlot, NEW k \in TlsSlot, j # k
          PROVE  Mask(j, tlsallocs'[j]) \cap Mask(k, tlsallocs'[k]) = {}
      BY <3>1, <2>2, <2>3 DEF BookkeepingAgrees, BlocksDisjoint
    <3> QED
      BY <3>1 DEF BlocksDisjoint, Mask, TlsSlot
  <2> QED
    BY <2>4, <2>5 DEF BookkeepingAgrees
<1> QED
  BY <1>1, <1>2

(* tlsmask and tlsallocs describe the same, disjoint blocks in every        *)
(* execution, for every size the program may ask for, zero included.        *)
THEOREM Bookkeeping == TlsSpec => []BookkeepingAgrees
<1>1. TlsInit => BookkeepingAgrees
  <2> SUFFICES ASSUME TlsInit PROVE BookkeepingAgrees
    OBVIOUS
  <2>1. \A i \in TlsSlot : tlsallocs[i] = 0 /\ Mask(i, tlsallocs[i]) = {}
    BY MaskFacts DEF TlsInit
  <2>2. tlsmask = {}
    BY DEF TlsInit
  <2> QED
    BY <2>1, <2>2 DEF BookkeepingAgrees, MaskIsUnionOfBlocks, BlocksDisjoint
<1>2. TlsTypeOK /\ BookkeepingAgrees /\ [TlsNext]_tlsVars => BookkeepingAgrees'
  <2> SUFFICES ASSUME TlsTypeOK, BookkeepingAgrees, [TlsNext]_tlsVars PROVE BookkeepingAgrees'
    OBVIOUS
  <2> USE DEF BookkeepingAgrees, MaskIsUnionOfBlocks, BlocksDisjoint, Mask
  <2>1. CASE UNCHANGED tlsVars
    BY <2>1 DEF tlsVars
  <2>2. ASSUME NEW cb \in Sizes, DosAllocThreadLocalMemory(cb) PROVE BookkeepingAgrees'
    <3>1. CASE AllocTooLarge(cb) \/ AllocPageFails(cb) \/ AllocFull(cb)
      BY <3>1 DEF AllocTooLarge, AllocPageFails, AllocFull
    <3>2. CASE \E i \in TlsSlot : AllocAt(i, cb)
      BY <3>2, AllocKeepsBookkeeping
    <3> QED
      BY <2>2, <3>1, <3>2 DEF DosAllocThreadLocalMemory
  <2>3. ASSUME NEW slot \in 0 .. TlsSlots, DosFreeThreadLocalMemory(slot)
        PROVE  BookkeepingAgrees'
    BY <2>3, FreeKeepsBookkeeping
  <2>4. ASSUME NEW t \in TlsThread, NEW b \in blocks, NEW o \in 0 .. MaxBlock - 1,
               NEW i \in Instructions, Access(t, b, o, i)
        PROVE  BookkeepingAgrees'
    <3>1. UNCHANGED callVars
      BY <2>4 DEF Access, TlsStore, TlsLoad, Unhandled
    <3> QED
      BY <3>1 DEF callVars
  <2>5. ASSUME NEW b \in blocks, NEW o \in 0 .. MaxBlock - 1, OffThePage(b, o)
        PROVE  BookkeepingAgrees'
    BY <2>5 DEF OffThePage, callVars
  <2> QED
    BY <2>1, <2>2, <2>3, <2>4, <2>5 DEF TlsNext
<1> QED
  BY <1>1, <1>2, TypeCorrect, PTL DEF TlsSpec

(* What the program holds and what the ghost watches, as the step from one  *)
(* state to the next needs it: the watched store lies in a block that is    *)
(* still allocated, and no instruction has stopped the program yet.         *)
WatchedCellIsHeld ==
    watch # Nothing => /\ watch \in Cell
                    /\ watch.off < tlsallocs[watch.base]
                    /\ watch.base + watch.off < TlsSlots

Held ==
    /\ HeldBlocksAreRecorded
    /\ NoAssertionFails
    /\ ThreadSeesItsOwnStores
    /\ halted = "no" => insn = Nothing
    /\ insn \in Decoded \cup {Nothing} => WatchedCellIsHeld

(* A block of at least one slot found free never starts where another       *)
(* block starts: the assertion in DosAllocThreadLocalMemory holds.          *)
LEMMA FreeRunStartsNoBlock ==
    ASSUME TlsTypeOK, BookkeepingAgrees, NEW cb \in Nat \ {0}, NEW i \in TlsSlot, Fits(i, cb)
    PROVE  tlsallocs[i] = 0
<1> SUFFICES ASSUME tlsallocs[i] # 0 PROVE FALSE
  OBVIOUS
<1>1. tlsallocs[i] \in Nat \ {0}
  BY BlockAssumption DEF TlsTypeOK
<1>2. i \in Mask(i, tlsallocs[i]) /\ i \in Mask(i, cb)
  BY <1>1, MaskFacts
<1>3. i \in tlsmask
  BY <1>2 DEF BookkeepingAgrees, MaskIsUnionOfBlocks
<1> QED
  BY <1>2, <1>3 DEF Fits

(* A store in a decoded form keeps every other watched store intact,        *)
(* because no other block reaches the same slot.                            *)
LEMMA StoreKeepsCells ==
    ASSUME TlsTypeOK, BookkeepingAgrees, Held, halted = "no",
           NEW t \in TlsThread, NEW b \in blocks, NEW o \in 0 .. MaxBlock - 1,
           NEW i \in Decoded, i \in Instructions, NEW v \in Value, TlsStore(t, b, o, i, v)
    PROVE  CellIsIntact' /\ WatchedCellIsHeld'
<1> DEFINE c == [thread |-> t, base |-> b[1], off |-> o, val |-> v]
<1>1. /\ b[1] \in TlsSlot /\ b[2] = tlsallocs[b[1]]
      /\ o < tlsallocs[b[1]] /\ b[1] + o < TlsSlots /\ tlsallocs' = tlsallocs
  BY DEF Held, HeldBlocksAreRecorded, TlsStore, OnThePage, callVars
<1>2. insn = Nothing /\ CellIsIntact /\ WatchedCellIsHeld
  BY DEF Held, ThreadSeesItsOwnStores
<1>3. tls' = [tls EXCEPT ![t][b[1] + o] = v]
  <2>1. i.op # "other"
    BY DEF Decoded
  <2>2. Stored(i, v) = {v}
    BY <2>1, PlainFormsAreDecoded
  <2>3. PICK w \in Stored(i, v) : tls' = [tls EXCEPT ![t][b[1] + o] = w]
    BY DEF TlsStore
  <2> QED
    BY <2>2, <2>3
<1>4. b[1] + o \in TlsSlot /\ b[1] + o \in Mask(b[1], tlsallocs[b[1]])
  BY <1>1, SlotsAssumption, BlockAssumption DEF TlsSlot, Mask, TlsTypeOK
<1>5. CASE watch' = c /\ got' = Nothing
  <2>1. c \in Cell
    BY <1>1 DEF Cell
  <2>2. tls'[t][b[1] + o] = v
    BY <1>3, <1>4 DEF TlsTypeOK
  <2> QED
    BY <1>1, <1>5, <2>1, <2>2 DEF CellIsIntact, WatchedCellIsHeld
<1>6. CASE watch # Nothing /\ ~Watched(t, b, o) /\ UNCHANGED <<watch, got>>
  <2> DEFINE w == watch.base + watch.off
  <2>1. /\ watch \in Cell /\ watch.off < tlsallocs[watch.base] /\ w < TlsSlots
        /\ tls[watch.thread][w] = watch.val /\ got \in {watch.val, Nothing}
    BY <1>2, <1>6 DEF CellIsIntact, WatchedCellIsHeld
  <2>2. w \in TlsSlot /\ w \in Mask(watch.base, tlsallocs[watch.base]) /\ watch.base \in TlsSlot
    BY <2>1, SlotsAssumption, BlockAssumption DEF Cell, TlsSlot, Mask, TlsTypeOK
  <2>3. watch.thread \in TlsThread
    BY <2>1 DEF Cell
  <2>4. ASSUME watch.thread = t, w = b[1] + o PROVE FALSE
    <3>1. watch.base = b[1]
      BY <1>1, <1>4, <2>2, <2>4 DEF BookkeepingAgrees, BlocksDisjoint
    <3>2. watch.off = o
      BY <2>1, <2>4, <3>1, <1>1 DEF Cell, TlsSlot
    <3> QED
      BY <1>6, <2>4, <3>1, <3>2 DEF Watched
  <2>5. tls'[watch.thread][w] = tls[watch.thread][w]
    BY <1>3, <1>4, <2>2, <2>3, <2>4 DEF TlsTypeOK
  <2> QED
    BY <1>1, <1>6, <2>1, <2>5 DEF CellIsIntact, WatchedCellIsHeld
<1> QED
  BY <1>5, <1>6 DEF TlsStore

(* A faulting instruction keeps what the program holds.  In a decoded form  *)
(* it comes back, with the right value; in another it is the one that stops *)
(* the program.                                                             *)
LEMMA AccessKeepsHeld ==
    ASSUME TlsTypeOK, BookkeepingAgrees, Held, halted = "no",
           NEW t \in TlsThread, NEW b \in blocks, NEW o \in 0 .. MaxBlock - 1,
           NEW i \in Instructions, Access(t, b, o, i)
    PROVE  Held'
<1>1. UNCHANGED callVars /\ halted' # "assert"
  BY DEF Access, TlsStore, TlsLoad, Unhandled, Resume
<1>2. HeldBlocksAreRecorded' /\ NoAssertionFails'
  BY <1>1 DEF Held, HeldBlocksAreRecorded, NoAssertionFails, callVars
<1>3. i # Nothing /\ insn = Nothing /\ CellIsIntact /\ WatchedCellIsHeld
  BY InstructionsAssumption DEF Held, ThreadSeesItsOwnStores
<1>4. CASE i \notin Decoded
  <2>1. insn' = i /\ halted' # "no"
    BY <1>4, PlainFormsAreDecoded DEF Access, TlsStore, TlsLoad, Unhandled, Resume
  <2> QED
    BY <1>2, <1>3, <1>4, <2>1 DEF Held, ThreadSeesItsOwnStores
<1>5. CASE i \in Decoded
  <2>1. /\ i.op # "other" /\ RegisterFound(i) /\ Length(i) = Advance(i)
    BY <1>5, PlainFormsAreDecoded DEF Decoded
  <2>2. UNCHANGED <<halted, insn>>
    BY <2>1 DEF Access, TlsStore, TlsLoad, Unhandled, Resume
  <2>3. CASE TlsLoad(t, b, o, i)
    <3>1. UNCHANGED <<tls, watch, tlsallocs>>
      BY <2>3 DEF TlsLoad, callVars
    <3>2. Watched(t, b, o) => got' = tls[watch.thread][watch.base + watch.off]
      BY <2>1, <2>3 DEF TlsLoad, Watched
    <3>3. ~Watched(t, b, o) => got' = got
      BY <2>3 DEF TlsLoad
    <3>4. CellIsIntact' /\ WatchedCellIsHeld'
      BY <1>3, <3>1, <3>2, <3>3 DEF CellIsIntact, WatchedCellIsHeld
    <3> QED
      BY <1>2, <1>3, <2>2, <3>4 DEF Held, ThreadSeesItsOwnStores
  <2>4. CASE \E v \in Value : TlsStore(t, b, o, i, v)
    <3>1. CellIsIntact' /\ WatchedCellIsHeld'
      BY <1>5, <2>4, StoreKeepsCells
    <3> QED
      BY <1>2, <1>3, <2>2, <3>1 DEF Held, ThreadSeesItsOwnStores
  <2> QED
    BY <2>1, <2>3, <2>4 DEF Access, Unhandled
<1> QED
  BY <1>4, <1>5

(* Allocating keeps what the program already holds. *)
LEMMA AllocKeepsHeld ==
    ASSUME TlsTypeOK, BookkeepingAgrees, Held, halted = "no", NEW cb \in Nat \ {0},
           NEW i \in TlsSlot, AllocAt(i, cb)
    PROVE  Held'
<1>1. tlsallocs[i] = 0
  BY FreeRunStartsNoBlock DEF AllocAt
<1>2. /\ tlsallocs' = [tlsallocs EXCEPT ![i] = cb]
      /\ blocks' = blocks \cup {<<i, cb>>}
      /\ UNCHANGED <<watch, got, handlerVars>>
  BY <1>1 DEF AllocAt
<1>3. \A s \in TlsSlot : tlsallocs'[s] = IF s = i THEN cb ELSE tlsallocs[s]
  BY <1>2 DEF TlsTypeOK
<1>4. HeldBlocksAreRecorded'
  <2>1. blocks' \subseteq {<<s, tlsallocs'[s]>> : s \in {s \in TlsSlot : tlsallocs'[s] > 0}}
    BY <1>1, <1>2, <1>3 DEF Held, HeldBlocksAreRecorded
  <2>2. \A s \in TlsSlot : tlsallocs'[s] > 0 => <<s, tlsallocs'[s]>> \in blocks'
    BY <1>2, <1>3 DEF Held, HeldBlocksAreRecorded
  <2> QED
    BY <2>1, <2>2 DEF HeldBlocksAreRecorded, TlsSlot
<1>5. insn = Nothing /\ CellIsIntact /\ WatchedCellIsHeld
  BY DEF Held, ThreadSeesItsOwnStores
<1>6. ASSUME watch # Nothing PROVE watch.base # i /\ watch.base \in TlsSlot
  <2>1. watch \in Cell /\ watch.off < tlsallocs[watch.base]
    BY <1>5, <1>6 DEF WatchedCellIsHeld
  <2> QED
    BY <2>1, <1>1 DEF Cell
<1>7. CellIsIntact' /\ WatchedCellIsHeld'
  BY <1>2, <1>3, <1>5, <1>6 DEF CellIsIntact, WatchedCellIsHeld, handlerVars
<1> QED
  BY <1>2, <1>4, <1>7 DEF Held, ThreadSeesItsOwnStores, NoAssertionFails, handlerVars

(* Freeing a block ends the watch on a store into it and keeps the others.  *)
LEMMA FreeKeepsHeld ==
    ASSUME TlsTypeOK, Held, halted = "no", NEW slot \in 0 .. TlsSlots,
           DosFreeThreadLocalMemory(slot)
    PROVE  Held'
<1> USE DEF handlerVars
<1>1. CASE ~(tlspage /\ slot \in TlsSlot /\ tlsallocs[slot] > 0)
  BY <1>1 DEF DosFreeThreadLocalMemory, Held, HeldBlocksAreRecorded, NoAssertionFails,
              ThreadSeesItsOwnStores, CellIsIntact, WatchedCellIsHeld, TlsSlot
<1>2. CASE tlspage /\ slot \in TlsSlot /\ tlsallocs[slot] > 0
  <2>1. /\ slot \in TlsSlot
        /\ tlsallocs' = [tlsallocs EXCEPT ![slot] = 0]
        /\ blocks' = {b \in blocks : b[1] # slot}
        /\ IF watch # Nothing /\ watch.base = slot
             THEN watch' = Nothing /\ got' = Nothing
             ELSE UNCHANGED <<watch, got>>
        /\ UNCHANGED handlerVars
    BY <1>2 DEF DosFreeThreadLocalMemory
  <2>2. \A s \in TlsSlot : tlsallocs'[s] = IF s = slot THEN 0 ELSE tlsallocs[s]
    BY <2>1 DEF TlsTypeOK
  <2>3. HeldBlocksAreRecorded'
    <3>1. blocks' \subseteq {<<s, tlsallocs'[s]>> : s \in {s \in TlsSlot : tlsallocs'[s] > 0}}
      BY <2>1, <2>2 DEF Held, HeldBlocksAreRecorded
    <3>2. \A s \in TlsSlot : tlsallocs'[s] > 0 => <<s, tlsallocs'[s]>> \in blocks'
      BY <2>1, <2>2 DEF Held, HeldBlocksAreRecorded
    <3> QED
      BY <3>1, <3>2 DEF HeldBlocksAreRecorded, TlsSlot
  <2>4. insn = Nothing /\ CellIsIntact /\ WatchedCellIsHeld
    BY DEF Held, ThreadSeesItsOwnStores
  <2>5. ASSUME watch' # Nothing
        PROVE  /\ watch' = watch /\ got' = got
               /\ watch \in Cell /\ watch.base # slot /\ watch.base \in TlsSlot
    BY <2>1, <2>4, <2>5 DEF WatchedCellIsHeld, Cell
  <2>6. CellIsIntact' /\ WatchedCellIsHeld'
    BY <2>1, <2>2, <2>4, <2>5 DEF CellIsIntact, WatchedCellIsHeld
  <2> QED
    BY <2>1, <2>3, <2>6 DEF Held, ThreadSeesItsOwnStores, NoAssertionFails
<1> QED
  BY <1>1, <1>2

(* As long as the program asks for no block of no slots, Held holds. *)
LEMMA HeldAlways ==
    ASSUME 0 \notin Sizes
    PROVE  TlsSpec => []Held
<1>1. TlsInit => Held
  BY DEF TlsInit, Held, HeldBlocksAreRecorded, NoAssertionFails, ThreadSeesItsOwnStores,
         CellIsIntact, WatchedCellIsHeld
<1>2. TlsTypeOK /\ BookkeepingAgrees /\ Held /\ [TlsNext]_tlsVars => Held'
  <2> SUFFICES ASSUME TlsTypeOK, BookkeepingAgrees, Held, [TlsNext]_tlsVars PROVE Held'
    OBVIOUS
  <2> USE DEF HeldBlocksAreRecorded, NoAssertionFails, ThreadSeesItsOwnStores, CellIsIntact,
              WatchedCellIsHeld, TlsSlot
  <2>1. CASE UNCHANGED tlsVars
    BY <2>1 DEF tlsVars, Held
  <2>2. ASSUME NEW cb \in Sizes, DosAllocThreadLocalMemory(cb), halted = "no" PROVE Held'
    <3>1. CASE AllocTooLarge(cb) \/ AllocPageFails(cb) \/ AllocFull(cb)
      BY <3>1 DEF AllocTooLarge, AllocPageFails, AllocFull, Held, handlerVars
    <3>2. CASE \E i \in TlsSlot : AllocAt(i, cb)
      <4>1. cb \in Nat \ {0}
        BY SizesAssumption
      <4> QED
        BY <2>2, <3>2, <4>1, AllocKeepsHeld
    <3> QED
      BY <2>2, <3>1, <3>2 DEF DosAllocThreadLocalMemory
  <2>3. ASSUME NEW slot \in 0 .. TlsSlots, DosFreeThreadLocalMemory(slot), halted = "no"
        PROVE  Held'
    BY <2>3, FreeKeepsHeld
  <2>4. ASSUME NEW t \in TlsThread, NEW b \in blocks, NEW o \in 0 .. MaxBlock - 1,
               NEW i \in Instructions, Access(t, b, o, i), halted = "no"
        PROVE  Held'
    BY <2>4, AccessKeepsHeld
  <2>5. ASSUME NEW b \in blocks, NEW o \in 0 .. MaxBlock - 1, OffThePage(b, o), halted = "no"
        PROVE  Held'
    BY <2>5 DEF OffThePage, callVars, Held
  <2> QED
    BY <2>1, <2>2, <2>3, <2>4, <2>5 DEF TlsNext
<1> QED
  BY <1>1, <1>2, TypeCorrect, Bookkeeping, PTL DEF TlsSpec

(* A program that never asks for a block of zero slots never trips an       *)
(* assertion and can free each of its blocks exactly once, whatever it      *)
(* touches the page with.                                                   *)
THEOREM AllocatorSound ==
    ASSUME 0 \notin Sizes
    PROVE  TlsSpec => [](HeldBlocksAreRecorded /\ NoAssertionFails)
<1>1. Held => HeldBlocksAreRecorded /\ NoAssertionFails
  BY DEF Held
<1> QED
  BY <1>1, HeldAlways, PTL

(* For any mixture of instructions: up to the first one in a form the fault *)
(* handler does not decode, what a thread reads from a block it holds is    *)
(* what it stored there last, no other thread's store and no other block's  *)
(* reaches it, and a decoded instruction neither aborts the program nor     *)
(* loses its place in the code.                                             *)
THEOREM StoresStayApart ==
    ASSUME 0 \notin Sizes
    PROVE  TlsSpec => []ThreadSeesItsOwnStores
<1>1. Held => ThreadSeesItsOwnStores
  BY DEF Held
<1> QED
  BY <1>1, HeldAlways, PTL
=============================================================================
