--------------------------- MODULE ThreadLocalMem ---------------------------
(***************************************************************************)
(* DosAllocThreadLocalMemory, DosFreeThreadLocalMemory and the SIGSEGV      *)
(* handler that gives every thread its own copy of the 32 TLS slots.        *)
(*                                                                          *)
(* The allocator keeps one bit per slot (tlsmask) and, for the first slot   *)
(* of a block, the length the program asked for (tlsallocs).  Both calls    *)
(* run from start to end under GMutexDosCalls, so each is one action.  The  *)
(* program's loads and stores fault on the protected page and are carried   *)
(* out by the handler, one faulting instruction at a time.  The handler     *)
(* knows three opcodes and takes each for its shortest encoding: what it    *)
(* makes of the others is modelled with it.                                 *)
(***************************************************************************)
EXTENDS Integers, FiniteSets

CONSTANTS TlsThread,  \* threads of the OS/2 program
          TlsSlots,   \* slots of the page: 32 in the code
          MaxBlock,   \* largest block: 8 in the code
          Sizes,      \* the values of cb the program passes
          Value,      \* values the program stores; 0 is what a new thread has
          Instructions, \* what the program touches the page with
          Nothing     \* ghost: no store is watched, nothing loaded

ASSUME SlotsAssumption == TlsSlots \in Nat \ {0}
ASSUME BlockAssumption == MaxBlock \in Nat \ {0} /\ MaxBlock <= TlsSlots
ASSUME SizesAssumption == Sizes \subseteq Nat
ASSUME ValueAssumption == 0 \in Value

(* An instruction that touches the page.  "imm", "store" and "load" are     *)
(* opcodes C7, 89 and 8B; every other first byte is "other", the prefix of  *)
(* a 16-bit operand too.  The form is that of the address: one register,    *)
(* a SIB byte, an address alone (these three have mod = 0), a register and  *)
(* a displacement of one byte (mod = 1) or of four (mod = 2).               *)
Form == {"plain", "sib", "addr", "disp8", "disp32"}
Instruction == [op : {"imm", "store", "load"}, form : Form]
                  \cup [op : {"other"}, form : {"plain"}]

ASSUME InstructionsAssumption == Instructions \subseteq Instruction /\ Nothing \notin Instruction

VARIABLES tlspage,    \* has the magic page been mapped?
          tlsmask,    \* the bits of the 32-bit mask that are set
          tlsallocs,  \* slots of the block starting here, 0 when none does
          tls,        \* LxPostTIB.tls of every thread
          blocks,     \* what the program holds: blocks <<first slot, length>>
          watch,      \* ghost: one store into a block not yet stored over, or Nothing
          got,        \* ghost: what the last load of that cell found, or Nothing
          rc,         \* result of the last call
          halted,     \* "no", or what became of the program
          insn        \* ghost: the instruction that did it, or Nothing

tlsVars == <<tlspage, tlsmask, tlsallocs, tls, blocks, watch, got, rc, halted, insn>>

callVars == <<tlspage, tlsmask, tlsallocs, blocks, rc>>
handlerVars == <<tls, halted, insn>>

TlsSlot == 0 .. TlsSlots - 1
Block == TlsSlot \X (0 .. MaxBlock)

Cell == [thread : TlsThread, base : TlsSlot, off : 0 .. MaxBlock - 1, val : Value]

(* What the handler decodes, as the bytes of its cases have it. *)
Decoded == [op : {"imm", "store", "load"}, form : {"plain"}]

ResultCode == {"NO_ERROR", "ERROR_INVALID_PARAMETER", "ERROR_NOT_ENOUGH_MEMORY"}

-----------------------------------------------------------------------------
(* Mask(i, cb): the bits of (0xFF >> (8 - cb)) << i.  A bit shifted past    *)
(* the top of the word is lost.                                             *)
Mask(i, cb) == {s \in TlsSlot : i <= s /\ s < i + cb}

(* The loop's test: every bit of the shifted mask is clear in tlsmask. *)
Fits(i, cb) == Mask(i, cb) \cap tlsmask = {}

TlsTypeOK ==
    /\ tlspage \in BOOLEAN
    /\ tlsmask \subseteq TlsSlot
    /\ tlsallocs \in [TlsSlot -> 0 .. MaxBlock]
    /\ tls \in [TlsThread -> [TlsSlot -> Value]]
    /\ blocks \subseteq Block
    /\ watch \in Cell \cup {Nothing}
    /\ got \in Value \cup {Nothing}
    /\ rc \in ResultCode
    /\ halted \in {"no", "assert", "fault", "abort", "astray"}
    /\ insn \in Instructions \cup {Nothing}

TlsInit ==
    /\ tlspage = FALSE
    /\ tlsmask = {}
    /\ tlsallocs = [s \in TlsSlot |-> 0]
    /\ tls = [t \in TlsThread |-> [s \in TlsSlot |-> 0]]
    /\ blocks = {}
    /\ watch = Nothing
    /\ got = Nothing
    /\ rc = "NO_ERROR"
    /\ halted = "no"
    /\ insn = Nothing

-----------------------------------------------------------------------------
(* cb > 8 is refused before the lock is taken. *)
AllocTooLarge(cb) ==
    /\ cb > MaxBlock
    /\ rc' = "ERROR_INVALID_PARAMETER"
    /\ UNCHANGED <<tlspage, tlsmask, tlsallocs, blocks, watch, got, handlerVars>>

(* The first allocation maps the page; mmap or mprotect may fail. *)
AllocPageFails(cb) ==
    /\ cb <= MaxBlock
    /\ ~tlspage
    /\ rc' = "ERROR_NOT_ENOUGH_MEMORY"
    /\ UNCHANGED <<tlspage, tlsmask, tlsallocs, blocks, watch, got, handlerVars>>

AllocFull(cb) ==
    /\ cb <= MaxBlock
    /\ \A i \in TlsSlot : ~Fits(i, cb)
    /\ tlspage' = TRUE
    /\ rc' = "ERROR_NOT_ENOUGH_MEMORY"
    /\ UNCHANGED <<tlsmask, tlsallocs, blocks, watch, got, handlerVars>>

(* The lowest slot at which the mask fits.  When the assertion on it fails  *)
(* the build CMakeLists.txt makes by default aborts.                        *)
AllocAt(i, cb) ==
    /\ cb <= MaxBlock
    /\ Fits(i, cb)
    /\ \A j \in TlsSlot : j < i => ~Fits(j, cb)
    /\ tlspage' = TRUE
    /\ IF tlsallocs[i] = 0                  \* assert(tlsallocs[i] == 0)
         THEN /\ tlsallocs' = [tlsallocs EXCEPT ![i] = cb]
              /\ tlsmask' = tlsmask \cup Mask(i, cb)
              /\ blocks' = blocks \cup {<<i, cb>>}
              /\ rc' = "NO_ERROR"
              /\ UNCHANGED <<watch, got, handlerVars>>
         ELSE /\ halted' = "assert"
              /\ UNCHANGED <<tlsmask, tlsallocs, tls, blocks, watch, got, rc, insn>>

DosAllocThreadLocalMemory(cb) ==
    \/ AllocTooLarge(cb)
    \/ AllocPageFails(cb)
    \/ AllocFull(cb)
    \/ \E i \in TlsSlot : AllocAt(i, cb)

FreeUnshiftedMask(slot) ==
    /\ slot \in TlsSlot /\ tlsallocs[slot] > 0
    /\ tlsmask' = tlsmask \ Mask(0, tlsallocs[slot])
    /\ tlsallocs' = [tlsallocs EXCEPT ![slot] = 0]
    /\ blocks' = {b \in blocks : b[1] # slot}
    /\ UNCHANGED <<tlspage, watch, got, rc, handlerVars>>

FreeOfAFreedBlock(slot) ==
    /\ slot \in TlsSlot /\ tlsallocs[slot] > 0
    /\ tlsmask' = tlsmask \ Mask(slot, tlsallocs[slot])
    /\ blocks' = {b \in blocks : b[1] # slot}
    /\ UNCHANGED <<tlspage, tlsallocs, watch, got, rc, handlerVars>>

(* The program may pass any pointer; one that is not the start of a block   *)
(* is an error.  TlsSlots stands for every pointer off the page.  The       *)
(* assertion that the block's bits are set is BookkeepingAgrees, below.     *)
DosFreeThreadLocalMemory(slot) ==
    IF tlspage /\ slot \in TlsSlot /\ tlsallocs[slot] > 0
      THEN /\ tlsmask' = tlsmask \ Mask(slot, tlsallocs[slot])
           /\ tlsallocs' = [tlsallocs EXCEPT ![slot] = 0]
           /\ blocks' = {b \in blocks : b[1] # slot}
           /\ IF watch # Nothing /\ watch.base = slot
                THEN watch' = Nothing /\ got' = Nothing
                ELSE UNCHANGED <<watch, got>>
           /\ rc' = "NO_ERROR"
           /\ UNCHANGED <<tlspage, handlerVars>>
      ELSE /\ rc' = "ERROR_INVALID_PARAMETER"
           /\ UNCHANGED <<tlspage, tlsmask, tlsallocs, blocks, watch, got, handlerVars>>

-----------------------------------------------------------------------------
(* handleThreadLocalStorageAccess.  The bytes of an instruction after its   *)
(* opcode and its mod-reg-rm byte, and by how much the handler moves EIP.   *)
Displacement(form) ==
    CASE form = "plain" -> 0
      [] form \in {"sib", "disp8"} -> 1
      [] form \in {"addr", "disp32"} -> 4

Length(i) == 2 + Displacement(i.form) + (IF i.op = "imm" THEN 4 ELSE 0)
Advance(i) == IF i.op = "imm" THEN 6 ELSE 2

(* The register's number is taken as eip[1] >> 3, mod and all: when mod is  *)
(* not 0 it is past the end of x86RegisterToUContextEnum, and what is read  *)
(* or written there is anybody's guess, a fault of the handler included.    *)
RegisterFound(i) == i.form \in {"plain", "sib", "addr"}

(* What is stored for the v that the instruction says. *)
Stored(i, v) ==
    IF i.form = "plain" \/ (i.op = "store" /\ RegisterFound(i)) THEN {v} ELSE Value

(* Back into the program, after the instruction or in the middle of it. *)
Resume(i) ==
    IF Length(i) = Advance(i)
      THEN UNCHANGED <<halted, insn>>
      ELSE /\ halted' \in IF i.op = "imm" \/ RegisterFound(i)
                            THEN {"astray"} ELSE {"astray", "fault"}
           /\ insn' = i

(* The program has a pointer to the o-th slot of block b. *)
OnThePage(b, o) == o < b[2] /\ b[1] + o < TlsSlots

Watched(t, b, o) ==
    watch # Nothing /\ <<t, b[1], o>> = <<watch.thread, watch.base, watch.off>>

StoreForEveryThread(t, b, o, i, v) ==
    /\ OnThePage(b, o)
    /\ i \in Decoded /\ i.op # "load"
    /\ tls' = [u \in TlsThread |-> [tls[u] EXCEPT ![b[1] + o] = v]]
    /\ watch' \in {watch, [thread |-> t, base |-> b[1], off |-> o, val |-> v]}
    /\ UNCHANGED <<callVars, got, halted, insn>>

(* A store goes into the tls array of the thread that faulted.  The ghost   *)
(* may start watching it, and follows a store over the one it watches.      *)
TlsStore(t, b, o, i, v) ==
    /\ OnThePage(b, o)
    /\ i.op \in {"imm", "store"}
    /\ \E w \in Stored(i, v) : tls' = [tls EXCEPT ![t][b[1] + o] = w]
    /\ \/ watch' = [thread |-> t, base |-> b[1], off |-> o, val |-> v] /\ got' = Nothing
       \/ watch # Nothing /\ ~Watched(t, b, o) /\ UNCHANGED <<watch, got>>
    /\ Resume(i)
    /\ UNCHANGED callVars

(* A load fills a register, which the ghost keeps when it loads the cell    *)
(* that is watched.                                                         *)
TlsLoad(t, b, o, i) ==
    /\ OnThePage(b, o)
    /\ i.op = "load"
    /\ IF Watched(t, b, o)
         THEN got' \in IF RegisterFound(i) THEN {tls[t][b[1] + o]} ELSE Value
         ELSE UNCHANGED got
    /\ Resume(i)
    /\ UNCHANGED <<callVars, tls, watch>>

(* Any other opcode ends in abort(). *)
Unhandled(b, o, i) ==
    /\ OnThePage(b, o)
    /\ i.op = "other"
    /\ halted' = "abort"
    /\ insn' = i
    /\ UNCHANGED <<callVars, tls, watch, got>>

(* A slot past the last one is not the handler's business, and the fault is *)
(* fatal.                                                                   *)
OffThePage(b, o) ==
    /\ o < b[2] /\ b[1] + o >= TlsSlots
    /\ halted' = "fault"
    /\ UNCHANGED <<callVars, tls, watch, got, insn>>

Access(t, b, o, i) ==
    \/ \E v \in Value : TlsStore(t, b, o, i, v)
    \/ TlsLoad(t, b, o, i)
    \/ Unhandled(b, o, i)

TlsNext ==
    /\ halted = "no"
    /\ \/ \E cb \in Sizes : DosAllocThreadLocalMemory(cb)
       \/ \E slot \in 0 .. TlsSlots : DosFreeThreadLocalMemory(slot)
       \/ \E t \in TlsThread, b \in blocks, o \in 0 .. MaxBlock - 1, i \in Instructions :
              Access(t, b, o, i)
       \/ \E b \in blocks, o \in 0 .. MaxBlock - 1 : OffThePage(b, o)

TlsSpec == TlsInit /\ [][TlsNext]_tlsVars

-----------------------------------------------------------------------------
(* Properties *)

(* tlsmask and tlsallocs, the two records DosAllocThreadLocalMemory and     *)
(* DosFreeThreadLocalMemory keep, describe the same blocks: a bit is set    *)
(* exactly when a block covers it, and no two blocks share a slot.  Free    *)
(* rebuilds the mask from the length alone, so a disagreement would free    *)
(* slots of somebody else's block or lose slots for good.                   *)
MaskIsUnionOfBlocks ==
    tlsmask = UNION {Mask(i, tlsallocs[i]) : i \in TlsSlot}

BlocksDisjoint ==
    \A i, j \in TlsSlot : i # j => Mask(i, tlsallocs[i]) \cap Mask(j, tlsallocs[j]) = {}

BookkeepingAgrees == MaskIsUnionOfBlocks /\ BlocksDisjoint

(* The program holds exactly the blocks tlsallocs records, so a block it    *)
(* holds can always be freed once and never twice.                          *)
HeldBlocksAreRecorded ==
    blocks = {<<i, tlsallocs[i]>> : i \in {s \in TlsSlot : tlsallocs[s] > 0}}

(* handleThreadLocalStorageAccess: what a thread stored through a block is  *)
(* what it finds there and what its loads get, whatever the other threads   *)
(* do with the same block and whatever it does with other blocks; and an    *)
(* instruction in a form the handler decodes never ends in its abort nor    *)
(* sends the program into the middle of an instruction.  Once another form  *)
(* has stopped the program nothing is promised.                             *)
CellIsIntact ==
    watch # Nothing => /\ tls[watch.thread][watch.base + watch.off] = watch.val
                    /\ got \in {watch.val, Nothing}

ThreadSeesItsOwnStores ==
    insn \in Decoded \cup {Nothing} => CellIsIntact /\ halted \notin {"abort", "astray"}

(* No assertion of the two calls fails (doscalls.c:2614 and 2640). *)
NoAssertionFails == halted # "assert"
=============================================================================
