----------------------------- MODULE DebugStart -----------------------------
(***************************************************************************)
(* How td2ine comes to the entry point of a program: the shared memory it   *)
(* has with lx_loader (ldt_access.c), the loader's part in it (main in      *)
(* lx_loader.c), start_debuggee, and each front end up to its first prompt; *)
(* and what a debugger reads and writes from then on: the debuggee's memory *)
(* through ptrace, a word at a time, and its selectors through the table    *)
(* the loader has left in the shared memory.                                *)
(*                                                                          *)
(* A segment has SegmentSize bytes, a word WordSize.  A program is          *)
(* [lx, ldt, modules, exports, entry, bytes]; its libraries are initialised *)
(* while it is loaded.  System calls on the shared memory do not fail.      *)
(***************************************************************************)
EXTENDS Integers, SequencesExt, FiniteSetsExt

CONSTANTS Launches,     \* [front, program, native, fate, signals]
          LdtSlots,     \* LX_MAX_LDT_SLOTS
          SegmentSize,
          WordSize,
          TopAddress,   \* the last one of memory
          MaxApiEntries \* LOADER_MAX_API_ENTRIES

Slot == 0 .. LdtSlots - 1
WordOf(a) == (a \div WordSize) * WordSize
LinearEntry(p) == IF p.lx THEN p.entry.ip ELSE p.ldt[p.entry.cs \div 8] + p.entry.ip

Listed(s) == Len(s) \in Nat /\ DOMAIN s = 1 .. Len(s)

(* A program as the loader leaves it: memory comes in whole words (pages),  *)
(* the entry point is in it, and no two segments share an address.          *)
Loaded(p) ==
    /\ p.lx \in BOOLEAN /\ p.ldt \in [Slot -> Nat] /\ p.entry \in [cs : Nat, ip : Nat]
    /\ p.lx \/ p.entry.cs \div 8 \in Slot
    /\ DOMAIN p.bytes \subseteq 0 .. TopAddress /\ p.bytes \in [DOMAIN p.bytes -> Nat]
    /\ Listed(p.exports) /\ Listed(p.modules)
    /\ \A m \in DOMAIN p.modules :
          Listed(p.modules[m]) /\ \A k \in DOMAIN p.modules[m] : p.modules[m][k].exec \in BOOLEAN
    /\ LET word == WordOf(LinearEntry(p)) IN word .. word + WordSize - 1 \subseteq DOMAIN p.bytes
    /\ \A i, j \in Slot :
          i # j /\ p.ldt[i] # 0 /\ p.ldt[j] # 0 =>
              p.ldt[i] + SegmentSize <= p.ldt[j] \/ p.ldt[j] + SegmentSize <= p.ldt[i]

ASSUME StartAssumption ==
    /\ LdtSlots \in Nat /\ SegmentSize \in Nat /\ WordSize \in Nat /\ TopAddress \in Nat /\ MaxApiEntries \in Nat
    /\ SegmentSize > 1 /\ WordSize > 0
    /\ \A l \in Launches :
          /\ l.front \in {"main", "test", "reset"} /\ l.native \in BOOLEAN
          /\ Loaded(l.program)

VARIABLES launch,     \* how the debugger was started, and what will happen
          shm,        \* what has the name DEBUG_SHM_NAME: 0 or an object
          shared,     \* contents of the objects
          sees,       \* "debugger" and "loader" -> the object it has mapped
          dpc, lpc,   \* where the debugger and the loader are
          child,      \* "none", "runs", "stopped", "exited"
          stop,       \* the signal that stopped it
          traced,
          bytes,      \* the program's memory
          regs,       \* its [cs, ip]
          disturbed   \* ghost: signals for it so far

startVars == <<launch, shm, shared, sees, dpc, lpc, child, stop, traced, bytes, regs, disturbed>>

Cleared == [base |-> [i \in Slot |-> 0], limit |-> [i \in Slot |-> 0], is32 |-> [i \in Slot |-> FALSE],
            code |-> [i \in Slot |-> FALSE], segment |-> [i \in Slot |-> 0], apis |-> <<>>,
            entry |-> 0, byte |-> 0, active |-> FALSE, lx |-> FALSE, ready |-> FALSE]
(* What an earlier program may have left behind under the name. *)
Stale == [Cleared EXCEPT !.segment = [i \in Slot |-> 1], !.code = [i \in Slot |-> TRUE],
                         !.entry = 1, !.active = TRUE, !.ready = TRUE]
Int3Byte == -1
P == launch.program

StartInit ==
    /\ launch \in Launches
    /\ shm \in {0, 1}
    /\ shared = <<Stale, Cleared>>
    /\ sees = [w \in {"debugger", "loader"} |-> 0]
    /\ dpc = "begin" /\ lpc = "none"
    /\ child = "none" /\ stop = "none" /\ traced = FALSE
    /\ bytes = P.bytes /\ regs = [cs |-> 0, ip |-> 0]
    /\ disturbed = 0

-----------------------------------------------------------------------------
(* The shared memory: ldt_open_shared.  A new object is all zero.           *)

OpenShared(who) ==
    /\ shm # 0
    /\ sees' = [sees EXCEPT ![who] = shm]
    /\ UNCHANGED <<shm, shared>>

CreateShared(who) ==
    /\ shm' = 2 /\ shared' = [shared EXCEPT ![2] = Cleared]
    /\ sees' = [sees EXCEPT ![who] = 2]

Of(who) == shared[sees[who]]

(* Selectors.  The third bit says that a selector is one of the LDT.        *)
InLdt(sel) == (sel \div 4) % 2 = 1
Selector(i) == i * 8 + 7
NotFound == [sel |-> 0, off |-> -1]

ldt_get_selector_info(s, sel) ==
    IF sel \div 8 \in Slot THEN [base |-> s.base[sel \div 8], is32 |-> s.is32[sel \div 8]] ELSE [base |-> -1, is32 |-> FALSE]

linearAddressFromSelectors(s, sel, ip) ==
    LET info == ldt_get_selector_info(s, sel) IN
    IF info.base = -1 THEN 0 ELSE IF info.is32 THEN info.base + ip ELSE info.base + (ip % SegmentSize)

ldt_selector_to_linear(s, sel, off) ==
    CASE ~InLdt(sel) -> sel * 8 + off
      [] InLdt(sel) /\ (sel \div 8 \notin Slot \/ (s.base[sel \div 8] = 0 /\ sel \div 8 # 0)) -> -1
      [] OTHER -> s.base[sel \div 8] + off

SlotsWith(s, linear) ==
    {i \in Slot : s.base[i] # 0 /\ linear >= s.base[i] /\ linear < s.base[i] + s.limit[i]}

ldt_linear_to_selector(s, linear) ==
    LET found == SlotsWith(s, linear) IN
    IF found = {} THEN NotFound
    ELSE [sel |-> Selector(Min(found)), off |-> linear - s.base[Min(found)]]

ldt_get_segment_name(s, sel) ==
    CASE ~InLdt(sel) -> "GDT"
      [] InLdt(sel) /\ sel \div 8 \notin Slot -> "INV"
      [] OTHER -> IF s.base[sel \div 8] = 0 THEN "NULL" ELSE IF s.code[sel \div 8] THEN "CODE" ELSE "DATA"

ldt_is_32bit_segment(s, sel) ==
    \/ ~InLdt(sel) \/ sel \div 8 \notin Slot
    \/ s.base[sel \div 8] = 0 \/ s.is32[sel \div 8]

-----------------------------------------------------------------------------
(* The debuggee's memory.  ptrace reads and writes words; one that is not   *)
(* mapped fails.  What was written before stays written.                    *)

Mapped(m, a) == WordOf(a) .. WordOf(a) + WordSize - 1 \subseteq DOMAIN m
Poke(m, at, word) == [a \in DOMAIN m |-> IF a \in at .. at + WordSize - 1 THEN word[a - at] ELSE m[a]]
Peek(m, at) == [k \in 0 .. WordSize - 1 |-> m[at + k]]

ptrace_read_memory(m, at, len) ==
    IF \A a \in at .. at + len - 1 : Mapped(m, a) THEN [ok |-> TRUE, got |-> [k \in 1 .. len |-> m[at + k - 1]]]
    ELSE [ok |-> FALSE, got |-> <<>>]

(* Byte by byte, each in the word it is in.                                 *)
WriteByteAlone(r, a, v) ==
    IF ~r.ok \/ ~Mapped(r.mem, a) THEN [r EXCEPT !.ok = FALSE]
    ELSE [r EXCEPT !.mem = Poke(r.mem, WordOf(a), [k \in 0 .. WordSize - 1 |-> IF k = a - WordOf(a) THEN v ELSE 0])]

WriteByte(r, a, v) ==
    IF ~r.ok \/ ~Mapped(r.mem, a) THEN [r EXCEPT !.ok = FALSE]
    ELSE [r EXCEPT !.mem = Poke(r.mem, WordOf(a), [Peek(r.mem, WordOf(a)) EXCEPT ![a - WordOf(a)] = v])]

ptrace_write_memory(m, at, data) ==
    FoldLeft(LAMBDA r, k : WriteByte(r, at + k - 1, data[k]), [ok |-> TRUE, mem |-> m], [k \in DOMAIN data |-> k])

(* ptrace_wrapper.c: word by word, the first and the last in part.  Nothing *)
(* calls this pair yet.                                                     *)
PartsOf(at, len) ==
    LET words == (at \div WordSize) .. ((at + len - 1) \div WordSize)
        from(w) == Max({at, w * WordSize})
        to(w)   == Min({at + len - 1, w * WordSize + WordSize - 1})
    IN  [i \in 1 .. Cardinality(words) |->
            LET w == Min(words) + i - 1 IN [word |-> w * WordSize, from |-> from(w), to |-> to(w)]]

ReadPart(m, r, p) ==
    IF ~r.ok \/ ~Mapped(m, p.word) THEN [ok |-> FALSE, got |-> <<>>]
    ELSE [ok |-> TRUE, got |-> r.got \o [k \in 1 .. p.to - p.from + 1 |-> m[p.from + k - 1]]]

ptrace_read_mem(m, at, len) ==
    IF len = 0 THEN [ok |-> TRUE, got |-> <<>>]
    ELSE FoldLeft(LAMBDA r, p : ReadPart(m, r, p), [ok |-> TRUE, got |-> <<>>], PartsOf(at, len))

WritePart(at, data, r, p) ==
    LET word == [k \in 0 .. WordSize - 1 |->
                    IF p.word + k \in p.from .. p.to THEN data[p.word + k - at + 1] ELSE r.mem[p.word + k]]
    IN  IF ~r.ok \/ ~Mapped(r.mem, p.word) THEN [ok |-> FALSE, mem |-> r.mem]
        ELSE [ok |-> TRUE, mem |-> Poke(r.mem, p.word, word)]

ptrace_write_mem(m, at, data) ==
    IF data = <<>> THEN [ok |-> TRUE, mem |-> m]
    ELSE FoldLeft(LAMBDA r, p : WritePart(at, data, r, p), [ok |-> TRUE, mem |-> m], PartsOf(at, Len(data)))

-----------------------------------------------------------------------------
(* lx_loader, started with TD2INE_DEBUG.                                    *)

LoaderRest == UNCHANGED <<launch, dpc, traced, disturbed>>

LoaderOpens ==
    /\ lpc = "begin" /\ child = "runs"
    /\ IF shm # 0 THEN OpenShared("loader") ELSE CreateShared("loader")
    /\ lpc' = "load"
    /\ UNCHANGED <<child, stop, bytes, regs>> /\ LoaderRest

(* The program is no good, or one of its libraries ends it.                 *)
LoadFails ==
    /\ lpc = "load" /\ child = "runs" /\ launch.fate = "fails"
    /\ child' = "exited" /\ lpc' = "gone"
    /\ UNCHANGED <<shm, shared, sees, stop, bytes, regs>> /\ LoaderRest

(* Where an export leads: an aliased one holds the address of the code.     *)
ApiAddress(e) == IF e.aliased THEN e.holds ELSE e.addr
ApiTable ==
    FoldLeft(LAMBDA table, e :
                 IF Len(table) < MaxApiEntries /\ e.addr # 0 /\ e.name # "none" /\ ApiAddress(e) # 0
                 THEN Append(table, [name |-> e.name, addr |-> ApiAddress(e)]) ELSE table,
             <<>>, P.exports)

(* modules: the libraries and the program, each the sequence of its objects *)
(* or segments, [alias, exec]; the last one that has a slot marks it.       *)
Marks(i) == {x \in UNION {{m} \X DOMAIN P.modules[m] : m \in DOMAIN P.modules} : P.modules[x[1]][x[2]].alias = i}
LastMark(i) == CHOOSE x \in Marks(i) : \A y \in Marks(i) : y[1] < x[1] \/ (y[1] = x[1] /\ y[2] <= x[2])

EntryLinear == LinearEntry(P)

(* Slots no module has are marked as data, but keep their segment number.   *)
Published(s) ==
    [base |-> P.ldt, limit |-> [i \in Slot |-> SegmentSize - 1], is32 |-> [i \in Slot |-> FALSE],
     code |-> [i \in Slot |-> Marks(i) # {} /\ P.modules[LastMark(i)[1]][LastMark(i)[2]].exec],
     segment |-> [i \in Slot |-> IF Marks(i) = {} THEN s.segment[i] ELSE LastMark(i)[2]],
     apis |-> ApiTable, entry |-> EntryLinear, byte |-> bytes[EntryLinear], active |-> TRUE,
     lx |-> P.lx, ready |-> TRUE]

LoaderPublishes ==
    /\ lpc = "load" /\ child = "runs" /\ launch.fate # "fails"
    /\ shared' = [shared EXCEPT ![sees["loader"]] = Published(@)]
    /\ bytes' = [bytes EXCEPT ![EntryLinear] = Int3Byte]
    /\ lpc' = "raise"
    /\ UNCHANGED <<shm, sees, child, stop, regs>> /\ LoaderRest

LoaderStops ==
    /\ lpc = "raise" /\ child = "runs"
    /\ child' = "stopped" /\ stop' = "STOP" /\ lpc' = "run"
    /\ UNCHANGED <<shm, shared, sees, bytes, regs>> /\ LoaderRest

(* The program is jumped into and runs into the INT3, which kills it when   *)
(* nobody traces it.                                                        *)
EntryIsReached ==
    /\ lpc = "run" /\ child = "runs" /\ launch.fate # "killed"
    /\ IF bytes[EntryLinear] # Int3Byte THEN UNCHANGED child /\ UNCHANGED stop
       ELSE IF traced THEN child' = "stopped" /\ stop' = "TRAP" ELSE child' = "exited" /\ UNCHANGED stop
    /\ regs' = [P.entry EXCEPT !.ip = @ + 1] /\ lpc' = "entered"
    /\ UNCHANGED <<shm, shared, sees, bytes>> /\ LoaderRest

Killed ==
    /\ lpc = "run" /\ child = "runs" /\ launch.fate = "killed"
    /\ child' = "exited" /\ lpc' = "gone"
    /\ UNCHANGED <<shm, shared, sees, stop, bytes, regs>> /\ LoaderRest

SignalComes ==
    /\ lpc = "run" /\ child = "runs" /\ traced /\ disturbed < launch.signals
    /\ child' = "stopped" /\ stop' = "signal" /\ disturbed' = disturbed + 1
    /\ UNCHANGED <<launch, dpc, lpc, traced, shm, shared, sees, bytes, regs>>

(* A program that is none of OS/2 is executed itself; it knows of nothing.  *)
NativeStops ==
    /\ child = "runs"
    /\ \/ lpc = "exec" /\ launch.fate # "killed"
       \/ lpc = "exec2" /\ launch.fate # "fails"
    /\ child' = "stopped" /\ traced' = TRUE
    /\ stop' = IF lpc = "exec" THEN "STOP" ELSE "TRAP"
    /\ lpc' = IF lpc = "exec" THEN "exec2" ELSE "native"
    /\ UNCHANGED <<launch, shm, shared, sees, dpc, bytes, regs, disturbed>>

(* Killed before its first stop, or there is nothing to execute.            *)
NativeEnds ==
    /\ child = "runs"
    /\ \/ lpc = "exec" /\ launch.fate = "killed"
       \/ lpc = "exec2" /\ launch.fate = "fails"
    /\ child' = "exited" /\ lpc' = "gone"
    /\ UNCHANGED <<shm, shared, sees, stop, bytes, regs>> /\ LoaderRest

-----------------------------------------------------------------------------
(* td2ine: main, --test-step-over, and doReset of the TUI.                  *)

DebuggerRest == UNCHANGED <<launch, lpc, disturbed>>

(* Only main makes the shared memory itself; the others leave it to the     *)
(* loader, and see that it does not find an old one.                        *)
PrepareAndKeepTheOld ==
    /\ dpc = "begin" /\ dpc' = "fork"
    /\ IF launch.front = "main" THEN CreateShared("debugger") ELSE UNCHANGED <<shm, shared, sees>>
    /\ UNCHANGED <<child, stop, traced, bytes, regs>> /\ DebuggerRest

Prepare ==
    /\ dpc = "begin" /\ dpc' = "fork"
    /\ IF launch.front = "main" THEN CreateShared("debugger")
       ELSE shm' = 0 /\ UNCHANGED <<shared, sees>>
    /\ UNCHANGED <<child, stop, traced, bytes, regs>> /\ DebuggerRest

(* start_debuggee.                                                          *)
Fork ==
    /\ dpc = "fork" /\ child' = "runs"
    /\ lpc' = IF launch.native THEN "exec" ELSE "begin"
    /\ dpc' = IF launch.native THEN "awaitexec" ELSE "awaitstop"
    /\ UNCHANGED <<launch, shm, shared, sees, stop, traced, bytes, regs, disturbed>>

(* PTRACE_ATTACH, then PTRACE_CONT with SIGCONT.                            *)
Attach ==
    /\ dpc = "awaitstop" /\ child # "runs"
    /\ IF child = "exited" THEN dpc' = "failed" /\ UNCHANGED <<child, traced>>
       ELSE dpc' = "awaittrap" /\ child' = "runs" /\ traced' = TRUE
    /\ UNCHANGED <<shm, shared, sees, stop, bytes, regs>> /\ DebuggerRest

(* Signals on the way are dropped.  It is no matter here whether the        *)
(* program has stopped at last or is gone.                                  *)
AwaitTrapOnly ==
    /\ dpc = "awaittrap" /\ child = "stopped" /\ stop = "TRAP"
    /\ dpc' = "connect" /\ UNCHANGED child
    /\ UNCHANGED <<shm, shared, sees, stop, traced, bytes, regs>> /\ DebuggerRest

AwaitTrap ==
    /\ dpc = "awaittrap" /\ child # "runs"
    /\ IF child = "stopped" /\ stop # "TRAP" THEN child' = "runs" /\ UNCHANGED dpc
       ELSE dpc' = "connect" /\ UNCHANGED child
    /\ UNCHANGED <<shm, shared, sees, stop, traced, bytes, regs>> /\ DebuggerRest

(* The first stop has to be one; the second wait takes what comes.          *)
AwaitExec ==
    /\ dpc \in {"awaitexec", "awaitexec2"} /\ child # "runs"
    /\ CASE dpc = "awaitexec2" -> dpc' = "connect" /\ UNCHANGED child
         [] dpc = "awaitexec" /\ child = "stopped" -> dpc' = "awaitexec2" /\ child' = "runs"
         [] OTHER -> dpc' = "failed" /\ UNCHANGED child
    /\ UNCHANGED <<shm, shared, sees, stop, traced, bytes, regs>> /\ DebuggerRest

(* main waits 30 s for what it needs and goes on anyway; the others open    *)
(* what the loader has made, and after 2 s make one themselves.             *)
OpenOrCreate == IF shm # 0 THEN OpenShared("debugger") ELSE CreateShared("debugger")

Connect ==
    /\ dpc = "connect" /\ dpc' = "entry"
    /\ IF launch.front = "main" THEN UNCHANGED <<shm, shared, sees>> ELSE OpenOrCreate
    /\ UNCHANGED <<child, stop, traced, bytes, regs>> /\ DebuggerRest

(* Put the byte back and the program on it; in a 16-bit one the address     *)
(* becomes an offset in CS again.                                           *)
BehindIt(s, r) == r

BackOntoIt(s, r) ==
    [r EXCEPT !.ip = IF s.lx THEN s.entry
                     ELSE LET base == ldt_get_selector_info(s, r.cs).base
                          IN  IF base = -1 THEN s.entry % SegmentSize ELSE s.entry - base]

HandleEntry ==
    LET s == Of("debugger")
        w == ptrace_write_memory(bytes, s.entry, <<s.byte>>)
    IN  /\ dpc = "entry" /\ dpc' = "prompt"
        /\ IF s.active /\ child = "stopped" /\ traced /\ w.ok
           THEN /\ bytes' = w.mem
                /\ regs' = BackOntoIt(s, regs)
                /\ shared' = [shared EXCEPT ![sees["debugger"]].active = FALSE]
           ELSE UNCHANGED <<bytes, regs, shared>>
        /\ UNCHANGED <<shm, sees, child, stop, traced>> /\ DebuggerRest

LoaderSteps == LoaderOpens \/ LoadFails \/ LoaderPublishes \/ LoaderStops \/ EntryIsReached
               \/ Killed \/ NativeStops \/ NativeEnds
DebuggerSteps == Prepare \/ Fork \/ Attach \/ AwaitTrap \/ AwaitExec \/ Connect \/ HandleEntry

StartNext == LoaderSteps \/ SignalComes \/ DebuggerSteps

StartSpec == StartInit /\ [][StartNext]_startVars

-----------------------------------------------------------------------------
(* Properties                                                               *)

(* At the first prompt of every front end a program stands at its entry     *)
(* point with its own bytes in memory, traced and with no breakpoint that   *)
(* is still to come, whatever an earlier session has left behind.           *)
ProgramStandsAtItsEntry ==
    dpc = "prompt" /\ child = "stopped" /\ ~launch.native =>
        /\ bytes = P.bytes /\ regs = P.entry /\ traced
        /\ ~Of("debugger").active

(* From the first prompt on the debugger's view is that of this program:    *)
(* the base of each selector, its segment and kind, and the API names it    *)
(* shows at addresses.                                                      *)
ViewIsThePrograms ==
    dpc = "prompt" /\ ~launch.native =>
        LET s == Of("debugger") IN
        /\ sees["debugger"] = sees["loader"]
        /\ \A i \in Slot :
              /\ s.base[i] = P.ldt[i]
              /\ Marks(i) = {} => s.segment[i] = 0 /\ ~s.code[i]
              /\ Marks(i) # {} => \E m \in Marks(i) :
                    s.segment[i] = m[2] /\ s.code[i] = P.modules[m[1]][m[2]].exec
        /\ \A k \in DOMAIN s.apis : \E j \in DOMAIN P.exports :
              P.exports[j].name = s.apis[k].name /\ s.apis[k].addr = ApiAddress(P.exports[j])

(* A selector the program has, with an offset below the limit, leads to an  *)
(* address and back, the same way in all the functions that are asked.      *)
SelectorsLeadThereAndBack ==
    dpc = "prompt" /\ ~launch.native =>
        LET s == Of("debugger") IN
        \A i \in Slot \ {0}, off \in 0 .. SegmentSize - 1 : P.ldt[i] # 0 =>
            LET a == ldt_selector_to_linear(s, Selector(i), off) IN
            /\ a = linearAddressFromSelectors(s, Selector(i), off)
            /\ a = P.ldt[i] + off
            /\ ldt_linear_to_selector(s, a) =
                  IF off < SegmentSize - 1 THEN [sel |-> Selector(i), off |-> off] ELSE NotFound
            /\ ldt_get_segment_name(s, Selector(i)) \in {"CODE", "DATA"}
            /\ ~ldt_is_32bit_segment(s, Selector(i))

(* The debugger sees the program through it as it is.                       *)
DebuggerSeesTheProgram == ViewIsThePrograms /\ SelectorsLeadThereAndBack

(* What is written to the debuggee is what is read from there, by both      *)
(* pairs of functions, and every other byte stays; a write that fails has   *)
(* written nothing but what comes before the memory that is not there.      *)
AccessIsExact(m, at, data) ==
    LET len == Len(data)
        gap == Min({a \in at .. at + len - 1 : ~Mapped(m, a)} \cup {at + len})
        exact == [a \in DOMAIN m |-> IF a \in at .. gap - 1 THEN data[a - at + 1] ELSE m[a]]
        w == ptrace_write_memory(m, at, data)
    IN  /\ w = [ok |-> gap = at + len, mem |-> exact] /\ ptrace_write_mem(m, at, data) = w
        /\ ptrace_read_memory(w.mem, at, len) = ptrace_read_mem(w.mem, at, len)
        /\ w.ok => ptrace_read_memory(w.mem, at, len).got = data

MemoryAccessIsExact ==
    dpc = "prompt" =>
        \A at \in 0 .. TopAddress, len \in 0 .. 2 * WordSize + 1 : AccessIsExact(bytes, at, [k \in 1 .. len |-> 100 + k])

(* A start that is under way comes to a prompt or is given up, in spite of  *)
(* signals, of a loader that fails and of a program that dies.              *)
StartEnds == (dpc # "begin") ~> (dpc \in {"prompt", "failed"})
=============================================================================
