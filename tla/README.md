# TLA+ models of 2ine and its debugger

2ine runs OS/2 programs (32-bit LX and 16-bit NE executables) on Linux. It has
three layers: a loader that maps a program and resolves its imports
(`lx_loader.c`), a set of shared libraries that implement the OS/2 system calls
on top of POSIX and SDL (`native/*.c`), and a debugger (`debugger/`, td2ine)
that starts the loader under ptrace. This directory models the parts that keep
state from one call to the next, checks them with TLC and proves some of them
with TLAPS.

## 1. Inventory

| Component | State | Operations | Interacts with | Module |
|---|---|---|---|---|
| Thread-local memory (`doscalls.c`, `lx_loader.c`) | `tlspage`, `tlsmask`, `tlsallocs`, the `tls` array of each thread's `LxPostTIB` | allocate, free, and every faulting access to the page | the SIGSEGV handler; the TIB that each thread's FS points to; `GMutexDosCalls` | `ThreadLocalMem` |
| Event semaphores (`doscalls.c`) | `posted`, `waiting`, a mutex and a condition variable | create, post, reset, wait (three forms), close | threads; malloc; the clock | `EventSem`, `EventSemSpec` |
| Mutex and RAM semaphores (`doscalls.c`) | a robust recursive pthread mutex; one word of the program | request, release, close; request, clear, set, wait | the end of a thread | `Locks` |
| File handle table (`doscalls.c`) | `HFiles`, `MaxHFiles`; the kernel's descriptors | open, close, dup, read/write/seek/size/flush, grow | every file call; `GMutexDosCalls` | `HandleTable`, `HandleAlloc` |
| Directory searches (`doscalls.c`) | `DirFinder`s, the table `hdir16` | find first, next, close in two widths; `wildcardMatch` | other processes that delete files | `DirSearch` |
| Paths and current directories (`doscalls.c`, `lx_loader.c`, `lib2ine.c`) | `disks`, `current_dir`, `current_disk`, `diskmap`; the tree of files | mount, set disk and directory, `makeUnixPath`, create, delete, ask | every call that takes a path | `Paths` |
| Threads (`doscalls.c`) | `GDeadThreads` and the links of each `Thread`, the structure's memory | create, end, wait for one, wait for any | malloc, pthreads | `ThreadReaper` |
| Exit list and process exit (`doscalls.c`) | `GExitList` | add, remove, run at exit | the functions it calls, which call back | `ExitList` |
| Child processes (`doscalls.c`, `lib2ine.c`, `lx_loader.c`) | the kernel's process table; argv, environ and the PIB | DosExecPgm, DosWaitChild; start-up of a program | fork, execve, waitpid | `Children`, `Arguments` |
| Sound (`doscalls.c`, `lib2ine.c`) | the audio device, the list of generators, the next and the current beep | DosBeep, SDL's callback, the thread that closes an idle device | SDL's audio thread | `Sound` |
| PM queue and windows (`pmwin.c`) | per thread: `message_queue` (list and free pool), `windows`, classes | post, get, dispatch, send; create, destroy, show, paint a window; start and end of a session | SDL events; window procedures that call back | `PmQueue`, `PmWindows`, `MsgFifo` |
| Modules (`lx_loader.c`) | the list of loaded modules with reference counts | load, unload, query, initialise, terminate | dlopen of native DLLs; the program's own routines | `ModuleTable` |
| Images (`lx_loader.c`) | the memory of one module, its exports, the code made for what is missing | unpack pages, apply fixups, list exports, set start values | the modules it imports from | `Image` |
| 16-bit segments (`lx_loader.c`, `doscalls.c`) | the LDT, `huge_block_segs` | find a selector, allocate and free segments and huge blocks, convert pointers | `modify_ldt`; libraries that come and go | `Segments` |
| Debugger, start (`ldt_access.c`, `ptrace_wrapper.c`, the front ends, `main` of `lx_loader.c`) | a block of shared memory; the debuggee's memory | launch, wait for the loader, read descriptors, read and write memory | the loader, ptrace, signals | `DebugStart` |
| Debugger, stepping (`td2ine_main.cpp`, `_text.cpp`, `_tui_app.cpp`, `_core.cpp`) | the bytes under `g_sw_step` and `g_debug.step_over`, the state of the debuggee | step, step-over, continue, breakpoint, reset | ptrace, signals, the program's own code | `Stepping` |
| Must-complete and focus counters | two counters per thread | enter, leave | | none |
| Video, keyboard, messages, NLS, sessions, sockets, queues | the terminal | output and table lookups; stubs | ncurses, sockets | none |
| Symbols, DWARF, disassembly, TUI views, `lx_dump`, generators | tables read once | parse, print | files | none |

What is hard in each of them:

* **Interleaving.** `GMutexDosCalls` is taken for short stretches only. DosOpen
  reserves a slot under it and fills the slot in later without it; the file
  calls look a descriptor up under it and use it without it; two threads reap
  the same list of dead threads; the fault handler serves all threads at once;
  nothing locks the LDT, the exit list or the children. SDL's thread plays what
  DosBeep queues and closes the device it is about to use.
* **Order of events.** A semaphore is posted and reset before a woken thread
  has the mutex; a signal arrives between two instructions of a step; the
  dead-thread list is taken apart in an order nobody fixed; the program may die
  at any moment of the debugger's start.
* **Stale state.** `info` points into a table that may be reallocated; a freed
  `Thread` is allocated again; the count of a semaphore starts with whatever
  malloc left there; the byte under an INT3 was read earlier; a selector is
  handed out for a tile and the tile goes; the shared memory of an earlier
  session is still there.
* **Partial failure.** `doDosOpen` has five ways out after it reserved a slot;
  a search has to give its finder back; a huge block fails half-way; a library
  fails after its imports were loaded; `doStepOver` may fail before anything
  runs; a thread dies with a mutex.
* **Timeouts.** Timed waits of semaphores against posts and spurious wakeups;
  five idle seconds of the audio device against the next beep.
* **Re-entry.** A window procedure may post, send, create or destroy windows
  while one is being created or destroyed; an initialisation routine may load
  libraries while its own library is in no list yet; a function of the exit list
  may change the list.
* **Conversions that feed each other.** An argument is quoted, split and quoted
  again with every generation of processes; a fixup chain is linked through the
  words it overwrites; a path is compared without case in one place and with it
  in another.

What makes each correct, one line each: a slot belongs to one block and each
thread sees its own copy; a post releases every waiter and a close never takes
the semaphore from under one; one living thread holds a mutex, and a dead
owner is noticed; a handle stands for its own file until closed; a search
delivers each matching entry once; the text of a current directory names the
directory the program is in; a dead thread is reaped exactly once, and only
after it is gone; an exit function is called once; DosExecPgm answers for its
own child, and the child is what was asked for; a queued beep is heard; a
message comes out of the queue once and in order; the windows form a tree at
every callback; the routines of a library run while what it imports is up; an
image in memory is what the linker meant; a huge block is one run of tiles, and
a pointer stays good while its memory lives; the debugger shows the program's
own state and leaves no trace in it.

## 2. Modules

Each component has one module with its state, one action per critical section or
system call, and its properties. Each `_proofs` module holds the theorems about one
part of the system: `Files_proofs` about `HandleTable` and `DirSearch`,
`Process_proofs` about `Locks`, `ExitList`, `Children`, `Sound` and `ThreadReaper`,
`Debugger_proofs` about `Stepping` and `DebugStart`, `Loader_proofs` about
`Segments`, `ModuleTable` and `Image`, and those named after a module about that one.
`FoldTheorems` has what several of them need about loops, least numbers and
sequences. An `MC` module gives
instances, and a `.cfg` names the properties. Definitions
between the actions whose names describe a slip (`PostSignalsOne`,
`CloseRefusesAtZero`, `TerminateOldestFirst`, ...) are not part of any
specification: they are the mistakes the properties were tried against, listed
under "mutants" in `PROJECT.json`.

Components that do not touch each other's state are checked side by side: the
variable `part` of `MCFiles`, `MCProcess`, `MCModuleTable` and `MCStepping` is
chosen at the start and says which of them a behaviour is about; the others stand
still. The state space is the sum of theirs, not the product. `Callers` declares
what the modules of `MCProcess` have in common, the program's threads.

### ThreadLocalMem

`tlsmask` is the set of bits that are set in the 32-bit word, `tlsallocs[s]` the
recorded length of the block that starts at slot `s`, `tls[t]` the array in the
`LxPostTIB` of thread `t`. `Mask(i, cb)` is `(0xFF >> (8 - cb)) << i`, with the
bits above the word lost as the shift loses them. Allocation and freeing hold
`GMutexDosCalls` from start to end, so each is one action. `blocks` is what the
program believes it holds, `watch` one store it made and did not overwrite, and
`got` what the last load of that cell found.

`TlsStore`, `TlsLoad` and `Unhandled` are one faulting instruction each, carried out by
the SIGSEGV handler in `lx_loader.c`. The handler knows three opcodes and takes
each for its shortest encoding, so an instruction is an opcode and a form of
address (`Instruction`), and the model follows the handler through all of them:
which register it finds (`RegisterFound`; with a displacement the number it looks up
is past the end of its table), what it stores (`Stored`), and whether EIP, moved on
by `Advance`, is where the next instruction begins (`Resume`, `Length`). If not, the program is
"astray"; any other opcode, a prefix of a 16-bit operand included, ends in
`abort()`. `insn` remembers the instruction that stopped the program. What is
promised of stores and loads is promised until such an instruction comes
(`ThreadSeesItsOwnStores`): it is the last one of a behaviour. Accesses are to
whole, aligned slots: the handler knows no others.

### EventSem, EventSemSpec

`EventSem` splits `DosWaitEventSem` where `pthread_cond_wait` gives the mutex
up: `WaitEnter`, a wake-up (`DosPostEventSem`'s broadcast, `TimedWaitEnds`,
`SpuriousWakeup`), `WaitContinue`. `CloseLook` and `CloseDestroy` are the two
halves of `DosCloseEventSem`: the look at the count under the mutex, and the
destruction after it was given up. `DosCreateEventSem` leaves `waiting` as malloc left it
(`Garbage`). `EventSemSpec` is the promise: no mutex, no count, only who waits,
whether it is posted and what calls return. A semaphore is `sound` when malloc
left a zero; an unsound one may be refused to `DosCloseEventSem` with nobody
waiting, or freed under a waiting thread, and the promise says so.

### Locks

A mutex semaphore is `[owner, count, health]`, as the robust recursive pthread
mutex under it: `health` goes from "ok" to "inconsistent" when a request gets the
mutex of a dead owner (`Grant`), and from there to "unrecoverable" with the
release that frees it, because nothing in the code calls
`pthread_mutex_consistent`. `holds` counts what each thread was granted and has
not released: `LocksExclude` compares the two. A RAM semaphore is one word;
`DosSemRequest` and `DosSemWait` both end with the same compare-and-swap
(`TrySem`), so a wait takes the semaphore. `Refuse` stands for both refusals of a
request: ERROR_TIMEOUT, which only a request with a limit gets, and
ERROR_INVALID_HANDLE, which is the answer when it would not wait at all and the
mutex is busy (EBUSY has no case of its own), or when the mutex is unusable. No
property tells them apart.

### HandleAlloc, HandleTable

`HandleTable` is `HFiles` and the kernel's descriptor table. Every stretch under
`GMutexDosCalls` and every system call outside it is a step: the search and
reservation, the path conversion, `open`, its retry, the checks, the store
through `info`. A descriptor remembers the handle it was opened for, which is
how `HeldHandlesWork` tells a right descriptor from a wrong one. `HandleAlloc`
is the promise: a new handle is one nobody holds, and it comes with a
descriptor nobody uses. What callers do is a `Programs` record: which threads call, with
which flags, how far they grow the table and onto which handles they duplicate.

### DirSearch

A `DirFinder` is a record with its place in the directory; the static one and
those malloc gives (`Finder`). `FindNext` takes a batch of records into a buffer
measured in records; `KeepHandle` and `KeepSlot` are the two ways the caller
holds on to a finder, a pointer or a slot of `hdir16`. `WildcardMatch` is the loop
of `wildcardMatch`: for each character of the pattern, where in the name the loop
stands when it comes to it (`GoesOn` is one round). `Matches` is the reference
definition it is checked against through `SearchDelivers`: the pattern cuts the
name into pieces. What is delivered has to match when the first dot of a pattern
may stand for the end of any name (`Allowed`: "???." takes "a.b" in the code,
though "*." does not); what has to be delivered is what matches when it may do so
only in a name without a dot, the pattern has a `*` only before a dot or at the end,
and the name has one dot at most (`Wanted`): `*` runs to the first place it can,
and with one dot that is the right one. `Batch` is the loop of `findNext`, a
recursive function of the number of rounds. `Unlink` is another process.

### Paths

A Unix path is the sequence of its elements, an OS/2 path `[drive, abs, elems]`.
`PathInit` mounts the drives of a configuration and finds the drive the program
is started on. `MakeUnixPath` is the conversion, `Locate` its search for each
element, first exact, then without case. `Normalise` is what DosSetCurrentDir
does to the text it will store. The calls differ in what they do with the path
(`WithPath`). `went` is the directory the program asked for, `climbed` that it
used `..` above a mount point.

### ThreadReaper

`GDeadThreads`, `prev` and `next` as in `Thread`; a structure is its address, so
`DosCreateThread` may get the address that was just freed. `os2ThreadCleanup`
puts a structure on the list, `ThreadIsGone` is the moment `pthread_join` can
return, `PollDeadList`/`JoinAny` and `JoinOne`/`Unlink` are the two ways of
`DosWaitThread`. `corrupt` records a use of freed memory, `asserted` a failed
`assert(!thread->prev)`.

### ExitList

`exitList` is the list, `item` what each registration points to, `frame` where a
thread is in the loop of `runDosExitList`: it holds the next item (`frame.next`)
while a function runs, and the function may add, remove or exit. `priority` is
what malloc left, since the code never stores it. `broken` is a use of a freed
item, `careless` that the program asked for it.

### Children, Arguments

`Children` is the table of processes with who waits for whom: `DosExecPgm` up to
its `waitpid`, `ForkAgain` for the child in between of EXEC_ASYNC, `DosWaitChild`
and its three ways to return. `Arguments` is what a process is started with:
`Boot` is `main` with `initPib`, `ExecOs2Child` is `calcArgv`, `calcEnvp` and
`execve`, `ChildEnds` the result codes. A behaviour is a chain of generations.
`Words` follows `calcArgv` character by character, because what happens to
quotes and backslashes is the property; `ArgumentsOf` is the reference.

### Sound

`DosBeep` in the steps between its locks: `GrabBeepLock`, `Queue`, `FindDevice`,
`Add`. `Play`, `GoIdle` and `GiveUpDevice` are SDL's callback with
`DosBeepGenerator` in its list and without. `CloseDevice` is
`closeAudioDeviceThread`; the old device's callback may run until then.

### MsgFifo, PmQueue, PmWindows

`PmQueue` is the linked list of `MessageQueueItem`s and the pool they return to,
with `postMessage` and the removal in `WinGetMsg` as operators on that
structure. `PmWindows` extends it with the window tree. Its `stack` holds the
calls in progress, because `WinCreateWindow`, `destroyWindow`, `WinSendMsg`,
`WinDispatchMsg` and `WinTerminate` call window procedures in the middle of their work and a procedure may make any of
the calls again. Each stretch between two callbacks is one action:
`WinCreateWindow` up to WM_CREATE, `WM_CREATE_Accepted` or `_Refused`, `Link`,
`WM_ADJUSTWINDOWPOS_Returns`; `WinDestroyWindow`, `WM_DESTROY_Returns`,
`DestroyChild`, `DestroyFinish`. `PumpExposed` is an SDL event that uncovers a
window and posts the paint messages for it and what is in it. `MsgFifo` is the promise
of the queue. A `Programs` record says which calls a program makes and how deep
its procedures nest them.

### ModuleTable

The list `loaded_modules`, the reference count and dependencies of every
structure, and a `stack` of the loader's calls in progress: `name`
(`loadModuleByModuleNameInternal`), `module` (`loadLxModule`, `loadNeModule`),
`init` (the library's initialisation routine, which may load), `failed`,
`unref` and `free` (`freeLxModule`), `terminate` (`lxTerminate`). The disk is a
`Worlds` record: what imports what, which file is damaged and where, which
libraries exist as native ones. `roots` counts how often the program itself was
given a module and has it yet: `lxTerminate` gives the references of the program
back, those to the libraries all at once.

### Image

What the bytes of one module become. `mem` is memory from address to byte;
pages are unpacked one by one (`preload`, `iterated`, `exepack2`, `zero`), then
fixups are applied one by one, of LX pages (`FixLx`: offset, pointer, selector,
self-relative, across page ends) and of NE segments (`FixNe`: chains through the
words they replace, or additive). Exports that do not exist get made-up code in a
page of its own (`made`, `room`). The last step sets the registers and start
values. `ImageIsAsLinked` recomputes memory from the image alone.

### Segments

`ldt` maps a slot to the 64K tile it covers. `FindSelector` is `lxFindSelector`
with its three preferences. An allocation is `Begin`, then `MapSegment` and
`TakeSelector` for each segment, because two threads may meet between the two;
`overlapped` remembers that they did. `GetMemory` and `LoseMemory` are
libraries and DosAllocMem, whose tiles get selectors too.

### DebugStart

The debugger and the loader as two processes over the shared memory block: the
debugger prepares it, forks, waits for the exec stop and for SIGSTOP or the trap
(`Attach`, `AwaitTrap`, `AwaitExec`), connects and shows the entry; the loader
opens the block, loads, publishes its tables and stops. A program that is none of
OS/2 is executed in the loader's place, stops twice (`NativeStops`), or ends before
it does, killed or because there is nothing to execute (`NativeEnds`). `sees` says which object
each has mapped, because a new one under the same name does not replace the
old mapping. `fate` is what will become of the program. The second half is pure:
`ldt_selector_to_linear` and back, names of segments, and `ptrace_read_mem`,
`ptrace_write_mem`, which go through whole words.

### Stepping

One thread of a debuggee whose instructions are one byte long, the debugger's
two breakpoint records (`g_sw_step`, `g_debug.step_over`) and its three front
ends. A command saves a byte, plants an INT3 and resumes; the debuggee executes,
traps, is stopped by a signal, exits or is killed by one; the front end that waits
answers as its own code does. `Dies` is SIGKILL, from anywhere and at any moment;
`HandOn` passes a signal on, which may kill too. `run` is then "killed" until a waitpid
tells of it (`Died`), and "gone" afterwards. Each place that waits looks at such a
status in its own way: the first wait of "c" and the software steps end the session,
the second one goes back to the prompt, `wait_for_trap` never returns, and the TUI
takes notice in `doContinue` alone. What a command does over a dead program is
`TextOnDead` and `TuiOnDead` (`AfterDeath`: with nothing to wait for `wait_for_trap`
looks at a status that was never set). A session says whether its program may die
(`mortal`). `calculateNextIP` predicts what the source predicts, mistakes
included: `loop`, indirect jumps and near returns. `should` is where the program
would be with no debugger.

## 3. Runs

| Run | Instance | What it shows |
|---|---|---|
| `Events` | 3 threads, garbage -1, 0 and 1 | The count is exact and nobody sleeps on a posted semaphore; a lasting post releases every waiter; a limit holds; `EventSem` implements `EventSemSpec` |
| `Handles`, part "handles" | 2 threads sharing a table of 2 that grows to 3, 5 descriptors, 7 kinds of open; 1 thread that also duplicates onto any handle | Held handles work; between calls no slot and no descriptor is lost; `HandleTable` implements `HandleAlloc` |
| part "search" | 4 entries, 3 queries, the static finder and one from malloc, one 16-bit slot | Each search that comes to its end delivered every entry that stayed and that the pattern takes, once; no finder is held by nobody |
| part "paths" | 4 drives, 4 configurations, 2 places to start in, 8 paths, a tree of 6 entries that grows to 7 | The text of a current directory names the directory the program went to; case is no matter |
| `Process`, part "locks" | 2 threads, nested twice | One holder each; a dead owner is noticed |
| part "exit" | 2 threads, 2 functions, 3 registrations | Functions are called once, and none is forgotten |
| part "children" | 2 threads, 3 pids | DosExecPgm answers for its own child; every wait returns |
| part "sound" | 2 threads, 2 devices, beeps of 2 chunks | What is queued is heard |
| part "arguments" | 6 command lines of the user, 91 of a program, 3 environments, 3 generations | The child is the program that was asked for, and its arguments arrive |
| part "threads" | 2 waiters that wait for any, or 1 that also waits for one; 3 structures | The list is exactly the dead, nothing freed is used, nothing is reaped twice; a waiter returns |
| `Modules`, part "modules" | 288 disks with up to three libraries, two loads by the program | Reference counts are exact and the list is sorted by dependency; routines run in the order of the imports |
| part "segments" | 2 threads, 9 slots, 4 tiles, huge blocks of 2, one object and one other piece of memory | Blocks are contiguous, nothing is left behind, pointers stay good |
| part "image" | 1789 images | Memory is what the linker meant; a missing entry is reported by the code made for it |
| part "tls" | 2 threads, 3 slots, blocks of 1 and 2, one size too large; 8 kinds of instruction | The mask and the lengths agree; the program's blocks are on record; until an instruction comes that the handler does not decode, a thread reads back its own stores and goes on behind the instruction |
| `DbgSessions`, part "start" | 3 front ends, 4 programs, native or not, 3 fates, signals | The program stands at its entry, the debugger sees its segments and symbols, memory access is exact, every start comes to an end |
| part "stepping" | A recursive program of 8 instructions, the last at the end of what is mapped; 7 sessions, in which it may be killed at any moment | No INT3 is left at the prompt; the program is never moved; a step is one instruction; every command comes back, but for the two waits of section 5 |
| `PmWindows` | 4 windows, 3 nested calls, 3 queue items | The windows are a tree at every callback; each is told once that it goes; painting order; the queue implements `MsgFifo` |
| `HandlesTruncate` (violated) | 1 thread, all 8 kinds of open | `DosOpen` with a size reports success after the truncation failed |
| `ReapOverlooks` (violated) | 1 waiter that mixes both waits | A wait for any thread overlooks one that has ended |
| `DbgTuiSignal` (violated) | The TUI with one signal | A signal in the middle of a step moves EIP |
| `DbgKilled` (violated) | Text, hardware steps, a program that may be killed | The command never ends: `wait_for_trap` does not know of a death by a signal |
| `PmFilter` (violated) | 1 window, one filter | An assertion of `WinGetMsg` fails after a filter took the last message |
| `ChildUsage` (violated) | A program that starts children with any arguments | A child with no arguments, or with an empty environment, is not the program asked for |

The properties that are two statements in one name (`FunctionsAreCalledOnce`,
`ReapingIsExact`, `SegmentsAreSound`, `CaseIsNoMatter`, ...) are conjunctions of
the named parts that stand before them. `TypeOK` is a property of its module; it
is proved where there are proofs (`LockTypes`, `ChildTypes` in `Process_proofs`)
and is in no run of its own.

### Bounds, and why they are enough

* `Events`: with three threads one waits with a limit, one without, and one
  posts, resets and closes. Garbage below, at and above zero are the three
  cases the test `waiting > 0` tells apart.
* `Handles`: one standard handle (`LastStd` 0) instead of three, two slots at the
  start (`FirstMax` 2) and one more after growth (`Bound` 3) give a full table, a
  free slot, and a contest for the last one. Five descriptors are enough that only
  `open` itself fails. One 16-bit slot is enough to have none left; one finder
  from malloc to run out of them. The tree may grow by one entry (`TreeLimit` 7):
  one directory is enough for a twin in another case.
* `Process`: `MaxNest` 2 is the first request that is nested; three registrations
  are one in front of, one behind and one at the item to come; three pids are a
  child, the child in between and what that one starts; beeps of two chunks have
  a middle. `Timely` = TRUE keeps the five idle seconds from ending inside
  `registerAudioGenerator`; section 5 has what happens otherwise. Three
  generations (`MaxGenerations`) are the user's program, its child, and the first
  process whose arguments were made from arguments made by this code. The command
  lines are all of up to three characters over letter, blank, quote and
  backslash, and six longer ones. Three structures of threads are the shortest
  list with a head, a middle and an end.
* `Modules`: `MaxDepth` is 3 for the 32 of the code, so a circle of imports ends
  within six structures. Three libraries are enough for a diamond, a chain and
  a circle; one file at most is damaged, before or after its imports. Nine slots
  with tiles 3 to 6 for segments, 2 for the stack and 9, 10 for other memory (tiles
  with no slot of their own number) are filled up by two huge blocks and the pieces.
  One pointer (`MaxPointers`) at a time is enough: pointers do not act on each
  other. A state in which two threads were inside `lxAllocSegment` at once
  (`overlapped`) is not followed further: the code has no answer to it ("!!!
  FIXME: mutex this"). A byte of an image has four values (`ByteBase` 4), so a
  tile and an NE segment have 16 bytes, an LX page 8, and an address 8 bits; every
  length in the code is scaled with it. Three slots of the TLS page with blocks of
  one and two put a block at every distance from the end and between two others; a
  third size is refused, as 9 is in the code. The instructions are the three the
  handler decodes, another opcode, and of the four longer forms of address one
  opcode each (`Touches`): what the handler does depends on the opcode and on whether
  the form is one of them. The theorems hold for every number of slots and every
  block size.
* `DbgSessions`: two activations of the recursive function below `main`
  (`MaxDepth` 3); two signals are one more than the text front end forwards. Behind
  the last instruction there are no 64 bytes of memory, so `doStepOver` fails there
  (`Unreadable` {7}). No session has signals in the TUI, which is what `DbgTuiSignal`
  is about, nor during the hardware step of an "s", which would break
  `StepIsOneInstruction` (section 5); during that of a step-over there are some. At
  the start: 4 slots of the LDT, segments and words of 4 bytes, two entries of the
  table of functions (`MaxApiEntries` 2), of which the program exports more.
  `TopAddress` 16 is behind the end of every program's memory, so that accesses
  begin before, in and behind it, at every place in a word.
* `PmWindows`: four windows are a parent, two children and a grandchild; three
  nested calls are one inside another's callback inside a third. One
  program of the run has messages and posts until the three items are in use.

### Fairness

Only what the host's scheduler and kernel give. `Events`: the clock advances, a
wait past its deadline returns and a woken thread gets the mutex, which nobody
holds across a blocking call. `Process`: a polling caller is scheduled (it sleeps
and looks again) and a thread past its cleanup ends; programs that were started
end, and a waitpid that can return does; pthread gives a free mutex to a thread
that waits for it; SDL calls the callback of an open device. `DbgSessions`: a
resumed debuggee runs, the loader goes on loading, waitpid reports a stop and the
debugger acts on it. Nothing makes a program post, release, clear, a thread end,
or a user type.

### What programs are assumed to keep from

Several calls are safe only in a disciplined program, and the runs say so
instead of hiding it. In `Events`, `LateCalls = FALSE`: no call begins on a
semaphore another thread is closing. In `Handles`, no handle is closed while
another call uses it, the table does not grow while another call is in it, and
nothing is said of an entry of a search that asked for more records than fit.
`ListIsTheDead` and `NothingFreedIsUsed` are about programs that only wait for
any thread; `ReapOverlooks` shows the mixture. `LocksExclude` speaks of RAM
semaphores nobody uses to signal, `FunctionsAreCalledOnce` of programs whose
functions leave the item to come alone and where one thread exits. In `PmWindows`
a procedure does not destroy a window that is being created or destroyed, one
above it, or the one whose turn is next, and creates none below one whose
children are being destroyed. The debugger's signals come only in the front end
that tells them from its own breakpoints, and not during the hardware step of an
"s". `CommandEnds` lets a command wait for ever in the two places where the text
front end does (`WaitsForNothing`): in `wait_for_trap` when a signal has killed the
program, and after a `doStepOver` that resumed nothing. `EveryWaitIsAnswered`,
without them, is what `DbgKilled` refutes. `ArgumentsArrive` is about arguments
without quotes in the middle of a word and without backslashes (`Ordinary`).

## 4. Proofs

`ThreadLocalMem_proofs`, from the assumptions on its constants alone:

* `TypeCorrect`: `TlsSpec => []TlsTypeOK`.
* `Bookkeeping`: the mask is the union of the recorded blocks, and no two
  recorded blocks share a slot.
* `AllocatorSound`: when `0` is not among the sizes, the program's blocks are
  exactly the recorded ones and no assertion of the two calls fails. The
  hypothesis is needed: a request of no slots fits anywhere.
* `StoresStayApart`: `ThreadSeesItsOwnStores` under the same hypothesis, for any
  set of instructions: up to the first one in a form that the handler does not
  decode the watched store is read back, and the program is neither aborted nor
  astray. That is not inductive as it stands: `Held` adds that the watched store
  lies in a block still on record, within its length and within the page, so
  that a store of another thread or into another block cannot reach it
  (`StoreKeepsCells`). That a decoded instruction is stored and left as it should be
  is `PlainFormsAreDecoded`.

`EventSem_proofs`, for any finite set of threads and any garbage:

* `CountExact`, `NobodySleepsWhilePosted`, and both together as
  `WaitersAccounted`: inductive with the types.
* `BusyMeansWaitedOn`: the action property, from the count.
* `Implements`: assuming `LateCalls = FALSE`, every step is a step of
  `EventSemSpec` or a stutter. It rests on `CloseInv`: at most one thread is
  inside `DosCloseEventSem`, and while it is, or when the semaphore is gone, a
  sound semaphore has no waiting thread; `CloseLook` establishes that from the
  exact count, and no call that begins later can break it. Only a thread with a
  limit can time out, which is what `STimeout` asks.

`Process_proofs`, of the specifications `LockSpec`, `ChildSpec`, `SoundSpec` and
`ExitSpec` (which `MCProcess` runs side by side), for any threads, pids, devices
and functions:

* `OneHolder`: `LocksExclude`. `LockInv` adds that what a living thread holds is
  what the mutex counts for it and for no other, that only the living are in a
  call, and that the word is 1 while somebody has entered. A request that takes
  the mutex of the dead starts its count again at 1, which is right because the
  new owner held nothing.
* `ExecOwnChild`: `ExecAnswersForItsOwn`. `ChildInv` adds that the child of a
  waiting DosExecPgm is its own, that no other DosExecPgm waits for it, and that it
  is gone only when a DosWaitChild took it.
* `BeepIsOnItsWay`: `QueuedIsHeard`. `SoundInv` adds that the device in use is open
  and not about to be closed, and that there is one while the generator is listed
  or about to be; that last part is where `Timely` is needed.
* `EachFunctionOnce`: `FunctionsAreCalledOnce`. `ExitInv` adds that the list holds
  the listed items, each once; that, while the program is not careless, one
  thread goes along it and the item it will call next is still on it; and that
  what was there at the first DosExit has been called or taken out, or is not in
  front of that item. An insertion or a removal by the function being called
  moves the rest of the list (`Inserted`, `ElementRemoved`); what it inserts in front of
  the item to come is new and may be missed, what was there is not.

`Process_proofs` again, of `ThreadReaper`, for any threads and any program:

* `ThreadsReapedExactly`: `ReapingIsExact`. `ReaperInv` adds what the list is: the
  dead threads and no other, each followed by one that died before it, with no
  two in front of the same one (`ListShape`), so that the set that `next` reaches
  from the head is the set of the dead (`ShapeMeansListed`). `PushKeepsShape` and
  `PopKeepsShape` are the two ways it changes. A wait for one thread cuts out of
  the middle, and there the missing `prev` bites: that a thread is reaped at most
  once is stated, and proved, for programs that wait either for any thread or for
  one, and not both (`ReapOverlooks` shows the other case).

`Files_proofs`, of `HandleTable`, for any threads, requests and sizes:

* `HandlesWork` and `NothingIsLost`: `HeldHandlesWork` and `QuietTableIsExact`.
  Neither is inductive: between the search and the store of a call its slot is
  reserved, the descriptor is open and in no slot, or the slot names a descriptor
  that is closed. `TableInv` therefore gives every slot in use and every open
  descriptor exactly one owner: the program, stdio, or one call in progress
  (`OwnInv`, `FdInv`), and says of each place in a call what its slot holds
  (`SlotInv`). `StepWithSlot` proves once that a step that changes one slot and its
  descriptor keeps this, and `StepWithOwnSlot` specialises it to calls that
  already have one; the lemma of each action only shows that it is such a step.
* `TableImplementsHandleAlloc`: every step is a step of `HandleAlloc` or a stutter.
  It needs that one handle at most changes hands in a step, and `TableInv` for
  the descriptor, which no other handle has.

The hypotheses are where the code does something else. `Bound <= NumFds` says that
`dup()` always finds a descriptor (`DescriptorLeft`, by counting): otherwise its
-1 stays in the slot, and `DosDupHandle` reports NO_ERROR for a slot that is free.
`Careful` asks that no call both replaces a file and sets its size (`HandlesTruncate`
shows what happens), that the program adds nothing with `DosSetRelMaxFH` (which
frees the first slots instead of the new ones), and that it duplicates onto
handles of its choice only from one thread (the check is not under the lock).
The programs of the run `Handles` are of this kind.

`Files_proofs`, of `DirSearch` (`SearchSpec`), for any directory, queries, sizes of
buffers, numbers of finders and of slots:

* `FindersAreKept`: `FindersAccountedFor`. `HandleInv` says in terms of sets what the
  property counts: no two slots of `hdir16` have one finder, none has one that the
  program got a 32-bit handle for, and a finder is in use exactly when it has a
  handle or was dropped. `OneFinder` shows once what a change of one finder does.
* `SearchFindsAll`: `SearchDelivers`. `TakenIsMatched` and `MatchedIsTaken` are the two
  halves of what `wildcardMatch` is right about: where the loop stands gives the
  pieces of the name, and the pieces give a way of the loop. `KindIsMeant` is the
  same for the attributes. `Sound` says of a search in the middle what
  `SearchDelivers` says of its end: what it has got, and that below its place in
  the directory nothing that is still there was passed over. `LoopInv` carries
  this through the rounds of `findNext`; the room left in the buffer is at least
  what the rounds to come can use, so that a round which finds nothing has seen
  the rest of the directory. Files that are deleted in between only make
  the claim smaller.

`Debugger_proofs`, of `Stepping`, for any program, any session and any number of signals:

* `PromptStaysClean`: `PromptIsClean`. `CleanInv` adds that every INT3 in memory
  is that of an active breakpoint whose kept byte is the program's, that the two
  breakpoints are never active together, and in which commands each may be,
  or that the program died in one (`LeftBehind`). Without `TakesBackWhatItWrites` it is false: the TUI's breakpoint keeps no byte.
* `ProgramIsUndisturbed`: `ProgramUndisturbed`. `WhereInv` says where the program
  would be while it stands behind an INT3: at the address of the breakpoint.
  `KnowsItsStops` (the text front end, or no signals) is what `DbgTuiSignal` lacks.
* `OneInstructionAtATime`: `StepIsOneInstruction`. In 32-bit programs
  (`HardwareStepInv`) because the CPU does it, as long as no signal comes. In
  16-bit ones (`SoftwareStepInv`) because before the instruction the INT3 is where
  it goes, and after it `eip` is on the INT3. `SoundProgram` lists what
  `calculateNextIP` is right about (`NextIPIsRight`), and that no instruction goes
  to itself. The proof asks for that condition: the INT3 would be on the
  instruction to be stepped. Such is also a return
  that comes back to itself, in a function that calls itself as the last thing it
  does (main: `lcall f; exit`, f: `plain; jcc L; lcall f; L: retf`, depth 2): TLC
  finds the step that comes back to the prompt with no instruction executed, and
  the next one does the same.

`Loader_proofs`, for any threads, sizes and other memory:

* `SegmentsWork`: `SegmentsAreSound`. That huge blocks are contiguous in memory
  does not follow from what `Dos16AllocHuge` compares, which are selectors. It
  follows from every segment getting the slot of its own number, and this from
  `Roomy`: other memory (libraries, what the program converts) has at least as many
  slots above the segments as it has tiles, so that it never takes the own slot of
  a segment (`RoomForOthers`, by the pigeonhole principle). `SegInv` says who has
  which segments: blocks the program has and blocks being allocated are apart
  (`Apart`), what is owned is in the LDT under its own number and in memory, and
  `huge_block_segs` has the size of each huge block. Four lemmas (`BlockFreed`,
  `ClaimDropped`, `ClaimGrown`, `BlockHanded`) are all that can happen to ownership.
  In an LDT with less room the theorem is false: with six slots, of which other
  memory has the last one and a failed allocation has freed the one below, a block of two gets
  the selectors 3 and 4 over the tiles 3 and 5, and passes the test that is there
  to "Enforce it; a gap would corrupt the flat pointer model" (`doscalls.c:3438`).
  The LDT has 8192 slots; the six thousand above the first segment must be taken
  first.

`Loader_proofs`, of `ModuleTable`, for any disks (circles of imports and files that
fail included), any limit on the depth and any number of loads:

* `ListIsSound`: `ModuleListIsSound`. The property speaks of the moments between
  calls, where a module is counted once for each import and each time the program
  was given it. Inside a call it is not: loading recurses through the imports,
  freeing through the table it takes apart, and an initialisation routine may begin
  another load. `Counts` says what is counted then: in addition the result on its
  way to the caller, and one reference of the call that is loading the module or is
  about to give it back (`Held`), without the places that a `free` in progress has
  passed (`GivenBack`). No two calls in progress are about one module
  (`Unique`), `Places` says which call may wait for which, `CallsOk` in what state the
  structure of each is (new while its imports are loaded, with null behind the
  place the loop has come to; up only when all of them are), and `Lives` that a
  structure which is new, being initialised or down has such a call, so that none
  is lost in the middle. That what is imported is up (`Counts`) gives the order of the
  list (`ListInv`): a module enters it at the head, in front of all it imports, and one
  that leaves is imported by none. `ExeInv` keeps the program apart, which is in no
  list and in which the recursion ends.
* `RoutinesRunInOrder`: `LibraryCallsInOrder`. A library is initialised when the
  loop over its imports is through, all of them up; one that goes down has the
  count 0, so that by `Counts` nothing refers to it. With `lxTerminate`, which takes
  the first of the list whatever its count is, it is the order of the list
  that says so: what imports the first one would stand in front of it.

`Loader_proofs`, of `Image` (`ImgSpec`), for any images, any 16-bit selectors of the
loader and any table from tiles to selectors that no two of them share:

* `MissingAreReported`: `MissingEntriesAreReported`. `MissingInv` says that all code
  lies in its page (`InPage`), that no two pieces overlap, and that the page to which
  code of a kind goes has none of the other kind and none behind what is used of
  it (`RoomInv`). A
  piece that goes behind the others overlaps none of its page; one that
  opens a page gets a tile without code (`TileIsFree`: there are more tiles than
  pieces made, and no tile is listed twice). What the code does when it is called
  (`RunsInTheLoader`) follows from where it is. The assumption is that memory
  does not run out, that is, a tile for each fixup (`MissingAssumption`): the code has
  an assertion for `lxAllocSegment` and does not look at what `mmap` returns.

`Debugger_proofs`, of `DebugStart` (`StartSpec`), for any programs, launches, sizes and signals:

* `StartsAtTheEntry`: `ProgramStandsAtItsEntry`. `StartInv` says what the two
  processes have in common at each pair of places: which places go together
  (`PlacesAgree`), that the INT3 is in memory from `LoaderPublishes` until
  `HandleEntry` takes it out and the program stands behind it (`MemoryAgrees`), and
  that both look at one object of shared memory, cleared before the loader fills
  it (`ObjectsAgree`); the last part is where an object that an earlier session
  has left would come in. `HandleEntry` goes through `ptrace_write_memory`,
  so it needs what that does to a word (`EntryIsRestored`).
* `TheViewIsRight`: `DebuggerSeesTheProgram`, from the same invariant. A selector
  leads back to its segment because no two segments overlap; the table of names is
  a loop over the exports, each entry of which is shown to be an export.
* `MemoryIsAccessedExactly`: `MemoryAccessIsExact`, for every memory and every
  access (`AccessExact`). `Written` is the closed form of what a write of k bytes
  leaves; a byte (`WrittenNext`) and a word in part (`WritePartNext`) take it
  from one k to a later one, and `PartsFit` shows that the parts of a transfer
  follow each other and are all of it.

The loops are folds, that is recursive functions, and TLA+ does not say that
one has a value before it is shown to exist. `FoldExists` and `LoopExists` in
`FoldTheorems` show it, and `WriteIsExact`, `ReadsAgree`, `WritesAgree` and
`ApisAreExports` the value, in the same way: if there were a number of elements for
which it is false, there would be a least one (`HasLeast`), and the step from the
one before contradicts it. The assumption `Loaded` is what the loader sees to:
memory comes in whole words (pages of the kernel), the entry point is in it and, in
an NE program, its selector is in the LDT, and no two slots of the LDT share an
address (`lxFindSelector` returns the slot that is there).

`PmWindows_proofs`, for any number of windows and queue items and any nesting of
window procedures:

* `TreeStaysWhole` and `EachIsToldOnce`: `TreeIsWhole` and `ToldOnce`. `ListsInv` says
  that the links from the first child of a window spell a sequence of its linked
  children, each once. That is kept only because of what the calls in progress
  may rely on when a procedure returns to them, and the rest of `TreeInv` says that
  of every frame of the stack: its window is alive and no other call's, and not
  above one that an outer call is about (`CallsInv`); in the loop of `destroyWindow`
  over the children, the window being destroyed is the first child, the one
  remembered in `i` is behind it, and no outer call is destroying that one
  (`LoopsInv`); behind the place of WinTerminate no window is left
  (`TerminateInv`). `ParentsInv`, that no window is above itself, is needed because
  "above" is the least set that parents close, and a window taken out must not
  take another with it. A window had WM_DESTROY once when a call is destroying it
  and never otherwise (`ToldInv`).
* `QueueIsFifo`: `ImplementsMsgFifo`, for programs that set no filter. `GoodQueue`
  says that the links from `head` and from `free_pool` spell two sequences without an
  item in common, and that `tail` is the last of the first (`Layout`). `PostIs` and
  the lemmas about the removal show each operation on the links to be one on these
  sequences; a post takes its item from the pool, or a new one from the heap
  when the pool is empty. Several messages posted at once (`postMessages`,
  `postExposedMessages`) are a fold, whose existence `FoldExists` gives.
* `AssertionsHold`: under the same hypothesis the assertion of WinGetMsg does not
  fail. The hypothesis is where the code does something else: with a filter that
  takes the last message and not the first, `tail` is left behind (`PmFilter`).

Only model-checked: the liveness properties (`PostReleasesWaiters`,
`TimedWaitReturns`, `WaitAnyReturns`, `OwnersDeathIsNoticed`, `EveryWaitReturns`,
`CommandEnds`, `StartEnds`), because fairness and ENABLED are out of the prover's
reach; `PaintOrder`, which compares a recursive walk over the tree with the order
of the lists; and `ImageIsAsLinked` and the properties of `Paths` and `Arguments`, which say what
recursive definitions over data compute (section 6). Where a fact about data
follows from a least element it is proved after all: the slot of `DosOpen` is `Min`
of the free ones (`LeastNatural`), the list of dead threads is the least set that
`next` closes, what a search has delivered is an invariant of the rounds of its
loop, and the folds over memory and exports of `DebugStart` have the value one
expects.

## 5. Where code and promise part

The six violated runs each have an entry under "findings". The models contain
these other deviations as the code has them, unless a line says that they are
left out, and no run claims the contrary:

**System calls (`doscalls.c`)**

* TLS: a request of no slots is granted anywhere, and a block whose mask is
  shifted over the top of the word reaches past the page. The fault handler
  decodes `mov` with an immediate, from and to a register, and only with the address
  in one register; it aborts at every other opcode and goes astray after every
  other address, with a wrong register when there is a displacement ("this is a
  hack", `lx_loader.c:2682`). An operand of 16 bits is one of those opcodes, because
  of its prefix; 16-bit code, where it has none, needs another prefix for the address,
  as the page lies above all segments.
* `DosCreateEventSem` never sets `waiting`. A post followed at once by a reset
  may be missed by threads already woken.
* A mutex whose owner died is given to the next one and becomes unusable with
  that one's release. `DosSemSet` clears the word instead of setting it, and
  `DosSemWait` takes the semaphore it waits for.
* `DosSetRelMaxFH` sets slots free from the front of the table instead of the
  new ones; `DosResetBuffer` for all files indexes the table with the handle;
  DosOpen never reports FILE_CREATED; a `dup` that fails is reported as a
  success; the check of `DosDupHandle` that a given handle is free is not under
  the lock.
* Searches: `Dos16FindFirst` drops the handle when all ten slots are full, and
  takes the word it is given for a handle; `Dos16FindClose` allows 10, one slot
  past the table (left out: the program closes what it holds); the 16-bit search
  overwrites its one record when asked for more.
* Paths: `DosQueryCurrentDir` of disk 0 answers for the drive after the current
  one, past the array for the last; the default configuration leaves `diskmap`
  0; "D:" leaves a separator at the end of the current directory, "D:\" is
  refused; `..` may leave the mount point, and then text and directory part; in
  the root of the Unix tree a name is found only in its own case; a file used as
  a directory crashes the program. The full name of a file always begins with
  "C:" (left out).
* Exit list: an order that is asked for is never stored; items a function adds in
  front of itself are lost; functions run twice or from freed memory when two
  threads exit or a function removes the item to come.
* Children: an EXEC_SYNC whose child another thread's DosWaitChild took fails an
  assertion; EXEC_ASYNC reports the pid of the child in between, and
  DosWaitChild reports that one; the code of a child is cut to 8 bits.
  `calcEnvp`'s result is not checked (`argv` is, twice), and `pNameUnix` is
  never freed (left out).
* Arguments: `initPib` escapes '\n' where it should escape '"'; a backslash in
  quotes doubles with every generation; an empty argument is lost; a quote in
  the middle of a word loses the word's first character and splits it. Left out:
  the array of pointers is sized by blanks alone, a null `pArg` crashes, an unset
  OS2PATH becomes "(null)", and nothing stops environment and command line from
  outgrowing 64K.
* Sound: a device given up inside `registerAudioGenerator` leaves the beep queued
  for ever, and the next DosBeep hangs (`Timely` = FALSE shows it, and breaks
  `QueuedIsHeard`); the generator's structure is allocated with the size of a
  pointer (left out).
* Threads: a wait for one thread joins without the lock, so two waits for it
  would join twice (`WaitOne` asks for nobody else's thread).

**Loader (`lx_loader.c`)**

* Nothing keeps a library from being loaded twice: it is in no list while its
  initialisation routine runs. `ModuleListIsSound` counts the references to both copies;
  it does not promise that names are unique.
* A failing program with loaded libraries runs their termination
  routines with no main module (`phase` "crashed"); a jump to `loadlx_failed`
  passes the initialisation of `retval`; loading is not covered by a mutex.
* Segments: `lxAllocSegment` maps at a fixed, growing address and nothing locks
  it; an object and other memory in one tile share a selector, which an unload
  frees under the living one (the model gives pieces tiles of their own); a huge
  block may be refused though slots are free, when they do not follow each other;
  the search for a selector includes the address one past a segment.
* Images: chains in an NE segment of 64K (size 0) are not followed; the start of
  a 16-bit program whose stack pointer is 0 lies one segment too far
  (`autodataseg`); an import through an alias from a library that is not native
  reads code as a pointer; an import by name crashes when an export without a
  name stands in front; fixup type 3 is not implemented. Left out: the
  made-up code of two threads that load at once, the special cases for EMX and
  HPI, far jumps that are patched, selector fixups without an alias, and the
  `segN.bin` files the NE loader writes into the current directory.

**Debugger**

* Near returns and `loop` are predicted wrongly; the text front
  end drops a signal during a hardware step and the program runs on; a
  step-over of a recursive call stops in the deeper activation; `doStepOver`
  that fails leaves the text front end waiting for a program that was not
  resumed; a death by a signal ends no `wait_for_trap`, leaves the text front end
  at a prompt over a dead program after the second wait of "c", and leaves the TUI
  with its `debug_pid` and the breakpoint it had set; the TUI's breakpoint keeps
  no copy of the byte it overwrites; an instruction that goes to itself, a return behind a recursive call included,
  executes nothing, in this step and in every further one. Other threads of the
  debuggee are not traced (left out: one thread).
* Start: a stop other than the expected one counts as success, and the pid of a
  program that is dead already is returned, that of a native one that cannot be
  executed too; selector 0x5B ("CODE32") can never
  be named; the last byte of a segment with limit 0xFFFF has no selector;
  `ldt_get_selector_info` does not look at the table bit; `LD_LIBRARY_PATH` is
  asked for after `clearenv` (left out).

**PM (`pmwin.c`)**

* The result of `WinPostMsg` is inverted; the owner is looked up with
  `hwndParent`; growing the array moves every window under the pointers to it;
  `WinTerminate` passes over a window created at a lower place; a window created
  by the WM_DESTROY of a last child outlives its parent (`MayCreate` keeps the
  program from it).

## 6. Plan

The model covers the parts of the system that keep state. What is left is to
prove more of it, the most wanted first:

1. `PmWindows`: the order in which windows are painted.
2. `Paths`: text and directory go together.

Of the model itself, in reach but not done: reads and writes of files with their
positions, the second thread of a debuggee, and a loader entered by two threads.

## 7. Not modelled

Single system calls with no state of their own (reads and writes of files, clock
and timers), drawing and text output (video, keyboard, presentation spaces, the
TUI's views), tables of constants (messages, code pages), parsers that read a
file once and change nothing (the headers of LX and NE files, DWARF, symbol maps,
the disassembler), the two counters of must-complete and focus, stubs (queues;
`tcpip32` forwards to the host), and build tools. `PROJECT.json` gives the reason
for each.
