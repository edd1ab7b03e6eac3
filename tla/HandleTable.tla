----------------------------- MODULE HandleTable -----------------------------
(***************************************************************************)
(* The file handle table of native/doscalls.c: HFiles and MaxHFiles, the    *)
(* calls that open, close, duplicate and use OS/2 file handles, and the two *)
(* that grow the table, made by any number of threads.                      *)
(*                                                                          *)
(* GMutexDosCalls covers the search for a free slot, the lookup of a        *)
(* descriptor and the growth of the table.  The kernel calls and the stores *)
(* through doDosOpen's `info` are outside it, so each is a step of its own. *)
(* The kernel's descriptor table is `ufd`; an open descriptor remembers the *)
(* handle it was opened for.                                                *)
(***************************************************************************)
EXTENDS Integers, FiniteSetsExt

CONSTANTS Thread,       \* threads of the OS/2 program
          FirstMax,     \* MaxHFiles at start, 20 in the constructor
          Bound,        \* bound on how far the table grows
          LastStd,      \* the last stdio descriptor, 2 in the code
          NumFds,       \* RLIMIT_NOFILE
          Programs,     \* the kinds of program, see below
          Closed        \* a descriptor that is not open

ASSUME SizesAssumption ==
    /\ LastStd \in Nat /\ FirstMax \in Nat /\ Bound \in Nat /\ NumFds \in Nat
    /\ LastStd < FirstMax /\ FirstMax <= Bound /\ LastStd < NumFds
ASSUME ClosedAssumption == Closed \notin Nat

(* What a call asks of DosOpen: how to access the file, what to do when     *)
(* there is none and when there is one, and whether to set its size.        *)
OpenRequest == [access : {"readonly", "writeonly", "readwrite"}, new : {"fail", "create"},
                old : {"fail", "open", "replace"}, sized : BOOLEAN]

(* A program: the threads that make calls, the ways they call DosOpen, what *)
(* they add with DosSetRelMaxFH and the handles they duplicate onto.        *)
ASSUME ProgramsAssumption ==
    \A p \in Programs :
        /\ p.threads \subseteq Thread /\ p.requests \subseteq OpenRequest
        /\ p.increments \subseteq Nat /\ p.targets \subseteq Nat

VARIABLES program,
          HFiles,       \* HFiles[h].fd: a descriptor, Free or Reserved
          MaxHFiles,
          ufd,          \* descriptor -> the handle it was opened for, or Closed
          exists,       \* does the file the program opens exist?
          pc, loc,      \* where each thread is, and its local variables
          held,         \* ghost: handles the program was given and did not close
          ret           \* what the call that returned last did

vars == <<program, HFiles, MaxHFiles, ufd, exists, pc, loc, held, ret>>

Free == -1
Reserved == -2

Fds == 0..(NumFds - 1)
Handles == 0..(Bound - 1)

PC == {"idle", "scan", "path", "open", "retry", "check", "store",
       "close", "mark", "use", "dup_copy", "dup"}

NoRequest == [access |-> "none", new |-> "none", old |-> "none", sized |-> FALSE]

(* i is the slot info points to; src is the handle a call was given. *)
Locals == [i : Handles, src : Handles, fd : Fds \cup {-1, -2},
           req : program.requests \cup {NoRequest}, existed : BOOLEAN]

NoLocals == [i |-> 0, src |-> 0, fd |-> -1,
             req |-> NoRequest, existed |-> FALSE]

TypeOK ==
    /\ program \in Programs
    /\ MaxHFiles \in FirstMax..Bound
    /\ HFiles \in [0..(MaxHFiles - 1) -> Fds \cup {Free, Reserved}]
    /\ ufd \in [Fds -> Handles \cup {Closed}]
    /\ exists \in BOOLEAN
    /\ pc \in [Thread -> PC]
    /\ loc \in [Thread -> Locals]
    /\ held \subseteq Handles

(* The constructor: a table of free slots, and stdio wired to itself. *)
Init ==
    /\ program \in Programs
    /\ MaxHFiles = FirstMax
    /\ HFiles = [h \in 0..(FirstMax - 1) |-> IF h <= LastStd THEN h ELSE Free]
    /\ ufd = [f \in Fds |-> IF f <= LastStd THEN f ELSE Closed]
    /\ exists \in BOOLEAN
    /\ pc = [t \in Thread |-> "idle"]
    /\ loc = [t \in Thread |-> NoLocals]
    /\ held = 0..LastStd
    /\ ret = <<>>

-----------------------------------------------------------------------------
(* What the Unix flags of a request are. *)

ReadOnly(r) == r.access = "readonly"

Refused(r) == ReadOnly(r) /\ (r.sized \/ r.new = "create" \/ r.old = "replace")

MustNotExist(r) == r.old = "fail" /\ ReadOnly(r)
IsExclusive(r)  == r.old = "fail" /\ ~ReadOnly(r)
IsReplacing(r)  == r.old = "replace"
Creat(r)        == r.new = "create" \/ IsExclusive(r)    \* O_CREAT | O_EXCL

(* The kernel: the lowest free descriptor, when there is one. *)
FreeFds == {f \in Fds : ufd[f] = Closed}

(* The lookup, made under the lock. *)
getHFileUnixDescriptor(h) == IF h < MaxHFiles THEN HFiles[h] ELSE -1

(* A store through `info`. *)
StoredIn(t, value) == [HFiles EXCEPT ![loc[t].i] = value]

Goto(t, where) == pc' = [pc EXCEPT ![t] = where]

Return(t, result) ==
    /\ Goto(t, "idle")
    /\ loc' = [loc EXCEPT ![t] = NoLocals]
    /\ ret' = result

InUse(h) == \E t \in Thread : pc[t] \in {"scan", "use", "dup_copy", "dup"} /\ loc[t].src = h

-----------------------------------------------------------------------------
(* DosOpen *)

OpenRefused(t, r) ==
    /\ pc[t] = "idle" /\ Refused(r)
    /\ ret' = <<t, "open", "ERROR_INVALID_PARAMETER">>
    /\ UNCHANGED <<program, HFiles, MaxHFiles, ufd, exists, pc, loc, held>>

(* The flags are right; what follows takes the lock. *)
OpenStart(t, r) ==
    /\ pc[t] = "idle" /\ ~Refused(r)
    /\ Goto(t, "scan")
    /\ loc' = [loc EXCEPT ![t] = [NoLocals EXCEPT !.req = r]]
    /\ UNCHANGED <<program, HFiles, MaxHFiles, ufd, exists, held, ret>>

IsOpening(t) == loc[t].req # NoRequest

ReserveNothing(t) ==
    /\ pc[t] = "scan"
    /\ \E h \in DOMAIN HFiles : HFiles[h] = Free
    /\ LET h == Min({x \in DOMAIN HFiles : HFiles[x] = Free}) IN
          /\ loc' = [loc EXCEPT ![t].i = h]
          /\ Goto(t, IF IsOpening(t) THEN "path" ELSE "dup_copy")
    /\ UNCHANGED <<program, HFiles, MaxHFiles, ufd, exists, held, ret>>

(* The search of DosOpen and of DosDupHandle, under the lock. *)
Reserve(t) ==
    /\ pc[t] = "scan"
    /\ LET free == {h \in DOMAIN HFiles : HFiles[h] = Free}
       IN IF free # {}
            THEN /\ HFiles' = [HFiles EXCEPT ![Min(free)] = Reserved]
                 /\ loc' = [loc EXCEPT ![t].i = Min(free)]
                 /\ Goto(t, IF IsOpening(t) THEN "path" ELSE "dup_copy")
                 /\ UNCHANGED ret
            ELSE /\ Return(t, <<t, "open", "ERROR_TOO_MANY_OPEN_FILES">>)
                 /\ UNCHANGED HFiles
    /\ UNCHANGED <<program, MaxHFiles, ufd, exists, held>>

PathRefusedKeepsTheSlot(t) ==
    /\ pc[t] = "path"
    /\ Return(t, <<t, "open", "ERROR_PATH_NOT_FOUND">>)
    /\ UNCHANGED <<program, HFiles, MaxHFiles, ufd, exists, held>>

(* makeUnixPath refuses the name. *)
PathRefused(t) ==
    /\ pc[t] = "path"
    /\ HFiles' = StoredIn(t, Free)
    /\ Return(t, <<t, "open", "ERROR_PATH_NOT_FOUND">>)
    /\ UNCHANGED <<program, MaxHFiles, ufd, exists, held>>

PathConverted(t) ==
    /\ pc[t] = "path"
    /\ Goto(t, "open")
    /\ UNCHANGED <<program, HFiles, MaxHFiles, ufd, exists, loc, held, ret>>

(* open() gives a descriptor.  `existed` is set on every success, that of   *)
(* the call that made the file included: it reads FILE_EXISTED as well.     *)
Opened(t) ==
    /\ FreeFds # {}
    /\ LET f == Min(FreeFds) IN
          /\ ufd' = [ufd EXCEPT ![f] = loc[t].i]
          /\ loc' = [loc EXCEPT ![t].fd = f, ![t].existed = TRUE]
    /\ exists' = TRUE
    /\ Goto(t, "check")

OpenSucceeds(t) ==
    /\ pc[t] = "open"
    /\ IF exists THEN ~Creat(loc[t].req) ELSE Creat(loc[t].req)
    /\ Opened(t)
    /\ UNCHANGED <<program, HFiles, MaxHFiles, held, ret>>

(* EEXIST, and the caller did not ask to be the one that creates it. *)
OpenFindsTheFile(t) ==
    /\ pc[t] = "open"
    /\ exists /\ Creat(loc[t].req) /\ ~IsExclusive(loc[t].req)
    /\ Goto(t, "retry")
    /\ loc' = [loc EXCEPT ![t].existed = TRUE]
    /\ UNCHANGED <<program, HFiles, MaxHFiles, ufd, exists, held, ret>>

(* The second open, without O_EXCL but still with O_CREAT. *)
OpenAgain(t) ==
    /\ pc[t] = "retry"
    /\ Opened(t)
    /\ UNCHANGED <<program, HFiles, MaxHFiles, held, ret>>

(* Either open may fail: no such file, no descriptor left, no permission... *)
OpenFails(t) ==
    /\ pc[t] \in {"open", "retry"}
    /\ Goto(t, "store")
    /\ UNCHANGED <<program, HFiles, MaxHFiles, ufd, exists, loc, held, ret>>

(* What follows a successful open: undone when the file must not exist;     *)
(* cut to size when it was replaced, with ftruncate(info->fd): the slot     *)
(* holds Reserved, the call fails, and descriptor and slot are given up     *)
(* before the store.                                                        *)
OpenCheck(t) ==
    /\ pc[t] = "check"
    /\ LET r == loc[t].req
           cut == (~loc[t].existed \/ IsReplacing(r)) /\ r.sized
           undone == /\ ufd' = [ufd EXCEPT ![loc[t].fd] = Closed]
                     /\ HFiles' = StoredIn(t, Free)
       IN IF MustNotExist(r)
            THEN undone /\ Return(t, <<t, "open", "ERROR_OPEN_FAILED">>)
            ELSE /\ IF cut THEN undone ELSE UNCHANGED <<ufd, HFiles>>
                 /\ Goto(t, "store")
                 /\ UNCHANGED <<loc, ret>>
    /\ UNCHANGED <<program, MaxHFiles, exists, held>>

(* initHFileInfoFromUnixFd, fstat included, and the results. *)
OpenStore(t) ==
    /\ pc[t] = "store"
    /\ LET f == loc[t].fd
           isOpen == f # -1 /\ ufd[f] # Closed
           action == CASE IsReplacing(loc[t].req) -> "FILE_TRUNCATED"
                       [] loc[t].existed          -> "FILE_EXISTED"
                       [] OTHER                   -> "FILE_CREATED"
       IN /\ HFiles' = StoredIn(t, IF isOpen THEN f ELSE Free)
          /\ IF f = -1
               THEN /\ Return(t, <<t, "open", "ERROR_OPEN_FAILED">>)
                    /\ UNCHANGED held
               ELSE /\ Return(t, <<t, "open", "NO_ERROR", loc[t].i, action>>)
                    /\ held' = held \cup {loc[t].i}
    /\ UNCHANGED <<program, MaxHFiles, ufd, exists>>

-----------------------------------------------------------------------------
(* DosClose *)

Begin(t, h, where) ==
    /\ Goto(t, where)
    /\ loc' = [loc EXCEPT ![t] = [NoLocals EXCEPT !.src = h, !.fd = getHFileUnixDescriptor(h)]]

(* A sound program closes no handle that another of its calls is using. *)
MayClose(h) == h \in held /\ ~InUse(h)

(* The lookup, and the early returns: stdio is never closed, and a slot     *)
(* that is only reserved is taken for stdio.                                *)
CloseLookup(t, h) ==
    /\ pc[t] = "idle" /\ MayClose(h)
    /\ held' = held \ {h}
    /\ IF getHFileUnixDescriptor(h) = -1
         THEN ret' = <<t, "close", "ERROR_INVALID_HANDLE">> /\ UNCHANGED <<pc, loc>>
         ELSE IF getHFileUnixDescriptor(h) <= LastStd
                THEN ret' = <<t, "close", "NO_ERROR">> /\ UNCHANGED <<pc, loc>>
                ELSE Begin(t, h, "close") /\ UNCHANGED ret
    /\ UNCHANGED <<program, HFiles, MaxHFiles, ufd, exists>>

(* close(fd), without the lock. *)
CloseDescriptor(t) ==
    /\ pc[t] = "close"
    /\ IF ufd[loc[t].fd] = Closed
         THEN /\ Return(t, <<t, "close", "ERROR_ACCESS_DENIED">>)
              /\ UNCHANGED ufd
         ELSE /\ ufd' = [ufd EXCEPT ![loc[t].fd] = Closed]
              /\ Goto(t, "mark")
              /\ UNCHANGED <<loc, ret>>
    /\ UNCHANGED <<program, HFiles, MaxHFiles, exists, held>>

(* Under the lock again: the slot is free. *)
CloseMark(t) ==
    /\ pc[t] = "mark"
    /\ HFiles' = [HFiles EXCEPT ![loc[t].src] = Free]
    /\ Return(t, <<t, "close", "NO_ERROR">>)
    /\ UNCHANGED <<program, MaxHFiles, ufd, exists, held>>

-----------------------------------------------------------------------------
(* DosRead, DosWrite, DosSetFilePtr, DosSetFileSize, DosResetBuffer: the    *)
(* descriptor is looked up under the lock and used without it.              *)

UseLookup(t, h) ==
    /\ pc[t] = "idle" /\ h \in held
    /\ IF getHFileUnixDescriptor(h) = -1
         THEN ret' = <<t, "use", "ERROR_INVALID_HANDLE", h>> /\ UNCHANGED <<pc, loc>>
         ELSE Begin(t, h, "use") /\ UNCHANGED ret
    /\ UNCHANGED <<program, HFiles, MaxHFiles, ufd, exists, held>>

(* What the kernel call reaches: the file opened for a handle, or nothing. *)
UseDescriptor(t) ==
    /\ pc[t] = "use"
    /\ LET f == loc[t].fd
           reached == IF f \in Fds THEN ufd[f] ELSE Closed
       IN Return(t, <<t, "use", IF reached = Closed THEN "EBADF" ELSE "NO_ERROR", loc[t].src, reached>>)
    /\ UNCHANGED <<program, HFiles, MaxHFiles, ufd, exists, held>>

(* DosResetBuffer(0xFFFFFFFF) is to flush every file, but indexes the table *)
(* with hFile, which on a 32-bit machine is the entry in front of it, a     *)
(* number nobody wrote there as a descriptor.                               *)
ResetAllBuffers(t) ==
    /\ pc[t] = "idle"
    /\ \E garbage \in {Closed, LastStd} : ret' = <<t, "flush", {garbage} \ {Closed}>>
    /\ UNCHANGED <<program, HFiles, MaxHFiles, ufd, exists, pc, loc, held>>

-----------------------------------------------------------------------------
(* DosDupHandle *)

(* *pHfile is -1: any free slot, found by Reserve. *)
DupStart(t, h) ==
    /\ pc[t] = "idle" /\ h \in held
    /\ Begin(t, h, "scan")
    /\ UNCHANGED <<program, HFiles, MaxHFiles, ufd, exists, held, ret>>

(* *pHfile is a handle: it must be free, and is not reserved. *)
DupOnto(t, h, target) ==
    /\ pc[t] = "idle" /\ h \in held /\ target \in DOMAIN HFiles
    /\ IF HFiles[target] # Free
         THEN ret' = <<t, "dup", "ERROR_INVALID_TARGET_HANDLE">> /\ UNCHANGED <<pc, loc>>
         ELSE /\ Goto(t, "dup_copy")
              /\ loc' = [loc EXCEPT ![t] = [NoLocals EXCEPT !.src = h, !.i = target]]
              /\ UNCHANGED ret
    /\ UNCHANGED <<program, HFiles, MaxHFiles, ufd, exists, held>>

(* memcpy of the whole entry, then its fd alone, both without the lock. *)
DupCopy(t) ==
    /\ pc[t] = "dup_copy"
    /\ HFiles' = [HFiles EXCEPT ![loc[t].i] = HFiles[loc[t].src]]
    /\ Goto(t, "dup")
    /\ UNCHANGED <<program, MaxHFiles, ufd, exists, loc, held, ret>>

DupSharesTheDescriptor(t) ==
    /\ pc[t] = "dup"
    /\ Return(t, <<t, "dup", "NO_ERROR", loc[t].i>>)
    /\ held' = held \cup {loc[t].i}
    /\ UNCHANGED <<program, HFiles, MaxHFiles, ufd, exists>>

(* A dup() that fails leaves -1 in the slot; the call still succeeds. *)
DupDescriptor(t) ==
    /\ pc[t] = "dup"
    /\ LET from == HFiles[loc[t].src]
       IN IF from \in Fds /\ ufd[from] # Closed /\ FreeFds # {}
            THEN /\ ufd' = [ufd EXCEPT ![Min(FreeFds)] = loc[t].i]
                 /\ HFiles' = [HFiles EXCEPT ![loc[t].i] = Min(FreeFds)]
            ELSE /\ HFiles' = [HFiles EXCEPT ![loc[t].i] = Free]
                 /\ UNCHANGED ufd
    /\ held' = held \cup {loc[t].i}
    /\ Return(t, <<t, "dup", "NO_ERROR", loc[t].i>>)
    /\ UNCHANGED <<program, MaxHFiles, exists>>

-----------------------------------------------------------------------------
(* The table grows, under the lock. *)

(* realloc may move the table, and doDosOpen's `info` with it: a sound      *)
(* program does not grow the table while another of its calls is in it.     *)
MayGrow == \A u \in Thread : pc[u] = "idle"

(* DosSetMaxFH: a smaller table is refused, the new slots are free. *)
DosSetMaxFH(t, n) ==
    /\ MayGrow
    /\ IF n > MaxHFiles
         THEN /\ MaxHFiles' = n
              /\ HFiles' = [h \in 0..(n - 1) |-> IF h < MaxHFiles THEN HFiles[h] ELSE Free]
         ELSE UNCHANGED <<HFiles, MaxHFiles>>
    /\ ret' = <<t, "setmax", IF n < MaxHFiles THEN "ERROR_INVALID_PARAMETER" ELSE "NO_ERROR">>
    /\ UNCHANGED <<program, ufd, exists, pc, loc, held>>

(* DosSetRelMaxFH: as many slots as were added are set free, from the front *)
(* of the table; the new ones keep what realloc left there.                 *)
DosSetRelMaxFH(t, incr) ==
    /\ MayGrow /\ MaxHFiles + incr <= Bound
    /\ IF incr > 0
         THEN /\ MaxHFiles' = MaxHFiles + incr
              /\ \E garbage \in {Free, LastStd} :
                    HFiles' = [h \in 0..(MaxHFiles + incr - 1) |->
                                 IF h < incr THEN Free
                                 ELSE IF h < MaxHFiles THEN HFiles[h] ELSE garbage]
         ELSE UNCHANGED <<HFiles, MaxHFiles>>
    /\ ret' = <<t, "setrelmax", "NO_ERROR">>
    /\ UNCHANGED <<program, ufd, exists, pc, loc, held>>

(* Another process removes or creates the file. *)
FileComesOrGoes ==
    /\ exists' = ~exists
    /\ UNCHANGED <<program, HFiles, MaxHFiles, ufd, pc, loc, held, ret>>

Next ==
    \/ FileComesOrGoes
    \/ \E t \in program.threads :
         \/ \E r \in program.requests : OpenRefused(t, r) \/ OpenStart(t, r)
         \/ Reserve(t) \/ PathRefused(t) \/ PathConverted(t)
         \/ OpenSucceeds(t) \/ OpenFindsTheFile(t) \/ OpenAgain(t) \/ OpenFails(t)
         \/ OpenCheck(t) \/ OpenStore(t)
         \/ \E h \in held : CloseLookup(t, h) \/ UseLookup(t, h) \/ DupStart(t, h)
         \/ \E h \in held, g \in program.targets : DupOnto(t, h, g)
         \/ CloseDescriptor(t) \/ CloseMark(t)
         \/ UseDescriptor(t) \/ ResetAllBuffers(t)
         \/ DupCopy(t) \/ DupDescriptor(t)
         \/ \E n \in FirstMax..Bound : DosSetMaxFH(t, n)
         \/ \E incr \in program.increments : DosSetRelMaxFH(t, incr)

Spec == Init /\ [][Next]_vars

-----------------------------------------------------------------------------
(* Properties *)

Returned(call) == ret # <<>> /\ ret[2] = call

(* A handle the program holds stands for a descriptor that is open and was  *)
(* opened for it: doDosOpen's reservation keeps the slot from the search of *)
(* every other thread until the descriptor is stored, and DosClose gives    *)
(* the slot back only when the descriptor is gone.                          *)
HeldHandlesWork ==
    \A h \in held : HFiles[h] \in Fds /\ ufd[HFiles[h]] = h

(* Between calls nothing is lost: every slot is free or the program's, and  *)
(* every descriptor is in the table.  Each early return of doDosOpen has to *)
(* give back the slot, the descriptor, or both.                             *)
QuietTableIsExact ==
    (\A t \in Thread : pc[t] = "idle") =>
        /\ \A h \in DOMAIN HFiles : HFiles[h] # Free <=> h \in held \cup 0..LastStd
        /\ \A f \in Fds : ufd[f] # Closed => HFiles[ufd[f]] = f

(* doscalls.c:850: a file that cannot be cut to size is an error for "the   *)
(* switch below", so a DosOpen that succeeds leaves an open handle.         *)
FailedTruncateIsReported ==
    (Returned("open") /\ ret[3] = "NO_ERROR" /\ ret[4] \in held) => HFiles[ret[4]] # Free

(* The table keeps the promise of HandleAlloc. *)
Alloc == INSTANCE HandleAlloc
           WITH Handle <- Handles, Descriptor <- Fds, file <- [h \in held |-> HFiles[h]]
ImplementsHandleAlloc == Alloc!HandleAllocSpec
=============================================================================
