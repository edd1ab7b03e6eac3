----------------------------- MODULE Files_proofs -----------------------------
(***************************************************************************)
(* Proofs about files: the table of handles for any number of threads and   *)
(* any sizes, and the searches of any directory.                            *)
(*                                                                          *)
(* What the program was given works until it closes it, and between calls   *)
(* no slot and no descriptor is lost; every step is one of HandleAlloc's.   *)
(* A search delivers what its pattern stands for, once, and no DirFinder    *)
(* loses its handle but where hdir16 is full.                               *)
(***************************************************************************)
EXTENDS HandleTable, DirSearch, FoldTheorems, FiniteSetTheorems, SequenceTheorems

(* What is asked of a program.  It replaces no file and sets its size at    *)
(* once, does not add to the table with DosSetRelMaxFH, and only a program  *)
(* of one thread duplicates onto handles of its choice; to the standard     *)
(* handles any program may try.  For each the code does something else.     *)
Alone == \A t, u \in program.threads : t = u

Careful ==
    /\ \A r \in program.requests : ~(IsReplacing(r) /\ r.sized)
    /\ program.increments \subseteq {0}
    /\ Alone \/ program.targets \subseteq 0 .. LastStd

Std == 0 .. LastStd

(* A call in progress has a slot: doDosOpen and DosDupHandle from the       *)
(* search on, DosClose from the lookup on.  Some have a descriptor too.     *)
Owns(t, h) ==
    \/ pc[t] \in {"path", "open", "retry", "check", "store", "dup_copy", "dup"} /\ loc[t].i = h
    \/ pc[t] \in {"close", "mark"} /\ loc[t].src = h

HasFd(t) == pc[t] \in {"check", "close"} \/ (pc[t] = "store" /\ loc[t].fd # -1)

FdIsItsOwn(t) ==
    loc[t].fd \in Fds /\ ufd[loc[t].fd] # Closed /\ Owns(t, ufd[loc[t].fd])

(* What is in the slot of a call, and what the call knows.                  *)
SlotInv(t) ==
    /\ pc[t] \in {"path", "open", "retry", "check", "store"} => HFiles[loc[t].i] = Reserved
    /\ pc[t] \in {"path", "open", "retry", "check", "store"} => loc[t].req \in program.requests
    /\ pc[t] \in {"scan", "path", "open", "retry"} /\ loc[t].req # NoRequest => loc[t].fd = -1
    /\ pc[t] = "scan" => loc[t].req \in program.requests \cup {NoRequest}
    /\ pc[t] = "check" => loc[t].existed
    /\ pc[t] = "store" => loc[t].fd \in Fds \cup {-1}
    /\ pc[t] = "close" => HFiles[loc[t].src] = loc[t].fd
    /\ pc[t] = "mark" => HFiles[loc[t].src] # Free
    /\ pc[t] \in {"dup_copy", "dup"} \/ (pc[t] = "scan" /\ loc[t].req = NoRequest) => loc[t].src \in held
    /\ pc[t] = "dup_copy" => HFiles[loc[t].i] = Reserved \/ (HFiles[loc[t].i] = Free /\ Alone)
    /\ pc[t] = "dup" => HFiles[loc[t].i] = HFiles[loc[t].src]

(* Slots are the program's, stdio's or one call's.                          *)
OwnInv ==
    /\ held \subseteq DOMAIN HFiles
    /\ \A h \in Std : HFiles[h] = h /\ ufd[h] = h
    /\ \A t \in Thread : pc[t] # "idle" => t \in program.threads
    /\ \A t \in Thread, h \in Handles : Owns(t, h) => h \in DOMAIN HFiles \ (held \cup Std)
    /\ \A t, u \in Thread, h \in Handles : Owns(t, h) /\ Owns(u, h) => t = u
    /\ \A h \in DOMAIN HFiles : HFiles[h] # Free => h \in held \cup Std \/ \E t \in Thread : Owns(t, h)

(* So are descriptors, each for one slot.                                   *)
FdInv ==
    /\ HeldHandlesWork
    /\ \A t \in Thread : HasFd(t) => FdIsItsOwn(t)
    /\ \A f \in Fds : ufd[f] # Closed =>
          \/ ufd[f] \in held \cup Std /\ HFiles[ufd[f]] = f
          \/ \E t \in Thread : HasFd(t) /\ loc[t].fd = f

TableInv ==
    /\ TypeOK /\ Careful
    /\ OwnInv /\ FdInv
    /\ \A t \in Thread : SlotInv(t)

-----------------------------------------------------------------------------

(* A descriptor stands for one slot, and a call has the only one of its own.*)
LEMMA OneEach ==
    ASSUME TableInv
    PROVE  /\ \A f, g \in Fds : ufd[f] # Closed /\ ufd[f] = ufd[g] => f = g
           /\ \A t \in Thread, f \in Fds : ufd[f] # Closed /\ Owns(t, ufd[f])
                                          => HasFd(t) /\ loc[t].fd = f
<1> USE DEF TableInv, OwnInv, FdInv
<1>1. \A f \in Fds : ufd[f] # Closed => ufd[f] \in Handles
  BY DEF TypeOK
<1>2. ASSUME NEW t \in Thread, NEW f \in Fds, ufd[f] # Closed, Owns(t, ufd[f])
      PROVE  HasFd(t) /\ loc[t].fd = f
  <2>1. ufd[f] \notin held \cup Std
    BY <1>1, <1>2
  <2>2. PICK u \in Thread : HasFd(u) /\ loc[u].fd = f
    BY <1>2, <2>1
  <2>3. Owns(u, ufd[f])
    BY <2>2 DEF FdIsItsOwn
  <2> QED
    BY <1>1, <1>2, <2>2, <2>3
<1>3. ASSUME NEW f \in Fds, NEW g \in Fds, ufd[f] # Closed, ufd[f] = ufd[g] PROVE f = g
  <2>1. CASE \E t \in Thread : HasFd(t) /\ loc[t].fd = f
    BY <1>2, <1>3, <2>1 DEF FdIsItsOwn
  <2>2. CASE \E t \in Thread : HasFd(t) /\ loc[t].fd = g
    BY <1>2, <1>3, <2>2 DEF FdIsItsOwn
  <2> QED
    BY <1>3, <2>1, <2>2
<1> QED
  BY <1>2, <1>3

(* The first n naturals are n.                                              *)
LEMMA CountTo ==
    ASSUME NEW n \in Nat
    PROVE  IsFiniteSet(0 .. n - 1) /\ Cardinality(0 .. n - 1) = n
<1>1. 0 \in Int /\ n - 1 \in Int
  OBVIOUS
<1>2. /\ IsFiniteSet(0 .. n - 1)
      /\ Cardinality(0 .. n - 1) = IF 0 > n - 1 THEN 0 ELSE n - 1 - 0 + 1
  BY <1>1, FS_Interval
<1> QED
  BY <1>2

(* With as many descriptors as slots, one is left for a slot that has none. *)
LEMMA DescriptorLeft ==
    ASSUME TableInv, Bound <= NumFds, NEW t \in Thread, pc[t] = "dup"
    PROVE  FreeFds # {}
<1> SUFFICES ASSUME FreeFds = {} PROVE FALSE
  OBVIOUS
<1> DEFINE i == loc[t].i
<1> DEFINE T == Handles \ {i}
<1>0. i \in Handles
  BY DEF TableInv, TypeOK, Locals
<1>1. \A f \in Fds : ufd[f] # Closed /\ ufd[f] # i
  BY OneEach DEF FreeFds, Owns, HasFd
<1>2. ufd \in [Fds -> T]
  BY <1>1 DEF TableInv, TypeOK
<1>3. IsFiniteSet(Fds) /\ Cardinality(Fds) = NumFds
  BY CountTo, SizesAssumption DEF Fds
<1>4. IsFiniteSet(Handles) /\ Cardinality(Handles) = Bound
  BY CountTo, SizesAssumption DEF Handles
<1>5. IsFiniteSet(T) /\ Cardinality(T) < Cardinality(Fds)
  <2>1. IsFiniteSet(T) /\ Cardinality(T) = Bound - 1
    BY <1>0, <1>4, FS_RemoveElement
  <2> QED
    BY <1>3, <2>1, SizesAssumption
<1> HIDE DEF T
<1>6. \E f, g \in Fds : f # g /\ ufd[f] = ufd[g]
  BY <1>2, <1>3, <1>5, FS_PigeonHole
<1> QED
  BY <1>1, <1>6, OneEach

-----------------------------------------------------------------------------
(* Stdio is open in the first slots and nobody is in a call.                *)
LEMMA TableInvInit == Init /\ Careful => TableInv
<1> SUFFICES ASSUME Init, Careful PROVE TableInv
  OBVIOUS
<1> USE SizesAssumption, ClosedAssumption DEF Init, Handles, Fds, Free, Reserved, Std
<1>1. TypeOK
  BY DEF TypeOK, PC, NoLocals, Locals
<1>2. \A t \in Thread, h \in Handles : ~Owns(t, h)
  BY DEF Owns
<1>3. OwnInv
  BY <1>2 DEF OwnInv
<1>4. FdInv
  <2>1. \A h \in held : HFiles[h] = h /\ h \in Fds /\ ufd[h] = h
    OBVIOUS
  <2>2. \A f \in Fds : ufd[f] # Closed => ufd[f] = f /\ f \in Std /\ HFiles[f] = f
    OBVIOUS
  <2>3. \A t \in Thread : ~HasFd(t)
    BY DEF HasFd
  <2> QED
    BY <2>1, <2>2, <2>3 DEF FdInv, HeldHandlesWork
<1>5. \A t \in Thread : SlotInv(t)
  BY DEF SlotInv
<1> QED
  BY <1>1, <1>3, <1>4, <1>5 DEF TableInv

-----------------------------------------------------------------------------
(* A thread goes from one place of a call to another.                       *)
Moves(t, where, l) ==
    /\ pc' = [pc EXCEPT ![t] = where]
    /\ loc' = [loc EXCEPT ![t] = l]

(* One thread goes on; the others stay where they are.                      *)
LEMMA MovesOne ==
    ASSUME TypeOK, NEW t \in Thread, NEW where \in PC, NEW l \in Locals, Moves(t, where, l)
    PROVE  /\ pc' \in [Thread -> PC] /\ loc' \in [Thread -> Locals]
           /\ pc'[t] = where /\ loc'[t] = l
           /\ \A u \in Thread \ {t} : pc'[u] = pc[u] /\ loc'[u] = loc[u]
BY DEF Moves, TypeOK

(* What a thread owns is its own affair.                                    *)
LEMMA OthersOwn ==
    ASSUME NEW u \in Thread, pc'[u] = pc[u], loc'[u] = loc[u]
    PROVE  /\ \A h \in Handles : Owns(u, h)' <=> Owns(u, h)
           /\ HasFd(u)' <=> HasFd(u)
BY DEF Owns, HasFd

(* A step that returns at once, or is not the program's.                    *)
LEMMA StepBeside ==
    ASSUME TableInv, UNCHANGED <<program, HFiles, MaxHFiles, ufd, pc, loc, held>>, exists' \in BOOLEAN
    PROVE  TableInv'
<1> USE DEF TableInv
<1>1. TypeOK' /\ Careful'
  BY DEF TypeOK, Locals, Careful, Alone
<1>2. \A t \in Thread : /\ HasFd(t)' <=> HasFd(t)
                        /\ SlotInv(t)' <=> SlotInv(t)
                        /\ FdIsItsOwn(t)' <=> FdIsItsOwn(t)
                        /\ \A h \in Handles : Owns(t, h)' <=> Owns(t, h)
  BY DEF HasFd, SlotInv, Alone, FdIsItsOwn, Owns
<1>3. DOMAIN HFiles \subseteq Handles
  BY SizesAssumption DEF TypeOK, Handles
<1>4. OwnInv'
  BY <1>2, <1>3 DEF OwnInv
<1>5. FdInv'
  BY <1>2 DEF FdInv, HeldHandlesWork
<1> QED
  BY <1>1, <1>2, <1>4, <1>5

(* A step outside the table, of a thread that has no slot.                  *)
LEMMA StepWithoutSlot ==
    ASSUME TableInv, NEW t \in program.threads, NEW where \in PC, NEW l \in Locals,
           Moves(t, where, l), UNCHANGED <<program, HFiles, MaxHFiles, ufd, held>>, exists' \in BOOLEAN,
           pc[t] \in {"idle", "scan", "use"}, where \in {"idle", "scan", "use"},
           SlotInv(t)'
    PROVE  TableInv'
<1> USE DEF TableInv
<1>0. t \in Thread /\ program \in Programs
  BY ProgramsAssumption DEF TypeOK
<1>1. /\ pc' \in [Thread -> PC] /\ loc' \in [Thread -> Locals]
      /\ pc'[t] = where /\ loc'[t] = l
      /\ \A u \in Thread \ {t} : pc'[u] = pc[u] /\ loc'[u] = loc[u]
  BY <1>0, MovesOne
<1>2. TypeOK'
  BY <1>1 DEF TypeOK, Locals
<1>3. \A u \in Thread, h \in Handles : Owns(u, h)' <=> Owns(u, h)
  BY <1>1 DEF Owns
<1>4. \A u \in Thread : HasFd(u)' <=> HasFd(u)
  BY <1>1 DEF HasFd
<1>5. OwnInv'
  <2>1. \A u \in Thread, h \in Handles : Owns(u, h)' => h \in DOMAIN HFiles \ (held \cup Std)
    BY <1>3 DEF OwnInv
  <2>2. \A u, w \in Thread, h \in Handles : Owns(u, h)' /\ Owns(w, h)' => u = w
    BY <1>3 DEF OwnInv
  <2>3. \A h \in DOMAIN HFiles : h \in Handles
    BY SizesAssumption DEF TypeOK, Handles
  <2>4. \A h \in DOMAIN HFiles : HFiles[h] # Free => h \in held \cup Std \/ \E u \in Thread : Owns(u, h)'
    BY <1>3, <2>3 DEF OwnInv
  <2>5. \A u \in Thread : pc'[u] # "idle" => u \in program.threads
    BY <1>1 DEF OwnInv
  <2> QED
    BY <2>1, <2>2, <2>4, <2>5 DEF OwnInv
<1>6. \A u \in Thread : HasFd(u) => u # t
  BY DEF HasFd
<1>7. FdInv'
  <2>1. HeldHandlesWork'
    BY DEF FdInv, HeldHandlesWork
  <2>2. ASSUME NEW u \in Thread, HasFd(u)' PROVE FdIsItsOwn(u)'
    BY <1>1, <1>4, <1>6, <2>2 DEF FdInv, FdIsItsOwn, Owns
  <2>3. \A f \in Fds : ufd'[f] # Closed =>
            \/ ufd'[f] \in held' \cup Std /\ HFiles'[ufd'[f]] = f
            \/ \E u \in Thread : HasFd(u)' /\ loc'[u].fd = f
    BY <1>1, <1>4, <1>6 DEF FdInv
  <2> QED
    BY <2>1, <2>2, <2>3 DEF FdInv
<1>8. \A u \in Thread \ {t} : SlotInv(u)'
  BY <1>1 DEF SlotInv, Alone
<1>9. Careful'
  BY DEF Careful, Alone
<1> QED
  BY <1>2, <1>5, <1>7, <1>8, <1>9

(* A step of thread t with slot x, which nobody else owns and which is not  *)
(* stdio's: it puts v there, may give x to the program or take it away, and *)
(* changes only descriptors that stand for x or for nothing.                *)
SlotChange(t, x, v, l) ==
    /\ \A h \in Handles : Owns(t, h) \/ Owns(t, h)' => h = x
    /\ \A u \in Thread \ {t} : ~Owns(u, x)
    /\ HFiles' = [HFiles EXCEPT ![x] = v]
    /\ held' \in {held, held \cup {x}, held \ {x}}
    /\ x \in held => HFiles[x] = v
    /\ x \in held /\ x \notin held' => ~InUse(x)
    /\ v # Free => x \in held' \/ Owns(t, x)'
    /\ ~(x \in held' /\ Owns(t, x)')
    /\ ufd' \in [Fds -> Handles \cup {Closed}]
    /\ \A f \in Fds : ufd'[f] = ufd[f] \/ (ufd[f] \in {x, Closed} /\ ufd'[f] \in {x, Closed})
    /\ x \in held' => v \in Fds /\ ufd'[v] = x
    /\ HasFd(t)' => l.fd \in Fds /\ ufd'[l.fd] = x /\ Owns(t, x)'
    /\ \A f \in Fds : ufd'[f] = x => (x \in held' /\ v = f) \/ (HasFd(t)' /\ l.fd = f)

(* A step of a thread that changes one slot, and perhaps a descriptor that  *)
(* stands for it, keeps the invariant: the cases below differ only in who   *)
(* has the slot before and after.                                           *)
LEMMA StepWithSlot ==
    ASSUME TableInv, NEW t \in program.threads, NEW where \in PC, NEW l \in Locals,
           Moves(t, where, l), UNCHANGED <<program, MaxHFiles>>, exists' \in BOOLEAN,
           NEW x \in DOMAIN HFiles \ Std, NEW v \in Fds \cup {Free, Reserved},
           SlotChange(t, x, v, l), SlotInv(t)'
    PROVE  TableInv'
<1> USE DEF SlotChange
<1> USE DEF TableInv
<1>0. t \in Thread /\ program \in Programs
  BY ProgramsAssumption DEF TypeOK
<1>1. /\ pc' \in [Thread -> PC] /\ loc' \in [Thread -> Locals]
      /\ pc'[t] = where /\ loc'[t] = l
      /\ \A u \in Thread \ {t} : pc'[u] = pc[u] /\ loc'[u] = loc[u]
  BY <1>0, MovesOne
<1>2. /\ \A u \in Thread \ {t}, h \in Handles : Owns(u, h)' <=> Owns(u, h)
      /\ \A u \in Thread \ {t} : HasFd(u)' <=> HasFd(u)
  BY <1>1, OthersOwn
<1>3. x \in Handles /\ x \notin Std /\ DOMAIN HFiles \subseteq Handles /\ DOMAIN HFiles' = DOMAIN HFiles
  BY SizesAssumption DEF TypeOK, Handles
<1>4. HFiles'[x] = v /\ \A h \in DOMAIN HFiles \ {x} : HFiles'[h] = HFiles[h]
  BY DEF TypeOK
<1>5. held \subseteq DOMAIN HFiles /\ held' \subseteq DOMAIN HFiles /\ \A h \in Handles \ {x} : h \in held' <=> h \in held
  BY DEF OwnInv
<1>6. HFiles' \in [0 .. MaxHFiles - 1 -> Fds \cup {Free, Reserved}]
  BY DEF TypeOK
<1>7. TypeOK'
  BY <1>1, <1>3, <1>5, <1>6 DEF TypeOK, Locals
<1>8. \A h \in Std : h \in Handles /\ h # x /\ h \in DOMAIN HFiles /\ h \in Fds /\ h # Closed
  BY <1>3, SizesAssumption, ClosedAssumption DEF Std, Handles, Fds, TypeOK
<1>9. OwnInv'
  <2>1. \A h \in Std : HFiles'[h] = h /\ ufd'[h] = h
    BY <1>4, <1>8 DEF OwnInv
  <2>2. \A u \in Thread, h \in Handles : Owns(u, h)' => h \in DOMAIN HFiles \ (held' \cup Std)
    BY <1>2, <1>3, <1>5 DEF OwnInv
  <2>3. \A u, w \in Thread, h \in Handles : Owns(u, h)' /\ Owns(w, h)' => u = w
    BY <1>2 DEF OwnInv
  <2>4. \A h \in DOMAIN HFiles : HFiles'[h] # Free => h \in held' \cup Std \/ \E u \in Thread : Owns(u, h)'
    <3> SUFFICES ASSUME NEW h \in DOMAIN HFiles, HFiles'[h] # Free
                 PROVE  h \in held' \cup Std \/ \E u \in Thread : Owns(u, h)'
      OBVIOUS
    <3>1. CASE h = x
      BY <1>0, <1>4, <3>1
    <3>2. CASE h # x
      <4>1. h \in held \cup Std \/ \E u \in Thread : Owns(u, h)
        BY <1>4, <3>2 DEF OwnInv
      <4> QED
        BY <1>2, <1>3, <1>5, <3>2, <4>1
    <3> QED
      BY <3>1, <3>2
  <2>5. \A u \in Thread : pc'[u] # "idle" => u \in program.threads
    BY <1>1 DEF OwnInv
  <2> QED
    BY <1>3, <1>5, <2>1, <2>2, <2>3, <2>4, <2>5 DEF OwnInv
<1>10. FdInv'
  <2>1. \A h \in held' : HFiles'[h] \in Fds /\ ufd'[HFiles'[h]] = h
    <3> SUFFICES ASSUME NEW h \in held' PROVE HFiles'[h] \in Fds /\ ufd'[HFiles'[h]] = h
      OBVIOUS
    <3>1. CASE h = x
      BY <1>4, <3>1
    <3>2. CASE h # x
      <4>1. h \in held /\ HFiles'[h] = HFiles[h] /\ h \in Handles
        BY <1>3, <1>4, <1>5, <3>2
      <4>2. HFiles[h] \in Fds /\ ufd[HFiles[h]] = h /\ h # Closed
        BY <4>1, ClosedAssumption DEF FdInv, HeldHandlesWork, Handles
      <4> QED
        BY <3>2, <4>1, <4>2
    <3> QED
      BY <3>1, <3>2
  <2>2. \A u \in Thread : HasFd(u)' => FdIsItsOwn(u)'
    <3> SUFFICES ASSUME NEW u \in Thread, HasFd(u)' PROVE FdIsItsOwn(u)'
      OBVIOUS
    <3>1. CASE u = t
      BY <1>1, <1>3, <3>1, ClosedAssumption DEF Handles, FdIsItsOwn, Owns
    <3>2. CASE u # t
      <4> DEFINE f == loc[u].fd
      <4>1. f \in Fds /\ ufd[f] # Closed /\ Owns(u, ufd[f]) /\ loc'[u].fd = f
        BY <1>1, <1>2, <3>2 DEF FdInv, FdIsItsOwn
      <4>2. ufd[f] # x /\ ufd[f] \in Handles
        BY <3>2, <4>1 DEF TypeOK
      <4>3. ufd'[f] = ufd[f] /\ pc'[u] = pc[u] /\ loc'[u] = loc[u]
        BY <1>1, <3>2, <4>1, <4>2
      <4> QED
        BY <4>1, <4>3 DEF FdIsItsOwn, Owns
    <3> QED
      BY <3>1, <3>2
  <2>3. \A f \in Fds : ufd'[f] # Closed =>
            \/ ufd'[f] \in held' \cup Std /\ HFiles'[ufd'[f]] = f
            \/ \E u \in Thread : HasFd(u)' /\ loc'[u].fd = f
    <3> SUFFICES ASSUME NEW f \in Fds, ufd'[f] # Closed
                 PROVE  \/ ufd'[f] \in held' \cup Std /\ HFiles'[ufd'[f]] = f
                        \/ \E u \in Thread : HasFd(u)' /\ loc'[u].fd = f
      OBVIOUS
    <3>1. CASE ufd'[f] = x
      BY <1>0, <1>1, <1>4, <3>1
    <3>2. CASE ufd'[f] # x
      <4>1. ufd'[f] = ufd[f] /\ ufd[f] \in Handles
        BY <3>2 DEF TypeOK
      <4>2. CASE ufd[f] \in held \cup Std /\ HFiles[ufd[f]] = f
        BY <1>4, <1>5, <1>8, <3>2, <4>1, <4>2
      <4>3. ASSUME NEW u \in Thread, HasFd(u), loc[u].fd = f
            PROVE  \E w \in Thread : HasFd(w)' /\ loc'[w].fd = f
        <5>1. Owns(u, ufd[f])
          BY <4>3 DEF FdInv, FdIsItsOwn
        <5>2. u # t
          BY <3>2, <4>1, <5>1
        <5> QED
          BY <1>1, <1>2, <4>3, <5>2
      <4> QED
        BY <4>1, <4>2, <4>3 DEF FdInv
    <3> QED
      BY <3>1, <3>2
  <2> QED
    BY <2>1, <2>2, <2>3 DEF FdInv, HeldHandlesWork
<1>11. ASSUME NEW u \in Thread \ {t} PROVE SlotInv(u)'
  <2>1. SlotInv(u) /\ pc'[u] = pc[u] /\ loc'[u] = loc[u]
    BY <1>1
  <2>2. loc[u].i \in Handles /\ loc[u].src \in Handles
    BY DEF TypeOK, Locals
  <2>3. pc[u] \in {"path", "open", "retry", "check", "store", "dup_copy", "dup"} =>
            Owns(u, loc[u].i) /\ loc[u].i \in DOMAIN HFiles /\ HFiles'[loc[u].i] = HFiles[loc[u].i]
    <3>1. pc[u] \in {"path", "open", "retry", "check", "store", "dup_copy", "dup"} => Owns(u, loc[u].i)
      BY DEF Owns
    <3> QED
      BY <1>4, <2>2, <3>1 DEF OwnInv
  <2>4. pc[u] \in {"close", "mark"} => HFiles'[loc[u].src] = HFiles[loc[u].src]
    <3>1. pc[u] \in {"close", "mark"} => Owns(u, loc[u].src)
      BY DEF Owns
    <3> QED
      BY <1>4, <2>2, <3>1 DEF OwnInv
  <2>5. loc[u].src \in held /\ pc[u] \in {"scan", "dup_copy", "dup"} =>
            loc[u].src \in held' /\ HFiles'[loc[u].src] = HFiles[loc[u].src]
    BY <1>4, <1>5, <2>2 DEF InUse
  <2> QED
    BY <2>1, <2>3, <2>4, <2>5 DEF SlotInv, Alone
<1>12. Careful'
  BY DEF Careful, Alone
<1> QED
  BY <1>7, <1>9, <1>10, <1>11, <1>12

(* The same for a call that has found its slot, until it returns.           *)
Placed == {"path", "open", "retry", "check", "store", "dup_copy", "dup"}

(* What the invariant says of a call that has found its slot.               *)
LEMMA OwnSlot ==
    ASSUME TableInv, NEW t \in program.threads, pc[t] \in Placed
    PROVE  /\ t \in Thread /\ loc[t] \in Locals
           /\ loc[t].i \in DOMAIN HFiles \ Std /\ loc[t].i \in Handles /\ loc[t].i \notin held
           /\ \A h \in Handles : Owns(t, h) <=> h = loc[t].i
           /\ \A u \in Thread \ {t} : ~Owns(u, loc[t].i)
           /\ \A f \in Fds : ufd[f] = loc[t].i => HasFd(t) /\ loc[t].fd = f
           /\ HasFd(t) => loc[t].fd \in Fds /\ ufd[loc[t].fd] = loc[t].i
<1> USE DEF TableInv, Placed
<1>1. t \in Thread /\ loc[t] \in Locals /\ loc[t].i \in Handles /\ Owns(t, loc[t].i)
  BY ProgramsAssumption DEF TypeOK, Locals, Owns
<1>2. loc[t].i \in DOMAIN HFiles \ (held \cup Std) /\ \A u \in Thread \ {t} : ~Owns(u, loc[t].i)
  BY <1>1 DEF OwnInv
<1>3. \A h \in Handles : Owns(t, h) => h = loc[t].i
  BY DEF Owns
<1>4. \A f \in Fds : ufd[f] = loc[t].i => HasFd(t) /\ loc[t].fd = f
  BY <1>1, OneEach, ClosedAssumption DEF Handles
<1>5. HasFd(t) => loc[t].fd \in Fds /\ ufd[loc[t].fd] = loc[t].i
  <2> SUFFICES ASSUME HasFd(t) PROVE loc[t].fd \in Fds /\ ufd[loc[t].fd] = loc[t].i
    OBVIOUS
  <2>1. FdIsItsOwn(t)
    BY <1>1 DEF FdInv
  <2>2. loc[t].fd \in Fds /\ ufd[loc[t].fd] \in Handles
    BY <2>1 DEF FdIsItsOwn, TypeOK
  <2> QED
    BY <1>3, <2>1, <2>2 DEF FdIsItsOwn
<1> QED
  BY <1>1, <1>2, <1>3, <1>4, <1>5

GoesWithFd(where, f) == where = "check" \/ (where = "store" /\ f # -1)

OwnSlotChange(t, x, where, v, l) ==
    /\ x = loc[t].i
    /\ where # "idle" => l.i = x
    /\ HFiles' = [HFiles EXCEPT ![x] = v]
    /\ held' = IF where # "idle" \/ v = Free THEN held ELSE held \cup {x}
    /\ ufd' \in [Fds -> Handles \cup {Closed}]
    /\ \A f \in Fds : ufd'[f] = ufd[f] \/ (ufd[f] \in {x, Closed} /\ ufd'[f] \in {x, Closed})
    /\ where = "idle" /\ v # Free => v \in Fds /\ ufd'[v] = x
    /\ GoesWithFd(where, l.fd) => l.fd \in Fds /\ ufd'[l.fd] = x
    /\ \A f \in Fds : ufd'[f] = x => (where = "idle" /\ v = f) \/ (GoesWithFd(where, l.fd) /\ l.fd = f)

(* Such a call changes its own slot, and keeps it or returns with it.       *)
LEMMA StepWithOwnSlot ==
    ASSUME TableInv, NEW t \in program.threads, pc[t] \in Placed,
           NEW x \in Handles, NEW where \in Placed \cup {"idle"}, NEW l \in Locals,
           Moves(t, where, l), UNCHANGED <<program, MaxHFiles>>, exists' \in BOOLEAN,
           NEW v \in Fds \cup {Free, Reserved}, OwnSlotChange(t, x, where, v, l), SlotInv(t)'
    PROVE  TableInv'
<1> USE DEF OwnSlotChange
<1>1. /\ t \in Thread /\ loc[t] \in Locals
      /\ x \in DOMAIN HFiles \ Std /\ x \notin held
      /\ \A h \in Handles : Owns(t, h) <=> h = x
      /\ \A u \in Thread \ {t} : ~Owns(u, x)
  BY OwnSlot
<1>2. pc'[t] = where /\ loc'[t] = l /\ where \in PC
  BY <1>1, MovesOne DEF TableInv, Placed, PC
<1>3. \A h \in Handles : Owns(t, h)' <=> (where # "idle" /\ h = x)
  BY <1>2 DEF Owns, Placed
<1>4. Owns(t, x)' <=> where # "idle"
  BY <1>3
<1>5. HasFd(t)' <=> GoesWithFd(where, l.fd)
  BY <1>2 DEF HasFd, GoesWithFd, Placed
<1>6. GoesWithFd(where, l.fd) => where # "idle"
  BY DEF GoesWithFd
<1>7. held' \in {held, held \cup {x}, held \ {x}} /\ (x \in held' <=> where = "idle" /\ v # Free)
  BY <1>1
<1>8. \A h \in Handles : Owns(t, h) \/ Owns(t, h)' => h = x
  BY <1>1, <1>3
<1>9. HasFd(t)' => l.fd \in Fds /\ ufd'[l.fd] = x /\ Owns(t, x)'
  BY <1>4, <1>5, <1>6
<1>10. \A f \in Fds : ufd'[f] = x => (x \in held' /\ v = f) \/ (HasFd(t)' /\ l.fd = f)
  BY <1>5, <1>7 DEF Free, Fds
<1>11. (v # Free => x \in held' \/ Owns(t, x)') /\ ~(x \in held' /\ Owns(t, x)')
  BY <1>1, <1>4, <1>7
<1>12. (x \in held => HFiles[x] = v) /\ (x \in held /\ x \notin held' => ~InUse(x))
  BY <1>1
<1>13. where \in PC /\ x \in DOMAIN HFiles \ Std /\ \A u \in Thread \ {t} : ~Owns(u, x)
  BY <1>1, <1>2
<1>14. SlotChange(t, x, v, l)
  BY <1>7, <1>8, <1>9, <1>10, <1>11, <1>12, <1>13 DEF SlotChange
<1> QED
  BY <1>13, <1>14, StepWithSlot

-----------------------------------------------------------------------------
(* The local variables of a call.                                           *)
LEMMA LocalTypes ==
    /\ NoLocals \in Locals
    /\ \A l \in Locals, r \in program.requests : [l EXCEPT !.req = r] \in Locals
    /\ \A l \in Locals, h \in Handles, f \in Fds \cup {Free, Reserved} :
           [l EXCEPT !.src = h, !.fd = f] \in Locals
    /\ \A l \in Locals, g, h \in Handles : [l EXCEPT !.src = h, !.i = g] \in Locals
    /\ \A l \in Locals, h \in Handles : [l EXCEPT !.i = h] \in Locals
    /\ \A l \in Locals : [l EXCEPT !.existed = TRUE] \in Locals
    /\ \A l \in Locals, f \in Fds : [l EXCEPT !.fd = f, !.existed = TRUE] \in Locals
<1> USE SizesAssumption DEF Free, Reserved, Handles, Fds
<1>1. NoLocals \in Locals
  BY DEF NoLocals, Locals
<1>2. \A l \in Locals, r \in program.requests : [l EXCEPT !.req = r] \in Locals
  BY DEF Locals
<1>3. \A l \in Locals, h \in Handles, f \in Fds \cup {Free, Reserved} :
           [l EXCEPT !.src = h, !.fd = f] \in Locals
  BY DEF Locals
<1>4. \A l \in Locals, g, h \in Handles : [l EXCEPT !.src = h, !.i = g] \in Locals
  BY DEF Locals
<1>5. \A l \in Locals, h \in Handles : [l EXCEPT !.i = h] \in Locals
  BY DEF Locals
<1>6. \A l \in Locals : [l EXCEPT !.existed = TRUE] \in Locals
  BY DEF Locals
<1>7. \A l \in Locals, f \in Fds : [l EXCEPT !.fd = f, !.existed = TRUE] \in Locals
  BY DEF Locals
<1> QED
  BY <1>1, <1>2, <1>3, <1>4, <1>5, <1>6, <1>7

(* A DosDupHandle is not taken for a DosOpen.                               *)
LEMMA RequestsDiffer ==
    ASSUME program \in Programs
    PROVE  NoRequest \notin program.requests
BY ProgramsAssumption DEF OpenRequest, NoRequest

-----------------------------------------------------------------------------
(* DosOpen *)

(* DosOpen begins: no slot yet.                                             *)
LEMMA OpenStartKeeps ==
    ASSUME TableInv, NEW t \in program.threads, NEW r \in program.requests, OpenStart(t, r)
    PROVE  TableInv'
<1> DEFINE l == [NoLocals EXCEPT !.req = r]
<1>1. Moves(t, "scan", l) /\ pc[t] = "idle" /\ UNCHANGED <<program, HFiles, MaxHFiles, ufd, exists, held>>
  BY DEF OpenStart, Goto, Moves
<1>2. l \in Locals
  BY LocalTypes
<1>3. exists' \in BOOLEAN /\ t \in Thread
  BY <1>1, ProgramsAssumption DEF TableInv, TypeOK
<1>4. SlotInv(t)'
  <2>1. pc'[t] = "scan" /\ loc'[t] = l
    BY <1>1, <1>2, <1>3, MovesOne DEF TableInv, PC
  <2>2. l.req = r /\ l.fd = -1 /\ r # NoRequest
    BY RequestsDiffer DEF TableInv, TypeOK, NoLocals
  <2> QED
    BY <1>1, <2>1, <2>2 DEF SlotInv
<1> QED
  BY <1>1, <1>2, <1>3, <1>4, StepWithoutSlot DEF PC

(* The slot found is free, and no other call has it.                        *)
LEMMA FreeSlotIsNobodys ==
    ASSUME TableInv, NEW t \in Thread, NEW x \in DOMAIN HFiles, HFiles[x] = Free,
           pc[t] \in {"idle", "scan"}
    PROVE  /\ x \in Handles /\ x \notin held \cup Std
           /\ \A u \in Thread : ~Owns(u, x) \/ (u # t /\ Alone /\ t \notin program.threads)
           /\ \A f \in Fds : ufd[f] # x
<1> USE DEF TableInv
<1>1. x \in Handles
  BY SizesAssumption DEF TypeOK, Handles
<1>2. x \notin held \cup Std
  BY SizesAssumption DEF OwnInv, FdInv, HeldHandlesWork, Std, Free, Fds
<1>3. \A u \in Thread : Owns(u, x) => ~HasFd(u) /\ u # t /\ Alone /\ u \in program.threads
  <2> SUFFICES ASSUME NEW u \in Thread, Owns(u, x)
               PROVE  pc[u] = "dup_copy" /\ Alone /\ u \in program.threads
    BY DEF HasFd
  <2>1. Free # Reserved /\ Free \notin Fds
    BY DEF Free, Reserved, Fds
  <2>2. pc[u] \notin {"path", "open", "retry", "check", "store", "mark"}
    BY <2>1 DEF SlotInv, Owns
  <2>3. pc[u] # "close"
    BY <2>1 DEF SlotInv, Owns, FdInv, HasFd, FdIsItsOwn
  <2>4. pc[u] # "dup"
    BY <2>1 DEF SlotInv, Owns, FdInv, HeldHandlesWork
  <2> QED
    BY <2>1, <2>2, <2>3, <2>4 DEF Owns, SlotInv, OwnInv
<1>4. ASSUME NEW f \in Fds, ufd[f] = x PROVE FALSE
  BY <1>1, <1>2, <1>3, <1>4, ClosedAssumption DEF FdInv, FdIsItsOwn, Handles
<1> QED
  BY <1>1, <1>2, <1>3, <1>4 DEF Alone

(* The search under the lock: the slot becomes the call's, or it fails.     *)
LEMMA ReserveKeeps ==
    ASSUME TableInv, NEW t \in program.threads, Reserve(t)
    PROVE  TableInv'
<1> USE DEF TableInv
<1> DEFINE free == {h \in DOMAIN HFiles : HFiles[h] = Free}
<1>1. t \in Thread /\ pc[t] = "scan" /\ exists' \in BOOLEAN /\ loc[t] \in Locals
      /\ UNCHANGED <<program, MaxHFiles, ufd, held>>
  BY ProgramsAssumption DEF TypeOK, Reserve
<1>2. CASE free = {}
  <2>1. Moves(t, "idle", NoLocals) /\ HFiles' = HFiles
    BY <1>2 DEF Reserve, Return, Goto, Moves
  <2>2. SlotInv(t)'
    BY <1>1, <2>1, MovesOne, LocalTypes DEF PC, SlotInv
  <2> QED
    BY <1>1, <2>1, <2>2, StepWithoutSlot, LocalTypes DEF PC
<1>3. CASE free # {}
  <2> DEFINE where == IF IsOpening(t) THEN "path" ELSE "dup_copy"
  <2>1. PICK x \in DOMAIN HFiles : x = Min(free) /\ HFiles[x] = Free
    <3>1. free \in SUBSET Nat
      BY DEF TypeOK
    <3> QED
      BY <1>3, <3>1, LeastNatural
  <2> DEFINE l == [loc[t] EXCEPT !.i = x]
  <2>2. Moves(t, where, l) /\ HFiles' = [HFiles EXCEPT ![x] = Reserved]
    BY <1>3, <2>1 DEF Reserve, Goto, Moves
  <2>3. /\ x \in Handles /\ x \notin held \cup Std
        /\ \A u \in Thread : ~Owns(u, x)
        /\ \A f \in Fds : ufd[f] # x
    BY <1>1, <2>1, FreeSlotIsNobodys
  <2>4. l \in Locals /\ where \in PC /\ l.i = x
    BY <1>1, <2>3, LocalTypes DEF PC, Locals
  <2>5. pc'[t] = where /\ loc'[t] = l
    BY <1>1, <2>2, <2>4, MovesOne
  <2>6. SlotInv(t)'
    BY <1>1, <2>1, <2>2, <2>4, <2>5, RequestsDiffer DEF SlotInv, IsOpening, TypeOK, Locals
  <2>7. \A h \in Handles : Owns(t, h) \/ Owns(t, h)' => h = x
    BY <1>1, <2>4, <2>5 DEF Owns
  <2>8. Owns(t, x)' /\ ~HasFd(t)'
    BY <2>4, <2>5 DEF Owns, HasFd
  <2>9. /\ x \in DOMAIN HFiles \ Std /\ ufd' \in [Fds -> Handles \cup {Closed}] /\ held' = held
        /\ Reserved \in Fds \cup {Free, Reserved} /\ \A f \in Fds : ufd'[f] = ufd[f]
    BY <1>1, <2>3 DEF TypeOK
  <2> HIDE DEF where, l, free
  <2>10. SlotChange(t, x, Reserved, l)
    BY <1>1, <2>2, <2>3, <2>7, <2>8, <2>9 DEF SlotChange
  <2> QED
    BY <1>1, <2>2, <2>4, <2>6, <2>9, <2>10, StepWithSlot
<1> QED
  BY <1>2, <1>3

(* makeUnixPath fails: the slot is given back.                              *)
LEMMA PathRefusedKeeps ==
    ASSUME TableInv, NEW t \in program.threads, PathRefused(t)
    PROVE  TableInv'
<1> USE DEF TableInv
<1>1. PICK x \in Handles : x = loc[t].i
  BY OwnSlot DEF PathRefused, Placed
<1>2. /\ pc[t] = "path" /\ Moves(t, "idle", NoLocals) /\ HFiles' = [HFiles EXCEPT ![x] = Free]
      /\ UNCHANGED <<program, MaxHFiles, ufd, exists, held>>
  BY <1>1 DEF PathRefused, Return, Goto, Moves, StoredIn
<1>3. t \in Thread /\ x \notin held /\ \A f \in Fds : ufd[f] # x
  BY <1>1, <1>2, OwnSlot DEF Placed, HasFd
<1>4. SlotInv(t)'
  BY <1>2, <1>3, MovesOne, LocalTypes DEF PC, SlotInv
<1>5. exists' \in BOOLEAN /\ ufd' \in [Fds -> Handles \cup {Closed}]
  BY <1>2 DEF TypeOK
<1>6. ~GoesWithFd("idle", NoLocals.fd) /\ pc[t] \in Placed /\ "idle" \in Placed \cup {"idle"}
  BY <1>2 DEF Placed, GoesWithFd
<1>7. Free \in Fds \cup {Free, Reserved} /\ NoLocals \in Locals
  BY LocalTypes
<1>8. OwnSlotChange(t, x, "idle", Free, NoLocals)
  BY <1>1, <1>2, <1>3, <1>5, <1>6 DEF OwnSlotChange
<1> QED
  BY <1>2, <1>4, <1>5, <1>6, <1>7, <1>8, StepWithOwnSlot

(* The call goes on with its slot reserved and no descriptor.               *)
LEMMA StaysReserved ==
    ASSUME TableInv, NEW t \in program.threads, pc[t] \in {"path", "open", "retry"},
           NEW where \in {"open", "retry", "store"}, NEW l \in Locals, Moves(t, where, l),
           l.i = loc[t].i, l.req = loc[t].req, l.fd = -1,
           UNCHANGED <<program, HFiles, MaxHFiles, ufd, exists, held>>
    PROVE  TableInv'
<1> USE DEF TableInv
<1>1. PICK x \in Handles : x = loc[t].i
  BY OwnSlot DEF Placed
<1>2. /\ t \in Thread /\ x \in DOMAIN HFiles /\ x \notin held
      /\ \A f \in Fds : ufd[f] # x
  BY <1>1, OwnSlot DEF Placed, HasFd
<1>3. HFiles[x] = Reserved /\ loc[t].req \in program.requests
  BY <1>1, <1>2 DEF SlotInv
<1>4. HFiles' = [HFiles EXCEPT ![x] = Reserved]
  BY <1>3 DEF TypeOK
<1>5. SlotInv(t)'
  BY <1>1, <1>2, <1>3, MovesOne DEF PC, SlotInv
<1>6. exists' \in BOOLEAN /\ ufd' \in [Fds -> Handles \cup {Closed}]
  BY DEF TypeOK
<1>7. ~GoesWithFd(where, l.fd) /\ pc[t] \in Placed /\ where \in Placed \cup {"idle"} /\ where # "idle"
  BY DEF Placed, GoesWithFd
<1>8. Reserved \in Fds \cup {Free, Reserved}
  OBVIOUS
<1>9. OwnSlotChange(t, x, where, Reserved, l)
  BY <1>1, <1>2, <1>4, <1>6, <1>7 DEF OwnSlotChange
<1> QED
  BY <1>5, <1>6, <1>7, <1>8, <1>9, StepWithOwnSlot

(* makeUnixPath succeeds.                                                   *)
LEMMA PathConvertedKeeps ==
    ASSUME TableInv, NEW t \in program.threads, PathConverted(t)
    PROVE  TableInv'
<1>1. pc[t] = "path" /\ UNCHANGED <<program, HFiles, MaxHFiles, ufd, exists, held>>
  BY DEF PathConverted
<1>2. t \in Thread /\ loc[t] \in Locals /\ loc[t].req \in program.requests /\ loc[t].fd = -1
  BY <1>1, OwnSlot, RequestsDiffer DEF Placed, TableInv, TypeOK, SlotInv
<1>3. Moves(t, "open", loc[t])
  BY <1>2 DEF PathConverted, Goto, Moves, TableInv, TypeOK
<1> QED
  BY <1>1, <1>2, <1>3, StaysReserved

(* The file exists: open() comes again, without O_EXCL.                     *)
LEMMA OpenFindsTheFileKeeps ==
    ASSUME TableInv, NEW t \in program.threads, OpenFindsTheFile(t)
    PROVE  TableInv'
<1> DEFINE l == [loc[t] EXCEPT !.existed = TRUE]
<1>1. pc[t] = "open" /\ UNCHANGED <<program, HFiles, MaxHFiles, ufd, exists, held>>
  BY DEF OpenFindsTheFile
<1>2. t \in Thread /\ loc[t] \in Locals /\ loc[t].req \in program.requests /\ loc[t].fd = -1
  BY <1>1, OwnSlot, RequestsDiffer DEF Placed, TableInv, TypeOK, SlotInv
<1>3. Moves(t, "retry", l)
  BY <1>2 DEF OpenFindsTheFile, Goto, Moves
<1>4. l \in Locals /\ l.i = loc[t].i /\ l.req = loc[t].req /\ l.fd = -1
  BY <1>2, LocalTypes DEF Locals
<1> QED
  BY <1>1, <1>2, <1>3, <1>4, StaysReserved

(* open() fails: the slot is kept up to the store, which gives it back.     *)
LEMMA OpenFailsKeeps ==
    ASSUME TableInv, NEW t \in program.threads, OpenFails(t)
    PROVE  TableInv'
<1>1. pc[t] \in {"open", "retry"} /\ UNCHANGED <<program, HFiles, MaxHFiles, ufd, exists, held>>
  BY DEF OpenFails
<1>2. t \in Thread /\ loc[t] \in Locals /\ loc[t].req \in program.requests /\ loc[t].fd = -1
  BY <1>1, OwnSlot, RequestsDiffer DEF Placed, TableInv, TypeOK, SlotInv
<1>3. Moves(t, "store", loc[t])
  BY <1>2 DEF OpenFails, Goto, Moves, TableInv, TypeOK
<1> QED
  BY <1>1, <1>2, <1>3, StaysReserved

(* The lowest free descriptor is one that stands for nothing.               *)
LEMMA LowestDescriptor ==
    ASSUME FreeFds # {}
    PROVE  Min(FreeFds) \in Fds /\ ufd[Min(FreeFds)] = Closed
<1>1. FreeFds \in SUBSET Nat
  BY DEF FreeFds, Fds
<1>2. Min(FreeFds) \in FreeFds
  BY <1>1, LeastNatural
<1> QED
  BY <1>2 DEF FreeFds

(* open() answers with a descriptor that stands for the slot.               *)
LEMMA OpenedKeeps ==
    ASSUME TableInv, NEW t \in program.threads, pc[t] \in {"open", "retry"}, Opened(t),
           UNCHANGED <<program, HFiles, MaxHFiles, held>>
    PROVE  TableInv'
<1> USE DEF TableInv
<1>1. PICK x \in Handles : x = loc[t].i
  BY OwnSlot DEF Placed
<1>2. /\ t \in Thread /\ loc[t] \in Locals /\ x \in DOMAIN HFiles /\ x \notin held
      /\ \A f \in Fds : ufd[f] # x
  BY <1>1, OwnSlot DEF Placed, HasFd
<1>3. HFiles[x] = Reserved /\ loc[t].req \in program.requests
  BY <1>1, <1>2 DEF SlotInv
<1>4. PICK f \in Fds : f = Min(FreeFds) /\ ufd[f] = Closed
  BY LowestDescriptor DEF Opened
<1> DEFINE l == [loc[t] EXCEPT !.fd = f, !.existed = TRUE]
<1>5. l \in Locals /\ l.i = x /\ l.fd = f /\ l.existed /\ l.req = loc[t].req
  BY <1>1, <1>2, LocalTypes DEF Locals
<1>6. Moves(t, "check", l) /\ ufd' = [ufd EXCEPT ![f] = x] /\ exists' \in BOOLEAN
  BY <1>1, <1>2, <1>4 DEF Opened, Goto, Moves, TypeOK
<1> HIDE DEF l
<1>7. HFiles' = [HFiles EXCEPT ![x] = Reserved]
  BY <1>3 DEF TypeOK
<1>8. SlotInv(t)'
  BY <1>2, <1>3, <1>5, <1>6, MovesOne DEF PC, SlotInv
<1>9. /\ ufd' \in [Fds -> Handles \cup {Closed}]
      /\ ufd'[f] = x /\ \A g \in Fds \ {f} : ufd'[g] = ufd[g]
  BY <1>6 DEF TypeOK
<1>10. GoesWithFd("check", l.fd) /\ pc[t] \in Placed /\ "check" \in Placed \cup {"idle"} /\ "check" # "idle"
  BY DEF Placed, GoesWithFd
<1>11. Reserved \in Fds \cup {Free, Reserved}
  OBVIOUS
<1>12. OwnSlotChange(t, x, "check", Reserved, l)
  BY <1>1, <1>2, <1>4, <1>5, <1>7, <1>9, <1>10 DEF OwnSlotChange
<1> QED
  BY <1>5, <1>6, <1>8, <1>10, <1>11, <1>12, StepWithOwnSlot

(* The first open() succeeds.                                               *)
LEMMA OpenSucceedsKeeps ==
    ASSUME TableInv, NEW t \in program.threads, OpenSucceeds(t)
    PROVE  TableInv'
BY OpenedKeeps DEF OpenSucceeds

(* The second one does.                                                     *)
LEMMA OpenAgainKeeps ==
    ASSUME TableInv, NEW t \in program.threads, OpenAgain(t)
    PROVE  TableInv'
BY OpenedKeeps DEF OpenAgain

(* What follows a success: undone, cut to size, or left alone.              *)
LEMMA OpenCheckKeeps ==
    ASSUME TableInv, NEW t \in program.threads, OpenCheck(t)
    PROVE  TableInv'
<1> USE DEF TableInv
<1>1. PICK x \in Handles : x = loc[t].i
  BY OwnSlot DEF OpenCheck, Placed
<1>2. PICK f \in Fds : f = loc[t].fd /\ ufd[f] = x
  BY <1>1, OwnSlot DEF OpenCheck, Placed, HasFd
<1>3. /\ t \in Thread /\ loc[t] \in Locals /\ x \in DOMAIN HFiles /\ x \notin held
      /\ \A g \in Fds \ {f} : ufd[g] # x
      /\ pc[t] = "check" /\ pc[t] \in Placed
      /\ UNCHANGED <<program, MaxHFiles, exists, held>> /\ exists' \in BOOLEAN
  BY <1>1, <1>2, OwnSlot DEF OpenCheck, Placed, HasFd, TypeOK
<1>4. HFiles[x] = Reserved /\ loc[t].req \in program.requests /\ loc[t].existed
  BY <1>1, <1>3 DEF SlotInv
<1>5. CASE MustNotExist(loc[t].req)
  <2>1. /\ Moves(t, "idle", NoLocals) /\ HFiles' = [HFiles EXCEPT ![x] = Free]
        /\ ufd' = [ufd EXCEPT ![f] = Closed]
    BY <1>1, <1>2, <1>5 DEF OpenCheck, StoredIn, Return, Goto, Moves
  <2>2. /\ ufd' \in [Fds -> Handles \cup {Closed}]
        /\ ufd'[f] = Closed /\ \A g \in Fds \ {f} : ufd'[g] = ufd[g]
    BY <2>1 DEF TypeOK
  <2>3. SlotInv(t)'
    BY <1>3, <2>1, MovesOne, LocalTypes DEF PC, SlotInv
  <2>4. x # Closed
    BY ClosedAssumption DEF Handles
  <2>5. ~GoesWithFd("idle", NoLocals.fd) /\ "idle" \in Placed \cup {"idle"}
    BY DEF GoesWithFd
  <2>6. Free \in Fds \cup {Free, Reserved} /\ NoLocals \in Locals
    BY LocalTypes
  <2>7. OwnSlotChange(t, x, "idle", Free, NoLocals)
    BY <1>1, <1>2, <1>3, <2>1, <2>2, <2>4, <2>5 DEF OwnSlotChange
  <2> QED
    BY <1>3, <2>1, <2>3, <2>5, <2>6, <2>7, StepWithOwnSlot
<1>6. CASE ~MustNotExist(loc[t].req)
  <2>1. Moves(t, "store", loc[t]) /\ UNCHANGED <<HFiles, ufd>>
    BY <1>3, <1>4, <1>6 DEF OpenCheck, Goto, Moves, TypeOK, Careful
  <2>2. HFiles' = [HFiles EXCEPT ![x] = Reserved] /\ ufd' \in [Fds -> Handles \cup {Closed}]
    BY <1>4, <2>1 DEF TypeOK
  <2>3. SlotInv(t)'
    BY <1>1, <1>2, <1>3, <1>4, <2>1, MovesOne DEF PC, SlotInv
  <2>4. GoesWithFd("store", f) /\ "store" \in Placed \cup {"idle"} /\ "store" # "idle"
    BY DEF GoesWithFd, Placed, Fds
  <2>5. Reserved \in Fds \cup {Free, Reserved}
    OBVIOUS
  <2>6. OwnSlotChange(t, x, "store", Reserved, loc[t])
    BY <1>1, <1>2, <1>3, <2>1, <2>2, <2>4 DEF OwnSlotChange
  <2> QED
    BY <1>3, <2>1, <2>3, <2>4, <2>5, <2>6, StepWithOwnSlot
<1> QED
  BY <1>5, <1>6

(* The descriptor goes into the slot, or the slot is given back.            *)
LEMMA OpenStoreKeeps ==
    ASSUME TableInv, NEW t \in program.threads, OpenStore(t)
    PROVE  TableInv'
<1> USE DEF TableInv
<1>1. PICK x \in Handles : x = loc[t].i
  BY OwnSlot DEF OpenStore, Placed
<1>2. /\ t \in Thread /\ loc[t] \in Locals /\ x \in DOMAIN HFiles /\ x \notin held
      /\ \A g \in Fds : ufd[g] = x => loc[t].fd # -1 /\ loc[t].fd = g
      /\ loc[t].fd # -1 => loc[t].fd \in Fds /\ ufd[loc[t].fd] = x
      /\ pc[t] = "store" /\ pc[t] \in Placed
      /\ UNCHANGED <<program, MaxHFiles, ufd, exists>> /\ exists' \in BOOLEAN
      /\ ufd' \in [Fds -> Handles \cup {Closed}]
  BY <1>1, OwnSlot DEF OpenStore, Placed, HasFd, TypeOK
<1>3. Moves(t, "idle", NoLocals)
  BY DEF OpenStore, Return, Goto, Moves
<1>4. SlotInv(t)'
  BY <1>2, <1>3, MovesOne, LocalTypes DEF PC, SlotInv
<1>5. ~GoesWithFd("idle", NoLocals.fd) /\ "idle" \in Placed \cup {"idle"}
  BY DEF GoesWithFd
<1>6. NoLocals \in Locals /\ Free \in Fds \cup {Free, Reserved} /\ x # Closed
  <2>1. x # Closed
    BY ClosedAssumption DEF Handles
  <2> QED
    BY <2>1, LocalTypes
<1>7. CASE loc[t].fd = -1
  <2>1. HFiles' = [HFiles EXCEPT ![x] = Free] /\ held' = held
    BY <1>1, <1>7 DEF OpenStore, StoredIn
  <2>2. OwnSlotChange(t, x, "idle", Free, NoLocals)
    BY <1>1, <1>2, <1>5, <1>7, <2>1 DEF OwnSlotChange
  <2> QED
    BY <1>2, <1>3, <1>4, <1>5, <1>6, <2>2, StepWithOwnSlot
<1>8. CASE loc[t].fd # -1
  <2>1. PICK f \in Fds : f = loc[t].fd /\ ufd[f] = x
    BY <1>2, <1>8
  <2>2. HFiles' = [HFiles EXCEPT ![x] = f] /\ held' = held \cup {x}
    BY <1>1, <1>6, <1>8, <2>1 DEF OpenStore, StoredIn
  <2>3. OwnSlotChange(t, x, "idle", f, NoLocals)
    BY <1>1, <1>2, <1>5, <1>6, <2>1, <2>2 DEF OwnSlotChange, Free, Fds
  <2> QED
    BY <1>2, <1>3, <1>4, <1>5, <1>6, <2>3, StepWithOwnSlot
<1> QED
  BY <1>7, <1>8

-----------------------------------------------------------------------------
(* DosDupHandle *)

(* DosDupHandle that searches for a slot.                                   *)
LEMMA DupStartKeeps ==
    ASSUME TableInv, NEW t \in program.threads, NEW h \in held, DupStart(t, h)
    PROVE  TableInv'
<1> DEFINE l == [NoLocals EXCEPT !.src = h, !.fd = getHFileUnixDescriptor(h)]
<1>1. Moves(t, "scan", l) /\ pc[t] = "idle" /\ UNCHANGED <<program, HFiles, MaxHFiles, ufd, exists, held>>
  BY DEF DupStart, Begin, Goto, Moves
<1>2. h \in Handles /\ getHFileUnixDescriptor(h) \in Fds
  BY DEF TableInv, OwnInv, FdInv, HeldHandlesWork, TypeOK, getHFileUnixDescriptor
<1>3. l \in Locals /\ l.src = h /\ l.req = NoRequest
  BY <1>2, LocalTypes DEF NoLocals
<1>4. exists' \in BOOLEAN /\ t \in Thread
  BY <1>1, ProgramsAssumption DEF TableInv, TypeOK
<1> HIDE DEF l
<1>5. pc'[t] = "scan" /\ loc'[t] = l
  BY <1>1, <1>3, <1>4, MovesOne DEF TableInv, PC
<1>6. SlotInv(t)'
  BY <1>1, <1>3, <1>5 DEF SlotInv
<1> QED
  BY <1>1, <1>3, <1>4, <1>6, StepWithoutSlot DEF PC

(* The target is free and, by Careful, another call's only if the other is  *)
(* no other.                                                                *)
LEMMA DupOntoKeeps ==
    ASSUME TableInv, NEW t \in program.threads, NEW h \in held, NEW x \in program.targets, DupOnto(t, h, x)
    PROVE  TableInv'
<1> USE DEF TableInv
<1>1. /\ t \in Thread /\ pc[t] = "idle" /\ x \in DOMAIN HFiles /\ exists' \in BOOLEAN
      /\ UNCHANGED <<program, HFiles, MaxHFiles, ufd, held>>
  BY ProgramsAssumption DEF TypeOK, DupOnto
<1>2. CASE HFiles[x] # Free
  BY <1>1, <1>2, StepBeside DEF DupOnto
<1>3. CASE HFiles[x] = Free
  <2> DEFINE l == [NoLocals EXCEPT !.src = h, !.i = x]
  <2>1. Moves(t, "dup_copy", l)
    BY <1>3 DEF DupOnto, Goto, Moves
  <2>2. /\ x \in Handles /\ x \notin held \cup Std
        /\ \A u \in Thread : ~Owns(u, x)
        /\ \A f \in Fds : ufd[f] # x
    BY <1>1, <1>3, FreeSlotIsNobodys
  <2>3. Alone
    BY <2>2 DEF Careful, Std
  <2>4. h \in Handles
    BY DEF OwnInv, TypeOK
  <2>5. l \in Locals /\ l.i = x /\ l.src = h /\ l.req = NoRequest
    BY <2>2, <2>4, LocalTypes DEF NoLocals
  <2> HIDE DEF l
  <2>6. pc'[t] = "dup_copy" /\ loc'[t] = l
    BY <1>1, <2>1, <2>5, MovesOne DEF PC
  <2>7. SlotInv(t)'
    BY <1>1, <1>3, <2>3, <2>5, <2>6 DEF SlotInv, Alone
  <2>8. Owns(t, x)' /\ ~HasFd(t)'
    BY <2>5, <2>6 DEF Owns, HasFd
  <2>9. \A g \in Handles : Owns(t, g) \/ Owns(t, g)' => g = x
    BY <1>1, <2>5, <2>6 DEF Owns
  <2>10. HFiles' = [HFiles EXCEPT ![x] = Free] /\ ufd' \in [Fds -> Handles \cup {Closed}]
    BY <1>1, <1>3 DEF TypeOK
  <2>11. SlotChange(t, x, Free, l)
    BY <1>1, <2>2, <2>8, <2>9, <2>10 DEF SlotChange
  <2>12. x \in DOMAIN HFiles \ Std /\ Free \in Fds \cup {Free, Reserved} /\ "dup_copy" \in PC
    BY <1>1, <2>2 DEF PC
  <2> QED
    BY <1>1, <2>1, <2>5, <2>7, <2>11, <2>12, StepWithSlot
<1> QED
  BY <1>2, <1>3

(* The slot of the new handle is overwritten with the old one's.            *)
LEMMA DupCopyKeeps ==
    ASSUME TableInv, NEW t \in program.threads, DupCopy(t)
    PROVE  TableInv'
<1> USE DEF TableInv
<1>1. PICK x \in Handles : x = loc[t].i
  BY OwnSlot DEF DupCopy, Placed
<1>2. PICK h \in Handles : h = loc[t].src
  BY OwnSlot DEF DupCopy, Placed, Locals
<1>3. PICK f \in Fds : f = HFiles[h] /\ h \in held
  BY <1>2, OwnSlot DEF DupCopy, Placed, SlotInv, FdInv, HeldHandlesWork
<1>4. /\ t \in Thread /\ loc[t] \in Locals /\ x \in DOMAIN HFiles /\ x \notin held /\ h \in DOMAIN HFiles
      /\ \A g \in Fds : ufd[g] # x
      /\ pc[t] = "dup_copy" /\ pc[t] \in Placed
      /\ UNCHANGED <<program, MaxHFiles, ufd, exists, held>> /\ exists' \in BOOLEAN
      /\ ufd' \in [Fds -> Handles \cup {Closed}]
  BY <1>1, <1>3, OwnSlot DEF DupCopy, Placed, HasFd, TypeOK, OwnInv
<1>5. Moves(t, "dup", loc[t]) /\ HFiles' = [HFiles EXCEPT ![x] = f]
  BY <1>1, <1>2, <1>3, <1>4 DEF DupCopy, Goto, Moves, TypeOK
<1>6. HFiles'[x] = f /\ HFiles'[h] = f
  BY <1>3, <1>4, <1>5 DEF TypeOK
<1>7. SlotInv(t)'
  BY <1>1, <1>2, <1>3, <1>4, <1>5, <1>6, MovesOne DEF PC, SlotInv
<1>8. ~GoesWithFd("dup", loc[t].fd) /\ "dup" \in Placed \cup {"idle"} /\ "dup" # "idle"
  BY DEF GoesWithFd, Placed
<1>9. OwnSlotChange(t, x, "dup", f, loc[t])
  BY <1>1, <1>4, <1>5, <1>8 DEF OwnSlotChange
<1> QED
  BY <1>4, <1>5, <1>7, <1>8, <1>9, StepWithOwnSlot

(* dup() always has a descriptor left, so the slot never keeps its -1.      *)
LEMMA DupDescriptorKeeps ==
    ASSUME TableInv, Bound <= NumFds, NEW t \in program.threads, DupDescriptor(t)
    PROVE  TableInv'
<1> USE DEF TableInv
<1>1. PICK x \in Handles : x = loc[t].i
  BY OwnSlot DEF DupDescriptor, Placed
<1>2. /\ t \in Thread /\ loc[t] \in Locals /\ x \in DOMAIN HFiles /\ x \notin held
      /\ \A g \in Fds : ufd[g] # x
      /\ pc[t] = "dup" /\ pc[t] \in Placed
      /\ UNCHANGED <<program, MaxHFiles, exists>> /\ exists' \in BOOLEAN
  BY <1>1, OwnSlot DEF DupDescriptor, Placed, HasFd, TypeOK
<1>3. HFiles[loc[t].src] \in Fds /\ ufd[HFiles[loc[t].src]] # Closed
  BY <1>2, ClosedAssumption DEF SlotInv, FdInv, HeldHandlesWork, Handles, Locals
<1>4. FreeFds # {}
  BY <1>2, DescriptorLeft
<1>5. PICK f \in Fds : f = Min(FreeFds) /\ ufd[f] = Closed
  BY <1>4, LowestDescriptor
<1>6. /\ Moves(t, "idle", NoLocals) /\ held' = held \cup {x}
      /\ ufd' = [ufd EXCEPT ![f] = x] /\ HFiles' = [HFiles EXCEPT ![x] = f]
  BY <1>1, <1>3, <1>4, <1>5 DEF DupDescriptor, Return, Goto, Moves
<1>7. /\ ufd' \in [Fds -> Handles \cup {Closed}]
      /\ ufd'[f] = x /\ \A g \in Fds \ {f} : ufd'[g] = ufd[g]
  BY <1>6 DEF TypeOK
<1>8. SlotInv(t)'
  BY <1>2, <1>6, MovesOne, LocalTypes DEF PC, SlotInv
<1>9. ~GoesWithFd("idle", NoLocals.fd) /\ "idle" \in Placed \cup {"idle"} /\ NoLocals \in Locals
  BY LocalTypes DEF GoesWithFd
<1>10. f # Free
  BY DEF Free, Fds
<1>11. OwnSlotChange(t, x, "idle", f, NoLocals)
  BY <1>1, <1>2, <1>5, <1>6, <1>7, <1>9, <1>10 DEF OwnSlotChange
<1> QED
  BY <1>2, <1>6, <1>8, <1>9, <1>11, StepWithOwnSlot

-----------------------------------------------------------------------------
(* DosClose, and the calls that use a descriptor *)

(* stdio leaves the program's handles, but stays in the table.              *)
LEMMA StdioForgotten ==
    ASSUME TableInv, NEW h \in held, HFiles[h] \in Std, ~InUse(h), held' = held \ {h},
           UNCHANGED <<program, HFiles, MaxHFiles, ufd, exists, pc, loc>>
    PROVE  TableInv'
<1> USE DEF TableInv
<1>1. h \in Std
  BY SizesAssumption DEF OwnInv, FdInv, HeldHandlesWork, Std
<1>2. TypeOK' /\ Careful'
  BY DEF TypeOK, Locals, Careful, Alone
<1>3. \A t \in Thread : /\ HasFd(t)' <=> HasFd(t)
                        /\ FdIsItsOwn(t)' <=> FdIsItsOwn(t)
                        /\ \A g \in Handles : Owns(t, g)' <=> Owns(t, g)
  BY DEF HasFd, FdIsItsOwn, Owns
<1>4. DOMAIN HFiles \subseteq Handles
  BY SizesAssumption DEF TypeOK, Handles
<1>5. \A g : g \in held \cup Std <=> g \in held' \cup Std
  BY <1>1
<1>6. OwnInv'
  BY <1>3, <1>4, <1>5 DEF OwnInv
<1>7. FdInv'
  BY <1>3, <1>5 DEF FdInv, HeldHandlesWork
<1>8. ASSUME NEW t \in Thread PROVE SlotInv(t)'
  BY DEF SlotInv, InUse, Alone
<1> QED
  BY <1>2, <1>6, <1>7, <1>8

(* DosClose looks the handle up: from here on the slot is the call's.       *)
LEMMA CloseLookupKeeps ==
    ASSUME TableInv, NEW t \in program.threads, NEW x \in held, CloseLookup(t, x)
    PROVE  TableInv'
<1> USE DEF TableInv
<1>1. PICK f \in Fds : f = HFiles[x] /\ ufd[f] = x
  BY DEF FdInv, HeldHandlesWork
<1>2. /\ t \in Thread /\ pc[t] = "idle" /\ ~InUse(x) /\ exists' \in BOOLEAN
      /\ held' = held \ {x} /\ UNCHANGED <<program, HFiles, MaxHFiles, ufd, exists>>
  BY ProgramsAssumption DEF TypeOK, CloseLookup, MayClose
<1>3. x \in DOMAIN HFiles /\ x \in Handles /\ getHFileUnixDescriptor(x) = f
  BY <1>1, SizesAssumption DEF OwnInv, TypeOK, Handles, getHFileUnixDescriptor
<1>4. f # -1
  BY DEF Fds
<1>5. CASE f <= LastStd
  <2>1. UNCHANGED <<pc, loc>> /\ HFiles[x] \in Std
    BY <1>1, <1>3, <1>4, <1>5, SizesAssumption DEF CloseLookup, Fds, Std
  <2> QED
    BY <1>2, <2>1, StdioForgotten
<1>6. CASE ~(f <= LastStd)
  <2> DEFINE l == [NoLocals EXCEPT !.src = x, !.fd = f]
  <2>1. Moves(t, "close", l)
    BY <1>3, <1>4, <1>6 DEF CloseLookup, Begin, Goto, Moves
  <2>2. l \in Locals /\ l.src = x /\ l.fd = f /\ l.req = NoRequest
    BY <1>3, LocalTypes DEF NoLocals
  <2> HIDE DEF l
  <2>3. pc'[t] = "close" /\ loc'[t] = l
    BY <1>2, <2>1, <2>2, MovesOne DEF PC
  <2>4. SlotInv(t)'
    BY <1>1, <1>2, <2>2, <2>3 DEF SlotInv
  <2>5. Owns(t, x)' /\ HasFd(t)'
    BY <2>2, <2>3 DEF Owns, HasFd
  <2>6. \A g \in Handles : Owns(t, g) \/ Owns(t, g)' => g = x
    BY <1>2, <2>2, <2>3 DEF Owns
  <2>7. HFiles' = [HFiles EXCEPT ![x] = f] /\ ufd' \in [Fds -> Handles \cup {Closed}]
    BY <1>1, <1>2 DEF TypeOK
  <2>8. x \in DOMAIN HFiles \ Std /\ f \in Fds \cup {Free, Reserved} /\ "close" \in PC /\ x \notin held'
    BY <1>1, <1>2, <1>3, <1>6, SizesAssumption DEF PC, OwnInv, Std
  <2>9. \A u \in Thread : ~Owns(u, x)
    BY <1>3 DEF OwnInv
  <2>10. \A g \in Fds : ufd[g] = x => g = f
    BY <1>1, <1>3, OneEach, ClosedAssumption DEF Handles
  <2>11. SlotChange(t, x, f, l)
    BY <1>1, <1>2, <2>2, <2>5, <2>6, <2>7, <2>8, <2>9, <2>10 DEF SlotChange
  <2> QED
    BY <1>2, <2>1, <2>2, <2>4, <2>8, <2>11, StepWithSlot
<1> QED
  BY <1>5, <1>6

(* The slot a DosClose is about to free.                                    *)
LEMMA ClosingSlot ==
    ASSUME TableInv, NEW t \in program.threads, pc[t] \in {"close", "mark"},
           NEW x \in Handles, x = loc[t].src
    PROVE  /\ t \in Thread /\ loc[t] \in Locals
           /\ x \in DOMAIN HFiles \ Std /\ x \notin held /\ x # Closed
           /\ \A h \in Handles : Owns(t, h) <=> h = x
           /\ \A u \in Thread \ {t} : ~Owns(u, x)
           /\ \A f \in Fds : ufd[f] = x => pc[t] = "close" /\ loc[t].fd = f
           /\ pc[t] = "close" => loc[t].fd \in Fds /\ ufd[loc[t].fd] = x
<1> USE DEF TableInv
<1>1. t \in Thread /\ loc[t] \in Locals
  BY ProgramsAssumption DEF TypeOK
<1>2. \A h \in Handles : Owns(t, h) <=> h = x
  BY DEF Owns
<1>3. x \in DOMAIN HFiles \ (held \cup Std) /\ \A u \in Thread \ {t} : ~Owns(u, x)
  BY <1>1, <1>2 DEF OwnInv
<1>4. x # Closed
  BY ClosedAssumption DEF Handles
<1>5. \A f \in Fds : ufd[f] = x => pc[t] = "close" /\ loc[t].fd = f
  BY <1>1, <1>2, <1>4, OneEach DEF HasFd
<1>6. pc[t] = "close" => loc[t].fd \in Fds /\ ufd[loc[t].fd] = x
  <2> SUFFICES ASSUME pc[t] = "close" PROVE loc[t].fd \in Fds /\ ufd[loc[t].fd] = x
    OBVIOUS
  <2>1. FdIsItsOwn(t)
    BY <1>1 DEF FdInv, HasFd
  <2>2. loc[t].fd \in Fds /\ ufd[loc[t].fd] \in Handles
    BY <2>1 DEF FdIsItsOwn, TypeOK
  <2> QED
    BY <1>2, <2>1, <2>2 DEF FdIsItsOwn
<1> QED
  BY <1>1, <1>2, <1>3, <1>4, <1>5, <1>6

(* close() gives the descriptor up; the slot keeps its number.              *)
LEMMA CloseDescriptorKeeps ==
    ASSUME TableInv, NEW t \in program.threads, CloseDescriptor(t)
    PROVE  TableInv'
<1> USE DEF TableInv
<1>1. PICK x \in Handles : x = loc[t].src
  BY ProgramsAssumption DEF TypeOK, Locals
<1>2. pc[t] = "close" /\ pc[t] \in {"close", "mark"}
  BY DEF CloseDescriptor
<1>3. PICK f \in Fds : f = loc[t].fd /\ ufd[f] = x
  BY <1>1, <1>2, ClosingSlot
<1>4. /\ t \in Thread /\ loc[t] \in Locals
      /\ x \in DOMAIN HFiles \ Std /\ x \notin held /\ x # Closed
      /\ \A u \in Thread \ {t} : ~Owns(u, x)
      /\ \A g \in Fds \ {f} : ufd[g] # x
      /\ \A h \in Handles : Owns(t, h) => h = x
  BY <1>1, <1>2, <1>3, ClosingSlot
<1>5. /\ Moves(t, "mark", loc[t]) /\ ufd' = [ufd EXCEPT ![f] = Closed] /\ "mark" \in PC
      /\ UNCHANGED <<program, HFiles, MaxHFiles, exists, held>> /\ exists' \in BOOLEAN
  BY <1>3, <1>4 DEF CloseDescriptor, Goto, Moves, TypeOK, PC
<1>6. pc'[t] = "mark" /\ loc'[t] = loc[t]
  BY <1>4, <1>5, MovesOne
<1>7. Owns(t, x)' /\ ~HasFd(t)' /\ \A h \in Handles : Owns(t, h)' => h = x
  BY <1>1, <1>6 DEF Owns, HasFd
<1>8. /\ ufd' \in [Fds -> Handles \cup {Closed}]
      /\ ufd'[f] = Closed /\ \A g \in Fds \ {f} : ufd'[g] = ufd[g]
  BY <1>5 DEF TypeOK
<1>9. HFiles[x] = f /\ HFiles' = [HFiles EXCEPT ![x] = f]
  BY <1>1, <1>2, <1>3, <1>4, <1>5 DEF SlotInv, TypeOK
<1>10. SlotInv(t)'
  BY <1>1, <1>5, <1>6, <1>9 DEF SlotInv, Free, Fds
<1>11. SlotChange(t, x, f, loc[t])
  BY <1>3, <1>4, <1>5, <1>7, <1>8, <1>9 DEF SlotChange
<1> QED
  BY <1>4, <1>5, <1>10, <1>11, StepWithSlot

(* The slot becomes free.                                                   *)
LEMMA CloseMarkKeeps ==
    ASSUME TableInv, NEW t \in program.threads, CloseMark(t)
    PROVE  TableInv'
<1> USE DEF TableInv
<1>1. PICK x \in Handles : x = loc[t].src
  BY ProgramsAssumption DEF TypeOK, Locals
<1>2. pc[t] = "mark" /\ pc[t] \in {"close", "mark"}
  BY DEF CloseMark
<1>3. /\ t \in Thread
      /\ x \in DOMAIN HFiles \ Std /\ x \notin held /\ x # Closed
      /\ \A u \in Thread \ {t} : ~Owns(u, x)
      /\ \A g \in Fds : ufd[g] # x
      /\ \A h \in Handles : Owns(t, h) => h = x
  BY <1>1, <1>2, ClosingSlot
<1>4. /\ Moves(t, "idle", NoLocals) /\ HFiles' = [HFiles EXCEPT ![x] = Free] /\ "idle" \in PC
      /\ UNCHANGED <<program, MaxHFiles, ufd, exists, held>> /\ exists' \in BOOLEAN
      /\ ufd' \in [Fds -> Handles \cup {Closed}]
  BY <1>1 DEF CloseMark, Return, Goto, Moves, TypeOK, PC
<1>5. pc'[t] = "idle" /\ loc'[t] = NoLocals
  BY <1>3, <1>4, MovesOne, LocalTypes
<1>6. ~HasFd(t)' /\ \A h \in Handles : ~Owns(t, h)'
  BY <1>5 DEF Owns, HasFd
<1>7. SlotInv(t)'
  BY <1>5 DEF SlotInv
<1>8. SlotChange(t, x, Free, NoLocals)
  BY <1>3, <1>4, <1>6 DEF SlotChange
<1>9. NoLocals \in Locals /\ Free \in Fds \cup {Free, Reserved}
  BY LocalTypes
<1> QED
  BY <1>3, <1>4, <1>7, <1>8, <1>9, StepWithSlot

(* A read or write takes the descriptor from the table.                     *)
LEMMA UseLookupKeeps ==
    ASSUME TableInv, NEW t \in program.threads, NEW h \in held, UseLookup(t, h)
    PROVE  TableInv'
<1> DEFINE l == [NoLocals EXCEPT !.src = h, !.fd = getHFileUnixDescriptor(h)]
<1>1. h \in Handles /\ getHFileUnixDescriptor(h) \in Fds
  BY DEF TableInv, OwnInv, FdInv, HeldHandlesWork, TypeOK, getHFileUnixDescriptor
<1>2. Moves(t, "use", l) /\ pc[t] = "idle" /\ UNCHANGED <<program, HFiles, MaxHFiles, ufd, exists, held>>
  BY <1>1 DEF UseLookup, Begin, Goto, Moves, Fds
<1>3. l \in Locals
  BY <1>1, LocalTypes
<1>4. exists' \in BOOLEAN /\ t \in Thread
  BY <1>2, ProgramsAssumption DEF TableInv, TypeOK
<1> HIDE DEF l
<1>5. SlotInv(t)'
  BY <1>2, <1>3, <1>4, MovesOne DEF TableInv, PC, SlotInv
<1> QED
  BY <1>2, <1>3, <1>4, <1>5, StepWithoutSlot DEF PC

(* And uses it, after the lock is given up.                                 *)
LEMMA UseDescriptorKeeps ==
    ASSUME TableInv, NEW t \in program.threads, UseDescriptor(t)
    PROVE  TableInv'
<1>1. Moves(t, "idle", NoLocals) /\ pc[t] = "use" /\ UNCHANGED <<program, HFiles, MaxHFiles, ufd, exists, held>>
  BY DEF UseDescriptor, Return, Goto, Moves
<1>2. exists' \in BOOLEAN /\ t \in Thread /\ NoLocals \in Locals
  BY <1>1, ProgramsAssumption, LocalTypes DEF TableInv, TypeOK
<1>3. SlotInv(t)'
  BY <1>1, <1>2, MovesOne DEF TableInv, PC, SlotInv
<1> QED
  BY <1>1, <1>2, <1>3, StepWithoutSlot DEF PC

-----------------------------------------------------------------------------
(* The table grows: no call is in it, and the new slots are free.           *)
LEMMA DosSetMaxFHKeeps ==
    ASSUME TableInv, NEW t \in program.threads, NEW n \in FirstMax .. Bound, DosSetMaxFH(t, n)
    PROVE  TableInv'
<1> USE DEF TableInv
<1>1. UNCHANGED <<program, ufd, exists, pc, loc, held>> /\ \A u \in Thread : pc[u] = "idle"
  BY DEF DosSetMaxFH, MayGrow
<1>2. CASE n <= MaxHFiles
  BY <1>1, <1>2, StepBeside DEF DosSetMaxFH, TypeOK
<1>3. CASE ~(n <= MaxHFiles)
  <2>1. /\ MaxHFiles' = n /\ n \in Nat /\ MaxHFiles \in Nat /\ MaxHFiles < n /\ n <= Bound
        /\ HFiles' = [h \in 0 .. n - 1 |-> IF h < MaxHFiles THEN HFiles[h] ELSE Free]
    BY <1>3, SizesAssumption DEF DosSetMaxFH, TypeOK
  <2>2. /\ DOMAIN HFiles' = 0 .. n - 1 /\ DOMAIN HFiles \subseteq DOMAIN HFiles'
        /\ \A h \in DOMAIN HFiles : HFiles'[h] = HFiles[h]
        /\ \A h \in DOMAIN HFiles' \ DOMAIN HFiles : HFiles'[h] = Free
    BY <2>1 DEF TypeOK
  <2>3. HFiles' \in [0 .. n - 1 -> Fds \cup {Free, Reserved}]
    BY <2>1 DEF TypeOK
  <2>4. TypeOK' /\ Careful'
    BY <1>1, <2>1, <2>3 DEF TypeOK, Locals, Careful, Alone
  <2>5. \A u \in Thread : ~HasFd(u)' /\ SlotInv(u)' /\ ~HasFd(u)
                          /\ \A h \in Handles : ~Owns(u, h)' /\ ~Owns(u, h)
    BY <1>1 DEF HasFd, SlotInv, Owns
  <2>6. Std \subseteq DOMAIN HFiles /\ DOMAIN HFiles' \subseteq Handles /\ DOMAIN HFiles \subseteq Handles
    BY <2>1, <2>2, SizesAssumption DEF Std, TypeOK, Handles
  <2>7. OwnInv'
    BY <1>1, <2>2, <2>5, <2>6 DEF OwnInv
  <2>8. FdInv'
    <3>1. HeldHandlesWork'
      BY <1>1, <2>2 DEF OwnInv, FdInv, HeldHandlesWork
    <3>2. \A f \in Fds : ufd'[f] # Closed => ufd'[f] \in held' \cup Std /\ HFiles'[ufd'[f]] = f
      BY <1>1, <2>2, <2>5, <2>6 DEF OwnInv, FdInv
    <3> QED
      BY <2>5, <3>1, <3>2 DEF FdInv
  <2> QED
    BY <2>4, <2>5, <2>7, <2>8
<1> QED
  BY <1>2, <1>3

(* A program that adds nothing with DosSetRelMaxFH only asks.               *)
LEMMA DosSetRelMaxFHKeeps ==
    ASSUME TableInv, NEW t \in program.threads, NEW incr \in program.increments, DosSetRelMaxFH(t, incr)
    PROVE  TableInv'
<1>1. ~(incr > 0)
  BY DEF TableInv, Careful
<1> QED
  BY <1>1, StepBeside DEF DosSetRelMaxFH, TableInv, TypeOK

(* One of the calls of Next.                                                *)
LEMMA TableInvStep ==
    ASSUME TableInv, Bound <= NumFds, [Next]_vars
    PROVE  TableInv'
<1>1. CASE UNCHANGED vars
  BY <1>1, StepBeside DEF vars, TableInv, TypeOK
<1>2. CASE FileComesOrGoes
  BY <1>2, StepBeside DEF FileComesOrGoes, TableInv, TypeOK
<1>3. ASSUME NEW t \in program.threads, NEW r \in program.requests, OpenRefused(t, r) PROVE TableInv'
  BY <1>3, StepBeside DEF OpenRefused, TableInv, TypeOK
<1>4. ASSUME NEW t \in program.threads, ResetAllBuffers(t) PROVE TableInv'
  BY <1>4, StepBeside DEF ResetAllBuffers, TableInv, TypeOK
<1>5. ASSUME NEW t \in program.threads,
             \/ \E r \in program.requests : OpenStart(t, r)
             \/ Reserve(t) \/ PathRefused(t) \/ PathConverted(t)
             \/ OpenSucceeds(t) \/ OpenFindsTheFile(t) \/ OpenAgain(t) \/ OpenFails(t)
             \/ OpenCheck(t) \/ OpenStore(t)
      PROVE  TableInv'
  BY <1>5, OpenStartKeeps, ReserveKeeps, PathRefusedKeeps, PathConvertedKeeps, OpenSucceedsKeeps,
     OpenFindsTheFileKeeps, OpenAgainKeeps, OpenFailsKeeps, OpenCheckKeeps, OpenStoreKeeps
<1>6. ASSUME NEW t \in program.threads,
             \/ \E h \in held : CloseLookup(t, h) \/ UseLookup(t, h)
             \/ CloseDescriptor(t) \/ CloseMark(t) \/ UseDescriptor(t)
      PROVE  TableInv'
  BY <1>6, CloseLookupKeeps, UseLookupKeeps, CloseDescriptorKeeps, CloseMarkKeeps, UseDescriptorKeeps
<1>7. ASSUME NEW t \in program.threads,
             \/ \E h \in held : DupStart(t, h)
             \/ \E h \in held, g \in program.targets : DupOnto(t, h, g)
             \/ DupCopy(t) \/ DupDescriptor(t)
      PROVE  TableInv'
  BY <1>7, DupStartKeeps, DupOntoKeeps, DupCopyKeeps, DupDescriptorKeeps
<1>8. ASSUME NEW t \in program.threads,
             \/ \E n \in FirstMax .. Bound : DosSetMaxFH(t, n)
             \/ \E incr \in program.increments : DosSetRelMaxFH(t, incr)
      PROVE  TableInv'
  BY <1>8, DosSetMaxFHKeeps, DosSetRelMaxFHKeeps
<1> QED
  BY <1>1, <1>2, <1>3, <1>4, <1>5, <1>6, <1>7, <1>8 DEF Next

(* What is in the table between calls.                                      *)
LEMMA QuietFollows == TableInv => HeldHandlesWork /\ QuietTableIsExact
<1> SUFFICES ASSUME TableInv PROVE HeldHandlesWork /\ QuietTableIsExact
  OBVIOUS
<1> USE DEF TableInv
<1>1. HeldHandlesWork
  BY DEF FdInv
<1>2. ASSUME \A t \in Thread : pc[t] = "idle", NEW h \in DOMAIN HFiles
      PROVE  HFiles[h] # Free <=> h \in held \cup 0 .. LastStd
  <2>1. \A t \in Thread : ~Owns(t, h)
    BY <1>2 DEF Owns
  <2>2. \A g \in Std : HFiles[g] # Free
    BY SizesAssumption DEF OwnInv, Std, Free
  <2>3. \A g \in held : HFiles[g] # Free
    BY <1>1 DEF HeldHandlesWork, Free, Fds
  <2> QED
    BY <2>1, <2>2, <2>3 DEF OwnInv, Std
<1>3. ASSUME \A t \in Thread : pc[t] = "idle", NEW f \in Fds, ufd[f] # Closed
      PROVE  HFiles[ufd[f]] = f
  BY <1>3 DEF FdInv, HasFd
<1> QED
  BY <1>1, <1>2, <1>3 DEF QuietTableIsExact

(* With a descriptor for every slot, a handle the program was given stands  *)
(* for the file it was given for until the program closes it, and no other  *)
(* call has its slot (doDosOpen, DosDupHandle, DosClose, DosSetMaxFH).      *)
THEOREM HandlesWork ==
    ASSUME Bound <= NumFds
    PROVE  Spec /\ Careful => []HeldHandlesWork
<1>1. Init /\ Careful => TableInv
  BY TableInvInit
<1>2. TableInv /\ [Next]_vars => TableInv'
  BY TableInvStep
<1> QED
  BY <1>1, <1>2, QuietFollows, PTL DEF Spec

(* Between calls the slots in use are the program's and stdio's, and every  *)
(* open descriptor is in the slot it was opened for: none of the ways out   *)
(* of doDosOpen, DosDupHandle and DosClose loses a slot or a descriptor.    *)
THEOREM NothingIsLost ==
    ASSUME Bound <= NumFds
    PROVE  Spec /\ Careful => []QuietTableIsExact
<1>1. Init /\ Careful => TableInv
  BY TableInvInit
<1>2. TableInv /\ [Next]_vars => TableInv'
  BY TableInvStep
<1> QED
  BY <1>1, <1>2, QuietFollows, PTL DEF Spec

-----------------------------------------------------------------------------
(* The table implements HandleAlloc. *)

(* A step gives the program one handle at most, or takes one, and leaves    *)
(* the slots of the others alone.                                           *)
OneHandleAtMost ==
    /\ \E x \in Handles : held' \in {held, held \cup {x}, held \ {x}}
    /\ \A h \in held \cap held' : HFiles'[h] = HFiles[h]

(* A call that stores into its own slot gives the program that handle at    *)
(* most.                                                                    *)
LEMMA StoreSparesTheHeld ==
    ASSUME TableInv, NEW t \in program.threads, pc[t] \in Placed, NEW v,
           HFiles' = HFiles \/ HFiles' = StoredIn(t, v), held' \in {held, held \cup {loc[t].i}}
    PROVE  OneHandleAtMost
<1>1. /\ loc[t].i \in Handles /\ loc[t].i \notin held
  BY OwnSlot
<1>2. \A h \in held : HFiles'[h] = HFiles[h]
  BY <1>1 DEF StoredIn, TableInv, OwnInv
<1> QED
  BY <1>1, <1>2 DEF OneHandleAtMost

(* A step that leaves held alone.                                           *)
LEMMA TouchesNoHandle ==
    ASSUME HFiles' = HFiles \/ (\A h \in held : HFiles'[h] = HFiles[h]), held' = held
    PROVE  OneHandleAtMost
<1>1. 0 \in Handles
  BY SizesAssumption DEF Handles
<1> QED
  BY <1>1 DEF OneHandleAtMost

(* Every call and every step does one or the other, or gives one handle up. *)
LEMMA NextTouchesOneHandle ==
    ASSUME TableInv, Next
    PROVE  OneHandleAtMost
<1> USE DEF TableInv
<1>1. \A h \in held : h \in Handles /\ h \in DOMAIN HFiles
  BY DEF OwnInv, TypeOK
<1>2. CASE FileComesOrGoes
  BY <1>2, TouchesNoHandle DEF FileComesOrGoes
<1>3. ASSUME NEW t \in program.threads,
             \/ \E r \in program.requests : OpenRefused(t, r) \/ OpenStart(t, r)
             \/ PathConverted(t) \/ OpenSucceeds(t) \/ OpenFindsTheFile(t) \/ OpenAgain(t) \/ OpenFails(t)
             \/ \E h \in held : UseLookup(t, h) \/ DupStart(t, h)
             \/ \E h \in held, g \in program.targets : DupOnto(t, h, g)
             \/ CloseDescriptor(t) \/ UseDescriptor(t) \/ ResetAllBuffers(t)
      PROVE  OneHandleAtMost
  BY <1>3, TouchesNoHandle
     DEF OpenRefused, OpenStart, PathConverted, OpenSucceeds, OpenFindsTheFile, OpenAgain, OpenFails,
         UseLookup, DupStart, DupOnto, CloseDescriptor, UseDescriptor, ResetAllBuffers
<1>4. ASSUME NEW t \in program.threads, Reserve(t) PROVE OneHandleAtMost
  <2> DEFINE free == {h \in DOMAIN HFiles : HFiles[h] = Free}
  <2>1. CASE free = {}
    BY <1>4, <2>1, TouchesNoHandle DEF Reserve
  <2>2. CASE free # {}
    <3>1. free \in SUBSET Nat
      BY DEF TypeOK
    <3>2. Min(free) \in free
      BY <2>2, <3>1, LeastNatural
    <3>3. Min(free) \notin held
      BY <3>2 DEF FdInv, HeldHandlesWork, Free, Fds
    <3>4. HFiles' = [HFiles EXCEPT ![Min(free)] = Reserved] /\ held' = held
      BY <1>4, <2>2 DEF Reserve
    <3> HIDE DEF free
    <3>5. \A h \in held : HFiles'[h] = HFiles[h]
      BY <1>1, <3>3, <3>4
    <3> QED
      BY <3>4, <3>5, TouchesNoHandle
  <2> QED
    BY <2>1, <2>2
<1>5. ASSUME NEW t \in program.threads, PathRefused(t) PROVE OneHandleAtMost
  BY <1>5, StoreSparesTheHeld DEF PathRefused, Placed
<1>6. ASSUME NEW t \in program.threads, OpenCheck(t) PROVE OneHandleAtMost
  BY <1>6, StoreSparesTheHeld DEF OpenCheck, Placed
<1>7. ASSUME NEW t \in program.threads, OpenStore(t) PROVE OneHandleAtMost
  BY <1>7, StoreSparesTheHeld DEF OpenStore, Placed
<1>8. ASSUME NEW t \in program.threads, DupCopy(t) PROVE OneHandleAtMost
  BY <1>8, StoreSparesTheHeld DEF DupCopy, StoredIn, Placed
<1>9. ASSUME NEW t \in program.threads, DupDescriptor(t) PROVE OneHandleAtMost
  BY <1>9, StoreSparesTheHeld DEF DupDescriptor, StoredIn, Placed
<1>10. ASSUME NEW t \in program.threads, NEW h \in held, CloseLookup(t, h) PROVE OneHandleAtMost
  BY <1>1, <1>10 DEF CloseLookup, OneHandleAtMost
<1>11. ASSUME NEW t \in program.threads, CloseMark(t) PROVE OneHandleAtMost
  <2>1. /\ loc[t].src \notin held /\ held' = held
        /\ HFiles' = [HFiles EXCEPT ![loc[t].src] = Free]
    BY <1>11, ClosingSlot, ProgramsAssumption DEF CloseMark, TypeOK, Locals
  <2> QED
    BY <1>1, <2>1, TouchesNoHandle
<1>12. ASSUME NEW t \in program.threads, NEW n \in FirstMax .. Bound, DosSetMaxFH(t, n) PROVE OneHandleAtMost
  <2>1. CASE n > MaxHFiles
    <3>1. \A h \in held : h \in 0 .. n - 1 /\ h < MaxHFiles
      BY <1>1, <2>1, SizesAssumption DEF TypeOK
    <3> QED
      BY <1>12, <2>1, <3>1, TouchesNoHandle DEF DosSetMaxFH
  <2> QED
    BY <1>12, <2>1, TouchesNoHandle DEF DosSetMaxFH
<1>13. ASSUME NEW t \in program.threads, NEW incr \in program.increments, DosSetRelMaxFH(t, incr)
       PROVE  OneHandleAtMost
  <2>1. ~(incr > 0)
    BY DEF Careful
  <2> QED
    BY <1>13, <2>1, TouchesNoHandle DEF DosSetRelMaxFH
<1> QED
  BY <1>2, <1>3, <1>4, <1>5, <1>6, <1>7, <1>8, <1>9, <1>10, <1>11, <1>12, <1>13 DEF Next

(* Which handles share no file, and one handle at most changes hands: that  *)
(* is a step of HandleAlloc.                                                *)
LEMMA OneHandleIsAllocStep ==
    ASSUME TableInv, TableInv', OneHandleAtMost
    PROVE  Alloc!SNext \/ UNCHANGED [h \in held |-> HFiles[h]]
<1> USE DEF TableInv
<1>1. /\ \A h \in held : h \in Handles /\ HFiles[h] \in Fds /\ ufd[HFiles[h]] = h
      /\ \A h \in held' : h \in Handles /\ HFiles'[h] \in Fds /\ ufd'[HFiles'[h]] = h
  BY DEF FdInv, HeldHandlesWork, TypeOK
<1>2. PICK x \in Handles : held' \in {held, held \cup {x}, held \ {x}}
  BY DEF OneHandleAtMost
<1>3. \A h \in held \cap held' : HFiles'[h] = HFiles[h]
  BY DEF OneHandleAtMost
<1>4. CASE held' = held
  BY <1>3, <1>4
<1>5. CASE x \notin held /\ held' = held \cup {x}
  <2>1. PICK d \in Fds : d = HFiles'[x] /\ d \notin {HFiles[g] : g \in held}
    BY <1>1, <1>3, <1>5
  <2>2. [h \in held' |-> HFiles'[h]] =
        [g \in held \cup {x} |-> IF g = x THEN d ELSE [h \in held |-> HFiles[h]][g]]
    BY <1>3, <1>5, <2>1
  <2>3. Alloc!SOpen(x, d)
    BY <1>5, <2>1, <2>2 DEF Alloc!SOpen, Alloc!Held
  <2> QED
    BY <2>1, <2>3 DEF Alloc!SNext
<1>6. CASE x \in held /\ held' = held \ {x}
  <2>1. Alloc!SClose(x)
    BY <1>3, <1>6 DEF Alloc!SClose, Alloc!Held
  <2> QED
    BY <1>6, <2>1 DEF Alloc!SNext, Alloc!Held
<1>7. held' = held \/ (x \notin held /\ held' = held \cup {x}) \/ (x \in held /\ held' = held \ {x})
  BY <1>2
<1> QED
  BY <1>4, <1>5, <1>6, <1>7

(* From the call that returns a handle to the call that closes it, the      *)
(* handle stands for one open file, and for no other handle's (doDosOpen,   *)
(* DosDupHandle, DosClose).                                                 *)
THEOREM TableImplementsHandleAlloc ==
    ASSUME Bound <= NumFds
    PROVE  Spec /\ Careful => ImplementsHandleAlloc
<1>1. Init /\ Careful => TableInv
  BY TableInvInit
<1>2. TableInv /\ [Next]_vars => TableInv'
  BY TableInvStep
<1>3. TableInv => Alloc!SInit
  BY DEF TableInv, FdInv, HeldHandlesWork, Alloc!SInit, Alloc!Held
<1>4. TableInv /\ TableInv' /\ [Next]_vars => [Alloc!SNext]_([h \in held |-> HFiles[h]])
  <2>1. ASSUME TableInv, TableInv', Next PROVE Alloc!SNext \/ UNCHANGED [h \in held |-> HFiles[h]]
    BY <2>1, NextTouchesOneHandle, OneHandleIsAllocStep
  <2>2. ASSUME UNCHANGED vars PROVE UNCHANGED [h \in held |-> HFiles[h]]
    BY <2>2 DEF vars
  <2> QED
    BY <2>1, <2>2
<1> QED
  BY <1>1, <1>2, <1>3, <1>4, PTL DEF Spec, ImplementsHandleAlloc, Alloc!HandleAllocSpec

-----------------------------------------------------------------------------
(* Searches of a directory.  First: what a pattern takes.                    *)
PatternChar == Char \cup {"*", "?"}

(* wildcardMatch takes nothing that the pattern does not stand for.         *)
LEMMA TakenIsMatched ==
    ASSUME NEW str \in Seq(Char), NEW pat \in Seq(PatternChar), WildcardMatch(str, pat)
    PROVE  Matches(str, pat, TRUE)
<1>1. PICK at \in [1 .. Len(pat) + 1 -> 1 .. Len(str) + 1] :
          /\ at[1] = 1 /\ at[Len(pat) + 1] = Len(str) + 1
          /\ \A k \in 1 .. Len(pat) : GoesOn(str, pat, k, at[k], at[k + 1])
  BY DEF WildcardMatch
<1>2. Len(str) \in Nat /\ Len(pat) \in Nat /\ \A k \in 1 .. Len(pat) : pat[k] \in PatternChar
  OBVIOUS
<1>3. ASSUME NEW k \in 1 .. Len(pat)
      PROVE  \/ pat[k] = "*" /\ at[k] <= at[k + 1]
             \/ /\ at[k + 1] = at[k] + 1
                /\ pat[k] = "?" \/ (pat[k] \in Char /\ LowerChar[pat[k]] = LowerChar[str[at[k]]])
             \/ /\ at[k] = Len(str) + 1 /\ at[k + 1] = at[k]
                /\ pat[k] = "?" \/ (IsFirstDot(pat, k) /\ (NoDot(str) \/ TRUE))
  <2> DEFINE j == at[k]
             stops == {n \in j .. Len(str) : k < Len(pat) /\ str[n] = pat[k + 1]}
  <2>1. j \in 1 .. Len(str) + 1 /\ k + 1 \in 1 .. Len(pat) + 1 /\ at[k + 1] \in 1 .. Len(str) + 1
    <3>1. k \in 1 .. Len(pat) + 1 /\ k + 1 \in 1 .. Len(pat) + 1
      BY <1>2
    <3>2. at \in [1 .. Len(pat) + 1 -> 1 .. Len(str) + 1]
      BY <1>1
    <3> HIDE <1>1, <1>2
    <3> QED
      BY <3>1, <3>2
  <2>2. GoesOn(str, pat, k, j, at[k + 1])
    BY <1>1
  <2>3. CASE pat[k] = "?"
    BY <2>1, <2>2, <2>3, <1>2 DEF GoesOn
  <2>4. CASE IsFirstDot(pat, k)
    <3>1. pat[k] = "." /\ "." \in Char
      BY <2>4 DEF IsFirstDot, Char
    <3> QED
      BY <2>1, <2>2, <2>4, <1>2, <3>1 DEF GoesOn
  <2>5. CASE pat[k] = "*"
    <3>1. at[k + 1] = Min(stops \cup {Len(str) + 1})
      BY <2>2, <2>5 DEF GoesOn, IsFirstDot
    <3>2. stops \cup {Len(str) + 1} \in SUBSET Nat /\ stops \cup {Len(str) + 1} # {}
      BY <2>1, <1>2
    <3>3. at[k + 1] \in stops \cup {Len(str) + 1}
      BY <3>1, <3>2, LeastNatural, ZenonT(60)
    <3> QED
      BY <2>1, <2>5, <3>3, <1>2
  <2>6. CASE pat[k] # "?" /\ ~IsFirstDot(pat, k) /\ pat[k] # "*"
    <3>1. pat[k] \in Char
      BY <2>6, <1>2 DEF PatternChar
    <3> QED
      BY <2>1, <2>2, <2>6, <3>1, <1>2 DEF GoesOn
  <2> QED
    BY <2>3, <2>4, <2>5, <2>6
<1> QED
  BY <1>1, <1>3 DEF Matches

(* A letter is a dot if it is one in lower case.                            *)
LEMMA DotIsDot ==
    ASSUME NEW c \in Char, LowerChar[c] = LowerChar["."]
    PROVE  c = "."
BY DEF Char, LowerChar

(* And it finds what an ordinary pattern stands for, in names with a dot at *)
(* most: going to the first dot is then going to the only one.              *)
LEMMA MatchedIsTaken ==
    ASSUME NEW str \in Seq(Char), NEW pat \in Seq(PatternChar), Matches(str, pat, FALSE),
           Classic(pat), OneDot(str)
    PROVE  WildcardMatch(str, pat)
<1> DEFINE Piece(cut, k) ==
              \/ pat[k] = "*" /\ cut[k] <= cut[k + 1]
              \/ /\ cut[k + 1] = cut[k] + 1
                 /\ pat[k] = "?" \/ (pat[k] \in Char /\ LowerChar[pat[k]] = LowerChar[str[cut[k]]])
              \/ /\ cut[k] = Len(str) + 1 /\ cut[k + 1] = cut[k]
                 /\ pat[k] = "?" \/ (IsFirstDot(pat, k) /\ NoDot(str))
<1>1. PICK cut \in [1 .. Len(pat) + 1 -> 1 .. Len(str) + 1] :
          /\ cut[1] = 1 /\ cut[Len(pat) + 1] = Len(str) + 1
          /\ \A k \in 1 .. Len(pat) : Piece(cut, k)
  BY DEF Matches
<1> HIDE DEF Piece
<1>2. /\ Len(str) \in Nat /\ Len(pat) \in Nat /\ DOMAIN str = 1 .. Len(str)
      /\ \A i \in 1 .. Len(str) : str[i] \in Char
  OBVIOUS
<1>3. "*" \notin Char /\ "?" \notin Char /\ "." \in Char
  BY DEF Char
<1>4. ASSUME NEW k \in 1 .. Len(pat)
      PROVE  GoesOn(str, pat, k, cut[k], cut[k + 1])
  <2> DEFINE j == cut[k]
             stops == {n \in j .. Len(str) : k < Len(pat) /\ str[n] = pat[k + 1]}
  <2>1. j \in 1 .. Len(str) + 1 /\ k + 1 \in 1 .. Len(pat) + 1 /\ cut[k + 1] \in 1 .. Len(str) + 1
    <3>1. \A n \in 1 .. Len(pat) + 1 : cut[n] \in 1 .. Len(str) + 1
      BY <1>1
    <3>2. k \in 1 .. Len(pat) + 1 /\ k + 1 \in 1 .. Len(pat) + 1
      BY <1>2
    <3> QED
      BY <3>1, <3>2
  <2>2. Piece(cut, k)
    BY <1>1
  <2>3. cut[k + 1] = cut[k] + 1 => j <= Len(str)
    BY <2>1, <1>2
  <2>4. CASE pat[k] = "?"
    BY <2>1, <2>2, <2>3, <2>4, <1>2 DEF GoesOn, Piece, IsFirstDot
  <2>5. CASE IsFirstDot(pat, k)
    <3>1. pat[k] = "."
      BY <2>5 DEF IsFirstDot
    <3>2. ASSUME cut[k + 1] = cut[k] + 1 PROVE str[j] = "."
      <4>1. LowerChar["."] = LowerChar[str[j]]
        BY <2>2, <2>1, <3>1, <3>2, <1>2 DEF Piece
      <4> QED
        BY <2>1, <2>3, <3>2, <4>1, <1>2, DotIsDot
    <3> QED
      BY <2>1, <2>2, <2>3, <2>5, <3>1, <3>2, <1>2 DEF GoesOn, Piece
  <2>6. CASE pat[k] = "*"
    <3>1. j <= cut[k + 1]
      BY <2>2, <2>6, <2>1, <1>2, <1>3 DEF IsFirstDot, Piece
    <3>2. stops \cup {Len(str) + 1} \in SUBSET Nat /\ stops \cup {Len(str) + 1} # {}
      BY <2>1, <1>2
    <3>3. cut[k + 1] \in stops \cup {Len(str) + 1} /\ \A n \in stops \cup {Len(str) + 1} : cut[k + 1] <= n
      <4>1. CASE k = Len(pat)
        BY <4>1, <1>1, <1>2
      <4>2. CASE k # Len(pat)
        <5>1. k + 1 \in 1 .. Len(pat) /\ k \in 1 .. Len(pat) - 1 /\ k < Len(pat)
          BY <4>2, <1>2
        <5>2. pat[k + 1] = "."
          BY <5>1, <2>6 DEF Classic
        <5>3. Piece(cut, k + 1) /\ k + 1 + 1 \in 1 .. Len(pat) + 1
          BY <5>1, <1>1, <1>2
        <5>4. CASE cut[k + 1] = Len(str) + 1 /\ NoDot(str)
          <6>1. \A n \in 1 .. Len(str) : str[n] # "."
            BY <5>4, <1>2 DEF NoDot, ToSet
          <6>2. stops = {}
            BY <6>1, <5>2, <2>1, <1>2
          <6> QED
            BY <5>4, <6>2, <1>2
        <5>5. CASE cut[k + 1 + 1] = cut[k + 1] + 1 /\ LowerChar["."] = LowerChar[str[cut[k + 1]]]
          <6> DEFINE d == cut[k + 1]
          <6>1. d \in 1 .. Len(str)
            <7>1. cut[k + 1 + 1] \in 1 .. Len(str) + 1
              BY <5>3, <1>1
            <7> QED
              BY <5>5, <7>1, <2>1, <1>2
          <6>2. str[d] = "."
            BY <5>5, <6>1, <1>2, DotIsDot
          <6>3. d \in stops
            BY <6>1, <6>2, <5>1, <5>2, <3>1, <2>1
          <6>4. ASSUME NEW n \in stops PROVE n = d
            BY <6>1, <6>2, <5>2, <2>1, <1>2 DEF OneDot
          <6> QED
            BY <6>1, <6>3, <6>4, <1>2
        <5> QED
          BY <5>2, <5>3, <5>4, <5>5, <1>3 DEF Piece
      <4> QED
        BY <4>1, <4>2
    <3>4. cut[k + 1] = Min(stops \cup {Len(str) + 1})
      <4> DEFINE S == stops \cup {Len(str) + 1}
      <4>1. Min(S) \in S /\ \A n \in S : Min(S) <= n
        BY <3>2, LeastNatural
      <4>2. Min(S) <= cut[k + 1] /\ cut[k + 1] <= Min(S) /\ Min(S) \in Nat
        <5>1. Min(S) \in Nat /\ cut[k + 1] \in Nat /\ cut[k + 1] \in S
          BY <4>1, <3>2, <3>3
        <5> QED
          BY <4>1, <5>1, <3>3
      <4> HIDE DEF S
      <4>3. cut[k + 1] \in Nat
        BY <2>1, <1>2
      <4>4. cut[k + 1] = Min(S)
        BY <4>2, <4>3
      <4> QED
        BY <4>4 DEF S
    <3> QED
      BY <2>6, <3>4 DEF GoesOn, IsFirstDot
  <2>7. CASE pat[k] # "?" /\ ~IsFirstDot(pat, k) /\ pat[k] # "*"
    BY <2>1, <2>2, <2>3, <2>7, <1>2 DEF GoesOn, Piece
  <2> QED
    BY <2>4, <2>5, <2>6, <2>7
<1> QED
  BY <1>1, <1>4 DEF WildcardMatch

(* The attributes that Takes asks for are those that were meant.            *)
LEMMA KindIsMeant ==
    ASSUME NEW e \in [name : Seq(Char), kind : {"file", "dir", "other"}, ro : BOOLEAN],
           NEW attr \in [must : SUBSET Bit, may : SUBSET Bit]
    PROVE  IsOfKind(e, attr) <=>
               LET a == Meant(attr) IN
               /\ a.must \cap {"hidden", "system", "archived"} = {}
               /\ e.kind \in {"file", "dir"}
               /\ IF e.kind = "dir" THEN "dir" \in a.may ELSE "dir" \notin a.must
               /\ IF e.ro THEN "ro" \in a.may ELSE "ro" \notin a.must
<1>1. attr.must \in SUBSET Bit /\ attr.may \in SUBSET Bit /\ e.kind \in {"file", "dir", "other"} /\ e.ro \in BOOLEAN
  OBVIOUS
<1>2. CASE attr.must = {} /\ attr.may = {}
  BY <1>1, <1>2 DEF IsOfKind, Meant, Attributes, Bit
<1>3. CASE ~(attr.must = {} /\ attr.may = {})
  <2>1. Meant(attr) = attr /\ attr.must \cup attr.may # {}
    BY <1>3 DEF Meant
  <2>2. attr.must \subseteq Attributes(e) <=>
            /\ attr.must \cap {"hidden", "system", "archived"} = {}
            /\ "dir" \in attr.must => e.kind = "dir"
            /\ "ro" \in attr.must => e.ro
    BY <1>1 DEF Attributes, Bit
  <2>3. Attributes(e) \subseteq attr.may <=>
            (e.kind = "dir" => "dir" \in attr.may) /\ (e.ro => "ro" \in attr.may)
    BY <1>1 DEF Attributes
  <2> QED
    BY <1>1, <2>1, <2>2, <2>3 DEF IsOfKind
<1> QED
  BY <1>2, <1>3

(* What findNextOne takes is allowed, and what is wanted it takes.          *)
LEMMA TakesIsRight ==
    ASSUME NEW q \in Query
    PROVE  Wanted[q] \subseteq Takes[q] /\ Takes[q] \subseteq Allowed[q] /\ Takes[q] \subseteq DOMAIN Entry
<1>1. q.pattern \in Seq(PatternChar) /\ q.attr \in [must : SUBSET Bit, may : SUBSET Bit]
  BY QueryAssumption DEF PatternChar
<1>2. \A i \in DOMAIN Entry : Entry[i] \in [name : Seq(Char), kind : {"file", "dir", "other"}, ro : BOOLEAN]
  <2> DEFINE T == [name : Seq(Char), kind : {"file", "dir", "other"}, ro : BOOLEAN]
  <2>1. Entry \in Seq(T)
    BY EntryAssumption
  <2> HIDE DEF T
  <2>2. \A i \in DOMAIN Entry : Entry[i] \in T
    BY <2>1
  <2> QED
    BY <2>2 DEF T
<1>3. Takes[q] = {i \in DOMAIN Entry : IsOfKind(Entry[i], q.attr) /\ WildcardMatch(Entry[i].name, q.pattern)}
  <2>1. ASSUME NEW i \in DOMAIN Entry
        PROVE  i \in Takes[q] <=> IsOfKind(Entry[i], q.attr) /\ WildcardMatch(Entry[i].name, q.pattern)
    BY <1>1, <1>2, KindIsMeant DEF Takes
  <2>2. Takes[q] \subseteq DOMAIN Entry
    BY DEF Takes
  <2> QED
    BY <2>1, <2>2
<1>4. ASSUME NEW i \in Takes[q] PROVE i \in Allowed[q]
  <2>1. Matches(Entry[i].name, q.pattern, TRUE)
    BY <1>1, <1>2, <1>3, TakenIsMatched
  <2> QED
    BY <1>3, <2>1 DEF Allowed
<1>5. ASSUME NEW i \in Wanted[q] PROVE i \in Takes[q]
  <2>1. /\ i \in DOMAIN Entry /\ IsOfKind(Entry[i], q.attr) /\ Matches(Entry[i].name, q.pattern, FALSE)
        /\ Classic(q.pattern) /\ OneDot(Entry[i].name)
    BY DEF Wanted
  <2>2. WildcardMatch(Entry[i].name, q.pattern)
    BY <1>1, <1>2, <2>1, MatchedIsTaken
  <2> QED
    BY <1>3, <2>1, <2>2
<1> QED
  BY <1>3, <1>4, <1>5

-----------------------------------------------------------------------------
(* The loop of findNext.                                                    *)
End == Len(Entry) + 1

(* What a round finds, and what it makes of the state of the loop.          *)
More(r, b) == {i \in b.at .. Len(Entry) : b.room > 0 /\ i \in Takes[r.query] \ gone}

Round(r, b) ==
    IF More(r, b) = {} THEN [b EXCEPT !.at = Len(Entry) + 1]
    ELSE IF r.level = "16bit"
    THEN [at |-> Min(More(r, b)) + 1, list |-> <<Min(More(r, b))>>, room |-> b.room]
    ELSE [at |-> Min(More(r, b)) + 1, list |-> Append(b.list, Min(More(r, b))), room |-> b.room - 1]

Loop == [at : 1 .. End, list : Seq(DOMAIN Entry), room : Nat]

(* A round takes the first entry of those that are left, if there is one.  *)
LEMMA RoundType ==
    ASSUME NEW r, NEW b \in Loop
    PROVE  /\ Round(r, b) \in Loop
           /\ More(r, b) # {} => /\ Min(More(r, b)) \in More(r, b)
                                 /\ \A i \in More(r, b) : Min(More(r, b)) <= i
<1>1. Len(Entry) \in Nat /\ DOMAIN Entry = 1 .. Len(Entry) /\ End = Len(Entry) + 1
  BY EntryAssumption DEF End
<1>2. b.at \in 1 .. End /\ b.list \in Seq(DOMAIN Entry) /\ b.room \in Nat
  BY DEF Loop
<1>3. More(r, b) \in SUBSET Nat
  BY <1>1, <1>2 DEF More
<1>4. More(r, b) # {} => Min(More(r, b)) \in More(r, b) /\ \A i \in More(r, b) : Min(More(r, b)) <= i
  BY <1>3, LeastNatural
<1>5. CASE More(r, b) = {}
  <2>1. [b EXCEPT !.at = Len(Entry) + 1] \in Loop
    BY <1>1 DEF Loop
  <2> QED
    BY <1>4, <1>5, <2>1 DEF Round
<1>6. CASE More(r, b) # {}
  <2>1. PICK m : m = Min(More(r, b))
    OBVIOUS
  <2>2. m \in DOMAIN Entry /\ m + 1 \in 1 .. End /\ b.room > 0
    BY <1>1, <1>2, <1>4, <1>6, <2>1 DEF More
  <2>3. <<m>> \in Seq(DOMAIN Entry) /\ Append(b.list, m) \in Seq(DOMAIN Entry) /\ b.room - 1 \in Nat
    BY <1>2, <2>2
  <2>4. Round(r, b) \in Loop
    BY <1>2, <1>6, <2>1, <2>2, <2>3 DEF Round, Loop
  <2> QED
    BY <1>4, <2>4
<1> QED
  BY <1>5, <1>6

(* The states of the loop: one before the first round and after each.       *)
IsRun(loop, r, count, room) ==
    /\ loop \in [0 .. count -> Loop]
    /\ loop[0] = [at |-> r.at, list |-> <<>>, room |-> room]
    /\ \A n \in 1 .. count : loop[n] = Round(r, loop[n - 1])
    /\ Batch(r, count, room) = loop[count]

(* There are such states, and Batch is the last.                            *)
LEMMA BatchIsLoop ==
    ASSUME NEW r, r.at \in 1 .. End, NEW count \in Nat, NEW room \in Nat
    PROVE  \E loop : IsRun(loop, r, count, room)
<1> DEFINE base == [at |-> r.at, list |-> <<>>, room |-> room]
           step == [p \in Loop \X (1 .. count) |-> Round(r, p[1])]
           Rec(g) == g = [n \in 0 .. count |-> IF n = 0 THEN base ELSE Round(r, g[n - 1])]
<1>1. Batch(r, count, room) = (CHOOSE g : Rec(g))[count]
  BY DEF Batch, Round, More
<1>2. base \in Loop
  BY DEF Loop
<1>3. step \in [Loop \X (1 .. count) -> Loop]
  BY RoundType
<1>4. \E g : IsLoop(g, Loop, base, count, step)
  <2> HIDE DEF step, base
  <2> QED
    BY <1>2, <1>3, LoopExists
<1>5. PICK g : IsLoop(g, Loop, base, count, step)
  BY <1>4
<1> HIDE DEF base
<1>6. ASSUME NEW n \in 0 .. count
      PROVE  g[n] = IF n = 0 THEN base ELSE Round(r, g[n - 1])
  <2>1. g[n] = IF n = 0 THEN base ELSE step[<<g[n - 1], n>>]
    BY <1>5 DEF IsLoop
  <2>2. n # 0 => n \in 1 .. count /\ n - 1 \in 0 .. count
    OBVIOUS
  <2>3. n # 0 => g[n - 1] \in Loop
    BY <1>5, <2>2 DEF IsLoop
  <2> QED
    BY <2>1, <2>2, <2>3
<1>7. Rec(g)
  <2>1. g = [n \in 0 .. count |-> g[n]]
    BY <1>5 DEF IsLoop
  <2> QED
    BY <1>6, <2>1
<1> DEFINE loop == CHOOSE f : Rec(f)
<1>8. Rec(loop)
  <2> HIDE DEF Rec
  <2> QED
    BY <1>7
<1> HIDE DEF loop, step
<1>9. loop[0] = base /\ \A n \in 1 .. count : loop[n] = Round(r, loop[n - 1])
  <2>1. 0 \in 0 .. count /\ \A n \in 1 .. count : n \in 0 .. count /\ n # 0
    OBVIOUS
  <2> QED
    BY <1>8, <2>1
<1>10. \A n \in 0 .. count : loop[n] \in Loop
  <2> DEFINE S == {n \in 0 .. count : loop[n] \in Loop}
  <2>1. 0 \in S
    BY <1>2, <1>9
  <2>2. ASSUME NEW n \in 1 .. count, n - 1 \in S PROVE n \in S
    BY <2>2, <1>9, RoundType
  <2>3. ASSUME NEW n \in 0 .. count PROVE n \in S
    <3>1. n \in Nat /\ \A k \in 1 .. n : k - 1 \in S => k \in S
      <4>1. \A k \in 1 .. n : k \in 1 .. count
        OBVIOUS
      <4> HIDE DEF S
      <4> QED
        BY <2>2, <4>1
    <3> HIDE DEF S
    <3> QED
      BY <2>1, <3>1, UpTo
  <2> QED
    BY <2>3
<1>11. loop = [n \in 0 .. count |-> loop[n]]
  BY <1>8
<1>12. Batch(r, count, room) = loop[count]
  BY <1>1 DEF loop
<1> QED
  <2>1. loop \in [0 .. count -> Loop]
    BY <1>10, <1>11
  <2> QED
    BY <1>9, <1>12, <2>1 DEF base, IsRun

(* What a call of findNext asks for is what its buffer holds.               *)
Fits(r, count, room) == count <= room /\ (r.level = "16bit" => count <= 1)

(* After n rounds: the list has what can be taken, in order and once; a     *)
(* round that found nothing has gone to the end of the directory; and if    *)
(* all fits, nothing was passed over.                                       *)
LoopInv(r, count, room, n, b) ==
    /\ b \in Loop /\ r.at <= b.at /\ room <= b.room + n /\ (n = 0 => b.at = r.at)
    /\ \A k \in DOMAIN b.list : b.list[k] \in Takes[r.query] \ gone /\ r.at <= b.list[k] /\ b.list[k] < b.at
    /\ \A k, l \in DOMAIN b.list : k < l => b.list[k] < b.list[l]
    /\ b.list = <<>> /\ n > 0 => b.at = End
    /\ Fits(r, count, room) =>
           \A i \in Takes[r.query] \ gone : r.at <= i /\ i < b.at => i \in ToSet(b.list)

(* Each round keeps this.                                                  *)
LEMMA RoundKeeps ==
    ASSUME NEW r, r.at \in 1 .. End, r.query \in Query, NEW count \in Nat, NEW room \in Nat,
           NEW n \in 1 .. count, NEW b, LoopInv(r, count, room, n - 1, b)
    PROVE  LoopInv(r, count, room, n, Round(r, b))
<1> DEFINE c == Round(r, b)
           T == Takes[r.query] \ gone
<1>1. Len(Entry) \in Nat /\ DOMAIN Entry = 1 .. Len(Entry) /\ End = Len(Entry) + 1
  BY EntryAssumption DEF End
<1>2. b \in Loop /\ b.at \in 1 .. End /\ b.list \in Seq(DOMAIN Entry) /\ b.room \in Nat /\ r.at <= b.at
  BY DEF LoopInv, Loop
<1>3. Round(r, b) \in Loop /\ T \subseteq DOMAIN Entry
  BY <1>2, RoundType, TakesIsRight
<1>4. /\ \A k \in DOMAIN b.list : b.list[k] \in T /\ r.at <= b.list[k] /\ b.list[k] < b.at
      /\ \A k, l \in DOMAIN b.list : k < l => b.list[k] < b.list[l]
      /\ Fits(r, count, room) => \A i \in T : r.at <= i /\ i < b.at => i \in ToSet(b.list)
      /\ room <= b.room + (n - 1) /\ (n - 1 = 0 => b.at = r.at)
  BY DEF LoopInv
<1>5. CASE More(r, b) = {}
  <2>1. c.at = End /\ c.list = b.list /\ c.room = b.room
    BY <1>1, <1>2, <1>5 DEF Round, Loop
  <2>2. ASSUME Fits(r, count, room), NEW i \in T, r.at <= i
        PROVE  i \in ToSet(b.list)
    <3>1. b.room > 0
      BY <2>2, <1>2, <1>4 DEF Fits
    <3>2. i < b.at
      BY <3>1, <1>1, <1>2, <1>3, <1>5 DEF More
    <3> QED
      BY <2>2, <3>2, <1>4
  <2> HIDE DEF c
  <2> QED
    BY <1>1, <1>2, <1>3, <1>4, <2>1, <2>2 DEF LoopInv, c
<1>6. CASE More(r, b) # {}
  <2>1. PICK m : m = Min(More(r, b))
    OBVIOUS
  <2>2. m \in T /\ m \in b.at .. Len(Entry) /\ b.room > 0 /\ \A i \in T : i >= b.at => m <= i
    <3>1. m \in More(r, b) /\ \A i \in More(r, b) : m <= i
      BY <1>2, <1>6, <2>1, RoundType
    <3>2. m \in T /\ m \in b.at .. Len(Entry) /\ b.room > 0
      BY <3>1 DEF More
    <3>3. ASSUME NEW i \in T, i >= b.at PROVE i \in More(r, b)
      BY <1>1, <1>2, <1>3, <3>2, <3>3 DEF More
    <3> QED
      BY <3>1, <3>2, <3>3
  <2>3. ASSUME NEW i \in T, i < m + 1 PROVE i < b.at \/ i = m
    <3>1. i \in Int /\ m \in Int /\ b.at \in Int
      BY <1>1, <1>2, <1>3, <2>2
    <3>2. i >= b.at => m <= i
      BY <2>2
    <3> QED
      BY <2>3, <3>1, <3>2
  <2>4. CASE r.level = "16bit"
    <3>1. c.at = m + 1 /\ c.list = <<m>> /\ c.room = b.room
      BY <1>6, <2>1, <2>4 DEF Round
    <3>2. ASSUME Fits(r, count, room), NEW i \in T, r.at <= i, i < m + 1
          PROVE  i \in ToSet(<<m>>)
      <4>1. n = 1 /\ b.at = r.at
        BY <2>4, <3>2, <1>4 DEF Fits
      <4>2. i = m
        BY <1>1, <1>2, <1>3, <2>3, <3>2, <4>1
      <4> QED
        BY <4>2 DEF ToSet
    <3>3. PICK x : x = <<m>>
      OBVIOUS
    <3>4. x # <<>> /\ DOMAIN x = {1} /\ x[1] = m
      BY <3>3
    <3>5. \A k \in DOMAIN x : x[k] \in T /\ r.at <= x[k] /\ x[k] < m + 1
      BY <3>4, <2>2, <1>1, <1>2
    <3>6. \A k, l \in DOMAIN x : ~(k < l)
      BY <3>4
    <3>7. r.at <= m + 1 /\ room <= b.room + n /\ n > 0
      BY <1>1, <1>2, <1>4, <2>2
    <3>8. c.at = m + 1 /\ c.list = x /\ c.room = b.room
      BY <3>1, <3>3
    <3>9. Fits(r, count, room) => \A i \in T : r.at <= i /\ i < m + 1 => i \in ToSet(x)
      BY <3>2, <3>3
    <3> HIDE DEF c
    <3> QED
      BY <1>3, <3>4, <3>5, <3>6, <3>7, <3>8, <3>9 DEF LoopInv, c
  <2>5. CASE r.level # "16bit"
    <3>1. c.at = m + 1 /\ c.list = Append(b.list, m) /\ c.room = b.room - 1
      BY <1>6, <2>1, <2>5 DEF Round
    <3>2. PICK x : x = Append(b.list, m)
      OBVIOUS
    <3>3. Len(b.list) \in Nat /\ DOMAIN b.list = 1 .. Len(b.list)
      BY <1>2
    <3>4. /\ DOMAIN x = 1 .. Len(b.list) + 1 /\ x[Len(b.list) + 1] = m /\ x # <<>>
          /\ \A k \in DOMAIN b.list : x[k] = b.list[k]
      BY <1>2, <3>2
    <3>5. ASSUME Fits(r, count, room), NEW i \in T, r.at <= i, i < m + 1
          PROVE  i \in ToSet(x)
      <4>1. i = m \/ i \in ToSet(b.list)
        BY <1>4, <2>3, <3>5
      <4> QED
        BY <4>1, <3>3, <3>4 DEF ToSet
    <3>6. ASSUME NEW k \in DOMAIN x PROVE x[k] \in T /\ r.at <= x[k] /\ x[k] < m + 1
      <4>1. CASE k = Len(b.list) + 1
        BY <4>1, <3>4, <2>2, <1>1, <1>2
      <4>2. CASE k \in DOMAIN b.list
        <5>1. x[k] \in T /\ r.at <= x[k] /\ x[k] < b.at
          BY <4>2, <3>4, <1>4
        <5>2. x[k] \in Nat /\ b.at <= m /\ m \in Nat /\ b.at \in Nat
          BY <5>1, <2>2, <1>1, <1>2, <1>3
        <5> QED
          BY <5>1, <5>2
      <4> QED
        BY <4>1, <4>2, <3>3, <3>4
    <3>7. ASSUME NEW k \in DOMAIN x, NEW l \in DOMAIN x, k < l PROVE x[k] < x[l]
      <4>1. k \in DOMAIN b.list
        BY <3>3, <3>4, <3>7
      <4>2. CASE l = Len(b.list) + 1
        BY <4>1, <4>2, <3>4, <2>2, <1>1, <1>2, <1>3, <1>4
      <4>3. CASE l \in DOMAIN b.list
        BY <4>1, <4>3, <3>4, <3>7, <1>4
      <4> QED
        BY <4>2, <4>3, <3>3, <3>4
    <3>8. c.at = m + 1 /\ c.list = x /\ c.room = b.room - 1
      BY <3>1, <3>2
    <3>9. r.at <= m + 1 /\ room <= b.room - 1 + n /\ n > 0
      BY <1>1, <1>2, <1>4, <2>2
    <3> HIDE DEF c
    <3> QED
      BY <1>3, <3>4, <3>5, <3>6, <3>7, <3>8, <3>9 DEF LoopInv, c
  <2> QED
    BY <2>4, <2>5
<1> QED
  BY <1>5, <1>6

(* What findNext has delivered when it returns.                             *)
LEMMA BatchIs ==
    ASSUME NEW r, r.at \in 1 .. End, r.query \in Query, NEW count \in Nat, NEW room \in Nat
    PROVE  LoopInv(r, count, room, count, Batch(r, count, room))
<1>1. PICK loop : IsRun(loop, r, count, room)
  BY BatchIsLoop
<1> DEFINE S == {n \in 0 .. count : LoopInv(r, count, room, n, loop[n])}
<1>2. 0 \in S
  <2>1. loop[0] \in Loop /\ loop[0].at = r.at /\ loop[0].list = <<>> /\ loop[0].room = room
    BY <1>1 DEF IsRun
  <2>2. Takes[r.query] \subseteq DOMAIN Entry /\ DOMAIN Entry \subseteq Nat
    BY TakesIsRight, EntryAssumption
  <2>3. ~(\E i \in Takes[r.query] : r.at <= i /\ i < r.at)
    BY <2>2 DEF End
  <2>4. r.at <= r.at
    BY EntryAssumption DEF End
  <2> QED
    BY <2>1, <2>3, <2>4 DEF LoopInv
<1>3. ASSUME NEW n \in 1 .. count, n - 1 \in S PROVE n \in S
  <2>1. LoopInv(r, count, room, n - 1, loop[n - 1]) /\ loop[n] = Round(r, loop[n - 1]) /\ n \in 0 .. count
    BY <1>1, <1>3 DEF IsRun
  <2>2. LoopInv(r, count, room, n, Round(r, loop[n - 1]))
    BY <2>1, RoundKeeps
  <2> QED
    BY <2>1, <2>2
<1>4. count \in S
  <2> HIDE DEF S
  <2> QED
    BY <1>2, <1>3, UpTo
<1> QED
  BY <1>1, <1>4 DEF IsRun

-----------------------------------------------------------------------------
(* A DirFinder that has been used: what its search has delivered so far.     *)
FinderRecord == [life : {"open", "closed"}, at : 1 .. End, query : Query, level : {"standard", "16bit"},
                 got : Seq(DOMAIN Entry), greedy : BOOLEAN]

Sound(x) ==
    /\ x \in FinderRecord
    /\ \A k \in DOMAIN x.got : x.got[k] \in Takes[x.query] /\ x.got[k] < x.at
    /\ \A k, l \in DOMAIN x.got : k < l => x.got[k] < x.got[l]
    /\ x.life = "closed" => x.at = End
    /\ ~x.greedy => \A i \in Takes[x.query] \ gone : i < x.at => i \in ToSet(x.got)

(* What SearchDelivers says of an outcome.                                  *)
Delivered(o) ==
    /\ \A k \in DOMAIN o.got : o.got[k] \in Allowed[o.query]
    /\ \A k \in 1 .. Len(o.got) - 1 : o.got[k] < o.got[k + 1]
    /\ ~o.greedy => Wanted[o.query] \ o.gone \subseteq ToSet(o.got)

(* The directory is a sequence.                                            *)
LEMMA EntryFacts ==
    Len(Entry) \in Nat /\ DOMAIN Entry = 1 .. Len(Entry) /\ End = Len(Entry) + 1
BY EntryAssumption DEF End

(* A search at the end of the directory has delivered what it should.       *)
LEMMA OutcomeIsRight ==
    ASSUME NEW x, Sound(x), x.at = End
    PROVE  Delivered(Outcome(x))
<1>1. /\ x.query \in Query /\ x.got \in Seq(DOMAIN Entry)
      /\ Takes[x.query] \subseteq Allowed[x.query] /\ Wanted[x.query] \subseteq Takes[x.query]
      /\ Takes[x.query] \subseteq DOMAIN Entry
  BY TakesIsRight DEF Sound, FinderRecord
<1>2. PICK o : o = Outcome(x)
  OBVIOUS
<1>3. o.got = x.got /\ o.query = x.query /\ o.greedy = x.greedy /\ o.gone = gone
  BY <1>2 DEF Outcome
<1>4. \A k \in DOMAIN x.got : x.got[k] \in Allowed[x.query]
  BY <1>1 DEF Sound
<1>5. ASSUME NEW k \in 1 .. Len(x.got) - 1
      PROVE  x.got[k] < x.got[k + 1]
  <2>1. k \in DOMAIN x.got /\ k + 1 \in DOMAIN x.got /\ k < k + 1
    BY <1>1
  <2> QED
    BY <2>1 DEF Sound
<1>6. ASSUME ~x.greedy, NEW i \in Wanted[x.query] \ gone
      PROVE  i \in ToSet(x.got)
  <2>1. i \in Takes[x.query] \ gone /\ i < x.at
    BY <1>1, <1>6, EntryFacts
  <2> QED
    BY <1>6, <2>1 DEF Sound
<1>7. Delivered(o)
  BY <1>3, <1>4, <1>5, <1>6 DEF Delivered
<1> QED
  BY <1>2, <1>7

(* What got becomes: lists in order, one behind the other.                  *)
LEMMA InOrder ==
    ASSUME NEW a \in Seq(DOMAIN Entry), NEW b \in Seq(DOMAIN Entry), NEW m \in Nat,
           \A k \in DOMAIN a : a[k] < m, \A k \in DOMAIN b : m <= b[k],
           \A k, l \in DOMAIN a : k < l => a[k] < a[l],
           \A k, l \in DOMAIN b : k < l => b[k] < b[l]
    PROVE  /\ a \o b \in Seq(DOMAIN Entry)
           /\ \A k \in DOMAIN (a \o b) : (a \o b)[k] \in ToSet(a) \cup ToSet(b)
           /\ \A k, l \in DOMAIN (a \o b) : k < l => (a \o b)[k] < (a \o b)[l]
           /\ ToSet(a) \cup ToSet(b) \subseteq ToSet(a \o b)
<1>1. PICK c : c = a \o b
  OBVIOUS
<1>2. Len(a) \in Nat /\ Len(b) \in Nat /\ DOMAIN a = 1 .. Len(a) /\ DOMAIN b = 1 .. Len(b)
  OBVIOUS
<1>3. /\ c \in Seq(DOMAIN Entry) /\ DOMAIN c = 1 .. Len(a) + Len(b)
      /\ \A k \in 1 .. Len(a) : c[k] = a[k]
      /\ \A k \in 1 .. Len(b) : c[Len(a) + k] = b[k]
  BY <1>1
<1>4. /\ \A k \in DOMAIN a : a[k] \in Nat
      /\ \A k \in DOMAIN b : b[k] \in Nat
  BY EntryFacts
<1>5. ASSUME NEW k \in DOMAIN c
      PROVE  \/ k \in DOMAIN a /\ c[k] = a[k]
             \/ k - Len(a) \in DOMAIN b /\ c[k] = b[k - Len(a)] /\ k > Len(a)
  <2>1. CASE k <= Len(a)
    BY <2>1, <1>2, <1>3
  <2>2. CASE k > Len(a)
    <3>1. k - Len(a) \in 1 .. Len(b) /\ k = Len(a) + (k - Len(a))
      BY <2>2, <1>2, <1>3
    <3> QED
      BY <2>2, <3>1, <1>2, <1>3
  <2> QED
    BY <2>1, <2>2, <1>2, <1>3
<1>6. ASSUME NEW k \in DOMAIN c, NEW l \in DOMAIN c, k < l
      PROVE  c[k] < c[l]
  <2>0. k \in Nat /\ l \in Nat
    BY <1>2, <1>3
  <2>1. CASE l \in DOMAIN a
    BY <2>0, <2>1, <1>2, <1>5, <1>6
  <2>2. CASE k \in DOMAIN a /\ l - Len(a) \in DOMAIN b /\ c[l] = b[l - Len(a)]
    <3>1. c[k] < m /\ m <= c[l] /\ c[k] \in Nat /\ c[l] \in Nat
      BY <2>2, <1>2, <1>3, <1>4
    <3> QED
      BY <3>1
  <2>3. CASE k \notin DOMAIN a
    <3>1. k - Len(a) \in DOMAIN b /\ l - Len(a) \in DOMAIN b /\ k - Len(a) < l - Len(a)
          /\ c[k] = b[k - Len(a)] /\ c[l] = b[l - Len(a)]
      BY <2>0, <2>3, <1>2, <1>5, <1>6
    <3> QED
      BY <3>1
  <2> QED
    BY <2>1, <2>2, <2>3, <1>5
<1>7. ASSUME NEW k \in DOMAIN c PROVE c[k] \in ToSet(a) \cup ToSet(b)
  BY <1>5 DEF ToSet
<1>8. ASSUME NEW i \in ToSet(a) \cup ToSet(b) PROVE i \in ToSet(c)
  <2>1. CASE i \in ToSet(a)
    <3>1. PICK k \in DOMAIN a : i = a[k]
      BY <2>1 DEF ToSet
    <3>2. k \in DOMAIN c /\ c[k] = i
      BY <3>1, <1>2, <1>3
    <3> QED
      BY <3>2 DEF ToSet
  <2>2. CASE i \in ToSet(b)
    <3>1. PICK k \in DOMAIN b : i = b[k]
      BY <2>2 DEF ToSet
    <3>2. Len(a) + k \in DOMAIN c /\ c[Len(a) + k] = i
      BY <3>1, <1>2, <1>3
    <3> QED
      BY <3>2 DEF ToSet
  <2> QED
    BY <2>1, <2>2
<1> QED
  BY <1>1, <1>3, <1>6, <1>7, <1>8

(* findNext keeps a search sound, and says "no more files" at its end.      *)
LEMMA FindNextIs ==
    ASSUME NEW r, Sound(r), NEW count \in Nat, NEW room \in Nat
    PROVE  LET n == FindNext(r, count, room) IN
           /\ Sound(n.rec) /\ n.rec.life # "free" /\ n.rec.level = r.level
           /\ n.over => n.rec.at = End
<1> DEFINE n == FindNext(r, count, room)
<1>1. /\ r \in FinderRecord /\ r.life \in {"open", "closed"} /\ r.at \in 1 .. End /\ r.query \in Query
      /\ r.got \in Seq(DOMAIN Entry) /\ r.greedy \in BOOLEAN /\ r.level \in {"standard", "16bit"}
  BY DEF Sound, FinderRecord
<1>2. CASE r.life # "open"
  <2>1. n.rec = r /\ r.life = "closed"
    BY <1>1, <1>2 DEF FindNext
  <2> QED
    BY <2>1, <1>1 DEF Sound
<1>3. CASE r.life = "open"
  <2>1. PICK b : b = Batch(r, count, room)
    OBVIOUS
  <2>2. LoopInv(r, count, room, count, b)
    BY <1>1, <2>1, BatchIs
  <2>3. PICK over \in BOOLEAN : over = (b.list = <<>> /\ count > 0)
    OBVIOUS
  <2>4. b.at \in 1 .. End /\ b.list \in Seq(DOMAIN Entry) /\ r.at <= b.at
    BY <2>2 DEF LoopInv, Loop
  <2>5. PICK x : x = [r EXCEPT !.life = IF over THEN "closed" ELSE "open",
                               !.at = b.at, !.got = @ \o b.list,
                               !.greedy = @ \/ count > room \/ (r.level = "16bit" /\ count > 1)]
    OBVIOUS
  <2>6. n.rec = x /\ n.over = over
    BY <1>3, <2>1, <2>3, <2>5 DEF FindNext
  <2>7. /\ x.life = (IF over THEN "closed" ELSE "open") /\ x.at = b.at /\ x.got = r.got \o b.list
        /\ x.query = r.query /\ x.level = r.level
        /\ x.greedy = (r.greedy \/ count > room \/ (r.level = "16bit" /\ count > 1))
        /\ x \in FinderRecord
    <3>1. r.got \o b.list \in Seq(DOMAIN Entry)
      BY <1>1, <2>4
    <3>2. (r.greedy \/ count > room \/ (r.level = "16bit" /\ count > 1)) \in BOOLEAN
      BY <1>1
    <3> QED
      BY <1>1, <2>4, <2>5, <3>1, <3>2 DEF FinderRecord
  <2>8. over => b.at = End
    BY <2>2, <2>3 DEF LoopInv
  <2>9. /\ \A k \in DOMAIN b.list : b.list[k] \in Takes[r.query] \ gone /\ r.at <= b.list[k] /\ b.list[k] < b.at
        /\ \A k, l \in DOMAIN b.list : k < l => b.list[k] < b.list[l]
        /\ Fits(r, count, room) =>
               \A i \in Takes[r.query] \ gone : r.at <= i /\ i < b.at => i \in ToSet(b.list)
    BY <2>2 DEF LoopInv
  <2>10. /\ \A k \in DOMAIN r.got : r.got[k] \in Takes[r.query] /\ r.got[k] < r.at
         /\ \A k, l \in DOMAIN r.got : k < l => r.got[k] < r.got[l]
         /\ ~r.greedy => \A i \in Takes[r.query] \ gone : i < r.at => i \in ToSet(r.got)
    BY DEF Sound
  <2>11. /\ \A k \in DOMAIN x.got : x.got[k] \in ToSet(r.got) \cup ToSet(b.list)
         /\ \A k, l \in DOMAIN x.got : k < l => x.got[k] < x.got[l]
         /\ ToSet(r.got) \cup ToSet(b.list) \subseteq ToSet(x.got)
    <3>1. r.at \in Nat
      BY <1>1, EntryFacts
    <3> QED
      BY <1>1, <2>4, <2>7, <2>9, <2>10, <3>1, InOrder
  <2>12. Takes[r.query] \subseteq DOMAIN Entry
    BY <1>1, TakesIsRight
  <2>13. ASSUME NEW i \in ToSet(r.got) \cup ToSet(b.list)
         PROVE  i \in Takes[r.query] /\ i < b.at
    <3>1. CASE i \in ToSet(r.got)
      <4>1. i \in Takes[r.query] /\ i < r.at
        BY <3>1, <2>10 DEF ToSet
      <4>2. i \in Nat /\ r.at \in Nat /\ b.at \in Nat
        BY <4>1, <1>1, <2>4, <2>12, EntryFacts
      <4> QED
        BY <4>1, <4>2, <2>4
    <3>2. CASE i \in ToSet(b.list)
      BY <3>2, <2>9 DEF ToSet
    <3> QED
      BY <3>1, <3>2
  <2>14. ASSUME ~x.greedy, NEW i \in Takes[r.query] \ gone, i < b.at
         PROVE  i \in ToSet(x.got)
    <3>1. ~r.greedy /\ Fits(r, count, room)
      <4>1. ~r.greedy /\ ~(count > room) /\ ~(r.level = "16bit" /\ count > 1)
        BY <2>14, <2>7, Zenon
      <4> QED
        BY <4>1 DEF Fits
    <3>2. i \in Nat /\ r.at \in Nat
      BY <1>1, <2>12, EntryFacts
    <3>3. CASE i < r.at
      BY <3>1, <3>3, <2>10, <2>11
    <3>4. CASE r.at <= i
      BY <3>1, <3>4, <2>9, <2>11, <2>14
    <3> QED
      BY <3>2, <3>3, <3>4
  <2>15. Sound(x)
    BY <2>7, <2>8, <2>11, <2>13, <2>14 DEF Sound
  <2> QED
    BY <2>6, <2>7, <2>8, <2>15
<1> QED
  BY <1>1, <1>2, <1>3

-----------------------------------------------------------------------------
(* Every DirFinder is free, the system's unused one, or that of a search.   *)
FinderInv ==
    /\ finder = [f \in Finder \cup {Sys} |-> finder[f]]
    /\ \A f \in Finder : finder[f] = Vacant \/ (Sound(finder[f]) /\ finder[f].life # "free")
    /\ finder[Sys] = Zeroed \/ (Sound(finder[Sys]) /\ finder[Sys].life # "free")

(* A DirFinder in use is behind one handle: that is, no two slots have one, *)
(* no slot has one that the program got a 32-bit handle for, and there is   *)
(* one behind each.                                                         *)
HasHandle(f) == f \in kept \/ \E i \in Slot : hdir16[i] = f

HandleInv ==
    /\ hdir16 \in [Slot -> Finder \cup {Sys, NoFinder}] /\ kept \subseteq Finder \cup {Sys}
    /\ held16 = {i \in Slot : hdir16[i] # NoFinder}
    /\ \A f \in Finder, i, j \in Slot : hdir16[i] = f /\ hdir16[j] = f => i = j
    /\ \A f \in Finder, i \in Slot : hdir16[i] = f => f \notin kept
    /\ lost \subseteq Finder
    /\ \A f \in Finder : f \in Allocated \ lost <=> HasHandle(f)
    /\ lost \subseteq Allocated

EndedInv == ended # NoFinder => Delivered(ended)

SearchInv == FinderInv /\ HandleInv /\ EndedInv

(* The addresses and the names of the handles are not the same.             *)
LEMMA FinderFacts ==
    /\ Sys \notin Finder /\ NoFinder \notin Finder /\ Create \notin Finder
    /\ NoFinder # Sys /\ Create # Sys
    /\ Vacant.life = "free" /\ Zeroed.life # "free"
BY FinderAssumption DEF Sys, Create, Vacant, Zeroed

(* The first free slot.                                                     *)
LEMMA FirstSlot ==
    ASSUME NEW S, S = {j \in Slot : hdir16[j] = NoFinder}, S # {},
           NEW i, i = CHOOSE j \in S : \A k \in S : j <= k
    PROVE  i \in Slot /\ hdir16[i] = NoFinder
<1>1. S \in SUBSET Nat
  BY AskedAssumption DEF Slot
<1>2. \E j \in S : \A k \in S : j <= k
  BY <1>1, HasLeast
<1>3. i \in S
  BY <1>2
<1> QED
  BY <1>3

(* Nothing is searched at first.                                           *)
LEMMA SearchInvInit == SearchInit => SearchInv
<1> SUFFICES ASSUME SearchInit PROVE SearchInv
  OBVIOUS
<1>1. /\ finder = [f \in Finder \cup {Sys} |-> IF f = Sys THEN Zeroed ELSE Vacant]
      /\ hdir16 = [i \in Slot |-> NoFinder] /\ kept = {} /\ held16 = {} /\ lost = {} /\ ended = NoFinder
  BY DEF SearchInit
<1>2. \A f \in Finder : finder[f] = Vacant /\ finder[f].life = "free"
  BY <1>1, FinderFacts
<1>3. FinderInv
  BY <1>1, <1>2 DEF FinderInv
<1>4. HandleInv
  BY <1>1, <1>2, FinderFacts DEF HandleInv, HasHandle, Allocated
<1> QED
  BY <1>1, <1>3, <1>4 DEF SearchInv, EndedInv

(* One DirFinder changes.                                                   *)
LEMMA OneFinder ==
    ASSUME FinderInv, NEW f \in Finder \cup {Sys}, NEW x, finder' = [finder EXCEPT ![f] = x], gone' = gone,
           \/ Sound(x) /\ x.life # "free"
           \/ f = Sys /\ x = Zeroed
           \/ f # Sys /\ x = Vacant
    PROVE  /\ FinderInv'
           /\ Allocated' = (Allocated \ {f}) \cup (IF f # Sys /\ x # Vacant THEN {f} ELSE {})
<1>1. finder = [g \in Finder \cup {Sys} |-> finder[g]]
  BY DEF FinderInv
<1>2. finder'[f] = x /\ \A g \in Finder \cup {Sys} : g # f => finder'[g] = finder[g]
  BY <1>1
<1>3. finder' = [g \in Finder \cup {Sys} |-> finder'[g]]
  BY <1>1
<1>4. \A y : Sound(y)' <=> Sound(y)
  BY DEF Sound
<1>5. FinderInv'
  BY <1>2, <1>3, <1>4, FinderFacts DEF FinderInv
<1>6. x = Vacant <=> x.life = "free"
  BY FinderFacts
<1>7. Allocated' = (Allocated \ {f}) \cup (IF f # Sys /\ x # Vacant THEN {f} ELSE {})
  BY <1>2, <1>6, FinderFacts DEF Allocated
<1> QED
  BY <1>5, <1>7

(* A step that changes no handle, and frees and takes no DirFinder.         *)
LEMMA HandlesAlone ==
    ASSUME HandleInv, UNCHANGED <<hdir16, kept, held16, lost>>, Allocated' = Allocated
    PROVE  HandleInv'
BY DEF HandleInv, HasHandle

(* The program gets f, which it did not have, or has it still.              *)
LEMMA HandleKept ==
    ASSUME HandleInv, NEW f \in Finder \cup {Sys}, f \in kept \/ f = Sys \/ f \notin Allocated,
           KeepHandle(f), Allocated' = Allocated \cup (IF f = Sys THEN {} ELSE {f})
    PROVE  HandleInv'
<1>1. kept' = kept \cup {f} /\ hdir16' = hdir16 /\ held16' = held16 /\ lost' = lost
  BY DEF KeepHandle
<1>2. f \in Finder /\ f \notin Allocated => ~HasHandle(f) /\ f \notin lost
  BY DEF HandleInv
<1>3. f \in kept /\ f \in Finder => f \in Allocated \ lost
  BY DEF HandleInv, HasHandle
<1>4. \A g \in Finder : g \in Allocated' \ lost' <=> HasHandle(g)'
  BY <1>1, <1>2, <1>3, FinderFacts DEF HandleInv, HasHandle
<1>5. \A g \in Finder, i \in Slot : hdir16'[i] = g => g \notin kept'
  BY <1>1, <1>2, FinderFacts DEF HandleInv, HasHandle
<1> QED
  BY <1>1, <1>4, <1>5 DEF HandleInv

(* It gets f in the first free slot; when there is none, f is lost.         *)
LEMMA SlotKept ==
    ASSUME HandleInv, NEW f \in Finder \cup {Sys}, f = Sys \/ f \notin Allocated,
           KeepSlot(f), Allocated' = Allocated \cup (IF f = Sys THEN {} ELSE {f})
    PROVE  HandleInv'
<1> DEFINE free == {j \in Slot : hdir16[j] = NoFinder}
<1>1. f \in Finder => ~HasHandle(f) /\ f \notin lost /\ f \notin Allocated /\ f # Sys
  BY FinderFacts DEF HandleInv
<1>2. CASE free = {}
  <2>1. lost' = lost \cup ({f} \ {Sys}) /\ hdir16' = hdir16 /\ held16' = held16 /\ kept' = kept
    BY <1>2 DEF KeepSlot
  <2>2. \A g \in Finder : g \in Allocated' \ lost' <=> HasHandle(g)'
    BY <1>1, <2>1, FinderFacts DEF HandleInv, HasHandle
  <2>3. lost' \subseteq Finder /\ lost' \subseteq Allocated'
    BY <1>1, <2>1 DEF HandleInv
  <2> QED
    BY <2>1, <2>2, <2>3 DEF HandleInv
<1>3. CASE free # {}
  <2>1. PICK i : i = CHOOSE j \in free : \A k \in free : j <= k
    OBVIOUS
  <2>2. i \in Slot /\ hdir16[i] = NoFinder
    BY <1>3, <2>1, FirstSlot
  <2>3. hdir16' = [hdir16 EXCEPT ![i] = f] /\ held16' = held16 \cup {i} /\ lost' = lost /\ kept' = kept
    BY <1>3, <2>1 DEF KeepSlot
  <2>4. /\ hdir16 \in [Slot -> Finder \cup {Sys, NoFinder}]
        /\ hdir16'[i] = f /\ \A j \in Slot : j # i => hdir16'[j] = hdir16[j]
    BY <2>2, <2>3 DEF HandleInv
  <2>5. hdir16' \in [Slot -> Finder \cup {Sys, NoFinder}]
    BY <2>3, <2>4
  <2>6. held16' = {j \in Slot : hdir16'[j] # NoFinder}
    BY <2>2, <2>3, <2>4, FinderFacts DEF HandleInv
  <2>7. \A g \in Finder, j \in Slot : hdir16'[j] = g => g = f \/ hdir16[j] = g
    BY <2>2, <2>4
  <2>8. \A g \in Finder, j, k \in Slot : hdir16'[j] = g /\ hdir16'[k] = g => j = k
    BY <1>1, <2>2, <2>4 DEF HandleInv, HasHandle
  <2>9. \A g \in Finder, j \in Slot : hdir16'[j] = g => g \notin kept'
    BY <1>1, <2>3, <2>7 DEF HandleInv, HasHandle
  <2>10. \A g \in Finder : HasHandle(g)' <=> HasHandle(g) \/ g = f
    BY <2>2, <2>3, <2>4, FinderFacts DEF HasHandle
  <2>11. \A g \in Finder : g \in Allocated' \ lost' <=> HasHandle(g)'
    BY <1>1, <2>3, <2>10, FinderFacts DEF HandleInv
  <2> QED
    BY <2>3, <2>5, <2>6, <2>8, <2>9, <2>11 DEF HandleInv
<1> QED
  BY <1>2, <1>3

(* A 32-bit handle is closed.                                               *)
LEMMA HandleClosed ==
    ASSUME HandleInv, NEW f \in kept, Allocated' = Allocated \ {f},
           kept' = kept \ {f}, UNCHANGED <<hdir16, held16, lost>>
    PROVE  HandleInv'
<1>1. f \in Finder => f \in Allocated \ lost /\ \A i \in Slot : hdir16[i] # f
  BY DEF HandleInv, HasHandle
<1>2. \A g \in Finder : g \in Allocated' \ lost' <=> HasHandle(g)'
  BY <1>1 DEF HandleInv, HasHandle
<1>3. lost' \subseteq Allocated'
  BY <1>1, FinderFacts DEF HandleInv
<1> QED
  BY <1>2, <1>3 DEF HandleInv

(* A slot is given back with its DirFinder.                                 *)
LEMMA SlotClosed ==
    ASSUME HandleInv, NEW i \in held16, Allocated' = Allocated \ {hdir16[i]},
           hdir16' = [hdir16 EXCEPT ![i] = NoFinder], held16' = held16 \ {i}, UNCHANGED <<kept, lost>>
    PROVE  HandleInv'
<1>1. PICK f : f = hdir16[i]
  OBVIOUS
<1>2. i \in Slot /\ f # NoFinder /\ hdir16 \in [Slot -> Finder \cup {Sys, NoFinder}]
  BY <1>1 DEF HandleInv
<1>3. f \in Finder => f \in Allocated \ lost /\ f \notin kept /\ \A j \in Slot : hdir16[j] = f => j = i
  BY <1>1, <1>2 DEF HandleInv, HasHandle
<1>4. hdir16'[i] = NoFinder /\ \A j \in Slot : j # i => hdir16'[j] = hdir16[j]
  BY <1>2
<1>5. hdir16' \in [Slot -> Finder \cup {Sys, NoFinder}]
  BY <1>2
<1>6. held16' = {j \in Slot : hdir16'[j] # NoFinder}
  BY <1>2, <1>4 DEF HandleInv
<1>7. \A g \in Finder, j \in Slot : hdir16'[j] = g => hdir16[j] = g /\ g # f
  BY <1>1, <1>2, <1>3, <1>4, FinderFacts
<1>8. \A g \in Finder : HasHandle(g)' <=> HasHandle(g) /\ g # f
  <2>1. ASSUME NEW g \in Finder, HasHandle(g)' PROVE HasHandle(g) /\ g # f
    BY <2>1, <1>3, <1>7 DEF HasHandle
  <2>2. ASSUME NEW g \in Finder, HasHandle(g), g # f PROVE HasHandle(g)'
    BY <2>2, <1>1, <1>2, <1>4 DEF HasHandle
  <2> QED
    BY <2>1, <2>2
<1>9. \A g \in Finder : g \in Allocated' \ lost' <=> HasHandle(g)'
  BY <1>1, <1>8 DEF HandleInv
<1>10. lost' \subseteq Allocated'
  BY <1>1, <1>2, <1>3, FinderFacts DEF HandleInv
<1> QED
  BY <1>5, <1>6, <1>7, <1>9, <1>10 DEF HandleInv

-----------------------------------------------------------------------------
(* DosFindFirst.                                                            *)
LEMMA FindFirstKeeps ==
    ASSUME SearchInv, NEW h \in {Sys, Create} \cup kept, NEW level \in {"standard", "16bit"},
           h \in kept \ {Sys} => level = "standard", FindFirst(h, level)
    PROVE  SearchInv'
<1>1. PICK q \in Query, a \in Asked, f \in IF h = Create THEN Finder \ Allocated ELSE {h} :
        LET r == [life |-> "open", at |-> 1, query |-> q, level |-> level,
                  got |-> <<>>, greedy |-> FALSE]
            n == FindNext(r, a[1], a[2])
        IN  /\ IF n.over
               THEN /\ finder' = [finder EXCEPT ![f] = IF h = Create THEN Vacant ELSE n.rec]
                    /\ ended' = Outcome(n.rec)
                    /\ UNCHANGED <<hdir16, kept, held16, lost>>
               ELSE /\ finder' = [finder EXCEPT ![f] = n.rec]
                    /\ IF level = "16bit" THEN KeepSlot(f) ELSE KeepHandle(f)
                    /\ ended' = NoFinder
            /\ UNCHANGED <<gone, aborted>>
  BY DEF FindFirst
<1> DEFINE r0 == [life |-> "open", at |-> 1, query |-> q, level |-> level, got |-> <<>>, greedy |-> FALSE]
<1>2. PICK r : r = r0
  OBVIOUS
<1>3. Sound(r)
  <2>1. /\ r.life = "open" /\ r.at = 1 /\ r.query = q /\ r.got = <<>> /\ r \in FinderRecord
    BY <1>2, EntryFacts DEF FinderRecord
  <2>2. \A i \in Takes[q] : ~(i < 1)
    BY EntryFacts, TakesIsRight
  <2> QED
    BY <2>1, <2>2 DEF Sound
<1>4. PICK n : n = FindNext(r, a[1], a[2])
  OBVIOUS
<1>5. Sound(n.rec) /\ n.rec.life # "free" /\ (n.over => n.rec.at = End)
  <2>1. a[1] \in Nat /\ a[2] \in Nat
    BY AskedAssumption
  <2> QED
    BY <1>3, <1>4, <2>1, FindNextIs
<1>6. /\ n.over => /\ finder' = [finder EXCEPT ![f] = IF h = Create THEN Vacant ELSE n.rec]
                   /\ ended' = Outcome(n.rec)
                   /\ UNCHANGED <<hdir16, kept, held16, lost>>
      /\ ~n.over => /\ finder' = [finder EXCEPT ![f] = n.rec]
                    /\ IF level = "16bit" THEN KeepSlot(f) ELSE KeepHandle(f)
                    /\ ended' = NoFinder
      /\ gone' = gone
  <2> HIDE DEF FindNext
  <2> QED
    BY <1>1, <1>2, <1>4
<1>7. /\ f \in Finder \cup {Sys} /\ (f \in kept \/ f = Sys \/ f \notin Allocated)
      /\ h = Create => f \in Finder /\ f \notin Allocated
      /\ h # Create => f = h
      /\ level = "16bit" => f = Sys \/ f \notin Allocated
      /\ f \in kept /\ f # Sys => f \in Allocated
  <2>1. h = Create => f \in Finder /\ f \notin Allocated
    BY <1>1
  <2>2. h # Create => f = h
    BY <1>1
  <2>3. kept \subseteq Finder \cup {Sys} /\ Create \notin kept
    BY FinderFacts DEF SearchInv, HandleInv
  <2>4. f \in kept /\ f # Sys => f \in Allocated
    BY <2>3 DEF SearchInv, HandleInv, HasHandle
  <2> QED
    BY <2>1, <2>2, <2>3, <2>4
<1>8. n.rec # Vacant
  BY <1>5, FinderFacts
<1>9. CASE n.over /\ h = Create
  <2>1. finder' = [finder EXCEPT ![f] = Vacant] /\ f # Sys
    BY <1>6, <1>7, <1>9, FinderFacts
  <2>2. FinderInv' /\ Allocated' = (Allocated \ {f}) \cup {}
    BY <1>6, <1>7, <2>1, OneFinder DEF SearchInv
  <2>3. HandleInv'
    BY <1>6, <1>7, <1>9, <2>2, HandlesAlone DEF SearchInv
  <2>4. Delivered(ended')
    BY <1>5, <1>6, <1>9, OutcomeIsRight
  <2> QED
    BY <2>2, <2>3, <2>4 DEF SearchInv, EndedInv, Delivered
<1>10. CASE n.over /\ h # Create
  <2>1. finder' = [finder EXCEPT ![f] = n.rec]
    BY <1>6, <1>10
  <2>2. FinderInv' /\ Allocated' = (Allocated \ {f}) \cup (IF f # Sys /\ n.rec # Vacant THEN {f} ELSE {})
    BY <1>5, <1>6, <1>7, <2>1, OneFinder DEF SearchInv
  <2>3. Allocated' = Allocated
    BY <1>7, <1>8, <1>10, <2>2, FinderFacts DEF Allocated
  <2>4. HandleInv'
    BY <1>6, <1>10, <2>3, HandlesAlone DEF SearchInv
  <2>5. Delivered(ended')
    BY <1>5, <1>6, <1>10, OutcomeIsRight
  <2> QED
    BY <2>2, <2>4, <2>5 DEF SearchInv, EndedInv, Delivered
<1>11. CASE ~n.over
  <2>1. finder' = [finder EXCEPT ![f] = n.rec] /\ ended' = NoFinder
    BY <1>6, <1>11
  <2>2. FinderInv' /\ Allocated' = (Allocated \ {f}) \cup (IF f # Sys /\ n.rec # Vacant THEN {f} ELSE {})
    BY <1>5, <1>6, <1>7, <2>1, OneFinder DEF SearchInv
  <2>3. Allocated' = Allocated \cup (IF f = Sys THEN {} ELSE {f})
    BY <1>7, <1>8, <2>2, FinderFacts DEF Allocated
  <2>4. HandleInv'
    BY <1>6, <1>7, <1>11, <2>3, HandleKept, SlotKept DEF SearchInv
  <2> QED
    BY <2>1, <2>2, <2>4 DEF SearchInv, EndedInv
<1> QED
  BY <1>9, <1>10, <1>11

(* DosFindNext.                                                             *)
LEMMA ContinueKeeps ==
    ASSUME SearchInv, NEW f \in Finder \cup {Sys}, f # Sys => f \in Allocated, Continue(f)
    PROVE  SearchInv'
<1>1. PICK a \in Asked :
        LET n == FindNext(finder[f], a[1], a[2]) IN
        /\ IF finder[f].level = "none"
           THEN aborted' = TRUE /\ ended' = NoFinder /\ UNCHANGED finder
           ELSE /\ finder' = [finder EXCEPT ![f] = n.rec]
                /\ ended' = IF n.over THEN Outcome(n.rec) ELSE NoFinder
                /\ UNCHANGED aborted
        /\ UNCHANGED <<hdir16, kept, held16, gone, lost>>
  BY DEF Continue
<1>2. CASE finder[f].level = "none"
  <2>1. UNCHANGED <<finder, hdir16, kept, held16, gone, lost>> /\ ended' = NoFinder
    BY <1>1, <1>2
  <2>2. \A y : Sound(y)' <=> Sound(y)
    BY <2>1 DEF Sound
  <2>3. FinderInv'
    BY <2>1, <2>2 DEF SearchInv, FinderInv
  <2>4. HandleInv'
    BY <2>1, HandlesAlone DEF SearchInv, Allocated
  <2> QED
    BY <2>1, <2>3, <2>4 DEF SearchInv, EndedInv
<1>3. CASE finder[f].level # "none"
  <2>1. PICK n : n = FindNext(finder[f], a[1], a[2])
    OBVIOUS
  <2>2. /\ finder' = [finder EXCEPT ![f] = n.rec]
        /\ ended' = IF n.over THEN Outcome(n.rec) ELSE NoFinder
        /\ UNCHANGED <<hdir16, kept, held16, gone, lost>>
    BY <1>1, <1>3, <2>1
  <2>3. Sound(finder[f])
    <3>1. CASE f = Sys
      BY <1>3, <3>1 DEF SearchInv, FinderInv, Zeroed
    <3>2. CASE f # Sys
      BY <3>2, FinderFacts DEF SearchInv, FinderInv, Allocated
    <3> QED
      BY <3>1, <3>2
  <2>4. Sound(n.rec) /\ n.rec.life # "free" /\ (n.over => n.rec.at = End)
    <3>1. a[1] \in Nat /\ a[2] \in Nat
      BY AskedAssumption
    <3> QED
      BY <2>1, <2>3, <3>1, FindNextIs
  <2>5. FinderInv' /\ Allocated' = (Allocated \ {f}) \cup (IF f # Sys /\ n.rec # Vacant THEN {f} ELSE {})
    BY <2>2, <2>4, OneFinder DEF SearchInv
  <2>6. Allocated' = Allocated
    BY <2>4, <2>5, FinderFacts DEF Allocated
  <2>7. HandleInv'
    BY <2>2, <2>6, HandlesAlone DEF SearchInv
  <2>8. EndedInv'
    <3>1. CASE n.over
      BY <2>2, <2>4, <3>1, OutcomeIsRight DEF EndedInv, Delivered
    <3>2. CASE ~n.over
      BY <2>2, <3>2 DEF EndedInv
    <3> QED
      BY <3>1, <3>2
  <2> QED
    BY <2>5, <2>7, <2>8 DEF SearchInv
<1> QED
  BY <1>2, <1>3

(* What a DosFindClose does to the finders.                                 *)
LEMMA CloseFrees ==
    ASSUME SearchInv, NEW f \in Finder \cup {Sys}, Close(f)
    PROVE  FinderInv' /\ EndedInv' /\ Allocated' = Allocated \ {f} /\ lost' = lost
<1>1. /\ finder' = [finder EXCEPT ![f] = IF f = Sys THEN Zeroed ELSE Vacant]
      /\ ended' = NoFinder /\ gone' = gone /\ lost' = lost
  BY DEF Close
<1>2. PICK x : x = IF f = Sys THEN Zeroed ELSE Vacant
  OBVIOUS
<1>3. finder' = [finder EXCEPT ![f] = x]
  BY <1>1, <1>2
<1>4. FinderInv' /\ Allocated' = (Allocated \ {f}) \cup (IF f # Sys /\ x # Vacant THEN {f} ELSE {})
  BY <1>1, <1>2, <1>3, OneFinder DEF SearchInv
<1> QED
  BY <1>1, <1>2, <1>4 DEF EndedInv

(* No call and no other process breaks the invariant.                      *)
LEMMA SearchInvStep == SearchInv /\ [SearchNext]_searchVars => SearchInv'
<1> SUFFICES ASSUME SearchInv, [SearchNext]_searchVars PROVE SearchInv'
  OBVIOUS
<1>1. ASSUME NEW i \in held16 PROVE hdir16[i] \in Finder \cup {Sys} /\ (hdir16[i] # Sys => hdir16[i] \in Allocated)
  BY DEF SearchInv, HandleInv, HasHandle
<1>2. ASSUME NEW f \in kept PROVE f \in Finder \cup {Sys} /\ (f # Sys => f \in Allocated)
  BY DEF SearchInv, HandleInv, HasHandle
<1>3. CASE DosFindFirst
  <2>1. PICK h \in {Sys, Create} \cup kept : FindFirst(h, "standard")
    BY <1>3 DEF DosFindFirst
  <2> QED
    BY <2>1, FindFirstKeeps
<1>4. CASE Dos16FindFirst
  <2>1. PICK h \in {Sys, Create} : FindFirst(h, "16bit")
    BY <1>4 DEF Dos16FindFirst
  <2>2. h \notin kept \ {Sys}
    BY FinderFacts DEF SearchInv, HandleInv
  <2> QED
    BY <2>1, <2>2, FindFirstKeeps
<1>5. CASE DosFindNext
  BY <1>2, <1>5, ContinueKeeps DEF DosFindNext
<1>6. CASE Dos16FindNext
  BY <1>1, <1>6, ContinueKeeps DEF Dos16FindNext
<1>7. CASE DosFindClose
  <2>1. PICK f \in kept : Close(f) /\ kept' = kept \ {f} /\ UNCHANGED <<hdir16, held16>>
    BY <1>7 DEF DosFindClose
  <2>2. FinderInv' /\ EndedInv' /\ Allocated' = Allocated \ {f} /\ lost' = lost
    BY <1>2, <2>1, CloseFrees
  <2>3. HandleInv'
    BY <2>1, <2>2, HandleClosed DEF SearchInv
  <2> QED
    BY <2>2, <2>3 DEF SearchInv
<1>8. CASE Dos16FindClose
  <2>1. PICK i \in held16 : /\ Close(hdir16[i]) /\ hdir16' = [hdir16 EXCEPT ![i] = NoFinder]
                            /\ held16' = held16 \ {i} /\ UNCHANGED kept
    BY <1>8 DEF Dos16FindClose
  <2>2. FinderInv' /\ EndedInv' /\ Allocated' = Allocated \ {hdir16[i]} /\ lost' = lost
    BY <1>1, <2>1, CloseFrees
  <2>3. HandleInv'
    BY <2>1, <2>2, SlotClosed DEF SearchInv
  <2> QED
    BY <2>2, <2>3 DEF SearchInv
<1>9. CASE Unlink
  <2>1. gone \subseteq gone' /\ ended' = NoFinder /\ UNCHANGED <<finder, hdir16, kept, held16, lost>>
    BY <1>9 DEF Unlink
  <2>2. \A y : Sound(y) => Sound(y)'
    BY <2>1 DEF Sound
  <2>3. FinderInv'
    BY <2>1, <2>2 DEF SearchInv, FinderInv
  <2>4. HandleInv'
    BY <2>1, HandlesAlone DEF SearchInv, Allocated
  <2> QED
    BY <2>1, <2>3, <2>4 DEF SearchInv, EndedInv
<1>10. CASE UNCHANGED searchVars
  <2>1. UNCHANGED <<finder, hdir16, kept, held16, gone, lost, ended>>
    BY <1>10 DEF searchVars
  <2>2. \A y : Sound(y)' <=> Sound(y)
    BY <2>1 DEF Sound
  <2>3. FinderInv' /\ EndedInv'
    BY <2>1, <2>2 DEF SearchInv, FinderInv, EndedInv, Delivered
  <2>4. HandleInv'
    BY <2>1, HandlesAlone DEF SearchInv, Allocated
  <2> QED
    BY <2>3, <2>4 DEF SearchInv
<1> QED
  BY <1>3, <1>4, <1>5, <1>6, <1>7, <1>8, <1>9, <1>10 DEF SearchNext

(* Each DirFinder in use is behind one handle: counted, one or none.        *)
LEMMA HandlesAccounted == SearchInv => FindersAccountedFor
<1> SUFFICES ASSUME SearchInv PROVE FindersAccountedFor
  OBVIOUS
<1>1. HandleInv
  BY DEF SearchInv
<1>2. ASSUME NEW f \in Finder
      PROVE  Cardinality({i \in held16 : hdir16[i] = f}) + (IF f \in kept THEN 1 ELSE 0)
                 = (IF f \in Allocated \ lost THEN 1 ELSE 0)
  <2> DEFINE S == {i \in held16 : hdir16[i] = f}
  <2>1. CASE \E i \in Slot : hdir16[i] = f
    <3>1. PICK i \in Slot : hdir16[i] = f
      BY <2>1
    <3>2. S = {i}
      BY <1>1, <3>1, FinderFacts DEF HandleInv
    <3>3. f \notin kept /\ f \in Allocated \ lost
      BY <1>1, <3>1 DEF HandleInv, HasHandle
    <3>4. Cardinality({i}) = 1
      BY FS_Singleton
    <3> QED
      BY <3>2, <3>3, <3>4
  <2>2. CASE ~\E i \in Slot : hdir16[i] = f
    <3>1. S = {}
      BY <1>1, <2>2 DEF HandleInv
    <3>2. f \in kept <=> f \in Allocated \ lost
      BY <1>1, <2>2 DEF HandleInv, HasHandle
    <3>3. Cardinality({}) = 0
      BY FS_EmptySet
    <3> QED
      BY <3>1, <3>2, <3>3
  <2> QED
    BY <2>1, <2>2
<1> QED
  BY <1>1, <1>2 DEF FindersAccountedFor, HandleInv

(* The invariant of the searches.                                          *)
LEMMA SearchInductive == SearchSpec => []SearchInv
<1>1. SearchInit => SearchInv
  BY SearchInvInit
<1>2. SearchInv /\ [SearchNext]_searchVars => SearchInv'
  BY SearchInvStep
<1> QED
  BY <1>1, <1>2, PTL DEF SearchSpec

(* DosFindFirst, DosFindNext, DosFindClose and their 16-bit forms: a        *)
(* DirFinder on the heap is behind one handle of the program, every handle  *)
(* has its DirFinder, and only those are behind none whose handle was       *)
(* dropped for want of a slot.                                              *)
THEOREM FindersAreKept == SearchSpec => []FindersAccountedFor
<1>1. SearchInv => FindersAccountedFor
  BY HandlesAccounted
<1> QED
  BY <1>1, SearchInductive, PTL

(* findNext and wildcardMatch: a search that has come to its end has        *)
(* delivered only what the pattern and the attributes allow, nothing twice  *)
(* and in the order of the directory, and, unless a call asked for more     *)
(* than its buffer holds, everything wanted that is still there.            *)
THEOREM SearchFindsAll == SearchSpec => []SearchDelivers
<1>1. SearchInv => SearchDelivers
  BY DEF SearchInv, EndedInv, Delivered, SearchDelivers
<1> QED
  BY <1>1, SearchInductive, PTL
=============================================================================
