--------------------------- MODULE Process_proofs ---------------------------
(***************************************************************************)
(* Mutex and RAM semaphores, child processes, beeps, the exit list and the  *)
(* list of dead threads, for any number of threads, pids, devices and       *)
(* functions: one living thread holds a lock, a DosExecPgm whose child      *)
(* nobody else took reports its own, a beep that is queued is on its way to *)
(* a device, each function of the exit list is called once, and in a        *)
(* program that waits for any thread each thread that ended is reaped once. *)
(***************************************************************************)
EXTENDS Locks, ExitList, Children, Sound, ThreadReaper, FoldTheorems

-----------------------------------------------------------------------------
(* Locks *)

Health == {"ok", "inconsistent", "unrecoverable", "closed"}
Call   == [call : {"none", "request", "sem", "semwait"}, timed : BOOLEAN]

LockTypes ==
    /\ mutex \in [owner : Thread \cup {Null}, count : Nat, health : Health]
    /\ holds \in [Thread -> Nat]
    /\ waiting \in [Thread -> Call]
    /\ alive \subseteq Thread
    /\ word \in {0, 1}
    /\ entered \subseteq Thread
    /\ signalled \in BOOLEAN

(* Only the living are in a call.  What a living thread holds is what the   *)
(* mutex counts for it, and for no other; nothing is held of a free mutex.  *)
(* The word is 1 while somebody has entered.                                *)
LockInv ==
    /\ LockTypes
    /\ \A t \in Thread : waiting[t].call # "none" => t \in alive
    /\ \A t \in alive : IF mutex.owner = t THEN mutex.count = holds[t] ELSE holds[t] = 0
    /\ mutex.owner # Null => mutex.count > 0
    /\ mutex.owner = Null => mutex.count = 0
    /\ ~signalled => /\ \A t, u \in entered : t = u
                     /\ entered # {} => word = 1

(* Nobody holds anything.                                                   *)
LEMMA LockInvInit == LockInit => LockInv
<1> SUFFICES ASSUME LockInit PROVE LockInv
  OBVIOUS
<1>1. PICK t \in Thread \cup {Null} :
          /\ mutex = [owner |-> t, count |-> IF t = Null THEN 0 ELSE 1, health |-> "ok"]
          /\ holds = [u \in Thread |-> IF u = t THEN 1 ELSE 0]
  BY DEF LockInit
<1>2. LockTypes
  BY <1>1 DEF LockInit, LockTypes, Health, Call, Idle
<1> QED
  BY <1>1, <1>2, CallersAssumption DEF LockInit, LockInv, Idle

(* Requests, releases, time-outs and the deaths of owners.                  *)
LEMMA LockInvStep == LockInv /\ [LockNext]_lockVars => LockInv'
<1> SUFFICES ASSUME LockInv, [LockNext]_lockVars PROVE LockInv'
  OBVIOUS
<1> USE CallersAssumption DEF LockInv, LockTypes, Health, Call, Idle
<1>1. CASE UNCHANGED lockVars
  BY <1>1 DEF lockVars
<1>2. ASSUME NEW t \in Thread, DosRequestMutexSem(t) \/ DosSemRequest(t) \/ DosSemWait(t) PROVE LockInv'
  BY <1>2 DEF DosRequestMutexSem, DosSemRequest, DosSemWait, Calls
<1>3. ASSUME NEW t \in Thread, Grant(t) PROVE LockInv'
  <2>1. t \in alive
    BY <1>3 DEF Grant
  <2>2. /\ mutex'.owner = t
        /\ mutex'.count = IF mutex.owner = t THEN mutex.count + 1 ELSE 1
        /\ mutex' \in [owner : Thread \cup {Null}, count : Nat, health : Health]
    <3>1. CASE mutex.owner \in {Null, t}
      <4>1. mutex' = [mutex EXCEPT !.owner = t, !.count = @ + 1]
        BY <1>3, <3>1 DEF Grant
      <4>2. mutex'.owner = t /\ mutex'.count = mutex.count + 1
        BY <4>1
      <4>3. mutex' = [owner |-> t, count |-> mutex.count + 1, health |-> mutex.health]
        BY <4>1
      <4>5. mutex' \in [owner : Thread \cup {Null}, count : Nat, health : Health]
        BY <4>3
      <4>4. mutex.owner # t => mutex.count = 0
        BY <3>1
      <4> QED
        BY <4>2, <4>4, <4>5
    <3>2. CASE mutex.owner \notin {Null, t}
      <4>1. mutex' = [owner |-> t, count |-> 1, health |-> "inconsistent"]
        BY <1>3, <3>2 DEF Grant
      <4>2. mutex'.owner = t /\ mutex'.count = 1 /\ mutex.owner # t
        BY <3>2, <4>1
      <4>3. mutex' \in [owner : Thread \cup {Null}, count : Nat, health : Health]
        BY <4>1
      <4> QED
        BY <4>2, <4>3
    <3> QED
      BY <3>1, <3>2
  <2>3. holds' = [holds EXCEPT ![t] = holds[t] + 1] /\ (mutex.owner # t => holds[t] = 0)
    BY <1>3, <2>1 DEF Grant
  <2>4. /\ waiting' = [waiting EXCEPT ![t] = Idle]
        /\ UNCHANGED <<alive, word, entered, signalled>>
    BY <1>3 DEF Grant, Done
  <2>5. LockTypes'
    BY <2>2, <2>3, <2>4
  <2>6. \A u \in alive' : IF mutex'.owner = u THEN mutex'.count = holds'[u] ELSE holds'[u] = 0
    <3> SUFFICES ASSUME NEW u \in alive
                 PROVE  IF mutex'.owner = u THEN mutex'.count = holds'[u] ELSE holds'[u] = 0
      BY <2>4
    <3>1. CASE u = t
      BY <2>1, <2>2, <2>3, <3>1
    <3>2. CASE u # t
      <4>1. holds[u] = 0
        BY <1>3, <3>2 DEF Grant
      <4> QED
        BY <2>2, <2>3, <3>2, <4>1
    <3> QED
      BY <3>1, <3>2
  <2> QED
    BY <2>1, <2>2, <2>4, <2>5, <2>6
<1>4. ASSUME NEW t \in Thread, Refuse(t) PROVE LockInv'
  BY <1>4 DEF Refuse, Done
<1>5. ASSUME NEW t \in Thread, DosReleaseMutexSem(t) PROVE LockInv'
  <2>1. mutex.count = holds[t] /\ mutex.count > 0
    BY <1>5 DEF DosReleaseMutexSem
  <2>2. CASE mutex.count = 1
    BY <1>5, <2>1, <2>2 DEF DosReleaseMutexSem
  <2>3. CASE mutex.count # 1
    BY <1>5, <2>1, <2>3 DEF DosReleaseMutexSem
  <2> QED
    BY <2>2, <2>3
<1>6. ASSUME NEW t \in Thread, DosCloseMutexSem(t) PROVE LockInv'
  BY <1>6 DEF DosCloseMutexSem
<1>7. ASSUME NEW t \in Thread, ThreadEnds(t) PROVE LockInv'
  BY <1>7 DEF ThreadEnds
<1>8. ASSUME NEW t \in Thread, TrySem(t) PROVE LockInv'
  BY <1>8 DEF TrySem, Done
<1>9. ASSUME NEW t \in Thread, DosSemClear(t) \/ DosSemSet(t) PROVE LockInv'
  BY <1>9 DEF DosSemClear, DosSemSet
<1> QED
  BY <1>1, <1>2, <1>3, <1>4, <1>5, <1>6, <1>7, <1>8, <1>9 DEF LockNext

(* One living thread at a time has a mutex, through nested requests,        *)
(* timeouts and the deaths of owners, and releases it as often as it was    *)
(* granted it; one has a RAM semaphore that is not used to signal.          *)
THEOREM OneHolder == LockSpec => []LocksExclude
<1>1. LockInv => LocksExclude
  BY DEF LockInv, LockTypes, LocksExclude
<1> QED
  BY <1>1, LockInvInit, LockInvStep, PTL DEF LockSpec

-----------------------------------------------------------------------------
(* Child processes *)

Process == {Unused} \cup [role : {"program", "between"}, life : {"runs", "zombie", "gone"}, ours : BOOLEAN]

ChildTypes ==
    /\ process \in [Pid -> Process]
    /\ calling \in [Thread -> [op : {"none", "exec", "wait", "nowait"}, pid : Pid \cup {0}]]
    /\ stolen \subseteq Pid
    /\ aborted \in BOOLEAN

(* The child of a DosExecPgm that waits is the caller's own, no other        *)
(* DosExecPgm waits for it, and it is gone only when it was stolen.         *)
ExecsOwn(t) ==
    LET p == calling[t].pid IN
    /\ p \in Pid
    /\ process[p] # Unused /\ process[p].ours
    /\ process[p].life = "gone" => p \in stolen
    /\ \A u \in Thread : calling[u].op = "exec" /\ calling[u].pid = p => u = t

ChildInv ==
    /\ ChildTypes
    /\ \A t \in Thread : calling[t].op = "exec" => ExecsOwn(t)
    /\ aborted => stolen # {}

(* There is no child and nobody waits.                                      *)
LEMMA ChildInvInit == ChildInit => ChildInv
<1> SUFFICES ASSUME ChildInit PROVE ChildInv
  OBVIOUS
<1>1. ChildTypes
  BY DEF ChildInit, ChildTypes, NoCall, Process
<1>2. \A t \in Thread : calling[t].op = "none"
  BY DEF ChildInit, NoCall
<1> QED
  BY <1>1, <1>2 DEF ChildInit, ChildInv

(* Children start and end, and waits of both kinds take them.               *)
LEMMA ChildInvStep == ChildInv /\ [ChildNext]_childVars => ChildInv'
<1> SUFFICES ASSUME ChildInv, [ChildNext]_childVars PROVE ChildInv'
  OBVIOUS
<1> USE PidAssumption DEF ChildInv, ChildTypes, ExecsOwn, Process, NoCall
<1>1. CASE UNCHANGED childVars
  BY <1>1 DEF childVars
<1>2. ASSUME NEW t \in Thread, DosExecPgm(t) PROVE ChildInv'
  BY <1>2, SMTT(30) DEF DosExecPgm, Free, Started, Unused
<1>3. ASSUME NEW p \in Pid, ForkAgain(p) PROVE ChildInv'
  <2>1. process[p] # Unused /\ UNCHANGED <<calling, stolen, aborted>>
    BY <1>3 DEF ForkAgain, Unused
  <2>2. CASE process' = [process EXCEPT ![p] = Ended(p)]
    BY <2>1, <2>2 DEF Ended, Unused
  <2>3. ASSUME NEW q \in Free,
               process' = [process EXCEPT ![p] = Ended(p), ![q] = Started("program", FALSE)]
        PROVE  ChildInv'
    <3>1. q \in Pid /\ process[q] = Unused
      BY DEF Free, Unused
    <3>2. process' \in [Pid -> Process]
      BY <2>1, <2>3, <3>1 DEF Ended, Started, Unused
    <3>3. \A t \in Thread : calling[t].op = "exec" => calling[t].pid # q
      BY <3>1
    <3>4. \A r \in Pid \ {q} : process[r] # Unused =>
              /\ process'[r] # Unused /\ process'[r].ours = process[r].ours
              /\ process'[r].life = "gone" => process[r].life = "gone" \/ ~process[r].ours
      BY <2>1, <2>3 DEF Ended, Unused
    <3> QED
      BY <2>1, <3>2, <3>3, <3>4
  <2> QED
    BY <1>3, <2>2, <2>3 DEF ForkAgain
<1>4. ASSUME NEW p \in Pid, End(p) PROVE ChildInv'
  BY <1>4 DEF End, Ended, Unused
<1>5. ASSUME NEW t \in Thread, ExecReturns(t) PROVE ChildInv'
  <2> DEFINE p == calling[t].pid
  <2>1. ExecsOwn(t) /\ p \in Pid /\ UNCHANGED stolen
    BY <1>5 DEF ExecReturns
  <2>2. CASE Reap(t, p) /\ UNCHANGED aborted
    <3>1. /\ process' = [process EXCEPT ![p].life = "gone"]
          /\ calling' = [calling EXCEPT ![t] = NoCall]
      BY <2>2 DEF Reap
    <3>2. ChildTypes'
      BY <2>1, <2>2, <3>1, SMTT(30) DEF Unused
    <3>3. ASSUME NEW u \in Thread, calling'[u].op = "exec" PROVE ExecsOwn(u)'
      <4>1. u # t /\ calling'[u] = calling[u] /\ calling[u].pid # p
        BY <2>1, <3>1, <3>3
      <4> QED
        BY <2>1, <3>1, <3>3, <4>1
    <3> QED
      BY <2>1, <2>2, <3>2, <3>3
  <2>3. CASE process[p].life = "gone" /\ aborted' = TRUE /\ UNCHANGED <<process, calling>>
    BY <2>1, <2>3
  <2> QED
    BY <1>5, <2>2, <2>3 DEF ExecReturns
<1>6. ASSUME NEW t \in Thread, DosWaitChild(t) PROVE ChildInv'
  BY <1>6 DEF DosWaitChild
<1>7. ASSUME NEW t \in Thread, WaitReturns(t) PROVE ChildInv'
  BY <1>7 DEF WaitReturns, Awaited, Ours, Reap, Unused
<1>8. ASSUME NEW t \in Thread, WaitFails(t) PROVE ChildInv'
  BY <1>8 DEF WaitFails
<1> QED
  BY <1>1, <1>2, <1>3, <1>4, <1>5, <1>6, <1>7, <1>8 DEF ChildNext

(* The assertion of DosExecPgm on what waitpid returned fails only when a   *)
(* DosWaitChild took a child that a DosExecPgm waited for.                  *)
THEOREM ExecOwnChild == ChildSpec => []ExecAnswersForItsOwn
<1>1. ChildInv => ExecAnswersForItsOwn
  BY DEF ChildInv, ExecAnswersForItsOwn
<1> QED
  BY <1>1, ChildInvInit, ChildInvStep, PTL DEF ChildSpec

-----------------------------------------------------------------------------
(* Sound *)

(* The device in use is open and nobody is about to close it; while the     *)
(* generator is listed, or about to be, there is one.                       *)
SoundInv ==
    /\ open \subseteq Device /\ closing \subseteq open
    /\ device # Null => device \in open \ closing
    /\ Timely /\ (listed \/ \E t \in Thread : beep[t] = "add") => device # Null
    /\ beep \in [Thread -> {"out", "lock", "queue", "register", "add"}]
    /\ playing \in Nat
    /\ QueuedIsHeard

(* No device is open.                                                       *)
LEMMA SoundInvInit == SoundInit => SoundInv
  BY SoundAssumption DEF SoundInit, SoundInv, QueuedIsHeard

(* DosBeep on one thread, the callback on SDL's.                            *)
LEMMA SoundInvStep == SoundInv /\ [SoundNext]_soundVars => SoundInv'
<1> SUFFICES ASSUME SoundInv, [SoundNext]_soundVars PROVE SoundInv'
  OBVIOUS
<1> USE SoundAssumption DEF SoundInv, QueuedIsHeard
<1>1. CASE UNCHANGED soundVars
  BY <1>1 DEF soundVars
<1>2. ASSUME NEW t \in Thread, DosBeep(t) PROVE SoundInv'
  BY <1>2 DEF DosBeep, Goes
<1>3. ASSUME NEW t \in Thread, GrabBeepLock(t) PROVE SoundInv'
  BY <1>3 DEF GrabBeepLock, Goes
<1>4. ASSUME NEW t \in Thread, Queue(t) PROVE SoundInv'
  BY <1>4 DEF Queue, Goes
<1>5. ASSUME NEW t \in Thread, FindDevice(t) PROVE SoundInv'
  BY <1>5 DEF FindDevice, Goes
<1>6. ASSUME NEW t \in Thread, Add(t) PROVE SoundInv'
  BY <1>6 DEF Add, Goes
<1>7. ASSUME NEW d \in Device, Play(d) PROVE SoundInv'
  <2>1. listed /\ UNCHANGED <<device, open, closing, beep>>
    BY <1>7 DEF Play
  <2>2. CASE playing > 1 /\ playing' = playing - 1 /\ UNCHANGED <<queued, listed>>
    <3>1. playing' \in Nat
      BY <2>2
    <3>2. Timely => device \in open
      BY <2>1
    <3> QED
      BY <2>1, <2>2, <3>1, <3>2
  <2>3. CASE playing' = Chunks /\ UNCHANGED listed
    BY <2>1, <2>3
  <2>4. CASE ~queued /\ playing' = 0 /\ listed' = FALSE /\ UNCHANGED queued
    BY <2>1, <2>4
  <2> QED
    BY <1>7, <2>2, <2>3, <2>4 DEF Play
<1>8. ASSUME NEW d \in Device, GoIdle(d) PROVE SoundInv'
  BY <1>8 DEF GoIdle
<1>9. ASSUME NEW d \in Device, GiveUpDevice(d) PROVE SoundInv'
  BY <1>9 DEF GiveUpDevice
<1>10. ASSUME NEW d \in Device, CloseDevice(d) PROVE SoundInv'
  BY <1>10 DEF CloseDevice
<1> QED
  BY <1>1, <1>2, <1>3, <1>4, <1>5, <1>6, <1>7, <1>8, <1>9, <1>10 DEF SoundNext

(* A beep that is queued or sounds is on its way: DosBeep has yet to        *)
(* register the generator, or it is listed and its device is open -- when   *)
(* no device is given up inside registerAudioGenerator.                     *)
THEOREM BeepIsOnItsWay == SoundSpec => []QueuedIsHeard
<1>1. SoundInv => QueuedIsHeard
  BY DEF SoundInv
<1> QED
  BY <1>1, SoundInvInit, SoundInvStep, PTL DEF SoundSpec

-----------------------------------------------------------------------------
(* The exit list *)

OnList(i) == \E k \in DOMAIN exitList : exitList[k] = i

(* A registration, before and after malloc.                                 *)
Memory == [state : {"unused"}]
          \cup [state : {"listed", "run", "removed", "lost"}, fn : Fn, priority : Order]

(* What is on the list is what malloc gave and nobody has taken off, once.  *)
ListInv ==
    /\ exitList \in Seq(Item) /\ item \in [Item -> Memory]
    /\ \A j, k \in DOMAIN exitList : exitList[j] = exitList[k] => j = k
    /\ \A k \in DOMAIN exitList : item[exitList[k]].state = "listed"
    /\ \A i \in Item : item[i].state = "listed" => OnList(i)
    /\ frame \in [Thread -> [pc : {"out", "loop", "call"}, next : Item \cup {None}]]

(* What was there at the first DosExit has been called or taken out, or is  *)
(* not in front of the item to come.                                        *)
StillToCome(t) == \A i \in atExit :
    /\ i \in Item /\ item[i].state \in {"run", "removed", "listed"}
    /\ \A k \in DOMAIN exitList : exitList[k] = i => \E j \in 1 .. k : exitList[j] = frame[t].next

(* One thread goes along the list, and the item to come is on it.           *)
LoopInv ==
    /\ ~broken
    /\ \A t, u \in Thread : In(t) /\ In(u) => t = u
    /\ \A t \in Thread : In(t) => frame[t].next = None \/ OnList(frame[t].next)
    /\ \A t \in Thread : In(t) => StillToCome(t)
    /\ atExit # Null => \E t \in Thread : In(t)
    /\ ended => \E t \in Thread : frame[t] = [pc |-> "loop", next |-> None]

ExitInv == ListInv /\ (~careless => LoopInv)

(* The list with an item put in, with one taken out, and behind one.        *)
LEMMA Inserted ==
    ASSUME NEW S, NEW s \in Seq(S), NEW e \in S, NEW n \in 1 .. Len(s) + 1
    PROVE  LET r == InsertAt(s, n, e) IN
           /\ r \in Seq(S) /\ Len(r) = Len(s) + 1
           /\ \A k \in 1 .. Len(s) + 1 : r[k] = IF k < n THEN s[k] ELSE IF k = n THEN e ELSE s[k - 1]
<1> DEFINE front == SubSeq(s, 1, n - 1)
           back  == SubSeq(s, n, Len(s))
<1>1. /\ front \in Seq(S) /\ Len(front) = n - 1
      /\ \A k \in 1 .. n - 1 : front[k] = s[k]
  OBVIOUS
<1>2. /\ back \in Seq(S) /\ Len(back) = Len(s) - n + 1
      /\ \A k \in 1 .. Len(s) - n + 1 : back[k] = s[n + k - 1]
  OBVIOUS
<1> HIDE DEF front, back
<1> DEFINE mid == front \o <<e>>
<1>3. /\ mid \in Seq(S) /\ Len(mid) = n
      /\ \A k \in 1 .. n : mid[k] = IF k < n THEN s[k] ELSE e
  BY <1>1
<1> HIDE DEF mid
<1>4. InsertAt(s, n, e) = mid \o back
  BY DEF InsertAt, mid, front, back
<1>5. mid \o back \in Seq(S) /\ Len(mid \o back) = Len(s) + 1
  BY <1>2, <1>3
<1>6. ASSUME NEW k \in 1 .. Len(s) + 1
      PROVE  (mid \o back)[k] = IF k < n THEN s[k] ELSE IF k = n THEN e ELSE s[k - 1]
  <2>1. (mid \o back)[k] = IF k <= n THEN mid[k] ELSE back[k - n]
    BY <1>2, <1>3
  <2> QED
    BY <1>2, <1>3, <2>1
<1> QED
  BY <1>4, <1>5, <1>6


(* What runDosExitList has left behind the item it calls.                   *)
LEMMA Behind ==
    ASSUME NEW S, NEW s \in Seq(S), NEW n \in 1 .. Len(s)
    PROVE  LET r == SubSeq(s, n + 1, Len(s)) IN
           /\ r \in Seq(S) /\ Len(r) = Len(s) - n
           /\ \A k \in 1 .. Len(s) - n : r[k] = s[n + k]
OBVIOUS

(* The CHOOSE of DosExitList: a bounded set of numbers has a greatest.      *)
LEMMA HasGreatest ==
    ASSUME NEW b \in Nat, NEW S \in SUBSET (0 .. b), S # {}
    PROVE  \E m \in S : \A n \in S : n <= m
<1>1. Max(S) \in S /\ \A n \in S : Max(S) >= n
  BY MaxIsIn
<1>2. \A n \in S : n \in Int /\ (Max(S) >= n => n <= Max(S))
  BY <1>1
<1> QED
  BY <1>1, <1>2

(* No function has been registered.                                         *)
LEMMA ExitInvInit == ExitInit => ExitInv
<1> SUFFICES ASSUME ExitInit PROVE ExitInv
  OBVIOUS
<1>1. item \in [Item -> Memory] /\ \A i \in Item : item[i].state = "unused"
  BY DEF ExitInit, Memory
<1> QED
  BY <1>1 DEF ExitInit, ExitInv, ListInv, LoopInv, Out, In, None

(* What DosExitList(EXLST_ADD) takes from malloc, and where it puts it.     *)
LEMMA AddKeeps ==
    ASSUME ExitInv, NEW t \in Thread, DosExitListAdd(t)
    PROVE  ExitInv'
<1> DEFINE new == {i \in Item : item[i].state = "unused"}
<1>1. PICK fn \in Fn, order \in Order, garbage \in Order :
        LET i == CHOOSE j \in new : \A k \in new : j <= k
            below == {k \in 0 .. Len(exitList) : \A j \in 1 .. k : item[exitList[j]].priority < order}
            at == CHOOSE k \in below : \A j \in below : j <= k
        IN  /\ new # {}
            /\ item' = [item EXCEPT ![i] = [state |-> "listed", fn |-> fn, priority |-> garbage]]
            /\ exitList' = InsertAt(exitList, at + 1, i)
  BY DEF DosExitListAdd
<1>2. /\ UNCHANGED <<frame, atExit, careless, broken, ended>> /\ ~ended
  BY DEF DosExitListAdd, MayCall, Running
<1>3. PICK i \in new : i = CHOOSE j \in new : \A k \in new : j <= k
  <2>1. \E m \in new : \A n \in new : m <= n
    <3>1. new \in SUBSET Nat /\ new # {}
      BY <1>1 DEF Item
    <3> HIDE DEF new
    <3> QED
      BY <3>1, HasLeast
  <2> HIDE DEF new
  <2> QED
    BY <2>1
<1>4. PICK at \in 0 .. Len(exitList) :
        /\ item' = [item EXCEPT ![i] = [state |-> "listed", fn |-> fn, priority |-> garbage]]
        /\ exitList' = InsertAt(exitList, at + 1, i)
  <2> DEFINE below == {k \in 0 .. Len(exitList) : \A j \in 1 .. k : item[exitList[j]].priority < order}
             b == CHOOSE k \in below : \A j \in below : j <= k
  <2>1. Len(exitList) \in Nat
    BY DEF ExitInv, ListInv
  <2>2. 0 \in below /\ below \subseteq 0 .. Len(exitList)
    BY <2>1
  <2>3. \E m \in below : \A n \in below : n <= m
    <3> HIDE DEF below
    <3> QED
      BY <2>1, <2>2, HasGreatest
  <2>4. b \in 0 .. Len(exitList)
    <3> HIDE DEF below
    <3>1. b \in below
      BY <2>3
    <3> QED
      BY <2>2, <3>1
  <2> QED
    BY <1>1, <1>3, <2>4
<1> HIDE DEF new
<1>5. i \in Item /\ item[i].state = "unused"
  BY DEF new
<1>6. /\ exitList' \in Seq(Item) /\ Len(exitList') = Len(exitList) + 1
      /\ \A k \in 1 .. Len(exitList) + 1 :
            exitList'[k] = IF k < at + 1 THEN exitList[k] ELSE IF k = at + 1 THEN i ELSE exitList[k - 1]
  <2>1. exitList \in Seq(Item) /\ at + 1 \in 1 .. Len(exitList) + 1
    BY DEF ExitInv, ListInv
  <2> QED
    BY <1>4, <1>5, <2>1, Inserted
<1>7. /\ Len(exitList) \in Nat /\ DOMAIN exitList = 1 .. Len(exitList) /\ DOMAIN exitList' = 1 .. Len(exitList) + 1
      /\ \A k \in DOMAIN exitList : exitList[k] \in Item /\ exitList[k] # i
  BY <1>5, <1>6 DEF ExitInv, ListInv
<1>8. \A k \in DOMAIN exitList' : exitList'[k] = i \/ \E j \in DOMAIN exitList : j \in {k, k - 1} /\ exitList[j] = exitList'[k]
  BY <1>6, <1>7
<1>9. \A x : OnList(x) => OnList(x)'
  <2> SUFFICES ASSUME NEW k \in DOMAIN exitList PROVE \E j \in DOMAIN exitList' : exitList'[j] = exitList[k]
    BY DEF OnList
  <2>1. CASE k < at + 1
    BY <1>6, <1>7, <2>1
  <2>2. CASE k >= at + 1
    <3>1. k + 1 \in DOMAIN exitList' /\ exitList'[k + 1] = exitList[k]
      BY <1>6, <1>7, <2>2
    <3> QED
      BY <3>1
  <2> QED
    BY <1>7, <2>1, <2>2
<1>10. ListInv'
  <2>1. /\ item' \in [Item -> Memory] /\ item'[i].state = "listed"
        /\ \A j \in Item \ {i} : item'[j] = item[j]
    <3>1. [state |-> "listed", fn |-> fn, priority |-> garbage] \in Memory
      BY DEF Memory
    <3> QED
      BY <1>4, <1>5, <3>1 DEF ExitInv, ListInv
  <2>2. exitList'[at + 1] = i /\ \A k \in DOMAIN exitList' : exitList'[k] = i => k = at + 1
    <3>1. ASSUME NEW k \in DOMAIN exitList', k < at + 1 PROVE exitList'[k] # i
      <4>1. k \in DOMAIN exitList /\ exitList'[k] = exitList[k]
        BY <1>6, <1>7, <3>1
      <4> QED
        BY <1>7, <4>1
    <3>2. ASSUME NEW k \in DOMAIN exitList', k > at + 1 PROVE exitList'[k] # i
      <4>1. k - 1 \in DOMAIN exitList /\ exitList'[k] = exitList[k - 1]
        BY <1>6, <1>7, <3>2
      <4> QED
        BY <1>7, <4>1
    <3> QED
      BY <1>6, <1>7, <3>1, <3>2
  <2>3. ASSUME NEW j \in DOMAIN exitList', NEW k \in DOMAIN exitList', exitList'[j] = exitList'[k] PROVE j = k
    <3>1. CASE j = at + 1
      BY <2>3, <2>2, <3>1
    <3>2. CASE k = at + 1
      BY <2>3, <2>2, <3>2
    <3>3. CASE j # at + 1 /\ k # at + 1
      <4>1. \E x, y \in DOMAIN exitList : /\ x = IF j < at + 1 THEN j ELSE j - 1
                                          /\ y = IF k < at + 1 THEN k ELSE k - 1
                                          /\ exitList[x] = exitList'[j] /\ exitList[y] = exitList'[k]
        BY <1>6, <1>7, <3>3
      <4> QED
        BY <1>7, <2>3, <3>3, <4>1 DEF ExitInv, ListInv
    <3> QED
      BY <3>1, <3>2, <3>3
  <2>4. \A k \in DOMAIN exitList' : item'[exitList'[k]].state = "listed"
    BY <1>7, <1>8, <2>1 DEF ExitInv, ListInv
  <2>5. OnList(i)'
    <3>1. at + 1 \in DOMAIN exitList' /\ exitList'[at + 1] = i
      BY <1>6, <1>7
    <3> QED
      BY <3>1 DEF OnList
  <2>6. \A j \in Item : item'[j].state = "listed" => OnList(j)'
    BY <1>9, <2>1, <2>5 DEF ExitInv, ListInv
  <2> QED
    BY <1>2, <1>6, <2>1, <2>3, <2>4, <2>6 DEF ExitInv, ListInv
<1>11. ASSUME LoopInv PROVE LoopInv'
  <2>1. ASSUME NEW u \in Thread, StillToCome(u) PROVE StillToCome(u)'
    <3> SUFFICES ASSUME NEW x \in atExit
                 PROVE  /\ x \in Item /\ item'[x].state \in {"run", "removed", "listed"}
                        /\ \A k \in DOMAIN exitList' : exitList'[k] = x => \E j \in 1 .. k : exitList'[j] = frame[u].next
      BY <1>2 DEF StillToCome
    <3>1. x \in Item /\ item[x].state \in {"run", "removed", "listed"} /\ x # i
      BY <1>5, <2>1 DEF StillToCome
    <3>2. item'[x] = item[x]
      BY <1>4, <3>1 DEF ExitInv, ListInv
    <3>3. ASSUME NEW k \in DOMAIN exitList', exitList'[k] = x PROVE \E j \in 1 .. k : exitList'[j] = frame[u].next
      <4>1. PICK m \in DOMAIN exitList : m = (IF k < at + 1 THEN k ELSE k - 1) /\ exitList[m] = x
        BY <1>6, <1>7, <3>1, <3>3
      <4>2. PICK j \in 1 .. m : exitList[j] = frame[u].next
        BY <2>1, <4>1 DEF StillToCome
      <4>3. CASE j < at + 1
        BY <1>6, <1>7, <3>3, <4>1, <4>2, <4>3
      <4>4. CASE j >= at + 1
        <5>1. j + 1 \in 1 .. k /\ exitList'[j + 1] = exitList[j]
          BY <1>6, <1>7, <3>3, <4>1, <4>2, <4>4
        <5> QED
          BY <4>2, <5>1
      <4> QED
        BY <1>7, <4>3, <4>4
    <3> QED
      BY <3>1, <3>2, <3>3
  <2> QED
    BY <1>2, <1>9, <1>11, <2>1 DEF LoopInv, In
<1> QED
  BY <1>2, <1>10, <1>11 DEF ExitInv

(* DosExitList(EXLST_REMOVE): the others stay, in the same order.           *)
LEMMA RemoveKeeps ==
    ASSUME ExitInv, NEW t \in Thread, DosExitListRemove(t)
    PROVE  ExitInv'
<1>1. PICK n \in DOMAIN exitList :
        /\ exitList' = RemoveAt(exitList, n)
        /\ item' = [item EXCEPT ![exitList[n]].state = "removed"]
        /\ careless' = (careless \/ \E u \in Thread : In(u) /\ frame[u].next = exitList[n])
  BY DEF DosExitListRemove
<1>2. /\ UNCHANGED <<frame, atExit, broken, ended>> /\ ~ended
  BY DEF DosExitListRemove, MayCall, Running
<1>3. /\ exitList \in Seq(Item) /\ Len(exitList) \in Nat /\ DOMAIN exitList = 1 .. Len(exitList)
      /\ n \in 1 .. Len(exitList) /\ exitList[n] \in Item
      /\ \A k \in DOMAIN exitList : exitList[k] = exitList[n] => k = n
  BY DEF ExitInv, ListInv
<1>4. PICK i \in Item : i = exitList[n]
  BY <1>3
<1>5. /\ exitList' \in Seq(Item) /\ Len(exitList') = Len(exitList) - 1
      /\ \A k \in 1 .. Len(exitList) - 1 : exitList'[k] = IF k < n THEN exitList[k] ELSE exitList[k + 1]
  BY <1>1, <1>3, ElementRemoved
<1>6. DOMAIN exitList' = 1 .. Len(exitList) - 1
  BY <1>5
<1>7. /\ item' \in [Item -> Memory] /\ item'[i].state = "removed"
      /\ \A j \in Item \ {i} : item'[j] = item[j]
  <2>1. item[i] \in Memory /\ item[i].state = "listed"
    BY <1>3, <1>4 DEF ExitInv, ListInv
  <2>2. [item[i] EXCEPT !.state = "removed"] \in Memory /\ [item[i] EXCEPT !.state = "removed"].state = "removed"
    BY <2>1 DEF Memory
  <2>3. item' = [item EXCEPT ![i] = [item[i] EXCEPT !.state = "removed"]]
    BY <1>1, <1>4
  <2> QED
    BY <2>2, <2>3 DEF ExitInv, ListInv
<1>8. ASSUME NEW k \in DOMAIN exitList'
      PROVE  \E j \in DOMAIN exitList : j = (IF k < n THEN k ELSE k + 1) /\ exitList[j] = exitList'[k] /\ exitList[j] # i
  <2>1. CASE k < n
    BY <1>3, <1>4, <1>5, <1>6, <2>1
  <2>2. CASE k >= n
    <3>1. k + 1 \in DOMAIN exitList /\ exitList[k + 1] = exitList'[k] /\ k + 1 # n
      BY <1>3, <1>5, <1>6, <2>2
    <3> QED
      BY <1>3, <1>4, <1>6, <2>2, <3>1
  <2> QED
    BY <1>3, <1>6, <2>1, <2>2
<1>9. ASSUME NEW j \in DOMAIN exitList, j # n
      PROVE  \E k \in DOMAIN exitList' : k = (IF j < n THEN j ELSE j - 1) /\ exitList'[k] = exitList[j]
  <2>1. CASE j < n
    BY <1>3, <1>5, <1>6, <2>1
  <2>2. CASE j > n
    <3>1. j - 1 \in DOMAIN exitList' /\ exitList'[j - 1] = exitList[j]
      BY <1>3, <1>5, <1>6, <2>2
    <3> QED
      BY <2>2, <1>3, <3>1
  <2> QED
    BY <1>3, <1>9, <2>1, <2>2
<1>10. \A x : OnList(x) /\ x # i => OnList(x)'
  BY <1>4, <1>9 DEF OnList
<1>11. ListInv'
  <2>1. ASSUME NEW j \in DOMAIN exitList', NEW k \in DOMAIN exitList', exitList'[j] = exitList'[k] PROVE j = k
    <3>1. PICK x \in DOMAIN exitList : x = (IF j < n THEN j ELSE j + 1) /\ exitList[x] = exitList'[j]
      BY <1>8
    <3>2. PICK y \in DOMAIN exitList : y = (IF k < n THEN k ELSE k + 1) /\ exitList[y] = exitList'[k]
      BY <1>8
    <3>3. x = y
      BY <2>1, <3>1, <3>2 DEF ExitInv, ListInv
    <3> QED
      BY <1>3, <1>6, <3>1, <3>2, <3>3
  <2>2. \A k \in DOMAIN exitList' : item'[exitList'[k]].state = "listed"
    <3> TAKE k \in DOMAIN exitList'
    <3>1. PICK j \in DOMAIN exitList : exitList[j] = exitList'[k] /\ exitList[j] # i
      BY <1>8
    <3>2. exitList[j] \in Item /\ item[exitList[j]].state = "listed"
      BY <1>3 DEF ExitInv, ListInv
    <3> QED
      BY <1>7, <3>1, <3>2
  <2>3. \A j \in Item : item'[j].state = "listed" => OnList(j)'
    BY <1>7, <1>10 DEF ExitInv, ListInv
  <2> QED
    BY <1>2, <1>5, <1>7, <2>1, <2>2, <2>3 DEF ExitInv, ListInv
<1>12. ASSUME LoopInv, ~careless' PROVE LoopInv'
  <2>1. \A u \in Thread : In(u) => frame[u].next # i
    BY <1>1, <1>4, <1>12
  <2>2. ASSUME NEW u \in Thread, In(u), StillToCome(u) PROVE StillToCome(u)'
    <3> SUFFICES ASSUME NEW x \in atExit
                 PROVE  /\ x \in Item /\ item'[x].state \in {"run", "removed", "listed"}
                        /\ \A k \in DOMAIN exitList' : exitList'[k] = x => \E j \in 1 .. k : exitList'[j] = frame[u].next
      BY <1>2 DEF StillToCome
    <3>1. x \in Item /\ item'[x].state \in {"run", "removed", "listed"}
      BY <1>7, <2>2 DEF StillToCome
    <3>2. ASSUME NEW k \in DOMAIN exitList', exitList'[k] = x PROVE \E j \in 1 .. k : exitList'[j] = frame[u].next
      <4>1. PICK m \in DOMAIN exitList : m = (IF k < n THEN k ELSE k + 1) /\ exitList[m] = x
        BY <1>8, <3>2
      <4>2. PICK j \in 1 .. m : exitList[j] = frame[u].next
        BY <2>2, <4>1 DEF StillToCome
      <4>3. j \in DOMAIN exitList /\ j # n
        BY <1>3, <1>4, <2>1, <2>2, <4>1, <4>2
      <4>4. PICK p \in DOMAIN exitList' : p = (IF j < n THEN j ELSE j - 1) /\ exitList'[p] = exitList[j]
        BY <1>9, <4>3
      <4>5. p \in 1 .. k
        BY <1>3, <1>6, <4>1, <4>2, <4>3, <4>4
      <4> QED
        BY <4>2, <4>4, <4>5
    <3> QED
      BY <3>1, <3>2
  <2>3. \A u \in Thread : (In(u)' <=> In(u)) /\ frame'[u] = frame[u]
    BY <1>2 DEF In
  <2>4. ASSUME NEW u \in Thread, In(u)' PROVE (frame[u].next = None \/ OnList(frame[u].next))'
    <3>1. PICK x : x = frame[u].next
      OBVIOUS
    <3>2. x = None \/ OnList(x)
      BY <1>12, <2>3, <2>4, <3>1 DEF LoopInv
    <3>3. x # i
      BY <2>1, <2>3, <2>4, <3>1
    <3>4. x = None \/ OnList(x)'
      BY <1>10, <3>2, <3>3
    <3>5. frame'[u].next = x
      BY <2>3, <3>1
    <3> QED
      BY <3>4, <3>5 DEF OnList
  <2>5. \A u \in Thread : In(u)' => StillToCome(u)'
    BY <1>12, <2>2, <2>3 DEF LoopInv
  <2> QED
    BY <1>2, <1>12, <2>3, <2>4, <2>5 DEF LoopInv
<1> QED
  BY <1>1, <1>11, <1>12 DEF ExitInv

(* DosExit: the item to come is the first.                                  *)
LEMMA ExitKeeps ==
    ASSUME ExitInv, NEW t \in Thread, DosExit(t)
    PROVE  ExitInv'
<1>1. /\ frame' = [frame EXCEPT ![t] = [pc |-> "loop", next |-> IF exitList = <<>> THEN None ELSE Head(exitList)]]
      /\ atExit' = IF atExit = Null THEN ToSet(exitList) ELSE atExit
      /\ careless' = (careless \/ \E u \in Thread \ {t} : In(u))
      /\ UNCHANGED <<exitList, item, broken, ended>> /\ ~ended
  BY DEF DosExit, MayCall, Running
<1>2. /\ exitList \in Seq(Item) /\ Len(exitList) \in Nat /\ DOMAIN exitList = 1 .. Len(exitList)
      /\ exitList # <<>> => 1 \in DOMAIN exitList /\ Head(exitList) = exitList[1]
      /\ exitList = <<>> => DOMAIN exitList = {}
  BY DEF ExitInv, ListInv
<1>3. PICK x \in Item \cup {None} : x = IF exitList = <<>> THEN None ELSE Head(exitList)
  BY <1>2
<1>4. /\ frame' \in [Thread -> [pc : {"out", "loop", "call"}, next : Item \cup {None}]]
      /\ frame'[t] = [pc |-> "loop", next |-> x]
      /\ \A u \in Thread \ {t} : frame'[u] = frame[u]
  BY <1>1, <1>3 DEF ExitInv, ListInv
<1>5. ListInv'
  BY <1>1, <1>4 DEF ExitInv, ListInv, OnList
<1>6. ASSUME LoopInv, ~careless' PROVE LoopInv'
  <2>1. \A u \in Thread : In(u)' <=> u = t
    BY <1>1, <1>4, <1>6 DEF In
  <2>2. x = None \/ OnList(x)'
    BY <1>1, <1>2, <1>3 DEF OnList
  <2>3. \A k \in DOMAIN exitList : exitList[1] = x /\ 1 \in 1 .. k
    BY <1>2, <1>3
  <2>4. \A i \in atExit' : i \in Item /\ item[i].state \in {"run", "removed", "listed"}
    <3>1. CASE atExit = Null
      <4>1. \A i \in atExit' : \E k \in DOMAIN exitList : i = exitList[k]
        BY <1>1, <3>1 DEF ToSet
      <4> QED
        BY <1>2, <4>1 DEF ExitInv, ListInv
    <3>2. CASE atExit # Null
      <4>1. PICK u \in Thread : In(u)
        BY <1>6, <3>2 DEF LoopInv
      <4> QED
        BY <1>1, <1>6, <3>2, <4>1 DEF LoopInv, StillToCome
    <3> QED
      BY <3>1, <3>2
  <2>5. StillToCome(t)'
    <3>1. frame'[t].next = x
      BY <1>4
    <3> QED
      BY <1>1, <2>3, <2>4, <3>1 DEF StillToCome
  <2> QED
    BY <1>1, <1>4, <1>6, <2>1, <2>2, <2>5 DEF LoopInv, OnList
<1> QED
  BY <1>1, <1>5, <1>6 DEF ExitInv

(* A turn of the loop: the list begins behind the item that is called.      *)
LEMMA PopKeeps ==
    ASSUME ExitInv, NEW t \in Thread, Pop(t)
    PROVE  ExitInv'
<1> DEFINE i  == frame[t].next
           at == CHOOSE k \in DOMAIN exitList : exitList[k] = i
           InFront == {exitList[k] : k \in 1 .. at - 1}
<1>1. /\ i # None /\ frame[t].pc = "loop" /\ ~ended /\ ~broken
      /\ UNCHANGED <<atExit, careless, ended>>
  BY DEF Pop, Running
<1>2. CASE item[i].state # "listed"
  <2>1. broken' = TRUE /\ UNCHANGED <<exitList, item, frame>>
    BY <1>2 DEF Pop
  <2>2. ListInv'
    BY <2>1 DEF ExitInv, ListInv, OnList
  <2>3. careless
    <3> SUFFICES ASSUME ~careless PROVE FALSE
      OBVIOUS
    <3>1. OnList(i)
      BY <1>1 DEF ExitInv, LoopInv, In
    <3> QED
      BY <1>2, <3>1 DEF ExitInv, ListInv, OnList
  <2> QED
    BY <1>1, <2>2, <2>3 DEF ExitInv
<1>3. CASE item[i].state = "listed"
  <2>1. PICK x \in Item : x = i
    BY <1>1 DEF ExitInv, ListInv
  <2>2. PICK n \in DOMAIN exitList : n = at /\ exitList[n] = x
    BY <1>3, <2>1 DEF ExitInv, ListInv, OnList
  <2>3. /\ item' = [j \in Item |-> CASE j = x -> [item[j] EXCEPT !.state = "run"]
                                     [] j \in {exitList[k] : k \in 1 .. n - 1} -> [item[j] EXCEPT !.state = "lost"]
                                     [] OTHER -> item[j]]
        /\ exitList' = SubSeq(exitList, n + 1, Len(exitList))
        /\ frame' = [frame EXCEPT ![t] =
               [pc |-> "call", next |-> IF n = Len(exitList) THEN None ELSE exitList[n + 1]]]
        /\ UNCHANGED broken
    BY <1>3, <2>1, <2>2, ZenonT(60) DEF Pop
  <2> HIDE DEF i, at, InFront
  <2>4. /\ exitList \in Seq(Item) /\ Len(exitList) \in Nat /\ DOMAIN exitList = 1 .. Len(exitList)
        /\ n \in 1 .. Len(exitList)
        /\ \A j, k \in DOMAIN exitList : exitList[j] = exitList[k] => j = k
    BY DEF ExitInv, ListInv
  <2>5. /\ exitList' \in Seq(Item) /\ Len(exitList') = Len(exitList) - n /\ DOMAIN exitList' = 1 .. Len(exitList) - n
        /\ \A k \in 1 .. Len(exitList) - n : exitList'[k] = exitList[n + k] /\ n + k \in DOMAIN exitList
    BY <2>3, <2>4, Behind
  <2>6. \A k \in DOMAIN exitList : k > n => k - n \in DOMAIN exitList' /\ exitList'[k - n] = exitList[k]
    BY <2>4, <2>5
  <2>7. PICK y \in Item \cup {None} : y = IF n = Len(exitList) THEN None ELSE exitList[n + 1]
    BY <2>4
  <2>8. /\ frame' \in [Thread -> [pc : {"out", "loop", "call"}, next : Item \cup {None}]]
        /\ frame'[t] = [pc |-> "call", next |-> y]
        /\ \A u \in Thread \ {t} : frame'[u] = frame[u]
    BY <2>3, <2>7 DEF ExitInv, ListInv
  <2>9. \A k \in DOMAIN exitList' : y = exitList'[1] /\ 1 \in 1 .. k
    BY <2>4, <2>5, <2>7
  <2>10. ASSUME NEW k \in DOMAIN exitList'
         PROVE  /\ exitList'[k] \in Item /\ exitList'[k] # x
                /\ \A j \in 1 .. n - 1 : exitList'[k] # exitList[j]
    <3>1. n + k \in DOMAIN exitList /\ n + k > n /\ exitList'[k] = exitList[n + k]
      BY <2>4, <2>5
    <3> QED
      BY <2>2, <2>4, <3>1
  <2>11. \A k \in 1 .. n : k \in DOMAIN exitList /\ item[exitList[k]].state = "listed" /\ exitList[k] \in Item
    BY <2>4 DEF ExitInv, ListInv
  <2>12. ASSUME NEW j \in Item
         PROVE  /\ item'[j] \in Memory
                /\ j = x => item'[j].state = "run"
                /\ j # x /\ (\A k \in 1 .. n - 1 : j # exitList[k]) => item'[j] = item[j]
                /\ (j = x \/ \E k \in 1 .. n - 1 : j = exitList[k]) => item'[j].state \in {"run", "lost"}
    <3>1. item[j] \in Memory
      BY DEF ExitInv, ListInv
    <3>2. CASE j = x \/ \E k \in 1 .. n - 1 : j = exitList[k]
      <4>1. item[j].state = "listed"
        BY <2>2, <2>4, <2>11, <3>2
      <4>2. \A st \in {"run", "lost"} : /\ [item[j] EXCEPT !.state = st] \in Memory
                                        /\ [item[j] EXCEPT !.state = st].state = st
        BY <3>1, <4>1 DEF Memory
      <4>3. \A k \in 1 .. n - 1 : exitList[k] # x
        BY <2>2, <2>4
      <4>4. \/ item'[j] = [item[j] EXCEPT !.state = "run"]
            \/ j # x /\ item'[j] = [item[j] EXCEPT !.state = "lost"]
        <5>1. CASE j = x
          BY <2>3, <4>3, <5>1
        <5>2. CASE j # x /\ j \in {exitList[k] : k \in 1 .. n - 1}
          BY <2>3, <5>2
        <5> QED
          BY <3>2, <5>1, <5>2
      <4> QED
        BY <3>2, <4>2, <4>3, <4>4
    <3>3. CASE j # x /\ \A k \in 1 .. n - 1 : j # exitList[k]
      <4>1. item'[j] = item[j]
        BY <2>3, <3>3
      <4> QED
        BY <3>1, <3>3, <4>1
    <3> QED
      BY <3>2, <3>3
  <2>13. ListInv'
    <3>1. item' \in [Item -> Memory]
      BY <2>3, <2>12
    <3>2. ASSUME NEW j \in DOMAIN exitList', NEW k \in DOMAIN exitList', exitList'[j] = exitList'[k] PROVE j = k
      <4>1. n + j = n + k
        BY <2>4, <2>5, <3>2
      <4> QED
        BY <2>4, <2>5, <4>1
    <3>3. \A k \in DOMAIN exitList' : item'[exitList'[k]].state = "listed"
      <4> TAKE k \in DOMAIN exitList'
      <4>1. n + k \in DOMAIN exitList /\ exitList'[k] = exitList[n + k]
        BY <2>5
      <4>2. item[exitList'[k]].state = "listed"
        BY <4>1 DEF ExitInv, ListInv
      <4> QED
        BY <2>10, <2>12, <4>2
    <3>4. ASSUME NEW j \in Item, item'[j].state = "listed" PROVE OnList(j)'
      <4>1. item'[j] = item[j] /\ j # x /\ \A k \in 1 .. n - 1 : j # exitList[k]
        BY <2>12, <3>4
      <4>2. PICK k \in DOMAIN exitList : exitList[k] = j
        BY <3>4, <4>1 DEF ExitInv, ListInv, OnList
      <4>3. k > n
        BY <2>2, <2>4, <4>1, <4>2
      <4> QED
        BY <2>6, <4>2, <4>3 DEF OnList
    <3> QED
      BY <2>5, <2>8, <3>1, <3>2, <3>3, <3>4 DEF ListInv
  <2>14. ASSUME LoopInv PROVE LoopInv'
    <3>1. \A u \in Thread : In(u)' <=> In(u)
      BY <1>1, <2>8 DEF In
    <3>2. \A u \in Thread : In(u)' => u = t
      BY <1>1, <2>14, <3>1 DEF LoopInv, In
    <3>3. y = None \/ OnList(y)'
      <4>1. CASE n = Len(exitList)
        BY <2>7, <4>1
      <4>2. CASE n # Len(exitList)
        <5>1. 1 \in DOMAIN exitList'
          BY <2>4, <2>5, <4>2
        <5> QED
          BY <2>9, <5>1 DEF OnList
      <4> QED
        BY <4>1, <4>2
    <3>4. (frame[t].next = None \/ OnList(frame[t].next))'
      BY <2>8, <3>3 DEF OnList
    <3>5. ASSUME NEW j \in atExit PROVE j \in Item /\ item'[j].state \in {"run", "removed", "listed"}
      <4>1. /\ j \in Item /\ item[j].state \in {"run", "removed", "listed"}
            /\ \A k \in DOMAIN exitList : exitList[k] = j => \E m \in 1 .. k : exitList[m] = frame[t].next
        BY <1>1, <2>14 DEF LoopInv, StillToCome, In
      <4>2. \A k \in 1 .. n - 1 : j # exitList[k]
        <5> SUFFICES ASSUME NEW k \in 1 .. n - 1, j = exitList[k] PROVE FALSE
          OBVIOUS
        <5>1. PICK m \in 1 .. k : exitList[m] = x
          BY <2>1, <2>4, <4>1 DEF i
        <5> QED
          BY <2>2, <2>4, <5>1
      <4> QED
        BY <2>12, <4>1, <4>2
    <3>6. StillToCome(t)'
      BY <1>1, <2>8, <2>9, <3>5 DEF StillToCome
    <3> QED
      BY <1>1, <2>3, <2>14, <3>1, <3>2, <3>4, <3>6 DEF LoopInv
  <2> QED
    BY <1>1, <2>13, <2>14 DEF ExitInv
<1> QED
  BY <1>2, <1>3

(* One of the calls, a turn of the loop, or its end.                        *)
LEMMA ExitInvStep == ExitInv /\ [ExitNext]_exitVars => ExitInv'
<1> SUFFICES ASSUME ExitInv, [ExitNext]_exitVars PROVE ExitInv'
  OBVIOUS
<1>1. CASE UNCHANGED exitVars
  BY <1>1 DEF exitVars, ExitInv, ListInv, LoopInv, OnList, In, StillToCome
<1>2. ASSUME NEW t \in Thread, FunctionReturns(t) PROVE ExitInv'
  <2>1. /\ frame[t].pc = "call" /\ frame' = [frame EXCEPT ![t].pc = "loop"] /\ ~ended
        /\ UNCHANGED <<exitList, item, atExit, careless, broken, ended>>
    BY <1>2 DEF FunctionReturns, Running
  <2>2. /\ frame' \in [Thread -> [pc : {"out", "loop", "call"}, next : Item \cup {None}]]
        /\ \A u \in Thread : frame'[u].next = frame[u].next /\ (In(u)' <=> In(u))
    BY <2>1 DEF ExitInv, ListInv, In
  <2>3. ListInv'
    BY <2>1, <2>2 DEF ExitInv, ListInv, OnList
  <2>4. LoopInv => LoopInv'
    BY <2>1, <2>2 DEF LoopInv, OnList, StillToCome
  <2> QED
    BY <2>1, <2>3, <2>4 DEF ExitInv
<1>3. ASSUME NEW t \in Thread, Terminate(t) PROVE ExitInv'
  BY <1>3 DEF Terminate, ExitInv, ListInv, LoopInv, OnList, In, StillToCome
<1> QED
  BY <1>1, <1>2, <1>3, AddKeeps, RemoveKeeps, ExitKeeps, PopKeeps DEF ExitNext

(* With one exiting thread, whose functions leave the item to come alone,   *)
(* every function on the list at DosExit is called once, unless it is taken *)
(* out, and none from freed memory, whatever the functions add, remove or   *)
(* exit again (runDosExitList).                                             *)
THEOREM EachFunctionOnce == ExitSpec => []FunctionsAreCalledOnce
<1>1. ExitInv => FunctionsAreCalledOnce
  <2> SUFFICES ASSUME ExitInv, ~careless, ended, NEW i \in atExit PROVE item[i].state \in {"run", "removed"}
    BY DEF ExitInv, LoopInv, FunctionsAreCalledOnce, NoFreedItemIsCalled, EveryFunctionIsCalled
  <2>1. PICK t \in Thread : frame[t] = [pc |-> "loop", next |-> None]
    BY DEF ExitInv, LoopInv
  <2>2. StillToCome(t)
    BY <2>1 DEF ExitInv, LoopInv, In
  <2>3. ~OnList(i)
    <3> SUFFICES ASSUME NEW k \in DOMAIN exitList, exitList[k] = i PROVE FALSE
      BY DEF OnList
    <3>1. PICK j \in 1 .. k : exitList[j] = None
      BY <2>1, <2>2 DEF StillToCome
    <3>2. exitList[j] \in Item
      BY DEF ExitInv, ListInv
    <3> QED
      BY <3>1, <3>2 DEF None, Item
  <2> QED
    BY <2>2, <2>3 DEF StillToCome, ExitInv, ListInv
<1> QED
  BY <1>1, ExitInvInit, ExitInvStep, PTL DEF ExitSpec

-----------------------------------------------------------------------------
(* The list of dead threads: it holds those that ended and that nobody      *)
(* reaps yet.  That it is whole is said without counting along it: a set    *)
(* that is followed from the head, and of which no part is, is the list.    *)

(* The links: they lead from a dead thread to another or to the end, never  *)
(* to the head and to no thread twice, and leave out none of the dead.      *)
ListShape ==
    /\ Follows(Dead)
    /\ \A n \in Dead : GDeadThreads = Null \/ next[n] # GDeadThreads
    /\ \A m, n \in Dead : (next[m] # Null /\ next[m] = next[n]) => m = n
    /\ \A S \in SUBSET Dead : Follows(S) => S = Dead

(* A caller that waits for any thread and its target.                       *)
AnyInv ==
    /\ ~corrupt /\ ~asserted
    /\ \A n \in Node : prev[n] = Null
    /\ \A t \in Thread : target[t] # Null => state[target[t]] \in {"dying", "gone"}
    /\ ListShape

ReaperInv ==
    /\ TypeOK
    /\ \A t \in Thread : target[t] = Null <=> pc[t] \in {"idle", "poll"}
    /\ \A t \in Thread : /\ pc[t] \in {"poll", "join_any"} => "any" \in program.waits
                         /\ pc[t] \in {"join", "unlink"} => "one" \in program.waits
    /\ ReapedOnce
    /\ program.waits = {"any"} => AnyInv

-----------------------------------------------------------------------------
(* The list is what is dead: the dead are such a set, and the least.        *)
LEMMA ShapeMeansListed == ListShape => Listed = Dead
<1> SUFFICES ASSUME ListShape PROVE Listed = Dead
  OBVIOUS
<1>1. Dead \subseteq Node
  BY DEF Dead
<1>2. Listed \subseteq Dead
  BY <1>1 DEF Listed, ListShape
<1>3. ASSUME NEW n \in Dead, NEW S \in SUBSET Node, Follows(S) PROVE n \in S
  <2>1. Follows(S \cap Dead)
    BY <1>3 DEF ListShape, Follows
  <2> QED
    BY <2>1 DEF ListShape
<1> QED
  BY <1>1, <1>2, <1>3 DEF Listed

(* A step that moves no thread to or from the list keeps its shape.         *)
LEMMA SameDead ==
    ASSUME ListShape, Dead' = Dead, GDeadThreads' = GDeadThreads,
           \A n \in Dead : next'[n] = next[n]
    PROVE  ListShape'
<1>1. \A S \in SUBSET Dead : Follows(S)' <=> Follows(S)
  BY DEF Follows
<1> QED
  BY <1>1 DEF ListShape

(* At the front: the new one is followed by what was the head.              *)
LEMMA PushKeepsShape ==
    ASSUME ListShape, NEW n \in Node \ Dead, Dead' = Dead \cup {n},
           GDeadThreads' = n, next' = [next EXCEPT ![n] = GDeadThreads],
           next \in [Node -> Node \cup {Null}]
    PROVE  ListShape'
<1> USE NullAssumption
<1>1. Dead \subseteq Node
  BY DEF Dead
<1>2. next'[n] = GDeadThreads /\ \A m \in Dead : next'[m] = next[m]
  BY <1>1
<1>3. GDeadThreads \in Dead \cup {Null} /\ \A m \in Dead : next[m] \in Dead \cup {Null}
  BY DEF ListShape, Follows
<1>4. Follows(Dead)'
  BY <1>2, <1>3 DEF Follows
<1>5. \A m \in Dead' : next'[m] # n
  BY <1>1, <1>2, <1>3
<1>6. \A k, m \in Dead' : (next'[k] # Null /\ next'[k] = next'[m]) => k = m
  BY <1>2, <1>3 DEF ListShape
<1>7. ASSUME NEW S \in SUBSET Dead', Follows(S)' PROVE S = Dead'
  <2>1. n \in S
    BY <1>7 DEF Follows
  <2>2. Follows(S \cap Dead)
    BY <1>2, <1>3, <1>7, <2>1 DEF Follows
  <2>3. S \cap Dead = Dead
    BY <2>2 DEF ListShape
  <2> QED
    BY <2>1, <2>3
<1> QED
  BY <1>4, <1>5, <1>6, <1>7 DEF ListShape

(* From the front: nothing leads to the head, so the rest is still whole.   *)
LEMMA PopKeepsShape ==
    ASSUME ListShape, GDeadThreads # Null,
           Dead' = Dead \ {GDeadThreads}, GDeadThreads' = next[GDeadThreads], next' = next
    PROVE  ListShape'
<1> USE NullAssumption
<1> DEFINE h == GDeadThreads
<1>1. Dead \subseteq Node
  BY DEF Dead
<1>2. h \in Dead /\ \A m \in Dead : next[m] \in (Dead \ {h}) \cup {Null}
  BY DEF ListShape, Follows
<1>3. Follows(Dead)'
  BY <1>2 DEF Follows
<1>4. \A m \in Dead' : GDeadThreads' = Null \/ next'[m] # GDeadThreads'
  BY <1>2 DEF ListShape
<1>5. ASSUME NEW S \in SUBSET Dead', Follows(S)' PROVE S = Dead'
  <2>1. Follows(S \cup {h})
    BY <1>2, <1>5 DEF Follows
  <2>2. S \cup {h} = Dead
    BY <1>2, <2>1 DEF ListShape
  <2> QED
    BY <2>2
<1> QED
  BY <1>3, <1>4, <1>5 DEF ListShape

-----------------------------------------------------------------------------
(* No thread has ended and the list is empty.                               *)
LEMMA ReaperInvInit == Init => ReaperInv
<1> SUFFICES ASSUME Init PROVE ReaperInv
  OBVIOUS
<1>1. TypeOK
  BY DEF Init, TypeOK, Life
<1>2. Dead = {}
  BY DEF Init, Dead
<1>3. ListShape
  BY <1>2 DEF Init, ListShape, Follows
<1> QED
  BY <1>1, <1>3 DEF Init, ReaperInv, AnyInv, ReapedOnce

(* A thread ends and is linked, or a wait unlinks one, or neither.          *)
LEMMA ReaperInvStep == ReaperInv /\ [Next]_vars => ReaperInv'
<1> SUFFICES ASSUME ReaperInv, [Next]_vars PROVE ReaperInv'
  OBVIOUS
<1> USE NullAssumption DEF ReaperInv, TypeOK, Life
<1>0. program.callers \subseteq Thread
  BY ProgramsAssumption
<1>1. CASE UNCHANGED vars
  <2>1. Dead' = Dead
    BY <1>1 DEF vars, Dead
  <2>2. ListShape => ListShape'
    BY <1>1, <2>1, SameDead DEF vars
  <2> QED
    BY <1>1, <2>2 DEF vars, AnyInv, ReapedOnce
<1>2. ASSUME NEW n \in Node, os2ThreadCleanup(n) PROVE ReaperInv'
  <2>1. TypeOK'
    BY <1>2 DEF os2ThreadCleanup
  <2>2. ASSUME AnyInv PROVE AnyInv'
    <3>1. n \notin Dead /\ \A t \in Thread : target[t] # n
      BY <1>2, <2>2 DEF os2ThreadCleanup, Dead, AnyInv
    <3>2. Dead' = Dead \cup {n}
      BY <1>2, <3>1 DEF os2ThreadCleanup, Dead
    <3>3. ListShape'
      BY <1>2, <2>2, <3>1, <3>2, PushKeepsShape DEF os2ThreadCleanup, AnyInv
    <3> QED
      BY <1>2, <2>2, <3>1, <3>3 DEF os2ThreadCleanup, AnyInv
  <2> QED
    BY <1>2, <2>1, <2>2 DEF os2ThreadCleanup, ReapedOnce
<1>3. ASSUME NEW n \in Node, ThreadIsGone(n) PROVE ReaperInv'
  <2>1. Dead' = Dead
    BY <1>3 DEF ThreadIsGone, Dead
  <2>2. ListShape => ListShape'
    BY <1>3, <2>1, SameDead DEF ThreadIsGone
  <2> QED
    BY <1>3, <2>2 DEF ThreadIsGone, AnyInv, ReapedOnce
<1>4. ASSUME NEW t \in Thread, NEW n \in Node, DosCreateThread(t, n) PROVE ReaperInv'
  <2>1. AnyInv => n \notin {target[u] : u \in Thread}
    BY <1>4 DEF DosCreateThread, AnyInv
  <2>2. n \notin Dead /\ Dead' = Dead
    BY <1>4 DEF DosCreateThread, Dead
  <2>3. ListShape => ListShape'
    BY <1>4, <2>2, SameDead DEF DosCreateThread
  <2> QED
    BY <1>4, <2>1, <2>3 DEF DosCreateThread, AnyInv, ReapedOnce
<1>5. ASSUME NEW t \in Thread, WaitAny(t) PROVE ReaperInv'
  <2>1. Dead' = Dead
    BY <1>5 DEF WaitAny, Dead
  <2>2. ListShape => ListShape'
    BY <1>5, <2>1, SameDead DEF WaitAny
  <2> QED
    BY <1>5, <2>2 DEF WaitAny, AnyInv, ReapedOnce
<1>6. ASSUME NEW t \in Thread, PollDeadList(t) PROVE ReaperInv'
  <2> DEFINE h == GDeadThreads
  <2>1. /\ target' = [target EXCEPT ![t] = h] /\ h \in Node
        /\ pc' = [pc EXCEPT ![t] = "join_any"] /\ pc[t] = "poll"
        /\ GDeadThreads' = next[h] /\ UNCHANGED <<program, state, next, ret>>
    BY <1>6 DEF PollDeadList
  <2>2. prev' = IF next[h] = Null THEN prev ELSE [prev EXCEPT ![next[h]] = Null]
    BY <1>6 DEF PollDeadList
  <2>3. /\ asserted' = (prev'[h] # Null)
        /\ corrupt' = (state[h] = "free" \/ (next[h] # Null /\ state[next[h]] = "free"))
    BY <1>6 DEF PollDeadList
  <2>4. TypeOK'
    BY <2>1, <2>2, <2>3
  <2>5. "any" \in program.waits
    BY <2>1
  <2>6. ASSUME AnyInv PROVE AnyInv' /\ \A u \in Thread : target[u] # h
    <3>1. h \in Dead /\ next[h] \in Dead \cup {Null}
      BY <2>1, <2>6 DEF AnyInv, ListShape, Follows
    <3>2. \A u \in Thread : target[u] # h
      BY <3>1 DEF Dead
    <3>3. \A n \in Node : n \in {target'[u] : u \in Thread} <=> n = h \/ n \in {target[u] : u \in Thread}
      BY <2>1
    <3>4. Dead' = Dead \ {h}
      BY <2>1, <3>3 DEF Dead
    <3>5. ListShape'
      BY <2>1, <2>6, <3>4, PopKeepsShape DEF AnyInv
    <3>6. state[h] \in {"dying", "gone"} /\ (next[h] # Null => state[next[h]] # "free")
      BY <3>1 DEF Dead
    <3>7. \A n \in Node : prev'[n] = Null
      BY <2>2, <2>6, <3>1 DEF AnyInv, Dead
    <3> QED
      BY <2>1, <2>3, <2>6, <3>2, <3>5, <3>6, <3>7 DEF AnyInv
  <2>7. ReapedOnce'
    <3>1. CASE program.waits = {"any", "one"}
      BY <2>1, <3>1 DEF ReapedOnce
    <3>2. CASE program.waits = {"any"}
      BY <2>1, <2>6, <3>2 DEF ReapedOnce
    <3> QED
      BY <2>5, <3>1, <3>2, ProgramsAssumption
  <2> QED
    BY <2>1, <2>4, <2>5, <2>6, <2>7
<1>7. ASSUME NEW t \in Thread, PollFindsNothing(t) \/ JoinBusy(t) PROVE ReaperInv'
  <2>1. /\ target' = [target EXCEPT ![t] = Null] /\ pc' = [pc EXCEPT ![t] = "idle"]
        /\ UNCHANGED <<program, state, prev, next, GDeadThreads, asserted, corrupt>>
    BY <1>7 DEF PollFindsNothing, JoinBusy, Return
  <2>2. program.waits = {"any"} => target[t] = Null
    BY <1>7 DEF PollFindsNothing, JoinBusy
  <2>3. target[t] = Null => target' = target
    BY <2>1
  <2>4. target[t] = Null => Dead' = Dead
    BY <2>1, <2>3 DEF Dead
  <2>5. (target[t] = Null /\ ListShape) => ListShape'
    BY <2>1, <2>4, SameDead
  <2> QED
    BY <2>1, <2>2, <2>3, <2>5 DEF AnyInv, ReapedOnce
<1>8. ASSUME NEW t \in Thread, JoinAny(t) PROVE ReaperInv'
  <2> DEFINE n == target[t]
  <2>1. /\ target' = [target EXCEPT ![t] = Null] /\ pc' = [pc EXCEPT ![t] = "idle"]
        /\ n \in Node /\ state' = [state EXCEPT ![n] = "free"]
        /\ corrupt' = (state[n] = "free")
        /\ UNCHANGED <<program, prev, next, GDeadThreads, asserted>>
    BY <1>8 DEF JoinAny, Return
  <2>2. ReapedOnce'
    BY <2>1 DEF ReapedOnce
  <2>3. ASSUME program.waits = {"any"} PROVE AnyInv'
    <3>1. \A u \in Thread : target'[u] # n
      BY <2>1, <2>3 DEF ReapedOnce
    <3>2. Dead' = Dead
      BY <2>1, <3>1 DEF Dead
    <3>3. ListShape'
      BY <2>1, <2>3, <3>2, SameDead DEF AnyInv
    <3> QED
      BY <2>1, <2>3, <3>1, <3>3 DEF AnyInv
  <2> QED
    BY <2>1, <2>2, <2>3
<1>9. ASSUME NEW t \in Thread, NEW n \in Node, WaitOne(t, n) PROVE ReaperInv'
  BY <1>9 DEF WaitOne, ReapedOnce, Unclaimed
<1>10. ASSUME NEW t \in Thread, JoinOne(t) PROVE ReaperInv'
  BY <1>10 DEF JoinOne, ReapedOnce
<1>11. ASSUME NEW t \in Thread, Unlink(t) PROVE ReaperInv'
  BY <1>11 DEF Unlink, Return, ReapedOnce
<1> QED
  BY <1>0, <1>1, <1>2, <1>3, <1>4, <1>5, <1>6, <1>7, <1>8, <1>9, <1>10, <1>11 DEF Next

(* Every thread that ended is on the list or is reaped by one caller, and   *)
(* nothing else is listed; DosWaitThread uses no structure that was freed,  *)
(* and its assertion on the head of the list holds, in programs that wait   *)
(* for any thread.  No two callers reap one thread unless a program mixes   *)
(* both kinds of wait.                                                      *)
THEOREM ThreadsReapedExactly == Spec => []ReapingIsExact
<1>1. ReaperInv => ReapingIsExact
  BY ShapeMeansListed
     DEF ReaperInv, AnyInv, ReapingIsExact, ListIsTheDead, NothingFreedIsUsed
<1> QED
  BY <1>1, ReaperInvInit, ReaperInvStep, PTL DEF Spec
=============================================================================
