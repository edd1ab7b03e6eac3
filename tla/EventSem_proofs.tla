--------------------------- MODULE EventSem_proofs ---------------------------
(***************************************************************************)
(* The event semaphores for any number of threads and any contents of the   *)
(* memory malloc hands out: the count of waiting threads is exact, a post   *)
(* leaves nobody asleep, and, in a program that starts no call while one of *)
(* its threads closes the semaphore, every step does what EventSemSpec      *)
(* promises.                                                                *)
(***************************************************************************)
EXTENDS EventSem, FiniteSetTheorems, TLAPS

(* Every variable of the semaphore and of its threads keeps its type. *)
THEOREM TypeCorrect == Spec => []TypeOK
<1>1. Init => TypeOK
  <2> SUFFICES ASSUME Init PROVE TypeOK
    OBVIOUS
  <2>1. timed \in [Thread -> BOOLEAN] /\ expired \in [Thread -> BOOLEAN]
    BY Zenon DEF Init
  <2>2. /\ pc \in [Thread -> {"idle", "blocked", "woken", "closing"}]
        /\ cause \in [Thread -> Cause]
    BY DEF Init, Cause
  <2>3. live \in BOOLEAN /\ posted = 0 /\ waiting = 0 /\ waiting0 = 0
    BY Zenon DEF Init
  <2> QED
    BY <2>1, <2>2, <2>3 DEF TypeOK
<1>2. TypeOK /\ [Next]_vars => TypeOK'
  <2> SUFFICES ASSUME TypeOK, [Next]_vars PROVE TypeOK'
    OBVIOUS
  <2> USE DEF TypeOK, Cause
  <2>1. CASE UNCHANGED vars
    BY <2>1 DEF vars
  <2>2. ASSUME NEW t \in Thread, NEW state \in {0, 1}, DosCreateEventSem(t, state) PROVE TypeOK'
    BY <2>2, GarbageAssumption DEF DosCreateEventSem
  <2>3. ASSUME NEW t \in Thread, DosResetEventSem(t) PROVE TypeOK'
    BY <2>3 DEF DosResetEventSem
  <2>4. ASSUME NEW t \in Thread, DosPostEventSem(t) PROVE TypeOK'
    BY <2>4 DEF DosPostEventSem
  <2>5. ASSUME NEW t \in Thread, WaitImmediate(t) PROVE TypeOK'
    BY <2>5 DEF WaitImmediate
  <2>6. ASSUME NEW t \in Thread, NEW limit \in BOOLEAN, WaitEnter(t, limit) PROVE TypeOK'
    <3>1. timed' \in [Thread -> BOOLEAN] /\ expired' \in [Thread -> BOOLEAN]
      BY <2>6, Zenon DEF WaitEnter
    <3>2. /\ pc' \in [Thread -> {"idle", "blocked", "woken", "closing"}]
          /\ cause' \in [Thread -> Cause]
      BY <2>6 DEF WaitEnter
    <3> QED
      BY <2>6, <3>1, <3>2 DEF WaitEnter
  <2>7. ASSUME NEW t \in Thread, DeadlinePasses(t) PROVE TypeOK'
    BY <2>7 DEF DeadlinePasses
  <2>8. ASSUME NEW t \in Thread, TimedWaitEnds(t) \/ SpuriousWakeup(t) PROVE TypeOK'
    BY <2>8 DEF TimedWaitEnds, SpuriousWakeup, Wake
  <2>9. ASSUME NEW t \in Thread, WaitContinue(t) PROVE TypeOK'
    <3>1. timed' \in [Thread -> BOOLEAN] /\ expired' \in [Thread -> BOOLEAN]
      BY <2>9, Zenon DEF WaitContinue
    <3>2. /\ pc' \in [Thread -> {"idle", "blocked", "woken", "closing"}]
          /\ cause' \in [Thread -> Cause]
      BY <2>9 DEF WaitContinue
    <3> QED
      BY <2>9, <3>1, <3>2 DEF WaitContinue
  <2>10. ASSUME NEW t \in Thread, CloseLook(t) \/ CloseDestroy(t) PROVE TypeOK'
    BY <2>10 DEF CloseLook, CloseDestroy
  <2> QED
    BY <2>1, <2>2, <2>3, <2>4, <2>5, <2>6, <2>7, <2>8, <2>9, <2>10 DEF Next
<1> QED
  BY <1>1, <1>2, PTL DEF Spec

(* The threads inside DosWaitEventSem are finitely many; one more or one    *)
(* less changes their number by one.                                        *)
LEMMA WaitersCounted ==
    /\ IsFiniteSet(Waiters) /\ Cardinality(Waiters) \in Nat
    /\ \A t \in Thread : t \notin Waiters => Cardinality(Waiters \cup {t}) = Cardinality(Waiters) + 1
    /\ \A t \in Waiters : Cardinality(Waiters \ {t}) = Cardinality(Waiters) - 1
    /\ Cardinality(Waiters) = 0 <=> Waiters = {}
<1>1. Waiters \subseteq Thread
  BY DEF Waiters
<1>2. IsFiniteSet(Waiters)
  BY <1>1, ThreadAssumption, FS_Subset
<1> QED
  BY <1>2, FS_CardinalityType, FS_AddElement, FS_RemoveElement, FS_EmptySet

(* What each step does to the set of waiting threads. *)
LEMMA WaitersChange ==
    ASSUME TypeOK, NEW t \in Thread
    PROVE  /\ \A state : DosCreateEventSem(t, state) => Waiters = {} /\ Waiters' = {}
           /\ (DosResetEventSem(t) \/ DosPostEventSem(t) \/ WaitImmediate(t) \/ DeadlinePasses(t)
                \/ TimedWaitEnds(t) \/ SpuriousWakeup(t) \/ CloseLook(t) \/ CloseDestroy(t))
                 => Waiters' = Waiters
           /\ \A limit : WaitEnter(t, limit) =>
                 /\ t \notin Waiters
                 /\ Waiters' = IF posted = 1 THEN Waiters ELSE Waiters \cup {t}
           /\ WaitContinue(t) =>
                 /\ t \in Waiters
                 /\ Waiters' = IF posted = 1 \/ cause[t] = "timeout" THEN Waiters \ {t} ELSE Waiters
<1> USE DEF TypeOK, Waiters
<1>1. \A state : DosCreateEventSem(t, state) => Waiters = {} /\ Waiters' = {}
  BY DEF DosCreateEventSem
<1>2. DosResetEventSem(t) \/ WaitImmediate(t) \/ DeadlinePasses(t) => Waiters' = Waiters
  BY DEF DosResetEventSem, WaitImmediate, DeadlinePasses
<1>3. DosPostEventSem(t) => Waiters' = Waiters
  BY DEF DosPostEventSem
<1>4. TimedWaitEnds(t) \/ SpuriousWakeup(t) => Waiters' = Waiters
  BY DEF TimedWaitEnds, SpuriousWakeup, Wake
<1>5. CloseLook(t) \/ CloseDestroy(t) => Waiters' = Waiters
  BY DEF CloseLook, CloseDestroy, CanCall
<1>6. \A limit : WaitEnter(t, limit) =>
         /\ t \notin Waiters
         /\ Waiters' = IF posted = 1 THEN Waiters ELSE Waiters \cup {t}
  BY DEF WaitEnter, CanCall
<1>7. WaitContinue(t) =>
         /\ t \in Waiters
         /\ Waiters' = IF posted = 1 \/ cause[t] = "timeout" THEN Waiters \ {t} ELSE Waiters
  BY DEF WaitContinue
<1> QED
  BY <1>1, <1>2, <1>3, <1>4, <1>5, <1>6, <1>7

(* sem->waiting is the number of threads inside DosWaitEventSem, on top of  *)
(* what malloc left there: each way out of the loops undoes the increment.  *)
THEOREM CountExact == Spec => []WaitCountExact
<1>1. Init => WaitCountExact
  BY DEF Init, WaitCountExact
<1>2. TypeOK /\ TypeOK' /\ WaitCountExact /\ [Next]_vars => WaitCountExact'
  <2> SUFFICES ASSUME TypeOK, TypeOK', WaitCountExact, [Next]_vars PROVE WaitCountExact'
    OBVIOUS
  <2>1. CASE UNCHANGED vars
    BY <2>1 DEF vars, WaitCountExact, Waiters
  <2>2. ASSUME NEW t \in Thread, NEW state \in {0, 1}, DosCreateEventSem(t, state)
        PROVE  WaitCountExact'
    <3>1. Waiters' = {} /\ Cardinality({}) = 0
      BY <2>2, WaitersChange, FS_EmptySet
    <3> QED
      BY <2>2, <3>1 DEF DosCreateEventSem, WaitCountExact, TypeOK
  <2>3. ASSUME NEW t \in Thread,
               \/ DosResetEventSem(t) \/ DosPostEventSem(t) \/ WaitImmediate(t) \/ DeadlinePasses(t)
               \/ TimedWaitEnds(t) \/ SpuriousWakeup(t) \/ CloseLook(t)
        PROVE  WaitCountExact'
    <3>1. Waiters' = Waiters
      BY <2>3, WaitersChange
    <3>2. live' = live /\ waiting' = waiting /\ waiting0' = waiting0
      BY <2>3 DEF DosResetEventSem, DosPostEventSem, WaitImmediate, DeadlinePasses,
                  TimedWaitEnds, SpuriousWakeup, Wake, CloseLook
    <3> QED
      BY <3>1, <3>2 DEF WaitCountExact
  <2>4. ASSUME NEW t \in Thread, NEW limit \in BOOLEAN, WaitEnter(t, limit) PROVE WaitCountExact'
    <3>1. t \notin Waiters /\ Waiters' = IF posted = 1 THEN Waiters ELSE Waiters \cup {t}
      BY <2>4, WaitersChange
    <3> QED
      BY <2>4, <3>1, WaitersCounted DEF WaitEnter, WaitCountExact, TypeOK
  <2>5. ASSUME NEW t \in Thread, WaitContinue(t) PROVE WaitCountExact'
    <3>1. /\ t \in Waiters
          /\ Waiters' = IF posted = 1 \/ cause[t] = "timeout" THEN Waiters \ {t} ELSE Waiters
      BY <2>5, WaitersChange
    <3> QED
      BY <2>5, <3>1, WaitersCounted DEF WaitContinue, WaitCountExact, TypeOK
  <2>6. ASSUME NEW t \in Thread, CloseDestroy(t) PROVE WaitCountExact'
    BY <2>6 DEF CloseDestroy, WaitCountExact
  <2> QED
    BY <2>1, <2>2, <2>3, <2>4, <2>5, <2>6 DEF Next
<1> QED
  BY <1>1, <1>2, TypeCorrect, PTL DEF Spec

(* DosCloseEventSem refuses with ERROR_SEM_BUSY only while somebody waits,  *)
(* unless malloc left a positive value in sem->waiting.                     *)
THEOREM BusyMeansWaitedOn == Spec => BusyOnlyWhenWaitedOn
<1> DEFINE Busy == \A t \in Thread : CloseLook(t) /\ pc'[t] = "idle" /\ waiting0 <= 0 => Waiters # {}
<1>1. TypeOK /\ WaitCountExact => Busy
  <2> SUFFICES ASSUME TypeOK, WaitCountExact, NEW t \in Thread, CloseLook(t), pc'[t] = "idle",
                      waiting0 <= 0, Waiters = {}
               PROVE  FALSE
    OBVIOUS
  <2>1. live
    BY DEF CloseLook, CanCall
  <2>2. waiting <= 0
    BY <2>1, WaitersCounted DEF WaitCountExact, TypeOK
  <2>3. pc'[t] = "closing"
    BY <2>2 DEF CloseLook, TypeOK
  <2> QED
    BY <2>3
<1>2. TypeOK /\ WaitCountExact => [Busy]_vars
  BY <1>1
<1> QED
  BY <1>2, TypeCorrect, CountExact, PTL DEF BusyOnlyWhenWaitedOn

(* DosPostEventSem broadcasts on the change from reset to posted only, and  *)
(* that is enough: no thread goes back to sleep on a posted semaphore.      *)
THEOREM NobodySleepsWhilePosted == Spec => []NoSleeperWhilePosted
<1>1. Init => NoSleeperWhilePosted
  BY DEF Init, NoSleeperWhilePosted
<1>2. TypeOK /\ NoSleeperWhilePosted /\ [Next]_vars => NoSleeperWhilePosted'
  <2> SUFFICES ASSUME TypeOK, NoSleeperWhilePosted, [Next]_vars PROVE NoSleeperWhilePosted'
    OBVIOUS
  <2> USE DEF TypeOK, NoSleeperWhilePosted
  <2>1. CASE UNCHANGED vars
    BY <2>1 DEF vars
  <2>2. ASSUME NEW t \in Thread, NEW state \in {0, 1}, DosCreateEventSem(t, state)
        PROVE  NoSleeperWhilePosted'
    BY <2>2 DEF DosCreateEventSem
  <2>3. ASSUME NEW t \in Thread, DosResetEventSem(t) \/ WaitImmediate(t) \/ DeadlinePasses(t)
        PROVE  NoSleeperWhilePosted'
    BY <2>3 DEF DosResetEventSem, WaitImmediate, DeadlinePasses
  <2>4. ASSUME NEW t \in Thread, DosPostEventSem(t) PROVE NoSleeperWhilePosted'
    BY <2>4 DEF DosPostEventSem, CanCall
  <2>5. ASSUME NEW t \in Thread, NEW limit \in BOOLEAN, WaitEnter(t, limit)
        PROVE  NoSleeperWhilePosted'
    BY <2>5 DEF WaitEnter
  <2>6. ASSUME NEW t \in Thread, TimedWaitEnds(t) \/ SpuriousWakeup(t) PROVE NoSleeperWhilePosted'
    BY <2>6 DEF TimedWaitEnds, SpuriousWakeup, Wake
  <2>7. ASSUME NEW t \in Thread, WaitContinue(t) PROVE NoSleeperWhilePosted'
    BY <2>7 DEF WaitContinue
  <2>8. ASSUME NEW t \in Thread, CloseLook(t) \/ CloseDestroy(t) PROVE NoSleeperWhilePosted'
    BY <2>8 DEF CloseLook, CloseDestroy
  <2> QED
    BY <2>1, <2>2, <2>3, <2>4, <2>5, <2>6, <2>7, <2>8 DEF Next
<1> QED
  BY <1>1, <1>2, TypeCorrect, PTL DEF Spec

(* Both, for any number of threads that create, post, reset, wait for and   *)
(* close the semaphore.                                                     *)
THEOREM WaitersAccounted == Spec => []WaitersAccountedFor
<1>1. WaitCountExact /\ NoSleeperWhilePosted => WaitersAccountedFor
  BY DEF WaitersAccountedFor
<1> QED
  BY <1>1, CountExact, NobodySleepsWhilePosted, PTL

-----------------------------------------------------------------------------
(* What the refinement needs: only a waiting thread has a deadline, only a  *)
(* deadline can have been missed, one thread at most is inside              *)
(* DosCloseEventSem, and a sound semaphore that is being closed, or is      *)
(* closed, has no waiting thread.                                           *)
CloseInv ==
    /\ \A t \in Thread : timed[t] => t \in Waiters
    /\ \A t \in Thread : expired[t] \/ cause[t] = "timeout" => timed[t]
    /\ \A t, u \in Thread : pc[t] = "closing" /\ pc[u] = "closing" => t = u
    /\ \A t \in Thread : pc[t] = "closing" => live /\ (waiting0 = 0 => Waiters = {})
    /\ ~live /\ waiting0 = 0 => Waiters = {}

(* A program that starts no call on a semaphore one of its threads is       *)
(* closing keeps CloseInv: the count DosCloseEventSem looked at stays zero. *)
LEMMA CloseInvKept ==
    ASSUME LateCalls = FALSE, TypeOK, WaitCountExact, CloseInv, [Next]_vars
    PROVE  CloseInv'
<1> USE DEF TypeOK, CloseInv, Waiters
<1>1. CASE UNCHANGED vars
  BY <1>1 DEF vars
<1>2. ASSUME NEW t \in Thread, NEW state \in {0, 1}, DosCreateEventSem(t, state) PROVE CloseInv'
  BY <1>2 DEF DosCreateEventSem
<1>3. ASSUME NEW t \in Thread, DosResetEventSem(t) \/ WaitImmediate(t) PROVE CloseInv'
  BY <1>3 DEF DosResetEventSem, WaitImmediate
<1>4. ASSUME NEW t \in Thread, DosPostEventSem(t) PROVE CloseInv'
  BY <1>4 DEF DosPostEventSem, CanCall
<1>5. ASSUME NEW t \in Thread, NEW limit \in BOOLEAN, WaitEnter(t, limit) PROVE CloseInv'
  BY <1>5 DEF WaitEnter, CanCall
<1>6. ASSUME NEW t \in Thread, DeadlinePasses(t) PROVE CloseInv'
  BY <1>6 DEF DeadlinePasses
<1>7. ASSUME NEW t \in Thread, TimedWaitEnds(t) \/ SpuriousWakeup(t) PROVE CloseInv'
  BY <1>7 DEF TimedWaitEnds, SpuriousWakeup, Wake
<1>8. ASSUME NEW t \in Thread, WaitContinue(t) PROVE CloseInv'
  BY <1>8 DEF WaitContinue
<1>9. ASSUME NEW t \in Thread, CloseLook(t) PROVE CloseInv'
  <2>1. live /\ \A u \in Thread : pc[u] # "closing"
    BY <1>9 DEF CloseLook, CanCall
  <2>2. waiting <= 0 /\ waiting0 = 0 => Waiters = {}
    BY <2>1, WaitersCounted DEF WaitCountExact
  <2> QED
    BY <1>9, <2>1, <2>2 DEF CloseLook, CanCall
<1>10. ASSUME NEW t \in Thread, CloseDestroy(t) PROVE CloseInv'
  BY <1>10 DEF CloseDestroy
<1> QED
  BY <1>1, <1>2, <1>3, <1>4, <1>5, <1>6, <1>7, <1>8, <1>9, <1>10 DEF Next

(* Every step of the code is a step of EventSemSpec, or one it cannot see. *)
LEMMA StepImplements ==
    ASSUME LateCalls = FALSE, TypeOK, WaitCountExact, CloseInv, [Next]_vars
    PROVE  [Promise!SNext]_(Promise!svars)
<1> DEFINE limited == {t \in Thread : timed[t]}
<1> USE DEF Promise!svars
<1>1. CASE UNCHANGED vars
  BY <1>1 DEF vars, Waiters
<1>2. ASSUME NEW t \in Thread, NEW state \in {0, 1}, DosCreateEventSem(t, state)
      PROVE  Promise!SCreate(t, state)
  <2>1. Waiters = {} /\ Waiters' = {}
    BY <1>2, WaitersChange
  <2> QED
    BY <1>2, <2>1 DEF DosCreateEventSem, Promise!SCreate
<1>3. ASSUME NEW t \in Thread, DosResetEventSem(t) PROVE Promise!SReset(t)
  BY <1>3, WaitersChange DEF DosResetEventSem, CanCall, Promise!SReset
<1>4. ASSUME NEW t \in Thread, DosPostEventSem(t) PROVE Promise!SPost(t)
  BY <1>4, WaitersChange DEF DosPostEventSem, CanCall, Promise!SPost
<1>5. ASSUME NEW t \in Thread, WaitImmediate(t) PROVE Promise!SReturn(t) \/ Promise!STimeout(t)
  <2>1. t \notin Waiters /\ Waiters' = Waiters /\ ~timed[t]
    BY <1>5, WaitersChange DEF WaitImmediate, CanCall, Waiters, CloseInv
  <2> QED
    BY <1>5, <2>1 DEF WaitImmediate, CanCall, TypeOK, Promise!SReturn, Promise!STimeout
<1>6. ASSUME NEW t \in Thread, NEW limit \in BOOLEAN, WaitEnter(t, limit)
      PROVE  Promise!SReturn(t) \/ Promise!SEnter(t, limit)
  <2>1. t \notin Waiters /\ ~timed[t] /\ live
    BY <1>6 DEF WaitEnter, CanCall, Waiters, CloseInv
  <2>2. CASE posted = 1
    BY <1>6, <2>1, <2>2, WaitersChange DEF WaitEnter, Promise!SReturn
  <2>3. CASE posted # 1
    <3>1. Waiters' = Waiters \cup {t}
      BY <1>6, <2>3, WaitersChange
    <3>2. limited' = IF limit THEN limited \cup {t} ELSE limited
      BY <1>6, <2>1, <2>3 DEF WaitEnter, TypeOK
    <3> QED
      BY <1>6, <2>1, <2>3, <3>1, <3>2 DEF WaitEnter, Promise!SEnter
  <2> QED
    BY <2>2, <2>3
<1>7. ASSUME NEW t \in Thread, DeadlinePasses(t) \/ TimedWaitEnds(t) \/ SpuriousWakeup(t)
      PROVE  UNCHANGED Promise!svars
  BY <1>7, WaitersChange DEF DeadlinePasses, TimedWaitEnds, SpuriousWakeup, Wake
<1>8. ASSUME NEW t \in Thread, WaitContinue(t)
      PROVE  Promise!SReturn(t) \/ Promise!STimeout(t) \/ UNCHANGED Promise!svars
  <2>1. /\ t \in Waiters
        /\ Waiters' = IF posted = 1 \/ cause[t] = "timeout" THEN Waiters \ {t} ELSE Waiters
    BY <1>8, WaitersChange
  <2>2. waiting0 = 0 => live
    BY <2>1 DEF CloseInv, TypeOK
  <2>3. CASE posted = 1 \/ cause[t] = "timeout"
    <3>1. limited' = limited \ {t}
      BY <1>8, <2>3 DEF WaitContinue, TypeOK
    <3>2. cause[t] = "timeout" => t \in limited
      BY DEF CloseInv
    <3> QED
      BY <1>8, <2>1, <2>2, <2>3, <3>1, <3>2
      DEF WaitContinue, TypeOK, Promise!SReturn, Promise!STimeout
  <2>4. CASE ~(posted = 1 \/ cause[t] = "timeout")
    BY <1>8, <2>1, <2>4 DEF WaitContinue
  <2> QED
    BY <2>3, <2>4
<1>9. ASSUME NEW t \in Thread, CloseLook(t)
      PROVE  Promise!SBusy(t) \/ UNCHANGED Promise!svars
  <2>1. Waiters' = Waiters /\ live
    BY <1>9, WaitersChange DEF CloseLook, CanCall
  <2>2. waiting > 0 /\ waiting0 = 0 => Waiters # {}
    BY <2>1, WaitersCounted DEF WaitCountExact, TypeOK
  <2> QED
    BY <1>9, <2>1, <2>2 DEF CloseLook, Promise!SBusy
<1>10. ASSUME NEW t \in Thread, CloseDestroy(t) PROVE Promise!SClose(t)
  BY <1>10, WaitersChange DEF CloseDestroy, CloseInv, Promise!SClose
<1> QED
  BY <1>1, <1>2, <1>3, <1>4, <1>5, <1>6, <1>7, <1>8, <1>9, <1>10 DEF Next, Promise!SNext

(* In a program that starts no call while one of its threads is inside      *)
(* DosCloseEventSem, the code keeps every promise of EventSemSpec: a sound  *)
(* semaphore is refused to DosCloseEventSem exactly while a thread waits,   *)
(* is never freed under a waiting thread, and a wait returns NO_ERROR only  *)
(* at a moment the semaphore is posted.                                     *)
THEOREM Implements ==
    ASSUME LateCalls = FALSE
    PROVE  Spec => ImplementsEventSemSpec
<1>1. Init => CloseInv
  BY DEF Init, CloseInv, Waiters
<1>2. Init => Promise!SInit
  BY DEF Init, Waiters, Promise!SInit
<1>3. TypeOK /\ WaitCountExact /\ CloseInv /\ [Next]_vars => CloseInv'
  BY CloseInvKept
<1>4. TypeOK /\ WaitCountExact /\ CloseInv /\ [Next]_vars => [Promise!SNext]_(Promise!svars)
  BY StepImplements
<1> QED
  BY <1>1, <1>2, <1>3, <1>4, TypeCorrect, CountExact, PTL
  DEF Spec, ImplementsEventSemSpec, Promise!EventSemSpec
=============================================================================
