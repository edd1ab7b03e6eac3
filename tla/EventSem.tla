------------------------------ MODULE EventSem ------------------------------
(***************************************************************************)
(* The event semaphores of native/doscalls.c: DosCreateEventSem,            *)
(* DosPostEventSem, DosResetEventSem, DosWaitEventSem and DosCloseEventSem  *)
(* on one semaphore, called by any number of threads.                       *)
(*                                                                          *)
(* A critical section under sem->mutex that does not block is one action.   *)
(* pthread_cond_wait splits DosWaitEventSem in three: the thread enters and *)
(* goes to sleep, is woken (by a broadcast, by the clock, or for no reason),*)
(* and goes on once it has the mutex again.  DosCloseEventSem looks at the  *)
(* count under the mutex and destroys the semaphore later, without it.      *)
(***************************************************************************)
EXTENDS Integers, FiniteSets

CONSTANTS Thread,     \* threads of the OS/2 program
          Garbage,    \* values malloc leaves in sem->waiting, never set by Create
          LateCalls   \* may a call begin while another thread is inside Close?

ASSUME ThreadAssumption == IsFiniteSet(Thread)
ASSUME GarbageAssumption == Garbage \subseteq Int
ASSUME LateCallsAssumption == LateCalls \in BOOLEAN

VARIABLES live,       \* the structure is allocated
          posted,     \* sem->posted
          waiting,    \* sem->waiting
          waiting0,   \* ghost: what sem->waiting was when it was created
          pc,         \* where each thread is
          timed,      \* the thread waits for a number of milliseconds
          expired,    \* its deadline, an absolute time, has passed
          cause,      \* what woke it
          ret         \* the call that returned last

vars == <<live, posted, waiting, waiting0, pc, timed, expired, cause, ret>>

Cause == {"none", "broadcast", "spurious", "timeout"}

TypeOK ==
    /\ live \in BOOLEAN
    /\ posted \in {0, 1}
    /\ waiting \in Int /\ waiting0 \in Int
    /\ pc \in [Thread -> {"idle", "blocked", "woken", "closing"}]
    /\ timed \in [Thread -> BOOLEAN]
    /\ expired \in [Thread -> BOOLEAN]
    /\ cause \in [Thread -> Cause]

(* Threads inside DosWaitEventSem after sem->waiting++. *)
Waiters == {t \in Thread : pc[t] \in {"blocked", "woken"}}

Init ==
    /\ live = FALSE /\ posted = 0 /\ waiting = 0 /\ waiting0 = 0
    /\ pc = [t \in Thread |-> "idle"]
    /\ timed = [t \in Thread |-> FALSE]
    /\ expired = [t \in Thread |-> FALSE]
    /\ cause = [t \in Thread |-> "none"]
    /\ ret = <<>>

(* A thread outside the API may call it while the handle is good.  A sound  *)
(* program starts no call once it has decided to close the semaphore.       *)
CanCall(t) ==
    /\ live /\ pc[t] = "idle"
    /\ LateCalls \/ \A u \in Thread : pc[u] # "closing"

-----------------------------------------------------------------------------
(* malloc, then only posted is assigned: waiting keeps what was there. *)
DosCreateEventSem(t, state) ==
    /\ ~live /\ \A u \in Thread : pc[u] = "idle"
    /\ live' = TRUE
    /\ posted' = state
    /\ waiting' \in Garbage
    /\ waiting0' = waiting'
    /\ ret' = <<t, "create", "NO_ERROR">>
    /\ UNCHANGED <<pc, timed, expired, cause>>

DosResetEventSem(t) ==
    /\ CanCall(t)
    /\ posted' = 0
    /\ ret' = <<t, "reset", IF posted = 0 THEN "ERROR_ALREADY_RESET" ELSE "NO_ERROR">>
    /\ UNCHANGED <<live, waiting, waiting0, pc, timed, expired, cause>>

PostSignalsOne(t) ==
    /\ CanCall(t) /\ posted = 0
    /\ posted' = 1
    /\ \E u \in Thread :
          /\ pc[u] = "blocked"
          /\ pc' = [pc EXCEPT ![u] = "woken"]
          /\ cause' = [cause EXCEPT ![u] = "broadcast"]
    /\ ret' = <<t, "post", "NO_ERROR">>
    /\ UNCHANGED <<live, waiting, waiting0, timed, expired>>

(* pthread_cond_broadcast wakes every sleeping thread, and only on the      *)
(* change from reset to posted.                                             *)
DosPostEventSem(t) ==
    /\ CanCall(t)
    /\ posted' = 1
    /\ IF posted = 1
         THEN /\ ret' = <<t, "post", "ERROR_ALREADY_POSTED">>
              /\ UNCHANGED <<pc, cause>>
         ELSE /\ ret' = <<t, "post", "NO_ERROR">>
              /\ pc' = [u \in Thread |-> IF pc[u] = "blocked" THEN "woken" ELSE pc[u]]
              /\ cause' = [u \in Thread |-> IF pc[u] = "blocked" THEN "broadcast" ELSE cause[u]]
    /\ UNCHANGED <<live, waiting, waiting0, timed, expired>>

(* SEM_IMMEDIATE_RETURN: a look at posted, no count kept. *)
WaitImmediate(t) ==
    /\ CanCall(t)
    /\ ret' = <<t, "wait", IF posted = 1 THEN "NO_ERROR" ELSE "ERROR_TIMEOUT">>
    /\ UNCHANGED <<live, posted, waiting, waiting0, pc, timed, expired, cause>>

(* Entering either loop: waiting++, and, when the semaphore is posted,      *)
(* waiting-- and out again without giving the mutex up.                     *)
WaitEnter(t, limit) ==
    /\ CanCall(t)
    /\ IF posted = 1
         THEN /\ ret' = <<t, "wait", "NO_ERROR">>
              /\ UNCHANGED <<waiting, pc, timed, expired, cause>>
         ELSE /\ waiting' = waiting + 1
              /\ pc' = [pc EXCEPT ![t] = "blocked"]
              /\ timed' = [timed EXCEPT ![t] = limit]
              /\ expired' = [expired EXCEPT ![t] = FALSE]
              /\ cause' = [cause EXCEPT ![t] = "none"]
              /\ UNCHANGED ret
    /\ UNCHANGED <<live, posted, waiting0>>

(* The clock passes the deadline computed before the loop. *)
DeadlinePasses(t) ==
    /\ pc[t] \in {"blocked", "woken"} /\ timed[t] /\ ~expired[t]
    /\ expired' = [expired EXCEPT ![t] = TRUE]
    /\ UNCHANGED <<live, posted, waiting, waiting0, pc, timed, cause, ret>>

Wake(t, why) ==
    /\ pc[t] = "blocked"
    /\ pc' = [pc EXCEPT ![t] = "woken"]
    /\ cause' = [cause EXCEPT ![t] = why]
    /\ UNCHANGED <<live, posted, waiting, waiting0, timed, expired, ret>>

TimedWaitEnds(t) == expired[t] /\ Wake(t, "timeout")

SpuriousWakeup(t) == ~expired[t] /\ Wake(t, "spurious")

(* The mutex is ours again.  Posted, or out of time: waiting-- and return.  *)
(* Otherwise back to the condition variable, which gives the mutex up and,  *)
(* when the deadline has passed, times out at once.                         *)
ContinueForgetsTheCount(t) ==
    /\ pc[t] = "woken"
    /\ posted = 1 \/ cause[t] = "timeout"
    /\ ret' = <<t, "wait", IF posted = 1 THEN "NO_ERROR" ELSE "ERROR_TIMEOUT">>
    /\ pc' = [pc EXCEPT ![t] = "idle"]
    /\ UNCHANGED <<live, posted, waiting, waiting0, timed, expired, cause>>

ContinueNewDeadline(t) ==
    /\ pc[t] = "woken" /\ posted = 0
    /\ expired' = [expired EXCEPT ![t] = FALSE]
    /\ pc' = [pc EXCEPT ![t] = "blocked"]
    /\ UNCHANGED <<live, posted, waiting, waiting0, timed, cause, ret>>

WaitContinue(t) ==
    /\ pc[t] = "woken"
    /\ IF posted = 1 \/ cause[t] = "timeout"
         THEN /\ waiting' = waiting - 1
              /\ ret' = <<t, "wait", IF posted = 1 THEN "NO_ERROR" ELSE "ERROR_TIMEOUT">>
              /\ pc' = [pc EXCEPT ![t] = "idle"]
              /\ timed' = [timed EXCEPT ![t] = FALSE]
              /\ expired' = [expired EXCEPT ![t] = FALSE]
              /\ cause' = [cause EXCEPT ![t] = "none"]
         ELSE /\ pc' = [pc EXCEPT ![t] = IF expired[t] THEN "woken" ELSE "blocked"]
              /\ cause' = [cause EXCEPT ![t] = IF expired[t] THEN "timeout" ELSE "none"]
              /\ UNCHANGED <<waiting, ret, timed, expired>>
    /\ UNCHANGED <<live, posted, waiting0>>

CloseWithoutLooking(t) ==
    /\ CanCall(t)
    /\ pc' = [pc EXCEPT ![t] = "closing"]
    /\ UNCHANGED <<live, posted, waiting, waiting0, timed, expired, cause, ret>>

(* Close, under the mutex: is anybody waiting? *)
CloseLook(t) ==
    /\ CanCall(t)
    /\ IF waiting > 0
         THEN /\ ret' = <<t, "close", "ERROR_SEM_BUSY">>
              /\ UNCHANGED pc
         ELSE /\ pc' = [pc EXCEPT ![t] = "closing"]
              /\ UNCHANGED ret
    /\ UNCHANGED <<live, posted, waiting, waiting0, timed, expired, cause>>

(* Close, without the mutex: destroy and free. *)
CloseDestroy(t) ==
    /\ pc[t] = "closing"
    /\ live' = FALSE
    /\ pc' = [pc EXCEPT ![t] = "idle"]
    /\ ret' = <<t, "close", "NO_ERROR">>
    /\ UNCHANGED <<posted, waiting, waiting0, timed, expired, cause>>

-----------------------------------------------------------------------------
Next ==
    \E t \in Thread :
        \/ \E state \in {0, 1} : DosCreateEventSem(t, state)
        \/ DosResetEventSem(t)
        \/ DosPostEventSem(t)
        \/ WaitImmediate(t)
        \/ \E limit \in BOOLEAN : WaitEnter(t, limit)
        \/ DeadlinePasses(t)
        \/ TimedWaitEnds(t)
        \/ SpuriousWakeup(t)
        \/ WaitContinue(t)
        \/ CloseLook(t)
        \/ CloseDestroy(t)

Spec == Init /\ [][Next]_vars

(* The clock advances, a timed wait past its deadline returns, and a woken  *)
(* thread gets the mutex: nobody keeps it, every critical section is a few  *)
(* instructions long.  Nothing makes a program post, reset or close.        *)
Fairness ==
    \A t \in Thread :
        WF_vars(DeadlinePasses(t)) /\ WF_vars(TimedWaitEnds(t)) /\ WF_vars(WaitContinue(t))

FairSpec == Spec /\ Fairness

-----------------------------------------------------------------------------
(* Properties *)

(* sem->waiting counts the threads inside DosWaitEventSem, on top of the    *)
(* value DosCreateEventSem found in memory: every path out of the two loops *)
(* takes back the increment made on the way in.                             *)
WaitCountExact == live => waiting = waiting0 + Cardinality(Waiters)

(* DosPostEventSem wakes everybody: while the semaphore is posted nobody    *)
(* sleeps on the condition variable without having been woken.              *)
NoSleeperWhilePosted == (live /\ posted = 1) => \A t \in Thread : pc[t] # "blocked"

(* Nobody who waits is forgotten: not in the count, not on the condition.   *)
WaitersAccountedFor == WaitCountExact /\ NoSleeperWhilePosted

(* DosCloseEventSem refuses with ERROR_SEM_BUSY only when somebody waits,   *)
(* unless malloc left a positive value in sem->waiting.                     *)
BusyOnlyWhenWaitedOn ==
    [][\A t \in Thread : CloseLook(t) /\ pc'[t] = "idle" /\ waiting0 <= 0 => Waiters # {}]_vars

(* A post that is not taken back releases every thread that waits, whatever *)
(* the other threads do.                                                    *)
PostReleasesWaiters ==
    \A t \in Thread : (t \in Waiters /\ posted = 1 /\ live) ~> (t \notin Waiters \/ posted = 0 \/ ~live)

(* A wait for X milliseconds comes back: wakeups that find nothing posted   *)
(* do not push the deadline, which DosWaitEventSem computes once.           *)
TimedWaitReturns ==
    \A t \in Thread : (t \in Waiters /\ timed[t]) ~> (t \notin Waiters)

(* The semaphore does what EventSemSpec promises; it is sound when malloc   *)
(* handed out its memory with a zero in sem->waiting.                       *)
Promise == INSTANCE EventSemSpec
             WITH exists <- live, sound <- (waiting0 = 0), waiters <- Waiters, limited <- {t \in Thread : timed[t]}
ImplementsEventSemSpec == Promise!EventSemSpec
=============================================================================
