-------------------------------- MODULE Locks --------------------------------
(***************************************************************************)
(* A mutex semaphore (DosRequestMutexSem, DosReleaseMutexSem and            *)
(* DosCloseMutexSem over a robust, recursive pthread mutex) and a RAM       *)
(* semaphore (DosSemRequest, DosSemClear, DosSemWait and DosSemSet over one *)
(* word of the program's memory), in native/doscalls.c.                     *)
(*                                                                          *)
(* pthread_mutex_destroy of a held mutex may or may not answer EBUSY; a     *)
(* closed mutex is used no more.                                            *)
(***************************************************************************)
EXTENDS Callers, Naturals

CONSTANT MaxNest      \* bound on recursive requests

VARIABLES mutex,      \* [owner, count, health]
          holds,      \* thread -> requests it was granted and has not released
          waiting,    \* thread -> the call it is in: [call, timed]
          alive,      \* threads that have not ended
          word,       \* the RAM semaphore, 0 or 1
          entered,    \* threads granted the RAM semaphore and not past DosSemClear
          signalled   \* the RAM semaphore was used to signal, or cleared by another thread

lockVars == <<mutex, holds, waiting, alive, word, entered, signalled>>

Idle == [call |-> "none", timed |-> FALSE]

(* DosCreateMutexSem, by a thread that may own it from the start.           *)
LockInit ==
    /\ \E t \in Thread \cup {Null} :
           /\ mutex = [owner |-> t, count |-> IF t = Null THEN 0 ELSE 1, health |-> "ok"]
           /\ holds = [u \in Thread |-> IF u = t THEN 1 ELSE 0]
    /\ waiting = [t \in Thread |-> Idle]
    /\ alive = Thread
    /\ word = 0
    /\ entered = {} /\ signalled = FALSE

Calls(t, call) ==
    /\ t \in alive /\ waiting[t] = Idle
    /\ \E timed \in BOOLEAN : waiting' = [waiting EXCEPT ![t] = [call |-> call, timed |-> timed]]

Done(t) == waiting' = [waiting EXCEPT ![t] = Idle]

-----------------------------------------------------------------------------
(* DosRequestMutexSem; a request that returns at once is a timed one.       *)
DosRequestMutexSem(t) ==
    /\ mutex.health # "closed"
    /\ mutex.owner = t => mutex.count < MaxNest
    /\ Calls(t, "request")
    /\ UNCHANGED <<mutex, holds, alive, word, entered, signalled>>

(* pthread_mutex_lock: NO_ERROR, or ERROR_SEM_OWNER_DIED from a dead owner. *)
GrantToLivingOnly(t) ==
    /\ waiting[t].call = "request"
    /\ mutex.owner \in {Null, t}
    /\ mutex.health \notin {"unrecoverable", "closed"}
    /\ mutex' = [mutex EXCEPT !.owner = t, !.count = @ + 1]
    /\ holds' = [holds EXCEPT ![t] = @ + 1]
    /\ Done(t)
    /\ UNCHANGED <<alive, word, entered, signalled>>

Grant(t) ==
    /\ waiting[t].call = "request"
    /\ mutex.owner \in {Null, t} \cup (Thread \ alive)
    /\ mutex.health \notin {"unrecoverable", "closed"}
    /\ mutex' = IF mutex.owner \in {Null, t} THEN [mutex EXCEPT !.owner = t, !.count = @ + 1]
                ELSE [owner |-> t, count |-> 1, health |-> "inconsistent"]
    /\ holds' = [holds EXCEPT ![t] = @ + 1]
    /\ Done(t)
    /\ UNCHANGED <<alive, word, entered, signalled>>

(* ERROR_TIMEOUT; ERROR_INVALID_HANDLE once the mutex has become unusable.  *)
Refuse(t) ==
    /\ waiting[t].call = "request"
    /\ waiting[t].timed \/ mutex.health = "unrecoverable"
    /\ Done(t)
    /\ UNCHANGED <<mutex, holds, alive, word, entered, signalled>>

(* DosReleaseMutexSem: nothing is ever made consistent again, so a mutex    *)
(* whose owner died is of no use after its next owner.                      *)
ReleaseAnyones(t) ==
    /\ t \in alive /\ waiting[t] = Idle /\ mutex.owner # Null /\ mutex.health # "closed"
    /\ mutex' = [owner |-> IF mutex.count = 1 THEN Null ELSE mutex.owner, count |-> mutex.count - 1,
                 health |-> mutex.health]
    /\ holds' = [holds EXCEPT ![t] = IF @ = 0 THEN 0 ELSE @ - 1]
    /\ UNCHANGED <<waiting, alive, word, entered, signalled>>

DosReleaseMutexSem(t) ==
    /\ t \in alive /\ waiting[t] = Idle
    /\ mutex.owner = t /\ mutex.health # "closed"      \* else ERROR_NOT_OWNER
    /\ mutex' = [owner  |-> IF mutex.count = 1 THEN Null ELSE t,
                 count  |-> mutex.count - 1,
                 health |-> IF mutex.count = 1 /\ mutex.health = "inconsistent" THEN "unrecoverable"
                            ELSE mutex.health]
    /\ holds' = [holds EXCEPT ![t] = @ - 1]
    /\ UNCHANGED <<waiting, alive, word, entered, signalled>>

(* DosCloseMutexSem, when no thread is in a request.                        *)
DosCloseMutexSem(t) ==
    /\ t \in alive /\ waiting[t] = Idle
    /\ \A u \in Thread : waiting[u].call # "request"
    /\ mutex' = [owner |-> Null, count |-> 0, health |-> "closed"]
    /\ holds' = [u \in Thread |-> 0]
    /\ UNCHANGED <<waiting, alive, word, entered, signalled>>

(* A thread ends, whatever it holds.                                        *)
ThreadEnds(t) ==
    /\ t \in alive /\ waiting[t] = Idle
    /\ alive' = alive \ {t}
    /\ UNCHANGED <<mutex, holds, waiting, word, entered, signalled>>

-----------------------------------------------------------------------------
(* DosSemRequest and DosSemWait: each turn of either loop tries to take the *)
(* word from 0 to 1, so that a wait takes the semaphore too.                *)
DosSemRequest(t) == Calls(t, "sem") /\ UNCHANGED <<mutex, holds, alive, word, entered, signalled>>

DosSemWait(t) == Calls(t, "semwait") /\ UNCHANGED <<mutex, holds, alive, word, entered, signalled>>

TrySem(t) ==
    /\ waiting[t].call \in {"sem", "semwait"}
    /\ word = 0 \/ waiting[t].timed                     \* else it sleeps and tries again
    /\ word' = 1
    /\ entered' = IF word = 0 THEN entered \cup {t} ELSE entered
    /\ Done(t)
    /\ UNCHANGED <<mutex, holds, alive, signalled>>

(* DosSemClear; DosSemSet, which takes a 1 to 0 like it.                    *)
DosSemClear(t) ==
    /\ t \in alive /\ waiting[t] = Idle
    /\ word' = 0
    /\ entered' = entered \ {t}
    /\ signalled' = (signalled \/ t \notin entered)
    /\ UNCHANGED <<mutex, holds, waiting, alive>>

DosSemSet(t) ==
    /\ t \in alive /\ waiting[t] = Idle
    /\ word' = 0
    /\ signalled' = TRUE
    /\ UNCHANGED <<mutex, holds, waiting, alive, entered>>

LockNext == \E t \in Thread :
    \/ DosRequestMutexSem(t) \/ Grant(t) \/ Refuse(t) \/ DosReleaseMutexSem(t) \/ DosCloseMutexSem(t)
    \/ ThreadEnds(t)
    \/ DosSemRequest(t) \/ DosSemWait(t) \/ TrySem(t) \/ DosSemClear(t) \/ DosSemSet(t)

LockSpec == LockInit /\ [][LockNext]_lockVars

-----------------------------------------------------------------------------
(* Only one living thread at a time has the mutex, and it has to release it *)
(* as often as it was granted it, through nested requests, time-outs and    *)
(* the deaths of owners; only one has a RAM semaphore that every thread     *)
(* clears only after it was granted it and nobody uses to signal.           *)
LocksExclude ==
    /\ \A t \in alive : holds[t] > 0 => mutex.owner = t /\ mutex.count = holds[t]
    /\ ~signalled => \A t, u \in entered : t = u

(* A thread that waits for a mutex whose owner has died does not wait for   *)
(* the dead: it, or another that waits, gets the mutex.                     *)
OwnersDeathIsNoticed ==
    \A t \in Thread :
        waiting[t].call = "request" /\ mutex.owner \in Thread \ alive
            ~> waiting[t].call # "request" \/ mutex.owner \in alive
=============================================================================
