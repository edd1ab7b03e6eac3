---------------------------- MODULE EventSemSpec ----------------------------
(***************************************************************************)
(* What an OS/2 event semaphore promises to the program, with no word about *)
(* mutexes, condition variables or counters: a wait returns NO_ERROR only   *)
(* at a moment the semaphore is posted, ERROR_TIMEOUT only when the caller  *)
(* set a limit, and the semaphore does not go away under a waiting thread.  *)
(* The last promise is kept only by a semaphore that was born sound.        *)
(***************************************************************************)
EXTENDS Naturals, FiniteSets

CONSTANT Thread

VARIABLES exists,     \* is there a semaphore?
          sound,      \* does closing it tell waiting threads from none?
          posted,     \* 1 when it is posted
          waiters,    \* threads inside DosWaitEventSem
          limited,    \* those of them that gave a time limit
          ret         \* the call that returned last: <<thread, call, result>>

svars == <<exists, sound, posted, waiters, limited, ret>>

SInit == exists = FALSE /\ sound \in BOOLEAN /\ posted = 0 /\ waiters = {} /\ limited = {} /\ ret = <<>>

SCreate(t, state) ==
    /\ ~exists /\ waiters = {}
    /\ exists' = TRUE /\ sound' \in BOOLEAN /\ posted' = state
    /\ UNCHANGED <<waiters, limited>>
    /\ ret' = <<t, "create", "NO_ERROR">>

SPost(t) ==
    /\ exists
    /\ posted' = 1
    /\ ret' = <<t, "post", IF posted = 1 THEN "ERROR_ALREADY_POSTED" ELSE "NO_ERROR">>
    /\ UNCHANGED <<exists, sound, waiters, limited>>

SReset(t) ==
    /\ exists
    /\ posted' = 0
    /\ ret' = <<t, "reset", IF posted = 0 THEN "ERROR_ALREADY_RESET" ELSE "NO_ERROR">>
    /\ UNCHANGED <<exists, sound, waiters, limited>>

SEnter(t, limit) ==
    /\ exists /\ t \notin waiters
    /\ waiters' = waiters \cup {t}
    /\ limited' = IF limit THEN limited \cup {t} ELSE limited
    /\ UNCHANGED <<exists, sound, posted, ret>>

SReturn(t) ==
    /\ sound => exists
    /\ posted = 1
    /\ waiters' = waiters \ {t}
    /\ limited' = limited \ {t}
    /\ ret' = <<t, "wait", "NO_ERROR">>
    /\ UNCHANGED <<exists, sound, posted>>

(* A thread not in waiters looks at the semaphore without waiting at all. *)
STimeout(t) ==
    /\ sound => exists
    /\ posted = 0
    /\ t \in waiters => t \in limited
    /\ waiters' = waiters \ {t}
    /\ limited' = limited \ {t}
    /\ ret' = <<t, "wait", "ERROR_TIMEOUT">>
    /\ UNCHANGED <<exists, sound, posted>>

SClose(t) ==
    /\ exists /\ (sound => waiters = {})
    /\ exists' = FALSE
    /\ ret' = <<t, "close", "NO_ERROR">>
    /\ UNCHANGED <<sound, posted, waiters, limited>>

SBusy(t) ==
    /\ exists /\ (sound => waiters # {})
    /\ ret' = <<t, "close", "ERROR_SEM_BUSY">>
    /\ UNCHANGED <<exists, sound, posted, waiters, limited>>

SNext ==
    \E t \in Thread :
        \/ \E state \in {0, 1} : SCreate(t, state)
        \/ \E limit \in BOOLEAN : SEnter(t, limit)
        \/ SPost(t) \/ SReset(t) \/ SReturn(t) \/ STimeout(t)
        \/ SClose(t) \/ SBusy(t)

EventSemSpec == SInit /\ [][SNext]_svars
=============================================================================
