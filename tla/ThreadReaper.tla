---------------------------- MODULE ThreadReaper ----------------------------
(***************************************************************************)
(* Threads and how they are reaped, in native/doscalls.c: DosCreateThread,  *)
(* the end of a thread (os2ThreadCleanup, then the pthread is gone) and     *)
(* DosWaitThread, which waits for one thread or for any.                    *)
(*                                                                          *)
(* A thread that ends puts its Thread structure on the list GDeadThreads.   *)
(* DosWaitThread takes it off, joins the pthread and frees the structure.   *)
(* A structure is named by its address, which malloc may hand out again.    *)
(***************************************************************************)
EXTENDS Integers, FiniteSets, Callers

CONSTANTS Node,       \* addresses of Thread structures
          Programs    \* the kinds of program, see below

ASSUME NullAssumption == Null \notin Node

(* A program: the threads that wait for others, and the kinds of wait they  *)
(* make, for any thread or for one.                                         *)
ASSUME ProgramsAssumption ==
    Programs \subseteq [callers : SUBSET Thread, waits : SUBSET {"any", "one"}]

VARIABLES program,
          state,      \* free memory, or a thread that runs, is on its way out, is gone
          prev, next, \* links of the structures
          GDeadThreads,
          pc, target, \* where DosWaitThread is in each caller, and for which structure
          asserted,   \* assert(!thread->prev) failed
          corrupt,    \* memory that was freed has been used
          ret

vars == <<program, state, prev, next, GDeadThreads, pc, target, asserted, corrupt, ret>>

Life == {"free", "running", "dying", "gone"}

TypeOK ==
    /\ program \in Programs
    /\ state \in [Node -> Life]
    /\ prev \in [Node -> Node \cup {Null}]
    /\ next \in [Node -> Node \cup {Null}]
    /\ GDeadThreads \in Node \cup {Null}
    /\ pc \in [Thread -> {"idle", "poll", "join_any", "join", "unlink"}]
    /\ target \in [Thread -> Node \cup {Null}]
    /\ asserted \in BOOLEAN /\ corrupt \in BOOLEAN

Init ==
    /\ program \in Programs
    /\ state = [n \in Node |-> "free"]
    /\ prev = [n \in Node |-> Null]
    /\ next = [n \in Node |-> Null]
    /\ GDeadThreads = Null
    /\ pc = [t \in Thread |-> "idle"]
    /\ target = [t \in Thread |-> Null]
    /\ asserted = FALSE /\ corrupt = FALSE
    /\ ret = <<>>

Sound == ~asserted /\ ~corrupt

(* Threads that ended and are on nobody's way to being freed. *)
Dead == {n \in Node : state[n] \in {"dying", "gone"}} \ {target[t] : t \in Thread}

(* Nobody waits for this thread in particular yet. *)
Unclaimed(n) == \A t \in Thread : target[t] # n

Return(t, result) ==
    /\ pc' = [pc EXCEPT ![t] = "idle"]
    /\ target' = [target EXCEPT ![t] = Null]
    /\ ret' = result

-----------------------------------------------------------------------------
(* malloc, memset, pthread_create. *)
DosCreateThread(t, n) ==
    /\ Sound /\ pc[t] = "idle" /\ state[n] = "free"
    /\ state' = [state EXCEPT ![n] = "running"]
    /\ prev' = [prev EXCEPT ![n] = Null]
    /\ next' = [next EXCEPT ![n] = Null]
    /\ ret' = <<t, "create", "NO_ERROR">>
    /\ UNCHANGED <<program, GDeadThreads, pc, target, asserted, corrupt>>

CleanupForgetsTheList(n) ==
    /\ Sound /\ state[n] = "running"
    /\ state' = [state EXCEPT ![n] = "dying"]
    /\ prev' = [prev EXCEPT ![n] = Null]
    /\ next' = [next EXCEPT ![n] = Null]
    /\ GDeadThreads' = n
    /\ UNCHANGED <<program, pc, target, asserted, corrupt, ret>>

(* The thread returns from its function or calls DosExit: it goes to the    *)
(* front of the list, whose old head does not learn of it.                  *)
os2ThreadCleanup(n) ==
    /\ Sound /\ state[n] = "running"
    /\ state' = [state EXCEPT ![n] = "dying"]
    /\ prev' = [prev EXCEPT ![n] = Null]
    /\ next' = [next EXCEPT ![n] = GDeadThreads]
    /\ GDeadThreads' = n
    /\ UNCHANGED <<program, pc, target, asserted, corrupt, ret>>

ThreadIsGone(n) ==
    /\ Sound /\ state[n] = "dying"
    /\ state' = [state EXCEPT ![n] = "gone"]
    /\ UNCHANGED <<program, prev, next, GDeadThreads, pc, target, asserted, corrupt, ret>>

-----------------------------------------------------------------------------
(* *ptid is 0: any thread. *)
WaitAny(t) ==
    /\ Sound /\ pc[t] = "idle" /\ "any" \in program.waits
    /\ pc' = [pc EXCEPT ![t] = "poll"]
    /\ UNCHANGED <<program, state, prev, next, GDeadThreads, target, asserted, corrupt, ret>>

PollLeavesTheLast(t) ==
    /\ Sound /\ pc[t] = "poll" /\ GDeadThreads # Null /\ next[GDeadThreads] # Null
    /\ target' = [target EXCEPT ![t] = GDeadThreads]
    /\ pc' = [pc EXCEPT ![t] = "join_any"]
    /\ GDeadThreads' = next[GDeadThreads]
    /\ UNCHANGED <<program, state, prev, next, asserted, corrupt, ret>>

(* One turn of the loop, under the lock: take the head of the list.  Memory *)
(* of a structure that was freed is not to be read or written.              *)
PollDeadList(t) ==
    /\ Sound /\ pc[t] = "poll" /\ GDeadThreads # Null
    /\ LET thread == GDeadThreads
           rest == next[thread]
       IN /\ target' = [target EXCEPT ![t] = thread]
          /\ pc' = [pc EXCEPT ![t] = "join_any"]
          /\ GDeadThreads' = rest
          /\ prev' = IF rest = Null THEN prev ELSE [prev EXCEPT ![rest] = Null]
          /\ asserted' = (prev'[thread] # Null)
          /\ corrupt' = (state[thread] = "free" \/ (rest # Null /\ state[rest] = "free"))
    /\ UNCHANGED <<program, state, next, ret>>

(* Nothing there: DCWW_NOWAIT gives up, DCWW_WAIT sleeps and looks again. *)
PollFindsNothing(t) ==
    /\ Sound /\ pc[t] = "poll" /\ GDeadThreads = Null
    /\ Return(t, <<t, "any", "ERROR_THREAD_NOT_TERMINATED">>)
    /\ UNCHANGED <<program, state, prev, next, GDeadThreads, asserted, corrupt>>

(* pthread_join, and free. *)
JoinAny(t) ==
    /\ Sound /\ pc[t] = "join_any"
    /\ state[target[t]] \in {"gone", "free"}
    /\ corrupt' = (state[target[t]] = "free")
    /\ state' = [state EXCEPT ![target[t]] = "free"]
    /\ Return(t, <<t, "any", "NO_ERROR">>)
    /\ UNCHANGED <<program, prev, next, GDeadThreads, asserted>>

-----------------------------------------------------------------------------
(* *ptid names a thread, which no other thread waits for. *)
WaitOne(t, n) ==
    /\ Sound /\ pc[t] = "idle" /\ "one" \in program.waits
    /\ state[n] # "free" /\ Unclaimed(n)
    /\ pc' = [pc EXCEPT ![t] = "join"]
    /\ target' = [target EXCEPT ![t] = n]
    /\ UNCHANGED <<program, state, prev, next, GDeadThreads, asserted, corrupt, ret>>

(* pthread_join, or pthread_tryjoin_np when the thread is gone. *)
JoinOne(t) ==
    /\ Sound /\ pc[t] = "join" /\ state[target[t]] \in {"gone", "free"}
    /\ corrupt' = (state[target[t]] = "free")
    /\ pc' = [pc EXCEPT ![t] = "unlink"]
    /\ UNCHANGED <<program, state, prev, next, GDeadThreads, target, asserted, ret>>

(* pthread_tryjoin_np says EBUSY: the DCWW_NOWAIT form gives up. *)
JoinBusy(t) ==
    /\ Sound /\ pc[t] = "join" /\ state[target[t]] \in {"running", "dying"}
    /\ Return(t, <<t, "one", "ERROR_THREAD_NOT_TERMINATED">>)
    /\ UNCHANGED <<program, state, prev, next, GDeadThreads, asserted, corrupt>>

(* Under the lock: out of the list, by the structure's own links; free.     *)
Unlink(t) ==
    /\ Sound /\ pc[t] = "unlink"
    /\ LET n == target[t] IN
          /\ GDeadThreads' = IF prev[n] = Null THEN next[n] ELSE GDeadThreads
          /\ next' = IF prev[n] = Null THEN next ELSE [next EXCEPT ![prev[n]] = next[n]]
          /\ prev' = IF next[n] = Null THEN prev ELSE [prev EXCEPT ![next[n]] = prev[n]]
          /\ corrupt' = \E m \in {n, prev[n], next[n]} \ {Null} : state[m] = "free"
          /\ state' = [state EXCEPT ![n] = "free"]
    /\ Return(t, <<t, "one", "NO_ERROR">>)
    /\ UNCHANGED <<program, asserted>>

-----------------------------------------------------------------------------
Next ==
    \/ \E n \in Node : os2ThreadCleanup(n) \/ ThreadIsGone(n)
    \/ \E t \in program.callers :
         \/ \E n \in Node : DosCreateThread(t, n) \/ WaitOne(t, n)
         \/ WaitAny(t) \/ PollDeadList(t) \/ PollFindsNothing(t) \/ JoinAny(t)
         \/ JoinOne(t) \/ JoinBusy(t) \/ Unlink(t)

Spec == Init /\ [][Next]_vars

-----------------------------------------------------------------------------
(* Properties *)

(* Somebody who follows the links from the head of the list stays in S.     *)
Follows(S) ==
    /\ GDeadThreads \in S \cup {Null}
    /\ \A n \in S : next[n] \in S \cup {Null}

(* What he comes to: the least such set.                                    *)
Listed == {n \in Node : \A S \in SUBSET Node : Follows(S) => n \in S}

(* Every thread that ended and is not being reaped is on the list, and      *)
(* nothing else is: no thread is forgotten, none is reaped a second time.   *)
(* This and the next hold in a program that only waits for any thread.      *)
ListIsTheDead == program.waits = {"any"} => Listed = Dead

(* DosWaitThread does not use a structure it or another caller has freed,   *)
(* and its assertion about the head of the list holds.                      *)
NothingFreedIsUsed == program.waits = {"any"} => ~corrupt /\ ~asserted

(* Two callers never reap the same thread, in a program that does not both  *)
(* wait for any thread and for one.                                         *)
ReapedOnce ==
    program.waits # {"any", "one"} =>
        \A t, u \in Thread : (t # u /\ target[t] # Null) => target[t] # target[u]

(* So is each thread reaped exactly once, and none is lost.                 *)
ReapingIsExact == ListIsTheDead /\ NothingFreedIsUsed /\ ReapedOnce

(* When every caller of the program waits for any thread and one has ended, *)
(* a caller returns.  One in particular need not: others may be faster.     *)
WaitAnyReturns ==
    LET waits(t) == pc[t] \in {"poll", "join_any"}
    IN (/\ program.waits = {"any"} /\ GDeadThreads # Null
        /\ \A t \in program.callers : waits(t)) ~> (\E t \in program.callers : ~waits(t))

(* doscalls.c:1869, "check our dead thread list for anything": a wait for   *)
(* any thread says ERROR_THREAD_NOT_TERMINATED only when none has ended.    *)
NothingDeadIsOverlooked ==
    [][\A t \in Thread : PollFindsNothing(t) => Dead = {}]_vars
=============================================================================
