------------------------------ MODULE Children ------------------------------
(***************************************************************************)
(* Child processes: DosExecPgm in its three ways and DosWaitChild, with     *)
(* their 16-bit forms (native/doscalls.c), over fork and waitpid.           *)
(*                                                                          *)
(* A pid is not used twice.  No signal handler interrupts waitpid.  How a   *)
(* program ended, and its arguments, are left out.                          *)
(***************************************************************************)
EXTENDS Callers

CONSTANT Pid          \* pids the kernel has to give

ASSUME PidAssumption == 0 \notin Pid

VARIABLES process,    \* pid -> [role, life, ours]
          calling,    \* thread -> the waitpid it is in: [op, pid]
          stolen,     \* children of a waiting DosExecPgm that DosWaitChild took
          aborted     \* assert(rc == pid) failed

childVars == <<process, calling, stolen, aborted>>

NoCall == [op |-> "none", pid |-> 0]
Unused == [life |-> "unused"]

ChildInit ==
    /\ process = [p \in Pid |-> Unused]
    /\ calling = [t \in Thread |-> NoCall]
    /\ stolen = {}
    /\ aborted = FALSE

Ours(p)   == process[p].life \in {"runs", "zombie"} /\ process[p].ours
Free      == {p \in Pid : process[p].life = "unused"}
Started(role, ours) == [role |-> role, life |-> "runs", ours |-> ours]
Ended(p) == [process[p] EXCEPT !.life = IF process[p].ours THEN "zombie" ELSE "gone"]

-----------------------------------------------------------------------------
(* DosExecPgm up to its waitpid.  A program that is not waited for at all    *)
(* is started by a child in between, whose pid is what the caller gets.     *)
DosExecPgm(t) == \E flag \in {"EXEC_SYNC", "EXEC_ASYNC", "EXEC_ASYNCRESULT"}, p \in Free :
    /\ ~aborted /\ calling[t] = NoCall
    /\ process' = [process EXCEPT ![p] =
           Started(IF flag = "EXEC_ASYNC" THEN "between" ELSE "program", TRUE)]
    /\ IF flag = "EXEC_SYNC"
       THEN calling' = [calling EXCEPT ![t] = [op |-> "exec", pid |-> p]]
       ELSE UNCHANGED calling
    /\ UNCHANGED <<stolen, aborted>>

(* The child in between forks and dies; it dies too when the fork fails.    *)
ForkAgain(p) ==
    /\ process[p].life = "runs" /\ process[p].role = "between"
    /\ \/ \E q \in Free : process' = [process EXCEPT ![p] = Ended(p), ![q] = Started("program", FALSE)]
       \/ process' = [process EXCEPT ![p] = Ended(p)]
    /\ UNCHANGED <<calling, stolen, aborted>>

(* A program ends.                                                          *)
End(p) ==
    /\ process[p].life = "runs" /\ process[p].role = "program"
    /\ process' = [process EXCEPT ![p] = Ended(p)]
    /\ UNCHANGED <<calling, stolen, aborted>>

Reap(t, p) ==
    /\ process' = [process EXCEPT ![p].life = "gone"]
    /\ calling' = [calling EXCEPT ![t] = NoCall]

(* DosExecPgm comes out of waitpid: with its child, or, when another thread *)
(* has taken that one, with ECHILD.                                         *)
ExecTakesAnyone(t) == \E p \in Pid :
    /\ ~aborted /\ calling[t].op = "exec"
    /\ process[p].life = "zombie"
    /\ Reap(t, p)
    /\ aborted' = (p # calling[t].pid)
    /\ UNCHANGED stolen

ExecReturns(t) ==
    LET p == calling[t].pid IN
    /\ ~aborted /\ calling[t].op = "exec"
    /\ \/ process[p].life = "zombie" /\ Reap(t, p) /\ UNCHANGED aborted
       \/ process[p].life = "gone" /\ aborted' = TRUE /\ UNCHANGED <<process, calling>>
    /\ UNCHANGED stolen

(* DosWaitChild, for one child or, with pid 0, for any.                     *)
DosWaitChild(t) == \E pid \in Pid \cup {0}, option \in {"wait", "nowait"} :
    /\ ~aborted /\ calling[t] = NoCall
    /\ calling' = [calling EXCEPT ![t] = [op |-> option, pid |-> pid]]
    /\ UNCHANGED <<process, stolen, aborted>>

Awaited(t) == {p \in Pid : Ours(p) /\ calling[t].pid \in {0, p}}

WaitReturns(t) ==
    /\ ~aborted /\ calling[t].op \in {"wait", "nowait"}
    /\ \E p \in Awaited(t) :
           /\ process[p].life = "zombie"
           /\ Reap(t, p)
           /\ stolen' = IF \E u \in Thread : calling[u] = [op |-> "exec", pid |-> p]
                        THEN stolen \cup {p} ELSE stolen
    /\ UNCHANGED aborted

(* ERROR_WAIT_NO_CHILDREN or ERROR_INVALID_PROCID when there is nobody to   *)
(* wait for; ERROR_CHILD_NOT_COMPLETE at once if so asked.                  *)
WaitFailsOnlyAtOnce(t) ==
    /\ ~aborted
    /\ calling[t].op = "nowait"
    /\ \A p \in Awaited(t) : process[p].life = "runs"
    /\ calling' = [calling EXCEPT ![t] = NoCall]
    /\ UNCHANGED <<process, stolen, aborted>>

WaitFails(t) ==
    /\ ~aborted
    /\ \/ calling[t].op \in {"wait", "nowait"} /\ Awaited(t) = {}
       \/ calling[t].op = "nowait" /\ Awaited(t) # {}
          /\ \A p \in Awaited(t) : process[p].life = "runs"
    /\ calling' = [calling EXCEPT ![t] = NoCall]
    /\ UNCHANGED <<process, stolen, aborted>>

ChildNext == \/ \E t \in Thread : \/ DosExecPgm(t) \/ ExecReturns(t)
                                  \/ DosWaitChild(t) \/ WaitReturns(t) \/ WaitFails(t)
             \/ \E p \in Pid : ForkAgain(p) \/ End(p)

ChildSpec == ChildInit /\ [][ChildNext]_childVars

-----------------------------------------------------------------------------
(* A DosExecPgm that waits reports its own program; its assertion on what   *)
(* waitpid returned fails only because a DosWaitChild of another thread,    *)
(* for any child or for that one, took it first.                            *)
ExecAnswersForItsOwn == aborted => stolen # {}

(* Programs end; so every DosWaitChild returns, with a child or with the    *)
(* news that there is none any more, also when another thread takes the     *)
(* child it waits for.                                                      *)
EveryWaitReturns == \A t \in Thread : calling[t].op = "wait" ~> calling[t].op # "wait" \/ aborted
=============================================================================
