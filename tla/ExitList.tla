------------------------------ MODULE ExitList ------------------------------
(***************************************************************************)
(* The functions a program wants called when it ends: DosExitList, DosExit  *)
(* and runDosExitList of native/doscalls.c.                                 *)
(*                                                                          *)
(* The functions run inside DosExit and may themselves change the list or   *)
(* call DosExit; nothing in this code takes a lock.  An item is one         *)
(* registration; malloc gives no address twice.  Once freed memory has been *)
(* used (broken) nothing more happens.                                      *)
(***************************************************************************)
EXTENDS Callers, Naturals, Sequences, SequencesExt

CONSTANTS Fn,         \* functions to register
          MaxItems,   \* bound on registrations
          Order       \* orders a program may ask for: a range of 0 .. 255

Item == 1 .. MaxItems

VARIABLES exitList,   \* GExitList: the items in order
          item,       \* what malloc gave: [fn, priority, state]
          frame,      \* thread -> where it is in runDosExitList: [pc, next]
          atExit,     \* items on the list when DosExit was first called
          careless,   \* a function took out the item to come, or two threads exit
          broken, ended

exitVars == <<exitList, item, frame, atExit, careless, broken, ended>>

None == 0
Out  == [pc |-> "out", next |-> None]
In(t) == frame[t].pc \in {"loop", "call"}

ExitInit ==
    /\ exitList = <<>>
    /\ item = [i \in Item |-> [state |-> "unused"]]
    /\ frame = [t \in Thread |-> Out]
    /\ atExit = Null
    /\ careless = FALSE /\ broken = FALSE /\ ended = FALSE

Running == ~broken /\ ~ended

(* A call comes from outside the loop or from one of the functions it runs. *)
MayCall(t) == Running /\ frame[t].pc \in {"out", "call"}

-----------------------------------------------------------------------------
(* DosExitList(EXLST_ADD): before the first item whose priority is not      *)
(* below the order asked for.  The order is not stored in the new item:     *)
(* its priority is what malloc left there.                                  *)
DosExitListAdd(t) == \E fn \in Fn, order \in Order, garbage \in Order :
    LET new == {i \in Item : item[i].state = "unused"}
        i == CHOOSE j \in new : \A k \in new : j <= k
        below == {k \in 0 .. Len(exitList) : \A j \in 1 .. k : item[exitList[j]].priority < order}
        at == CHOOSE k \in below : \A j \in below : j <= k
    IN  /\ MayCall(t)
        /\ new # {}
        /\ item' = [item EXCEPT ![i] = [state |-> "listed", fn |-> fn, priority |-> garbage]]
        /\ exitList' = InsertAt(exitList, at + 1, i)
        /\ UNCHANGED <<frame, atExit, careless, broken, ended>>

(* DosExitList(EXLST_REMOVE): the first item with that function.            *)
DosExitListRemove(t) == \E k \in DOMAIN exitList :
    LET i == exitList[k] IN
    /\ MayCall(t)
    /\ \A j \in 1 .. k - 1 : item[exitList[j]].fn # item[i].fn
    /\ exitList' = RemoveAt(exitList, k)
    /\ item' = [item EXCEPT ![i].state = "removed"]
    /\ careless' = (careless \/ \E u \in Thread : In(u) /\ frame[u].next = i)
    /\ UNCHANGED <<frame, atExit, broken, ended>>

(* DosExit(EXIT_PROCESS), also from a function of the list.                 *)
DosExit(t) ==
    /\ MayCall(t)
    /\ frame' = [frame EXCEPT ![t] = [pc |-> "loop", next |-> IF exitList = <<>> THEN None ELSE Head(exitList)]]
    /\ atExit' = IF atExit = Null THEN ToSet(exitList) ELSE atExit
    /\ careless' = (careless \/ \E u \in Thread \ {t} : In(u))
    /\ UNCHANGED <<exitList, item, broken, ended>>

(* One turn of the loop in runDosExitList up to the call: the list begins   *)
(* behind the item from now on, whatever was put in front of it.            *)
PopLeavesItListed(t) ==
    LET i == frame[t].next IN
    /\ Running /\ frame[t].pc = "loop" /\ i # None
    /\ broken' = (item[i].state # "listed")
    /\ item' = [item EXCEPT ![i].state = "run"]
    /\ frame' = [frame EXCEPT ![t].pc = "call"]
    /\ UNCHANGED <<exitList, atExit, careless, ended>>

Pop(t) ==
    LET i  == frame[t].next
        at == CHOOSE k \in DOMAIN exitList : exitList[k] = i
        InFront == {exitList[k] : k \in 1 .. at - 1}
    IN  /\ Running /\ frame[t].pc = "loop" /\ i # None
        /\ IF item[i].state # "listed"
           THEN broken' = TRUE /\ UNCHANGED <<exitList, item, frame>>
           ELSE /\ item' = [j \in Item |->
                       CASE j = i -> [item[j] EXCEPT !.state = "run"]
                         [] j \in InFront -> [item[j] EXCEPT !.state = "lost"]
                         [] OTHER -> item[j]]
                /\ exitList' = SubSeq(exitList, at + 1, Len(exitList))
                /\ frame' = [frame EXCEPT ![t] =
                       [pc |-> "call", next |-> IF at = Len(exitList) THEN None ELSE exitList[at + 1]]]
                /\ UNCHANGED broken
        /\ UNCHANGED <<atExit, careless, ended>>

(* The function returns.                                                    *)
FunctionReturns(t) ==
    /\ Running /\ frame[t].pc = "call"
    /\ frame' = [frame EXCEPT ![t].pc = "loop"]
    /\ UNCHANGED <<exitList, item, atExit, careless, broken, ended>>

(* The end of the loop, and of the process.                                 *)
Terminate(t) ==
    /\ Running /\ frame[t] = [pc |-> "loop", next |-> None]
    /\ ended' = TRUE
    /\ UNCHANGED <<exitList, item, frame, atExit, careless, broken>>

ExitNext == \E t \in Thread :
    \/ DosExitListAdd(t) \/ DosExitListRemove(t)
    \/ DosExit(t) \/ Pop(t) \/ FunctionReturns(t) \/ Terminate(t)

ExitSpec == ExitInit /\ [][ExitNext]_exitVars

-----------------------------------------------------------------------------
(* In a program with one exiting thread, whose functions leave alone the     *)
(* item to come, no function is called from a freed item, and so none twice *)
(* for one registration -- even when a function adds others, takes others   *)
(* out or calls DosExit again (runDosExitList unlinks before it calls).     *)
NoFreedItemIsCalled == broken => careless

(* ... and when the process ends every function that was registered before  *)
(* DosExit has been called or was taken out.                                *)
EveryFunctionIsCalled ==
    ended /\ ~careless => \A i \in atExit : item[i].state \in {"run", "removed"}

(* Both: each function that is registered is called once.                   *)
FunctionsAreCalledOnce == NoFreedItemIsCalled /\ EveryFunctionIsCalled
=============================================================================
