------------------------------- MODULE PmQueue -------------------------------
(***************************************************************************)
(* The message queue of a PM thread (native/pmwin.c): a singly linked list  *)
(* with a pool of items that are used again, postMessage and the removal in *)
(* WinGetMsg.  Only the thread that owns the queue touches it.              *)
(***************************************************************************)
EXTENDS Integers, SequencesExt

CONSTANTS Item,       \* the memory malloc has for queue items, numbered
          Filter,     \* the filters the program gives to WinGetMsg
          Null

ASSUME ItemAssumption == Item \subseteq Nat /\ IsFiniteSet(Item) /\ Null \notin Nat
ASSUME FilterAssumption ==
    LET Filters == [hwnd : Nat, first : Nat, last : Nat] IN Filter \subseteq Filters /\ Null \notin Filters

VARIABLES hmq,        \* is there a message queue?
          mq          \* MessageQueue, and the items malloc has handed out

WM_USER == 1
WM_PAINT == 2
WM_QUIT == 3
NoWindow == 0

Message == [hwnd : Nat, msg : {WM_USER, WM_PAINT, WM_QUIT}]
Msg(hwnd, msg) == [hwnd |-> hwnd, msg |-> msg]

NoFilter == [hwnd |-> 0, first |-> 0, last |-> 0]

EmptyQueue ==
    [head |-> Null, tail |-> Null, free_pool |-> Null, heap |-> {},
     next |-> [i \in Item |-> Null], qmsg |-> [i \in Item |-> Msg(NoWindow, WM_USER)]]

-----------------------------------------------------------------------------
(* The items from the head on, at most all there are. *)
Queued(q) ==
    LET at[k \in 1..Cardinality(Item)] ==
            IF k = 1 THEN q.head
            ELSE IF at[k - 1] = Null THEN Null ELSE q.next[at[k - 1]]
    IN [k \in 1..Cardinality({j \in 1..Cardinality(Item) : at[j] # Null}) |-> at[k]]

Messages(q) == [k \in DOMAIN Queued(q) |-> q.qmsg[Queued(q)[k]]]

(* skipMessage: a range that runs backwards names what is not wanted. *)
skipMessage(m, f) ==
    \/ f.hwnd # NoWindow /\ m.hwnd # f.hwnd
    \/ /\ f.first # 0 \/ f.last # 0
       /\ IF f.first > f.last THEN f.last <= m.msg /\ m.msg <= f.first
                              ELSE m.msg < f.first \/ f.last < m.msg

(* assert(!head == !tail), and in WinGetMsg: the last item is the tail. *)
PostAssertion(q) == (q.head = Null) <=> (q.tail = Null)

PushFront(q, m) ==
    IF q.free_pool = Null /\ Item = q.heap THEN q
    ELSE LET item == IF q.free_pool # Null THEN q.free_pool
                     ELSE CHOOSE i \in Item \ q.heap : TRUE
         IN [q EXCEPT !.free_pool = IF @ = Null THEN Null ELSE q.next[@],
                      !.heap = @ \cup {item},
                      !.qmsg[item] = m,
                      !.next[item] = q.head,
                      !.head = item,
                      !.tail = IF @ = Null THEN item ELSE @]

(* postMessage: an item from the pool, or from malloc; at the end of the    *)
(* list.  Without memory the message is dropped.  Which item malloc picks   *)
(* makes no difference: no pointer to an item that was freed is left.       *)
postMessage(q, m) ==
    IF q.free_pool = Null /\ Item = q.heap THEN q
    ELSE LET item == IF q.free_pool # Null THEN q.free_pool
                     ELSE CHOOSE i \in Item \ q.heap : TRUE
             clean == [q EXCEPT !.free_pool = IF @ = Null THEN Null ELSE q.next[@],
                                !.heap = @ \cup {item},
                                !.qmsg[item] = m,
                                !.next[item] = Null,
                                !.tail = item]
         IN IF q.tail = Null THEN [clean EXCEPT !.head = item]
                             ELSE [clean EXCEPT !.next[q.tail] = item]

postMessages(q, ms) == FoldLeft(postMessage, q, ms)

(* The positions of the messages the filter lets through. *)
Wanted(q, f) == {k \in DOMAIN Queued(q) : ~skipMessage(q.qmsg[Queued(q)[k]], f)}

(* WinGetMsg takes the k-th item out and puts it on the pool.  The tail is  *)
(* reset only when the list becomes empty.  What the item holds is not read *)
(* again before it is written; the model forgets it.                        *)
Removed(q, k) ==
    LET i == Queued(q)[k]
        unlinked == IF k = 1 THEN [q EXCEPT !.head = q.next[i]]
                             ELSE [q EXCEPT !.next[Queued(q)[k - 1]] = q.next[i]]
    IN [unlinked EXCEPT !.tail = IF unlinked.head = Null THEN Null ELSE @,
                        !.next[i] = q.free_pool,
                        !.qmsg[i] = Msg(NoWindow, WM_USER),
                        !.free_pool = i]

GetAssertion(q, k) == Removed(q, k).head = Null => q.tail = Queued(q)[k]

QueueType ==
    /\ hmq \in BOOLEAN
    /\ {mq.head, mq.tail, mq.free_pool} \subseteq Item \cup {Null}
    /\ mq.heap \subseteq Item
    /\ mq.next \in [Item -> Item \cup {Null}]
    /\ mq.qmsg \in [Item -> Message]

-----------------------------------------------------------------------------
(* WinCreateMsgQueue and WinDestroyMsgQueue; the second forgets everything. *)
CreateQueue ==
    /\ ~hmq
    /\ hmq' = TRUE
    /\ UNCHANGED mq

DestroyQueue ==
    /\ hmq
    /\ hmq' = FALSE
    /\ mq' = EmptyQueue
=============================================================================
