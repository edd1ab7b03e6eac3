------------------------------ MODULE PmWindows ------------------------------
(***************************************************************************)
(* The windows of a PM thread (native/pmwin.c) and the messages that reach  *)
(* them: WinCreateWindow, WinDestroyWindow, WinSendMsg, WinPostMsg,         *)
(* WinGetMsg, WinDispatchMsg, WinInitialize and WinTerminate.               *)
(*                                                                          *)
(* One thread runs, but not one call after the other: creating, destroying  *)
(* and sending call the program's window procedures, which may make any of  *)
(* the calls again.  `stack` holds what the calls in progress still have to *)
(* do.  A window is a place in the array `windows`; a place whose hwnd was  *)
(* zeroed is free.                                                          *)
(***************************************************************************)
EXTENDS PmQueue, FiniteSetsExt

CONSTANTS NumWindows,   \* places in the array; it does not grow here
          Programs,     \* the kinds of program, see below
          Desktop

(* A program: the calls it makes, how deeply its procedures nest them, how  *)
(* many windows it has at a time (fewer than the array has places), and the *)
(* styles and owners it gives to windows.                                   *)
ASSUME ProgramsAssumption ==
    Programs \subseteq [calls : SUBSET {"tree", "messages", "terminate"}, frames : Nat, windows : Nat,
                        visible : SUBSET BOOLEAN, owned : SUBSET BOOLEAN]
ASSUME WindowsAssumption ==
    /\ NumWindows \in Nat \ {0} /\ Desktop \notin Nat \cup {Null}
    /\ \A p \in Programs : p.windows <= NumWindows

VARIABLES program,
          anchor,       \* does the thread have an anchor block?
          live,         \* windows whose hwnd is set
          parent, child, sibling, owner, visible,
          stack,        \* calls in progress, the innermost first
          getting,      \* the filter of a WinGetMsg in progress, or Null
          pump,         \* pumpEvents: "no", or whether something was queued
          got,          \* what WinGetMsg returned last, or Null
          told,         \* ghost: WM_DESTROY messages each window had
          asserted      \* has an assert() failed?

windowVars == <<live, parent, child, sibling, owner, visible, told>>
messageVars == <<hmq, mq, getting, pump, got>>
vars == <<program, anchor, windowVars, stack, messageVars, asserted>>

Window == 1..NumWindows
Place == Window \cup {Desktop}
HWND_TOP == -1
HWND_BOTTOM == -2

(* new: the window is not in its parent's list yet. *)
Frame(at, win, i, new) == [at |-> at, win |-> win, i |-> i, new |-> new]

TypeOK ==
    /\ program \in Programs /\ anchor \in BOOLEAN
    /\ live \subseteq Window /\ visible \subseteq Window
    /\ parent \in [Window -> Place \cup {Null}] /\ owner \in [Window -> Place \cup {Null}]
    /\ child \in [Place -> Window \cup {Null}]
    /\ sibling \in [Window -> Window \cup {Null}]
    /\ \A k \in DOMAIN stack :
          stack[k] \in [at : {"create", "adjust", "destroy", "children", "send", "terminate"},
                        win : Window, i : Window \cup {Null, NumWindows + 1}, new : BOOLEAN]
    /\ QueueType
    /\ getting \in Filter \cup {NoFilter, Null}
    /\ pump \in {"no", "empty", "queued"}
    /\ got \in Message \cup {Null}
    /\ told \in [Window -> 0..2]
    /\ asserted \in BOOLEAN

Nobody == [w \in Window |-> Null]
NoChild == [p \in Place |-> Null]

Init ==
    /\ program \in Programs
    /\ anchor = FALSE /\ stack = <<>>
    /\ live = {} /\ visible = {} /\ told = [w \in Window |-> 0]
    /\ parent = Nobody /\ owner = Nobody /\ sibling = Nobody /\ child = NoChild
    /\ hmq = FALSE /\ mq = EmptyQueue
    /\ getting = Null /\ pump = "no" /\ got = Null
    /\ asserted = FALSE

-----------------------------------------------------------------------------
(* The children of p, from the top of the stack of windows down. *)
Kids(p) ==
    LET at[k \in 1..(NumWindows + 1)] ==
            IF k = 1 THEN child[p]
            ELSE IF at[k - 1] = Null THEN Null ELSE sibling[at[k - 1]]
    IN [k \in 1..Cardinality({j \in 1..(NumWindows + 1) : at[j] # Null}) |-> at[k]]

Top == stack[1]

InCallback == stack # <<>> /\ Top.at \in {"create", "adjust", "destroy", "send"}

(* The program runs: outside PM, or in a window procedure. *)
Turn ==
    /\ anchor /\ ~asserted /\ getting = Null
    /\ stack = <<>> \/ InCallback

MayNest == Len(stack) < program.frames

Push(frame) == stack' = <<frame>> \o stack
Replace(frame) == stack' = <<frame>> \o Tail(stack)
Pop == stack' = Tail(stack)

Frames == {stack[k] : k \in DOMAIN stack}
Working == {f \in Frames : f.at \in {"create", "adjust", "destroy", "children"}}

(* Windows between WinCreateWindow and the moment they are linked. *)
Unlinked == {f.win : f \in {g \in Working : g.new}}

(* w, its parent, its parent's parent...: the least set with the parents of *)
(* its members.                                                             *)
ClosedUp(S) == \A v \in S \cap Window : parent[v] # Null => parent[v] \in S
Ancestors(w) == {a \in Place : \A S \in SUBSET Place : w \in S /\ ClosedUp(S) => a \in S}

(* What programs keep from: destroying a window that is being created or    *)
(* destroyed, one above it, or the one whose turn is next; inserting one    *)
(* behind a window that is in no list yet; and creating one below a window  *)
(* whose children are being destroyed, which would outlive it.              *)
MayDestroy(w) == \A f \in Working : w \notin Ancestors(f.win) /\ (f.at = "children" => f.i # w)

MayCreate(p) ==
    \A f \in Frames : f.at # "terminate" /\ (f.at = "children" => f.win # p)

MayInsertBehind(w) == w \notin Unlinked

-----------------------------------------------------------------------------
(* WinInitialize, and WinCreateMsgQueue. *)
WinInitialize ==
    /\ ~anchor /\ ~asserted
    /\ anchor' = TRUE
    /\ UNCHANGED <<program, windowVars, stack, messageVars, asserted>>

WinCreateMsgQueue ==
    /\ Turn /\ CreateQueue
    /\ UNCHANGED <<program, anchor, windowVars, stack, getting, pump, got, asserted>>

WinDestroyMsgQueue ==
    /\ Turn /\ "messages" \in program.calls /\ DestroyQueue
    /\ UNCHANGED <<program, anchor, windowVars, stack, getting, pump, got, asserted>>

-----------------------------------------------------------------------------
(* WinCreateWindow, up to WM_CREATE: the lowest free place.  The owner is   *)
(* looked up with the handle of the parent.                                 *)
WinCreateWindow(p, shown, owned) ==
    /\ Turn /\ MayNest /\ "tree" \in program.calls
    /\ hmq /\ p \in live \cup {Desktop} /\ Cardinality(live) < program.windows /\ MayCreate(p)
    /\ LET w == Min(Window \ live) IN
          /\ live' = live \cup {w}
          /\ visible' = IF shown THEN visible \cup {w} ELSE visible \ {w}
          /\ parent' = [parent EXCEPT ![w] = p]
          /\ owner' = [owner EXCEPT ![w] = IF owned THEN p ELSE Null]
          /\ child' = [child EXCEPT ![w] = Null]
          /\ sibling' = [sibling EXCEPT ![w] = Null]
          /\ told' = [told EXCEPT ![w] = 0]
          /\ Push(Frame("create", w, Null, TRUE))
    /\ UNCHANGED <<program, anchor, messageVars, asserted>>

Told(w) == told' = [told EXCEPT ![w] = IF @ = 2 THEN 2 ELSE @ + 1]

(* The procedure answers WM_CREATE: yes, and WM_ADJUSTWINDOWPOS is sent, or *)
(* no, and the window is destroyed before it was ever linked.               *)
WM_CREATE_Accepted ==
    /\ Turn /\ stack # <<>> /\ Top.at = "create"
    /\ Replace(Frame("adjust", Top.win, Null, TRUE))
    /\ UNCHANGED <<program, anchor, windowVars, messageVars, asserted>>

RefusedWithoutGoodbye ==
    /\ Turn /\ stack # <<>> /\ Top.at = "create"
    /\ live' = live \ {Top.win} /\ visible' = visible \ {Top.win}
    /\ parent' = [parent EXCEPT ![Top.win] = Null]
    /\ owner' = [owner EXCEPT ![Top.win] = Null]
    /\ Pop
    /\ UNCHANGED <<program, anchor, child, sibling, told, messageVars, asserted>>

WM_CREATE_Refused ==
    /\ Turn /\ stack # <<>> /\ Top.at = "create"
    /\ Replace(Frame("destroy", Top.win, Null, TRUE)) /\ Told(Top.win)
    /\ UNCHANGED <<program, anchor, live, parent, child, sibling, owner, visible, messageVars, asserted>>

LinkTopLosesTheRest(w, p, behind) ==
    CASE child[p] = Null -> child' = [child EXCEPT ![p] = w] /\ UNCHANGED sibling
      [] child[p] # Null /\ behind = HWND_TOP ->
             child' = [child EXCEPT ![p] = w] /\ UNCHANGED sibling
      [] OTHER -> sibling' = [sibling EXCEPT ![Last(Kids(p))] = w] /\ UNCHANGED child

(* Into the parent's list: alone, at the top, at the bottom, or behind a    *)
(* window, which has to be a child of the same parent.                      *)
Link(w, p, behind) ==
    CASE child[p] = Null -> child' = [child EXCEPT ![p] = w] /\ UNCHANGED sibling
      [] child[p] # Null /\ behind = HWND_TOP ->
             child' = [child EXCEPT ![p] = w] /\ sibling' = [sibling EXCEPT ![w] = child[p]]
      [] child[p] # Null /\ behind \in live /\ parent[behind] = p ->
             sibling' = [sibling EXCEPT ![w] = sibling[behind], ![behind] = w] /\ UNCHANGED child
      [] OTHER -> sibling' = [sibling EXCEPT ![Last(Kids(p))] = w] /\ UNCHANGED child

(* WM_ADJUSTWINDOWPOS returns; the procedure may have changed the place.    *)
WM_ADJUSTWINDOWPOS_Returns ==
    /\ Turn /\ stack # <<>> /\ Top.at = "adjust"
    /\ \E behind \in {HWND_TOP, HWND_BOTTOM} \cup Window :
          /\ MayInsertBehind(behind)
          /\ Link(Top.win, parent[Top.win], behind)
    /\ Pop
    /\ UNCHANGED <<program, anchor, live, parent, owner, visible, told, messageVars, asserted>>

-----------------------------------------------------------------------------
(* destroyWindow: WM_DESTROY, then the children, then the window itself.    *)
WinDestroyWindow(w) ==
    /\ Turn /\ MayNest /\ "tree" \in program.calls
    /\ w \in live /\ MayDestroy(w)
    /\ Push(Frame("destroy", w, Null, FALSE)) /\ Told(w)
    /\ UNCHANGED <<program, anchor, live, parent, child, sibling, owner, visible, messageVars, asserted>>

WM_DESTROY_Returns ==
    /\ Turn /\ stack # <<>> /\ Top.at = "destroy"
    /\ Replace([Top EXCEPT !.at = "children", !.i = child[Top.win]])
    /\ UNCHANGED <<program, anchor, windowVars, messageVars, asserted>>

InLoop(at) == ~asserted /\ stack # <<>> /\ Top.at = at

(* One turn of the loop: the next child is read before this one goes.       *)
DestroyChild ==
    /\ InLoop("children") /\ Top.i # Null
    /\ LET rest == [Top EXCEPT !.i = sibling[Top.i]]
       IN IF Top.i \in live
            THEN /\ stack' = <<Frame("destroy", Top.i, Null, FALSE), rest>> \o Tail(stack)
                 /\ Told(Top.i)
            ELSE Replace(rest) /\ UNCHANGED told
    /\ UNCHANGED <<program, anchor, live, parent, child, sibling, owner, visible, messageVars, asserted>>

(* The list of p without w. *)
Unlink(w, p) ==
    LET before == {v \in Window : sibling[v] = w /\ \E k \in DOMAIN Kids(p) : Kids(p)[k] = v}
    IN /\ child' = [child EXCEPT ![p] = IF @ = w THEN sibling[w] ELSE @, ![w] = Null]
       /\ sibling' = [v \in Window |->
             IF v = w THEN Null
             ELSE IF child[p] # w /\ v \in before THEN sibling[w] ELSE sibling[v]]

(* No child is left: out of the parent's list, and zeroed. *)
DestroyFinish ==
    /\ InLoop("children") /\ Top.i = Null
    /\ LET w == Top.win IN
          /\ Unlink(w, parent[w])
          /\ live' = live \ {w} /\ visible' = visible \ {w}
          /\ parent' = [parent EXCEPT ![w] = Null]
          /\ owner' = [owner EXCEPT ![w] = Null]
          /\ told' = [told EXCEPT ![w] = 0]
    /\ Pop
    /\ UNCHANGED <<program, anchor, messageVars, asserted>>

-----------------------------------------------------------------------------
(* WinTerminate: every window, in the order of the array, then the rest.    *)
WinTerminate ==
    /\ Turn /\ stack = <<>> /\ "terminate" \in program.calls
    /\ Push(Frame("terminate", 1, 1, FALSE))
    /\ UNCHANGED <<program, anchor, windowVars, messageVars, asserted>>

TerminateNext ==
    /\ InLoop("terminate") /\ Top.i \in Window
    /\ LET rest == [Top EXCEPT !.i = @ + 1]
       IN IF Top.i \in live
            THEN /\ stack' = <<Frame("destroy", Top.i, Null, FALSE), rest>> \o Tail(stack)
                 /\ Told(Top.i)
            ELSE Replace(rest) /\ UNCHANGED told
    /\ UNCHANGED <<program, anchor, live, parent, child, sibling, owner, visible, messageVars, asserted>>

TerminateFinish ==
    /\ InLoop("terminate") /\ Top.i = NumWindows + 1
    /\ anchor' = FALSE /\ Pop
    /\ live' = {} /\ visible' = {} /\ told' = [w \in Window |-> 0]
    /\ parent' = Nobody /\ owner' = Nobody /\ sibling' = Nobody /\ child' = NoChild
    /\ hmq' = FALSE /\ mq' = EmptyQueue /\ got' = Null
    /\ UNCHANGED <<program, getting, pump, asserted>>

-----------------------------------------------------------------------------
(* WinPostMsg.  Its answer is the wrong way round: postMessage says TRUE    *)
(* for success and WinPostMsg takes that for an error.                      *)
WinPostMsg(w) ==
    /\ Turn /\ "messages" \in program.calls
    /\ hmq /\ w \in live
    /\ IF PostAssertion(mq) THEN mq' = postMessage(mq, Msg(w, WM_USER)) /\ UNCHANGED asserted
                            ELSE asserted' = TRUE /\ UNCHANGED mq
    /\ UNCHANGED <<program, anchor, windowVars, stack, hmq, getting, pump, got>>

(* WinGetMsg: a look at the queue... *)
WinGetMsg(f) ==
    /\ Turn /\ "messages" \in program.calls /\ hmq
    /\ getting' = f /\ got' = Null
    /\ UNCHANGED <<program, anchor, windowVars, stack, hmq, mq, pump, asserted>>

GetFinds ==
    /\ ~asserted /\ getting # Null /\ pump = "no" /\ Wanted(mq, getting) # {}
    /\ LET k == Min(Wanted(mq, getting)) IN
          /\ got' = Messages(mq)[k]
          /\ mq' = Removed(mq, k)
          /\ asserted' = ~GetAssertion(mq, k)
    /\ getting' = Null
    /\ UNCHANGED <<program, anchor, windowVars, stack, hmq, pump>>

(* ...and, when nothing in it is wanted, pumpEvents until something came.   *)
GetPumps ==
    /\ ~asserted /\ getting # Null /\ pump = "no" /\ Wanted(mq, getting) = {}
    /\ pump' = "empty"
    /\ UNCHANGED <<program, anchor, windowVars, stack, hmq, mq, getting, got, asserted>>

PaintTopDown(w) ==
    LET paint[n \in 0..NumWindows] == [v \in Window \cup {Null} |->
            IF v = Null \/ n = 0 THEN <<>>
            ELSE (IF v \in visible THEN <<v>> \o paint[n - 1][child[v]] ELSE <<>>)
                 \o paint[n - 1][sibling[v]]]
    IN paint[NumWindows][w]

(* postExposedMessages: first the windows below this one, then it and its   *)
(* children, when it is visible.  No branch of the tree is deeper than the  *)
(* number of windows.                                                       *)
postExposedMessages(w) ==
    LET paint[n \in 0..NumWindows] == [v \in Window \cup {Null} |->
            IF v = Null \/ n = 0 THEN <<>>
            ELSE paint[n - 1][sibling[v]]
                 \o (IF v \in visible THEN <<v>> \o paint[n - 1][child[v]] ELSE <<>>)]
    IN paint[NumWindows][w]

PumpPosts(messages) ==
    /\ ~asserted /\ pump # "no"
    /\ mq' = postMessages(mq, messages)
    /\ pump' = IF mq' = mq THEN pump ELSE "queued"
    /\ UNCHANGED <<program, anchor, windowVars, stack, hmq, getting, got, asserted>>

(* SDL reports that the user wants to quit, or that a top-level window that *)
(* is on the screen has to be painted.                                      *)
PumpQuit == PumpPosts(<<Msg(NoWindow, WM_QUIT)>>)

PumpExposed(w) ==
    /\ w \in visible \ Unlinked /\ parent[w] = Desktop
    /\ LET painted == postExposedMessages(w)
       IN PumpPosts([k \in DOMAIN painted |-> Msg(painted[k], WM_PAINT)])

PumpReturns ==
    /\ ~asserted /\ pump = "queued"
    /\ pump' = "no"
    /\ UNCHANGED <<program, anchor, windowVars, stack, hmq, mq, getting, got, asserted>>

(* WinDispatchMsg of the message got, and WinSendMsg. *)
WinDispatchMsg ==
    /\ Turn /\ MayNest /\ got # Null
    /\ got' = Null
    /\ IF got.hwnd \in live THEN Push(Frame("send", got.hwnd, Null, FALSE)) ELSE UNCHANGED stack
    /\ UNCHANGED <<program, anchor, windowVars, hmq, mq, getting, pump, asserted>>

WinSendMsg(w) ==
    /\ Turn /\ MayNest /\ "messages" \in program.calls
    /\ w \in live
    /\ Push(Frame("send", w, Null, FALSE))
    /\ UNCHANGED <<program, anchor, windowVars, messageVars, asserted>>

(* The procedure is done with a message; or it is WinDefWindowProc, which   *)
(* hands the message to the owner.                                          *)
SendReturns ==
    /\ Turn /\ stack # <<>> /\ Top.at = "send"
    /\ Pop
    /\ UNCHANGED <<program, anchor, windowVars, messageVars, asserted>>

WinDefWindowProc ==
    /\ Turn /\ stack # <<>> /\ Top.at = "send"
    /\ Top.win \in live /\ owner[Top.win] \in Window
    /\ Replace(Frame("send", owner[Top.win], Null, FALSE))
    /\ UNCHANGED <<program, anchor, windowVars, messageVars, asserted>>

-----------------------------------------------------------------------------
Next ==
    \/ WinInitialize \/ WinCreateMsgQueue \/ WinDestroyMsgQueue \/ WinTerminate
    \/ \E p \in Place, shown \in program.visible, owned \in program.owned :
           WinCreateWindow(p, shown, owned)
    \/ WM_CREATE_Accepted \/ WM_CREATE_Refused \/ WM_ADJUSTWINDOWPOS_Returns
    \/ WM_DESTROY_Returns \/ DestroyChild \/ DestroyFinish \/ TerminateNext \/ TerminateFinish
    \/ \E w \in Window : WinDestroyWindow(w) \/ WinPostMsg(w) \/ WinSendMsg(w) \/ PumpExposed(w)
    \/ \E f \in Filter \cup {NoFilter} : WinGetMsg(f)
    \/ GetFinds \/ GetPumps \/ PumpQuit \/ PumpReturns
    \/ WinDispatchMsg \/ SendReturns \/ WinDefWindowProc

Spec == Init /\ [][Next]_vars

-----------------------------------------------------------------------------
(* Properties *)

(* The tree that the pointers of struct Window spell is a tree: whatever    *)
(* the window procedures do in between, every window is in the list of its  *)
(* parent once, no list holds another, and parents and owners are alive.    *)
TreeIsWhole ==
    \A p \in live \cup {Desktop} :
        /\ IsInjective(Kids(p))
        /\ ToSet(Kids(p)) = {w \in live \ Unlinked : parent[w] = p}
        /\ p # Desktop => {parent[p], owner[p]} \subseteq live \cup {Desktop, Null}

(* destroyWindow: a window that goes away had WM_DESTROY, and had it once,  *)
(* whether it was destroyed itself, with its parent, refused at its         *)
(* creation, or taken by WinTerminate.                                      *)
ToldOnce ==
    [][\A w \in live \ live' : told[w] = 1]_vars

(* An exposed window is painted before its children, what lies below it     *)
(* before it, and each window once; nothing of an invisible window is.      *)
Below(v, w) == \E p \in Place : \E i, j \in DOMAIN Kids(p) : i < j /\ Kids(p)[i] = w /\ Kids(p)[j] = v

PaintOrder ==
    stack = <<>> =>
        \A w \in {u \in live : parent[u] = Desktop} :
            LET painted == postExposedMessages(w)
                before(u, v) == u \in Ancestors(v) \ {v} \/
                                \E a \in Ancestors(u), b \in Ancestors(v) : Below(a, b)
            IN /\ \A i, j \in DOMAIN painted : i < j => ~before(painted[j], painted[i])
               /\ IsInjective(painted)
               /\ ToSet(painted) = {v \in live : /\ Ancestors(v) \cap Window \subseteq visible
                                                 /\ \E a \in Ancestors(v) : a = w \/ Below(a, w)}

(* The message queue is the queue the program expects. *)
Promise == INSTANCE MsgFifo
             WITH open <- hmq, queue <- Messages(mq), wanted <- getting,
                  Accepts <- LAMBDA f, m : f # Null /\ ~skipMessage(m, f)
ImplementsMsgFifo == Promise!MsgFifoSpec

(* pmwin.c:933, assert(anchor->message_queue.tail == i): a queue that has   *)
(* become empty had its last message removed.                               *)
QueueAssertionHolds == ~asserted

=============================================================================
