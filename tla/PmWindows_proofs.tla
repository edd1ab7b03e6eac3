-------------------------- MODULE PmWindows_proofs --------------------------
(***************************************************************************)
(* Proofs about the windows and the messages of a PM thread, for any number *)
(* of windows and of queue items and any nesting of window procedures: the  *)
(* tree stays whole, each window has WM_DESTROY once, and the queue of a    *)
(* program that sets no filters is first in, first out.                     *)
(*                                                                          *)
(* The first part is about the tree: the invariant TreeInv says what the    *)
(* calls in progress may still rely on when a procedure returns to them.    *)
(* The second part is about the list and the pool of the queue.             *)
(***************************************************************************)
EXTENDS PmWindows, FoldTheorems, FiniteSetTheorems, SequenceTheorems

-----------------------------------------------------------------------------
(* What the windows and the stack have to do with each other.               *)
FrameType == [at : {"create", "adjust", "destroy", "children", "send", "terminate"},
              win : Window, i : Window \cup {Null, NumWindows + 1}, new : BOOLEAN]

TreeType ==
    /\ program \in Programs /\ live \subseteq Window
    /\ parent \in [Window -> Place \cup {Null}] /\ owner \in [Window -> Place \cup {Null}]
    /\ child \in [Place -> Window \cup {Null}] /\ sibling \in [Window -> Window \cup {Null}]
    /\ told \in [Window -> 0 .. 2]
    /\ stack \in Seq(FrameType)

(* s is the list that begins at the first child of p.                       *)
IsChain(p, s) ==
    /\ s \in Seq(Window)
    /\ \A i, j \in DOMAIN s : s[i] = s[j] => i = j
    /\ child[p] = IF s = <<>> THEN Null ELSE s[1]
    /\ \A i \in DOMAIN s : sibling[s[i]] = IF i = Len(s) THEN Null ELSE s[i + 1]

(* The list of p holds its children that are linked, and a window that is   *)
(* not linked yet is followed by none.                                      *)
Linked(p) == {w \in live \ Unlinked : parent[w] = p}
ListsInv ==
    /\ \A p \in live \cup {Desktop} : \E s : IsChain(p, s) /\ ToSet(s) = Linked(p)
    /\ \A w \in Unlinked : sibling[w] = Null

(* Above every window there are living ones, and no window is above itself. *)
ParentsInv ==
    \A w \in live : /\ parent[w] \in live \cup {Desktop} /\ owner[w] \in {parent[w], Null}
                    /\ w \notin Ancestors(parent[w])

Works(k) == stack[k].at \in {"create", "adjust", "destroy", "children"}
Ends(k)  == stack[k].at \in {"destroy", "children"}

(* A call in progress is about a living window, no two about the same, and  *)
(* this window is not above one that an outer call is about.                *)
CallsInv ==
    /\ \A k \in DOMAIN stack : Works(k) =>
          stack[k].win \in live /\ (~Ends(k) => stack[k].new)
    /\ \A k, l \in DOMAIN stack : Works(k) /\ Works(l) /\ stack[k].win = stack[l].win => k = l
    /\ \A k, l \in DOMAIN stack : k < l /\ Works(k) /\ Works(l) => stack[k].win \notin Ancestors(stack[l].win)

(* The loop over the children of a window: none can come any more, the one  *)
(* to be destroyed is the first, and the next is the one behind it, which   *)
(* nobody else destroys.                                                    *)
LoopsInv ==
    \A k \in DOMAIN stack : stack[k].at = "children" =>
        /\ \A w \in Unlinked : parent[w] # stack[k].win
        /\ \A l \in 1 .. k - 1 : Ends(l) => stack[l].win # stack[k].i
        /\ k = 1 => stack[k].i = child[stack[k].win]
        /\ k > 1 => /\ Ends(k - 1) /\ ~stack[k - 1].new
                    /\ child[stack[k].win] = stack[k - 1].win
                    /\ stack[k].i = sibling[stack[k - 1].win]

(* The loop of WinTerminate: no window is left at the places behind it.     *)
TerminateInv ==
    \A k \in DOMAIN stack : stack[k].at = "terminate" =>
        /\ k = Len(stack) /\ stack[k].i \in 1 .. NumWindows + 1
        /\ k = 1 => \A w \in live : w >= stack[k].i
        /\ k > 1 => /\ Ends(k - 1) /\ stack[k - 1].win = stack[k].i - 1
                    /\ \A w \in live : w >= stack[k].i - 1

(* Who had WM_DESTROY is being destroyed.                                   *)
ToldInv == \A w \in live : told[w] = IF \E k \in DOMAIN stack : Ends(k) /\ stack[k].win = w THEN 1 ELSE 0

TreeInv == TreeType /\ ListsInv /\ ParentsInv /\ CallsInv /\ LoopsInv /\ TerminateInv /\ ToldInv
-----------------------------------------------------------------------------


(* What a replacement of the first leaves.                                  *)
LEMMA Replaced ==
    ASSUME NEW S, NEW st \in Seq(S), st # <<>>, NEW f \in S
    PROVE  LET new == <<f>> \o Tail(st) IN
           /\ new \in Seq(S) /\ Len(new) = Len(st) /\ new[1] = f /\ DOMAIN new = DOMAIN st
           /\ Len(st) \in Nat \ {0} /\ DOMAIN st = 1 .. Len(st)
           /\ \A k \in DOMAIN st : k # 1 => new[k] = st[k]
<1> DEFINE new == <<f>> \o Tail(st)
<1>1. /\ Tail(st) \in Seq(S) /\ Len(Tail(st)) = Len(st) - 1 /\ Len(st) \in Nat \ {0} /\ DOMAIN st = 1 .. Len(st)
      /\ \A k \in DOMAIN st : k # 1 => Tail(st)[k - 1] = st[k]
  BY Popped
<1>2. /\ new \in Seq(S) /\ Len(new) = Len(Tail(st)) + 1 /\ new[1] = f /\ DOMAIN new = 1 .. Len(Tail(st)) + 1
      /\ \A k \in DOMAIN new : k # 1 => new[k] = Tail(st)[k - 1]
  BY <1>1, Pushed
<1> HIDE DEF new
<1>3. DOMAIN new = DOMAIN st /\ Len(new) = Len(st)
  BY <1>1, <1>2
<1> QED
  BY <1>1, <1>2, <1>3 DEF new

-----------------------------------------------------------------------------
(* Ancestors.                                                               *)
LEMMA PlaceFacts ==
    /\ Null \notin Place /\ Desktop \notin Window /\ Desktop \in Place /\ Window \subseteq Place
    /\ Window \subseteq Nat /\ Null \notin Window /\ Null # NumWindows + 1 /\ NumWindows + 1 \notin Window
    /\ HWND_TOP \notin Window
BY WindowsAssumption, ItemAssumption DEF Place, Window, HWND_TOP

(* A place is among its ancestors, and so are the parents of those.         *)
LEMMA AncestorsUp ==
    ASSUME TreeType, NEW w \in Place
    PROVE  /\ w \in Ancestors(w) /\ Ancestors(w) \subseteq Place
           /\ \A v \in Ancestors(w) \cap Window : parent[v] # Null => parent[v] \in Ancestors(w)
<1>1. w \in Ancestors(w) /\ Ancestors(w) \subseteq Place
  BY DEF Ancestors
<1>2. ASSUME NEW v \in Ancestors(w), v \in Window, parent[v] # Null
      PROVE  parent[v] \in Ancestors(w)
  <2>1. parent[v] \in Place
    BY <1>2 DEF TreeType
  <2> QED
    BY <1>2, <2>1 DEF Ancestors, ClosedUp
<1> QED
  BY <1>1, <1>2

(* A set with the parents of its members that has w has what is above w.    *)
LEMMA AncestorsLeast ==
    ASSUME NEW w, NEW S \in SUBSET Place, w \in S, ClosedUp(S)
    PROVE  Ancestors(w) \subseteq S
BY DEF Ancestors

(* Nothing gets above w by a step that gives no new parent to what is there.*)
LEMMA AncestorsStay ==
    ASSUME TreeType, NEW w \in Place,
           \A v \in Ancestors(w) \cap Window : parent'[v] \in {parent[v], Null}
    PROVE  Ancestors(w)' \subseteq Ancestors(w)
<1>1. Ancestors(w) \in SUBSET Place /\ w \in Ancestors(w)
  BY AncestorsUp
<1>2. PICK S \in SUBSET Place : S = Ancestors(w)
  BY <1>1
<1>3. \A v \in S \cap Window : parent'[v] # Null => parent'[v] \in S
  BY <1>2, AncestorsUp
<1>4. ClosedUp(S)'
  BY <1>3 DEF ClosedUp
<1> QED
  BY <1>1, <1>2, <1>4 DEF Ancestors

(* Above a living window there are only living ones.                        *)
LEMMA AncestorsLive ==
    ASSUME TreeType, ParentsInv, NEW w \in live \cup {Desktop}
    PROVE  Ancestors(w) \subseteq live \cup {Desktop}
<1>1. live \cup {Desktop} \in SUBSET Place
  BY PlaceFacts DEF TreeType
<1>2. ClosedUp(live \cup {Desktop})
  BY PlaceFacts DEF ClosedUp, ParentsInv
<1> QED
  BY <1>1, <1>2, AncestorsLeast

-----------------------------------------------------------------------------
(* The functions of the model that follow a list pointer by pointer find    *)
(* the list.                                                                *)
IsFollowed(at, N, first, nxt) ==
    at = [k \in 1 .. N |-> IF k = 1 THEN first ELSE IF at[k - 1] = Null THEN Null ELSE nxt[at[k - 1]]]
Followed(N, first, nxt) == CHOOSE g : IsFollowed(g, N, first, nxt)
Walk(at, N) == [k \in 1 .. Cardinality({j \in 1 .. N : at[j] # Null}) |-> at[k]]

(* s is the list of things in S, N at most, that begins at first.           *)
Spells(first, nxt, s, S, N) ==
    /\ s \in Seq(S) /\ Null \notin S /\ N \in Nat /\ Len(s) <= N
    /\ first = IF s = <<>> THEN Null ELSE s[1]
    /\ \A i \in DOMAIN s : nxt[s[i]] = IF i = Len(s) THEN Null ELSE s[i + 1]

(* The list that is spelled is the list that is found.                      *)
LEMMA Follows ==
    ASSUME NEW N, NEW S, NEW s, NEW first, NEW nxt, Spells(first, nxt, s, S, N),
           NEW at, at = Followed(N, first, nxt)
    PROVE  Walk(at, N) = s
<1>s. /\ s \in Seq(S) /\ Null \notin S /\ N \in Nat /\ Len(s) <= N
      /\ first = IF s = <<>> THEN Null ELSE s[1]
      /\ \A i \in DOMAIN s : nxt[s[i]] = IF i = Len(s) THEN Null ELSE s[i + 1]
  BY DEF Spells
<1> USE <1>s
<1> DEFINE n == Len(s)
           f == [k \in 1 .. N |-> IF k <= n THEN s[k] ELSE Null]
<1>1. n \in Nat /\ DOMAIN s = 1 .. n /\ (s = <<>> <=> n = 0) /\ \A k \in 1 .. n : s[k] \in S /\ s[k] # Null
  OBVIOUS
<1>2. IsFollowed(f, N, first, nxt)
  <2>1. ASSUME NEW k \in 1 .. N
        PROVE  f[k] = IF k = 1 THEN first ELSE IF f[k - 1] = Null THEN Null ELSE nxt[f[k - 1]]
    <3>1. CASE k = 1
      BY <1>1, <3>1
    <3>2. CASE k # 1 /\ k - 1 <= n
      <4>1. k - 1 \in 1 .. n /\ k - 1 \in 1 .. N
        BY <1>1, <3>2
      <4>2. f[k - 1] = s[k - 1] /\ f[k - 1] # Null
        BY <1>1, <4>1
      <4>3. nxt[s[k - 1]] = IF k - 1 = n THEN Null ELSE s[k - 1 + 1]
        BY <1>1, <4>1
      <4> QED
        BY <1>1, <3>2, <4>2, <4>3
    <3>3. CASE k # 1 /\ ~(k - 1 <= n)
      BY <1>1, <3>3
    <3> QED
      BY <3>1, <3>2, <3>3
  <2> QED
    BY <2>1 DEF IsFollowed
<1>3. IsFollowed(at, N, first, nxt)
  BY <1>2 DEF Followed
<1> DEFINE Bad == {k \in 1 .. N : at[k] # f[k]}
<1>4. Bad = {}
  <2> SUFFICES ASSUME Bad # {} PROVE FALSE
    OBVIOUS
  <2>1. Bad \subseteq Nat
    OBVIOUS
  <2>2. PICK k \in Bad : \A j \in Bad : k <= j
    BY <2>1, HasLeast
  <2>3. k \in 1 .. N /\ at[k] # f[k] /\ (k # 1 => k - 1 \in 1 .. N /\ at[k - 1] = f[k - 1])
    BY <2>2
  <2>4. /\ at[k] = IF k = 1 THEN first ELSE IF at[k - 1] = Null THEN Null ELSE nxt[at[k - 1]]
        /\ f[k] = IF k = 1 THEN first ELSE IF f[k - 1] = Null THEN Null ELSE nxt[f[k - 1]]
    BY <1>2, <1>3, <2>3 DEF IsFollowed
  <2> HIDE DEF f
  <2> QED
    BY <2>3, <2>4
<1>5. {j \in 1 .. N : at[j] # Null} = 1 .. n
  <2>1. \A j \in 1 .. N : at[j] = f[j]
    BY <1>4
  <2> HIDE DEF Bad
  <2> QED
    BY <2>1, <1>1
<1>6. Cardinality(1 .. n) = n
  <2> HIDE DEF n
  <2> QED
    BY <1>1, FS_Interval
<1>7. \A k \in 1 .. n : at[k] = s[k]
  <2>1. \A k \in 1 .. n : k \in 1 .. N /\ f[k] = s[k]
    BY <1>1
  <2> QED
    BY <1>4, <2>1
<1>8. s = [k \in 1 .. n |-> s[k]]
  BY <1>1
<1> HIDE DEF n, f, Bad
<1> QED
  BY <1>5, <1>6, <1>7, <1>8 DEF Walk

(* A list with no repetition over a finite set is not longer than the set.  *)
LEMMA NotLonger ==
    ASSUME NEW S, IsFiniteSet(S), NEW s \in Seq(S), \A i, j \in DOMAIN s : s[i] = s[j] => i = j
    PROVE  Len(s) <= Cardinality(S) /\ Cardinality(S) \in Nat
<1>1. Len(s) \in Nat /\ DOMAIN s = 1 .. Len(s) /\ s \in [1 .. Len(s) -> S]
  OBVIOUS
<1>2. s \in Injection(1 .. Len(s), S)
  BY <1>1 DEF Injection, IsInjective
<1>3. Cardinality(1 .. Len(s)) = Len(s)
  BY <1>1, FS_Interval
<1>4. Cardinality(1 .. Len(s)) <= Cardinality(S)
  BY <1>2, FS_Injection
<1>5. Cardinality(S) \in Nat
  BY FS_CardinalityType
<1> QED
  BY <1>3, <1>4, <1>5

(* Kids(p) is the list that begins at the first child of p.                 *)
LEMMA ChainIsKids ==
    ASSUME NEW p, NEW s, IsChain(p, s)
    PROVE  Kids(p) = s
<1> DEFINE N == NumWindows + 1
           at == Followed(N, child[p], sibling)
<1>1. NumWindows \in Nat /\ N \in Nat /\ Null \notin Window
  BY WindowsAssumption, PlaceFacts
<1>2. IsFiniteSet(Window) /\ Cardinality(Window) = NumWindows
  BY <1>1, FS_Interval DEF Window
<1>3. s \in Seq(Window) /\ Len(s) <= N
  <2>1. s \in Seq(Window) /\ \A i, j \in DOMAIN s : s[i] = s[j] => i = j
    BY DEF IsChain
  <2>2. Len(s) <= NumWindows
    BY <1>2, <2>1, NotLonger
  <2> QED
    BY <1>1, <2>1, <2>2
<1>4. Kids(p) = Walk(at, N)
  BY DEF Kids, Walk, IsFollowed, Followed
<1>5. /\ child[p] = IF s = <<>> THEN Null ELSE s[1]
      /\ \A i \in DOMAIN s : sibling[s[i]] = IF i = Len(s) THEN Null ELSE s[i + 1]
  BY DEF IsChain
<1> HIDE DEF N
<1>6. PICK a, c, nx : a = at /\ c = child[p] /\ nx = sibling
  OBVIOUS
<1>7. a = Followed(N, c, nx) /\ Spells(c, nx, s, Window, N)
  BY <1>1, <1>3, <1>5, <1>6 DEF Spells
<1> HIDE DEF at
<1>8. Walk(a, N) = s
  BY <1>7, Follows
<1> QED
  BY <1>4, <1>6, <1>8

-----------------------------------------------------------------------------
(* Unlinked, by the places of the stack.                                    *)
LEMMA UnlinkedIs ==
    ASSUME NEW w
    PROVE  /\ w \in Unlinked <=> \E k \in DOMAIN stack : Works(k) /\ stack[k].new /\ stack[k].win = w
           /\ w \in Unlinked' <=>
                 \E k \in DOMAIN stack' : Works(k)' /\ stack'[k].new /\ stack'[k].win = w
<1>1. w \in Unlinked <=> \E k \in DOMAIN stack : Works(k) /\ stack[k].new /\ stack[k].win = w
  BY DEF Unlinked, Working, Frames, Works
<1>2. w \in Unlinked' <=> \E k \in DOMAIN stack' : Works(k)' /\ stack'[k].new /\ stack'[k].win = w
  BY DEF Unlinked, Working, Frames, Works
<1> QED
  BY <1>1, <1>2

(* What is unlinked is alive.                                               *)
LEMMA UnlinkedLive ==
    ASSUME CallsInv, NEW w \in Unlinked
    PROVE  w \in live
BY UnlinkedIs DEF CallsInv

(* A step that leaves the windows alone leaves the tree alone.              *)
LEMMA TreeKept ==
    ASSUME ListsInv, ParentsInv, UNCHANGED <<live, parent, child, sibling, owner>>,
           \A w : w \in Unlinked' <=> w \in Unlinked
    PROVE  ListsInv' /\ ParentsInv' /\ \A w : Ancestors(w)' = Ancestors(w)
<1>1. \A w : Ancestors(w)' = Ancestors(w)
  BY DEF Ancestors, ClosedUp
<1>2. Unlinked' = Unlinked
  BY Zenon
<1>3. \A p, s : IsChain(p, s)' <=> IsChain(p, s)
  BY DEF IsChain
<1>4. \A p : Linked(p)' = Linked(p)
  BY <1>2 DEF Linked
<1>5. ListsInv'
  BY <1>2, <1>3, <1>4 DEF ListsInv
<1>6. ParentsInv'
  BY <1>1 DEF ParentsInv
<1> QED
  BY <1>1, <1>5, <1>6

(* A procedure makes a call: f is pushed.                                   *)
LEMMA CallMade ==
    ASSUME TreeType, CallsInv, LoopsInv, TerminateInv, NEW f \in FrameType, stack' = <<f>> \o stack,
           stack # <<>> => stack[1].at \notin {"children", "terminate"},
           f.at \in {"create", "destroy", "send"}, f.at = "create" => f.new, f.at = "destroy" => ~f.new,
           live \subseteq live', \A w \in live : Ancestors(w)' \subseteq Ancestors(w),
           \A w \in live : child'[w] = child[w] /\ sibling'[w] = sibling[w] /\ parent'[w] = parent[w],
           f.at # "send" => f.win \in live' /\ \A k \in DOMAIN stack : Works(k) => stack[k].win # f.win,
           f.at # "send" => \A k \in DOMAIN stack : Works(k) => f.win \notin Ancestors(stack[k].win),
           f.at = "destroy" => \A k \in DOMAIN stack : stack[k].at = "children" => stack[k].i # f.win,
           f.at = "create" => \A k \in DOMAIN stack :
                  stack[k].at # "terminate" /\ (stack[k].at = "children" => parent'[f.win] # stack[k].win),
           f.at # "create" => live' = live
    PROVE  CallsInv' /\ LoopsInv' /\ TerminateInv'
<1> DEFINE n == Len(stack)
<1>1. /\ n \in Nat /\ DOMAIN stack = 1 .. n /\ DOMAIN stack' = 1 .. n + 1 /\ Len(stack') = n + 1 /\ stack'[1] = f
      /\ \A k \in 1 .. n + 1 : k # 1 => k - 1 \in 1 .. n /\ stack'[k] = stack[k - 1]
      /\ stack = <<>> <=> n = 0
  <2>1. stack \in Seq(FrameType)
    BY DEF TreeType
  <2>2. n \in Nat /\ DOMAIN stack = 1 .. n /\ (stack = <<>> <=> n = 0)
    BY <2>1
  <2> QED
    BY <2>1, <2>2, Pushed
<1> HIDE DEF n
<1>2. \A k \in 1 .. n + 1 : k # 1 => (Works(k)' <=> Works(k - 1)) /\ (Ends(k)' <=> Ends(k - 1))
  BY <1>1 DEF Works, Ends
<1>3. (Works(1)' <=> f.at # "send") /\ (Ends(1)' <=> f.at = "destroy") /\ (f.at = "destroy" => f.at # "send")
  BY <1>1 DEF Works, Ends
<1>4. \A k \in 1 .. n : Ends(k) => Works(k)
  BY DEF Works, Ends
<1>5. \A k \in 1 .. n : Works(k) => stack[k].win \in live /\ (~Ends(k) => stack[k].new)
  BY <1>1 DEF CallsInv
<1>6. CallsInv'
  <2>1. ASSUME NEW k \in DOMAIN stack', Works(k)'
        PROVE  stack'[k].win \in live' /\ (~Ends(k)' => stack'[k].new)
    BY <2>1, <1>1, <1>2, <1>3, <1>5
  <2>2. ASSUME NEW k \in DOMAIN stack', NEW l \in DOMAIN stack', Works(k)', Works(l)', stack'[k].win = stack'[l].win
        PROVE  k = l
    <3>1. CASE k # 1 /\ l # 1
      <4>1. k - 1 = l - 1
        BY <3>1, <2>2, <1>1, <1>2 DEF CallsInv
      <4> QED
        BY <4>1, <1>1
    <3>2. CASE k = 1
      BY <3>2, <2>2, <1>1, <1>2, <1>3
    <3>3. CASE l = 1
      BY <3>3, <2>2, <1>1, <1>2, <1>3
    <3> QED
      BY <3>1, <3>2, <3>3
  <2>3. ASSUME NEW k \in DOMAIN stack', NEW l \in DOMAIN stack', k < l, Works(k)', Works(l)'
        PROVE  (stack[k].win \notin Ancestors(stack[l].win))'
    <3>1. l # 1 /\ l - 1 \in 1 .. n /\ stack'[l] = stack[l - 1] /\ Works(l - 1) /\ stack[l - 1].win \in live
      BY <2>3, <1>1, <1>2, <1>5
    <3>2. stack'[k].win \notin Ancestors(stack[l - 1].win)
      <4>1. CASE k = 1
        BY <4>1, <3>1, <2>3, <1>1, <1>3
      <4>2. CASE k # 1
        <5>1. k - 1 \in 1 .. n /\ stack'[k] = stack[k - 1] /\ Works(k - 1) /\ k - 1 < l - 1
          BY <4>2, <2>3, <1>1, <1>2
        <5> QED
          BY <5>1, <3>1, <1>1 DEF CallsInv
      <4> QED
        BY <4>1, <4>2
    <3>3. PICK v \in live : v = stack[l - 1].win
      BY <3>1
    <3>4. (Ancestors(stack[l].win))' = Ancestors(v)'
      BY <3>1, <3>3 DEF Ancestors, ClosedUp
    <3>5. Ancestors(v)' \subseteq Ancestors(v)
      BY <3>3
    <3> QED
      BY <3>2, <3>3, <3>4, <3>5
  <2> QED
    BY <2>1, <2>2, <2>3 DEF CallsInv
<1>7. LoopsInv'
  <2> SUFFICES ASSUME NEW k \in DOMAIN stack', stack'[k].at = "children"
               PROVE  /\ \A w \in Unlinked' : parent'[w] # stack'[k].win
                      /\ \A l \in 1 .. k - 1 : Ends(l)' => stack'[l].win # stack'[k].i
                      /\ k > 1
                      /\ Ends(k - 1)' /\ ~stack'[k - 1].new
                      /\ child'[stack'[k].win] = stack'[k - 1].win
                      /\ stack'[k].i = sibling'[stack'[k - 1].win]
    BY <1>1 DEF LoopsInv
  <2>1. k - 1 \in 1 .. n /\ stack'[k] = stack[k - 1] /\ stack[k - 1].at = "children" /\ k # 1 /\ k \in 1 .. n + 1
    BY <1>1
  <2>2. k - 1 # 1 /\ k - 2 \in 1 .. n /\ stack'[k - 1] = stack[k - 2] /\ k - 1 \in 1 .. n + 1
    BY <2>1, <1>1
  <2>3. Works(k - 1) /\ stack[k - 1].win \in live
    BY <2>1, <1>5 DEF Works
  <2>4. /\ \A w \in Unlinked : parent[w] # stack[k - 1].win
        /\ \A l \in 1 .. k - 2 : Ends(l) => stack[l].win # stack[k - 1].i
        /\ Ends(k - 2) /\ ~stack[k - 2].new
        /\ child[stack[k - 1].win] = stack[k - 2].win
        /\ stack[k - 1].i = sibling[stack[k - 2].win]
    <3>1. k - 1 > 1 /\ k - 1 - 1 = k - 2 /\ k - 1 \in DOMAIN stack
      BY <2>1, <2>2, <1>1
    <3> QED
      BY <3>1, <2>1 DEF LoopsInv
  <2>5. Ends(k - 1)' /\ stack[k - 2].win \in live
    BY <2>2, <2>4, <1>2, <1>4, <1>5, <1>1
  <2>6. ASSUME NEW l \in 1 .. k - 1, Ends(l)' PROVE stack'[l].win # stack'[k].i
    <3>1. CASE l = 1
      BY <3>1, <2>6, <2>1, <2>3, <1>1, <1>3
    <3>2. CASE l # 1
      <4>1. l - 1 \in 1 .. k - 2 /\ stack'[l] = stack[l - 1] /\ Ends(l - 1)
        BY <3>2, <2>6, <2>1, <1>1, <1>2
      <4> QED
        BY <4>1, <2>4, <2>1
    <3> QED
      BY <3>1, <3>2
  <2>7. ASSUME NEW w \in Unlinked' PROVE parent'[w] # stack'[k].win
    <3>1. PICK j \in DOMAIN stack' : Works(j)' /\ stack'[j].new /\ stack'[j].win = w
      BY <2>7, UnlinkedIs
    <3>2. CASE j = 1
      <4>1. f.at = "create" /\ w = f.win
        BY <3>1, <3>2, <1>1, <1>3 DEF FrameType
      <4> QED
        BY <4>1, <2>1, <1>1
    <3>3. CASE j # 1
      <4>1. j - 1 \in DOMAIN stack /\ Works(j - 1) /\ stack[j - 1].new /\ stack[j - 1].win = w
        BY <3>1, <3>3, <1>1, <1>2
      <4>2. w \in Unlinked /\ w \in live
        BY <4>1, UnlinkedIs DEF CallsInv
      <4> QED
        BY <4>2, <2>4, <2>1
    <3> QED
      BY <3>2, <3>3
  <2>8. child'[stack'[k].win] = stack'[k - 1].win /\ stack'[k].i = sibling'[stack'[k - 1].win] /\ ~stack'[k - 1].new
    BY <2>1, <2>2, <2>3, <2>4, <2>5
  <2> QED
    BY <2>1, <2>2, <2>5, <2>6, <2>7, <2>8
<1>8. TerminateInv'
  <2> SUFFICES ASSUME NEW k \in DOMAIN stack', stack'[k].at = "terminate"
               PROVE  /\ k = Len(stack') /\ stack'[k].i \in 1 .. NumWindows + 1
                      /\ k > 1 /\ Ends(k - 1)' /\ stack'[k - 1].win = stack'[k].i - 1
                      /\ \A w \in live' : w >= stack'[k].i - 1
    BY <1>1 DEF TerminateInv
  <2>1. k - 1 \in 1 .. n /\ stack'[k] = stack[k - 1] /\ stack[k - 1].at = "terminate" /\ k # 1 /\ k \in 1 .. n + 1
    BY <1>1
  <2>2. k - 1 # 1 /\ k - 2 \in 1 .. n /\ stack'[k - 1] = stack[k - 2] /\ k - 1 \in 1 .. n + 1 /\ k - 1 - 1 = k - 2
    BY <2>1, <1>1
  <2>3. /\ k - 1 = n /\ stack[k - 1].i \in 1 .. NumWindows + 1
        /\ Ends(k - 2) /\ stack[k - 2].win = stack[k - 1].i - 1
        /\ \A w \in live : w >= stack[k - 1].i - 1
    BY <2>1, <2>2, <1>1 DEF TerminateInv, n
  <2>4. Ends(k - 1)' /\ f.at # "create" /\ live' = live
    BY <2>1, <2>2, <2>3, <1>1, <1>2
  <2> QED
    BY <2>1, <2>2, <2>3, <2>4, <1>1
<1> QED
  BY <1>6, <1>7, <1>8

-----------------------------------------------------------------------------
(* The calls of the program.                                                *)
(* The program has its turn in no loop.                                     *)
LEMMA TurnIs ==
    ASSUME Turn, stack # <<>>
    PROVE  stack[1].at \notin {"children", "terminate"}
BY DEF Turn, InCallback, Top

(* A push and the windows that are unlinked.                                *)
LEMMA PushUnlinked ==
    ASSUME TreeType, NEW f \in FrameType, stack' = <<f>> \o stack
    PROVE  /\ f.at \in {"create", "adjust", "destroy", "children"} /\ f.new =>
                 \A w : w \in Unlinked' <=> w = f.win \/ w \in Unlinked
           /\ ~(f.at \in {"create", "adjust", "destroy", "children"} /\ f.new) =>
                 \A w : w \in Unlinked' <=> w \in Unlinked
<1>1. /\ stack'[1] = f /\ 1 \in DOMAIN stack'
      /\ \A k \in DOMAIN stack' : k # 1 => k - 1 \in DOMAIN stack /\ stack'[k] = stack[k - 1]
      /\ \A k \in DOMAIN stack : k + 1 \in DOMAIN stack' /\ stack'[k + 1] = stack[k] /\ k + 1 # 1
  <2>1. stack \in Seq(FrameType)
    BY DEF TreeType
  <2>2. Len(stack) \in Nat /\ DOMAIN stack = 1 .. Len(stack)
    BY <2>1
  <2> QED
    BY <2>1, <2>2, Pushed
<1>2. ASSUME NEW w
      PROVE  w \in Unlinked' <=>
                \/ w = f.win /\ f.at \in {"create", "adjust", "destroy", "children"} /\ f.new
                \/ w \in Unlinked
  <2>1. ASSUME w \in Unlinked'
        PROVE  \/ w = f.win /\ f.at \in {"create", "adjust", "destroy", "children"} /\ f.new
               \/ w \in Unlinked
    <3>1. PICK j \in DOMAIN stack' : Works(j)' /\ stack'[j].new /\ stack'[j].win = w
      BY <2>1, UnlinkedIs
    <3> QED
      BY <3>1, <1>1, UnlinkedIs DEF Works
  <2>2. ASSUME w = f.win, f.at \in {"create", "adjust", "destroy", "children"}, f.new
        PROVE  w \in Unlinked'
    <3>1. PICK j \in DOMAIN stack' : stack'[j] = f
      BY <1>1
    <3>2. Works(j)' /\ stack'[j].new /\ stack'[j].win = w
      BY <2>2, <3>1 DEF Works
    <3> QED
      BY <3>2, UnlinkedIs
  <2>3. ASSUME w \in Unlinked
        PROVE  w \in Unlinked'
    <3>1. PICK j \in DOMAIN stack : Works(j) /\ stack[j].new /\ stack[j].win = w
      BY <2>3, UnlinkedIs
    <3>2. j + 1 \in DOMAIN stack' /\ Works(j + 1)' /\ stack'[j + 1] = stack[j]
      BY <3>1, <1>1 DEF Works
    <3> QED
      BY <3>1, <3>2, UnlinkedIs
  <2> QED
    BY <2>1, <2>2, <2>3
<1> QED
  BY <1>2

BeingDestroyed(w) == \E k \in DOMAIN stack : Ends(k) /\ stack[k].win = w

(* A push and who is being destroyed.                                       *)
LEMMA PushEnds ==
    ASSUME TreeType, NEW f \in FrameType, stack' = <<f>> \o stack, NEW w
    PROVE  BeingDestroyed(w)' <=> BeingDestroyed(w) \/ (f.at \in {"destroy", "children"} /\ f.win = w)
<1>1. /\ stack'[1] = f /\ 1 \in DOMAIN stack'
      /\ \A k \in DOMAIN stack' : k # 1 => k - 1 \in DOMAIN stack /\ stack'[k] = stack[k - 1]
      /\ \A k \in DOMAIN stack : k + 1 \in DOMAIN stack' /\ stack'[k + 1] = stack[k] /\ k + 1 # 1
  <2>1. stack \in Seq(FrameType)
    BY DEF TreeType
  <2>2. Len(stack) \in Nat /\ DOMAIN stack = 1 .. Len(stack)
    BY <2>1
  <2> QED
    BY <2>1, <2>2, Pushed
<1>2. BeingDestroyed(w)' => BeingDestroyed(w) \/ (f.at \in {"destroy", "children"} /\ f.win = w)
  BY <1>1 DEF BeingDestroyed, Ends
<1>3. f.at \in {"destroy", "children"} /\ f.win = w => BeingDestroyed(w)'
  BY <1>1 DEF BeingDestroyed, Ends
<1>4. ASSUME BeingDestroyed(w) PROVE BeingDestroyed(w)'
  <2>1. PICK k \in DOMAIN stack : Ends(k) /\ stack[k].win = w
    BY <1>4 DEF BeingDestroyed
  <2> QED
    BY <2>1, <1>1 DEF BeingDestroyed, Ends
<1> QED
  BY <1>2, <1>3, <1>4

(* The invariant on WM_DESTROY, in these words, before and after a step.    *)
LEMMA ToldIs ==
    /\ ToldInv <=> \A w \in live : told[w] = IF BeingDestroyed(w) THEN 1 ELSE 0
    /\ ToldInv' <=> \A w \in live' : told'[w] = IF BeingDestroyed(w)' THEN 1 ELSE 0
<1>1. ToldInv <=> \A w \in live : told[w] = IF BeingDestroyed(w) THEN 1 ELSE 0
  BY DEF ToldInv, BeingDestroyed
<1>2. ToldInv' <=> \A w \in live' : told'[w] = IF BeingDestroyed(w)' THEN 1 ELSE 0
  BY DEF ToldInv, BeingDestroyed
<1> QED
  BY <1>1, <1>2

(* WinSendMsg and WinDispatchMsg.                                           *)
LEMMA SendMade ==
    ASSUME TreeInv, Turn, NEW w \in live, Push(Frame("send", w, Null, FALSE)), UNCHANGED <<program, windowVars>>
    PROVE  TreeInv'
<1> DEFINE f == Frame("send", w, Null, FALSE)
<1>1. TreeType /\ ListsInv /\ ParentsInv /\ CallsInv /\ LoopsInv /\ TerminateInv /\ ToldInv
  BY DEF TreeInv
<1>2. f \in FrameType /\ f.at = "send" /\ stack' = <<f>> \o stack
  <2>1. w \in Window
    BY <1>1 DEF TreeType
  <2> QED
    BY <2>1 DEF Frame, FrameType, Push
<1> HIDE DEF f
<1>3. UNCHANGED <<live, parent, child, sibling, owner, told>>
  BY DEF windowVars
<1>4. TreeType'
  <2>1. stack' \in Seq(FrameType)
    BY <1>1, <1>2, Pushed DEF TreeType
  <2> QED
    BY <1>1, <1>3, <2>1 DEF TreeType
<1>5. ListsInv' /\ ParentsInv' /\ \A v : Ancestors(v)' = Ancestors(v)
  <2>1. \A v : v \in Unlinked' <=> v \in Unlinked
    BY <1>1, <1>2, PushUnlinked
  <2> QED
    BY <1>1, <1>3, <2>1, TreeKept
<1>6. CallsInv' /\ LoopsInv' /\ TerminateInv'
  <2>1. \A v \in live : Ancestors(v)' \subseteq Ancestors(v)
    BY <1>5
  <2>2. stack # <<>> => stack[1].at \notin {"children", "terminate"}
    BY TurnIs
  <2> QED
    BY <1>1, <1>2, <1>3, <2>1, <2>2, CallMade
<1>7. ToldInv'
  <2>1. \A v : BeingDestroyed(v)' <=> BeingDestroyed(v)
    BY <1>1, <1>2, PushEnds
  <2> QED
    BY <1>1, <1>3, <2>1, ToldIs
<1> QED
  BY <1>4, <1>5, <1>6, <1>7 DEF TreeInv

(* What a program keeps from, said of the frames of the stack.              *)
LEMMA MayDestroyIs ==
    ASSUME NEW w, MayDestroy(w), NEW k \in DOMAIN stack, Works(k)
    PROVE  w \notin Ancestors(stack[k].win) /\ (stack[k].at = "children" => stack[k].i # w)
BY DEF MayDestroy, Working, Frames, Works

(* WinDestroyWindow: no call in progress relies on this window.             *)
LEMMA DestroyMade ==
    ASSUME TreeInv, NEW w \in Window, WinDestroyWindow(w)
    PROVE  TreeInv'
<1> DEFINE f == Frame("destroy", w, Null, FALSE)
<1>1. TreeType /\ ListsInv /\ ParentsInv /\ CallsInv /\ LoopsInv /\ TerminateInv /\ ToldInv
  BY DEF TreeInv
<1>2. f \in FrameType /\ f.at = "destroy" /\ stack' = <<f>> \o stack /\ f.win = w /\ ~f.new
  BY DEF Frame, FrameType, Push, WinDestroyWindow
<1> HIDE DEF f
<1>3. /\ UNCHANGED <<program, live, parent, child, sibling, owner>> /\ w \in live /\ MayDestroy(w)
      /\ told' = [told EXCEPT ![w] = IF told[w] = 2 THEN 2 ELSE told[w] + 1]
  BY DEF WinDestroyWindow, Told
<1>4. ASSUME NEW k \in DOMAIN stack, Works(k)
      PROVE  /\ w \notin Ancestors(stack[k].win) /\ stack[k].win # w
             /\ stack[k].at = "children" => stack[k].i # w
  <2>1. w \notin Ancestors(stack[k].win) /\ (stack[k].at = "children" => stack[k].i # w)
    BY <1>3, <1>4, MayDestroyIs
  <2>2. w \in Ancestors(w)
    BY <1>1, PlaceFacts, AncestorsUp
  <2> QED
    BY <2>1, <2>2
<1>5. ~BeingDestroyed(w) /\ told[w] = 0
  <2>1. ~BeingDestroyed(w)
    BY <1>4 DEF BeingDestroyed, Ends, Works
  <2> QED
    BY <1>1, <1>3, <2>1, ToldIs
<1>6. TreeType'
  <2>1. stack' \in Seq(FrameType)
    BY <1>1, <1>2, Pushed DEF TreeType
  <2>2. told' \in [Window -> 0 .. 2] /\ told \in [Window -> 0 .. 2]
    BY <1>1, <1>3, <1>5 DEF TreeType
  <2> QED
    BY <1>1, <1>3, <2>1, <2>2 DEF TreeType
<1>7. ListsInv' /\ ParentsInv' /\ \A v : Ancestors(v)' = Ancestors(v)
  <2>1. \A v : v \in Unlinked' <=> v \in Unlinked
    BY <1>1, <1>2, PushUnlinked
  <2> QED
    BY <1>1, <1>3, <2>1, TreeKept
<1>8. CallsInv' /\ LoopsInv' /\ TerminateInv'
  <2>1. \A v \in live : Ancestors(v)' \subseteq Ancestors(v)
    BY <1>7
  <2>2. stack # <<>> => stack[1].at \notin {"children", "terminate"}
    BY TurnIs DEF WinDestroyWindow
  <2>3. \A k \in DOMAIN stack : stack[k].at = "children" => stack[k].i # w
    BY <1>4 DEF Works
  <2> QED
    BY <1>1, <1>2, <1>3, <1>4, <2>1, <2>2, <2>3, CallMade
<1>9. ToldInv'
  <2>1. \A v : BeingDestroyed(v)' <=> BeingDestroyed(v) \/ v = w
    BY <1>1, <1>2, PushEnds
  <2>2. told'[w] = 1 /\ \A v \in live : v # w => told'[v] = told[v]
    BY <1>1, <1>3, <1>5 DEF TreeType
  <2> QED
    BY <1>1, <1>3, <2>1, <2>2, ToldIs
<1> QED
  BY <1>6, <1>7, <1>8, <1>9 DEF TreeInv

(* A list stays what it was where no step has touched it.                   *)
LEMMA ChainStays ==
    ASSUME NEW p, NEW s, IsChain(p, s), child'[p] = child[p], \A v \in ToSet(s) : sibling'[v] = sibling[v]
    PROVE  IsChain(p, s)'
<1>1. \A i \in DOMAIN s : s[i] \in ToSet(s)
  BY DEF ToSet
<1> QED
  BY <1>1 DEF IsChain

(* The lowest free place is one.                                            *)
LEMMA FreePlace ==
    ASSUME TreeType, Cardinality(live) < program.windows
    PROVE  Min(Window \ live) \in Window \ live
<1>1. NumWindows \in Nat /\ program.windows <= NumWindows /\ program.windows \in Nat
  BY WindowsAssumption, ProgramsAssumption DEF TreeType
<1>2. Cardinality(Window) = NumWindows
  BY <1>1, FS_Interval DEF Window
<1>3. Window \ live # {}
  <2>1. SUFFICES ASSUME Window \ live = {} PROVE FALSE
    OBVIOUS
  <2>2. live = Window
    BY <2>1 DEF TreeType
  <2> QED
    BY <1>1, <1>2, <2>2
<1>4. Window \ live \in SUBSET Nat
  BY PlaceFacts
<1>5. \E x \in Window \ live : \A y \in Window \ live : x <= y
  BY <1>3, <1>4, HasLeast
<1> QED
  BY <1>5 DEF Min

(* WinCreateWindow: the new window is in no list and has no child.          *)
LEMMA CreateMade ==
    ASSUME TreeInv, NEW p \in Place, NEW shown, NEW owned, WinCreateWindow(p, shown, owned)
    PROVE  TreeInv'
<1>1. TreeType /\ ListsInv /\ ParentsInv /\ CallsInv /\ LoopsInv /\ TerminateInv /\ ToldInv
  BY DEF TreeInv
<1>2. PICK w \in Window \ live : w = Min(Window \ live)
  BY <1>1, FreePlace DEF WinCreateWindow
<1> DEFINE f == Frame("create", w, Null, TRUE)
<1>3. /\ live' = live \cup {w} /\ parent' = [parent EXCEPT ![w] = p]
      /\ owner' = [owner EXCEPT ![w] = IF owned THEN p ELSE Null]
      /\ child' = [child EXCEPT ![w] = Null] /\ sibling' = [sibling EXCEPT ![w] = Null]
      /\ told' = [told EXCEPT ![w] = 0] /\ stack' = <<f>> \o stack /\ program' = program
      /\ p \in live \cup {Desktop} /\ MayCreate(p) /\ Turn
  BY <1>2 DEF WinCreateWindow, Push
<1>4. f \in FrameType /\ f.at = "create" /\ f.win = w /\ f.new
  BY DEF Frame, FrameType
<1> HIDE DEF f
<1>5. /\ parent' \in [Window -> Place \cup {Null}] /\ parent'[w] = p /\ child'[w] = Null /\ sibling'[w] = Null
      /\ owner'[w] \in {p, Null} /\ told'[w] = 0
      /\ \A v \in live : /\ child'[v] = child[v] /\ sibling'[v] = sibling[v] /\ parent'[v] = parent[v]
                         /\ owner'[v] = owner[v] /\ told'[v] = told[v] /\ v # w
      /\ child'[Desktop] = child[Desktop] /\ w \notin live \cup {Desktop} /\ w \in live'
  BY <1>1, <1>3, PlaceFacts DEF TreeType
<1>6. TreeType'
  <2>1. stack' \in Seq(FrameType)
    BY <1>1, <1>3, <1>4, Pushed DEF TreeType
  <2>2. owner' \in [Window -> Place \cup {Null}]
    BY <1>1, <1>3 DEF TreeType
  <2>3. child' \in [Place -> Window \cup {Null}]
    BY <1>1, <1>3 DEF TreeType
  <2>4. sibling' \in [Window -> Window \cup {Null}]
    BY <1>1, <1>3 DEF TreeType
  <2>5. told' \in [Window -> 0 .. 2]
    <3>1. told \in [Window -> 0 .. 2] /\ 0 \in 0 .. 2
      BY <1>1 DEF TreeType
    <3> QED
      BY <1>3, <3>1
  <2> QED
    BY <1>1, <1>3, <1>5, <2>1, <2>2, <2>3, <2>4, <2>5 DEF TreeType
<1>7. ASSUME NEW v \in live \cup {Desktop}
      PROVE  Ancestors(v)' \subseteq Ancestors(v) /\ w \notin Ancestors(v)
  <2>1. Ancestors(v) \subseteq live \cup {Desktop} /\ v \in Place
    BY <1>1, AncestorsLive, PlaceFacts DEF TreeType
  <2>2. \A u \in Ancestors(v) \cap Window : parent'[u] = parent[u]
    BY <2>1, <1>5, PlaceFacts
  <2> QED
    BY <1>1, <1>5, <2>1, <2>2, AncestorsStay
<1>8. \A v : v \in Unlinked' <=> v = w \/ v \in Unlinked
  BY <1>1, <1>3, <1>4, PushUnlinked
<1>9. Unlinked \subseteq live
  BY <1>1, UnlinkedLive
<1>10. ListsInv'
  <2>1. ASSUME NEW q \in live \cup {Desktop}
        PROVE  \E s : IsChain(q, s)' /\ ToSet(s) = Linked(q)'
    <3>1. PICK s : IsChain(q, s) /\ ToSet(s) = Linked(q)
      BY <1>1 DEF ListsInv
    <3>2. Linked(q)' = Linked(q)
      BY <1>3, <1>5, <1>8, <1>9 DEF Linked
    <3>3. child'[q] = child[q] /\ \A v \in ToSet(s) : sibling'[v] = sibling[v]
      BY <3>1, <1>5 DEF Linked
    <3> QED
      BY <3>1, <3>2, <3>3, ChainStays
  <2>2. IsChain(w, <<>>)' /\ Linked(w)' = {} /\ ToSet(<<>>) = {}
    <3>1. Linked(w)' = {}
      <4>1. ASSUME NEW v \in live PROVE parent'[v] # w
        <5>1. parent[v] \in live \cup {Desktop}
          BY <1>1 DEF ParentsInv
        <5> QED
          BY <5>1, <1>5
      <4> QED
        BY <4>1, <1>3, <1>8 DEF Linked
    <3>2. IsChain(w, <<>>)'
      BY <1>5 DEF IsChain
    <3> QED
      BY <3>1, <3>2 DEF ToSet
  <2>3. \A v \in Unlinked' : sibling'[v] = Null
    BY <1>1, <1>5, <1>8, <1>9 DEF ListsInv
  <2>4. \A q \in live' \cup {Desktop} : \E s : IsChain(q, s)' /\ ToSet(s) = Linked(q)'
    BY <2>1, <2>2, <1>3
  <2> QED
    BY <2>3, <2>4 DEF ListsInv
<1>11. ParentsInv'
  <2>1. ASSUME NEW v \in live
        PROVE  /\ parent'[v] \in live' \cup {Desktop} /\ owner'[v] \in {parent'[v], Null}
               /\ (v \notin Ancestors(parent[v]))'
    <3>1. PICK q \in live \cup {Desktop} : q = parent[v] /\ v \notin Ancestors(q) /\ owner[v] \in {q, Null}
      BY <1>1 DEF ParentsInv
    <3>2. parent'[v] = q /\ owner'[v] \in {q, Null}
      BY <3>1, <1>5
    <3>3. v \notin Ancestors(q)'
      BY <3>1, <1>7
    <3>4. (Ancestors(parent[v]))' = Ancestors(q)'
      BY <3>2 DEF Ancestors, ClosedUp
    <3> QED
      BY <3>2, <3>3, <3>4, <3>1, <1>3
  <2>2. /\ parent'[w] \in live' \cup {Desktop} /\ owner'[w] \in {parent'[w], Null}
        /\ (w \notin Ancestors(parent[w]))'
    <3>1. w \notin Ancestors(p)'
      BY <1>3, <1>7
    <3>2. (Ancestors(parent[w]))' = Ancestors(p)'
      BY <1>5 DEF Ancestors, ClosedUp
    <3> QED
      BY <3>1, <3>2, <1>3, <1>5
  <2> QED
    BY <2>1, <2>2, <1>3 DEF ParentsInv
<1>12. CallsInv' /\ LoopsInv' /\ TerminateInv'
  <2>1. \A v \in live : Ancestors(v)' \subseteq Ancestors(v)
    BY <1>7
  <2>2. stack # <<>> => stack[1].at \notin {"children", "terminate"}
    BY <1>3, TurnIs
  <2>3. \A k \in DOMAIN stack : Works(k) => stack[k].win # w /\ w \notin Ancestors(stack[k].win)
    BY <1>1, <1>5, <1>7 DEF CallsInv
  <2>4. \A k \in DOMAIN stack : /\ stack[k].at # "terminate"
                                /\ stack[k].at = "children" => parent'[w] # stack[k].win
    BY <1>3, <1>5 DEF MayCreate, Frames
  <2> QED
    BY <1>1, <1>3, <1>4, <1>5, <2>1, <2>2, <2>3, <2>4, CallMade
<1>13. ToldInv'
  <2>1. \A v : BeingDestroyed(v)' <=> BeingDestroyed(v)
    BY <1>1, <1>3, <1>4, PushEnds
  <2>2. ~BeingDestroyed(w)
    BY <1>1, <1>5 DEF BeingDestroyed, CallsInv, Ends, Works
  <2> QED
    BY <1>1, <1>3, <1>5, <2>1, <2>2, ToldIs
<1> QED
  BY <1>6, <1>10, <1>11, <1>12, <1>13 DEF TreeInv

-----------------------------------------------------------------------------
(* A procedure returns, and the call goes on with f.                        *)
LEMMA CallGoesOn ==
    ASSUME TreeType, CallsInv, LoopsInv, TerminateInv, stack # <<>>, NEW f \in FrameType,
           stack' = <<f>> \o Tail(stack), stack[1].at \notin {"children", "terminate"}, f.at # "terminate",
           UNCHANGED <<live, parent, child, sibling>>,
           f.at = "send" <=> stack[1].at = "send",
           f.at # "send" => f.win = stack[1].win /\ f.new = stack[1].new,
           stack[1].at = "destroy" => f.at = "children", f.at \in {"create", "adjust"} => f.new,
           f.at \in {"destroy", "children"} =>
               \A k \in DOMAIN stack : stack[k].at = "children" => stack[k].i # f.win,
           f.at = "children" => f.i = child[f.win] /\ \A w \in Unlinked : parent[w] # f.win
    PROVE  /\ CallsInv' /\ LoopsInv' /\ TerminateInv' /\ \A w : w \in Unlinked' <=> w \in Unlinked
           /\ \A w : BeingDestroyed(w)' <=>
                        BeingDestroyed(w) \/ (f.at \in {"destroy", "children"} /\ f.win = w)
<1> DEFINE n == Len(stack)
<1>1. /\ n \in Nat \ {0} /\ DOMAIN stack = 1 .. n /\ DOMAIN stack' = 1 .. n /\ Len(stack') = n /\ stack'[1] = f
      /\ \A k \in 1 .. n : k # 1 => stack'[k] = stack[k]
      /\ stack[1] \in FrameType
  <2>1. stack \in Seq(FrameType)
    BY DEF TreeType
  <2>2. stack[1] \in FrameType
    BY <2>1
  <2> QED
    BY <2>1, <2>2, Replaced
<1> HIDE DEF n
<1>2. 1 \in 1 .. n
  BY <1>1
<1>3. Works(1)' <=> Works(1)
  BY <1>1 DEF Works, FrameType
<1>4. \A k \in 1 .. n : Works(k)' <=> Works(k)
  <2>1. \A k \in 1 .. n : k # 1 => (Works(k)' <=> Works(k))
    BY <1>1 DEF Works
  <2> QED
    BY <2>1, <1>3
<1>5. \A k \in 1 .. n : k # 1 => (Ends(k)' <=> Ends(k))
  BY <1>1 DEF Ends
<1>6. (Ends(1) => Ends(1)') /\ (Ends(1)' <=> f.at \in {"destroy", "children"})
  BY <1>1 DEF Ends
<1>7. \A k \in 1 .. n : Works(k) => stack'[k].win = stack[k].win /\ stack'[k].new = stack[k].new
  <2>1. Works(1) => f.at # "send"
    BY DEF Works
  <2> QED
    BY <2>1, <1>1
<1>8. CallsInv'
  <2>1. ASSUME NEW k \in DOMAIN stack', Works(k)'
        PROVE  stack'[k].win \in live' /\ (~Ends(k)' => stack'[k].new)
    <3>1. k \in DOMAIN stack /\ Works(k) /\ stack'[k].win \in live'
      BY <2>1, <1>1, <1>4, <1>7 DEF CallsInv
    <3>2. CASE k # 1
      BY <3>1, <3>2, <1>1, <1>5 DEF CallsInv
    <3>3. CASE k = 1
      BY <2>1, <3>1, <3>3, <1>1 DEF Ends, Works
    <3> QED
      BY <3>2, <3>3
  <2>2. ASSUME NEW k \in DOMAIN stack', NEW l \in DOMAIN stack', Works(k)', Works(l)', stack'[k].win = stack'[l].win
        PROVE  k = l
    BY <2>2, <1>1, <1>4, <1>7 DEF CallsInv
  <2>3. ASSUME NEW k \in DOMAIN stack', NEW l \in DOMAIN stack', k < l, Works(k)', Works(l)'
        PROVE  (stack[k].win \notin Ancestors(stack[l].win))'
    <3>1. stack[k].win \notin Ancestors(stack[l].win)
      BY <2>3, <1>1, <1>4 DEF CallsInv
    <3>2. stack'[k].win = stack[k].win /\ stack'[l].win = stack[l].win
      BY <2>3, <1>1, <1>4, <1>7
    <3>3. (Ancestors(stack[l].win))' = Ancestors(stack[l].win)
      BY <3>2 DEF Ancestors, ClosedUp
    <3> QED
      BY <3>1, <3>2, <3>3
  <2> QED
    BY <2>1, <2>2, <2>3 DEF CallsInv
<1>9. \A w : w \in Unlinked' <=> w \in Unlinked
  <2>1. ASSUME NEW w
        PROVE  w \in Unlinked' <=> w \in Unlinked
    <3>1. ASSUME NEW k \in 1 .. n
          PROVE  (Works(k)' /\ stack'[k].new /\ stack'[k].win = w) <=> (Works(k) /\ stack[k].new /\ stack[k].win = w)
      BY <1>4, <1>7
    <3>2. ASSUME w \in Unlinked PROVE w \in Unlinked'
      <4>1. PICK k \in DOMAIN stack : Works(k) /\ stack[k].new /\ stack[k].win = w
        BY <3>2, UnlinkedIs
      <4> QED
        BY <3>1, <4>1, <1>1, UnlinkedIs, ZenonT(60)
    <3>3. ASSUME w \in Unlinked' PROVE w \in Unlinked
      <4>1. PICK k \in DOMAIN stack' : Works(k)' /\ stack'[k].new /\ stack'[k].win = w
        BY <3>3, UnlinkedIs
      <4> QED
        BY <3>1, <4>1, <1>1, UnlinkedIs
    <3> QED
      BY <3>2, <3>3
  <2> QED
    BY <2>1
<1>10. LoopsInv'
  <2> SUFFICES ASSUME NEW k \in DOMAIN stack', stack'[k].at = "children"
               PROVE  /\ \A w \in Unlinked' : parent'[w] # stack'[k].win
                      /\ \A l \in 1 .. k - 1 : Ends(l)' => stack'[l].win # stack'[k].i
                      /\ k = 1 => stack'[k].i = child'[stack'[k].win]
                      /\ k > 1 => /\ Ends(k - 1)' /\ ~stack'[k - 1].new
                                  /\ child'[stack'[k].win] = stack'[k - 1].win
                                  /\ stack'[k].i = sibling'[stack'[k - 1].win]
    BY DEF LoopsInv
  <2>1. CASE k = 1
    BY <2>1, <1>1, <1>9
  <2>2. CASE k # 1
    <3>1. stack'[k] = stack[k] /\ stack[k].at = "children" /\ k > 1 /\ k \in DOMAIN stack /\ k - 1 \in 1 .. n
      BY <2>2, <1>1
    <3>2. /\ \A w \in Unlinked : parent[w] # stack[k].win
          /\ \A l \in 1 .. k - 1 : Ends(l) => stack[l].win # stack[k].i
          /\ Ends(k - 1) /\ ~stack[k - 1].new
          /\ child[stack[k].win] = stack[k - 1].win
          /\ stack[k].i = sibling[stack[k - 1].win]
      BY <3>1 DEF LoopsInv
    <3>3. Works(k - 1) /\ Ends(k - 1)'
      BY <3>1, <3>2, <1>5, <1>6 DEF Ends, Works
    <3>4. stack'[k - 1].win = stack[k - 1].win /\ stack'[k - 1].new = stack[k - 1].new
      BY <3>1, <3>3, <1>7
    <3>5. ASSUME NEW l \in 1 .. k - 1, Ends(l)' PROVE stack'[l].win # stack'[k].i
      <4>1. CASE l = 1
        BY <4>1, <3>1, <3>5, <1>1, <1>6
      <4>2. CASE l # 1
        BY <4>2, <3>1, <3>2, <3>5, <1>1, <1>5
      <4> QED
        BY <4>1, <4>2
    <3> QED
      BY <3>1, <3>2, <3>3, <3>4, <3>5, <1>9
  <2> QED
    BY <2>1, <2>2
<1>11. TerminateInv'
  <2> SUFFICES ASSUME NEW k \in DOMAIN stack', stack'[k].at = "terminate"
               PROVE  /\ k = Len(stack') /\ stack'[k].i \in 1 .. NumWindows + 1
                      /\ k > 1 /\ Ends(k - 1)' /\ stack'[k - 1].win = stack'[k].i - 1
                      /\ \A w \in live' : w >= stack'[k].i - 1
    BY <1>1 DEF TerminateInv
  <2>1. stack'[k] = stack[k] /\ stack[k].at = "terminate" /\ k > 1 /\ k \in DOMAIN stack /\ k - 1 \in 1 .. n
    BY <1>1
  <2>2. /\ k = n /\ stack[k].i \in 1 .. NumWindows + 1
        /\ Ends(k - 1) /\ stack[k - 1].win = stack[k].i - 1
        /\ \A w \in live : w >= stack[k].i - 1
    BY <2>1 DEF TerminateInv, n
  <2>3. Works(k - 1) /\ Ends(k - 1)'
    BY <2>1, <2>2, <1>5, <1>6 DEF Ends, Works
  <2> QED
    BY <2>1, <2>2, <2>3, <1>1, <1>7
<1>12. ASSUME NEW w
       PROVE  BeingDestroyed(w)' <=> BeingDestroyed(w) \/ (f.at \in {"destroy", "children"} /\ f.win = w)
  <2>1. ASSUME BeingDestroyed(w)' PROVE BeingDestroyed(w) \/ (f.at \in {"destroy", "children"} /\ f.win = w)
    <3>1. PICK k \in DOMAIN stack' : Ends(k)' /\ stack'[k].win = w
      BY <2>1 DEF BeingDestroyed
    <3> QED
      BY <3>1, <1>1, <1>5, <1>6 DEF BeingDestroyed
  <2>2. ASSUME BeingDestroyed(w) PROVE BeingDestroyed(w)'
    <3>1. PICK k \in DOMAIN stack : Ends(k) /\ stack[k].win = w
      BY <2>2 DEF BeingDestroyed
    <3>2. Works(k) /\ Ends(k)' /\ stack'[k].win = w
      BY <3>1, <1>1, <1>5, <1>6, <1>7 DEF Ends, Works
    <3> QED
      BY <3>2, <1>1 DEF BeingDestroyed
  <2>3. ASSUME f.at \in {"destroy", "children"}, f.win = w PROVE BeingDestroyed(w)'
    BY <2>3, <1>1, <1>2, <1>6 DEF BeingDestroyed
  <2> QED
    BY <2>1, <2>2, <2>3
<1> QED
  BY <1>8, <1>9, <1>10, <1>11, <1>12

(* What the loops of destroyWindow still have before them is in a list: it  *)
(* is linked.                                                               *)
LEMMA NextIsLinked ==
    ASSUME TreeType, ListsInv, CallsInv, LoopsInv, NEW k \in DOMAIN stack, stack[k].at = "children"
    PROVE  /\ stack[k].i # Null => stack[k].i \in Linked(stack[k].win)
           /\ k > 1 => stack[k - 1].win \in Linked(stack[k].win)
<1>1. stack[k].win \in live
  BY DEF CallsInv, Works
<1>2. PICK s : IsChain(stack[k].win, s) /\ ToSet(s) = Linked(stack[k].win)
  BY <1>1 DEF ListsInv
<1>3. stack \in Seq(FrameType) /\ k \in Nat \ {0}
  BY DEF TreeType
<1>4. /\ s \in Seq(Window) /\ child[stack[k].win] = IF s = <<>> THEN Null ELSE s[1]
      /\ \A i \in DOMAIN s : sibling[s[i]] = IF i = Len(s) THEN Null ELSE s[i + 1]
  BY <1>2 DEF IsChain
<1>5. \A i \in DOMAIN s : s[i] \in Linked(stack[k].win)
  BY <1>2 DEF ToSet
<1>6. CASE k = 1
  <2>1. stack[k].i = child[stack[k].win]
    BY <1>6 DEF LoopsInv
  <2>2. stack[k].i # Null => s # <<>> /\ 1 \in DOMAIN s /\ stack[k].i = s[1]
    BY <2>1, <1>4
  <2> QED
    BY <2>2, <1>5, <1>6
<1>7. CASE k > 1
  <2>1. child[stack[k].win] = stack[k - 1].win /\ stack[k].i = sibling[stack[k - 1].win]
    BY <1>7 DEF LoopsInv
  <2>2. stack[k - 1].win \in Window
    <3>1. k - 1 \in DOMAIN stack
      BY <1>3, <1>7
    <3>2. stack[k - 1] \in FrameType
      BY <1>3, <3>1
    <3> QED
      BY <3>2 DEF FrameType
  <2>3. s # <<>> /\ 1 \in DOMAIN s /\ stack[k - 1].win = s[1]
    BY <2>1, <2>2, <1>4, PlaceFacts
  <2>4. stack[k].i # Null => Len(s) # 1 /\ stack[k].i = s[2] /\ 2 \in DOMAIN s
    BY <2>1, <2>3, <1>4
  <2> QED
    BY <2>3, <2>4, <1>5
<1> QED
  BY <1>3, <1>6, <1>7

(* WM_CREATE was accepted, or refused; a procedure hands a message on.      *)
LEMMA AnswerTaken ==
    ASSUME TreeInv, WM_CREATE_Accepted \/ WM_CREATE_Refused \/ WinDefWindowProc
    PROVE  TreeInv'
<1>1. TreeType /\ ListsInv /\ ParentsInv /\ CallsInv /\ LoopsInv /\ TerminateInv /\ ToldInv
  BY DEF TreeInv
<1>2. /\ UNCHANGED <<program, live, parent, child, sibling, owner>> /\ stack # <<>>
      /\ stack[1].at \notin {"children", "terminate", "destroy"}
  BY DEF WM_CREATE_Accepted, WM_CREATE_Refused, WinDefWindowProc, windowVars, Top
<1>3. stack \in Seq(FrameType) /\ stack[1] \in FrameType /\ 1 \in DOMAIN stack
  BY <1>1, <1>2 DEF TreeType
<1>4. stack[1].at = "create" => /\ stack[1].new /\ stack[1].win \in live /\ stack[1].win \in Unlinked
                                /\ ~BeingDestroyed(stack[1].win)
  <2>1. stack[1].at = "create" => Works(1) /\ ~Ends(1)
    BY DEF Works, Ends
  <2>2. ASSUME stack[1].at = "create", NEW k \in DOMAIN stack, Ends(k), stack[k].win = stack[1].win
        PROVE  FALSE
    <3>1. k = 1
      BY <1>1, <1>3, <2>1, <2>2 DEF CallsInv, Works, Ends
    <3> QED
      BY <3>1, <2>1, <2>2
  <2> QED
    BY <2>1, <2>2, <1>1, <1>3, UnlinkedIs DEF CallsInv, BeingDestroyed
<1>5. PICK f \in FrameType :
        /\ stack' = <<f>> \o Tail(stack)
        /\ \/ /\ f.at = "send" /\ stack[1].at = "send" /\ told' = told
           \/ /\ f.at = "adjust" /\ stack[1].at = "create" /\ f.win = stack[1].win /\ f.new /\ told' = told
           \/ /\ f.at = "destroy" /\ stack[1].at = "create" /\ f.win = stack[1].win /\ f.new
              /\ told' = [told EXCEPT ![f.win] = IF told[f.win] = 2 THEN 2 ELSE told[f.win] + 1]
  <2>1. CASE WM_CREATE_Accepted
    <3>1. Frame("adjust", stack[1].win, Null, TRUE) \in FrameType
      BY <1>3 DEF Frame, FrameType
    <3> QED
      BY <2>1, <3>1 DEF WM_CREATE_Accepted, Replace, Top, Frame, windowVars
  <2>2. CASE WM_CREATE_Refused
    <3>1. Frame("destroy", stack[1].win, Null, TRUE) \in FrameType
      BY <1>3 DEF Frame, FrameType
    <3> QED
      BY <2>2, <3>1 DEF WM_CREATE_Refused, Replace, Top, Frame, Told
  <2>3. CASE WinDefWindowProc
    <3>1. Frame("send", owner[stack[1].win], Null, FALSE) \in FrameType
      BY <1>3, <2>3 DEF Frame, FrameType, WinDefWindowProc, Top
    <3> QED
      BY <2>3, <3>1 DEF WinDefWindowProc, Replace, Top, Frame, windowVars
  <2> QED
    BY <2>1, <2>2, <2>3
<1>6. f.at = "destroy" => \A k \in DOMAIN stack : stack[k].at = "children" => stack[k].i # f.win
  <2>1. ASSUME f.at = "destroy", NEW k \in DOMAIN stack, stack[k].at = "children", stack[k].i = f.win
        PROVE  FALSE
    <3>1. f.win \in Unlinked /\ stack[k].i # Null
      BY <2>1, <1>4, <1>5, PlaceFacts DEF FrameType
    <3>2. stack[k].i \in Linked(stack[k].win)
      BY <2>1, <3>1, <1>1, NextIsLinked
    <3> QED
      BY <2>1, <3>1, <3>2 DEF Linked
  <2> QED
    BY <2>1
<1>7. /\ CallsInv' /\ LoopsInv' /\ TerminateInv' /\ \A w : w \in Unlinked' <=> w \in Unlinked
      /\ \A w : BeingDestroyed(w)' <=> BeingDestroyed(w) \/ (f.at \in {"destroy", "children"} /\ f.win = w)
  <2>1. /\ f.at # "terminate" /\ f.at # "children" /\ (f.at = "send" <=> stack[1].at = "send")
        /\ f.at # "send" => f.win = stack[1].win /\ f.new = stack[1].new
        /\ f.at \in {"create", "adjust"} => f.new
    BY <1>3, <1>4, <1>5 DEF FrameType
  <2> QED
    BY <1>1, <1>2, <1>5, <1>6, <2>1, CallGoesOn
<1>8. ListsInv' /\ ParentsInv'
  BY <1>1, <1>2, <1>7, TreeKept
<1>9. f.at = "destroy" => told[f.win] = 0 /\ f.win \in live
  BY <1>1, <1>4, <1>5, ToldIs
<1>10. TreeType'
  <2>1. stack' \in Seq(FrameType)
    BY <1>2, <1>3, <1>5, Replaced
  <2>2. told' \in [Window -> 0 .. 2]
    BY <1>1, <1>5, <1>9 DEF TreeType
  <2> QED
    BY <1>1, <1>2, <2>1, <2>2 DEF TreeType
<1>11. ToldInv'
  <2>1. CASE f.at = "destroy"
    <3>1. told'[f.win] = 1 /\ \A v \in live : v # f.win => told'[v] = told[v]
      BY <2>1, <1>1, <1>5, <1>9 DEF TreeType
    <3> QED
      BY <2>1, <3>1, <1>1, <1>2, <1>7, ToldIs
  <2>2. CASE f.at # "destroy"
    <3>1. told' = told /\ f.at # "children"
      BY <2>2, <1>5
    <3> QED
      BY <2>2, <3>1, <1>1, <1>2, <1>7, ToldIs
  <2> QED
    BY <2>1, <2>2
<1> QED
  BY <1>7, <1>8, <1>10, <1>11 DEF TreeInv

(* WM_DESTROY was answered, and the children are next.                      *)
LEMMA GoodbyeSaid ==
    ASSUME TreeInv, WM_DESTROY_Returns
    PROVE  TreeInv'
<1>1. TreeType /\ ListsInv /\ ParentsInv /\ CallsInv /\ LoopsInv /\ TerminateInv /\ ToldInv
  BY DEF TreeInv
<1>2. /\ UNCHANGED <<program, live, parent, child, sibling, owner, told>> /\ stack # <<>>
      /\ stack[1].at = "destroy"
  BY DEF WM_DESTROY_Returns, windowVars, Top
<1>3. stack \in Seq(FrameType) /\ stack[1] \in FrameType /\ 1 \in DOMAIN stack /\ stack[1].win \in Window
  <2>1. stack \in Seq(FrameType) /\ stack[1] \in FrameType /\ 1 \in DOMAIN stack
    BY <1>1, <1>2 DEF TreeType
  <2> QED
    BY <2>1 DEF FrameType
<1>4. PICK f \in FrameType :
        /\ stack' = <<f>> \o Tail(stack)
        /\ f.at = "children" /\ f.win = stack[1].win /\ f.new = stack[1].new /\ f.i = child[f.win]
  <2> DEFINE g == [stack[1] EXCEPT !.at = "children", !.i = child[stack[1].win]]
  <2>1. child[stack[1].win] \in Window \cup {Null}
    BY <1>1, <1>3, PlaceFacts DEF TreeType
  <2>2. g \in FrameType /\ g.at = "children" /\ g.win = stack[1].win /\ g.new = stack[1].new /\ g.i = child[g.win]
    BY <1>3, <2>1 DEF FrameType
  <2>3. stack' = <<g>> \o Tail(stack)
    BY DEF WM_DESTROY_Returns, Replace, Top
  <2> HIDE DEF g
  <2> QED
    BY <2>2, <2>3
<1>5. Works(1) /\ Ends(1) /\ f.win \in live /\ BeingDestroyed(f.win)
  <2>1. Works(1) /\ Ends(1)
    BY <1>2 DEF Works, Ends
  <2> QED
    BY <1>1, <1>3, <1>4, <2>1 DEF CallsInv, BeingDestroyed
<1>6. ASSUME NEW w \in Unlinked PROVE parent[w] # f.win
  <2>1. PICK l \in DOMAIN stack : Works(l) /\ stack[l].new /\ stack[l].win = w
    BY <1>6, UnlinkedIs
  <2>2. w \in live /\ w \in Place /\ parent[w] # Null /\ parent[w] \in Place
    BY <1>1, <1>6, UnlinkedLive, PlaceFacts DEF TreeType, ParentsInv
  <2>3. parent[w] \in Ancestors(w) /\ parent[w] \in Ancestors(parent[w])
    BY <1>1, <2>2, AncestorsUp DEF TreeType
  <2>4. CASE l = 1
    BY <2>1, <2>2, <2>3, <2>4, <1>1, <1>4 DEF ParentsInv
  <2>5. CASE l # 1
    <3>1. 1 < l
      BY <1>3, <2>5
    <3>2. stack[1].win \notin Ancestors(w)
      BY <1>1, <1>3, <1>5, <2>1, <3>1 DEF CallsInv
    <3> QED
      BY <3>2, <2>3, <1>4
  <2> QED
    BY <2>4, <2>5
<1>7. \A k \in DOMAIN stack : stack[k].at = "children" => stack[k].i # f.win
  <2>1. ASSUME NEW k \in DOMAIN stack, stack[k].at = "children" PROVE stack[k].i # f.win
    <3>1. k # 1 /\ 1 \in 1 .. k - 1
      BY <1>2, <1>3, <2>1
    <3> QED
      BY <1>1, <1>4, <1>5, <2>1, <3>1 DEF LoopsInv
  <2> QED
    BY <2>1
<1>8. /\ CallsInv' /\ LoopsInv' /\ TerminateInv' /\ \A w : w \in Unlinked' <=> w \in Unlinked
      /\ \A w : BeingDestroyed(w)' <=> BeingDestroyed(w) \/ (f.at \in {"destroy", "children"} /\ f.win = w)
  BY <1>1, <1>2, <1>4, <1>6, <1>7, CallGoesOn
<1>9. ListsInv' /\ ParentsInv'
  BY <1>1, <1>2, <1>8, TreeKept
<1>10. TreeType'
  <2>1. stack' \in Seq(FrameType)
    BY <1>2, <1>3, <1>4, Replaced
  <2> QED
    BY <1>1, <1>2, <2>1 DEF TreeType
<1>11. ToldInv'
  BY <1>1, <1>2, <1>5, <1>8, ToldIs
<1> QED
  BY <1>8, <1>9, <1>10, <1>11 DEF TreeInv

-----------------------------------------------------------------------------
(* A message was handled, or a window is ready: the call is over.           *)
LEMMA CallOver ==
    ASSUME TreeType, CallsInv, LoopsInv, TerminateInv, stack # <<>>, stack' = Tail(stack),
           stack[1].at \in {"send", "adjust"}, UNCHANGED <<live, parent>>,
           \A k \in DOMAIN stack : stack[k].at = "children" /\ k > 1 =>
               /\ child'[stack[k].win] = child[stack[k].win]
               /\ sibling'[stack[k - 1].win] = sibling[stack[k - 1].win]
    PROVE  /\ CallsInv' /\ LoopsInv' /\ TerminateInv'
           /\ \A w : w \in Unlinked' <=> w \in Unlinked /\ ~(stack[1].at = "adjust" /\ w = stack[1].win)
           /\ \A w : BeingDestroyed(w)' <=> BeingDestroyed(w)
<1> DEFINE n == Len(stack)
<1>1. /\ n \in Nat \ {0} /\ DOMAIN stack = 1 .. n /\ DOMAIN stack' = 1 .. n - 1 /\ Len(stack') = n - 1
      /\ \A k \in 1 .. n - 1 : k + 1 \in 1 .. n /\ stack'[k] = stack[k + 1]
      /\ \A k \in 1 .. n : k # 1 => k - 1 \in 1 .. n - 1 /\ stack'[k - 1] = stack[k]
  <2>1. stack \in Seq(FrameType)
    BY DEF TreeType
  <2> QED
    BY <2>1, Popped
<1> HIDE DEF n
<1>2. \A k \in 1 .. n - 1 : (Works(k)' <=> Works(k + 1)) /\ (Ends(k)' <=> Ends(k + 1))
  BY <1>1 DEF Works, Ends
<1>3. ~Ends(1) /\ (Works(1) <=> stack[1].at = "adjust") /\ 1 \in 1 .. n
  BY <1>1 DEF Works, Ends
<1>4. ASSUME NEW v PROVE Ancestors(v)' = Ancestors(v)
  BY DEF Ancestors, ClosedUp
<1>5. CallsInv'
  <2>1. ASSUME NEW k \in DOMAIN stack', Works(k)'
        PROVE  stack'[k].win \in live' /\ (~Ends(k)' => stack'[k].new)
    BY <2>1, <1>1, <1>2 DEF CallsInv
  <2>2. ASSUME NEW k \in DOMAIN stack', NEW l \in DOMAIN stack', Works(k)', Works(l)', stack'[k].win = stack'[l].win
        PROVE  k = l
    <3>1. k + 1 = l + 1
      BY <2>2, <1>1, <1>2 DEF CallsInv
    <3> QED
      BY <3>1, <1>1
  <2>3. ASSUME NEW k \in DOMAIN stack', NEW l \in DOMAIN stack', k < l, Works(k)', Works(l)'
        PROVE  (stack[k].win \notin Ancestors(stack[l].win))'
    <3>1. stack[k + 1].win \notin Ancestors(stack[l + 1].win)
      BY <2>3, <1>1, <1>2 DEF CallsInv
    <3>2. stack'[k].win = stack[k + 1].win /\ stack'[l].win = stack[l + 1].win
      BY <2>3, <1>1
    <3>3. (Ancestors(stack[l].win))' = Ancestors(stack[l + 1].win)
      BY <3>2 DEF Ancestors, ClosedUp
    <3> QED
      BY <3>1, <3>2, <3>3
  <2> QED
    BY <2>1, <2>2, <2>3 DEF CallsInv
<1>6. ASSUME NEW w
      PROVE  w \in Unlinked' <=> w \in Unlinked /\ ~(stack[1].at = "adjust" /\ w = stack[1].win)
  <2>1. ASSUME w \in Unlinked'
        PROVE  w \in Unlinked /\ ~(stack[1].at = "adjust" /\ w = stack[1].win)
    <3>1. PICK k \in DOMAIN stack' : Works(k)' /\ stack'[k].new /\ stack'[k].win = w
      BY <2>1, UnlinkedIs
    <3>2. k + 1 \in DOMAIN stack /\ Works(k + 1) /\ stack[k + 1].new /\ stack[k + 1].win = w /\ k + 1 # 1
      BY <3>1, <1>1, <1>2
    <3>3. ~(Works(1) /\ stack[1].win = w)
      BY <3>2, <1>1, <1>3 DEF CallsInv
    <3> QED
      BY <3>2, <3>3, <1>3, UnlinkedIs
  <2>2. ASSUME w \in Unlinked, ~(stack[1].at = "adjust" /\ w = stack[1].win)
        PROVE  w \in Unlinked'
    <3>1. PICK k \in DOMAIN stack : Works(k) /\ stack[k].new /\ stack[k].win = w
      BY <2>2, UnlinkedIs
    <3>2. k # 1
      BY <3>1, <2>2, <1>3
    <3>3. k - 1 \in DOMAIN stack' /\ Works(k - 1)' /\ stack'[k - 1] = stack[k]
      BY <3>1, <3>2, <1>1 DEF Works
    <3> QED
      BY <3>1, <3>3, UnlinkedIs
  <2> QED
    BY <2>1, <2>2
<1>7. LoopsInv'
  <2> SUFFICES ASSUME NEW k \in DOMAIN stack', stack'[k].at = "children"
               PROVE  /\ \A w \in Unlinked' : parent'[w] # stack'[k].win
                      /\ \A l \in 1 .. k - 1 : Ends(l)' => stack'[l].win # stack'[k].i
                      /\ k > 1 /\ Ends(k - 1)' /\ ~stack'[k - 1].new
                      /\ child'[stack'[k].win] = stack'[k - 1].win
                      /\ stack'[k].i = sibling'[stack'[k - 1].win]
    BY <1>1 DEF LoopsInv
  <2>1. k + 1 \in DOMAIN stack /\ stack'[k] = stack[k + 1] /\ stack[k + 1].at = "children" /\ k \in 1 .. n - 1
    BY <1>1
  <2>2. /\ \A w \in Unlinked : parent[w] # stack[k + 1].win
        /\ \A l \in 1 .. k : Ends(l) => stack[l].win # stack[k + 1].i
        /\ Ends(k) /\ ~stack[k].new
        /\ child[stack[k + 1].win] = stack[k].win
        /\ stack[k + 1].i = sibling[stack[k].win]
    <3>1. k + 1 > 1 /\ k + 1 - 1 = k
      BY <2>1, <1>1
    <3> QED
      BY <2>1, <3>1 DEF LoopsInv
  <2>3. k # 1
    BY <2>2, <1>3
  <2>4. k - 1 \in 1 .. n - 1 /\ stack'[k - 1] = stack[k] /\ k - 1 + 1 = k /\ k > 1
    BY <2>1, <2>3, <1>1
  <2>5. Ends(k - 1)'
    BY <2>2, <2>4, <1>2
  <2>6. ASSUME NEW l \in 1 .. k - 1, Ends(l)' PROVE stack'[l].win # stack'[k].i
    <3>1. l + 1 \in 1 .. k /\ stack'[l] = stack[l + 1] /\ Ends(l + 1)
      BY <2>6, <2>1, <1>1, <1>2
    <3> QED
      BY <3>1, <2>1, <2>2
  <2>7. \A w \in Unlinked' : parent'[w] # stack'[k].win
    BY <2>1, <2>2, <1>6
  <2>8. /\ child'[stack[k + 1].win] = child[stack[k + 1].win]
        /\ sibling'[stack[k].win] = sibling[stack[k].win]
    <3>1. k + 1 > 1 /\ k + 1 - 1 = k
      BY <2>1, <1>1
    <3> QED
      BY <3>1, <2>1
  <2> QED
    BY <2>1, <2>2, <2>4, <2>5, <2>6, <2>7, <2>8
<1>8. TerminateInv'
  <2> SUFFICES ASSUME NEW k \in DOMAIN stack', stack'[k].at = "terminate"
               PROVE  /\ k = Len(stack') /\ stack'[k].i \in 1 .. NumWindows + 1
                      /\ k > 1 /\ Ends(k - 1)' /\ stack'[k - 1].win = stack'[k].i - 1
                      /\ \A w \in live' : w >= stack'[k].i - 1
    BY <1>1 DEF TerminateInv
  <2>1. k + 1 \in DOMAIN stack /\ stack'[k] = stack[k + 1] /\ stack[k + 1].at = "terminate" /\ k \in 1 .. n - 1
        /\ k + 1 > 1 /\ k + 1 - 1 = k
    BY <1>1
  <2>2. /\ k + 1 = n /\ stack[k + 1].i \in 1 .. NumWindows + 1
        /\ Ends(k) /\ stack[k].win = stack[k + 1].i - 1
        /\ \A w \in live : w >= stack[k + 1].i - 1
    BY <2>1 DEF TerminateInv, n
  <2>3. k # 1
    BY <2>2, <1>3
  <2>4. k - 1 \in 1 .. n - 1 /\ stack'[k - 1] = stack[k] /\ k - 1 + 1 = k /\ k > 1
    BY <2>1, <2>3, <1>1
  <2>5. Ends(k - 1)'
    BY <2>2, <2>4, <1>2
  <2> QED
    BY <2>1, <2>2, <2>4, <2>5, <1>1
<1>9. ASSUME NEW w PROVE BeingDestroyed(w)' <=> BeingDestroyed(w)
  <2>1. ASSUME BeingDestroyed(w)' PROVE BeingDestroyed(w)
    BY <2>1, <1>1, <1>2 DEF BeingDestroyed
  <2>2. ASSUME BeingDestroyed(w) PROVE BeingDestroyed(w)'
    <3>1. PICK k \in DOMAIN stack : Ends(k) /\ stack[k].win = w
      BY <2>2 DEF BeingDestroyed
    <3>2. k # 1
      BY <3>1, <1>3
    <3>3. k - 1 \in DOMAIN stack' /\ Ends(k - 1)' /\ stack'[k - 1] = stack[k]
      BY <3>1, <3>2, <1>1 DEF Ends
    <3> QED
      BY <3>1, <3>3 DEF BeingDestroyed
  <2> QED
    BY <2>1, <2>2
<1> QED
  BY <1>5, <1>6, <1>7, <1>8, <1>9

(* A procedure is done with a message.                                      *)
LEMMA SendOver ==
    ASSUME TreeInv, SendReturns
    PROVE  TreeInv'
<1>1. TreeType /\ ListsInv /\ ParentsInv /\ CallsInv /\ LoopsInv /\ TerminateInv /\ ToldInv
  BY DEF TreeInv
<1>2. /\ UNCHANGED <<program, live, parent, child, sibling, owner, told>> /\ stack # <<>>
      /\ stack' = Tail(stack) /\ stack[1].at = "send"
  BY DEF SendReturns, windowVars, Top, Pop
<1>3. /\ CallsInv' /\ LoopsInv' /\ TerminateInv' /\ \A w : BeingDestroyed(w)' <=> BeingDestroyed(w)
      /\ \A w : w \in Unlinked' <=> w \in Unlinked
  BY <1>1, <1>2, CallOver
<1>4. ListsInv' /\ ParentsInv'
  BY <1>1, <1>2, <1>3, TreeKept
<1>5. TreeType'
  <2>1. stack' \in Seq(FrameType)
    BY <1>1, <1>2, Popped DEF TreeType
  <2> QED
    BY <1>1, <1>2, <2>1 DEF TreeType
<1>6. ToldInv'
  BY <1>1, <1>2, <1>3, ToldIs
<1> QED
  BY <1>3, <1>4, <1>5, <1>6 DEF TreeInv

-----------------------------------------------------------------------------
(* Lists: a window is put in front, behind another, or taken out.           *)
LEMMA PutFirst ==
    ASSUME NEW p, NEW s, IsChain(p, s), NEW w \in Window, w \notin ToSet(s),
           child'[p] = w, sibling'[w] = child[p], \A v \in ToSet(s) : sibling'[v] = sibling[v]
    PROVE  \E t : IsChain(p, t)' /\ ToSet(t) = ToSet(s) \cup {w}
<1> DEFINE t == <<w>> \o s
           n == Len(s)
<1>1. /\ s \in Seq(Window) /\ child[p] = IF s = <<>> THEN Null ELSE s[1]
      /\ \A i, j \in DOMAIN s : s[i] = s[j] => i = j
      /\ \A i \in DOMAIN s : sibling[s[i]] = IF i = Len(s) THEN Null ELSE s[i + 1]
  BY DEF IsChain
<1>2. /\ t \in Seq(Window) /\ Len(t) = n + 1 /\ t[1] = w /\ DOMAIN t = 1 .. n + 1 /\ t # <<>>
      /\ \A k \in 1 .. n + 1 : k # 1 => k - 1 \in 1 .. n /\ t[k] = s[k - 1]
      /\ \A k \in 1 .. n : k + 1 \in 1 .. n + 1 /\ t[k + 1] = s[k]
      /\ n \in Nat /\ DOMAIN s = 1 .. n /\ (s = <<>> <=> n = 0)
  <2>1. n \in Nat /\ DOMAIN s = 1 .. n /\ (s = <<>> <=> n = 0)
    BY <1>1
  <2>2. /\ t \in Seq(Window) /\ Len(t) = n + 1 /\ t[1] = w /\ DOMAIN t = 1 .. n + 1
        /\ \A k \in DOMAIN t : k # 1 => k - 1 \in DOMAIN s /\ t[k] = s[k - 1]
        /\ \A k \in DOMAIN s : k + 1 \in DOMAIN t /\ t[k + 1] = s[k]
    BY <1>1, Pushed
  <2> HIDE DEF t, n
  <2>3. t # <<>>
    BY <2>1, <2>2
  <2>4. \A k \in 1 .. n + 1 : k # 1 => k - 1 \in 1 .. n /\ t[k] = s[k - 1]
    BY <2>1, <2>2
  <2>5. \A k \in 1 .. n : k + 1 \in 1 .. n + 1 /\ t[k + 1] = s[k]
    BY <2>1, <2>2
  <2> QED
    BY <2>1, <2>2, <2>3, <2>4, <2>5
<1> HIDE DEF t, n
<1>3. \A i \in 1 .. n : s[i] \in ToSet(s) /\ s[i] # w
  BY <1>2 DEF ToSet
<1>4. ASSUME NEW i \in DOMAIN t, NEW j \in DOMAIN t, t[i] = t[j] PROVE i = j
  <2>1. CASE i # 1 /\ j # 1
    <3>1. i - 1 \in DOMAIN s /\ j - 1 \in DOMAIN s /\ s[i - 1] = s[j - 1]
      BY <2>1, <1>2, <1>4
    <3>2. i - 1 = j - 1
      BY <3>1, <1>1
    <3> QED
      BY <3>2, <1>2
  <2>2. CASE i = 1 \/ j = 1
    BY <2>2, <1>2, <1>3, <1>4
  <2> QED
    BY <2>1, <2>2
<1>5. ASSUME NEW i \in DOMAIN t
      PROVE  sibling'[t[i]] = IF i = Len(t) THEN Null ELSE t[i + 1]
  <2>1. CASE i = 1
    <3>1. n = 0 => child[p] = Null
      BY <1>1, <1>2
    <3>2. n # 0 => child[p] = s[1] /\ 1 \in 1 .. n
      BY <1>1, <1>2
    <3>3. n # 0 => t[2] = s[1]
      BY <3>2, <1>2
    <3> QED
      BY <2>1, <3>1, <3>2, <3>3, <1>2
  <2>2. CASE i # 1
    <3>1. i - 1 \in 1 .. n /\ t[i] = s[i - 1] /\ sibling'[s[i - 1]] = sibling[s[i - 1]]
      BY <2>2, <1>2, <1>3
    <3>2. sibling[s[i - 1]] = IF i - 1 = n THEN Null ELSE s[i]
      BY <3>1, <1>1, <1>2 DEF n
    <3>3. i - 1 # n => i \in 1 .. n /\ t[i + 1] = s[i]
      BY <3>1, <1>2
    <3> QED
      BY <3>1, <3>2, <3>3, <1>2
  <2> QED
    BY <2>1, <2>2
<1>6. ToSet(t) = ToSet(s) \cup {w}
  <2>1. ASSUME NEW x \in ToSet(t) PROVE x \in ToSet(s) \cup {w}
    <3>1. PICK i \in DOMAIN t : x = t[i]
      BY <2>1 DEF ToSet
    <3> QED
      BY <3>1, <1>2, <1>3
  <2>2. ASSUME NEW x \in ToSet(s) PROVE x \in ToSet(t)
    <3>1. PICK i \in DOMAIN s : x = s[i]
      BY <2>2 DEF ToSet
    <3>2. i + 1 \in DOMAIN t /\ t[i + 1] = x
      BY <3>1, <1>2
    <3> QED
      BY <3>2 DEF ToSet
  <2>3. w \in ToSet(t)
    <3>1. 1 \in DOMAIN t /\ t[1] = w
      BY <1>2
    <3> QED
      BY <3>1 DEF ToSet
  <2> QED
    BY <2>1, <2>2, <2>3
<1>7. child'[p] = IF t = <<>> THEN Null ELSE t[1]
  BY <1>2
<1>8. IsChain(p, t)'
  BY <1>2, <1>4, <1>5, <1>7 DEF IsChain
<1> QED
  BY <1>6, <1>8

(* A list with a window put behind the j-th.                                *)
LEMMA PutBehind ==
    ASSUME NEW p, NEW s, IsChain(p, s), NEW w \in Window, w \notin ToSet(s), NEW j \in DOMAIN s,
           child'[p] = child[p], sibling'[s[j]] = w, sibling'[w] = sibling[s[j]],
           \A v \in ToSet(s) : v # s[j] => sibling'[v] = sibling[v]
    PROVE  \E t : IsChain(p, t)' /\ ToSet(t) = ToSet(s) \cup {w}
<1> DEFINE n == Len(s)
           t == [i \in 1 .. n + 1 |-> IF i <= j THEN s[i] ELSE IF i = j + 1 THEN w ELSE s[i - 1]]
<1>1. /\ s \in Seq(Window) /\ child[p] = IF s = <<>> THEN Null ELSE s[1]
      /\ \A i, k \in DOMAIN s : s[i] = s[k] => i = k
      /\ \A i \in DOMAIN s : sibling[s[i]] = IF i = Len(s) THEN Null ELSE s[i + 1]
  BY DEF IsChain
<1>2. n \in Nat /\ DOMAIN s = 1 .. n /\ j \in 1 .. n /\ s # <<>> /\ \A i \in 1 .. n : s[i] \in Window
  BY <1>1
<1>3. /\ \A i \in 1 .. j : i \in 1 .. n /\ i \in 1 .. n + 1 /\ t[i] = s[i]
      /\ t[j + 1] = w /\ j + 1 \in 1 .. n + 1
      /\ \A i \in j + 1 .. n : i \in 1 .. n /\ i + 1 \in 1 .. n + 1 /\ t[i + 1] = s[i]
      /\ DOMAIN t = 1 .. n + 1
  <2> HIDE DEF n
  <2> QED
    BY <1>2
<1>4. t \in Seq(Window) /\ Len(t) = n + 1 /\ t # <<>>
  <2>1. \A i \in 1 .. n + 1 : t[i] \in Window
    <3> HIDE DEF n
    <3> QED
      BY <1>2
  <2>2. t \in [1 .. n + 1 -> Window] /\ n + 1 \in Nat
    BY <2>1, <1>2
  <2>3. t \in Seq(Window)
    <3> HIDE DEF t, n
    <3> QED
      BY <2>2
  <2> HIDE DEF t, n
  <2> QED
    BY <2>3, <1>2, <1>3
<1> HIDE DEF t, n
<1>5. \A i \in 1 .. n : s[i] \in ToSet(s) /\ s[i] # w
  BY <1>2 DEF ToSet
<1>6. \A i \in 1 .. n + 1 : i \in 1 .. j \/ i = j + 1 \/ (i # j + 1 /\ i - 1 \in j + 1 .. n /\ i - 1 + 1 = i)
  BY <1>2
<1>7. ASSUME NEW i \in DOMAIN t, NEW k \in DOMAIN t, t[i] = t[k] PROVE i = k
  <2>1. i \in 1 .. n + 1 /\ k \in 1 .. n + 1
    BY <1>3
  <2>2. CASE i = j + 1
    BY <2>1, <2>2, <1>3, <1>5, <1>6, <1>7
  <2>3. CASE k = j + 1
    BY <2>1, <2>3, <1>3, <1>5, <1>6, <1>7
  <2>4. CASE i # j + 1 /\ k # j + 1
    <3>1. PICK a \in 1 .. n : t[i] = s[a] /\ ((a = i /\ i <= j) \/ (a = i - 1 /\ i > j))
      BY <2>1, <2>4, <1>2, <1>3, <1>6
    <3>2. PICK b \in 1 .. n : t[k] = s[b] /\ ((b = k /\ k <= j) \/ (b = k - 1 /\ k > j))
      BY <2>1, <2>4, <1>2, <1>3, <1>6
    <3>3. a = b
      <4>1. a \in DOMAIN s /\ b \in DOMAIN s /\ s[a] = s[b]
        BY <3>1, <3>2, <1>2, <1>7
      <4> QED
        BY <4>1, <1>1
    <3> QED
      BY <2>1, <2>4, <3>1, <3>2, <3>3, <1>2
  <2> QED
    BY <2>2, <2>3, <2>4
<1>8. ASSUME NEW i \in DOMAIN t
      PROVE  sibling'[t[i]] = IF i = Len(t) THEN Null ELSE t[i + 1]
  <2>1. i \in 1 .. n + 1 /\ Len(t) = n + 1
    BY <1>3, <1>4
  <2>2. \A k \in 1 .. n : sibling[s[k]] = IF k = n THEN Null ELSE s[k + 1]
    BY <1>1, <1>2 DEF n
  <2>3. \A k \in 1 .. n : k # j => sibling'[s[k]] = sibling[s[k]]
    BY <1>1, <1>2, <1>5
  <2>4. CASE i = j
    BY <2>4, <2>1, <1>2, <1>3
  <2>5. CASE i < j
    <3>1. i \in 1 .. j /\ i + 1 \in 1 .. j /\ i \in 1 .. n /\ i # n
      BY <2>1, <2>5, <1>2
    <3> QED
      BY <3>1, <2>1, <2>2, <2>3, <2>5, <1>2, <1>3
  <2>6. CASE i = j + 1
    <3>1. sibling'[t[i]] = IF j = n THEN Null ELSE s[j + 1]
      BY <2>6, <2>2, <1>2, <1>3
    <3>2. j # n => j + 1 \in j + 1 .. n
      BY <1>2
    <3> QED
      BY <3>1, <3>2, <2>1, <2>6, <1>2, <1>3
  <2>7. CASE i > j + 1
    <3>1. i - 1 \in j + 1 .. n /\ i - 1 + 1 = i /\ i - 1 \in 1 .. n /\ i - 1 # j
      BY <2>1, <2>7, <1>2
    <3>2. t[i] = s[i - 1] /\ sibling'[s[i - 1]] = IF i - 1 = n THEN Null ELSE s[i]
      BY <3>1, <2>2, <2>3, <1>3
    <3>3. i - 1 # n => i \in j + 1 .. n
      BY <3>1, <1>2
    <3> QED
      BY <3>1, <3>2, <3>3, <2>1, <1>2, <1>3
  <2> QED
    BY <2>1, <2>4, <2>5, <2>6, <2>7, <1>2
<1>9. ToSet(t) = ToSet(s) \cup {w}
  <2>1. ASSUME NEW x \in ToSet(t) PROVE x \in ToSet(s) \cup {w}
    <3>1. PICK i \in 1 .. n + 1 : x = t[i]
      BY <2>1, <1>3 DEF ToSet
    <3> QED
      BY <3>1, <1>2, <1>3, <1>5, <1>6
  <2>2. ASSUME NEW x \in ToSet(s) PROVE x \in ToSet(t)
    <3>1. PICK i \in 1 .. n : x = s[i]
      BY <2>2, <1>2 DEF ToSet
    <3>2. i \in 1 .. j \/ i \in j + 1 .. n
      BY <1>2
    <3>3. \E k \in DOMAIN t : t[k] = x
      BY <3>1, <3>2, <1>3
    <3> QED
      BY <3>3 DEF ToSet
  <2>3. w \in ToSet(t)
    <3>1. \E k \in DOMAIN t : t[k] = w
      BY <1>3
    <3> QED
      BY <3>1 DEF ToSet
  <2> QED
    BY <2>1, <2>2, <2>3
<1>10. child'[p] = IF t = <<>> THEN Null ELSE t[1]
  <2>1. 1 \in 1 .. j
    BY <1>2
  <2> QED
    BY <2>1, <1>1, <1>2, <1>3, <1>4
<1>11. IsChain(p, t)'
  BY <1>4, <1>7, <1>8, <1>10 DEF IsChain
<1> QED
  BY <1>9, <1>11

(* A list without the j-th.                                                 *)
LEMMA TakenOut ==
    ASSUME NEW p, NEW s, IsChain(p, s), NEW j \in DOMAIN s,
           child'[p] = IF j = 1 THEN sibling[s[j]] ELSE child[p],
           \A i \in DOMAIN s : i # j =>
               sibling'[s[i]] = IF i = j - 1 THEN sibling[s[j]] ELSE sibling[s[i]]
    PROVE  \E t : IsChain(p, t)' /\ ToSet(t) = ToSet(s) \ {s[j]}
<1> DEFINE n == Len(s)
           t == [i \in 1 .. n - 1 |-> IF i < j THEN s[i] ELSE s[i + 1]]
<1>1. /\ s \in Seq(Window) /\ child[p] = IF s = <<>> THEN Null ELSE s[1]
      /\ \A i, k \in DOMAIN s : s[i] = s[k] => i = k
      /\ \A i \in DOMAIN s : sibling[s[i]] = IF i = Len(s) THEN Null ELSE s[i + 1]
  BY DEF IsChain
<1>2. n \in Nat /\ DOMAIN s = 1 .. n /\ j \in 1 .. n /\ s # <<>> /\ \A i \in 1 .. n : s[i] \in Window
  BY <1>1
<1>3. /\ DOMAIN t = 1 .. n - 1
      /\ \A i \in 1 .. n - 1 : i < j => i \in 1 .. n /\ t[i] = s[i]
      /\ \A i \in 1 .. n - 1 : i >= j => i + 1 \in 1 .. n /\ t[i] = s[i + 1]
  <2> HIDE DEF n
  <2> QED
    BY <1>2
<1>4. t \in Seq(Window) /\ Len(t) = n - 1 /\ (t = <<>> <=> n = 1)
  <2>1. \A i \in 1 .. n - 1 : t[i] \in Window
    <3> HIDE DEF n
    <3> QED
      BY <1>2
  <2>2. t \in [1 .. n - 1 -> Window] /\ n - 1 \in Nat
    BY <2>1, <1>2
  <2>3. t \in Seq(Window)
    <3> HIDE DEF t, n
    <3> QED
      BY <2>2
  <2> HIDE DEF t, n
  <2>4. Len(t) = n - 1
    BY <2>2, <2>3, <1>3
  <2> QED
    BY <2>3, <2>4, <1>2
<1> HIDE DEF t, n
<1>5. ASSUME NEW i \in DOMAIN t, NEW k \in DOMAIN t, t[i] = t[k] PROVE i = k
  <2>1. PICK a \in 1 .. n : t[i] = s[a] /\ ((a = i /\ i < j) \/ (a = i + 1 /\ i >= j))
    BY <1>2, <1>3
  <2>2. PICK b \in 1 .. n : t[k] = s[b] /\ ((b = k /\ k < j) \/ (b = k + 1 /\ k >= j))
    BY <1>2, <1>3
  <2>3. a = b /\ i \in Int /\ k \in Int /\ j \in Int
    BY <2>1, <2>2, <1>1, <1>2, <1>3, <1>5
  <2> QED
    BY <2>1, <2>2, <2>3
<1>6. ASSUME NEW i \in DOMAIN t
      PROVE  sibling'[t[i]] = IF i = Len(t) THEN Null ELSE t[i + 1]
  <2>1. i \in 1 .. n - 1 /\ Len(t) = n - 1
    BY <1>3, <1>4
  <2>2. \A k \in 1 .. n : sibling[s[k]] = IF k = n THEN Null ELSE s[k + 1]
    BY <1>1, <1>2 DEF n
  <2>3. \A k \in 1 .. n : k # j => sibling'[s[k]] = IF k = j - 1 THEN sibling[s[j]] ELSE sibling[s[k]]
    BY <1>2
  <2>4. CASE i = j - 1
    <3>1. i < j /\ i # j /\ i \in 1 .. n /\ t[i] = s[i]
      BY <2>1, <2>4, <1>2, <1>3
    <3>2. sibling'[t[i]] = IF j = n THEN Null ELSE s[j + 1]
      BY <3>1, <2>2, <2>3, <2>4, <1>2
    <3>3. j # n => j \in 1 .. n - 1 /\ t[j] = s[j + 1]
      BY <1>2, <1>3
    <3> QED
      BY <3>2, <3>3, <2>1, <2>4, <1>2
  <2>5. CASE i < j - 1
    <3>1. i < j /\ i # j /\ i \in 1 .. n /\ t[i] = s[i] /\ i # n /\ i + 1 \in 1 .. n - 1 /\ i + 1 < j
      BY <2>1, <2>5, <1>2, <1>3
    <3>2. sibling'[t[i]] = s[i + 1] /\ t[i + 1] = s[i + 1]
      BY <3>1, <2>2, <2>3, <2>5, <1>2, <1>3
    <3> QED
      BY <3>1, <3>2, <2>1, <1>2
  <2>6. CASE i > j - 1
    <3>1. i >= j /\ i + 1 \in 1 .. n /\ t[i] = s[i + 1] /\ i + 1 # j /\ i + 1 # j - 1
      BY <2>1, <2>6, <1>2, <1>3
    <3>2. sibling'[t[i]] = IF i + 1 = n THEN Null ELSE s[i + 1 + 1]
      BY <3>1, <2>2, <2>3
    <3>3. i + 1 # n => i + 1 \in 1 .. n - 1 /\ t[i + 1] = s[i + 1 + 1]
      BY <3>1, <1>2, <1>3, <2>1
    <3> QED
      BY <3>2, <3>3, <2>1, <1>2
  <2> QED
    BY <2>1, <2>4, <2>5, <2>6, <1>2
<1>7. ToSet(t) = ToSet(s) \ {s[j]}
  <2>1. ASSUME NEW x \in ToSet(t) PROVE x \in ToSet(s) \ {s[j]}
    <3>1. PICK i \in DOMAIN t : x = t[i]
      BY <2>1 DEF ToSet
    <3>2. PICK a \in 1 .. n : x = s[a] /\ a # j
      BY <3>1, <1>2, <1>3
    <3> QED
      BY <3>2, <1>1, <1>2 DEF ToSet
  <2>2. ASSUME NEW x \in ToSet(s) \ {s[j]} PROVE x \in ToSet(t)
    <3>1. PICK i \in 1 .. n : x = s[i] /\ i # j
      BY <2>2, <1>2 DEF ToSet
    <3>2. CASE i < j
      <4>1. i \in 1 .. n - 1 /\ t[i] = s[i]
        BY <3>2, <1>2, <1>3
      <4> QED
        BY <4>1, <3>1, <1>3 DEF ToSet
    <3>3. CASE i > j
      <4>1. i - 1 \in 1 .. n - 1 /\ i - 1 >= j /\ i - 1 + 1 = i
        BY <3>3, <1>2
      <4>2. t[i - 1] = s[i]
        BY <4>1, <1>3
      <4> QED
        BY <4>1, <4>2, <3>1, <1>3 DEF ToSet
    <3> QED
      BY <3>1, <3>2, <3>3, <1>2
  <2> QED
    BY <2>1, <2>2
<1>8. child'[p] = IF t = <<>> THEN Null ELSE t[1]
  <2>1. CASE j = 1
    <3>1. child'[p] = IF n = 1 THEN Null ELSE s[2]
      <4>1. sibling[s[1]] = IF n = 1 THEN Null ELSE s[2]
        BY <2>1, <1>1, <1>2 DEF n
      <4> QED
        BY <4>1, <2>1
    <3>2. n # 1 => 1 \in 1 .. n - 1 /\ t[1] = s[2]
      BY <2>1, <1>2, <1>3
    <3> QED
      BY <3>1, <3>2, <1>4
  <2>2. CASE j # 1
    <3>1. n # 1 /\ 1 \in 1 .. n - 1 /\ 1 < j
      BY <2>2, <1>2
    <3> QED
      BY <3>1, <2>2, <1>1, <1>2, <1>3, <1>4
  <2> QED
    BY <2>1, <2>2
<1>9. IsChain(p, t)'
  BY <1>4, <1>5, <1>6, <1>8 DEF IsChain
<1> QED
  BY <1>7, <1>9

-----------------------------------------------------------------------------
(* A window is linked: its parent's list has it, and only sibling pointers  *)
(* of that list, of the window, and the parent's child pointer have changed.*)
LEMMA LinkDone ==
    ASSUME TreeType, ListsInv, NEW w \in Unlinked, NEW p \in live \cup {Desktop}, NEW behind,
           w \in Window, behind \notin Unlinked, Link(w, p, behind), parent[w] = p
    PROVE  /\ \E t : IsChain(p, t)' /\ ToSet(t) = Linked(p) \cup {w}
           /\ child' \in [Place -> Window \cup {Null}] /\ sibling' \in [Window -> Window \cup {Null}]
           /\ \A q \in Place : q # p => child'[q] = child[q]
           /\ \A v \in Window : v # w /\ v \notin Linked(p) => sibling'[v] = sibling[v]
<1>1. PICK s : IsChain(p, s) /\ ToSet(s) = Linked(p)
  BY DEF ListsInv
<1>2. Kids(p) = s /\ w \notin ToSet(s) /\ sibling[w] = Null
  BY <1>1, ChainIsKids DEF Linked, ListsInv
<1>3. /\ child \in [Place -> Window \cup {Null}] /\ sibling \in [Window -> Window \cup {Null}] /\ p \in Place
      /\ live \subseteq Window
  BY PlaceFacts DEF TreeType
<1>4. /\ s \in Seq(Window) /\ child[p] = IF s = <<>> THEN Null ELSE s[1]
      /\ \A i \in DOMAIN s : sibling[s[i]] = IF i = Len(s) THEN Null ELSE s[i + 1]
  BY <1>1 DEF IsChain
<1>5. ASSUME child' = [child EXCEPT ![p] = w], sibling' = [sibling EXCEPT ![w] = child[p]]
      PROVE  /\ \E t : IsChain(p, t)' /\ ToSet(t) = Linked(p) \cup {w}
             /\ child' \in [Place -> Window \cup {Null}] /\ sibling' \in [Window -> Window \cup {Null}]
             /\ \A q \in Place : q # p => child'[q] = child[q]
             /\ \A v \in Window : v # w /\ v \notin Linked(p) => sibling'[v] = sibling[v]
  <2>1. /\ child' \in [Place -> Window \cup {Null}] /\ sibling' \in [Window -> Window \cup {Null}]
        /\ \A q \in Place : q # p => child'[q] = child[q]
        /\ \A v \in Window : v # w => sibling'[v] = sibling[v]
        /\ child'[p] = w /\ sibling'[w] = child[p]
    BY <1>3, <1>5
  <2>2. \A v \in ToSet(s) : sibling'[v] = sibling[v]
    BY <2>1, <1>1, <1>2, <1>3 DEF Linked
  <2> QED
    BY <2>1, <2>2, <1>1, <1>2, PutFirst
<1>6. ASSUME NEW j \in DOMAIN s, child' = child, sibling' = [sibling EXCEPT ![w] = sibling[s[j]], ![s[j]] = w]
      PROVE  /\ \E t : IsChain(p, t)' /\ ToSet(t) = Linked(p) \cup {w}
             /\ child' \in [Place -> Window \cup {Null}] /\ sibling' \in [Window -> Window \cup {Null}]
             /\ \A q \in Place : q # p => child'[q] = child[q]
             /\ \A v \in Window : v # w /\ v \notin Linked(p) => sibling'[v] = sibling[v]
  <2>1. s[j] \in ToSet(s) /\ s[j] \in Window /\ s[j] # w /\ s[j] \in Linked(p)
    BY <1>1, <1>2, <1>4 DEF ToSet
  <2>2. /\ sibling' \in [Window -> Window \cup {Null}]
        /\ \A v \in Window : v # w /\ v # s[j] => sibling'[v] = sibling[v]
        /\ sibling'[s[j]] = w /\ sibling'[w] = sibling[s[j]]
    BY <1>3, <1>6, <2>1
  <2>3. \A v \in ToSet(s) : v # s[j] => sibling'[v] = sibling[v]
    BY <2>2, <1>1, <1>2, <1>3 DEF Linked
  <2>4. \E t : IsChain(p, t)' /\ ToSet(t) = ToSet(s) \cup {w}
    <3>1. child'[p] = child[p]
      BY <1>6
    <3> QED
      BY <3>1, <2>2, <2>3, <1>1, <1>2, PutBehind
  <2> QED
    BY <2>1, <2>2, <2>4, <1>1, <1>3, <1>6
<1>7. CASE child[p] = Null
  <2>1. child' = [child EXCEPT ![p] = w] /\ sibling' = sibling
    BY <1>7 DEF Link
  <2>2. sibling' = [sibling EXCEPT ![w] = child[p]]
    BY <2>1, <1>2, <1>3, <1>7
  <2> QED
    BY <2>1, <2>2, <1>5
<1>8. CASE child[p] # Null /\ behind = HWND_TOP
  <2>1. behind \notin live
    BY <1>3, <1>8, PlaceFacts
  <2>2. child' = [child EXCEPT ![p] = w] /\ sibling' = [sibling EXCEPT ![w] = child[p]]
    BY <1>8, <2>1 DEF Link
  <2> QED
    BY <2>2, <1>5
<1>9. CASE child[p] # Null /\ behind \in live /\ parent[behind] = p
  <2>1. behind # HWND_TOP
    BY <1>3, <1>9, PlaceFacts
  <2>2. child' = child /\ sibling' = [sibling EXCEPT ![w] = sibling[behind], ![behind] = w]
    BY <1>9, <2>1 DEF Link
  <2>3. behind \in ToSet(s)
    BY <1>1, <1>9 DEF Linked
  <2>4. PICK j \in DOMAIN s : behind = s[j]
    BY <2>3 DEF ToSet
  <2> QED
    BY <2>2, <2>4, <1>6
<1>10. CASE child[p] # Null /\ behind # HWND_TOP /\ ~(behind \in live /\ parent[behind] = p)
  <2>1. child' = child /\ sibling' = [sibling EXCEPT ![Last(s)] = w]
    BY <1>2, <1>10 DEF Link
  <2>2. PICK j \in DOMAIN s : j = Len(s) /\ Last(s) = s[j]
    BY <1>4, <1>10 DEF Last
  <2>3. sibling[s[j]] = Null /\ s[j] # w /\ s[j] \in Window
    BY <2>2, <1>2, <1>4 DEF ToSet
  <2>4. sibling' = [sibling EXCEPT ![w] = sibling[s[j]], ![s[j]] = w]
    BY <2>1, <2>2, <2>3, <1>2, <1>3
  <2> QED
    BY <2>1, <2>4, <1>6
<1> QED
  BY <1>7, <1>8, <1>9, <1>10

(* WM_ADJUSTWINDOWPOS returns: the window gets into the list of its parent. *)
LEMMA WindowReady ==
    ASSUME TreeInv, WM_ADJUSTWINDOWPOS_Returns
    PROVE  TreeInv'
<1>1. TreeType /\ ListsInv /\ ParentsInv /\ CallsInv /\ LoopsInv /\ TerminateInv /\ ToldInv
  BY DEF TreeInv
<1>2. /\ UNCHANGED <<program, live, parent, owner, told>> /\ stack # <<>>
      /\ stack' = Tail(stack) /\ stack[1].at = "adjust"
  BY DEF WM_ADJUSTWINDOWPOS_Returns, Top, Pop
<1>3. stack \in Seq(FrameType) /\ stack[1] \in FrameType /\ 1 \in DOMAIN stack
  BY <1>1, <1>2 DEF TreeType
<1>4. PICK w \in live : w = stack[1].win /\ w \in Unlinked /\ w \in Window
  <2>1. Works(1) /\ ~Ends(1)
    BY <1>2 DEF Works, Ends
  <2>2. stack[1].win \in live /\ stack[1].new
    BY <1>1, <1>3, <2>1 DEF CallsInv
  <2>3. stack[1].win \in Unlinked
    BY <1>3, <2>1, <2>2, UnlinkedIs
  <2> QED
    BY <2>2, <2>3, <1>1 DEF TreeType
<1>5. PICK p \in live \cup {Desktop} : p = parent[w]
  BY <1>1, <1>4 DEF ParentsInv
<1>6. PICK behind : behind \notin Unlinked /\ Link(w, p, behind)
  BY <1>4, <1>5 DEF WM_ADJUSTWINDOWPOS_Returns, MayInsertBehind, Top
<1>7. /\ \E t : IsChain(p, t)' /\ ToSet(t) = Linked(p) \cup {w}
      /\ child' \in [Place -> Window \cup {Null}] /\ sibling' \in [Window -> Window \cup {Null}]
      /\ \A q \in Place : q # p => child'[q] = child[q]
      /\ \A v \in Window : v # w /\ v \notin Linked(p) => sibling'[v] = sibling[v]
  BY <1>1, <1>4, <1>5, <1>6, LinkDone
<1>8. /\ CallsInv' /\ LoopsInv' /\ TerminateInv' /\ \A v : BeingDestroyed(v)' <=> BeingDestroyed(v)
      /\ \A v : v \in Unlinked' <=> v \in Unlinked /\ v # w
  <2>1. ASSUME NEW k \in DOMAIN stack, stack[k].at = "children", k > 1
        PROVE  /\ child'[stack[k].win] = child[stack[k].win]
               /\ sibling'[stack[k - 1].win] = sibling[stack[k - 1].win]
    <3>1. stack[k].win \in live /\ stack[k].win \in Place
      BY <1>1, <2>1, PlaceFacts DEF CallsInv, Works, TreeType
    <3>2. stack[k].win # p
      BY <1>1, <1>4, <1>5, <2>1 DEF LoopsInv
    <3>3. stack[k - 1].win \in Linked(stack[k].win)
      BY <1>1, <2>1, NextIsLinked
    <3>4. stack[k - 1].win \notin Linked(p) /\ stack[k - 1].win # w /\ stack[k - 1].win \in Window
      BY <1>1, <1>4, <3>2, <3>3 DEF Linked, TreeType
    <3> QED
      BY <3>1, <3>2, <3>4, <1>7
  <2> QED
    BY <1>1, <1>2, <1>4, <2>1, CallOver
<1>9. TreeType'
  <2>1. stack' \in Seq(FrameType)
    BY <1>2, <1>3, Popped
  <2> QED
    BY <1>1, <1>2, <1>7, <2>1 DEF TreeType
<1>10. ListsInv'
  <2>1. ASSUME NEW q \in live \cup {Desktop}
        PROVE  \E s : IsChain(q, s)' /\ ToSet(s) = Linked(q)'
    <3>1. CASE q = p
      <4>1. Linked(p)' = Linked(p) \cup {w}
        BY <1>2, <1>4, <1>5, <1>8 DEF Linked
      <4> QED
        BY <3>1, <4>1, <1>7
    <3>2. CASE q # p
      <4>1. PICK s : IsChain(q, s) /\ ToSet(s) = Linked(q)
        BY <1>1 DEF ListsInv
      <4>2. Linked(q)' = Linked(q)
        BY <3>2, <1>2, <1>5, <1>8 DEF Linked
      <4>3. child'[q] = child[q] /\ \A v \in ToSet(s) : sibling'[v] = sibling[v]
        <5>1. q \in Place
          BY <1>1, PlaceFacts DEF TreeType
        <5>2. \A v \in Linked(q) : v \in Window /\ v # w /\ v \notin Linked(p)
          BY <1>1, <1>4, <3>2 DEF Linked, TreeType
        <5> QED
          BY <5>1, <5>2, <3>2, <4>1, <1>7
      <4> QED
        BY <4>1, <4>2, <4>3, ChainStays
    <3> QED
      BY <3>1, <3>2
  <2>2. ASSUME NEW v \in Unlinked' PROVE sibling'[v] = Null
    <3>1. v \in Unlinked /\ v # w /\ v \in live /\ v \in Window /\ v \notin Linked(p)
      BY <1>1, <1>8, <2>2, UnlinkedLive DEF Linked, TreeType
    <3> QED
      BY <3>1, <1>1, <1>7 DEF ListsInv
  <2> QED
    BY <2>1, <2>2, <1>2 DEF ListsInv
<1>11. ParentsInv'
  <2>1. ASSUME NEW v PROVE Ancestors(v)' = Ancestors(v)
    BY <1>2 DEF Ancestors, ClosedUp
  <2>2. ASSUME NEW v \in live
        PROVE  /\ parent'[v] \in live' \cup {Desktop} /\ owner'[v] \in {parent'[v], Null}
               /\ (v \notin Ancestors(parent[v]))'
    <3>1. (Ancestors(parent[v]))' = Ancestors(parent[v])
      BY <1>2 DEF Ancestors, ClosedUp
    <3> QED
      BY <3>1, <1>1, <1>2 DEF ParentsInv
  <2> QED
    BY <2>2, <1>2 DEF ParentsInv
<1>12. ToldInv'
  BY <1>1, <1>2, <1>8, ToldIs
<1> QED
  BY <1>8, <1>9, <1>10, <1>11, <1>12 DEF TreeInv

-----------------------------------------------------------------------------
(* A window is taken out of its parent's list, when it is in it.            *)
LEMMA UnlinkDone ==
    ASSUME TreeType, ListsInv, NEW w \in live, NEW p \in live \cup {Desktop}, p # w, parent[w] = p, Unlink(w, p)
    PROVE  /\ \E t : IsChain(p, t)' /\ ToSet(t) = Linked(p) \ {w}
           /\ child' \in [Place -> Window \cup {Null}] /\ sibling' \in [Window -> Window \cup {Null}]
           /\ child[p] = w => child'[p] = sibling[w]
           /\ \A q \in Place : q # w /\ (q = p => child[p] # w) => child'[q] = child[q]
           /\ \A v \in Window : v # w /\ (v \in Linked(p) => sibling[v] # w) => sibling'[v] = sibling[v]
<1>1. PICK s : IsChain(p, s) /\ ToSet(s) = Linked(p)
  BY DEF ListsInv
<1>2. Kids(p) = s
  BY <1>1, ChainIsKids
<1>3. /\ child \in [Place -> Window \cup {Null}] /\ sibling \in [Window -> Window \cup {Null}] /\ p \in Place
      /\ w \in Window /\ w \in Place /\ Null \notin Window
  BY PlaceFacts DEF TreeType
<1>4. /\ s \in Seq(Window) /\ child[p] = IF s = <<>> THEN Null ELSE s[1]
      /\ \A i, j \in DOMAIN s : s[i] = s[j] => i = j
      /\ \A i \in DOMAIN s : sibling[s[i]] = IF i = Len(s) THEN Null ELSE s[i + 1]
  BY <1>1 DEF IsChain
<1>5. \A v : v \in Linked(p) <=> \E k \in DOMAIN s : s[k] = v
  BY <1>1 DEF ToSet
<1>6. /\ child' = [child EXCEPT ![p] = IF child[p] = w THEN sibling[w] ELSE child[p], ![w] = Null]
      /\ sibling' = [v \in Window |->
             IF v = w THEN Null
             ELSE IF child[p] # w /\ v \in {u \in Window : sibling[u] = w /\ \E k \in DOMAIN s : s[k] = u}
                  THEN sibling[w] ELSE sibling[v]]
  BY <1>2 DEF Unlink
<1>7. /\ child' \in [Place -> Window \cup {Null}]
      /\ child'[p] = IF child[p] = w THEN sibling[w] ELSE child[p]
      /\ \A q \in Place : q # w /\ q # p => child'[q] = child[q]
  BY <1>3, <1>6
<1>8. /\ \A v \in Window : v # w /\ child[p] # w /\ v \in Linked(p) /\ sibling[v] = w => sibling'[v] = sibling[w]
      /\ \A v \in Window : v # w /\ (child[p] = w \/ v \notin Linked(p) \/ sibling[v] # w) => sibling'[v] = sibling[v]
  BY <1>5, <1>6
<1>9. sibling' \in [Window -> Window \cup {Null}]
  BY <1>3, <1>6
<1>10. \A i \in DOMAIN s : s[i] \in Window /\ s[i] \in Linked(p)
  BY <1>4, <1>5
<1>11. \E t : IsChain(p, t)' /\ ToSet(t) = Linked(p) \ {w}
  <2>1. CASE w \in Linked(p)
    <3>1. PICK j \in DOMAIN s : s[j] = w
      BY <2>1, <1>5
    <3>2. child[p] = s[1] /\ 1 \in DOMAIN s /\ DOMAIN s = 1 .. Len(s) /\ Len(s) \in Nat
      BY <1>4, <3>1
    <3>3. child[p] = w <=> j = 1
      BY <3>1, <3>2, <1>4
    <3>4. child'[p] = IF j = 1 THEN sibling[s[j]] ELSE child[p]
      BY <3>1, <3>3, <1>7
    <3>5. ASSUME NEW i \in DOMAIN s, i # j
          PROVE  sibling'[s[i]] = IF i = j - 1 THEN sibling[s[j]] ELSE sibling[s[i]]
      <4>1. s[i] # w
        BY <3>1, <3>5, <1>4
      <4>2. sibling[s[i]] = w <=> i = j - 1
        <5>1. CASE i = Len(s)
          BY <5>1, <1>3, <1>4, <3>1, <3>2
        <5>2. CASE i # Len(s)
          <6>1. i + 1 \in DOMAIN s /\ sibling[s[i]] = s[i + 1]
            BY <5>2, <1>4, <3>2
          <6>2. s[i + 1] = s[j] <=> i + 1 = j
            BY <6>1, <1>4
          <6> QED
            BY <6>1, <6>2, <3>1, <3>2
        <5> QED
          BY <5>1, <5>2
      <4>3. i = j - 1 => j # 1
        BY <3>2
      <4> QED
        BY <4>1, <4>2, <4>3, <3>1, <3>3, <1>8, <1>10
    <3>6. \E t : IsChain(p, t)' /\ ToSet(t) = ToSet(s) \ {s[j]}
      BY <3>4, <3>5, <1>1, TakenOut
    <3> QED
      BY <3>1, <3>6, <1>1
  <2>2. CASE w \notin Linked(p)
    <3>1. child[p] # w /\ \A i \in DOMAIN s : s[i] # w /\ sibling[s[i]] # w
      <4>1. \A i \in DOMAIN s : s[i] # w
        BY <2>2, <1>10
      <4>2. ASSUME NEW i \in DOMAIN s PROVE sibling[s[i]] # w
        <5>1. i # Len(s) => i + 1 \in DOMAIN s
          BY <1>4
        <5> QED
          BY <5>1, <4>1, <1>3, <1>4
      <4>3. s # <<>> => 1 \in DOMAIN s
        BY <1>4
      <4> QED
        BY <4>1, <4>2, <4>3, <1>3, <1>4
    <3>2. child'[p] = child[p] /\ \A i \in DOMAIN s : sibling'[s[i]] = sibling[s[i]]
      BY <3>1, <1>7, <1>8, <1>10
    <3>3. \A v \in ToSet(s) : sibling'[v] = sibling[v]
      BY <3>2 DEF ToSet
    <3>4. IsChain(p, s)' /\ ToSet(s) = Linked(p) \ {w}
      BY <2>2, <3>2, <3>3, <1>1, ChainStays
    <3> QED
      BY <3>4
  <2> QED
    BY <2>1, <2>2
<1>12. \A q \in Place : q # w /\ (q = p => child[p] # w) => child'[q] = child[q]
  BY <1>7
<1>13. \A v \in Window : v # w /\ (v \in Linked(p) => sibling[v] # w) => sibling'[v] = sibling[v]
  BY <1>8
<1> HIDE DEF Linked
<1> QED
  BY <1>7, <1>9, <1>11, <1>12, <1>13

(* The call that destroys a window is over.                                 *)
LEMMA DestroyOver ==
    ASSUME TreeType, CallsInv, LoopsInv, TerminateInv, stack # <<>>, stack' = Tail(stack),
           stack[1].at = "children", NEW w, w = stack[1].win, live' = live \ {w},
           \A v \in live' : Ancestors(v)' \subseteq Ancestors(v) /\ parent'[v] = parent[v],
           \A k \in DOMAIN stack : stack[k].at = "children" /\ k > 2 =>
               /\ child'[stack[k].win] = child[stack[k].win]
               /\ sibling'[stack[k - 1].win] = sibling[stack[k - 1].win],
           \A k \in DOMAIN stack : stack[k].at = "children" /\ k = 2 => child'[stack[k].win] = sibling[w]
    PROVE  /\ CallsInv' /\ LoopsInv' /\ TerminateInv'
           /\ \A v : v \in Unlinked' <=> v \in Unlinked /\ v # w
           /\ \A v : BeingDestroyed(v)' <=> BeingDestroyed(v) /\ v # w
<1> DEFINE n == Len(stack)
<1>1. /\ n \in Nat \ {0} /\ DOMAIN stack = 1 .. n /\ DOMAIN stack' = 1 .. n - 1 /\ Len(stack') = n - 1
      /\ \A k \in 1 .. n - 1 : k + 1 \in 1 .. n /\ stack'[k] = stack[k + 1]
      /\ \A k \in 1 .. n : k # 1 => k - 1 \in 1 .. n - 1 /\ stack'[k - 1] = stack[k]
  <2>1. stack \in Seq(FrameType)
    BY DEF TreeType
  <2> QED
    BY <2>1, Popped
<1> HIDE DEF n
<1>2. \A k \in 1 .. n - 1 : (Works(k)' <=> Works(k + 1)) /\ (Ends(k)' <=> Ends(k + 1))
  BY <1>1 DEF Works, Ends
<1>3. Ends(1) /\ Works(1) /\ 1 \in 1 .. n
  BY <1>1 DEF Works, Ends
<1>4. \A k \in 1 .. n : Works(k) /\ k # 1 => stack[k].win \in live' /\ stack[k].win # w
  BY <1>1, <1>3 DEF CallsInv
<1>5. CallsInv'
  <2>1. ASSUME NEW k \in DOMAIN stack', Works(k)'
        PROVE  stack'[k].win \in live' /\ (~Ends(k)' => stack'[k].new)
    <3>1. k + 1 \in 1 .. n /\ k + 1 # 1 /\ Works(k + 1) /\ stack'[k] = stack[k + 1] /\ (Ends(k)' <=> Ends(k + 1))
      BY <2>1, <1>1, <1>2
    <3> QED
      BY <3>1, <1>1, <1>4 DEF CallsInv
  <2>2. ASSUME NEW k \in DOMAIN stack', NEW l \in DOMAIN stack', Works(k)', Works(l)', stack'[k].win = stack'[l].win
        PROVE  k = l
    <3>1. k + 1 = l + 1
      BY <2>2, <1>1, <1>2 DEF CallsInv
    <3> QED
      BY <3>1, <1>1
  <2>3. ASSUME NEW k \in DOMAIN stack', NEW l \in DOMAIN stack', k < l, Works(k)', Works(l)'
        PROVE  (stack[k].win \notin Ancestors(stack[l].win))'
    <3>1. stack[k + 1].win \notin Ancestors(stack[l + 1].win)
      BY <2>3, <1>1, <1>2 DEF CallsInv
    <3>2. stack'[k].win = stack[k + 1].win /\ stack'[l].win = stack[l + 1].win
      BY <2>3, <1>1
    <3>3. stack[l + 1].win \in live'
      BY <2>3, <1>1, <1>2, <1>4
    <3>4. PICK v \in live' : v = stack[l + 1].win
      BY <3>3
    <3>5. (Ancestors(stack[l].win))' = Ancestors(v)'
      BY <3>2, <3>4 DEF Ancestors, ClosedUp
    <3>6. Ancestors(v)' \subseteq Ancestors(v)
      BY <3>4
    <3> QED
      BY <3>1, <3>2, <3>4, <3>5, <3>6
  <2> QED
    BY <2>1, <2>2, <2>3 DEF CallsInv
<1>6. ASSUME NEW v
      PROVE  v \in Unlinked' <=> v \in Unlinked /\ v # w
  <2>1. ASSUME v \in Unlinked'
        PROVE  v \in Unlinked /\ v # w
    <3>1. PICK k \in DOMAIN stack' : Works(k)' /\ stack'[k].new /\ stack'[k].win = v
      BY <2>1, UnlinkedIs
    <3>2. k + 1 \in DOMAIN stack /\ Works(k + 1) /\ stack[k + 1].new /\ stack[k + 1].win = v /\ k + 1 # 1
      BY <3>1, <1>1, <1>2
    <3> QED
      BY <3>2, <1>1, <1>4, UnlinkedIs
  <2>2. ASSUME v \in Unlinked, v # w
        PROVE  v \in Unlinked'
    <3>1. PICK k \in DOMAIN stack : Works(k) /\ stack[k].new /\ stack[k].win = v
      BY <2>2, UnlinkedIs
    <3>2. k # 1
      BY <3>1, <2>2
    <3>3. k - 1 \in DOMAIN stack' /\ Works(k - 1)' /\ stack'[k - 1] = stack[k]
      BY <3>1, <3>2, <1>1 DEF Works
    <3> QED
      BY <3>1, <3>3, UnlinkedIs
  <2> QED
    BY <2>1, <2>2
<1>7. LoopsInv'
  <2> SUFFICES ASSUME NEW k \in DOMAIN stack', stack'[k].at = "children"
               PROVE  /\ \A v \in Unlinked' : parent'[v] # stack'[k].win
                      /\ \A l \in 1 .. k - 1 : Ends(l)' => stack'[l].win # stack'[k].i
                      /\ k = 1 => stack'[k].i = child'[stack'[k].win]
                      /\ k > 1 => /\ Ends(k - 1)' /\ ~stack'[k - 1].new
                                  /\ child'[stack'[k].win] = stack'[k - 1].win
                                  /\ stack'[k].i = sibling'[stack'[k - 1].win]
    BY <1>1 DEF LoopsInv
  <2>1. k + 1 \in DOMAIN stack /\ stack'[k] = stack[k + 1] /\ stack[k + 1].at = "children" /\ k \in 1 .. n - 1
    BY <1>1
  <2>2. /\ \A v \in Unlinked : parent[v] # stack[k + 1].win
        /\ \A l \in 1 .. k : Ends(l) => stack[l].win # stack[k + 1].i
        /\ Ends(k) /\ ~stack[k].new
        /\ child[stack[k + 1].win] = stack[k].win
        /\ stack[k + 1].i = sibling[stack[k].win]
    <3>1. k + 1 > 1 /\ k + 1 - 1 = k
      BY <2>1, <1>1
    <3> QED
      BY <2>1, <3>1 DEF LoopsInv
  <2>3. ASSUME NEW l \in 1 .. k - 1, Ends(l)' PROVE stack'[l].win # stack'[k].i
    <3>1. l + 1 \in 1 .. k /\ stack'[l] = stack[l + 1] /\ Ends(l + 1)
      BY <2>3, <2>1, <1>1, <1>2
    <3> QED
      BY <3>1, <2>1, <2>2
  <2>4. ASSUME NEW v \in Unlinked' PROVE parent'[v] # stack'[k].win
    <3>1. v \in Unlinked /\ v # w /\ v \in live
      BY <2>4, <1>6, UnlinkedLive
    <3> QED
      BY <3>1, <2>1, <2>2
  <2>5. CASE k = 1
    <3>1. stack[k + 1].i = sibling[w] /\ k + 1 = 2
      BY <2>2, <2>5
    <3>2. child'[stack[2].win] = sibling[w]
      BY <3>1, <2>1
    <3> QED
      BY <3>1, <3>2, <2>1, <2>3, <2>4, <2>5
  <2>6. CASE k # 1
    <3>1. k - 1 \in 1 .. n - 1 /\ stack'[k - 1] = stack[k] /\ k - 1 + 1 = k /\ k > 1
      BY <2>1, <2>6, <1>1
    <3>2. Ends(k - 1)'
      BY <2>2, <3>1, <1>2
    <3>3. /\ child'[stack[k + 1].win] = child[stack[k + 1].win]
          /\ sibling'[stack[k].win] = sibling[stack[k].win]
      <4>1. k + 1 > 2 /\ k + 1 - 1 = k
        BY <2>1, <2>6, <1>1
      <4> QED
        BY <4>1, <2>1
    <3> QED
      BY <3>1, <3>2, <3>3, <2>1, <2>2, <2>3, <2>4
  <2> QED
    BY <2>5, <2>6
<1>8. TerminateInv'
  <2> SUFFICES ASSUME NEW k \in DOMAIN stack', stack'[k].at = "terminate"
               PROVE  /\ k = Len(stack') /\ stack'[k].i \in 1 .. NumWindows + 1
                      /\ k = 1 => \A v \in live' : v >= stack'[k].i
                      /\ k > 1 => /\ Ends(k - 1)' /\ stack'[k - 1].win = stack'[k].i - 1
                                  /\ \A v \in live' : v >= stack'[k].i - 1
    BY <1>1 DEF TerminateInv
  <2>1. k + 1 \in DOMAIN stack /\ stack'[k] = stack[k + 1] /\ stack[k + 1].at = "terminate" /\ k \in 1 .. n - 1
        /\ k + 1 > 1 /\ k + 1 - 1 = k
    BY <1>1
  <2>2. /\ k + 1 = n /\ stack[k + 1].i \in 1 .. NumWindows + 1
        /\ Ends(k) /\ stack[k].win = stack[k + 1].i - 1
        /\ \A v \in live : v >= stack[k + 1].i - 1
    BY <2>1 DEF TerminateInv, n
  <2>3. k = 1 => \A v \in live' : v >= stack'[k].i
    <3>1. \A v \in live : v \in Int
      BY PlaceFacts DEF TreeType
    <3>2. NumWindows \in Nat
      BY WindowsAssumption
    <3> QED
      BY <3>1, <3>2, <2>1, <2>2
  <2>4. k # 1 => Ends(k - 1)' /\ stack'[k - 1] = stack[k]
    <3>1. k # 1 => k - 1 \in 1 .. n - 1 /\ stack'[k - 1] = stack[k] /\ k - 1 + 1 = k
      BY <2>1, <1>1
    <3> QED
      BY <2>2, <3>1, <1>2
  <2> QED
    BY <2>1, <2>2, <2>3, <2>4, <1>1
<1>9. ASSUME NEW v PROVE BeingDestroyed(v)' <=> BeingDestroyed(v) /\ v # w
  <2>1. ASSUME BeingDestroyed(v)' PROVE BeingDestroyed(v) /\ v # w
    <3>1. PICK k \in DOMAIN stack' : Ends(k)' /\ stack'[k].win = v
      BY <2>1 DEF BeingDestroyed
    <3>2. k + 1 \in 1 .. n /\ k + 1 # 1 /\ Ends(k + 1) /\ stack[k + 1].win = v /\ Works(k + 1)
      BY <3>1, <1>1, <1>2 DEF Ends, Works
    <3> QED
      BY <3>2, <1>1, <1>4 DEF BeingDestroyed
  <2>2. ASSUME BeingDestroyed(v), v # w PROVE BeingDestroyed(v)'
    <3>1. PICK k \in DOMAIN stack : Ends(k) /\ stack[k].win = v
      BY <2>2 DEF BeingDestroyed
    <3>2. k # 1
      BY <3>1, <2>2
    <3>3. k - 1 \in DOMAIN stack' /\ Ends(k - 1)' /\ stack'[k - 1] = stack[k]
      BY <3>1, <3>2, <1>1 DEF Ends
    <3> QED
      BY <3>1, <3>3 DEF BeingDestroyed
  <2> QED
    BY <2>1, <2>2
<1> QED
  BY <1>5, <1>6, <1>7, <1>8, <1>9

(* The end of destroyWindow: the window is in no list, and had WM_DESTROY   *)
(* once.                                                                    *)
LEMMA WindowGone ==
    ASSUME TreeInv, DestroyFinish
    PROVE  TreeInv' /\ \A v \in live \ live' : told[v] = 1
<1>1. TreeType /\ ListsInv /\ ParentsInv /\ CallsInv /\ LoopsInv /\ TerminateInv /\ ToldInv
  BY DEF TreeInv
<1>2. PICK w : w = stack[1].win
  OBVIOUS
<1>3. /\ stack # <<>> /\ stack[1].at = "children" /\ stack[1].i = Null /\ stack' = Tail(stack) /\ program' = program
      /\ Unlink(w, parent[w]) /\ live' = live \ {w} /\ parent' = [parent EXCEPT ![w] = Null]
      /\ owner' = [owner EXCEPT ![w] = Null] /\ told' = [told EXCEPT ![w] = 0]
  BY <1>2 DEF DestroyFinish, InLoop, Top, Pop
<1>4. stack \in Seq(FrameType) /\ stack[1] \in FrameType /\ 1 \in DOMAIN stack
  BY <1>1, <1>3 DEF TreeType
<1>5. Works(1) /\ Ends(1) /\ w \in live /\ BeingDestroyed(w) /\ w \in Window
  <2>1. Works(1) /\ Ends(1)
    BY <1>3 DEF Works, Ends
  <2> QED
    BY <2>1, <1>1, <1>2, <1>4 DEF CallsInv, BeingDestroyed, TreeType
<1>6. PICK p \in live \cup {Desktop} : p = parent[w] /\ p # w /\ p \in Place
  <2>1. parent[w] \in live \cup {Desktop} /\ w \notin Ancestors(parent[w])
    BY <1>1, <1>5 DEF ParentsInv
  <2>2. parent[w] \in Place
    BY <1>1, <2>1, PlaceFacts DEF TreeType
  <2>3. parent[w] \in Ancestors(parent[w])
    BY <1>1, <2>2, AncestorsUp
  <2> QED
    BY <2>1, <2>2, <2>3
<1>7. ASSUME NEW v \in live PROVE parent[v] # w
  <2>1. \A u \in Unlinked : parent[u] # w
    BY <1>1, <1>2, <1>3, <1>4 DEF LoopsInv
  <2>2. child[w] = Null
    BY <1>1, <1>2, <1>3, <1>4 DEF LoopsInv
  <2>3. PICK s : IsChain(w, s) /\ ToSet(s) = Linked(w)
    BY <1>1, <1>5 DEF ListsInv
  <2>4. s = <<>>
    <3>1. s \in Seq(Window) /\ (s # <<>> => child[w] = s[1])
      BY <2>3 DEF IsChain
    <3>2. s # <<>> => s[1] \in Window
      BY <3>1
    <3> QED
      BY <3>1, <3>2, <2>2, PlaceFacts
  <2>5. Linked(w) = {}
    BY <2>3, <2>4 DEF ToSet
  <2> QED
    BY <2>1, <2>5 DEF Linked
<1>8. /\ \E t : IsChain(p, t)' /\ ToSet(t) = Linked(p) \ {w}
      /\ child' \in [Place -> Window \cup {Null}] /\ sibling' \in [Window -> Window \cup {Null}]
      /\ child[p] = w => child'[p] = sibling[w]
      /\ \A q \in Place : q # w /\ (q = p => child[p] # w) => child'[q] = child[q]
      /\ \A v \in Window : v # w /\ (v \in Linked(p) => sibling[v] # w) => sibling'[v] = sibling[v]
  BY <1>1, <1>3, <1>5, <1>6, UnlinkDone
<1>9. /\ parent' \in [Window -> Place \cup {Null}] /\ owner' \in [Window -> Place \cup {Null}]
      /\ \A v \in live' : v \in live /\ v # w /\ parent'[v] = parent[v] /\ owner'[v] = owner[v] /\ told'[v] = told[v]
      /\ \A v \in Window : parent'[v] \in {parent[v], Null}
  BY <1>1, <1>3 DEF TreeType
<1>10. \A v \in Place : Ancestors(v)' \subseteq Ancestors(v)
  BY <1>1, <1>9, AncestorsStay
<1>11. live' \subseteq Window /\ live' \subseteq Place /\ Linked(p) \subseteq Window
  BY <1>1, <1>3, PlaceFacts DEF TreeType, Linked
<1>12. /\ CallsInv' /\ LoopsInv' /\ TerminateInv' /\ \A v : BeingDestroyed(v)' <=> BeingDestroyed(v) /\ v # w
       /\ \A v : v \in Unlinked' <=> v \in Unlinked /\ v # w
  <2>1. \A v \in live' : Ancestors(v)' \subseteq Ancestors(v) /\ parent'[v] = parent[v]
    BY <1>9, <1>10, <1>11
  <2>2. ASSUME NEW k \in DOMAIN stack, stack[k].at = "children", k > 1
        PROVE  /\ stack[k].win \in live /\ stack[k].win # w /\ stack[k].win \in Place
               /\ child[stack[k].win] = stack[k - 1].win /\ stack[k].i = sibling[stack[k - 1].win]
               /\ stack[k].i # w /\ stack[k - 1].win \in Window
    <3>1. Works(k) /\ stack[k].win \in live /\ stack[k].win # w
      BY <1>1, <1>2, <1>4, <1>5, <2>2 DEF CallsInv, Works
    <3>2. child[stack[k].win] = stack[k - 1].win /\ stack[k].i = sibling[stack[k - 1].win]
      BY <1>1, <2>2 DEF LoopsInv
    <3>3. 1 \in 1 .. k - 1
      BY <1>4, <2>2
    <3>4. stack[k].i # w
      BY <3>3, <1>1, <1>2, <1>5, <2>2 DEF LoopsInv
    <3>5. stack[k - 1].win \in Linked(stack[k].win)
      BY <1>1, <2>2, NextIsLinked
    <3> QED
      BY <3>1, <3>2, <3>4, <3>5, <1>1, PlaceFacts DEF TreeType, Linked
  <2>3. ASSUME NEW k \in DOMAIN stack, stack[k].at = "children", k > 2
        PROVE  /\ child'[stack[k].win] = child[stack[k].win]
               /\ sibling'[stack[k - 1].win] = sibling[stack[k - 1].win]
    <3>1. k > 1 /\ k - 1 \in DOMAIN stack /\ k - 1 # 1
      BY <1>4, <2>3
    <3>2. Ends(k - 1)
      BY <3>1, <1>1, <2>3 DEF LoopsInv
    <3>3. stack[k - 1].win # w
      BY <3>1, <3>2, <1>1, <1>2, <1>4, <1>5 DEF CallsInv, Works, Ends
    <3> QED
      BY <3>1, <3>3, <2>2, <2>3, <1>8
  <2>4. ASSUME NEW k \in DOMAIN stack, stack[k].at = "children", k = 2
        PROVE  child'[stack[k].win] = sibling[w]
    <3>1. child[stack[k].win] = w
      BY <2>2, <2>4, <1>2
    <3>2. w \in Linked(stack[k].win)
      BY <1>1, <1>2, <2>4, NextIsLinked
    <3>3. stack[k].win = p
      BY <3>2, <1>6 DEF Linked
    <3> QED
      BY <3>1, <3>3, <1>8
  <2> QED
    BY <1>1, <1>2, <1>3, <2>1, <2>3, <2>4, DestroyOver
<1>13. TreeType'
  <2>1. stack' \in Seq(FrameType)
    BY <1>3, <1>4, Popped
  <2>2. told' \in [Window -> 0 .. 2]
    <3>1. told \in [Window -> 0 .. 2] /\ 0 \in 0 .. 2
      BY <1>1 DEF TreeType
    <3> QED
      BY <3>1, <1>3
  <2> QED
    BY <1>1, <1>3, <1>8, <1>9, <1>11, <2>1, <2>2 DEF TreeType
<1>14. ASSUME NEW q PROVE Linked(q)' = Linked(q) \ {w}
  BY <1>3, <1>9, <1>12 DEF Linked
<1>15. ListsInv'
  <2>1. ASSUME NEW q \in live' \cup {Desktop}
        PROVE  \E s : IsChain(q, s)' /\ ToSet(s) = Linked(q)'
    <3>1. CASE q = p
      BY <3>1, <1>8, <1>14
    <3>2. CASE q # p
      <4>1. q \in live \cup {Desktop} /\ q # w /\ q \in Place
        BY <1>5, <1>9, <1>11, PlaceFacts
      <4>2. PICK s : IsChain(q, s) /\ ToSet(s) = Linked(q)
        BY <4>1, <1>1 DEF ListsInv
      <4>3. Linked(q)' = Linked(q) /\ \A v \in Linked(q) : v \in Window /\ v # w /\ v \notin Linked(p)
        <5>1. \A v \in Linked(q) : v \in Window /\ v # w /\ v \notin Linked(p)
          BY <3>2, <1>1, <1>6 DEF Linked, TreeType
        <5> QED
          BY <5>1, <1>14
      <4>4. child'[q] = child[q] /\ \A v \in ToSet(s) : sibling'[v] = sibling[v]
        BY <3>2, <4>1, <4>2, <4>3, <1>8
      <4> QED
        BY <4>2, <4>3, <4>4, ChainStays
    <3> QED
      BY <3>1, <3>2
  <2>2. ASSUME NEW v \in Unlinked' PROVE sibling'[v] = Null
    <3>1. v \in Unlinked /\ v # w /\ v \in live /\ v \in Window /\ v \notin Linked(p)
      BY <1>1, <1>12, <2>2, UnlinkedLive DEF Linked, TreeType
    <3> QED
      BY <3>1, <1>1, <1>8 DEF ListsInv
  <2> QED
    BY <2>1, <2>2 DEF ListsInv
<1>16. ParentsInv'
  <2>1. ASSUME NEW v \in live'
        PROVE  /\ parent'[v] \in live' \cup {Desktop} /\ owner'[v] \in {parent'[v], Null}
               /\ (v \notin Ancestors(parent[v]))'
    <3>1. PICK q \in live \cup {Desktop} : q = parent[v] /\ v \notin Ancestors(q) /\ owner[v] \in {q, Null} /\ q # w
      BY <1>1, <1>7, <1>9 DEF ParentsInv
    <3>2. parent'[v] = q /\ owner'[v] \in {q, Null} /\ q \in live' \cup {Desktop}
      BY <3>1, <1>3, <1>9
    <3>3. v \notin Ancestors(q)'
      BY <3>1, <3>2, <1>10, <1>11, PlaceFacts
    <3>4. (Ancestors(parent[v]))' = Ancestors(q)'
      BY <3>2 DEF Ancestors, ClosedUp
    <3> QED
      BY <3>2, <3>3, <3>4
  <2> QED
    BY <2>1 DEF ParentsInv
<1>17. ToldInv'
  BY <1>1, <1>9, <1>12, ToldIs
<1>18. \A v \in live \ live' : told[v] = 1
  <2>1. told[w] = 1
    BY <1>1, <1>5, ToldIs
  <2> QED
    BY <2>1, <1>3
<1> QED
  BY <1>12, <1>13, <1>15, <1>16, <1>17, <1>18 DEF TreeInv

-----------------------------------------------------------------------------
(* The loops of destroyWindow and WinTerminate: the loop goes on as g when  *)
(* the call f is over.                                                      *)
LEMMA CalledFrom ==
    ASSUME NEW S, NEW st \in Seq(S), st # <<>>, NEW f \in S, NEW g \in S
    PROVE  LET new == <<f, g>> \o Tail(st)
               n == Len(st) IN
           /\ new \in Seq(S) /\ n \in Nat \ {0} /\ DOMAIN st = 1 .. n /\ DOMAIN new = 1 .. n + 1
           /\ Len(new) = n + 1 /\ new[1] = f /\ new[2] = g
           /\ \A k \in 1 .. n + 1 : k > 2 => k - 1 \in 1 .. n /\ new[k] = st[k - 1]
<1> DEFINE new == <<f, g>> \o Tail(st)
           n == Len(st)
<1>1. n \in Nat \ {0} /\ DOMAIN st = 1 .. n
  OBVIOUS
<1>2. Tail(st) \in Seq(S) /\ Len(Tail(st)) = n - 1
  BY <1>1
<1>3. \A k \in 1 .. n - 1 : Tail(st)[k] = st[k + 1]
  BY <1>1
<1>4. new \in Seq(S) /\ Len(new) = n + 1 /\ new[1] = f /\ new[2] = g
  BY <1>1, <1>2
<1>5. DOMAIN new = 1 .. n + 1
  BY <1>4, <1>1
<1>6. ASSUME NEW k \in 1 .. n + 1, k > 2 PROVE k - 1 \in 1 .. n /\ new[k] = st[k - 1]
  <2>1. k - 1 \in 1 .. n /\ k - 2 \in 1 .. n - 1 /\ k - 2 + 1 = k - 1
    BY <1>1, <1>6
  <2>2. new[k] = Tail(st)[k - 2]
    BY <1>1, <1>2, <1>6
  <2> QED
    BY <2>1, <2>2, <1>3
<1> HIDE DEF new, n
<1> QED
  BY <1>1, <1>4, <1>5, <1>6 DEF new, n

(* A loop that destroys a window and keeps its own place.                   *)
LEMMA LoopCalls ==
    ASSUME TreeType, CallsInv, LoopsInv, TerminateInv, stack # <<>>, NEW f \in FrameType, NEW g \in FrameType,
           stack' = <<f, g>> \o Tail(stack), UNCHANGED <<live, parent, child, sibling>>,
           f.at = "destroy", ~f.new, f.win \in live, stack[1].at \in {"children", "terminate"},
           g.at = stack[1].at, g.win = stack[1].win, g.new = stack[1].new,
           \A k \in DOMAIN stack : Works(k) => f.win \notin Ancestors(stack[k].win) /\ f.win # stack[k].win,
           \A k \in DOMAIN stack : stack[k].at = "children" /\ k > 1 => stack[k].i # f.win,
           g.at = "children" => child[g.win] = f.win /\ g.i = sibling[f.win] /\ g.i # f.win,
           g.at = "terminate" => g.i = f.win + 1 /\ g.i \in 1 .. NumWindows + 1 /\ \A w \in live : w >= f.win
    PROVE  /\ CallsInv' /\ LoopsInv' /\ TerminateInv' /\ stack' \in Seq(FrameType)
           /\ \A v : v \in Unlinked' <=> v \in Unlinked
           /\ \A v : BeingDestroyed(v)' <=> BeingDestroyed(v) \/ v = f.win
<1> DEFINE n == Len(stack)
<1>1. /\ n \in Nat \ {0} /\ DOMAIN stack = 1 .. n /\ DOMAIN stack' = 1 .. n + 1 /\ Len(stack') = n + 1
      /\ stack'[1] = f /\ stack'[2] = g /\ stack' \in Seq(FrameType)
      /\ \A k \in 1 .. n + 1 : k > 2 => k - 1 \in 1 .. n /\ stack'[k] = stack[k - 1]
  <2>1. stack \in Seq(FrameType)
    BY DEF TreeType
  <2> QED
    BY <2>1, CalledFrom
<1> HIDE DEF n
<1>2. ASSUME NEW k \in 2 .. n + 1
      PROVE  /\ k - 1 \in 1 .. n /\ k \in 1 .. n + 1 /\ stack'[k].at = stack[k - 1].at /\ stack'[k].win = stack[k - 1].win
             /\ stack'[k].new = stack[k - 1].new /\ (k > 2 => stack'[k].i = stack[k - 1].i)
  <2>1. CASE k = 2
    <3>1. stack'[k] = g /\ k - 1 = 1 /\ k - 1 \in 1 .. n /\ k \in 1 .. n + 1 /\ ~(k > 2)
      BY <2>1, <1>1
    <3> QED
      BY <3>1
  <2>2. CASE k > 2
    <3>1. stack'[k] = stack[k - 1] /\ k - 1 \in 1 .. n /\ k \in 1 .. n + 1
      BY <2>2, <1>1
    <3> QED
      BY <3>1
  <2>3. k = 2 \/ k > 2
    OBVIOUS
  <2> QED
    BY <2>1, <2>2, <2>3, Zenon
<1>3. /\ \A k \in 2 .. n + 1 : (Works(k)' <=> Works(k - 1)) /\ (Ends(k)' <=> Ends(k - 1))
      /\ Works(1)' /\ Ends(1)' /\ 1 \in 1 .. n + 1 /\ 2 \in 1 .. n + 1
      /\ \A k \in 1 .. n + 1 : k # 1 => k \in 2 .. n + 1
      /\ \A k \in 1 .. n : k + 1 \in 2 .. n + 1 /\ k + 1 - 1 = k /\ k + 1 \in 1 .. n + 1
  BY <1>1, <1>2 DEF Works, Ends
<1>4. \A k \in 1 .. n : Ends(k) => Works(k)
  BY DEF Works, Ends
<1>5. CallsInv'
  <2>1. ASSUME NEW k \in DOMAIN stack', Works(k)'
        PROVE  stack'[k].win \in live' /\ (~Ends(k)' => stack'[k].new)
    <3>1. CASE k = 1
      BY <3>1, <1>1, <1>3
    <3>2. CASE k # 1
      <4>1. k \in 2 .. n + 1 /\ Works(k - 1) /\ k - 1 \in DOMAIN stack
        BY <2>1, <3>2, <1>1, <1>2, <1>3
      <4> QED
        BY <4>1, <1>2, <1>3 DEF CallsInv
    <3> QED
      BY <3>1, <3>2
  <2>2. ASSUME NEW k \in DOMAIN stack', NEW l \in DOMAIN stack', Works(k)', Works(l)', stack'[k].win = stack'[l].win
        PROVE  k = l
    <3>1. CASE k # 1 /\ l # 1
      <4>1. /\ k - 1 \in DOMAIN stack /\ l - 1 \in DOMAIN stack /\ Works(k - 1) /\ Works(l - 1)
            /\ stack[k - 1].win = stack[l - 1].win
        BY <3>1, <2>2, <1>1, <1>2, <1>3
      <4>2. k - 1 = l - 1
        BY <4>1 DEF CallsInv
      <4> QED
        BY <4>2, <1>1
    <3>2. CASE k = 1
      BY <3>2, <2>2, <1>1, <1>2, <1>3
    <3>3. CASE l = 1
      BY <3>3, <2>2, <1>1, <1>2, <1>3
    <3> QED
      BY <3>1, <3>2, <3>3
  <2>3. ASSUME NEW k \in DOMAIN stack', NEW l \in DOMAIN stack', k < l, Works(k)', Works(l)'
        PROVE  (stack[k].win \notin Ancestors(stack[l].win))'
    <3>1. /\ l \in 2 .. n + 1 /\ l - 1 \in DOMAIN stack /\ stack'[l].win = stack[l - 1].win /\ Works(l - 1)
      BY <2>3, <1>1, <1>2, <1>3
    <3>2. stack'[k].win \notin Ancestors(stack[l - 1].win)
      <4>1. CASE k = 1
        BY <4>1, <3>1, <1>1
      <4>2. CASE k # 1
        <5>1. k - 1 \in DOMAIN stack /\ stack'[k].win = stack[k - 1].win /\ Works(k - 1) /\ k - 1 < l - 1
          BY <4>2, <2>3, <1>1, <1>2, <1>3, SMTT(30)
        <5> QED
          BY <5>1, <3>1 DEF CallsInv
      <4> QED
        BY <4>1, <4>2
    <3>3. (Ancestors(stack[l].win))' = Ancestors(stack[l - 1].win)
      BY <3>1 DEF Ancestors, ClosedUp
    <3> QED
      BY <3>2, <3>3
  <2> QED
    BY <2>1, <2>2, <2>3 DEF CallsInv
<1>6. ASSUME NEW v PROVE v \in Unlinked' <=> v \in Unlinked
  <2>1. ASSUME v \in Unlinked' PROVE v \in Unlinked
    <3>1. PICK k \in DOMAIN stack' : Works(k)' /\ stack'[k].new /\ stack'[k].win = v
      BY <2>1, UnlinkedIs
    <3>2. k - 1 \in DOMAIN stack /\ Works(k - 1) /\ stack[k - 1].new /\ stack[k - 1].win = v
      BY <3>1, <1>1, <1>2, <1>3
    <3> QED
      BY <3>2, UnlinkedIs
  <2>2. ASSUME v \in Unlinked PROVE v \in Unlinked'
    <3>1. PICK k \in DOMAIN stack : Works(k) /\ stack[k].new /\ stack[k].win = v
      BY <2>2, UnlinkedIs
    <3>2. k + 1 \in 2 .. n + 1 /\ k + 1 - 1 = k
      BY <3>1, <1>1, <1>3
    <3>3. k + 1 \in DOMAIN stack' /\ Works(k + 1)' /\ stack'[k + 1].new /\ stack'[k + 1].win = v
      BY <3>1, <3>2, <1>1, <1>2, <1>3
    <3> QED
      BY <3>3, UnlinkedIs
  <2> QED
    BY <2>1, <2>2
<1>7. LoopsInv'
  <2> SUFFICES ASSUME NEW k \in DOMAIN stack', stack'[k].at = "children"
               PROVE  /\ \A v \in Unlinked' : parent'[v] # stack'[k].win
                      /\ \A l \in 1 .. k - 1 : Ends(l)' => stack'[l].win # stack'[k].i
                      /\ k > 1 /\ Ends(k - 1)' /\ ~stack'[k - 1].new
                      /\ child'[stack'[k].win] = stack'[k - 1].win
                      /\ stack'[k].i = sibling'[stack'[k - 1].win]
    BY <1>1, SMTT(30) DEF LoopsInv
  <2>1. k \in 2 .. n + 1 /\ k - 1 \in DOMAIN stack /\ stack[k - 1].at = "children" /\ stack'[k].win = stack[k - 1].win
    BY <1>1, <1>2, <1>3
  <2>2. \A v \in Unlinked' : parent'[v] # stack'[k].win
    <3>1. \A v \in Unlinked : parent[v] # stack[k - 1].win
      BY <2>1 DEF LoopsInv
    <3> QED
      BY <3>1, <2>1, <1>6
  <2>3. CASE k = 2
    <3>1. stack'[k] = g /\ stack'[k - 1] = f /\ g.at = "children" /\ Ends(k - 1)'
      BY <2>3, <1>1, <1>3
    <3>2. \A l \in 1 .. k - 1 : l = 1
      BY <2>3
    <3> QED
      BY <3>1, <3>2, <2>2, <2>3, <1>1
  <2>4. CASE k > 2
    <3>1. /\ k - 2 \in 1 .. n /\ k - 1 \in 2 .. n + 1 /\ k - 1 - 1 = k - 2 /\ k - 1 > 1 /\ stack'[k].i = stack[k - 1].i
          /\ k > 1
      BY <2>1, <2>4, <1>1, <1>2
    <3>2. /\ \A l \in 1 .. k - 2 : Ends(l) => stack[l].win # stack[k - 1].i
          /\ Ends(k - 2) /\ ~stack[k - 2].new
          /\ child[stack[k - 1].win] = stack[k - 2].win
          /\ stack[k - 1].i = sibling[stack[k - 2].win]
      BY <3>1, <2>1 DEF LoopsInv
    <3>3. Ends(k - 1)' /\ stack'[k - 1].win = stack[k - 2].win /\ stack'[k - 1].new = stack[k - 2].new
      BY <3>1, <3>2, <1>2, <1>3
    <3>4. ASSUME NEW l \in 1 .. k - 1, Ends(l)' PROVE stack'[l].win # stack'[k].i
      <4>1. CASE l = 1
        BY <4>1, <3>1, <2>1, <1>1
      <4>2. CASE l # 1
        <5>1. l \in 2 .. n + 1 /\ l - 1 \in 1 .. k - 2
          BY <4>2, <2>1, <1>1
        <5>2. stack'[l].win = stack[l - 1].win /\ Ends(l - 1)
          BY <5>1, <3>4, <1>2, <1>3
        <5> QED
          BY <5>1, <5>2, <3>1, <3>2
      <4> QED
        BY <4>1, <4>2
    <3> QED
      BY <3>1, <3>2, <3>3, <3>4, <2>1, <2>2
  <2>5. k = 2 \/ k > 2
    BY <2>1, <1>1
  <2> QED
    BY <2>3, <2>4, <2>5
<1>8. TerminateInv'
  <2> SUFFICES ASSUME NEW k \in DOMAIN stack', stack'[k].at = "terminate"
               PROVE  /\ k = Len(stack') /\ stack'[k].i \in 1 .. NumWindows + 1
                      /\ k > 1 /\ Ends(k - 1)' /\ stack'[k - 1].win = stack'[k].i - 1
                      /\ \A v \in live' : v >= stack'[k].i - 1
    BY <1>1 DEF TerminateInv
  <2>1. k \in 2 .. n + 1 /\ k - 1 \in DOMAIN stack /\ stack[k - 1].at = "terminate"
    BY <1>1, <1>2, <1>3
  <2>2. k - 1 = n /\ k > 1
    BY <2>1, <1>1 DEF TerminateInv, n
  <2>3. CASE k = 2
    <3>1. stack'[k] = g /\ stack'[k - 1] = f /\ g.at = "terminate" /\ Ends(k - 1)'
      BY <2>3, <1>1, <1>3
    <3>2. g.i = f.win + 1 /\ g.i \in 1 .. NumWindows + 1 /\ \A w \in live : w >= f.win
      BY <3>1
    <3>3. f.win \in Int
      <4>1. f.win \in Window
        BY DEF FrameType
      <4>2. Window \subseteq Int
        BY PlaceFacts
      <4> QED
        BY <4>1, <4>2, Zenon
    <3>4. g.i - 1 = f.win
      BY <3>2, <3>3
    <3> QED
      BY <3>1, <3>2, <3>4, <2>2, <2>3, <1>1
  <2>4. CASE k > 2
    <3>1. /\ k - 2 \in 1 .. n /\ k - 1 \in 2 .. n + 1 /\ k - 1 - 1 = k - 2 /\ k - 1 > 1 /\ stack'[k].i = stack[k - 1].i
      BY <2>1, <2>4, <1>1, <1>2
    <3>2. /\ stack[k - 1].i \in 1 .. NumWindows + 1 /\ Ends(k - 2) /\ stack[k - 2].win = stack[k - 1].i - 1
          /\ \A w \in live : w >= stack[k - 1].i - 1
      BY <2>1, <3>1 DEF TerminateInv
    <3>3. Ends(k - 1)' /\ stack'[k - 1].win = stack[k - 2].win
      BY <3>1, <3>2, <1>2, <1>3
    <3> QED
      BY <3>1, <3>2, <3>3, <2>2, <1>1
  <2> QED
    BY <2>1, <2>3, <2>4
<1>9. ASSUME NEW v PROVE BeingDestroyed(v)' <=> BeingDestroyed(v) \/ v = f.win
  <2>1. ASSUME BeingDestroyed(v)' PROVE BeingDestroyed(v) \/ v = f.win
    <3>1. PICK k \in DOMAIN stack' : Ends(k)' /\ stack'[k].win = v
      BY <2>1 DEF BeingDestroyed
    <3>2. CASE k = 1
      BY <3>1, <3>2, <1>1
    <3>3. CASE k # 1
      <4>1. k - 1 \in DOMAIN stack /\ Ends(k - 1) /\ stack[k - 1].win = v
        BY <3>1, <3>3, <1>1, <1>2, <1>3
      <4> QED
        BY <4>1 DEF BeingDestroyed
    <3> QED
      BY <3>2, <3>3
  <2>2. ASSUME BeingDestroyed(v) PROVE BeingDestroyed(v)'
    <3>1. PICK k \in DOMAIN stack : Ends(k) /\ stack[k].win = v
      BY <2>2 DEF BeingDestroyed
    <3>2. k + 1 \in 2 .. n + 1 /\ k + 1 - 1 = k
      BY <3>1, <1>1, <1>3
    <3>3. k + 1 \in DOMAIN stack' /\ Ends(k + 1)' /\ stack'[k + 1].win = v
      BY <3>1, <3>2, <1>1, <1>2, <1>3
    <3> QED
      BY <3>3 DEF BeingDestroyed
  <2>3. ASSUME v = f.win PROVE BeingDestroyed(v)'
    BY <2>3, <1>1, <1>3 DEF BeingDestroyed
  <2> QED
    BY <2>1, <2>2, <2>3
<1> QED
  BY <1>1, <1>5, <1>6, <1>7, <1>8, <1>9

(* The next child of a window, or the next window of the array, is to be    *)
(* destroyed.                                                               *)
LEMMA ChildIsNext ==
    ASSUME TreeInv, DestroyChild
    PROVE  TreeInv'
<1>1. TreeType /\ ListsInv /\ ParentsInv /\ CallsInv /\ LoopsInv /\ TerminateInv /\ ToldInv
  BY DEF TreeInv
<1>2. /\ stack # <<>> /\ stack[1].at = "children" /\ stack[1].i # Null
      /\ UNCHANGED <<program, live, parent, child, sibling, owner>>
  BY DEF DestroyChild, InLoop, Top
<1>3. stack \in Seq(FrameType) /\ stack[1] \in FrameType /\ 1 \in DOMAIN stack
  BY <1>1, <1>2 DEF TreeType
<1>4. PICK p, d : p = stack[1].win /\ d = stack[1].i
  OBVIOUS
<1>5. Works(1) /\ p \in live
  <2>1. Works(1)
    BY <1>2 DEF Works
  <2> QED
    BY <2>1, <1>1, <1>3, <1>4 DEF CallsInv
<1>6. d \in Linked(p) /\ d \in live /\ d \in Window /\ parent[d] = p /\ child[p] = d
  <2>1. d \in Linked(p)
    BY <1>1, <1>2, <1>3, <1>4, NextIsLinked
  <2>2. child[p] = d
    BY <1>1, <1>2, <1>3, <1>4 DEF LoopsInv
  <2> QED
    BY <2>1, <2>2, <1>1 DEF Linked, TreeType
<1>7. sibling[d] # d /\ sibling[d] \in Window \cup {Null}
  <2>1. PICK s : IsChain(p, s)
    BY <1>1, <1>5 DEF ListsInv
  <2>2. /\ s \in Seq(Window) /\ child[p] = IF s = <<>> THEN Null ELSE s[1]
        /\ \A i, j \in DOMAIN s : s[i] = s[j] => i = j
        /\ \A i \in DOMAIN s : sibling[s[i]] = IF i = Len(s) THEN Null ELSE s[i + 1]
    BY <2>1 DEF IsChain
  <2>3. s # <<>> /\ 1 \in DOMAIN s /\ d = s[1]
    BY <2>2, <1>6, PlaceFacts
  <2>4. Len(s) # 1 => 2 \in DOMAIN s
    <3>1. s \in Seq(Window) /\ 1 \in DOMAIN s
      BY <2>2, <2>3
    <3>2. Len(s) \in Nat /\ DOMAIN s = 1 .. Len(s)
      BY <3>1
    <3> QED
      BY <3>1, <3>2
  <2>5. Len(s) # 1 => s[2] # s[1]
    BY <2>2, <2>3, <2>4
  <2>6. sibling[d] = IF Len(s) = 1 THEN Null ELSE s[2]
    <3>1. sibling[s[1]] = IF 1 = Len(s) THEN Null ELSE s[1 + 1]
      BY <2>2, <2>3
    <3> QED
      BY <3>1, <2>3
  <2> QED
    BY <2>3, <2>5, <2>6, <1>1, <1>6, PlaceFacts DEF TreeType
<1>8. PICK f \in FrameType, g \in FrameType :
        /\ stack' = <<f, g>> \o Tail(stack) /\ f.at = "destroy" /\ ~f.new /\ f.win = d
        /\ g.at = "children" /\ g.win = p /\ g.new = stack[1].new /\ g.i = sibling[d]
        /\ told' = [told EXCEPT ![d] = IF told[d] = 2 THEN 2 ELSE told[d] + 1]
  <2> DEFINE f == Frame("destroy", d, Null, FALSE)
             g == [stack[1] EXCEPT !.i = sibling[d]]
  <2>1. f \in FrameType /\ f.at = "destroy" /\ ~f.new /\ f.win = d
    BY <1>6 DEF Frame, FrameType
  <2>2. g \in FrameType /\ g.at = "children" /\ g.win = p /\ g.new = stack[1].new /\ g.i = sibling[d]
    BY <1>2, <1>3, <1>4, <1>7 DEF FrameType
  <2>3. stack' = <<f, g>> \o Tail(stack) /\ Told(d)
    BY <1>4, <1>6 DEF DestroyChild, Top
  <2> HIDE DEF f, g
  <2> QED
    BY <2>1, <2>2, <2>3 DEF Told
<1>9. ASSUME NEW k \in DOMAIN stack, Works(k) PROVE d \notin Ancestors(stack[k].win) /\ d # stack[k].win
  <2>1. stack[k].win \in live /\ stack[k].win \in Place
    BY <1>1, <1>9, PlaceFacts DEF CallsInv, TreeType
  <2>2. CASE k = 1
    BY <2>1, <2>2, <1>1, <1>4, <1>6, AncestorsUp DEF ParentsInv
  <2>3. CASE k # 1
    <3>1. 1 < k
      BY <1>3, <2>3
    <3>2. p \notin Ancestors(stack[k].win)
      BY <3>1, <1>1, <1>3, <1>4, <1>5, <1>9 DEF CallsInv
    <3>3. d \notin Ancestors(stack[k].win)
      <4>1. parent[d] # Null
        BY <1>1, <1>5, <1>6, PlaceFacts DEF TreeType
      <4> QED
        BY <4>1, <3>2, <2>1, <1>1, <1>6, AncestorsUp
    <3> QED
      BY <3>3, <2>1, <1>1, AncestorsUp
  <2> QED
    BY <2>2, <2>3
<1>10. ASSUME NEW k \in DOMAIN stack, stack[k].at = "children", k > 1 PROVE stack[k].i # d
  <2>1. SUFFICES ASSUME stack[k].i = d PROVE FALSE
    OBVIOUS
  <2>2. stack[k].i \in Linked(stack[k].win)
    BY <2>1, <1>1, <1>6, <1>10, PlaceFacts, NextIsLinked
  <2>3. stack[k].win = p /\ Works(k)
    BY <2>1, <2>2, <1>6, <1>10 DEF Linked, Works
  <2> QED
    BY <2>3, <1>1, <1>3, <1>4, <1>5, <1>10 DEF CallsInv
<1>11. /\ CallsInv' /\ LoopsInv' /\ TerminateInv' /\ stack' \in Seq(FrameType)
       /\ \A v : v \in Unlinked' <=> v \in Unlinked
       /\ \A v : BeingDestroyed(v)' <=> BeingDestroyed(v) \/ v = d
  <2>1. g.at # "terminate" /\ g.at = stack[1].at /\ g.win = stack[1].win
    BY <1>2, <1>4, <1>8
  <2> QED
    BY <2>1, <1>1, <1>2, <1>6, <1>7, <1>8, <1>9, <1>10, LoopCalls
<1>12. ListsInv' /\ ParentsInv'
  BY <1>1, <1>2, <1>11, TreeKept
<1>13. told[d] = 0
  <2>1. ~BeingDestroyed(d)
    BY <1>9 DEF BeingDestroyed, Works, Ends
  <2> QED
    BY <2>1, <1>1, <1>6, ToldIs
<1>14. told' \in [Window -> 0 .. 2] /\ told'[d] = 1 /\ \A v \in live : v # d => told'[v] = told[v]
  BY <1>1, <1>6, <1>8, <1>13 DEF TreeType
<1>15. TreeType'
  BY <1>1, <1>2, <1>11, <1>14 DEF TreeType
<1>16. ToldInv'
  BY <1>1, <1>2, <1>11, <1>14, ToldIs
<1> QED
  BY <1>11, <1>12, <1>15, <1>16 DEF TreeInv

(* One turn of the loop of WinTerminate.                                    *)
LEMMA WindowIsNext ==
    ASSUME TreeInv, TerminateNext
    PROVE  TreeInv'
<1>1. TreeType /\ ListsInv /\ ParentsInv /\ CallsInv /\ LoopsInv /\ TerminateInv /\ ToldInv
  BY DEF TreeInv
<1>2. /\ stack # <<>> /\ stack[1].at = "terminate" /\ stack[1].i \in Window
      /\ UNCHANGED <<program, live, parent, child, sibling, owner>>
  BY DEF TerminateNext, InLoop, Top
<1>3. /\ stack \in Seq(FrameType) /\ stack[1] \in FrameType /\ 1 \in DOMAIN stack /\ Len(stack) \in Nat
      /\ DOMAIN stack = 1 .. Len(stack)
  BY <1>1, <1>2 DEF TreeType
<1>4. PICK d \in Window : d = stack[1].i
  BY <1>2
<1>5. Len(stack) = 1 /\ (\A v \in live : v >= d) /\ \A k \in DOMAIN stack : k = 1
  <2>1. Len(stack) = 1 /\ (\A v \in live : v >= d)
    BY <1>1, <1>2, <1>3, <1>4 DEF TerminateInv
  <2> QED
    BY <2>1, <1>3
<1>6. /\ \A k \in DOMAIN stack : ~Works(k) /\ ~Ends(k) /\ stack[k].at # "children"
      /\ d + 1 \in 1 .. NumWindows + 1 /\ NumWindows \in Nat /\ d \in Int
      /\ d + 1 \in Window \cup {NumWindows + 1}
  <2>1. NumWindows \in Nat /\ d \in 1 .. NumWindows
    BY WindowsAssumption DEF Window
  <2>2. d + 1 \in 1 .. NumWindows + 1 /\ d \in Int /\ d + 1 \in Window \cup {NumWindows + 1}
    BY <2>1 DEF Window
  <2> QED
    BY <2>1, <2>2, <1>2, <1>5 DEF Works, Ends
<1> DEFINE g == [stack[1] EXCEPT !.i = @ + 1]
<1>7. g \in FrameType /\ g.at = "terminate" /\ g.win = stack[1].win /\ g.new = stack[1].new /\ g.i = d + 1
  BY <1>2, <1>3, <1>4, <1>6 DEF FrameType
<1>8. CASE d \in live
  <2> DEFINE f == Frame("destroy", d, Null, FALSE)
  <2>1. f \in FrameType /\ f.at = "destroy" /\ ~f.new /\ f.win = d
    BY DEF Frame, FrameType
  <2>2. stack' = <<f, g>> \o Tail(stack) /\ told' = [told EXCEPT ![d] = IF told[d] = 2 THEN 2 ELSE told[d] + 1]
    BY <1>4, <1>8 DEF TerminateNext, Top, Told
  <2> HIDE DEF f, g
  <2>3. /\ CallsInv' /\ LoopsInv' /\ TerminateInv' /\ stack' \in Seq(FrameType)
        /\ \A v : v \in Unlinked' <=> v \in Unlinked
        /\ \A v : BeingDestroyed(v)' <=> BeingDestroyed(v) \/ v = d
    <3>1. /\ g.at # "children" /\ g.at = stack[1].at /\ g.i = f.win + 1 /\ g.i \in 1 .. NumWindows + 1
          /\ \A w \in live : w >= f.win
      BY <1>2, <1>5, <1>6, <1>7, <2>1
    <3> QED
      BY <3>1, <1>1, <1>2, <1>6, <1>7, <1>8, <2>1, <2>2, LoopCalls
  <2>4. ListsInv' /\ ParentsInv'
    BY <1>1, <1>2, <2>3, TreeKept
  <2>5. told[d] = 0
    <3>1. ~BeingDestroyed(d)
      BY <1>6 DEF BeingDestroyed
    <3> QED
      BY <3>1, <1>1, <1>8, ToldIs
  <2>6. told' \in [Window -> 0 .. 2] /\ told'[d] = 1 /\ \A v \in live : v # d => told'[v] = told[v]
    BY <1>1, <2>2, <2>5 DEF TreeType
  <2>7. TreeType'
    BY <1>1, <1>2, <2>3, <2>6 DEF TreeType
  <2>8. ToldInv'
    BY <1>1, <1>2, <2>3, <2>6, ToldIs
  <2> QED
    BY <2>3, <2>4, <2>7, <2>8 DEF TreeInv
<1>9. CASE d \notin live
  <2>1. stack' = <<g>> \o Tail(stack) /\ told' = told
    BY <1>4, <1>9 DEF TerminateNext, Top, Replace
  <2> HIDE DEF g
  <2>2. /\ stack' \in Seq(FrameType) /\ Len(stack') = 1 /\ stack'[1] = g /\ DOMAIN stack' = DOMAIN stack
    BY <2>1, <1>2, <1>3, <1>5, <1>7, Replaced
  <2>3. \A k \in DOMAIN stack' : k = 1 /\ ~Works(k)' /\ ~Ends(k)' /\ stack'[k].at # "children"
    BY <2>2, <1>5, <1>7 DEF Works, Ends
  <2>4. \A v : v \in Unlinked' <=> v \in Unlinked
    BY <2>3, <1>6, UnlinkedIs
  <2>5. ListsInv' /\ ParentsInv'
    BY <1>1, <1>2, <2>4, TreeKept
  <2>6. CallsInv' /\ LoopsInv'
    BY <2>3 DEF CallsInv, LoopsInv
  <2>7. TerminateInv'
    <3>1. \A v \in live : v >= d + 1
      <4>1. \A v \in live : v \in Int /\ v >= d /\ v # d
        BY <1>1, <1>5, <1>9, PlaceFacts DEF TreeType
      <4> QED
        BY <4>1, <1>6
    <3> QED
      BY <3>1, <2>2, <2>3, <1>2, <1>6, <1>7 DEF TerminateInv
  <2>8. ToldInv'
    BY <2>1, <2>3, <1>1, <1>2, <1>6 DEF ToldInv
  <2>9. TreeType'
    BY <2>1, <2>2, <1>1, <1>2 DEF TreeType
  <2> QED
    BY <2>5, <2>6, <2>7, <2>8, <2>9 DEF TreeInv
<1> QED
  BY <1>8, <1>9

(* WinTerminate begins with the first place.                                *)
LEMMA TerminateCalled ==
    ASSUME TreeInv, WinTerminate
    PROVE  TreeInv'
<1>1. TreeType /\ ListsInv /\ ParentsInv /\ CallsInv /\ LoopsInv /\ TerminateInv /\ ToldInv
  BY DEF TreeInv
<1> DEFINE f == Frame("terminate", 1, 1, FALSE)
<1>2. stack = <<>> /\ stack' = <<f>> \o stack /\ UNCHANGED <<program, live, parent, child, sibling, owner, told>>
  BY DEF WinTerminate, Push, windowVars
<1>3. NumWindows \in Nat \ {0} /\ 1 \in Window /\ 1 \in 1 .. NumWindows + 1
  BY WindowsAssumption DEF Window
<1>4. f \in FrameType /\ f.at = "terminate" /\ f.i = 1
  BY <1>3 DEF Frame, FrameType
<1> HIDE DEF f
<1>5. stack' \in Seq(FrameType) /\ Len(stack') = 1 /\ stack'[1] = f /\ DOMAIN stack' = {1}
  <2>1. stack' = <<f>>
    BY <1>2, <1>4
  <2> QED
    BY <2>1, <1>4
<1>6. \A k \in DOMAIN stack' : k = 1 /\ ~Works(k)' /\ ~Ends(k)' /\ stack'[k].at # "children"
  BY <1>4, <1>5 DEF Works, Ends
<1>7. DOMAIN stack = {}
  BY <1>2
<1>8. \A v : v \in Unlinked' <=> v \in Unlinked
  BY <1>6, <1>7, UnlinkedIs
<1>9. ListsInv' /\ ParentsInv'
  BY <1>1, <1>2, <1>8, TreeKept
<1>10. CallsInv' /\ LoopsInv'
  BY <1>6 DEF CallsInv, LoopsInv
<1>11. TerminateInv'
  <2>1. \A v \in live : v >= 1
    BY <1>1, <1>3 DEF TreeType, Window
  <2> QED
    BY <2>1, <1>2, <1>3, <1>4, <1>5, <1>6 DEF TerminateInv
<1>12. ToldInv'
  BY <1>1, <1>2, <1>6, <1>7 DEF ToldInv
<1>13. TreeType'
  BY <1>1, <1>2, <1>5 DEF TreeType
<1> QED
  BY <1>9, <1>10, <1>11, <1>12, <1>13 DEF TreeInv

(* With no window and no call in progress the invariant holds.              *)
LEMMA NothingThere ==
    ASSUME program \in Programs, live = {}, stack = <<>>, told = [w \in Window |-> 0],
           parent = Nobody, owner = Nobody, sibling = Nobody, child = NoChild
    PROVE  TreeInv
<1>1. TreeType
  <2>1. stack \in Seq(FrameType)
    OBVIOUS
  <2>2. told \in [Window -> 0 .. 2]
    OBVIOUS
  <2> QED
    BY <2>1, <2>2 DEF TreeType, Nobody, NoChild
<1>2. DOMAIN stack = {}
  OBVIOUS
<1>3. Unlinked = {}
  BY <1>2, UnlinkedIs
<1>4. ListsInv
  <2>1. child[Desktop] = Null
    BY PlaceFacts DEF NoChild
  <2>2. IsChain(Desktop, <<>>)
    BY <2>1 DEF IsChain
  <2>3. ToSet(<<>>) = Linked(Desktop)
    BY DEF ToSet, Linked
  <2> QED
    BY <2>2, <2>3, <1>3 DEF ListsInv
<1>5. ParentsInv /\ CallsInv /\ LoopsInv /\ TerminateInv /\ ToldInv
  BY <1>2 DEF ParentsInv, CallsInv, LoopsInv, TerminateInv, ToldInv
<1> QED
  BY <1>1, <1>4, <1>5 DEF TreeInv

(* When WinTerminate has been through the array there is no window left.    *)
LEMMA TerminateOver ==
    ASSUME TreeInv, TerminateFinish
    PROVE  TreeInv' /\ live = {}
<1>1. TreeType /\ TerminateInv
  BY DEF TreeInv
<1>2. /\ stack # <<>> /\ stack[1].at = "terminate" /\ stack[1].i = NumWindows + 1 /\ stack' = Tail(stack)
      /\ live' = {} /\ told' = [w \in Window |-> 0] /\ program' = program
      /\ parent' = Nobody /\ owner' = Nobody /\ sibling' = Nobody /\ child' = NoChild
  BY DEF TerminateFinish, InLoop, Top, Pop
<1>3. /\ stack \in Seq(FrameType) /\ 1 \in DOMAIN stack
  BY <1>1, <1>2 DEF TreeType
<1>4. Len(stack) = 1 /\ \A v \in live : v >= NumWindows + 1
  BY <1>1, <1>2, <1>3 DEF TerminateInv
<1>5. stack' = <<>>
  BY <1>2, <1>3, <1>4
<1>6. live = {}
  <2>1. NumWindows \in Nat /\ live \subseteq 1 .. NumWindows
    BY <1>1, WindowsAssumption DEF TreeType, Window
  <2> QED
    BY <2>1, <1>4
<1>7. TreeType'
  <2>1. stack' \in Seq(FrameType)
    BY <1>5
  <2>2. told' \in [Window -> 0 .. 2]
    BY <1>2
  <2> QED
    BY <2>1, <2>2, <1>1, <1>2 DEF TreeType, Nobody, NoChild
<1>8. DOMAIN stack' = {}
  BY <1>5
<1>9. Unlinked' = {}
  BY <1>8, UnlinkedIs
<1>10. ListsInv'
  <2>1. child'[Desktop] = Null
    BY <1>2, PlaceFacts DEF NoChild
  <2>2. IsChain(Desktop, <<>>)'
    BY <2>1 DEF IsChain
  <2>3. ToSet(<<>>) = Linked(Desktop)'
    BY <1>2 DEF ToSet, Linked
  <2> QED
    BY <2>2, <2>3, <1>2, <1>9 DEF ListsInv
<1>11. ParentsInv' /\ CallsInv' /\ LoopsInv' /\ TerminateInv' /\ ToldInv'
  BY <1>2, <1>8 DEF ParentsInv, CallsInv, LoopsInv, TerminateInv, ToldInv
<1> QED
  BY <1>6, <1>7, <1>10, <1>11 DEF TreeInv

(* A step that touches neither windows nor calls.                           *)
LEMMA TreeUntouched ==
    ASSUME TreeInv, UNCHANGED <<program, windowVars, stack>>
    PROVE  TreeInv'
<1>1. UNCHANGED <<program, live, parent, child, sibling, owner, told, stack>>
  BY DEF windowVars
<1>2. TreeType /\ ListsInv /\ ParentsInv /\ CallsInv /\ LoopsInv /\ TerminateInv /\ ToldInv
  BY DEF TreeInv
<1>3. \A v : v \in Unlinked' <=> v \in Unlinked
  BY <1>1 DEF Unlinked, Working, Frames
<1>4. ListsInv' /\ ParentsInv'
  BY <1>1, <1>2, <1>3, TreeKept
<1>5. TreeType'
  BY <1>1, <1>2 DEF TreeType
<1>6. CallsInv'
  BY <1>1, <1>2 DEF CallsInv, Works, Ends, Ancestors, ClosedUp
<1>7. LoopsInv' /\ TerminateInv'
  BY <1>1, <1>2, <1>3 DEF LoopsInv, TerminateInv, Ends
<1>8. ToldInv'
  BY <1>1, <1>2 DEF ToldInv, Ends
<1> QED
  BY <1>4, <1>5, <1>6, <1>7, <1>8 DEF TreeInv

(* Every step keeps the invariant, and takes away only windows that had     *)
(* WM_DESTROY once.                                                         *)
LEMMA TreeStep ==
    ASSUME TreeInv, [Next]_vars
    PROVE  TreeInv' /\ \A w \in live \ live' : told[w] = 1
<1>1. ASSUME UNCHANGED <<program, windowVars, stack>>
      PROVE  TreeInv' /\ \A w \in live \ live' : told[w] = 1
  BY <1>1, TreeUntouched DEF windowVars
<1>2. ASSUME WinInitialize \/ WinCreateMsgQueue \/ WinDestroyMsgQueue \/ GetFinds \/ GetPumps \/ PumpQuit
             \/ PumpReturns \/ UNCHANGED vars
      PROVE  TreeInv' /\ \A w \in live \ live' : told[w] = 1
  BY <1>2, <1>1 DEF WinInitialize, WinCreateMsgQueue, WinDestroyMsgQueue, GetFinds, GetPumps, PumpQuit,
                    PumpPosts, PumpReturns, vars
<1>3. ASSUME NEW w \in Window, WinPostMsg(w) \/ PumpExposed(w)
      PROVE  TreeInv' /\ \A v \in live \ live' : told[v] = 1
  BY <1>3, <1>1 DEF WinPostMsg, PumpExposed, PumpPosts
<1>4. ASSUME NEW f, WinGetMsg(f)
      PROVE  TreeInv' /\ \A v \in live \ live' : told[v] = 1
  BY <1>4, <1>1 DEF WinGetMsg
<1>5. ASSUME NEW w \in Window, WinSendMsg(w)
      PROVE  TreeInv' /\ live' = live
  <2>1. Turn /\ w \in live /\ Push(Frame("send", w, Null, FALSE)) /\ UNCHANGED <<program, windowVars>>
    BY <1>5 DEF WinSendMsg
  <2> QED
    BY <2>1, SendMade DEF windowVars
<1>6. ASSUME WinDispatchMsg
      PROVE  TreeInv' /\ \A v \in live \ live' : told[v] = 1
  <2>1. CASE got.hwnd \in live
    <3>1. Turn /\ Push(Frame("send", got.hwnd, Null, FALSE)) /\ UNCHANGED <<program, windowVars>>
      BY <1>6, <2>1 DEF WinDispatchMsg
    <3> QED
      BY <3>1, <2>1, SendMade DEF windowVars
  <2>2. CASE got.hwnd \notin live
    BY <1>6, <2>2, <1>1 DEF WinDispatchMsg
  <2> QED
    BY <2>1, <2>2
<1>7. ASSUME NEW w \in Window, WinDestroyWindow(w) PROVE TreeInv' /\ live' = live
  BY <1>7, DestroyMade DEF WinDestroyWindow
<1>8. ASSUME NEW p \in Place, NEW shown, NEW owned, WinCreateWindow(p, shown, owned)
      PROVE  TreeInv' /\ live \subseteq live'
  BY <1>8, CreateMade DEF WinCreateWindow
<1>9. ASSUME WM_CREATE_Accepted \/ WM_CREATE_Refused \/ WinDefWindowProc PROVE TreeInv' /\ live' = live
  BY <1>9, AnswerTaken DEF WM_CREATE_Accepted, WM_CREATE_Refused, WinDefWindowProc, windowVars
<1>10. ASSUME WM_ADJUSTWINDOWPOS_Returns PROVE TreeInv' /\ live' = live
  BY <1>10, WindowReady DEF WM_ADJUSTWINDOWPOS_Returns
<1>11. ASSUME WM_DESTROY_Returns PROVE TreeInv' /\ live' = live
  BY <1>11, GoodbyeSaid DEF WM_DESTROY_Returns, windowVars
<1>12. ASSUME DestroyChild PROVE TreeInv' /\ live' = live
  BY <1>12, ChildIsNext DEF DestroyChild
<1>13. ASSUME DestroyFinish PROVE TreeInv' /\ \A v \in live \ live' : told[v] = 1
  BY <1>13, WindowGone
<1>14. ASSUME TerminateNext PROVE TreeInv' /\ live' = live
  BY <1>14, WindowIsNext DEF TerminateNext
<1>15. ASSUME TerminateFinish PROVE TreeInv' /\ live = {}
  BY <1>15, TerminateOver
<1>16. ASSUME WinTerminate PROVE TreeInv' /\ live' = live
  BY <1>16, TerminateCalled DEF WinTerminate, windowVars
<1>17. ASSUME SendReturns PROVE TreeInv' /\ live' = live
  BY <1>17, SendOver DEF SendReturns, windowVars
<1> QED
  BY <1>2, <1>3, <1>4, <1>5, <1>6, <1>7, <1>8, <1>9, <1>10, <1>11, <1>12, <1>13, <1>14, <1>15, <1>16, <1>17
     DEF Next

(* The invariant holds from the start and every step keeps it.              *)
THEOREM TreeInductive == Spec => []TreeInv
<1>1. Init => TreeInv
  BY NothingThere DEF Init
<1>2. TreeInv /\ [Next]_vars => TreeInv'
  BY TreeStep
<1> QED
  BY <1>1, <1>2, PTL DEF Spec

(* What the invariant says about the tree: the lists hold the children.     *)
LEMMA WholeNow ==
    ASSUME TreeInv
    PROVE  TreeIsWhole
<1>1. TreeType /\ ListsInv /\ ParentsInv
  BY DEF TreeInv
<1>2. ASSUME NEW p \in live \cup {Desktop}
      PROVE  /\ IsInjective(Kids(p))
             /\ ToSet(Kids(p)) = {w \in live \ Unlinked : parent[w] = p}
             /\ p # Desktop => {parent[p], owner[p]} \subseteq live \cup {Desktop, Null}
  <2>1. PICK s : IsChain(p, s) /\ ToSet(s) = Linked(p)
    BY <1>1 DEF ListsInv
  <2>2. Kids(p) = s
    BY <2>1, ChainIsKids
  <2>3. IsInjective(s)
    BY <2>1 DEF IsChain, IsInjective
  <2>4. p # Desktop => {parent[p], owner[p]} \subseteq live \cup {Desktop, Null}
    BY <1>1 DEF ParentsInv
  <2> QED
    BY <2>1, <2>2, <2>3, <2>4 DEF Linked
<1> QED
  BY <1>2 DEF TreeIsWhole

(* The window tree stays whole: whatever the window procedures do while a   *)
(* window is created, linked or destroyed (pmwin.c: WinCreateWindow,        *)
(* destroyWindow), every window is in the list of its parent, once.         *)
THEOREM TreeStaysWhole == Spec => []TreeIsWhole
<1>1. TreeInv => TreeIsWhole
  BY WholeNow
<1> QED
  BY <1>1, TreeInductive, PTL

(* destroyWindow: no window goes away without WM_DESTROY, and none has it   *)
(* twice, by whatever calls of its procedure and of others it is destroyed. *)
THEOREM EachIsToldOnce == Spec => ToldOnce
<1>1. TreeInv /\ [Next]_vars => [\A w \in live \ live' : told[w] = 1]_vars
  BY TreeStep
<1> QED
  BY <1>1, TreeInductive, PTL DEF Spec, ToldOnce

-----------------------------------------------------------------------------
(* The message queue: the list from the head to the tail and the list of    *)
(* the pool have no item in common.                                         *)
QueueRecord == [head : Item \cup {Null}, tail : Item \cup {Null}, free_pool : Item \cup {Null},
                heap : SUBSET Item, next : [Item -> Item \cup {Null}], qmsg : [Item -> Message]]

Chained(first, nxt, s) ==
    /\ s \in Seq(Item)
    /\ \A i, j \in DOMAIN s : s[i] = s[j] => i = j
    /\ first = IF s = <<>> THEN Null ELSE s[1]
    /\ \A i \in DOMAIN s : nxt[s[i]] = IF i = Len(s) THEN Null ELSE s[i + 1]

Layout(q, s, t) ==
    /\ Chained(q.head, q.next, s) /\ Chained(q.free_pool, q.next, t)
    /\ q.tail = IF s = <<>> THEN Null ELSE s[Len(s)]
    /\ ToSet(s) \cap ToSet(t) = {} /\ ToSet(s) \cup ToSet(t) \subseteq q.heap

GoodQueue(q) == q \in QueueRecord /\ \E s, t : Layout(q, s, t)

(* What the queue items are.                                                *)
LEMMA ItemFacts ==
    IsFiniteSet(Item) /\ Null \notin Item /\ Item \subseteq Nat
BY ItemAssumption

(* Queued finds the list from the head.                                     *)
LEMMA QueuedIs ==
    ASSUME NEW q, NEW s, Chained(q.head, q.next, s)
    PROVE  Queued(q) = s
<1> DEFINE N == Cardinality(Item)
           at == Followed(N, q.head, q.next)
<1>1. s \in Seq(Item) /\ \A i, j \in DOMAIN s : s[i] = s[j] => i = j
  BY DEF Chained
<1>2. N \in Nat /\ Null \notin Item /\ Len(s) <= N
  BY <1>1, ItemFacts, NotLonger
<1>3. Queued(q) = Walk(at, N)
  BY DEF Queued, Walk, IsFollowed, Followed
<1>4. PICK a, c, nx : a = at /\ c = q.head /\ nx = q.next
  OBVIOUS
<1>5. a = Followed(N, c, nx) /\ Spells(c, nx, s, Item, N)
  BY <1>1, <1>2, <1>4 DEF Chained, Spells
<1> HIDE DEF N, at
<1>6. Walk(a, N) = s
  BY <1>5, Follows
<1> QED
  BY <1>3, <1>4, <1>6

(* Lists: at the end, at the front, without the first, and untouched.       *)
LEMMA ChainSame ==
    ASSUME NEW first, NEW nxt, NEW s, Chained(first, nxt, s), NEW nxt2, \A x \in ToSet(s) : nxt2[x] = nxt[x]
    PROVE  Chained(first, nxt2, s)
<1>1. \A i \in DOMAIN s : s[i] \in ToSet(s)
  BY DEF ToSet
<1> QED
  BY <1>1 DEF Chained

(* One more at the end.                                                     *)
LEMMA ChainAppend ==
    ASSUME NEW first, NEW nxt, NEW s, Chained(first, nxt, s), NEW item \in Item, item \notin ToSet(s),
           NEW nxt2, nxt2[item] = Null, s # <<>> => nxt2[s[Len(s)]] = item,
           \A x \in ToSet(s) : x # s[Len(s)] => nxt2[x] = nxt[x],
           NEW first2, first2 = IF s = <<>> THEN item ELSE first
    PROVE  Chained(first2, nxt2, Append(s, item)) /\ ToSet(Append(s, item)) = ToSet(s) \cup {item}
<1> DEFINE n == Len(s)
           t == Append(s, item)
<1>1. /\ s \in Seq(Item) /\ first = IF s = <<>> THEN Null ELSE s[1]
      /\ \A i, j \in DOMAIN s : s[i] = s[j] => i = j
      /\ \A i \in DOMAIN s : nxt[s[i]] = IF i = Len(s) THEN Null ELSE s[i + 1]
  BY DEF Chained
<1>2. n \in Nat /\ DOMAIN s = 1 .. n /\ (s = <<>> <=> n = 0)
  BY <1>1
<1>3. /\ t \in Seq(Item) /\ Len(t) = n + 1 /\ DOMAIN t = 1 .. n + 1 /\ t[n + 1] = item /\ t # <<>>
      /\ \A i \in 1 .. n : t[i] = s[i]
  <2>1. t \in Seq(Item) /\ Len(t) = n + 1 /\ t[n + 1] = item
    BY <1>1
  <2>2. \A i \in 1 .. n : t[i] = s[i]
    BY <1>1, <1>2
  <2> HIDE DEF t, n
  <2> QED
    BY <2>1, <2>2, <1>2
<1> HIDE DEF t, n
<1>4. \A i \in 1 .. n : s[i] \in ToSet(s) /\ s[i] # item
  BY <1>2 DEF ToSet
<1>5. \A i \in 1 .. n + 1 : i \in 1 .. n \/ i = n + 1
  BY <1>2
<1>6. ASSUME NEW i \in DOMAIN t, NEW j \in DOMAIN t, t[i] = t[j] PROVE i = j
  BY <1>1, <1>2, <1>3, <1>4, <1>5, <1>6
<1>7. ASSUME NEW i \in DOMAIN t PROVE nxt2[t[i]] = IF i = Len(t) THEN Null ELSE t[i + 1]
  <2>1. CASE i = n + 1
    BY <2>1, <1>3
  <2>2. CASE i = n /\ i \in 1 .. n
    <3>1. nxt2[s[n]] = item /\ i # n + 1
      BY <2>2, <1>2 DEF n
    <3> QED
      BY <3>1, <2>2, <1>3
  <2>3. CASE i \in 1 .. n /\ i # n
    <3>1. i + 1 \in 1 .. n /\ i # n + 1 /\ n \in 1 .. n
      BY <2>3, <1>2
    <3>2. s[i] # s[n]
      BY <2>3, <3>1, <1>1, <1>2
    <3>3. nxt2[s[i]] = nxt[s[i]] /\ nxt[s[i]] = s[i + 1]
      BY <3>1, <3>2, <2>3, <1>1, <1>2, <1>4 DEF n
    <3> QED
      BY <3>1, <3>3, <2>3, <1>3
  <2> QED
    BY <2>1, <2>2, <2>3, <1>3, <1>5
<1>8. first2 = IF t = <<>> THEN Null ELSE t[1]
  <2>1. CASE s = <<>>
    BY <2>1, <1>2, <1>3
  <2>2. CASE s # <<>>
    <3>1. 1 \in 1 .. n
      BY <2>2, <1>2
    <3> QED
      BY <3>1, <2>2, <1>1, <1>3
  <2> QED
    BY <2>1, <2>2
<1>9. ToSet(t) = ToSet(s) \cup {item}
  <2>1. \A x \in ToSet(t) : x \in ToSet(s) \cup {item}
    BY <1>3, <1>4, <1>5 DEF ToSet
  <2>2. ASSUME NEW x \in ToSet(s) PROVE x \in ToSet(t)
    <3>1. PICK i \in 1 .. n : x = s[i]
      BY <1>2 DEF ToSet
    <3>2. i \in DOMAIN t /\ t[i] = x
      BY <3>1, <1>2, <1>3
    <3> QED
      BY <3>2 DEF ToSet
  <2>3. n + 1 \in DOMAIN t
    BY <1>2, <1>3
  <2> QED
    BY <2>1, <2>2, <2>3, <1>3, ZenonT(60) DEF ToSet
<1>10. Chained(first2, nxt2, t)
  BY <1>3, <1>6, <1>7, <1>8 DEF Chained
<1> QED
  BY <1>9, <1>10 DEF t

(* One more at the front.                                                   *)
LEMMA ChainPush ==
    ASSUME NEW first, NEW nxt, NEW s, Chained(first, nxt, s), NEW item \in Item, item \notin ToSet(s),
           NEW nxt2, nxt2[item] = first, \A x \in ToSet(s) : nxt2[x] = nxt[x]
    PROVE  Chained(item, nxt2, <<item>> \o s) /\ ToSet(<<item>> \o s) = ToSet(s) \cup {item}
<1> DEFINE n == Len(s)
           t == <<item>> \o s
<1>1. /\ s \in Seq(Item) /\ first = IF s = <<>> THEN Null ELSE s[1]
      /\ \A i, j \in DOMAIN s : s[i] = s[j] => i = j
      /\ \A i \in DOMAIN s : nxt[s[i]] = IF i = Len(s) THEN Null ELSE s[i + 1]
  BY DEF Chained
<1>2. n \in Nat /\ DOMAIN s = 1 .. n /\ (s = <<>> <=> n = 0)
  BY <1>1
<1>3. /\ t \in Seq(Item) /\ Len(t) = n + 1 /\ t[1] = item /\ DOMAIN t = 1 .. n + 1
      /\ \A k \in DOMAIN t : k # 1 => k - 1 \in DOMAIN s /\ t[k] = s[k - 1]
      /\ \A k \in DOMAIN s : k + 1 \in DOMAIN t /\ t[k + 1] = s[k]
  BY <1>1, Pushed
<1> HIDE DEF t, n
<1>4. \A i \in 1 .. n : s[i] \in ToSet(s) /\ s[i] # item
  BY <1>2 DEF ToSet
<1>5. ASSUME NEW i \in DOMAIN t, NEW j \in DOMAIN t, t[i] = t[j] PROVE i = j
  <2>1. CASE i # 1 /\ j # 1
    <3>1. i - 1 \in DOMAIN s /\ j - 1 \in DOMAIN s /\ s[i - 1] = s[j - 1]
      BY <2>1, <1>3, <1>5
    <3>2. i - 1 = j - 1
      BY <3>1, <1>1
    <3> QED
      BY <3>2, <1>2, <1>3
  <2>2. CASE i = 1 \/ j = 1
    BY <2>2, <1>2, <1>3, <1>4, <1>5
  <2> QED
    BY <2>1, <2>2
<1>6. ASSUME NEW i \in DOMAIN t PROVE nxt2[t[i]] = IF i = Len(t) THEN Null ELSE t[i + 1]
  <2>1. CASE i = 1
    <3>1. n # 0 => 1 \in DOMAIN s /\ t[2] = s[1]
      <4>1. n # 0 => 1 \in DOMAIN s
        BY <1>2
      <4> QED
        BY <4>1, <1>3
    <3> QED
      BY <3>1, <2>1, <1>1, <1>2, <1>3
  <2>2. CASE i # 1
    <3>1. i - 1 \in 1 .. n /\ t[i] = s[i - 1] /\ i \in 1 .. n + 1
      BY <2>2, <1>2, <1>3
    <3>2. nxt2[t[i]] = IF i - 1 = n THEN Null ELSE s[i]
      BY <3>1, <1>1, <1>2, <1>4 DEF n
    <3>3. i - 1 # n => i \in DOMAIN s /\ t[i + 1] = s[i]
      <4>1. i - 1 # n => i \in DOMAIN s
        BY <3>1, <1>2
      <4> QED
        BY <4>1, <1>3
    <3> QED
      BY <3>1, <3>2, <3>3, <1>2, <1>3
  <2> QED
    BY <2>1, <2>2
<1>7. ToSet(t) = ToSet(s) \cup {item}
  <2>1. ASSUME NEW x \in ToSet(t) PROVE x \in ToSet(s) \cup {item}
    <3>1. PICK i \in DOMAIN t : x = t[i]
      BY DEF ToSet
    <3>2. i # 1 => t[i] \in ToSet(s)
      BY <1>2, <1>3, <1>4
    <3> QED
      BY <3>1, <3>2, <1>3
  <2>2. ASSUME NEW x \in ToSet(s) PROVE x \in ToSet(t)
    <3>1. PICK i \in DOMAIN s : x = s[i]
      BY DEF ToSet
    <3>2. i + 1 \in DOMAIN t /\ t[i + 1] = x
      BY <3>1, <1>3
    <3> QED
      BY <3>2 DEF ToSet
  <2>3. 1 \in DOMAIN t
    BY <1>2, <1>3
  <2> QED
    BY <2>1, <2>2, <2>3, <1>3 DEF ToSet
<1>8. item = IF t = <<>> THEN Null ELSE t[1]
  BY <1>2, <1>3
<1>9. Chained(item, nxt2, t)
  BY <1>3, <1>5, <1>6, <1>8 DEF Chained
<1> QED
  BY <1>7, <1>9 DEF t

(* Without the first.                                                       *)
LEMMA ChainTail ==
    ASSUME NEW first, NEW nxt, NEW s, Chained(first, nxt, s), s # <<>>,
           NEW nxt2, \A x \in ToSet(s) : x # s[1] => nxt2[x] = nxt[x]
    PROVE  /\ Chained(nxt[s[1]], nxt2, Tail(s)) /\ ToSet(Tail(s)) = ToSet(s) \ {s[1]}
           /\ s[1] \in ToSet(s) /\ s[1] \in Item /\ first = s[1]
<1> DEFINE n == Len(s)
           t == Tail(s)
<1>1. /\ s \in Seq(Item) /\ first = s[1]
      /\ \A i, j \in DOMAIN s : s[i] = s[j] => i = j
      /\ \A i \in DOMAIN s : nxt[s[i]] = IF i = Len(s) THEN Null ELSE s[i + 1]
  BY DEF Chained
<1>2. /\ t \in Seq(Item) /\ Len(t) = n - 1 /\ s[1] \in Item
      /\ n \in Nat \ {0} /\ DOMAIN s = 1 .. n /\ DOMAIN t = 1 .. n - 1
      /\ \A k \in DOMAIN t : k + 1 \in DOMAIN s /\ t[k] = s[k + 1]
      /\ \A k \in DOMAIN s : k # 1 => k - 1 \in DOMAIN t /\ t[k - 1] = s[k]
  BY <1>1, Popped
<1> HIDE DEF t, n
<1>3. /\ 1 \in DOMAIN s /\ \A i \in DOMAIN s : i # 1 => s[i] # s[1]
      /\ \A i \in DOMAIN s : s[i] \in ToSet(s)
  BY <1>1, <1>2 DEF ToSet
<1>4. ASSUME NEW i \in DOMAIN t, NEW j \in DOMAIN t, t[i] = t[j] PROVE i = j
  <2>1. i + 1 \in DOMAIN s /\ j + 1 \in DOMAIN s /\ s[i + 1] = s[j + 1]
    BY <1>2, <1>4
  <2>2. i + 1 = j + 1
    BY <2>1, <1>1
  <2> QED
    BY <2>2, <1>2
<1>5. ASSUME NEW i \in DOMAIN t PROVE nxt2[t[i]] = IF i = Len(t) THEN Null ELSE t[i + 1]
  <2>1. i + 1 \in DOMAIN s /\ t[i] = s[i + 1] /\ i + 1 # 1 /\ i \in 1 .. n - 1
    BY <1>2
  <2>2. nxt2[t[i]] = nxt[s[i + 1]]
    BY <2>1, <1>3
  <2>3. nxt[s[i + 1]] = IF i + 1 = n THEN Null ELSE s[i + 1 + 1]
    BY <2>1, <1>1 DEF n
  <2>4. i + 1 # n => i + 1 \in DOMAIN t
    BY <2>1, <1>2
  <2>5. i + 1 # n => t[i + 1] = s[i + 1 + 1]
    BY <2>4, <1>2
  <2> QED
    BY <2>1, <2>2, <2>3, <2>5, <1>2
<1>6. nxt[s[1]] = IF t = <<>> THEN Null ELSE t[1]
  <2>1. nxt[s[1]] = IF 1 = n THEN Null ELSE s[2]
    <3>1. nxt[s[1]] = IF 1 = Len(s) THEN Null ELSE s[1 + 1]
      BY <1>1, <1>3
    <3> QED
      BY <3>1 DEF n
  <2>2. n # 1 => 1 \in DOMAIN t
    BY <1>2
  <2>3. n # 1 => t[1] = s[2]
    BY <2>2, <1>2
  <2>4. t = <<>> <=> n = 1
    BY <1>2
  <2> QED
    BY <2>1, <2>3, <2>4
<1>7. ToSet(t) = ToSet(s) \ {s[1]}
  <2>1. ASSUME NEW x \in ToSet(t) PROVE x \in ToSet(s) \ {s[1]}
    <3>1. PICK i \in DOMAIN t : x = t[i]
      BY DEF ToSet
    <3>2. i + 1 \in DOMAIN s /\ x = s[i + 1] /\ i + 1 # 1
      BY <3>1, <1>2
    <3> QED
      BY <3>2, <1>3
  <2>2. ASSUME NEW x \in ToSet(s) \ {s[1]} PROVE x \in ToSet(t)
    <3>1. PICK i \in DOMAIN s : x = s[i] /\ i # 1
      BY DEF ToSet
    <3>2. i - 1 \in DOMAIN t /\ t[i - 1] = x
      BY <3>1, <1>2
    <3> QED
      BY <3>2 DEF ToSet
  <2> QED
    BY <2>1, <2>2
<1>8. Chained(nxt[s[1]], nxt2, t)
  BY <1>2, <1>4, <1>5, <1>6 DEF Chained
<1> QED
  BY <1>1, <1>2, <1>3, <1>7, <1>8 DEF t

(* A queue, field by field.                                                 *)
Queue(h, ta, fp, hp, ne, qm) ==
    [head |-> h, tail |-> ta, free_pool |-> fp, heap |-> hp, next |-> ne, qmsg |-> qm]

Rewrite(q, a, b, c, d, item) ==
    [q EXCEPT !.free_pool = a, !.heap = b, !.qmsg = c, !.next = d, !.tail = item]

(* Writing the fields of a queue one by one.                                *)
LEMMA Rewritten ==
    ASSUME NEW h, NEW ta, NEW fp, NEW hp, NEW ne, NEW qm, NEW a, NEW b, NEW c, NEW d, NEW item
    PROVE  Rewrite(Queue(h, ta, fp, hp, ne, qm), a, b, c, d, item) = Queue(h, item, a, b, d, c)
<1>1. [Queue(h, ta, fp, hp, ne, qm) EXCEPT !.free_pool = a] = Queue(h, ta, a, hp, ne, qm)
  BY DEF Queue
<1>2. [Queue(h, ta, a, hp, ne, qm) EXCEPT !.heap = b] = Queue(h, ta, a, b, ne, qm)
  BY DEF Queue
<1>3. [Queue(h, ta, a, b, ne, qm) EXCEPT !.qmsg = c] = Queue(h, ta, a, b, ne, c)
  BY DEF Queue
<1>4. [Queue(h, ta, a, b, ne, c) EXCEPT !.next = d] = Queue(h, ta, a, b, d, c)
  BY DEF Queue
<1>5. [Queue(h, ta, a, b, d, c) EXCEPT !.tail = item] = Queue(h, item, a, b, d, c)
  BY DEF Queue
<1>6. [Queue(h, ta, fp, hp, ne, qm)
         EXCEPT !.free_pool = a, !.heap = b, !.qmsg = c, !.next = d, !.tail = item]
        = [[[[[Queue(h, ta, fp, hp, ne, qm) EXCEPT !.free_pool = a] EXCEPT !.heap = b]
              EXCEPT !.qmsg = c] EXCEPT !.next = d] EXCEPT !.tail = item]
  OBVIOUS
<1>7. [[Queue(h, ta, fp, hp, ne, qm) EXCEPT !.free_pool = a] EXCEPT !.heap = b] = Queue(h, ta, a, b, ne, qm)
  BY <1>1, <1>2
<1>8. [[[Queue(h, ta, fp, hp, ne, qm) EXCEPT !.free_pool = a] EXCEPT !.heap = b]
              EXCEPT !.qmsg = c] = Queue(h, ta, a, b, ne, c)
  BY <1>3, <1>7
<1>9. [[[[Queue(h, ta, fp, hp, ne, qm) EXCEPT !.free_pool = a] EXCEPT !.heap = b]
              EXCEPT !.qmsg = c] EXCEPT !.next = d] = Queue(h, ta, a, b, d, c)
  BY <1>4, <1>8
<1>10. [[[[[Queue(h, ta, fp, hp, ne, qm) EXCEPT !.free_pool = a] EXCEPT !.heap = b]
              EXCEPT !.qmsg = c] EXCEPT !.next = d] EXCEPT !.tail = item] = Queue(h, item, a, b, d, c)
  BY <1>5, <1>9
<1> QED
  BY <1>6, <1>10 DEF Rewrite

(* postMessage: which item it takes, and what it writes.                    *)
LEMMA PostIs ==
    ASSUME NEW q \in QueueRecord, NEW m \in Message, ~(q.free_pool = Null /\ Item = q.heap)
    PROVE  \E item \in Item :
              /\ q.free_pool # Null => item = q.free_pool
              /\ q.free_pool = Null => item \notin q.heap
              /\ postMessage(q, m) \in QueueRecord
              /\ postMessage(q, m).free_pool = IF q.free_pool = Null THEN Null ELSE q.next[q.free_pool]
              /\ postMessage(q, m).heap = q.heap \cup {item}
              /\ postMessage(q, m).qmsg = [q.qmsg EXCEPT ![item] = m]
              /\ postMessage(q, m).tail = item
              /\ postMessage(q, m).head = IF q.tail = Null THEN item ELSE q.head
              /\ postMessage(q, m).next[item] = IF q.tail = item THEN item ELSE Null
              /\ q.tail # Null => postMessage(q, m).next[q.tail] = item
              /\ \A x \in Item : x # item /\ x # q.tail => postMessage(q, m).next[x] = q.next[x]
<1> DEFINE it == IF q.free_pool # Null THEN q.free_pool ELSE CHOOSE i \in Item \ q.heap : TRUE
           pool == IF q.free_pool = Null THEN Null ELSE q.next[q.free_pool]
<1>1. /\ q.head \in Item \cup {Null} /\ q.tail \in Item \cup {Null} /\ q.free_pool \in Item \cup {Null}
      /\ q.heap \in SUBSET Item /\ q.next \in [Item -> Item \cup {Null}] /\ q.qmsg \in [Item -> Message]
  BY DEF QueueRecord
<1>2. it \in Item /\ (q.free_pool # Null => it = q.free_pool) /\ (q.free_pool = Null => it \notin q.heap)
  <2>1. q.free_pool = Null => Item \ q.heap # {}
    BY <1>1
  <2> QED
    BY <2>1, <1>1
<1>3. PICK item \in Item : item = it
  BY <1>2
<1> DEFINE nx == [q.next EXCEPT ![item] = Null]
           nx2 == IF q.tail = Null THEN nx ELSE [nx EXCEPT ![q.tail] = item]
           new == [head |-> IF q.tail = Null THEN item ELSE q.head, tail |-> item, free_pool |-> pool,
                   heap |-> q.heap \cup {item}, next |-> nx2, qmsg |-> [q.qmsg EXCEPT ![item] = m]]
<1>4. postMessage(q, m) = new
  <2>1. PICK h, ta, fp, hp, ne, qm : /\ h = q.head /\ ta = q.tail /\ fp = q.free_pool
                                     /\ hp = q.heap /\ ne = q.next /\ qm = q.qmsg
    OBVIOUS
  <2>2. q = Queue(h, ta, fp, hp, ne, qm)
    BY <2>1 DEF QueueRecord, Queue
  <2> DEFINE po == IF fp = Null THEN Null ELSE ne[fp]
             ms == [qm EXCEPT ![item] = m]
             nn == [ne EXCEPT ![item] = Null]
             cl == Queue(h, item, po, hp \cup {item}, nn, ms)
             clean == [q EXCEPT !.free_pool = IF @ = Null THEN Null ELSE q.next[@], !.heap = @ \cup {item},
                    !.qmsg[item] = m, !.next[item] = Null, !.tail = item]
  <2>3. clean = cl
    <3>1. [Queue(h, ta, fp, hp, ne, qm)
             EXCEPT !.free_pool = IF @ = Null THEN Null ELSE ne[@], !.heap = @ \cup {item},
                    !.qmsg[item] = m, !.next[item] = Null, !.tail = item]
            = [Queue(h, ta, fp, hp, ne, qm)
                 EXCEPT !.free_pool = po, !.heap = hp \cup {item}, !.qmsg = ms, !.next = nn, !.tail = item]
      BY DEF Queue
    <3>2. [Queue(h, ta, fp, hp, ne, qm)
             EXCEPT !.free_pool = po, !.heap = hp \cup {item}, !.qmsg = ms, !.next = nn, !.tail = item] = cl
      <4>1. PICK a, b, c, d : a = po /\ b = hp \cup {item} /\ c = ms /\ d = nn
        OBVIOUS
      <4>2. Rewrite(Queue(h, ta, fp, hp, ne, qm), a, b, c, d, item) = Queue(h, item, a, b, d, c)
        BY Rewritten
      <4> HIDE DEF po, ms, nn
      <4> QED
        BY <4>1, <4>2 DEF Rewrite
    <3>3. clean = [Queue(h, ta, fp, hp, ne, qm)
             EXCEPT !.free_pool = IF @ = Null THEN Null ELSE ne[@], !.heap = @ \cup {item},
                    !.qmsg[item] = m, !.next[item] = Null, !.tail = item]
      BY <2>1, <2>2
    <3> HIDE DEF po, ms, nn, cl, clean
    <3> QED
      BY <3>1, <3>2, <3>3
  <2>4. postMessage(q, m) = IF q.tail = Null THEN [clean EXCEPT !.head = item]
                                             ELSE [clean EXCEPT !.next[q.tail] = item]
    <3> DEFINE cln == [q EXCEPT !.free_pool = IF @ = Null THEN Null ELSE q.next[@], !.heap = @ \cup {it},
                                !.qmsg[it] = m, !.next[it] = Null, !.tail = it]
    <3>1. postMessage(q, m) = IF q.tail = Null THEN [cln EXCEPT !.head = it]
                                               ELSE [cln EXCEPT !.next[q.tail] = it]
      BY Zenon DEF postMessage
    <3> HIDE DEF it
    <3>2. cln = clean
      BY <1>3
    <3> HIDE DEF cln, clean
    <3> QED
      BY <3>1, <3>2, <1>3
  <2>5. new = Queue(IF ta = Null THEN item ELSE h, item, po, hp \cup {item},
                    IF ta = Null THEN nn ELSE [nn EXCEPT ![ta] = item], ms)
    BY <2>1, Zenon DEF Queue
  <2> HIDE DEF po, ms, nn, clean, new
  <2>6. [cl EXCEPT !.head = item] = Queue(item, item, po, hp \cup {item}, nn, ms)
    BY DEF Queue
  <2>7. [cl EXCEPT !.next[ta] = item] = Queue(h, item, po, hp \cup {item}, [nn EXCEPT ![ta] = item], ms)
    BY DEF Queue
  <2> HIDE DEF cl
  <2> QED
    BY <2>1, <2>3, <2>4, <2>5, <2>6, <2>7
<1>5. nx \in [Item -> Item \cup {Null}] /\ nx[item] = Null /\ \A x \in Item : x # item => nx[x] = q.next[x]
  BY <1>1
<1> HIDE DEF nx
<1>6. /\ nx2 \in [Item -> Item \cup {Null}]
      /\ nx2[item] = IF q.tail = item THEN item ELSE Null
      /\ q.tail # Null => nx2[q.tail] = item
      /\ \A x \in Item : x # item /\ x # q.tail => nx2[x] = q.next[x]
  <2>1. CASE q.tail = Null
    BY <2>1, <1>5, ItemFacts
  <2>2. CASE q.tail # Null
    BY <2>2, <1>1, <1>5
  <2> QED
    BY <2>1, <2>2
<1> HIDE DEF nx2
<1>7. pool \in Item \cup {Null} /\ q.heap \cup {item} \in SUBSET Item
  BY <1>1
<1>8. [q.qmsg EXCEPT ![item] = m] \in [Item -> Message]
  BY <1>1
<1>9. new \in QueueRecord
  <2> HIDE DEF pool
  <2> QED
    BY <1>1, <1>6, <1>7, <1>8 DEF QueueRecord
<1>10. /\ new.free_pool = pool /\ new.heap = q.heap \cup {item} /\ new.qmsg = [q.qmsg EXCEPT ![item] = m]
       /\ new.tail = item /\ new.head = (IF q.tail = Null THEN item ELSE q.head) /\ new.next = nx2
  <2> HIDE DEF pool
  <2> QED
    OBVIOUS
<1>11. (q.free_pool # Null => item = q.free_pool) /\ (q.free_pool = Null => item \notin q.heap)
  BY <1>2, <1>3
<1> HIDE DEF new, it
<1> QED
  BY <1>3, <1>4, <1>6, <1>9, <1>10, <1>11

(* What a queue of this layout holds.                                       *)
LEMMA Holds ==
    ASSUME NEW q \in QueueRecord, NEW s, NEW t, Layout(q, s, t)
    PROVE  /\ s \in Seq(Item) /\ Queued(q) = s /\ Messages(q) = [k \in 1 .. Len(s) |-> q.qmsg[s[k]]]
           /\ Messages(q) \in Seq(Message) /\ Len(Messages(q)) = Len(s)
<1>1. s \in Seq(Item) /\ Queued(q) = s
  BY QueuedIs DEF Layout, Chained
<1>2. Len(s) \in Nat /\ DOMAIN s = 1 .. Len(s) /\ \A k \in 1 .. Len(s) : s[k] \in Item
  BY <1>1
<1>3. Messages(q) = [k \in 1 .. Len(s) |-> q.qmsg[s[k]]]
  BY <1>1, <1>2 DEF Messages
<1>4. q.qmsg \in [Item -> Message]
  BY DEF QueueRecord
<1>5. \A k \in 1 .. Len(s) : q.qmsg[s[k]] \in Message
  BY <1>2, <1>4
<1> QED
  BY <1>1, <1>2, <1>3, <1>5

Grown(a, b) ==
    /\ a \in Seq(Message) /\ b \in Seq(Message) /\ Len(a) <= Len(b) /\ \A k \in 1 .. Len(a) : b[k] = a[k]

(* A queue stays a queue when a message is posted, and only grows.          *)
LEMMA Posted ==
    ASSUME NEW q, GoodQueue(q), NEW m \in Message
    PROVE  GoodQueue(postMessage(q, m)) /\ Grown(Messages(q), Messages(postMessage(q, m)))
<1>1. PICK s, t : Layout(q, s, t) /\ q \in QueueRecord
  BY DEF GoodQueue
<1>2. CASE q.free_pool = Null /\ Item = q.heap
  <2>1. postMessage(q, m) = q
    BY <1>2 DEF postMessage
  <2>2. Messages(q) \in Seq(Message)
    BY <1>1, Holds
  <2>3. Grown(Messages(q), Messages(q))
    BY <2>2 DEF Grown
  <2> QED
    BY <2>1, <2>3
<1>3. CASE ~(q.free_pool = Null /\ Item = q.heap)
  <2> DEFINE r == postMessage(q, m)
  <2>1. PICK item \in Item :
              /\ q.free_pool # Null => item = q.free_pool
              /\ q.free_pool = Null => item \notin q.heap
              /\ r \in QueueRecord
              /\ r.free_pool = IF q.free_pool = Null THEN Null ELSE q.next[q.free_pool]
              /\ r.heap = q.heap \cup {item}
              /\ r.qmsg = [q.qmsg EXCEPT ![item] = m]
              /\ r.tail = item
              /\ r.head = IF q.tail = Null THEN item ELSE q.head
              /\ r.next[item] = IF q.tail = item THEN item ELSE Null
              /\ q.tail # Null => r.next[q.tail] = item
              /\ \A x \in Item : x # item /\ x # q.tail => r.next[x] = q.next[x]
    BY <1>1, <1>3, PostIs
  <2> HIDE DEF r
  <2>2. /\ Chained(q.head, q.next, s) /\ Chained(q.free_pool, q.next, t)
        /\ q.tail = IF s = <<>> THEN Null ELSE s[Len(s)]
        /\ ToSet(s) \cap ToSet(t) = {} /\ ToSet(s) \cup ToSet(t) \subseteq q.heap
    BY <1>1 DEF Layout
  <2>3. s \in Seq(Item) /\ t \in Seq(Item) /\ q.free_pool = IF t = <<>> THEN Null ELSE t[1]
    BY <2>2 DEF Chained
  <2>4. /\ Len(s) \in Nat /\ DOMAIN s = 1 .. Len(s) /\ Len(t) \in Nat /\ DOMAIN t = 1 .. Len(t)
        /\ (\A k \in DOMAIN s : s[k] \in Item /\ s[k] \in ToSet(s))
        /\ (\A k \in DOMAIN t : t[k] \in Item /\ t[k] \in ToSet(t))
        /\ (s # <<>> => Len(s) \in DOMAIN s) /\ (t # <<>> => 1 \in DOMAIN t)
    BY <2>3 DEF ToSet
  <2>5. ToSet(s) \subseteq Item /\ ToSet(t) \subseteq Item
    BY <2>4 DEF ToSet
  <2>6. item \notin ToSet(s)
    <3>1. CASE t = <<>>
      BY <3>1, <2>1, <2>2, <2>3
    <3>2. CASE t # <<>>
      <4>1. t[1] \in ToSet(t) /\ t[1] # Null
        BY <3>2, <2>4, ItemFacts
      <4> QED
        BY <3>2, <4>1, <2>1, <2>2, <2>3
    <3> QED
      BY <3>1, <3>2
  <2>7. /\ q.tail # item /\ r.next[item] = Null
        /\ s # <<>> => q.tail # Null /\ q.tail \in ToSet(s) /\ r.next[s[Len(s)]] = item
        /\ s = <<>> => q.tail = Null
    <3>1. s # <<>> => q.tail # Null /\ q.tail \in ToSet(s) /\ q.tail = s[Len(s)]
      BY <2>2, <2>4, ItemFacts
    <3>2. s = <<>> => q.tail = Null
      BY <2>2
    <3>3. q.tail # item
      BY <3>1, <3>2, <2>6, ItemFacts
    <3> QED
      BY <3>1, <3>2, <3>3, <2>1
  <2> DEFINE s2 == Append(s, item)
             t2 == IF t = <<>> THEN <<>> ELSE Tail(t)
  <2>8. Chained(r.head, r.next, s2) /\ ToSet(s2) = ToSet(s) \cup {item}
    <3>1. PICK a, b, c, d : a = q.head /\ b = q.next /\ c = r.next /\ d = r.head
      OBVIOUS
    <3>2. Chained(a, b, s) /\ c[item] = Null /\ (s # <<>> => c[s[Len(s)]] = item)
      BY <3>1, <2>2, <2>7
    <3>3. \A x \in ToSet(s) : x # s[Len(s)] => c[x] = b[x]
      <4>1. ASSUME NEW x \in ToSet(s), x # s[Len(s)] PROVE c[x] = b[x]
        <5>1. s # <<>> /\ x \in Item /\ x # item
          BY <2>5, <2>6 DEF ToSet
        <5> QED
          BY <5>1, <4>1, <3>1, <2>1, <2>2
      <4> QED
        BY <4>1
    <3>4. d = IF s = <<>> THEN item ELSE a
      BY <3>1, <2>1, <2>7
    <3>5. Chained(d, c, Append(s, item)) /\ ToSet(Append(s, item)) = ToSet(s) \cup {item}
      BY <3>2, <3>3, <3>4, <2>6, ChainAppend
    <3> QED
      BY <3>1, <3>5
  <2>9. Chained(r.free_pool, r.next, t2) /\ ToSet(t2) \subseteq ToSet(t) /\ item \notin ToSet(t2)
    <3>1. CASE t = <<>>
      <4>1. r.free_pool = Null /\ ToSet(<<>>) = {}
        BY <3>1, <2>1, <2>3 DEF ToSet
      <4>2. Chained(Null, r.next, <<>>)
        BY DEF Chained
      <4> QED
        BY <3>1, <4>1, <4>2
    <3>2. CASE t # <<>>
      <4>1. t[1] # Null /\ q.free_pool = t[1] /\ item = t[1] /\ r.free_pool = q.next[t[1]]
        BY <3>2, <2>1, <2>3, <2>4, ItemFacts
      <4>2. PICK a, b, c : a = q.free_pool /\ b = q.next /\ c = r.next
        OBVIOUS
      <4>3. Chained(a, b, t)
        BY <4>2, <2>2
      <4>4. \A x \in ToSet(t) : x # t[1] => c[x] = b[x]
        <5>1. ASSUME NEW x \in ToSet(t), x # t[1] PROVE c[x] = b[x]
          <6>1. x \in Item /\ x # q.tail
            BY <2>2, <2>5, <2>7, ItemFacts
          <6> QED
            BY <6>1, <5>1, <4>1, <4>2, <2>1
        <5> QED
          BY <5>1
      <4>5. Chained(b[t[1]], c, Tail(t)) /\ ToSet(Tail(t)) = ToSet(t) \ {t[1]}
        BY <4>3, <4>4, <3>2, ChainTail
      <4> QED
        BY <3>2, <4>1, <4>2, <4>5
    <3> QED
      BY <3>1, <3>2
  <2>10. s2 # <<>> /\ Len(s2) = Len(s) + 1 /\ s2[Len(s2)] = item /\ \A k \in 1 .. Len(s) : s2[k] = s[k]
    BY <2>3
  <2>11. item \notin ToSet(t) \/ item \in q.heap
    BY <2>2
  <2> HIDE DEF s2, t2
  <2>12. Layout(r, s2, t2)
    BY <2>1, <2>2, <2>6, <2>8, <2>9, <2>10 DEF Layout
  <2>13. GoodQueue(r)
    BY <2>1, <2>12 DEF GoodQueue
  <2>14. /\ Messages(q) = [k \in 1 .. Len(s) |-> q.qmsg[s[k]]] /\ Len(Messages(q)) = Len(s)
         /\ Messages(q) \in Seq(Message)
    BY <1>1, Holds
  <2>15. /\ Messages(r) = [k \in 1 .. Len(s2) |-> r.qmsg[s2[k]]] /\ Len(Messages(r)) = Len(s2)
         /\ Messages(r) \in Seq(Message)
    <3>1. r \in QueueRecord
      BY <2>1
    <3> QED
      BY <3>1, <2>12, Holds
  <2>16. ASSUME NEW k \in 1 .. Len(s) PROVE Messages(r)[k] = Messages(q)[k]
    <3>1. k \in 1 .. Len(s2) /\ s2[k] = s[k]
      BY <2>4, <2>10
    <3>2. s[k] # item /\ s[k] \in Item /\ q.qmsg \in [Item -> Message]
      BY <2>4, <2>6, <1>1 DEF QueueRecord
    <3>3. r.qmsg[s[k]] = q.qmsg[s[k]]
      BY <3>2, <2>1
    <3> QED
      BY <3>1, <3>3, <2>14, <2>15
  <2>17. Grown(Messages(q), Messages(r))
    <3>1. Len(s) <= Len(s2)
      BY <2>4, <2>10
    <3> QED
      BY <3>1, <2>14, <2>15, <2>16 DEF Grown
  <2> QED
    BY <2>13, <2>17 DEF r
<1> QED
  BY <1>2, <1>3

(* The same for one message after the other.                                *)
LEMMA PostedAll ==
    ASSUME NEW q, GoodQueue(q), NEW ms \in Seq(Message)
    PROVE  GoodQueue(postMessages(q, ms)) /\ Grown(Messages(q), Messages(postMessages(q, ms)))
<1> DEFINE n == Len(ms)
           R == {x \in QueueRecord : GoodQueue(x) /\ Grown(Messages(q), Messages(x))}
           step == [p \in R \X (1 .. n) |-> postMessage(p[1], ms[p[2]])]
           Rec(g) == g = [s \in SUBSET (1 .. n) |->
                             IF s = {} THEN q ELSE postMessage(g[s \ {Max(s)}], ms[Max(s)])]
<1>1. n \in Nat /\ DOMAIN ms = 1 .. n /\ \A k \in 1 .. n : ms[k] \in Message
  OBVIOUS
<1>2. postMessages(q, ms) = (CHOOSE g : Rec(g))[1 .. n]
  BY <1>1 DEF postMessages, FoldLeft, MapThenFoldSet
<1> HIDE DEF n
<1>3. q \in R
  <2>1. PICK s, t : q \in QueueRecord /\ Layout(q, s, t)
    BY DEF GoodQueue
  <2>2. Messages(q) \in Seq(Message)
    BY <2>1, Holds
  <2> QED
    BY <2>1, <2>2 DEF Grown
<1>4. ASSUME NEW x \in R, NEW k \in 1 .. n PROVE postMessage(x, ms[k]) \in R
  <2> DEFINE a == Messages(q)
             b == Messages(x)
             c == Messages(postMessage(x, ms[k]))
  <2>1. GoodQueue(x) /\ Grown(a, b) /\ ms[k] \in Message
    BY <1>1
  <2>2. GoodQueue(postMessage(x, ms[k])) /\ Grown(b, c)
    BY <2>1, Posted
  <2> HIDE DEF a, b, c
  <2>3. Grown(a, c)
    <3>1. a \in Seq(Message) /\ b \in Seq(Message) /\ c \in Seq(Message) /\ Len(a) <= Len(b) /\ Len(b) <= Len(c)
      BY <2>1, <2>2 DEF Grown
    <3>2. Len(a) \in Nat /\ Len(b) \in Nat /\ Len(c) \in Nat /\ \A i \in 1 .. Len(a) : i \in 1 .. Len(b)
      BY <3>1
    <3>3. \A i \in 1 .. Len(a) : c[i] = a[i]
      BY <3>2, <2>1, <2>2 DEF Grown
    <3> QED
      BY <3>1, <3>2, <3>3 DEF Grown
  <2>4. postMessage(x, ms[k]) \in QueueRecord
    BY <2>2 DEF GoodQueue
  <2> QED
    BY <2>2, <2>3, <2>4 DEF a, c
<1> HIDE DEF R
<1>5. step \in [R \X (1 .. n) -> R]
  BY <1>4
<1>6. \E g : Rec(g)
  <2>1. PICK g : IsFold(g, R, q, n, step)
    <3> HIDE DEF step, Rec
    <3> QED
      BY <1>1, <1>3, <1>5, FoldExists
  <2>2. ASSUME NEW s \in SUBSET (1 .. n), s # {}
        PROVE  step[<<g[s \ {Max(s)}], Max(s)>>] = postMessage(g[s \ {Max(s)}], ms[Max(s)])
    <3>1. Max(s) \in s
      <4>1. s \in SUBSET (0 .. n)
        BY <1>1
      <4> QED
        BY <1>1, <2>2, <4>1, MaxIsIn
    <3>2. Max(s) \in 1 .. n /\ s \ {Max(s)} \in SUBSET (1 .. n)
      BY <3>1
    <3>3. g[s \ {Max(s)}] \in R
      BY <2>1, <3>2 DEF IsFold
    <3> QED
      BY <3>2, <3>3
  <2>3. /\ g = [s \in SUBSET (1 .. n) |-> g[s]]
        /\ \A s \in SUBSET (1 .. n) : g[s] = IF s = {} THEN q ELSE step[<<g[s \ {Max(s)}], Max(s)>>]
    BY <2>1 DEF IsFold
  <2>4. \A s \in SUBSET (1 .. n) : g[s] = IF s = {} THEN q ELSE postMessage(g[s \ {Max(s)}], ms[Max(s)])
    BY <2>2, <2>3
  <2> HIDE DEF step
  <2> QED
    BY <2>3, <2>4
<1>7. PICK g : Rec(g) /\ postMessages(q, ms) = g[1 .. n]
  <2> HIDE DEF Rec
  <2> QED
    BY <1>2, <1>6
<1>8. ASSUME NEW k \in 1 .. n, g[1 .. (k - 1)] \in R PROVE g[1 .. k] \in R
  <2>1. n \in Nat
    BY <1>1
  <2>2. Max(1 .. k) = k /\ (1 .. k) \ {k} = 1 .. (k - 1) /\ 1 .. k \in SUBSET (1 .. n) /\ 1 .. k # {}
    BY <2>1, WithoutTheLast, Zenon
  <2>3. g[1 .. k] = postMessage(g[1 .. (k - 1)], ms[k])
    BY <1>7, <2>2
  <2> QED
    BY <1>4, <1>8, <2>3
<1>9. g[1 .. 0] \in R
  <2>1. 1 .. 0 = {} /\ g[{}] = q
    BY <1>7
  <2> QED
    BY <1>3, <2>1
<1> DEFINE Bad == {k \in 0 .. n : g[1 .. k] \notin R}
<1>10. ASSUME NEW b \in Bad, \A y \in Bad : b <= y PROVE FALSE
  <2>1. b \in 1 .. n /\ b - 1 \in 0 .. n
    BY <1>1, <1>9
  <2>2. b - 1 \notin Bad
    BY <1>10, <2>1
  <2> QED
    BY <1>8, <2>1, <2>2
<1>11. Bad = {}
  <2>1. Bad \in SUBSET Nat
    BY <1>1
  <2> HIDE DEF Bad
  <2> QED
    BY <1>10, <2>1, HasLeast
<1>12. g[1 .. n] \in R
  <2>1. n \in 0 .. n /\ n \notin Bad
    BY <1>1, <1>11
  <2> QED
    BY <2>1
<1> QED
  BY <1>7, <1>12 DEF R

(* WinGetMsg takes the first message out: the queue stays a queue, what     *)
(* assert() says of the tail holds, and the others stay as they are.        *)
LEMMA TakenFirst ==
    ASSUME NEW q, GoodQueue(q), 1 \in DOMAIN Queued(q)
    PROVE  /\ GoodQueue(Removed(q, 1)) /\ GetAssertion(q, 1)
           /\ Messages(q) \in Seq(Message) /\ 1 \in 1 .. Len(Messages(q))
           /\ Messages(Removed(q, 1)) = RemoveAt(Messages(q), 1)
<1>1. PICK s, t : q \in QueueRecord /\ Layout(q, s, t)
  BY DEF GoodQueue
<1>2. /\ s \in Seq(Item) /\ Queued(q) = s /\ Messages(q) = [k \in 1 .. Len(s) |-> q.qmsg[s[k]]]
      /\ Messages(q) \in Seq(Message) /\ Len(Messages(q)) = Len(s)
  BY <1>1, Holds
<1>3. s # <<>> /\ Len(s) \in Nat \ {0} /\ 1 \in DOMAIN s /\ DOMAIN s = 1 .. Len(s) /\ s[1] \in Item
  BY <1>2
<1>4. PICK i \in Item : i = s[1]
  BY <1>3
<1> DEFINE no == Msg(NoWindow, WM_USER)
           nn == [q.next EXCEPT ![i] = q.free_pool]
           qq == [q.qmsg EXCEPT ![i] = no]
           ta == IF q.next[i] = Null THEN Null ELSE q.tail
           r == Queue(q.next[i], ta, i, q.heap, nn, qq)
<1>5. Removed(q, 1) = r
  <2>1. PICK h, tl, fp, hp, ne, qm : /\ h = q.head /\ tl = q.tail /\ fp = q.free_pool
                                     /\ hp = q.heap /\ ne = q.next /\ qm = q.qmsg
    OBVIOUS
  <2>2. q = Queue(h, tl, fp, hp, ne, qm)
    BY <1>1, <2>1 DEF QueueRecord, Queue
  <2>3. Queued(q)[1] = i
    BY <1>2, <1>4
  <2> DEFINE un == [q EXCEPT !.head = q.next[i]]
  <2>4. Removed(q, 1) = [un EXCEPT !.tail = IF un.head = Null THEN Null ELSE @, !.next[i] = q.free_pool,
                                   !.qmsg[i] = Msg(NoWindow, WM_USER), !.free_pool = i]
    BY <2>3 DEF Removed
  <2>5. PICK h2 : h2 = ne[i]
    OBVIOUS
  <2>6. un = Queue(h2, tl, fp, hp, ne, qm)
    <3>1. un = [Queue(h, tl, fp, hp, ne, qm) EXCEPT !.head = h2]
      BY <2>1, <2>2, <2>5
    <3> HIDE DEF un
    <3> QED
      BY <3>1 DEF Queue
  <2> HIDE DEF un
  <2>7. PICK a, c, d : a = ta /\ c = qq /\ d = nn
    OBVIOUS
  <2>8. [un EXCEPT !.tail = IF un.head = Null THEN Null ELSE @, !.next[i] = q.free_pool,
                   !.qmsg[i] = Msg(NoWindow, WM_USER), !.free_pool = i]
          = [un EXCEPT !.tail = a, !.next = d, !.qmsg = c, !.free_pool = i]
    <3>1. a = (IF h2 = Null THEN Null ELSE tl) /\ c = [qm EXCEPT ![i] = no] /\ d = [ne EXCEPT ![i] = fp]
      BY <2>1, <2>5, <2>7
    <3>2. un.head = h2 /\ un.tail = tl /\ un.next = ne /\ un.qmsg = qm
      BY <2>6 DEF Queue
    <3> HIDE DEF no, qq, nn, ta
    <3>3. un = Queue(h2, tl, fp, hp, ne, qm)
      BY <2>6
    <3> QED
      BY <3>1, <3>2, <3>3, <2>1 DEF Queue, no
  <2>9. [un EXCEPT !.tail = a, !.next = d, !.qmsg = c, !.free_pool = i] = Queue(h2, a, i, hp, d, c)
    <3>1. [Queue(h2, tl, fp, hp, ne, qm) EXCEPT !.tail = a] = Queue(h2, a, fp, hp, ne, qm)
      BY DEF Queue
    <3>2. [Queue(h2, a, fp, hp, ne, qm) EXCEPT !.next = d] = Queue(h2, a, fp, hp, d, qm)
      BY DEF Queue
    <3>3. [Queue(h2, a, fp, hp, d, qm) EXCEPT !.qmsg = c] = Queue(h2, a, fp, hp, d, c)
      BY DEF Queue
    <3>4. [Queue(h2, a, fp, hp, d, c) EXCEPT !.free_pool = i] = Queue(h2, a, i, hp, d, c)
      BY DEF Queue
    <3>5. [un EXCEPT !.tail = a, !.next = d, !.qmsg = c, !.free_pool = i]
            = [[[[un EXCEPT !.tail = a] EXCEPT !.next = d] EXCEPT !.qmsg = c] EXCEPT !.free_pool = i]
      OBVIOUS
    <3>6. [[un EXCEPT !.tail = a] EXCEPT !.next = d] = Queue(h2, a, fp, hp, d, qm)
      BY <3>1, <3>2, <2>6
    <3>7. [[[un EXCEPT !.tail = a] EXCEPT !.next = d] EXCEPT !.qmsg = c] = Queue(h2, a, fp, hp, d, c)
      BY <3>3, <3>6
    <3>8. [[[[un EXCEPT !.tail = a] EXCEPT !.next = d] EXCEPT !.qmsg = c] EXCEPT !.free_pool = i] = Queue(h2, a, i, hp, d, c)
      BY <3>4, <3>7
    <3> QED
      BY <3>5, <3>8
  <2> HIDE DEF no, qq, nn, ta
  <2> QED
    BY <2>1, <2>4, <2>5, <2>7, <2>8, <2>9
<1>6. /\ q.head \in Item \cup {Null} /\ q.tail \in Item \cup {Null} /\ q.free_pool \in Item \cup {Null}
      /\ q.heap \in SUBSET Item /\ q.next \in [Item -> Item \cup {Null}] /\ q.qmsg \in [Item -> Message]
  BY <1>1 DEF QueueRecord
<1>7. /\ nn \in [Item -> Item \cup {Null}] /\ nn[i] = q.free_pool
      /\ \A x \in Item : x # i => nn[x] = q.next[x]
  BY <1>6
<1>8. no \in Message
  BY DEF Msg, Message, NoWindow, WM_USER
<1>9. qq \in [Item -> Message] /\ \A x \in Item : x # i => qq[x] = q.qmsg[x]
  <2> HIDE DEF no
  <2> QED
    BY <1>6, <1>8
<1>10. ta \in Item \cup {Null} /\ q.next[i] \in Item \cup {Null}
  BY <1>6
<1> HIDE DEF nn, qq, no
<1>11. /\ r.head = q.next[i] /\ r.tail = ta /\ r.free_pool = i /\ r.heap = q.heap /\ r.next = nn /\ r.qmsg = qq
       /\ r \in QueueRecord
  <2> HIDE DEF ta
  <2>1. PICK h2 \in Item \cup {Null} : h2 = q.next[i]
    BY <1>10
  <2>2. r = Queue(h2, ta, i, q.heap, nn, qq)
    BY <2>1
  <2> HIDE DEF r
  <2>3. r \in QueueRecord
    BY <2>2, <1>6, <1>7, <1>9, <1>10 DEF Queue, QueueRecord
  <2> QED
    BY <2>1, <2>2, <2>3 DEF Queue
<1> HIDE DEF r
<1>12. /\ Chained(q.head, q.next, s) /\ Chained(q.free_pool, q.next, t)
       /\ q.tail = s[Len(s)]
       /\ ToSet(s) \cap ToSet(t) = {} /\ ToSet(s) \cup ToSet(t) \subseteq q.heap
  BY <1>1, <1>3 DEF Layout
<1>13. ToSet(s) \subseteq Item /\ ToSet(t) \subseteq Item
  <2>1. t \in Seq(Item)
    BY <1>12 DEF Chained
  <2> QED
    BY <2>1, <1>2 DEF ToSet
<1>14. Chained(r.head, r.next, Tail(s)) /\ ToSet(Tail(s)) = ToSet(s) \ {i} /\ i \in ToSet(s)
  <2>1. PICK a, b, c : a = q.head /\ b = q.next /\ c = r.next
    OBVIOUS
  <2>2. Chained(a, b, s) /\ \A x \in ToSet(s) : x # s[1] => c[x] = b[x]
    BY <2>1, <1>4, <1>7, <1>11, <1>12, <1>13
  <2>3. Chained(b[s[1]], c, Tail(s)) /\ ToSet(Tail(s)) = ToSet(s) \ {s[1]} /\ s[1] \in ToSet(s)
    BY <2>2, <1>3, ChainTail
  <2> QED
    BY <2>1, <2>3, <1>4, <1>11
<1>15. Chained(r.free_pool, r.next, <<i>> \o t) /\ ToSet(<<i>> \o t) = ToSet(t) \cup {i}
  <2>1. PICK a, b, c : a = q.free_pool /\ b = q.next /\ c = r.next
    OBVIOUS
  <2>2. Chained(a, b, t) /\ c[i] = a /\ i \notin ToSet(t)
    BY <2>1, <1>7, <1>11, <1>12, <1>14
  <2>3. \A x \in ToSet(t) : c[x] = b[x]
    BY <2>1, <2>2, <1>7, <1>11, <1>13
  <2>4. Chained(i, c, <<i>> \o t) /\ ToSet(<<i>> \o t) = ToSet(t) \cup {i}
    BY <2>2, <2>3, ChainPush
  <2> QED
    BY <2>1, <2>4, <1>11
<1>16. /\ Tail(s) \in Seq(Item) /\ Len(Tail(s)) = Len(s) - 1
       /\ \A k \in 1 .. Len(s) - 1 : Tail(s)[k] = s[k + 1]
  BY <1>2, <1>3
<1>17. (Tail(s) = <<>> <=> Len(s) = 1) /\ (r.head = Null <=> Tail(s) = <<>>)
  <2>1. r.head = IF Tail(s) = <<>> THEN Null ELSE Tail(s)[1]
    BY <1>14 DEF Chained
  <2>2. Tail(s) # <<>> => Tail(s)[1] \in Item
    BY <1>16
  <2>3. Tail(s) = <<>> <=> Len(s) = 1
    <3>1. PICK u \in Seq(Item) : u = Tail(s)
      BY <1>16
    <3>2. u = <<>> <=> Len(u) = 0
      OBVIOUS
    <3> QED
      BY <3>1, <3>2, <1>3, <1>16
  <2> QED
    BY <2>1, <2>2, <2>3, ItemFacts
<1>18. r.tail = IF Tail(s) = <<>> THEN Null ELSE Tail(s)[Len(Tail(s))]
  <2>1. Tail(s) # <<>> => Tail(s)[Len(Tail(s))] = s[Len(s)]
    <3>1. Tail(s) # <<>> => Len(s) - 1 \in 1 .. Len(s) - 1 /\ Len(s) - 1 + 1 = Len(s)
      BY <1>3, <1>17
    <3> QED
      BY <3>1, <1>16
  <2> QED
    BY <2>1, <1>11, <1>12, <1>17
<1>19. Layout(r, Tail(s), <<i>> \o t)
  BY <1>11, <1>12, <1>14, <1>15, <1>18 DEF Layout
<1>20. GoodQueue(r)
  BY <1>11, <1>19 DEF GoodQueue
<1>21. GetAssertion(q, 1)
  <2>1. r.head = Null => q.tail = i
    BY <1>4, <1>12, <1>17
  <2> QED
    BY <2>1, <1>2, <1>4, <1>5 DEF GetAssertion
<1>22. Messages(r) = RemoveAt(Messages(q), 1)
  <2>1. PICK M \in Seq(Message) : M = Messages(q)
    BY <1>2
  <2>2. Len(M) = Len(s) /\ Len(M) \in Nat \ {0}
    BY <2>1, <1>2, <1>3
  <2>3. RemoveAt(M, 1) = [k \in 1 .. Len(s) - 1 |-> M[k + 1]]
    <3>1. SubSeq(M, 1, 1 - 1) = <<>>
      BY <2>2
    <3>2. SubSeq(M, 1 + 1, Len(M)) \in Seq(Message) /\ Len(SubSeq(M, 1 + 1, Len(M))) = Len(s) - 1
      BY <2>2
    <3>3. \A k \in 1 .. Len(s) - 1 : SubSeq(M, 1 + 1, Len(M))[k] = M[k + 1]
      BY <2>2
    <3>4. RemoveAt(M, 1) = SubSeq(M, 1 + 1, Len(M))
      BY <3>1, <3>2 DEF RemoveAt
    <3>5. PICK u \in Seq(Message) : u = SubSeq(M, 1 + 1, Len(M))
      BY <3>2
    <3>6. u = [k \in 1 .. Len(u) |-> u[k]] /\ Len(u) = Len(s) - 1
      BY <3>2, <3>5
    <3> QED
      BY <3>3, <3>4, <3>5, <3>6
  <2>4. Messages(r) = [k \in 1 .. Len(s) - 1 |-> r.qmsg[Tail(s)[k]]]
    <3>1. PICK u, v : u = Tail(s) /\ v = <<i>> \o t
      OBVIOUS
    <3>2. Layout(r, u, v) /\ r \in QueueRecord
      BY <3>1, <1>11, <1>19
    <3>3. Messages(r) = [k \in 1 .. Len(u) |-> r.qmsg[u[k]]]
      BY <3>2, Holds
    <3> QED
      BY <3>1, <3>3, <1>16
  <2>5. ASSUME NEW k \in 1 .. Len(s) - 1 PROVE M[k + 1] = r.qmsg[Tail(s)[k]]
    <3>1. k + 1 \in 1 .. Len(s) /\ k + 1 # 1 /\ Tail(s)[k] = s[k + 1]
      BY <1>3, <1>16
    <3>2. s[k + 1] # i /\ s[k + 1] \in Item
      <4>1. \A a, b \in DOMAIN s : s[a] = s[b] => a = b
        BY <1>12 DEF Chained
      <4> QED
        BY <4>1, <3>1, <1>2, <1>3, <1>4
    <3> QED
      BY <3>1, <3>2, <2>1, <1>2, <1>9, <1>11
  <2> QED
    BY <2>1, <2>3, <2>4, <2>5
<1>23. 1 \in 1 .. Len(Messages(q))
  BY <1>2, <1>3
<1> QED
  BY <1>2, <1>5, <1>20, <1>21, <1>22, <1>23

(* postExposedMessages names windows only.                                  *)
LEMMA PaintsWindows ==
    ASSUME child \in [Place -> Window \cup {Null}], sibling \in [Window -> Window \cup {Null}], NEW w \in Window
    PROVE  postExposedMessages(w) \in Seq(Window)
<1> DEFINE V == Window \cup {Null}
           R == [V -> Seq(Window)]
           At(p, v) == p[sibling[v]] \o (IF v \in visible THEN <<v>> \o p[child[v]] ELSE <<>>)
           Layer(p) == [v \in V |-> IF v = Null THEN <<>> ELSE At(p, v)]
           base == [v \in V |-> <<>>]
           step == [x \in R \X (1 .. NumWindows) |-> Layer(x[1])]
           Rec(g) == g = [n \in 0 .. NumWindows |->
                             [v \in V |-> IF v = Null \/ n = 0 THEN <<>> ELSE At(g[n - 1], v)]]
<1>1. NumWindows \in Nat /\ Window \subseteq Place /\ Null \notin Window
  BY WindowsAssumption, PlaceFacts
<1>2. postExposedMessages(w) = (CHOOSE g : Rec(g))[NumWindows][w]
  BY DEF postExposedMessages
<1>3. ASSUME NEW p \in R, NEW v \in Window PROVE At(p, v) \in Seq(Window)
  <2>1. sibling[v] \in V /\ child[v] \in V
    BY <1>1
  <2>2. p[sibling[v]] \in Seq(Window) /\ p[child[v]] \in Seq(Window)
    BY <2>1
  <2>3. <<v>> \in Seq(Window) /\ <<>> \in Seq(Window)
    OBVIOUS
  <2>4. <<v>> \o p[child[v]] \in Seq(Window)
    BY <2>2, <2>3, ConcatProperties
  <2>5. (IF v \in visible THEN <<v>> \o p[child[v]] ELSE <<>>) \in Seq(Window)
    BY <2>3, <2>4
  <2> QED
    BY <2>2, <2>5, ConcatProperties
<1> HIDE DEF At
<1>4. base \in R
  OBVIOUS
<1>5. ASSUME NEW p \in R PROVE Layer(p) \in R
  <2>1. \A v \in V : (IF v = Null THEN <<>> ELSE At(p, v)) \in Seq(Window)
    <3>1. <<>> \in Seq(Window)
      OBVIOUS
    <3>2. ASSUME NEW v \in V PROVE (IF v = Null THEN <<>> ELSE At(p, v)) \in Seq(Window)
      BY <1>3, <3>1
    <3> QED
      BY <3>2
  <2> QED
    BY <2>1
<1> HIDE DEF R
<1>6. step \in [R \X (1 .. NumWindows) -> R]
  <2> HIDE DEF Layer
  <2> QED
    BY <1>5
<1> HIDE DEF V
<1>7. \E g : Rec(g)
  <2>1. PICK f : IsFold(f, R, base, NumWindows, step)
    <3> HIDE DEF base, step, Rec
    <3> QED
      BY <1>1, <1>4, <1>6, FoldExists
  <2> DEFINE g == [n \in 0 .. NumWindows |-> f[1 .. n]]
  <2>2. f[1 .. 0] = base
    <3>1. 1 .. 0 = {} /\ {} \in SUBSET (1 .. NumWindows)
      OBVIOUS
    <3> HIDE DEF base, step
    <3> QED
      BY <3>1, <2>1 DEF IsFold
  <2>3. ASSUME NEW n \in 1 .. NumWindows PROVE f[1 .. n] = Layer(f[1 .. (n - 1)])
    <3>1. Max(1 .. n) = n /\ (1 .. n) \ {n} = 1 .. (n - 1) /\ 1 .. n \in SUBSET (1 .. NumWindows) /\ 1 .. n # {}
      BY <1>1, WithoutTheLast, Zenon
    <3>2. f[1 .. n] = step[<<f[1 .. (n - 1)], n>>]
      <4> HIDE DEF base, step
      <4> QED
        BY <3>1, <2>1 DEF IsFold
    <3>3. 1 .. (n - 1) \in SUBSET (1 .. NumWindows)
      BY <3>1
    <3>4. f[1 .. (n - 1)] \in R
      <4> HIDE DEF base, step
      <4> QED
        BY <3>3, <2>1 DEF IsFold
    <3> HIDE DEF Layer
    <3> QED
      BY <3>2, <3>4
  <2>4. ASSUME NEW n \in 0 .. NumWindows
        PROVE  g[n] = [v \in V |-> IF v = Null \/ n = 0 THEN <<>> ELSE At(g[n - 1], v)]
    <3>1. CASE n = 0
      BY <3>1, <2>2, <1>1
    <3>2. CASE n # 0
      <4>1. n \in 1 .. NumWindows /\ n - 1 \in 0 .. NumWindows
        BY <3>2, <1>1
      <4>2. g[n] = Layer(g[n - 1])
        <5> HIDE DEF Layer
        <5> QED
          BY <4>1, <2>3
      <4> HIDE DEF g
      <4> QED
        BY <4>2, <3>2
    <3> QED
      BY <3>1, <3>2
  <2>5. g = [n \in 0 .. NumWindows |-> g[n]]
    OBVIOUS
  <2>6. Rec(g)
    <3> HIDE DEF g
    <3> QED
      BY <2>4, <2>5
  <2> QED
    BY <2>6
<1>8. PICK g : Rec(g) /\ postExposedMessages(w) = g[NumWindows][w]
  <2> HIDE DEF Rec
  <2> QED
    BY <1>2, <1>7
<1>9. g[0] \in R
  <2>1. 0 \in 0 .. NumWindows
    BY <1>1
  <2>2. g[0] = base
    BY <1>8, <2>1
  <2> QED
    BY <1>4, <2>2
<1>10. ASSUME NEW n \in 1 .. NumWindows, g[n - 1] \in R PROVE g[n] \in R
  <2>1. n \in 0 .. NumWindows /\ n # 0
    BY <1>1
  <2>2. g[n] = Layer(g[n - 1])
    BY <1>8, <2>1
  <2> HIDE DEF Layer
  <2> QED
    BY <1>5, <1>10, <2>2
<1> DEFINE Bad == {n \in 0 .. NumWindows : g[n] \notin R}
<1>11. ASSUME NEW b \in Bad, \A y \in Bad : b <= y PROVE FALSE
  <2> HIDE DEF Rec
  <2>1. b \in 1 .. NumWindows /\ b - 1 \in 0 .. NumWindows
    BY <1>1, <1>9
  <2>2. b - 1 \notin Bad
    BY <1>11, <2>1
  <2> QED
    BY <1>10, <2>1, <2>2
<1>12. Bad = {}
  <2>1. Bad \in SUBSET Nat
    BY <1>1
  <2> HIDE DEF Bad
  <2> QED
    BY <1>11, <2>1, HasLeast
<1>13. g[NumWindows] \in R
  <2>1. NumWindows \in 0 .. NumWindows /\ NumWindows \notin Bad
    BY <1>1, <1>12
  <2> QED
    BY <2>1
<1> QED
  BY <1>8, <1>13 DEF R, V

(* A queue with nothing in it.                                              *)
LEMMA Emptied ==
    GoodQueue(EmptyQueue) /\ Messages(EmptyQueue) = <<>> /\ EmptyQueue \in QueueRecord
<1>1. Msg(NoWindow, WM_USER) \in Message
  BY DEF Msg, Message, NoWindow, WM_USER
<1>2. EmptyQueue \in QueueRecord
  BY <1>1 DEF EmptyQueue, QueueRecord
<1>3. /\ EmptyQueue.head = Null /\ EmptyQueue.tail = Null /\ EmptyQueue.free_pool = Null
      /\ EmptyQueue.heap = {}
  BY DEF EmptyQueue
<1>4. ToSet(<<>>) = {} /\ \A nxt : Chained(Null, nxt, <<>>)
  BY DEF ToSet, Chained
<1>5. Layout(EmptyQueue, <<>>, <<>>)
  BY <1>3, <1>4 DEF Layout
<1>6. PICK s : s = <<>> /\ Layout(EmptyQueue, s, s)
  BY <1>5
<1>7. Messages(EmptyQueue) = [k \in 1 .. Len(s) |-> EmptyQueue.qmsg[s[k]]]
  BY <1>2, <1>6, Holds
<1>8. Messages(EmptyQueue) = <<>>
  BY <1>6, <1>7
<1> QED
  BY <1>2, <1>6, <1>8 DEF GoodQueue

(* What has grown still begins the same way.                                *)
LEMMA GrownIsPrefix ==
    ASSUME NEW a, NEW b, Grown(a, b)
    PROVE  IsPrefix(a, b)
<1>1. a \in Seq(Message) /\ b \in Seq(Message) /\ Len(a) <= Len(b) /\ \A k \in 1 .. Len(a) : b[k] = a[k]
  BY DEF Grown
<1>2. Len(a) \in Nat /\ Len(b) \in Nat
  BY <1>1
<1>3. /\ SubSeq(a, 1, Len(a)) = [k \in 1 .. Len(a) |-> a[k]]
      /\ SubSeq(b, 1, Len(a)) = [k \in 1 .. Len(a) |-> b[k]]
  BY <1>1, <1>2
<1> QED
  BY <1>1, <1>3 DEF IsPrefix

(* A WinGetMsg without a filter takes what comes first.                     *)
LEMMA AllWanted ==
    ASSUME NEW q, GoodQueue(q), Wanted(q, NoFilter) # {}
    PROVE  Min(Wanted(q, NoFilter)) = 1 /\ 1 \in DOMAIN Queued(q)
<1>1. PICK s, t : q \in QueueRecord /\ Layout(q, s, t)
  BY DEF GoodQueue
<1>2. s \in Seq(Item) /\ Queued(q) = s
  BY <1>1, Holds
<1>3. \A m : ~skipMessage(m, NoFilter)
  BY DEF skipMessage, NoFilter, NoWindow
<1>4. Wanted(q, NoFilter) = 1 .. Len(s)
  BY <1>2, <1>3 DEF Wanted
<1>5. Len(s) \in Nat \ {0} /\ DOMAIN s = 1 .. Len(s)
  BY <1>2, <1>4
<1>6. Min(1 .. Len(s)) = 1
  BY <1>5 DEF Min
<1> QED
  BY <1>2, <1>4, <1>5, <1>6

-----------------------------------------------------------------------------
(* The queue and the calls that are about it: while WinGetMsg waits there   *)
(* is a queue, no loop of destroyWindow or WinTerminate is on top, and only *)
(* then does pumpEvents run.                                                *)
QueueInv ==
    /\ GoodQueue(mq) /\ (~hmq => mq = EmptyQueue)
    /\ getting \in {NoFilter, Null} /\ (pump # "no" => getting # Null)
    /\ getting # Null => hmq /\ (stack = <<>> \/ InCallback)
    /\ ~asserted

(* Steps that leave the queue alone.                                        *)
LEMMA QueueAlone ==
    ASSUME QueueInv, UNCHANGED <<hmq, mq, asserted, pump, getting>>,
           getting # Null => UNCHANGED stack
    PROVE  QueueInv' /\ Promise!FNext
<1>1. QueueInv'
  BY DEF QueueInv, InCallback, Top
<1>2. Promise!FNext
  BY DEF Promise!FNext, Promise!FOther
<1> QED
  BY <1>1, <1>2

(* Every step keeps the queue sound and is one of MsgFifo, or none.         *)
LEMMA QueueStep ==
    ASSUME Filter \subseteq {NoFilter}, TreeType, QueueInv, Next
    PROVE  QueueInv' /\ Promise!FNext
<1>n. NoFilter # Null
  BY FilterAssumption DEF NoFilter
<1>1. CASE WinInitialize
  BY <1>1, QueueAlone DEF WinInitialize, messageVars
<1>2. CASE WinCreateMsgQueue
  <2>1. UNCHANGED <<mq, asserted, pump, getting, stack>> /\ hmq' = TRUE
    BY <1>2 DEF WinCreateMsgQueue, CreateQueue
  <2>2. QueueInv'
    BY <2>1 DEF QueueInv, InCallback, Top
  <2> QED
    BY <2>1, <2>2 DEF Promise!FNext, Promise!FOther
<1>3. CASE WinDestroyMsgQueue
  <2>1. UNCHANGED <<asserted, pump, getting, stack>> /\ hmq /\ ~hmq' /\ mq' = EmptyQueue /\ getting = Null
    BY <1>3 DEF WinDestroyMsgQueue, DestroyQueue, Turn
  <2>2. QueueInv'
    BY <2>1, Emptied DEF QueueInv
  <2>3. Messages(mq') = <<>>
    BY <2>1, Emptied
  <2> QED
    BY <2>1, <2>2, <2>3 DEF Promise!FNext, Promise!FClose
<1>4. CASE WinTerminate
  BY <1>4, QueueAlone DEF WinTerminate, Turn, messageVars
<1>5. ASSUME NEW p \in Place, NEW shown \in program.visible, NEW owned \in program.owned,
             WinCreateWindow(p, shown, owned)
      PROVE  QueueInv' /\ Promise!FNext
  BY <1>5, QueueAlone DEF WinCreateWindow, Turn, messageVars
<1>6. CASE WM_CREATE_Accepted
  BY <1>6, QueueAlone DEF WM_CREATE_Accepted, Turn, messageVars
<1>7. CASE WM_CREATE_Refused
  BY <1>7, QueueAlone DEF WM_CREATE_Refused, Turn, messageVars
<1>8. CASE WM_ADJUSTWINDOWPOS_Returns
  BY <1>8, QueueAlone DEF WM_ADJUSTWINDOWPOS_Returns, Turn, messageVars
<1>9. CASE WM_DESTROY_Returns
  BY <1>9, QueueAlone DEF WM_DESTROY_Returns, Turn, messageVars
<1>l. ASSUME NEW at \in {"children", "terminate"}, InLoop(at) PROVE getting = Null /\ pump = "no"
  BY <1>l DEF InLoop, QueueInv, InCallback
<1>10. CASE DestroyChild
  BY <1>10, <1>l, QueueAlone DEF DestroyChild, messageVars
<1>11. CASE DestroyFinish
  BY <1>11, <1>l, QueueAlone DEF DestroyFinish, messageVars
<1>12. CASE TerminateNext
  BY <1>12, <1>l, QueueAlone DEF TerminateNext, messageVars
<1>13. CASE TerminateFinish
  <2>1. UNCHANGED <<asserted, pump, getting>> /\ ~hmq' /\ mq' = EmptyQueue /\ getting = Null
    BY <1>13, <1>l DEF TerminateFinish
  <2>2. QueueInv'
    BY <2>1, Emptied DEF QueueInv
  <2>3. Messages(mq') = <<>>
    BY <2>1, Emptied
  <2>4. CASE hmq
    BY <2>1, <2>2, <2>3, <2>4 DEF Promise!FNext, Promise!FClose
  <2>5. CASE ~hmq
    <3>1. mq' = mq
      BY <2>1, <2>5 DEF QueueInv
    <3> QED
      BY <3>1, <2>2 DEF Promise!FNext, Promise!FOther
  <2> QED
    BY <2>4, <2>5
<1>14. ASSUME NEW w \in Window, WinDestroyWindow(w) PROVE QueueInv' /\ Promise!FNext
  BY <1>14, QueueAlone DEF WinDestroyWindow, Turn, messageVars
<1>p. ASSUME GoodQueue(mq'), Grown(Messages(mq), Messages(mq')), hmq, UNCHANGED <<hmq, asserted, getting, got, stack>>,
             pump' # "no" => getting # Null
      PROVE  QueueInv' /\ Promise!FNext
  <2>1. QueueInv'
    BY <1>p DEF QueueInv, InCallback, Top
  <2>2. PICK a, b : a = Messages(mq) /\ b = Messages(mq')
    OBVIOUS
  <2>3. IsPrefix(a, b)
    BY <2>2, <1>p, GrownIsPrefix
  <2>4. Promise!FPut
    <3>1. Promise!IsPrefix(a, b)
      BY <2>3 DEF IsPrefix, Promise!IsPrefix
    <3> QED
      BY <1>p, <2>2, <3>1 DEF Promise!FPut
  <2> QED
    BY <2>1, <2>4 DEF Promise!FNext
<1>15. ASSUME NEW w \in Window, WinPostMsg(w) PROVE QueueInv' /\ Promise!FNext
  <2>1. hmq /\ UNCHANGED <<hmq, getting, got, stack, pump>>
    BY <1>15 DEF WinPostMsg
  <2>2. PostAssertion(mq)
    <3>1. PICK s, t : mq \in QueueRecord /\ Layout(mq, s, t)
      BY DEF QueueInv, GoodQueue
    <3>2. /\ s \in Seq(Item) /\ mq.head = IF s = <<>> THEN Null ELSE s[1]
          /\ mq.tail = IF s = <<>> THEN Null ELSE s[Len(s)]
      BY <3>1 DEF Layout, Chained
    <3>3. s # <<>> => s[1] \in Item /\ s[Len(s)] \in Item
      BY <3>2
    <3> QED
      BY <3>2, <3>3, ItemFacts DEF PostAssertion
  <2>3. mq' = postMessage(mq, Msg(w, WM_USER)) /\ asserted' = asserted
    BY <1>15, <2>2 DEF WinPostMsg
  <2>4. Msg(w, WM_USER) \in Message
    BY PlaceFacts DEF Msg, Message, WM_USER
  <2>5. PICK m \in Message : m = Msg(w, WM_USER)
    BY <2>4
  <2>6. GoodQueue(mq') /\ Grown(Messages(mq), Messages(mq'))
    BY <2>3, <2>5, Posted DEF QueueInv
  <2>7. pump' # "no" => getting # Null
    BY <2>1 DEF QueueInv
  <2> QED
    BY <1>p, <2>1, <2>3, <2>6, <2>7
<1>16. ASSUME NEW w \in Window, WinSendMsg(w) PROVE QueueInv' /\ Promise!FNext
  BY <1>16, QueueAlone DEF WinSendMsg, Turn, messageVars
<1>q. ASSUME NEW ms \in Seq(Message), PumpPosts(ms) PROVE QueueInv' /\ Promise!FNext
  <2>1. UNCHANGED <<hmq, asserted, getting, got, stack>> /\ pump # "no" /\ mq' = postMessages(mq, ms)
    BY <1>q DEF PumpPosts
  <2>2. getting # Null /\ hmq
    BY <2>1 DEF QueueInv
  <2>3. GoodQueue(mq') /\ Grown(Messages(mq), Messages(mq'))
    BY <2>1, PostedAll DEF QueueInv
  <2> QED
    BY <1>p, <2>1, <2>2, <2>3
<1>17. ASSUME NEW w \in Window, PumpExposed(w) PROVE QueueInv' /\ Promise!FNext
  <2> DEFINE painted == postExposedMessages(w)
             ms == [k \in DOMAIN painted |-> Msg(painted[k], WM_PAINT)]
  <2>1. painted \in Seq(Window)
    BY PaintsWindows DEF TreeType
  <2>2. \A v \in Window : Msg(v, WM_PAINT) \in Message
    BY PlaceFacts DEF Msg, Message, WM_PAINT
  <2>3. PumpPosts(ms)
    BY <1>17 DEF PumpExposed
  <2> HIDE DEF painted
  <2>4. ms \in Seq(Message)
    <3>1. Len(painted) \in Nat /\ DOMAIN painted = 1 .. Len(painted)
      BY <2>1
    <3>2. \A k \in 1 .. Len(painted) : Msg(painted[k], WM_PAINT) \in Message
      BY <2>1, <2>2
    <3> QED
      BY <3>1, <3>2
  <2> HIDE DEF ms
  <2> QED
    BY <1>q, <2>3, <2>4
<1>18. ASSUME NEW f \in Filter \cup {NoFilter}, WinGetMsg(f) PROVE QueueInv' /\ Promise!FNext
  <2>1. UNCHANGED <<hmq, mq, asserted, pump, stack>> /\ hmq /\ getting' = NoFilter /\ (stack = <<>> \/ InCallback)
    BY <1>18 DEF WinGetMsg, Turn
  <2>2. QueueInv'
    BY <2>1, <1>n DEF QueueInv, InCallback, Top
  <2> QED
    BY <2>1, <2>2 DEF Promise!FNext, Promise!FOther
<1>19. CASE GetFinds
  <2>1. /\ getting = NoFilter /\ Wanted(mq, NoFilter) # {} /\ GoodQueue(mq)
        /\ getting' = Null /\ UNCHANGED <<hmq, pump, stack>> /\ pump = "no"
    BY <1>19 DEF GetFinds, QueueInv
  <2>2. Min(Wanted(mq, NoFilter)) = 1 /\ 1 \in DOMAIN Queued(mq)
    BY <2>1, AllWanted
  <2>3. got' = Messages(mq)[1] /\ mq' = Removed(mq, 1) /\ asserted' = ~GetAssertion(mq, 1)
    BY <1>19, <2>1, <2>2 DEF GetFinds
  <2>4. /\ GoodQueue(Removed(mq, 1)) /\ GetAssertion(mq, 1)
        /\ Messages(mq) \in Seq(Message) /\ 1 \in 1 .. Len(Messages(mq))
        /\ Messages(Removed(mq, 1)) = RemoveAt(Messages(mq), 1)
    BY <2>1, <2>2, TakenFirst
  <2>5. hmq
    BY <2>1, <1>n DEF QueueInv
  <2>6. QueueInv'
    BY <2>1, <2>3, <2>4, <2>5 DEF QueueInv
  <2>7. ~skipMessage(Messages(mq)[1], getting)
    BY <2>1 DEF skipMessage, NoFilter, NoWindow
  <2>8. Promise!FTake
    <3>1. Messages(mq') = Promise!RemoveAt(Messages(mq), 1)
      BY <2>3, <2>4 DEF RemoveAt, Promise!RemoveAt
    <3>2. \A j \in 1 .. (1 - 1) : FALSE
      OBVIOUS
    <3> QED
      BY <1>n, <2>1, <2>3, <2>4, <2>7, <3>1, <3>2 DEF Promise!FTake
  <2> QED
    BY <2>6, <2>8 DEF Promise!FNext
<1>20. CASE GetPumps
  <2>1. UNCHANGED <<hmq, mq, asserted, getting, stack>> /\ getting # Null
    BY <1>20 DEF GetPumps
  <2>2. QueueInv'
    BY <2>1 DEF QueueInv, InCallback, Top
  <2> QED
    BY <2>1, <2>2 DEF Promise!FNext, Promise!FOther
<1>21. CASE PumpQuit
  <2>1. <<Msg(NoWindow, WM_QUIT)>> \in Seq(Message)
    BY DEF Msg, Message, NoWindow, WM_QUIT
  <2>2. PICK ms \in Seq(Message) : ms = <<Msg(NoWindow, WM_QUIT)>>
    BY <2>1
  <2> QED
    BY <1>21, <1>q, <2>2 DEF PumpQuit
<1>22. CASE PumpReturns
  <2>1. UNCHANGED <<hmq, mq, asserted, getting, stack>> /\ pump' = "no"
    BY <1>22 DEF PumpReturns
  <2>2. QueueInv'
    BY <2>1 DEF QueueInv, InCallback, Top
  <2> QED
    BY <2>1, <2>2 DEF Promise!FNext, Promise!FOther
<1>23. CASE WinDispatchMsg
  BY <1>23, QueueAlone DEF WinDispatchMsg, Turn
<1>24. CASE SendReturns
  BY <1>24, QueueAlone DEF SendReturns, Turn, messageVars
<1>25. CASE WinDefWindowProc
  BY <1>25, QueueAlone DEF WinDefWindowProc, Turn, messageVars
<1> QED
  BY <1>1, <1>2, <1>3, <1>4, <1>5, <1>6, <1>7, <1>8, <1>9, <1>10, <1>11, <1>12, <1>13, <1>14, <1>15,
     <1>16, <1>17, <1>18, <1>19, <1>20, <1>21, <1>22, <1>23, <1>24, <1>25 DEF Next

(* So does a step that changes nothing.                                     *)
LEMMA QueueKept ==
    ASSUME Filter \subseteq {NoFilter}, TreeInv, QueueInv, [Next]_vars
    PROVE  QueueInv' /\ [Promise!FNext]_(Promise!fvars)
<1>1. CASE Next
  BY <1>1, QueueStep DEF TreeInv
<1>2. CASE UNCHANGED vars
  <2>1. UNCHANGED <<hmq, mq, asserted, pump, getting, got, stack>>
    BY <1>2 DEF vars, messageVars
  <2> QED
    BY <2>1, QueueAlone
<1> QED
  BY <1>1, <1>2

(* A PM message queue is first in, first out (MsgFifo): what postMessage    *)
(* links to its list and WinGetMsg takes out, under every nesting of window *)
(* procedures, and with the windows coming and going, as long as the        *)
(* program asks for messages without a filter.  (With one it is not so: see *)
(* pmwin.c:933, where the tail of a list that is not empty is kept.)        *)
THEOREM QueueIsFifo ==
    ASSUME Filter \subseteq {NoFilter}
    PROVE  Spec => ImplementsMsgFifo
<1>1. Init => QueueInv /\ Promise!FInit
  BY Emptied DEF Init, QueueInv, Promise!FInit
<1>2. TreeInv /\ QueueInv /\ [Next]_vars => QueueInv' /\ [Promise!FNext]_(Promise!fvars)
  BY QueueKept
<1> QED
  BY <1>1, <1>2, TreeInductive, PTL DEF Spec, ImplementsMsgFifo, Promise!MsgFifoSpec

(* The two assert()s of the queue hold in such a program (postMessage, and  *)
(* pmwin.c:933 in WinGetMsg): the head is null exactly when the tail is,    *)
(* and a queue that became empty had its tail removed.                      *)
THEOREM AssertionsHold ==
    ASSUME Filter \subseteq {NoFilter}
    PROVE  Spec => []QueueAssertionHolds
<1>1. Init => QueueInv
  BY Emptied DEF Init, QueueInv
<1>2. TreeInv /\ QueueInv /\ [Next]_vars => QueueInv'
  BY QueueKept
<1>3. QueueInv => QueueAssertionHolds
  BY DEF QueueInv, QueueAssertionHolds
<1> QED
  BY <1>1, <1>2, <1>3, TreeInductive, PTL DEF Spec
=============================================================================
