---------------------------- MODULE FoldTheorems ----------------------------
(***************************************************************************)
(* Least and greatest numbers, and that a fold over the first n numbers has *)
(* a value.  What follows about a fold or another recursive function is     *)
(* shown by the least number for which it is not so.  Then what a push, a   *)
(* pop and the removal of an element leave of a sequence.                   *)
(***************************************************************************)
EXTENDS Integers, SequencesExt, FiniteSetsExt, WellFoundedInduction, TLAPS

(* A set of numbers that is not empty has a least one.                      *)
LEMMA HasLeast ==
    ASSUME NEW T \in SUBSET Nat, T # {}
    PROVE  \E x \in T : \A y \in T : x <= y
<1> DEFINE R == {ss \in Nat \X Nat : ss[1] < ss[2]}
<1>1. IsWellFoundedOn(R, Nat)
  BY NatLessThanWellFounded, Zenon DEF OpToRel
<1>2. PICK x \in T : \A y \in T : <<y, x>> \notin R
  <2> HIDE DEF R
  <2> QED
    BY <1>1, WFMin
<1>3. ASSUME NEW y \in T PROVE x <= y
  <2>1. <<y, x>> \notin R
    BY <1>2
  <2> QED
    BY <2>1
<1> QED
  BY <1>3

(* Min of the library is the least of a set of naturals.                    *)
LEMMA LeastNatural ==
    ASSUME NEW S \in SUBSET Nat, S # {}
    PROVE  Min(S) \in S /\ \A n \in S : Min(S) <= n
BY HasLeast DEF Min

(* A set of numbers that has a bound has a greatest one.                    *)
LEMMA MaxIsIn ==
    ASSUME NEW b \in Nat, NEW S \in SUBSET (0 .. b), S # {}
    PROVE  Max(S) \in S /\ \A x \in S : Max(S) >= x
<1> DEFINE T == {b - k : k \in S}
<1>1. T \in SUBSET Nat /\ T # {}
  <2>1. \A k \in S : b - k \in Nat
    OBVIOUS
  <2> QED
    BY <2>1
<1>2. PICK m \in T : \A n \in T : m <= n
  <2> HIDE DEF T
  <2> QED
    BY <1>1, HasLeast
<1>3. PICK k \in S : m = b - k
  OBVIOUS
<1>4. ASSUME NEW x \in S PROVE k >= x
  <2>1. b - x \in T
    OBVIOUS
  <2>2. b - k <= b - x /\ k \in Int /\ x \in Int
    BY <1>2, <1>3, <2>1
  <2> QED
    BY <2>2
<1> QED
  BY <1>4 DEF Max

(* What is left of the first k numbers without the greatest of them.        *)
LEMMA WithoutTheLast ==
    ASSUME NEW n \in Nat, NEW k \in 1 .. n
    PROVE  /\ Max(1 .. k) = k /\ (1 .. k) \ {k} = 1 .. (k - 1)
           /\ 1 .. k \in SUBSET (1 .. n) /\ 1 .. k # {}
<1>1. k \in Int /\ 1 <= k /\ k <= n
  OBVIOUS
<1>2. Max(1 .. k) = k
  BY <1>1 DEF Max
<1>3. (1 .. k) \ {k} = 1 .. (k - 1) /\ k \in 1 .. k
  BY <1>1
<1>4. \A j \in 1 .. k : j \in 1 .. n
  BY <1>1
<1> QED
  BY <1>2, <1>3, <1>4

(* A fold over the first n numbers, the greatest last, has a value.         *)
IsFold(g, R, base, n, step) ==
    /\ g \in [SUBSET (1 .. n) -> R]
    /\ \A s \in SUBSET (1 .. n) :
          g[s] = IF s = {} THEN base ELSE step[<<g[s \ {Max(s)}], Max(s)>>]

(* Such a fold exists: by the least n for which there is none.  (The        *)
(* definition of g by recursion gives no value without this.)               *)
LEMMA FoldExists ==
    ASSUME NEW R, NEW base \in R, NEW n \in Nat, NEW step \in [R \X (1 .. n) -> R]
    PROVE  \E g : IsFold(g, R, base, n, step)
<1> DEFINE Folds(g, k) == 
              \A s \in SUBSET (1 .. k) :
                 g[s] = IF s = {} THEN base ELSE step[<<g[s \ {Max(s)}], Max(s)>>]
           Has(k) == \E g \in [SUBSET (1 .. k) -> R] : Folds(g, k)
           Bad == {k \in 0 .. n : ~Has(k)}
<1> SUFFICES Has(n)
  BY DEF IsFold
<1> HIDE DEF Has
<1>1. n \notin Bad => Has(n)
  OBVIOUS
<1>2. SUFFICES ASSUME Bad # {} PROVE FALSE
  BY <1>1
<1>3. PICK b \in Bad : \A y \in Bad : b <= y
  <2>1. Bad \in SUBSET Nat
    OBVIOUS
  <2> HIDE DEF Bad
  <2> QED
    BY <1>2, <2>1, HasLeast
<1>4. ASSUME b = 0 PROVE FALSE
  <2>1. [s \in SUBSET (1 .. 0) |-> base] \in [SUBSET (1 .. 0) -> R]
    OBVIOUS
  <2>2. \A s \in SUBSET (1 .. 0) : s = {}
    OBVIOUS
  <2>3. Folds([s \in SUBSET (1 .. 0) |-> base], 0)
    BY <2>2
  <2> QED
    BY <1>3, <1>4, <2>1, <2>3 DEF Has
<1>5. b \in 1 .. n /\ b - 1 \in 0 .. n /\ b - 1 \notin Bad
  <2>1. b \in 0 .. n /\ b # 0
    BY <1>3, <1>4
  <2> QED
    BY <1>3, <2>1
<1>6. PICK g \in [SUBSET (1 .. b - 1) -> R] : Folds(g, b - 1)
  BY <1>5 DEF Has
<1> DEFINE h == [s \in SUBSET (1 .. b) |-> IF b \in s THEN step[<<g[s \ {b}], b>>] ELSE g[s]]
<1>7. ASSUME NEW s \in SUBSET (1 .. b)
      PROVE  /\ b \in s => Max(s) = b /\ s \ {b} \in SUBSET (1 .. b - 1)
             /\ b \notin s => s \in SUBSET (1 .. b - 1) /\ s \ {Max(s)} \in SUBSET (1 .. b - 1)
  <2>1. b \in s => Max(s) = b
    <3>1. \A x \in s : x \in Int /\ b >= x
      BY <1>5
    <3> HIDE DEF Bad
    <3>2. ASSUME b \in s, NEW x \in s, \A y \in s : x >= y PROVE x = b
      BY <1>5, <3>1, <3>2
    <3> QED
      BY <3>1, <3>2 DEF Max
  <2>2. \A x \in s \ {b} : x \in 1 .. b - 1
    BY <1>5
  <2> QED
    BY <2>1, <2>2
<1>8. h \in [SUBSET (1 .. b) -> R]
  <2>1. ASSUME NEW s \in SUBSET (1 .. b)
        PROVE (IF b \in s THEN step[<<g[s \ {b}], b>>] ELSE g[s]) \in R
    BY <1>5, <1>7
  <2> QED
    BY <2>1
<1>9. ASSUME NEW s \in SUBSET (1 .. b)
      PROVE  h[s] = IF s = {} THEN base ELSE step[<<h[s \ {Max(s)}], Max(s)>>]
  <2>1. CASE b \in s
    <3>1. h[s] = step[<<g[s \ {b}], b>>]
      BY <2>1
    <3>2. h[s \ {b}] = g[s \ {b}]
      OBVIOUS
    <3> QED
      BY <2>1, <3>1, <3>2, <1>7
  <2>2. CASE b \notin s
    <3>1. h[s] = g[s] /\ h[s \ {Max(s)}] = g[s \ {Max(s)}]
      BY <2>2
    <3>2. g[s] = IF s = {} THEN base ELSE step[<<g[s \ {Max(s)}], Max(s)>>]
      BY <1>6, <1>7, <2>2
    <3> QED
      BY <3>1, <3>2
  <2> QED
    BY <2>1, <2>2
<1>10. Folds(h, b)
  BY <1>9
<1> QED
  BY <1>3, <1>8, <1>10 DEF Has

(* Induction over the first numbers, for a set of them.                     *)
LEMMA UpTo ==
    ASSUME NEW n \in Nat, NEW S, 0 \in S, \A k \in 1 .. n : k - 1 \in S => k \in S
    PROVE  n \in S
<1> DEFINE Bad == {k \in 0 .. n : k \notin S}
<1>1. ASSUME Bad # {} PROVE FALSE
  <2>1. Bad \in SUBSET Nat
    OBVIOUS
  <2>2. PICK b \in Bad : \A y \in Bad : b <= y
    <3> HIDE DEF Bad
    <3> QED
      BY <1>1, <2>1, HasLeast
  <2>3. b \in 1 .. n /\ b - 1 \in 0 .. n /\ b - 1 \notin Bad
    BY <2>2
  <2> QED
    BY <2>2, <2>3
<1> QED
  BY <1>1

(* A loop of n rounds, in the same way, goes through n + 1 values.          *)
IsLoop(g, R, base, n, step) ==
    /\ g \in [0 .. n -> R]
    /\ \A k \in 0 .. n : g[k] = IF k = 0 THEN base ELSE step[<<g[k - 1], k>>]

LEMMA LoopExists ==
    ASSUME NEW R, NEW base \in R, NEW n \in Nat, NEW step \in [R \X (1 .. n) -> R]
    PROVE  \E g : IsLoop(g, R, base, n, step)
<1>1. PICK f : IsFold(f, R, base, n, step)
  BY FoldExists
<1> DEFINE g == [k \in 0 .. n |-> f[1 .. k]]
<1>2. f[1 .. 0] = base
  <2>1. 1 .. 0 = {} /\ {} \in SUBSET (1 .. n)
    OBVIOUS
  <2> QED
    BY <1>1, <2>1 DEF IsFold
<1>3. ASSUME NEW k \in 1 .. n
      PROVE  f[1 .. k] = step[<<f[1 .. (k - 1)], k>>]
  <2>1. Max(1 .. k) = k /\ (1 .. k) \ {k} = 1 .. (k - 1) /\ 1 .. k \in SUBSET (1 .. n) /\ 1 .. k # {}
    BY WithoutTheLast, Zenon
  <2> QED
    BY <1>1, <2>1 DEF IsFold
<1>4. \A k \in 0 .. n : 1 .. k \in SUBSET (1 .. n)
  OBVIOUS
<1>5. g \in [0 .. n -> R]
  BY <1>1, <1>4 DEF IsFold
<1>6. ASSUME NEW k \in 0 .. n
      PROVE  g[k] = IF k = 0 THEN base ELSE step[<<g[k - 1], k>>]
  <2>1. CASE k = 0
    BY <1>2, <2>1
  <2>2. CASE k # 0
    <3>1. k \in 1 .. n /\ k - 1 \in 0 .. n
      BY <2>2
    <3>2. g[k] = f[1 .. k] /\ g[k - 1] = f[1 .. (k - 1)]
      BY <3>1
    <3> QED
      BY <1>3, <2>2, <3>1, <3>2
  <2> QED
    BY <2>1, <2>2
<1> HIDE DEF g
<1> QED
  BY <1>5, <1>6 DEF IsLoop
-----------------------------------------------------------------------------
(* A stack whose top is its first element: what a push leaves at each place. *)
LEMMA Pushed ==
    ASSUME NEW S, NEW st \in Seq(S), NEW f \in S
    PROVE  LET new == <<f>> \o st IN
           /\ new \in Seq(S) /\ Len(new) = Len(st) + 1 /\ new[1] = f
           /\ DOMAIN new = 1 .. Len(st) + 1
           /\ \A k \in DOMAIN new : k # 1 => k - 1 \in DOMAIN st /\ new[k] = st[k - 1]
           /\ \A k \in DOMAIN st : k + 1 \in DOMAIN new /\ new[k + 1] = st[k]
<1> DEFINE new == <<f>> \o st
<1>1. Len(st) \in Nat /\ DOMAIN st = 1 .. Len(st)
  OBVIOUS
<1>2. new \in Seq(S) /\ Len(new) = Len(st) + 1 /\ new[1] = f
  OBVIOUS
<1>3. DOMAIN new = 1 .. Len(st) + 1
  BY <1>2, <1>1
<1>4. ASSUME NEW k \in DOMAIN new, k # 1
      PROVE  k - 1 \in DOMAIN st /\ new[k] = st[k - 1]
  BY <1>3, <1>1, <1>4
<1>5. ASSUME NEW k \in DOMAIN st
      PROVE  k + 1 \in DOMAIN new /\ new[k + 1] = st[k]
  BY <1>3, <1>1, <1>5
<1> HIDE DEF new
<1> QED
  BY <1>2, <1>3, <1>4, <1>5 DEF new

(* What a pop leaves.                                                       *)
LEMMA Popped ==
    ASSUME NEW S, NEW st \in Seq(S), st # <<>>
    PROVE  LET new == Tail(st) IN
           /\ new \in Seq(S) /\ Len(new) = Len(st) - 1 /\ st[1] \in S
           /\ Len(st) \in Nat \ {0} /\ DOMAIN st = 1 .. Len(st) /\ DOMAIN new = 1 .. Len(st) - 1
           /\ \A k \in DOMAIN new : k + 1 \in DOMAIN st /\ new[k] = st[k + 1]
           /\ \A k \in DOMAIN st : k # 1 => k - 1 \in DOMAIN new /\ new[k - 1] = st[k]
<1> DEFINE new == Tail(st)
<1>1. Len(st) \in Nat \ {0} /\ DOMAIN st = 1 .. Len(st) /\ st[1] \in S
  OBVIOUS
<1>2. new \in Seq(S) /\ Len(new) = Len(st) - 1 /\ DOMAIN new = 1 .. Len(st) - 1
  BY <1>1
<1>3. ASSUME NEW k \in DOMAIN new
      PROVE  k + 1 \in DOMAIN st /\ new[k] = st[k + 1]
  BY <1>1, <1>2, <1>3
<1>4. ASSUME NEW k \in DOMAIN st, k # 1
      PROVE  k - 1 \in DOMAIN new /\ new[k - 1] = st[k]
  BY <1>1, <1>2, <1>4
<1> HIDE DEF new
<1> QED
  BY <1>1, <1>2, <1>3, <1>4 DEF new

(* A sequence without its n-th element.                                     *)
LEMMA ElementRemoved ==
    ASSUME NEW S, NEW s \in Seq(S), NEW n \in 1 .. Len(s)
    PROVE  LET r == RemoveAt(s, n) IN
           /\ r \in Seq(S) /\ Len(r) = Len(s) - 1
           /\ \A k \in 1 .. Len(s) - 1 : r[k] = IF k < n THEN s[k] ELSE s[k + 1]
<1> DEFINE front == SubSeq(s, 1, n - 1)
           back  == SubSeq(s, n + 1, Len(s))
<1>1. /\ front \in Seq(S) /\ Len(front) = n - 1
      /\ \A k \in 1 .. n - 1 : front[k] = s[k]
  OBVIOUS
<1>2. /\ back \in Seq(S) /\ Len(back) = Len(s) - n
      /\ \A k \in 1 .. Len(s) - n : back[k] = s[n + k]
  OBVIOUS
<1> HIDE DEF front, back
<1>3. RemoveAt(s, n) = front \o back
  BY DEF RemoveAt, front, back
<1>4. front \o back \in Seq(S) /\ Len(front \o back) = Len(s) - 1
  BY <1>1, <1>2
<1>5. ASSUME NEW k \in 1 .. Len(s) - 1
      PROVE  (front \o back)[k] = IF k < n THEN s[k] ELSE s[k + 1]
  <2>1. (front \o back)[k] = IF k <= n - 1 THEN front[k] ELSE back[k - (n - 1)]
    BY <1>1, <1>2
  <2> QED
    BY <1>1, <1>2, <2>1
<1> QED
  BY <1>3, <1>4, <1>5

=============================================================================
