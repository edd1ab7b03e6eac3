----------------------------- MODULE DirSearch -----------------------------
(***************************************************************************)
(* Directory searches, in native/doscalls.c: DosFindFirst, DosFindNext and  *)
(* DosFindClose with their DirFinder structures, and the 16-bit forms with  *)
(* the table hdir16 in front of them.                                       *)
(*                                                                          *)
(* One directory is searched while other processes delete files in it.  A   *)
(* buffer is measured in whole records of its level.  Calls that fail before *)
(* they touch a finder (a bad parameter, a path with no directory) change   *)
(* nothing and are left out, except where a finder has to be given back.    *)
(***************************************************************************)
EXTENDS Integers, Sequences, FiniteSets, SequencesExt

CONSTANTS NoFinder,
          Finder,     \* addresses malloc may return for a DirFinder
          NumHdir16,  \* size of hdir16, 10 in the code
          Entry,      \* the directory in readdir order
          Query,      \* what is searched for
          Asked       \* calls: <<records asked for, records the buffer has room for>>

Sys  == "GHDir1"      \* the one static DirFinder

Create == "HDIR_CREATE"

Char == {"a", "b", "A", "B", ".", "x"}
Bit  == {"ro", "hidden", "system", "archived", "dir"}

ASSUME FinderAssumption == {Sys, NoFinder, Create} \cap Finder = {} /\ NoFinder # Sys
ASSUME EntryAssumption ==
    Entry \in Seq([name : Seq(Char), kind : {"file", "dir", "other"}, ro : BOOLEAN])
ASSUME QueryAssumption ==
    Query \subseteq [pattern : Seq(Char \cup {"*", "?"}), attr : [must : SUBSET Bit, may : SUBSET Bit]]
ASSUME AskedAssumption == NumHdir16 \in Nat /\ Asked \subseteq Nat \X Nat

VARIABLES finder,     \* each DirFinder: free, or its fields
          hdir16,     \* slot of the 16-bit table -> DirFinder or NoFinder
          kept, held16, \* handles the program was given and has not closed
          gone,       \* entries that were deleted
          lost,       \* finders whose handle was dropped when hdir16 was full
          aborted,    \* the assertion in findNextSizeNeeded failed
          ended       \* what a search had delivered that has just come to its end

searchVars == <<finder, hdir16, kept, held16, gone, lost, aborted, ended>>

Vacant   == [life |-> "free"]
Zeroed == [life |-> "closed", at |-> 1, query |-> NoFinder, level |-> "none",
           got |-> <<>>, greedy |-> FALSE]
LowerChar  == [c \in Char |-> CASE c = "A" -> "a" [] c = "B" -> "b" [] OTHER -> c]

Slot == 0 .. NumHdir16 - 1
Allocated == {f \in Finder : finder[f].life # "free"}

SearchInit ==
    /\ finder = [f \in Finder \cup {Sys} |-> IF f = Sys THEN Zeroed ELSE Vacant]
    /\ hdir16 = [i \in Slot |-> NoFinder]
    /\ kept = {} /\ held16 = {}
    /\ gone = {} /\ lost = {}
    /\ aborted = FALSE
    /\ ended = NoFinder

-----------------------------------------------------------------------------
(* wildcardMatch: '*' runs to the first place the next pattern character is *)
(* found and never tries a later one; the first '.' of the pattern also     *)
(* matches the end of the name.  The loop stands at str[at[k]] when it comes *)
(* to the character k of the pattern.                                       *)
IsFirstDot(pat, k) == pat[k] = "." /\ \A i \in 1 .. k - 1 : pat[i] # "."

GoesOn(str, pat, k, j, next) ==
    LET past  == IF j > Len(str) THEN j ELSE j + 1
        stops == {n \in j .. Len(str) : k < Len(pat) /\ str[n] = pat[k + 1]}
    IN  CASE pat[k] = "?"       -> next = past
          [] IsFirstDot(pat, k) -> (j > Len(str) \/ str[j] = ".") /\ next = past
          [] pat[k] = "*"       -> next = Min(stops \cup {Len(str) + 1})
          [] OTHER              -> /\ j <= Len(str) /\ LowerChar[str[j]] = LowerChar[pat[k]]
                                   /\ next = past

WildcardMatch(str, pat) ==
    \E at \in [1 .. Len(pat) + 1 -> 1 .. Len(str) + 1] :
        /\ at[1] = 1 /\ at[Len(pat) + 1] = Len(str) + 1
        /\ \A k \in 1 .. Len(pat) : GoesOn(str, pat, k, at[k], at[k + 1])

(* The filter of findNextOne for the query q: attributes that mean nothing  *)
(* on Unix match nothing when they are required.  FILE_NORMAL stands for    *)
(* most of the may-have bits.                                               *)
MeantAsGiven(attr) == attr

Meant(attr) == IF attr.must = {} /\ attr.may = {}
               THEN [must |-> {}, may |-> {"ro", "hidden", "system", "archived"}]
               ELSE attr

Takes == [q \in Query |-> {i \in DOMAIN Entry :
    LET e == Entry[i]
        attr == Meant(q.attr)
    IN  /\ attr.must \cap {"hidden", "system", "archived"} = {}
        /\ WildcardMatch(e.name, q.pattern)
        /\ e.kind \in {"file", "dir"}
        /\ IF e.kind = "dir" THEN "dir" \in attr.may ELSE "dir" \notin attr.must
        /\ IF e.ro THEN "ro" \in attr.may ELSE "ro" \notin attr.must}]

(* The loop of findNext over findNextOne: up to count entries.  An entry    *)
(* that does not fit in what is left of the buffer is passed over for good. *)
(* fstatat fails on an entry that is gone.                                  *)
(* At the level of the 16-bit calls neither the buffer pointer nor the      *)
(* space left moves, and each record is written over the one before it.     *)
Batch(r, count, room) ==
    LET loop[n \in 0 .. count] ==
            IF n = 0 THEN [at |-> r.at, list |-> <<>>, room |-> room]
            ELSE LET b    == loop[n - 1]
                     more == {i \in b.at .. Len(Entry) : b.room > 0 /\ i \in Takes[r.query] \ gone}
                 IN  IF more = {} THEN [b EXCEPT !.at = Len(Entry) + 1]
                     ELSE IF r.level = "16bit"
                     THEN [at |-> Min(more) + 1, list |-> <<Min(more)>>, room |-> b.room]
                     ELSE [at |-> Min(more) + 1, list |-> Append(b.list, Min(more)), room |-> b.room - 1]
    IN  loop[count]

(* findNext on the DirFinder r: what becomes of it, and whether the answer  *)
(* is ERROR_NO_MORE_FILES.  greedy marks a search that once asked for more  *)
(* records than its buffer has room for.                                    *)
FindNext(r, count, room) ==
    LET b == Batch(r, count, room)
        over == b.list = <<>> /\ count > 0
    IN  IF r.life # "open" THEN [rec |-> r, over |-> TRUE]
        ELSE [over |-> over,
              rec  |-> [r EXCEPT !.life = IF over THEN "closed" ELSE "open",
                                 !.at = b.at, !.got = @ \o b.list,
                                 !.greedy = @ \/ count > room \/ (r.level = "16bit" /\ count > 1)]]

Outcome(r) == [query |-> r.query, got |-> r.got, greedy |-> r.greedy, gone |-> gone]

-----------------------------------------------------------------------------
(* The program keeps the handle.  Dos16FindFirst puts it in the first free   *)
(* slot; when there is none it reports an error and drops the handle.       *)
KeepHandle(f) == kept' = kept \cup {f} /\ UNCHANGED <<hdir16, held16, lost>>

KeepSlot(f) ==
    LET open == {j \in Slot : hdir16[j] = NoFinder}
        i == CHOOSE j \in open : \A k \in open : j <= k
    IN  /\ IF open = {}
           THEN lost' = lost \cup ({f} \ {Sys}) /\ UNCHANGED <<hdir16, held16>>
           ELSE /\ hdir16' = [hdir16 EXCEPT ![i] = f]
                /\ held16' = held16 \cup {i}
                /\ UNCHANGED lost
        /\ UNCHANGED kept

(* DosFindFirst with *phdir = h, at a level.                                *)
FindFirst(h, level) ==
    \E q \in Query, a \in Asked, f \in IF h = Create THEN Finder \ Allocated ELSE {h} :
        LET r == [life |-> "open", at |-> 1, query |-> q, level |-> level,
                  got |-> <<>>, greedy |-> FALSE]
            n == FindNext(r, a[1], a[2])
        IN  /\ ~aborted
            /\ IF n.over
               THEN /\ finder' = [finder EXCEPT ![f] = IF h = Create THEN Vacant ELSE n.rec]
                    /\ ended' = Outcome(n.rec)
                    /\ UNCHANGED <<hdir16, kept, held16, lost>>
               ELSE /\ finder' = [finder EXCEPT ![f] = n.rec]
                    /\ IF level = "16bit" THEN KeepSlot(f) ELSE KeepHandle(f)
                    /\ ended' = NoFinder
            /\ UNCHANGED <<gone, aborted>>

DosFindFirst == \E h \in {Sys, Create} \cup kept : FindFirst(h, "standard")

(* The word the program passes is taken for a handle of the 32-bit call:    *)
(* its own slot 1 is then the system's search.  (Slot 0 is refused.)        *)
Dos16FindFirst == \E h \in {Sys, Create} : FindFirst(h, "16bit")

(* DosFindNext; the level of a finder that was zeroed trips the assertion.  *)
Continue(f) ==
    \E a \in Asked :
        LET n == FindNext(finder[f], a[1], a[2]) IN
        /\ ~aborted
        /\ IF finder[f].level = "none"
           THEN aborted' = TRUE /\ ended' = NoFinder /\ UNCHANGED finder
           ELSE /\ finder' = [finder EXCEPT ![f] = n.rec]
                /\ ended' = IF n.over THEN Outcome(n.rec) ELSE NoFinder
                /\ UNCHANGED aborted
        /\ UNCHANGED <<hdir16, kept, held16, gone, lost>>

DosFindNext == \E f \in kept : Continue(f)
Dos16FindNext == \E i \in held16 : Continue(hdir16[i])

Close(f) ==
    /\ ~aborted
    /\ finder' = [finder EXCEPT ![f] = IF f = Sys THEN Zeroed ELSE Vacant]
    /\ ended' = NoFinder
    /\ UNCHANGED <<gone, lost, aborted>>

DosFindClose == \E f \in kept :
    Close(f) /\ kept' = kept \ {f} /\ UNCHANGED <<hdir16, held16>>

Close16KeepsSlot == \E i \in held16 :
    /\ Close(hdir16[i])
    /\ held16' = held16 \ {i}
    /\ UNCHANGED <<hdir16, kept>>

Dos16FindClose == \E i \in held16 :
    /\ Close(hdir16[i])
    /\ hdir16' = [hdir16 EXCEPT ![i] = NoFinder]
    /\ held16' = held16 \ {i}
    /\ UNCHANGED kept

(* Another process deletes a file.                                          *)
Unlink == \E i \in DOMAIN Entry \ gone :
    /\ Entry[i].kind = "file"
    /\ gone' = gone \cup {i}
    /\ ended' = NoFinder
    /\ UNCHANGED <<finder, hdir16, kept, held16, lost, aborted>>

SearchNext == \/ DosFindFirst \/ DosFindNext \/ DosFindClose
              \/ Dos16FindFirst \/ Dos16FindNext \/ Dos16FindClose
              \/ Unlink

SearchSpec == SearchInit /\ [][SearchNext]_searchVars

-----------------------------------------------------------------------------
(* What a name matches, said without an order of trying: the pattern cuts   *)
(* the name into pieces, one for each of its characters, and '*' has any.    *)
(* The first '.' of the pattern stands for the end of a name without a dot; *)
(* whether it may do so when the name has one (as in a.b for "???.") is       *)
(* said by lenient.                                                         *)
NoDot(name)  == "." \notin ToSet(name)
OneDot(name) == \A i, j \in DOMAIN name : name[i] = "." /\ name[j] = "." => i = j

Matches(str, pat, lenient) ==
    \E cut \in [1 .. Len(pat) + 1 -> 1 .. Len(str) + 1] :
        /\ cut[1] = 1 /\ cut[Len(pat) + 1] = Len(str) + 1
        /\ \A k \in 1 .. Len(pat) :
              \/ pat[k] = "*" /\ cut[k] <= cut[k + 1]
              \/ /\ cut[k + 1] = cut[k] + 1
                 /\ pat[k] = "?" \/ (pat[k] \in Char /\ LowerChar[pat[k]] = LowerChar[str[cut[k]]])
              \/ /\ cut[k] = Len(str) + 1 /\ cut[k + 1] = cut[k]
                 /\ pat[k] = "?" \/ (IsFirstDot(pat, k) /\ (NoDot(str) \/ lenient))

(* A pattern in which a '*' stands only before a '.' or at the end.         *)
Classic(pat) == \A i \in 1 .. Len(pat) - 1 : pat[i] = "*" => pat[i + 1] = "."

Attributes(e) == (IF e.ro THEN {"ro"} ELSE {}) \cup (IF e.kind = "dir" THEN {"dir"} ELSE {})

IsOfKind(e, attr) ==
    /\ e.kind \in {"file", "dir"}
    /\ attr.must \subseteq Attributes(e)
    /\ Attributes(e) \subseteq IF attr.must \cup attr.may = {} THEN {"ro"} ELSE attr.may

Allowed == [q \in Query |-> {i \in DOMAIN Entry :
    IsOfKind(Entry[i], q.attr) /\ Matches(Entry[i].name, q.pattern, TRUE)}]

Wanted == [q \in Query |-> {i \in DOMAIN Entry :
    /\ IsOfKind(Entry[i], q.attr) /\ Matches(Entry[i].name, q.pattern, FALSE)
    /\ Classic(q.pattern) /\ OneDot(Entry[i].name)}]

(* A search that has said "no more files" has delivered entries that match, *)
(* none twice and in the order of the directory; and if no call asked for   *)
(* more than its buffer holds it has delivered every one of the ordinary    *)
(* kind (a '*' before a dot or at the end, names with one dot) that is      *)
(* still there: findNextOne, findNext and wildcardMatch together.           *)
SearchDelivers ==
    ended # NoFinder =>
        /\ \A k \in DOMAIN ended.got : ended.got[k] \in Allowed[ended.query]
        /\ \A k \in 1 .. Len(ended.got) - 1 : ended.got[k] < ended.got[k + 1]
        /\ ~ended.greedy => Wanted[ended.query] \ ended.gone \subseteq ToSet(ended.got)

(* A DirFinder on the heap is behind exactly one handle of the program, *)
(* a 32-bit one or a slot of hdir16, and every handle has its DirFinder;    *)
(* only those whose handle was dropped for want of a slot are behind none.  *)
FindersAccountedFor ==
    /\ \A f \in Finder :
           Cardinality({i \in held16 : hdir16[i] = f}) + (IF f \in kept THEN 1 ELSE 0)
               = (IF f \in Allocated \ lost THEN 1 ELSE 0)
    /\ {i \in Slot : hdir16[i] # NoFinder} = held16
    /\ lost \subseteq Allocated
=============================================================================
