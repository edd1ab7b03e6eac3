------------------------------ MODULE MCFiles ------------------------------
(* The table of handles, the search of a directory and the walk in a tree of *)
(* directories share no variable: a behaviour is one of the three.           *)
EXTENDS HandleTable, DirSearch, Paths

CONSTANTS t1, t2, f1
VARIABLE part

Request(access, new, old, sized) ==
    [access |-> access, new |-> new, old |-> old, sized |-> sized]

(* One of each outcome of doDosOpen: a plain open, a create, an exclusive   *)
(* create, a probe that must not find the file, one that is refused.        *)
Plain     == Request("readonly", "fail", "open", FALSE)
Creating  == Request("readwrite", "create", "open", FALSE)
Exclusive == Request("readwrite", "create", "fail", FALSE)
Probe     == Request("readonly", "fail", "fail", FALSE)
Replace   == Request("readwrite", "create", "replace", FALSE)
BadProbe  == Request("readonly", "fail", "open", TRUE)
SizedReplace == Request("readwrite", "create", "replace", TRUE)
SizedCreate  == Request("readwrite", "create", "open", TRUE)

EveryRequest == {Plain, Creating, Exclusive, Probe, Replace, BadProbe, SizedCreate, SizedReplace}
SoundRequests == EveryRequest \ {SizedReplace}

Program(threads, requests, increments, targets) ==
    [threads |-> threads, requests |-> requests, increments |-> increments, targets |-> targets]

(* Two threads that open for all but an exclusive create and a probe, and   *)
(* one thread that makes every request and duplicates onto handles of its   *)
(* choice.                                                                  *)
(* Neither grows the table with DosSetRelMaxFH, which forgets open handles. *)
SoundPrograms == {Program({t1, t2}, SoundRequests \ {Exclusive, Probe}, {0}, {0}),
                  Program({t1}, SoundRequests, {0}, {0, 1, 2})}

SizedOpens == {Program({t1}, EveryRequest, {0}, {0})}

Symm == Permutations(Thread)

Directory == << [name |-> <<".">>, kind |-> "dir", ro |-> FALSE],
                [name |-> <<"a", ".", "b">>, kind |-> "file", ro |-> FALSE],
                [name |-> <<"b", "a">>, kind |-> "other", ro |-> FALSE],
                [name |-> <<"A", ".", "b">>, kind |-> "file", ro |-> TRUE] >>

Queries == { [pattern |-> <<"*", ".", "*">>, attr |-> [must |-> {}, may |-> {"ro", "dir"}]],
             [pattern |-> <<"a", "?", "B">>, attr |-> [must |-> {}, may |-> {}]],
             [pattern |-> <<"*", "b">>, attr |-> [must |-> {"ro"}, may |-> {"ro"}]] }

Calls == { <<0, 1>>, <<2, 1>>, <<2, 2>> }

LowerCase == [e \in {"sub", "SUB", "f", "F", "m", "M"} |->
    CASE e \in {"SUB", "sub"} -> "sub" [] e \in {"F", "f"} -> "f" [] OTHER -> "m"]

Tree == [p \in {<<>>, <<"m">>, <<"n">>, <<"m", "sub">>, <<"m", "sub", "f">>, <<"n", "f">>} |->
    IF p # <<>> /\ Last(p) = "f" THEN "file" ELSE "dir"]

Starts == { <<"m", "sub">>, <<"n">> }

Line(d, v) == [drive |-> d, val |-> v]
Configs == { <<>>,
             <<Line(1, <<"m">>), Line(2, <<>>)>>,
             <<Line(3, <<"m">>), Line(1, <<>>), Line(4, <<"n">>)>>,
             <<Line(3, <<>>), Line(3, <<"m", "sub", "f">>), Line(4, <<"n">>), Line(4, Null)>> }

Arg(d, a, e) == [drive |-> d, abs |-> a, elems |-> e]
Args == { Arg(0, FALSE, <<"SUB">>), Arg(0, FALSE, <<"..">>), Arg(3, FALSE, <<>>),
          Arg(0, TRUE, <<>>), Arg(0, TRUE, <<"SUB", "..", "sub">>), Arg(0, FALSE, <<"F">>),
          Arg(0, FALSE, <<"f", "">>), Arg(0, TRUE, <<"M">>) }

MCInit ==
    /\ part \in {"handles", "search", "paths"}
    /\ Init /\ SearchInit /\ PathInit
    \* one of the starts is enough where it is no matter
    /\ part # "handles" => program = CHOOSE p \in Programs : TRUE
    /\ part # "paths" => current_dir = [d \in Drive |-> IF d = 3 THEN <<"n">> ELSE Null]

(* A walk or a search may come to an end; calls that use handles may not.    *)
Over == part # "handles" /\ UNCHANGED <<part, vars, searchVars, pathVars>>

MCNext ==
    \/ Over
    \/ part = "handles" /\ Next /\ UNCHANGED <<part, searchVars, pathVars>>
    \/ part = "search" /\ SearchNext /\ UNCHANGED <<part, vars, pathVars>>
    \/ part = "paths"  /\ PathNext /\ UNCHANGED <<part, vars, searchVars>>

MCSpec == MCInit /\ [][MCNext]_<<part, vars, searchVars, pathVars>>
=============================================================================
