---------------------------- MODULE MCModuleTable ----------------------------
(***************************************************************************)
(* Three parts of the loader, and the memory that its fault handler serves, *)
(* one of them at work in each behaviour:                                   *)
(*  - programs with up to three libraries;                                  *)
(*  - two threads with an LDT of nine slots, where two threads that meet    *)
(*    inside lxAllocSegment are not followed further;                       *)
(*  - small images: a byte has four values, a tile and an NE segment 16     *)
(*    bytes, a page 8;                                                      *)
(*  - two threads on a TLS page of three slots, with blocks of one and two, *)
(*    so that one can be asked for at every distance from the page's end,   *)
(*    and of three, which is one too large.                                 *)
(***************************************************************************)
EXTENDS ModuleTable, Segments, Image, ThreadLocalMem

CONSTANTS t1, t2
VARIABLE part

Lists == {<<"b">>, <<"b", "c">>, <<"c", "b">>}

(* a, b and c import each other in every way the lists allow, circles       *)
(* included; at most one file is no good.                                   *)
Disks ==
    {[exe |-> x, files |-> fs, native |-> n,
      imports |-> [f \in fs |-> CASE f = "a" -> la [] f = "b" -> lb [] f = "c" -> lc],
      fails |-> [f \in fs \cup {"exe"} |-> IF f = bad THEN how ELSE "never"]] :
        x \in {<<"a">>, <<"c", "a">>},
        fs \in {{"a", "b", "c"}, {"a", "b"}}, n \in {{"c"}, {"b"}},
        la \in Lists, lb \in {<<>>, <<"c", "a">>}, lc \in {<<>>, <<"b">>},
        bad \in {"none", "exe", "b"}, how \in {"early", "late"}}

(* Two pieces of memory besides the segments, in tiles of their own. *)
Pieces == {[tile |-> 9, kind |-> "object"], [tile |-> 10, kind |-> "memory"]}

(* Images. *)
Segs == [t \in 0 .. 15 |-> IF t = 0 THEN 3 ELSE IF t = 3 THEN 0 ELSE t]
Tiles == <<14, 13, 12, 15, 11, 10>>

(* The data selectors alike or not. *)
HostSelectors == {[cs |-> 35, ss |-> s, ds |-> d, es |-> e] : s, d, e \in {43, 51}}

Export(o, n, a, al, h) == [ordinal |-> o, name |-> n, addr |-> a, aliased |-> al, holds |-> h]
Libs ==
    "native" :> [native |-> TRUE,
                 exports |-> <<Export(1, 1, 83, FALSE, 0), Export(2, 2, 97, TRUE, 107)>>]
 @@ "file"   :> [native |-> FALSE,
                 exports |-> <<Export(1, 1, 120, FALSE, 0), Export(3, 0, 122, FALSE, 0)>>]
 @@ "file16" :> [native |-> FALSE, exports |-> <<Export(1, 1, 150, TRUE, 66)>>]

(* Pages to unpack: a token of every kind, in every order. *)
Lit(s)       == [op |-> "copy", lit |-> s, dist |-> 0, len |-> 0]
Copy(s, d, n) == [op |-> "copy", lit |-> s, dist |-> d, len |-> n]
Fill(v, n)   == [op |-> "fill", lit |-> <<>>, value |-> v, len |-> n, dist |-> 0]
Cut          == [op |-> "cut", lit |-> <<>>, dist |-> 0, len |-> 0]
Tokens == {Lit(<<1, 2>>), Lit(<<3>>), Fill(2, 3), Fill(1, 0), Copy(<<>>, 1, 3), Copy(<<>>, 2, 3),
           Copy(<<3>>, 2, 4), Copy(<<>>, 4, 2), Copy(<<1>>, 0, 1), Cut}
Part(at, kind, data) == [at |-> at, len |-> 8, kind |-> kind, data |-> data]
Image1(parts, al, bundles, names, fixups) ==
    [lx |-> TRUE, start |-> <<[eip_object |-> 1, eip |-> 5, esp_object |-> 2, esp |-> 8]>>, objects |-> <<32, 64>>,
     parts |-> parts, aliased |-> al, bundles |-> bundles, names |-> names, fixups |-> fixups]
Packed ==
    {Image1(<<Part(32, "exepack2", s)>>, {}, <<>>, <<>>, <<>>) :
        s \in {<<a, b, c>> : a, b, c \in Tokens}}
    \cup {Image1(<<Part(32, kind, data)>>, {}, <<>>, <<>>, <<>>) :
        kind \in {"iterated"}, data \in {<<>>, <<[times |-> 2, data |-> <<1, 2, 3>>]>>,
            <<[times |-> 3, data |-> <<1, 2>>], [times |-> 1, data |-> <<3>>]>>,
            <<[times |-> 3, data |-> <<1, 2, 3>>]>>}}
    \cup {Image1(<<Part(32, "unknown", <<>>)>>, {}, <<>>, <<>>, <<>>)}

(* LX modules: an object of two pages, and one that has an alias. *)
Data == <<Part(32, "preload", <<1, 2, 3, 1, 2, 3, 1, 2>>), Part(40, "preload", <<3, 2>>),
          Part(64, "zero", <<>>)>>
Fix(page, type, al, t, plus, sources) ==
    [page |-> page, type |-> type, alias |-> al, by |-> t[1], of |-> t[2], key |-> t[3],
     plus |-> plus, sources |-> sources]
Plain == {<<"object", 32, 5>>, <<"object", 64, 3>>, <<"ordinal", "native", 1>>, <<"ordinal", "native", 7>>,
          <<"name", "file", 1>>, <<"name", "file", 9>>, <<"ordinal", "file", 3>>, <<"ordinal", "native", 8>>}
Bridges == {<<"object", 64, 3>>, <<"ordinal", "native", 2>>, <<"name", "native", 2>>,
            <<"ordinal", "native", 7>>, <<"name", "file", 9>>}
Whole == {<<"offset32", FALSE, t, p>> : t \in Plain, p \in {0, 2}}
         \cup {<<"self", FALSE, t, 0>> : t \in Plain}
         \cup {<<"ptr1616", TRUE, t, p>> : t \in Bridges, p \in {0, 1}}
Short == {<<"byte", FALSE, <<"object", 64, 3>>, 0>>, <<"offset16", FALSE, <<"object", 32, 5>>, 1>>,
          <<"selector", TRUE, <<"object", 64, 0>>, 0>>, <<"selector", TRUE, <<"ordinal", "native", 2>>, 0>>}
(* The first crosses from one page into the next. *)
Fixups ==
    {<<Fix(32, a[1], a[2], a[3], a[4], <<0, 6>>), Fix(64, b[1], b[2], b[3], b[4], <<1, 5>>),
       Fix(40, a[1], a[2], a[3], a[4], <<-2>>)>> : a \in Whole, b \in Short}
    \cup {<<Fix(64, "ptr1632", c[1], c[2], 1, <<1>>), Fix(32, "self", FALSE, d, 0, <<2>>)>> :
            c \in {TRUE} \X Bridges \cup {FALSE} \X Plain, d \in Plain}
(* Modules that lack so many entries that one page of code is not enough. *)
Lacking ==
    {<<Fix(32, a, al, <<"ordinal", "native", 7>>, 0, <<0>>), Fix(32, b, bl, <<"ordinal", "native", 8>>, 0, <<4>>),
       Fix(40, a, al, <<"name", "native", 8>>, 0, <<0>>), Fix(40, b, bl, <<"ordinal", "file", 8>>, 0, <<4>>),
       Fix(64, a, al, <<"ordinal", "file16", 7>>, 0, <<0, 4>>)>> :
        <<a, al>> \in {<<"ptr1616", TRUE>>, <<"self", FALSE>>}, <<b, bl>> \in {<<"ptr1616", TRUE>>, <<"offset32", FALSE>>}}
Relocated == {Image1(Data, {4}, <<>>, <<>>, f) : f \in Fixups \cup Lacking}

(* NE modules: two segments of 16 bytes, the first with a chain that starts *)
(* at 0, and entries of its own.                                            *)
Bundle(type, entries) == [type |-> type, entries |-> entries]
Entries == {<<Bundle("fixed", <<50, 53>>), Bundle("unused", <<0>>), Bundle("movable", <<52, 60>>)>>,
            <<Bundle("unused", <<0, 0, 0, 0>>), Bundle("movable", <<58>>)>>}
Seg(at, data) == [at |-> at, len |-> 16, kind |-> "preload", data |-> data]
NeFix(size, type, t, adds, start) ==
    [at |-> 32, size |-> size, type |-> type, by |-> t[1], of |-> t[2], key |-> t[3],
     adds |-> adds, start |-> start]
NeTargets == {<<"segment", 48, 6>>, <<"movable", "self", 4>>, <<"movable", "self", 5>>, <<"ordinal", "native", 1>>,
              <<"ordinal", "native", 2>>, <<"name", "native", 2>>, <<"ordinal", "native", 9>>,
              <<"ordinal", "file", 3>>, <<"name", "file", 5>>}
(* 0 -> 4 -> 8 -> the end, and something to add to behind that. *)
Chain == <<0, 1, 1, 2, 0, 2, 2, 1, 3, 3, 2, 3, 1, 3>>
(* Code in the first segment, data and stack in the second, as usual. *)
Starting == <<[cs |-> 1, ip |-> 2, ss |-> 2, sp |-> 0, auto |-> 2, stack |-> 6, cmd |-> 85, sizes |-> <<14, 4, 9>>]>>
Types == {"byte", "segment", "far", "offset"}
Segmented(sizes, targets) ==
    {[lx |-> FALSE, start |-> Starting, aliased |-> {}, bundles |-> e,
      names |-> <<[name |-> 9, ordinal |-> 0], [name |-> 4, ordinal |-> 4]>>,
      parts |-> <<Seg(32, Chain), Seg(48, <<1, 3>>)>>,
      fixups |-> <<NeFix(size, ty[1], t, FALSE, 0),
                   NeFix(size, ty[2], u, TRUE, IF ty[1] = "far" THEN 12 ELSE 10)>>] :
        e \in Entries, size \in sizes, ty \in (Types \X Types) \ {<<"far", "far">>},
        t \in targets, u \in {<<"segment", 48, 6>>, <<"ordinal", "native", 2>>}}

Good == Packed \cup Relocated \cup Segmented({14}, NeTargets)

(* What touches the TLS page: the forms the handler decodes, and of each of *)
(* the others one opcode at least, as the handler adds the same to EIP      *)
(* whatever the address.                                                    *)
Touch(op, form) == [op |-> op, form |-> form]
Touches == {Touch("imm", "plain"), Touch("store", "plain"), Touch("load", "plain"),
            Touch("other", "plain"), Touch("imm", "sib"), Touch("load", "addr"),
            Touch("store", "disp8"), Touch("load", "disp32")}

mcVars == <<part, vars, segVars, imgVars, tlsVars>>

OneOf(S) == {CHOOSE x \in S : TRUE}

MCInit ==
    /\ part \in {"modules", "segments", "image", "tls"}
    /\ world \in IF part = "modules" THEN Worlds ELSE OneOf(Worlds)
    /\ image \in IF part = "image" THEN Images ELSE OneOf(Images)
    /\ Init /\ SegInit /\ ImgInit /\ TlsInit

MCNext ==
    \/ part = "modules" /\ Next /\ UNCHANGED <<part, segVars, imgVars, tlsVars>>
    \/ part = "segments" /\ ~overlapped /\ SegNext /\ UNCHANGED <<part, vars, imgVars, tlsVars>>
    \/ part = "image" /\ ImgNext /\ UNCHANGED <<part, vars, segVars, tlsVars>>
    \/ part = "tls" /\ TlsNext /\ UNCHANGED <<part, vars, segVars, imgVars>>

MCSpec == MCInit /\ [][MCNext]_mcVars
=============================================================================
