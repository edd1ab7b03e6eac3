-------------------------------- MODULE Image --------------------------------
(***************************************************************************)
(* What lx_loader.c makes of the contents of a module: pages and segments   *)
(* are unpacked, exports and their names listed, and fixups applied, of LX  *)
(* modules (loadLxModule, fixupPage) and of NE modules (loadNeModule,       *)
(* fixupNeSegment), with code made up for entries that do not exist.        *)
(*                                                                          *)
(* A byte is a digit to the base ByteBase: Half and Full stand for 2^16 and *)
(* 2^32.  Addresses are below Full, a tile is Half bytes.  The image is     *)
(* read already: a packed page is the sequence of its tokens, a table the   *)
(* sequence of its entries, a name a number (0: none).                      *)
(***************************************************************************)
EXTENDS Integers, SequencesExt, FiniteSetsExt

CONSTANTS ByteBase,   \* 256
          PageSize,   \* of an LX module and of the machine
          SegmentOf,  \* tile -> what lxConvert32to1616 puts above the offset in it
          FreeTiles,  \* tiles for made-up code, in the order they are mapped
          Hosts,      \* selectors the loader itself may run with: [cs, ss, ds, es]
          Images,     \* modules there may be, see Init
          Library     \* what they import from, see GetProc

Half == ByteBase * ByteBase
Full == Half * Half

ASSUME ImageAssumption ==
    /\ ByteBase \in Nat /\ ByteBase > 1 /\ PageSize \in 1 .. Half
    /\ DOMAIN SegmentOf = 0 .. Half - 1
    /\ \A t, u \in 0 .. Half - 1 : SegmentOf[t] = SegmentOf[u] => t = u
    /\ Hosts \subseteq [cs : Nat, ss : Nat, ds : Nat, es : Nat]

(* Code for a missing entry fits into a page, and there is memory for more  *)
(* (mmap and the assertion on lxAllocSegment).                              *)
ASSUME MissingAssumption ==
    /\ PageSize >= 5 /\ Half >= 7
    /\ FreeTiles \in Seq(1 .. Half - 1)
    /\ \A i, j \in DOMAIN FreeTiles : FreeTiles[i] = FreeTiles[j] => i = j
    /\ \A m \in Images : Len(m.fixups) \in 0 .. Len(FreeTiles)

VARIABLES image,    \* the module that is loaded
          loaded,   \* how many of its parts are in memory
          mem,      \* address -> byte, of what is in memory
          exports,  \* [ordinal, name, addr, tile, aliased]
          fixed,    \* how many of its fixups are done
          made,     \* code for missing entries: [at, size, module, entry]
          room,     \* the page it is made in, of each kind: [at, used]
          regs,     \* registers the program starts with
          outcome   \* "loading", "loaded", "refused" or "crashed"

imgVars == <<image, loaded, mem, exports, fixed, made, room, regs, outcome>>

(* parts: [at, len, kind, data]; bundles: [type, entries]; names:           *)
(* [name, ordinal]; fixups: see FixLx and FixNe.                            *)
ImgInit ==
    /\ image \in Images
    /\ loaded = 0 /\ fixed = 0
    /\ mem = [a \in {} |-> 0]
    /\ exports = <<>> /\ made = <<>>
    /\ room = [bits \in {16, 32} |-> [at |-> 0, used |-> Half]]
    /\ regs = <<>>
    /\ outcome = "loading"

Tile(a) == a \div Half
Base(t) == t * Half
Far(a)  == SegmentOf[Tile(a)] * Half + (a % Half)
TileOf(segment) == CHOOSE t \in DOMAIN SegmentOf : SegmentOf[t] = segment

Byte(v, k) == (v \div ByteBase ^ k) % ByteBase
Put(m, at, v, size) ==
    [a \in DOMAIN m |-> IF a \in at .. at + size - 1 THEN Byte(v, a - at) ELSE m[a]]
Read(m, at, size) == MapThenSumSet(LAMBDA k : m[at + k] * ByteBase ^ k, 0 .. size - 1)

-----------------------------------------------------------------------------
(* Unpacking.                                                               *)

Padded(bytes, len) == bytes \o [i \in 1 .. len - Len(bytes) |-> 0]
NotUnpacked == <<-1>>

(* decompressIterated: [times, data] until the data ends.                   *)
DecompressIterated(blocks, len) ==
    LET Block(out, b) ==
            IF out = NotUnpacked \/ Len(out) + b.times * Len(b.data) > len THEN NotUnpacked
            ELSE out \o FlattenSeq([i \in 1 .. b.times |-> b.data])
        out == FoldLeft(Block, <<>>, blocks)
    IN  IF out = NotUnpacked THEN out ELSE Padded(out, len)

(* linearmove: byte by byte, so that it reads what it has just written.     *)
LinearMove(out, dist, len) ==
    FoldLeft(LAMBDA o, i : Append(o, IF dist = 0 THEN 0 ELSE o[Len(o) + 1 - dist]),
             out, [i \in 1 .. len |-> i])

(* decompressExePack2: fills, literals (with len 0), and copies from `dist` *)
(* back that literals may precede; an empty fill does nothing; data that is *)
(* cut off in a token ("cut") is refused.  It stops at the end of the page. *)
DecompressExePack2(tokens, len) ==
    LET Token(out, t) ==
            CASE out = NotUnpacked \/ Len(out) >= len -> out
              [] t.op = "cut" -> NotUnpacked
              [] t.op = "fill" ->
                   IF Len(out) + t.len > len THEN NotUnpacked
                   ELSE out \o [i \in 1 .. t.len |-> t.value]
              [] OTHER ->
                   IF Len(out) + Len(t.lit) + t.len > len \/ Len(out) + Len(t.lit) < t.dist
                   THEN NotUnpacked
                   ELSE LinearMove(out \o t.lit, t.dist, t.len)
        out == FoldLeft(Token, <<>>, tokens)
    IN  IF out = NotUnpacked THEN out ELSE Padded(out, len)

(* The kinds of a page of an LX object or a segment of an NE module.        *)
Contents(p) ==
    CASE p.kind = "preload"  -> Padded(p.data, p.len)
      [] p.kind = "iterated" -> DecompressIterated(p.data, p.len)
      [] p.kind = "zero"     -> Padded(<<>>, p.len)
      [] p.kind = "exepack2" -> DecompressExePack2(p.data, p.len)
      [] OTHER               -> NotUnpacked

(* The pages of the objects of an LX module, or the segments of an NE one.  *)
LoadPart ==
    /\ outcome = "loading" /\ loaded < Len(image.parts)
    /\ LET p == image.parts[loaded + 1]
           bytes == Contents(p)
       IN  IF bytes = NotUnpacked
           THEN outcome' = "refused" /\ UNCHANGED <<loaded, mem>>
           ELSE /\ mem' = [a \in DOMAIN mem \cup p.at .. p.at + p.len - 1 |->
                             IF a \in DOMAIN mem THEN mem[a] ELSE bytes[a - p.at + 1]]
                /\ loaded' = loaded + 1
                /\ UNCHANGED outcome
    /\ UNCHANGED <<image, exports, fixed, made, room, regs>>

-----------------------------------------------------------------------------
(* Exports.                                                                 *)

(* The entry table: bundles of consecutive ordinals, unused ones included.  *)
Numbered(bundles) ==
    FoldLeft(LAMBDA s, b :
                [next |-> s.next + Len(b.entries),
                 list |-> IF b.type = "unused" THEN s.list
                          ELSE s.list \o [i \in DOMAIN b.entries |->
                                [ordinal |-> s.next + i - 1, name |-> 0, addr |-> b.entries[i]]]],
             [next |-> 1, list |-> <<>>], bundles).list

(* loadLxNameTable: a name for the export of that ordinal; 0 is the module. *)
Named(list, names) ==
    FoldLeft(LAMBDA l, n :
                LET which == {i \in DOMAIN l : l[i].ordinal = n.ordinal}
                IN  IF n.ordinal = 0 \/ which = {} THEN l ELSE [l EXCEPT ![Min(which)].name = n.name],
             list, names)

SetUpExports ==
    /\ outcome = "loading" /\ loaded = Len(image.parts) /\ fixed = 0 /\ exports = <<>>
    /\ image.bundles # <<>>
    /\ IF \E i \in DOMAIN image.bundles : image.bundles[i].type = "forwarder"
       THEN outcome' = "refused" /\ UNCHANGED exports
       ELSE /\ exports' = Named(Numbered(image.bundles), image.names)
            /\ UNCHANGED outcome
    /\ UNCHANGED <<image, loaded, mem, fixed, made, room, regs>>

-----------------------------------------------------------------------------
(* Code for what is missing, and the lookup of an entry.                    *)

CodeSize(bits)  == IF bits = 32 THEN 4 ELSE 6     \* rounded up
SpaceKept(bits) == IF bits = 32 THEN 5 ELSE 7     \* 32 and 64 in the code
PageOf(bits)    == IF bits = 32 THEN PageSize ELSE Half

(* A new page, from mmap or lxAllocSegment.                                 *)
NewPage ==
    LET used == {Tile(made[i].at) : i \in DOMAIN made}
    IN  [at |-> Base(FreeTiles[Min({i \in DOMAIN FreeTiles : FreeTiles[i] \notin used})]), used |-> 0]

(* generateMissingTrampoline and generateMissingTrampoline16.               *)
TrampolineWithoutCheck(bits, module, entry) ==
    LET r == room[bits]
        page == IF r.at = 0 THEN NewPage ELSE r
    IN  [code |-> [at |-> page.at + page.used, size |-> CodeSize(bits), bits |-> bits,
                   module |-> module, entry |-> entry],
         room |-> [page EXCEPT !.used = @ + CodeSize(bits)]]

Trampoline(bits, module, entry) ==
    LET r == room[bits]
        page == IF r.at = 0 \/ PageOf(bits) - r.used < SpaceKept(bits) THEN NewPage ELSE r
    IN  [code |-> [at |-> page.at + page.used, size |-> CodeSize(bits), bits |-> bits,
                   module |-> module, entry |-> entry],
         room |-> [page EXCEPT !.used = @ + CodeSize(bits)]]

(* What 16-bit code for a missing entry does, called on the stack ss:sp: it *)
(* goes on as 32-bit code of the loader, on the same stack, and names the   *)
(* entry.  CX takes a selector only where it must differ from the last one. *)
RunTrampoline(host, c, ss, sp) ==
    LET forDs == IF host.ss # host.ds THEN host.ds ELSE host.ss
        forEs == IF host.es # host.ds THEN host.es ELSE forDs
    IN  [cs |-> host.cs, ss |-> host.ss, ds |-> forDs, es |-> forEs,
         esp |-> Base(TileOf(ss)) + sp, names |-> <<c.module, c.entry>>]

NoTile == -1

(* getModuleProcAddrByOrdinal and getModuleProcAddrByName: the address, the *)
(* tile of the object when it has an alias, and made-up code if need be.    *)
(* `holds` is the word at the address; a name is compared to every name on  *)
(* the way, and an export without one is a null pointer.                    *)
Matches(list, by, key) ==
    {i \in DOMAIN list : IF by = "name" THEN list[i].name = key ELSE list[i].ordinal = key}
Strcmps(list, by, key) ==
    LET m == Matches(list, by, key) IN
    IF by # "name" THEN {} ELSE IF m = {} THEN DOMAIN list ELSE 1 .. Min(m)

GetProc(list, module, by, key, want16, native) ==
    LET found == Matches(list, by, key)
        e == list[Min(found)]
        t == Trampoline(IF want16 THEN 16 ELSE 32, module, key)
    IN  CASE \E i \in Strcmps(list, by, key) : list[i].name = 0 ->
               [crash |-> TRUE, addr |-> 0, tile |-> NoTile, new |-> <<>>]
          [] found # {} ->
               [crash |-> FALSE, addr |-> IF native /\ e.aliased THEN e.holds ELSE e.addr,
                tile |-> IF e.aliased THEN Tile(e.addr) ELSE NoTile, new |-> <<>>]
          [] OTHER ->
               [crash |-> FALSE, addr |-> t.code.at,
                tile |-> IF want16 THEN Tile(t.code.at) ELSE NoTile, new |-> <<t>>]

-----------------------------------------------------------------------------
(* Fixups of an LX module: [page, type, alias, by, of, key, plus, sources], *)
(* the target by "object" (key: the offset in it), "ordinal" or "name", and *)
(* offsets from the page where it goes: an address that crosses two pages   *)
(* is listed with both, with a negative offset in the second.               *)

FinalSize(type) ==
    CASE type = "byte"                     -> 1
      [] type \in {"selector", "offset16"} -> 2
      [] type = "ptr1632"                  -> 6
      [] OTHER                             -> 4

(* The value, and the selector of a 16:32 pointer; `home` is the tile of    *)
(* the object when there is an alias to it.                                 *)
FinalValue(f, addr, home) ==
    CASE ~f.alias              -> [val |-> addr, val2 |-> SegmentOf[0]]
      [] f.alias /\ home = NoTile -> [val |-> IF f.by = "object" THEN 0 ELSE addr, val2 |-> SegmentOf[0]]
      [] f.type = "selector"   -> [val |-> SegmentOf[home], val2 |-> 0]
      [] f.type = "ptr1616"    -> [val |-> SegmentOf[home] * Half + (addr - Base(home)), val2 |-> 0]
      [] OTHER                 -> [val |-> addr - Base(home), val2 |-> SegmentOf[home]]

(* doFixup.                                                                 *)
DoFixup(m, f, offset, v) ==
    LET at == f.page + offset
        val == IF f.type = "self" THEN (v.val - (f.page + offset + 4) + Full) % Full ELSE v.val
    IN  IF FinalSize(f.type) = 6 THEN Put(Put(m, at, val, 4), at + 4, v.val2, 2)
        ELSE Put(m, at, val, FinalSize(f.type))

(* The value, with what the record adds to it, goes to every offset listed. *)
Apply(m, f, v) ==
    LET w == [v EXCEPT !.val = (@ + f.plus) % Full]
    IN  FoldLeft(LAMBDA n, o : DoFixup(n, f, o, w), m, f.sources)

(* A record of fixupPage.                                                   *)
FixLx(f) ==
    LET own == [crash |-> FALSE, addr |-> f.of + f.key, new |-> <<>>,
                tile |-> IF Tile(f.of) \in image.aliased THEN Tile(f.of) ELSE NoTile]
        p == IF f.by = "object" THEN own
             ELSE GetProc(Library[f.of].exports, f.of, f.by, f.key, f.alias, TRUE)
    IN  [crash |-> p.crash, new |-> p.new, mem |-> Apply(mem, f, FinalValue(f, p.addr, p.tile))]

-----------------------------------------------------------------------------
(* Fixups of an NE segment: [at, size, type, by, of, key, adds, start], the *)
(* size as the segment table has it, and the target by "segment", by an     *)
(* ordinal of its own ("movable"), or by "ordinal" or "name".               *)

NeTarget(f) ==
    CASE f.by = "segment" -> [crash |-> FALSE, addr |-> f.of + f.key, new |-> <<>>]
      [] f.by = "movable" ->
           GetProc([i \in DOMAIN exports |-> exports[i] @@ [aliased |-> TRUE, holds |-> 0]],
                   "self", "ordinal", f.key, TRUE, FALSE)
      [] OTHER -> GetProc(Library[f.of].exports, f.of, f.by, f.key, TRUE, TRUE)

Store(m, at, type, target) ==
    CASE type = "byte"    -> Put(m, at, target % ByteBase, 1)
      [] type = "segment" -> Put(m, at, target \div Half, 2)
      [] type = "far"     -> Put(m, at, target, 4)
      [] OTHER            -> Put(m, at, target % Half, 2)

AddTo(m, at, type, target) ==
    CASE type = "byte"    -> Put(m, at, (m[at] + target) % ByteBase, 1)
      [] type = "segment" -> Put(m, at, (Read(m, at, 2) + target \div Half) % Half, 2)
      [] type = "far"     -> Put(Put(m, at, (Read(m, at, 2) + (target % Half)) % Half, 2),
                                 at + 2, (Read(m, at + 2, 2) + target \div Half) % Half, 2)
      [] OTHER            -> Put(m, at, (Read(m, at, 2) + (target % Half)) % Half, 2)

(* One link of the chain: where it goes on is read before it is overwritten.*)
LinkAfterStore(f, s, target) ==
    LET m == Store(s.mem, f.at + s.o, f.type, target)
    IN  IF s.o >= f.size THEN s ELSE [o |-> Read(m, f.at + s.o, 2), mem |-> m]

Link(f, s, target) ==
    IF s.o >= f.size THEN s
    ELSE [o |-> Read(s.mem, f.at + s.o, 2), mem |-> Store(s.mem, f.at + s.o, f.type, target)]

(* A chain has no more links than the segment has bytes.                    *)
FixNe(f) ==
    LET p == NeTarget(f)
        target == Far(p.addr)
    IN  [crash |-> p.crash, new |-> p.new,
         mem |-> IF f.adds THEN AddTo(mem, f.at + f.start, f.type, target)
                 ELSE FoldLeft(LAMBDA s, i : Link(f, s, target), [o |-> f.start, mem |-> mem],
                               [i \in 1 .. Half |-> i]).mem]

-----------------------------------------------------------------------------
ExportsDone == loaded = Len(image.parts) /\ (image.bundles = <<>> \/ exports # <<>>)

Fixup ==
    /\ outcome = "loading" /\ ExportsDone /\ fixed < Len(image.fixups)
    /\ LET f == image.fixups[fixed + 1]
           r == IF image.lx THEN FixLx(f) ELSE FixNe(f)
       IN  IF r.crash
           THEN outcome' = "crashed" /\ UNCHANGED <<mem, made, room, fixed>>
           ELSE /\ mem' = r.mem
                /\ made' = made \o [i \in DOMAIN r.new |-> r.new[i].code]
                /\ room' = IF r.new = <<>> THEN room ELSE [room EXCEPT ![r.new[1].code.bits] = r.new[1].room]
                /\ fixed' = fixed + 1
                /\ UNCHANGED outcome
    /\ UNCHANGED <<image, loaded, exports, regs>>

(* Where an LX program starts: an object and an offset in it, for each.     *)
LxRegisters(s) ==
    [eip |-> IF s.eip_object = 0 THEN s.eip ELSE image.objects[s.eip_object] + s.eip,
     esp |-> image.objects[s.esp_object] + s.esp]

(* runLxModule: the program is returned into, above what is for it to read. *)
RunLxModule(r, cmd, env) ==
    [eip |-> r.eip, esp |-> r.esp - 20, general |-> 0,
     pushed |-> <<"return", "module", 0, env, cmd>>]

(* The stack of an NE program, `sizes` being the segment table and what     *)
(* lies behind it.  SP 0 on the automatic data segment is taken from it.    *)
AutoDataSize(s) == IF s.auto = 0 THEN 0 ELSE s.sizes[s.auto + 1]
NeStack(s) ==
    LET auto == AutoDataSize(s)
        sp   == IF s.ss = s.auto /\ s.sp = 0 THEN (auto + s.stack) % Half ELSE s.sp
    IN  [top  |-> IF sp = 0 THEN Half - 1 ELSE sp,
         size |-> CASE s.stack # 0              -> s.stack
                    [] s.stack = 0 /\ sp # 0 /\ s.ss = s.auto -> (sp - auto + Half) % Half
                    [] OTHER                    -> sp]

(* runNeModule: what it pushes, and the registers it jumps with.            *)
NeRegisters(s) ==
    LET seg(i) == SegmentOf[Tile(image.parts[i].at)]
        stack  == NeStack(s)
        cmd    == Far(s.cmd)
    IN  [cs |-> seg(s.cs), ip |-> s.ip, ss |-> seg(s.ss), sp |-> (stack.top + Half - 12) % Half,
         pushed |-> <<cmd % Half, cmd \div Half, stack.top, seg(s.ss),
                      (stack.top - stack.size + Half) % Half, seg(s.ss)>>,
         ds |-> IF s.auto = 0 THEN seg(s.ss) ELSE seg(s.auto),
         ax |-> cmd \div Half, bx |-> cmd % Half, cx |-> AutoDataSize(s)]

(* What a library starts with is left out. *)
ImageLoaded ==
    /\ outcome = "loading" /\ ExportsDone /\ fixed = Len(image.fixups)
    /\ outcome' = "loaded"
    /\ regs' = IF image.start = <<>> THEN <<>>
               ELSE IF image.lx THEN RunLxModule(LxRegisters(image.start[1]), "cmd", "env") ELSE NeRegisters(image.start[1])
    /\ UNCHANGED <<image, loaded, mem, exports, fixed, made, room>>

ImgNext == LoadPart \/ SetUpExports \/ Fixup \/ ImageLoaded

ImgSpec == ImgInit /\ [][ImgNext]_imgVars

-----------------------------------------------------------------------------
(* Properties                                                               *)

(* What a page packed with exepack2 says, whatever overlaps: byte by byte,  *)
(* the value of a fill, a literal, the byte `dist` before, or 0 at the end. *)
Starts(tokens) ==
    [i \in 0 .. Len(tokens) |-> MapThenSumSet(LAMBDA j : Len(tokens[j].lit) + tokens[j].len, 1 .. i)]
PagesAreUnpacked ==
    \A i \in 1 .. loaded :
        LET p == image.parts[i]
            start == Starts(p.data)
            At(k) == Contents(p)[k]
        IN  p.kind = "exepack2" =>
              /\ Len(Contents(p)) = p.len
              /\ \A j \in DOMAIN p.data : start[j] <= p.len =>
                   LET t == p.data[j] IN
                   /\ \A k \in DOMAIN t.lit : At(start[j - 1] + k) = t.lit[k]
                   /\ \A k \in start[j - 1] + Len(t.lit) + 1 .. start[j] :
                        At(k) = IF t.op = "fill" THEN t.value ELSE IF t.dist = 0 THEN 0 ELSE At(k - t.dist)
              /\ \A k \in start[Len(p.data)] + 1 .. p.len : At(k) = 0

(* Where a fixup should lead, in an LX or an NE module: the export of that  *)
(* number or name, or code that was made for it.                            *)
OrdinalsOf(bundles) ==
    [o \in 1 .. MapThenSumSet(LAMBDA i : Len(bundles[i].entries), DOMAIN bundles) |->
        LET before(i) == MapThenSumSet(LAMBDA j : Len(bundles[j].entries), 1 .. i - 1)
            i == CHOOSE j \in DOMAIN bundles : o \in before(j) + 1 .. before(j) + Len(bundles[j].entries)
        IN  [used |-> bundles[i].type # "unused", addr |-> bundles[i].entries[o - before(i)]]]
Stubs(module, key) == {made[i].at : i \in {j \in DOMAIN made : made[j].module = module /\ made[j].entry = key}}
TargetsOf(f) ==
    CASE f.by \in {"object", "segment"} -> {f.of + f.key}
      [] f.by = "movable" ->
           LET own == OrdinalsOf(image.bundles) IN
           IF f.key \in DOMAIN own /\ own[f.key].used THEN {own[f.key].addr} ELSE Stubs("self", f.key)
      [] OTHER ->
           LET list == Library[f.of].exports
               found == Matches(list, f.by, f.key)
               e == list[Min(found)]
           IN  IF found = {} THEN Stubs(f.of, f.key)
               ELSE {IF Library[f.of].native /\ e.aliased THEN e.holds ELSE e.addr}

(* What the program reads at a place that was fixed up.                     *)
LeadsTo(at, type, target) ==
    LET w == Read(mem, at, 2) IN
    CASE type = "byte"     -> mem[at] = target % ByteBase
      [] type \in {"selector", "segment"} -> TileOf(w) = Tile(target)
      [] type \in {"offset16", "offset"}  -> w = target % Half
      [] type = "offset32" -> Read(mem, at, 4) = target
      [] type = "self"     -> (Read(mem, at, 4) + at + 4) % Full = target
      [] type = "ptr1632"  -> Base(TileOf(Read(mem, at + 4, 2))) + Read(mem, at, 4) = target
      [] OTHER             -> Base(TileOf(Read(mem, at + 2, 2))) + w = target

(* When an LX module is loaded, every place its fixups name leads to their  *)
(* target, also where it crosses two pages, and no other byte has changed.  *)
AsLoaded == [a \in DOMAIN mem |->
                LET p == CHOOSE q \in ToSet(image.parts) : a \in q.at .. q.at + q.len - 1
                IN  Contents(p)[a - p.at + 1]]
FixupsPointAtTheirTargets ==
    outcome = "loaded" /\ image.lx =>
        /\ \A i \in DOMAIN image.fixups : LET f == image.fixups[i] IN
              \A o \in ToSet(f.sources) : \E t \in TargetsOf(f) : LeadsTo(f.page + o, f.type, t + f.plus)
        /\ \A a \in DOMAIN mem : mem[a] # AsLoaded[a] =>
              \E i \in DOMAIN image.fixups : LET f == image.fixups[i] IN
                  \E o \in ToSet(f.sources) : a \in f.page + o .. f.page + o + FinalSize(f.type) - 1

(* The chain of a fixup, as the file has it: from link to link to FFFF.     *)
ChainOf(f) ==
    LET next(o) == Read(AsLoaded, f.at + o, 2)
        Reach(s, i) == s \cup {next(o) : o \in s \ {Half - 1}}
    IN  FoldLeft(Reach, {f.start}, [i \in 1 .. Half |-> i]) \ {Half - 1}

(* When an NE module is loaded, every place on the chain of a fixup leads   *)
(* to its target, or has had the target added to what was there, once.      *)
ChainsAreFollowed ==
    outcome = "loaded" /\ ~image.lx =>
        \A i \in DOMAIN image.fixups : LET f == image.fixups[i] IN
            IF f.adds
            THEN \E t \in TargetsOf(f) : LET m == AddTo(AsLoaded, f.at + f.start, f.type, Far(t)) IN
                    \A a \in f.at + f.start .. f.at + f.start + 3 : m[a] # AsLoaded[a] => mem[a] = m[a]
            ELSE \A o \in ChainOf(f) : \E t \in TargetsOf(f) : LeadsTo(f.at + o, f.type, t)

(* What is loaded is what the linker has put down: pages, fixups, chains.   *)
ImageIsAsLinked == PagesAreUnpacked /\ FixupsPointAtTheirTargets /\ ChainsAreFollowed

(* The code made for two missing entries never overlaps, and stays inside   *)
(* its page, so that each reports the entry it was made for.                *)
StubsAreWhole ==
    \A i, j \in DOMAIN made :
        /\ (made[i].at % Half) + made[i].size <= PageOf(made[i].bits)
        /\ i # j => made[i].at + made[i].size <= made[j].at \/ made[j].at + made[j].size <= made[i].at

(* A program that calls 16-bit code for a missing entry, on whatever stack, *)
(* gets into the loader with the loader's own selectors and on that stack.  *)
MissingEntryIsReported ==
    \A i \in DOMAIN made : made[i].bits = 16 =>
        \A host \in Hosts, t \in 1 .. Half - 1, sp \in 0 .. Half - 1 :
            LET r == RunTrampoline(host, made[i], SegmentOf[t], sp) IN
            /\ [cs |-> r.cs, ss |-> r.ss, ds |-> r.ds, es |-> r.es] = host
            /\ r.esp = Base(t) + sp
            /\ r.names = <<made[i].module, made[i].entry>>

(* Every missing entry a program calls is reported under its own name.      *)
MissingEntriesAreReported == StubsAreWhole /\ MissingEntryIsReported
=============================================================================
