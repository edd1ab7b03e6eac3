------------------------------- MODULE Paths -------------------------------
(***************************************************************************)
(* Drives, paths and current directories: the mount points of 2ine.cfg and  *)
(* prepOs2Drives (lib2ine.c), lxMakeUnixPath with its search for a name in  *)
(* another case (lx_loader.c), and the calls of native/doscalls.c that      *)
(* move about in the tree, change it and ask about it.                      *)
(*                                                                          *)
(* A Unix path is the sequence of its elements, without symbolic links; an  *)
(* OS/2 path is [drive, abs, elems], drive 0 for none.  A separator at the  *)
(* end is a last element "".  Failures of malloc and of permissions are     *)
(* left out.                                                                *)
(***************************************************************************)
EXTENDS Integers, Sequences, FiniteSets, SequencesExt

CONSTANTS Null,
          NumDrives,  \* 26 in the code
          Lower,      \* each element in lower case, as strcasecmp sees it
          Tree0,      \* the file system at the start: path -> "dir" or "file"
          Cwd0,       \* directories the program may be started in
          Config,     \* what 2ine.cfg may hold: sequences of [drive, val], val Null for ""
          PathArg,    \* OS/2 paths the program uses
          TreeLimit   \* bound on the entries of the tree

VARIABLES tree, disks, current_dir, current_disk, diskmap,
          crashed,    \* readdir(NULL) in locateOneElement, or a read past current_dir
          went,       \* drive -> the directory the last chdir on it reached
          climbed     \* drives on which a ".." with nothing before it was dropped

pathVars == <<tree, disks, current_dir, current_disk, diskmap, crashed, went, climbed>>

Drive == 1 .. NumDrives
Named(seq) == SelectSeq(seq, LAMBDA e : e # "")

(* How the Unix kernel walks a path: Null when an element is missing or is  *)
(* looked for in something that is no directory.                            *)
Resolve(t, path) ==
    LET Walk(at, e) ==
            CASE at = Null \/ (at # Null /\ t[at] # "dir") -> Null
              [] e \in {"", "."} -> at
              [] e = ".." -> IF at = <<>> THEN at ELSE Front(at)
              [] OTHER -> IF Append(at, e) \in DOMAIN t THEN Append(at, e) ELSE Null
    IN  FoldLeft(Walk, <<>>, path)

IsDir(t, path) == Resolve(t, path) # Null /\ t[Resolve(t, path)] = "dir"

-----------------------------------------------------------------------------
(* cfgProcessMountPoint, for every line: the drive loses what it had before *)
(* the new value is looked at.                                              *)
Mounts(lines) ==
    LET Mount(d, line) ==
            IF line.drive \notin Drive THEN d
            ELSE [d EXCEPT ![line.drive] =
                     IF line.val # Null /\ IsDir(Tree0, line.val) THEN line.val ELSE Null]
    IN  FoldLeft(Mount, [i \in Drive |-> Null], lines)

(* The drive the loop of prepOs2Drives settles on.                          *)
Lowest(S) ==
    LET later == {i \in S : i >= 3}
        pool  == IF later = {} THEN S ELSE later
    IN  CASE S = {} -> 0
          [] later = {} -> CHOOSE i \in S : \A j \in S : j <= i
          [] OTHER -> CHOOSE i \in later : \A j \in later : i <= j

PathInit == \E lines \in Config, cwd \in Cwd0 :
    LET m       == Mounts(lines)
        mounted == {i \in Drive : m[i] # Null}
        above   == {i \in mounted : IsPrefix(m[i], cwd)}
        Below(i) == SubSeq(cwd, Len(m[i]) + 1, Len(cwd))
    IN  /\ tree = Tree0
        /\ diskmap = mounted
        /\ disks = IF mounted = {} THEN [m EXCEPT ![3] = <<>>] ELSE m
        /\ current_dir = [i \in Drive |-> CASE mounted = {} /\ i = 3 -> cwd
                                            [] i \in above -> Below(i)
                                            [] i \in mounted -> <<>>
                                            [] OTHER -> Null]
        /\ current_disk = CASE mounted = {} -> 3
                            [] above = {} -> Lowest(mounted)
                            [] OTHER -> Lowest(above)
        /\ went = [i \in Drive |-> IF i \in above \/ (mounted = {} /\ i = 3) THEN cwd ELSE disks[i]]
        /\ crashed = FALSE
        /\ climbed = {}

-----------------------------------------------------------------------------
(* Without a search for the name in another case.                           *)
LocateExactly(path) == [path |-> path, missing |-> Resolve(tree, path) = Null, crash |-> FALSE]

(* locatePathCaseInsensitive: the elements are put right one after the      *)
(* other, below the first; from a missing one on the path stays as it is.   *)
(* The result crash is the readdir of a directory that could not be opened. *)
Locate(path) ==
    LET Step(acc, e) ==
            LET dir  == Resolve(tree, acc.path)
                same == {n \in DOMAIN Lower : Append(dir, n) \in DOMAIN tree /\ Lower[n] = Lower[e]}
                with(n) == [acc EXCEPT !.path = Append(@, n)]
            IN  CASE acc.missing \/ acc.crash -> with(e)
                  [] Resolve(tree, Append(acc.path, e)) # Null -> with(e)
                  [] acc.path = <<>> -> [with(e) EXCEPT !.missing = TRUE]
                  [] tree[dir] # "dir" -> [with(e) EXCEPT !.crash = TRUE]
                  [] e \in DOMAIN Lower /\ same # {} -> with(CHOOSE n \in same : TRUE)
                  [] OTHER -> [with(e) EXCEPT !.missing = TRUE]
        start == [path |-> <<>>, missing |-> FALSE, crash |-> FALSE]
    IN  IF Resolve(tree, path) # Null THEN [start EXCEPT !.path = path]
        ELSE FoldLeft(Step, start, path)

DriveOf(arg) == IF arg.drive = 0 THEN current_disk ELSE arg.drive

(* lxMakeUnixPath; Null when the drive is not mounted (ERROR_NOT_DOS_DISK). *)
MakeUnixPath(arg) ==
    LET d     == DriveOf(arg)
        whole == disks[d] \o (IF arg.abs THEN <<>> ELSE current_dir[d]) \o arg.elems
        tail  == IF whole # <<>> /\ Last(whole) = "" THEN <<"">> ELSE <<>>
    IN  IF disks[d] = Null THEN Null ELSE Locate(Named(whole) \o tail)

(* What DosSetCurrentDir makes of the text: "." goes, ".." goes with the    *)
(* element before it, or alone when there is none.                          *)
NormaliseKeepingParent(text) == SelectSeq(text, LAMBDA e : e \notin {".", ".."})

Normalise(text) ==
    LET Put(acc, e) == CASE e = "." -> acc
                         [] e = ".." -> IF acc = <<>> THEN acc ELSE Front(acc)
                         [] OTHER -> Append(acc, e)
    IN  FoldLeft(Put, <<>>, text)

(* Whether Normalise drops a ".." that finds nothing before it.             *)
Climbs(text) ==
    \E k \in DOMAIN text : text[k] = ".." /\ Normalise(SubSeq(text, 1, k - 1)) = <<>>

(* Every call that takes a path: Do is what it does with the Unix path,     *)
(* Otherwise what an unmounted drive leaves.                                *)
UnixPath(arg) == MakeUnixPath(arg).path

WithPath(arg, Do, Otherwise) ==
    LET p == MakeUnixPath(arg) IN
    /\ ~crashed
    /\ CASE p = Null -> Otherwise
         [] p # Null /\ p.crash -> crashed' = TRUE
                          /\ UNCHANGED <<tree, current_dir, went, climbed>>
         [] OTHER -> Do /\ UNCHANGED crashed
    /\ UNCHANGED <<disks, current_disk, diskmap>>

Failed == UNCHANGED <<tree, current_dir, went, climbed, crashed>>

(* DosSetCurrentDir and Dos16ChDir.  "\" may end in a separator, "D:\" may   *)
(* not; "D:" adds an empty element to a current directory that has any.     *)
DosSetCurrentDir == \E arg \in PathArg :
    LET d    == DriveOf(arg)
        old  == IF arg.abs \/ current_dir[d] = Null THEN <<>> ELSE Named(current_dir[d])
        text == old \o Named(arg.elems) \o (IF arg.elems = <<>> /\ old # <<>> THEN <<"">> ELSE <<>>)
        path  == UnixPath(arg)
        Chdir ==
            /\ IF IsDir(tree, path)
               THEN /\ current_dir' = [current_dir EXCEPT ![d] = Normalise(text)]
                    /\ went' = [went EXCEPT ![d] = Resolve(tree, path)]
                    /\ climbed' = IF Climbs(text) \/ (~arg.abs /\ d \in climbed)
                                  THEN climbed \cup {d} ELSE climbed \ {d}
               ELSE UNCHANGED <<current_dir, went, climbed>>
            /\ UNCHANGED tree
        refused == \/ arg.elems # <<>> /\ Last(arg.elems) = ""
                   \/ arg.abs /\ arg.elems = <<>> /\ arg.drive # 0
    IN  IF refused THEN ~crashed /\ Failed /\ UNCHANGED <<disks, current_disk, diskmap>>
        ELSE WithPath(arg, Chdir, Failed)

(* mkdir, for DosCreateDir and Dos16MkDir.                                  *)
DosCreateDir == \E arg \in PathArg :
    LET path  == UnixPath(arg)
        Mkdir ==
            LET p   == IF path # <<>> /\ Last(path) = "" THEN Front(path) ELSE path
                new == Append(Resolve(tree, Front(p)), Last(p))
            IN  /\ IF /\ p # <<>> /\ Last(p) \notin {".", ".."}
                      /\ IsDir(tree, Front(p))
                      /\ new \notin DOMAIN tree
                      /\ Cardinality(DOMAIN tree) < TreeLimit
                   THEN tree' = [x \in DOMAIN tree \cup {new} |-> IF x = new THEN "dir" ELSE tree[x]]
                   ELSE UNCHANGED tree
                /\ UNCHANGED <<current_dir, went, climbed>>
    IN  WithPath(arg, Mkdir, Failed)

(* unlink, for DosDelete and Dos16Delete.                                   *)
DosDelete == \E arg \in PathArg :
    LET path   == UnixPath(arg)
        Unlink ==
            LET at == Resolve(tree, path) IN
            /\ IF at # Null /\ tree[at] = "file"
               THEN tree' = [x \in DOMAIN tree \ {at} |-> tree[x]]
               ELSE UNCHANGED tree
            /\ UNCHANGED <<current_dir, went, climbed>>
    IN  WithPath(arg, Unlink, Failed)

(* DosQueryPathInfo and Dos16QFileMode: stat; its answer is Found.          *)
Found(arg) == LET p == MakeUnixPath(arg) IN IF p = Null \/ p.crash THEN Null ELSE Resolve(tree, p.path)

DosQueryPathInfo == \E arg \in PathArg :
    LET Stat == UNCHANGED <<tree, current_dir, went, climbed>>
    IN  WithPath(arg, Stat, Failed)

(* DosQueryCurrentDir and Dos16QCurDir.  current_disk counts from 1 and the  *)
(* array from 0: disk 0 answers for the drive after the current one, and    *)
(* reads past the array when that was the last.                             *)
DriveAsked(disknum) == IF disknum = 0 THEN current_disk + 1 ELSE disknum
DosQueryCurrentDir == \E disknum \in 0 .. NumDrives :
    /\ ~crashed
    /\ crashed' = (DriveAsked(disknum) \notin Drive)
    /\ UNCHANGED <<tree, disks, current_dir, current_disk, diskmap, went, climbed>>

PathNext == \/ DosSetCurrentDir \/ DosCreateDir \/ DosDelete
            \/ DosQueryPathInfo \/ DosQueryCurrentDir

-----------------------------------------------------------------------------
SameName(a, b) == IF {a, b} \subseteq DOMAIN Lower THEN Lower[a] = Lower[b] ELSE a = b
SamePath(p, q) == Len(p) = Len(q) /\ \A k \in DOMAIN p : SameName(p[k], q[k])

(* Two entries of one directory that OS/2 could not tell apart.             *)
Twins(t) == {p \in DOMAIN t \ {<<>>} : \E q \in DOMAIN t \ {<<>>} :
                Len(p) = Len(q) /\ p # q /\ SameName(Last(p), Last(q)) /\ Front(p) = Front(q)}

(* Names in the Unix root are found only in their own case.                 *)
InRoot(path) == path # <<>> => <<path[1]>> \in DOMAIN tree \ Twins(tree)

(* The current directory of a drive, a text put together by                 *)
(* DosSetCurrentDir, and looked up again in whatever case it has, names the *)
(* directory chdir last went to on that drive -- whatever directories were  *)
(* made since, as long as no ".." tried to leave the mount point and the    *)
(* text has an entry of the Unix root in its own, and only, case.           *)
TextNamesTheDirectory ==
    \A d \in Drive \ climbed :
        disks[d] # Null /\ ~crashed /\ InRoot(disks[d] \o current_dir[d]) =>
            Resolve(tree, MakeUnixPath([drive |-> d, abs |-> FALSE, elems |-> <<>>]).path) = went[d]

(* The program never makes a directory whose name differs from one that is  *)
(* there only in its case, except at the root of the Unix tree              *)
(* (DosCreateDir over lxMakeUnixPath).                                      *)
NoTwinsMade == \A p \in Twins(tree) \ Twins(Tree0) : Len(p) = 1

(* A query finds a file or directory whenever one exists by that name in    *)
(* any case, below the root and away from twins, wherever the current       *)
(* directories are.                                                         *)
FoundInAnyCase ==
    LET twins    == Twins(tree)
        asked(g) == Named(disks[DriveOf(g)] \o (IF g.abs THEN <<>> ELSE current_dir[DriveOf(g)]) \o g.elems)
        plain(p) == \A k \in DOMAIN p : SubSeq(p, 1, k) \notin twins
    IN  \A g \in {x \in PathArg : ~crashed /\ disks[DriveOf(x)] # Null /\ (x.elems # <<>> => Last(x.elems) # "")} :
            LET a == asked(g) IN
            \A p \in DOMAIN tree :
                SamePath(p, a) /\ (p # <<>> => p[1] = a[1]) /\ plain(p) => Found(g) = p

(* Both: the case of a name below the root is no matter.                    *)
CaseIsNoMatter == NoTwinsMade /\ FoundInAnyCase

=============================================================================
