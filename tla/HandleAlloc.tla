----------------------------- MODULE HandleAlloc -----------------------------
(***************************************************************************)
(* What DosOpen, DosDupHandle and DosClose promise together: a handle that  *)
(* the program was given stands for one file of its own, from the call that *)
(* returned it to the call that closes it, whatever other threads do.       *)
(***************************************************************************)
EXTENDS Naturals

CONSTANTS Handle, Descriptor

VARIABLE file      \* the handles the program holds -> the file each stands for

Held == DOMAIN file

SInit == file \in [Held -> Descriptor] /\ \A g, h \in Held : file[g] = file[h] => g = h

SOpen(h, d) ==
    /\ h \notin Held
    /\ d \notin {file[g] : g \in Held}
    /\ file' = [g \in Held \cup {h} |-> IF g = h THEN d ELSE file[g]]

SClose(h) == file' = [g \in Held \ {h} |-> file[g]]

SNext ==
    \/ \E h \in Handle, d \in Descriptor : SOpen(h, d)
    \/ \E h \in Held : SClose(h)

HandleAllocSpec == SInit /\ [][SNext]_file
=============================================================================
