--------------------------- MODULE MCThreadReaper ---------------------------
(* A caller of DosWaitThread and a few threads to reap. *)
EXTENDS ThreadReaper

CONSTANTS t1, t2, n1, n2, n3

(* One thread that waits for any or for one.                                *)
Mixed == {[callers |-> {t1}, waits |-> {"any", "one"}]}
=============================================================================
