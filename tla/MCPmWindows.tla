----------------------------- MODULE MCPmWindows -----------------------------
(* A few windows and a queue of a few items. *)
EXTENDS PmWindows

Program(calls, frames, windows, styles, owned) ==
    [calls |-> calls, frames |-> frames, windows |-> windows,
     visible |-> styles, owned |-> owned]

(* Programs that work on their windows from inside window procedures, that  *)
(* show some of them, that end their session, and that get messages.        *)
Sound == {Program({"tree"}, 3, 4, {FALSE}, {FALSE}),
          Program({"tree"}, 1, 4, BOOLEAN, {FALSE}),
          Program({"tree", "terminate"}, 2, 3, {TRUE}, {FALSE}),
          Program({"tree", "messages"}, 1, 2, BOOLEAN, {TRUE})}

Filtering == {Program({"tree", "messages"}, 1, 1, {FALSE}, {FALSE})}

QuitOnly == {[hwnd |-> 0, first |-> 3, last |-> 3]}
NoFilters == {}
=============================================================================
