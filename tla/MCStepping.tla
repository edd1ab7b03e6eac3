----------------------------- MODULE MCStepping -----------------------------
(* Small programs for the debugger, in two parts that share no variable: how *)
(* td2ine comes to the first prompt, and what it does from there on.         *)
EXTENDS Stepping, DebugStart

VARIABLE part

Op(op, to) == [op |-> op, to |-> to]

Listing(lines) == [a \in 0..(Len(lines) - 1) |-> lines[a + 1]]

(* main calls a function that tests a flag and calls itself, or returns. *)
Recursive == Listing(<<Op("lcall", 3), Op("plain", 0), Op("exit", 0),
                       Op("plain", 0), Op("jcc", 6), Op("lcall", 3),
                       Op("plain", 0), Op("retf", 0)>>)

Session(front, lx, commands, n, mortal) ==
    [front |-> front, lx |-> lx, commands |-> commands, signals |-> n, mortal |-> mortal]

(* Every front end and both kinds of program, which may be killed at any    *)
(* moment.  Left out, because the code does not cope with them, are signals *)
(* in the TUI (TuiWithSignal shows what they do), and, which no run shows,  *)
(* signals in the hardware step of an "s" and in --autostep, and the TUI's  *)
(* breakpoint in a 32-bit program.                                          *)
Ordinary ==
    {Session("text", FALSE, {"s", "p", "c"}, 2, TRUE),
     Session("text", TRUE, {"s", "p", "c"}, 0, TRUE), Session("text", TRUE, {"p", "c"}, 2, TRUE),
     Session("tui", FALSE, {"s", "p", "c", "b", "r"}, 0, TRUE),
     Session("tui", TRUE, {"s", "p", "c", "r"}, 0, TRUE),
     Session("auto", FALSE, {"s", "p"}, 0, TRUE), Session("auto", TRUE, {"s"}, 0, TRUE)}

TuiWithSignal == {Session("tui", FALSE, {"s", "p", "c"}, 1, FALSE)}
SteppedAndKilled == {Session("text", TRUE, {"s"}, 0, TRUE)}

(* Programs to start, in memory at 4 .. 15 with segments of four bytes: a    *)
(* 32-bit one with an alias for its second object, and 16-bit ones with a    *)
(* library, whose code is in slot 2, behind it in the list or not.           *)
Ldt(f) == [i \in 0 .. 3 |-> IF i \in DOMAIN f THEN f[i] ELSE 0]
Api(name, addr, aliased, holds) == [name |-> name, addr |-> addr, aliased |-> aliased, holds |-> holds]
Object(alias, exec) == [alias |-> alias, exec |-> exec]
Exports == <<Api("A", 5, TRUE, 30), Api("none", 6, FALSE, 0), Api("B", 7, FALSE, 0), Api("C", 9, TRUE, 0), Api("D", 8, TRUE, 31)>>
Flat == [lx |-> TRUE, ldt |-> Ldt(2 :> 8), entry |-> [cs |-> 35, ip |-> 6], exports |-> Exports,
         modules |-> <<<<Object(-1, TRUE), Object(2, FALSE)>>>>, bytes |-> [a \in 4 .. 15 |-> a]]
Segmented(cs, ip) ==
    [lx |-> FALSE, ldt |-> Ldt(1 :> 4 @@ 2 :> 8 @@ 3 :> 12), entry |-> [cs |-> cs * 8 + 7, ip |-> ip], exports |-> Exports,
     modules |-> <<<<Object(2, TRUE)>>, <<Object(1, TRUE), Object(3, FALSE)>>>>, bytes |-> [a \in 4 .. 15 |-> a]]
Starts ==
    [front : {"main", "test", "reset"}, program : {Flat, Segmented(1, 0), Segmented(1, 3), Segmented(3, 2)},
     native : BOOLEAN, fate : {"runs", "fails", "killed"}, signals : {0, 2}]

MCInit == /\ part \in {"start", "stepping"}
          /\ Init /\ StartInit
          /\ part = "stepping" => launch = (CHOOSE l \in Starts : TRUE) /\ shm = 0
          /\ part = "start" => session = CHOOSE s \in Sessions : TRUE

MCNext == \/ part = "stepping" /\ Next /\ UNCHANGED <<part, startVars>>
          \/ part = "start" /\ StartNext /\ UNCHANGED <<part, vars>>

mcVars == <<part, vars, startVars>>

(* The kernel also runs the loader, and the debugger goes on starting.       *)
MCSpec ==
    /\ MCInit /\ [][MCNext]_mcVars
    /\ WF_mcVars(part = "stepping" /\ (Execute \/ Int3) /\ UNCHANGED <<part, startVars>>)
    /\ WF_mcVars(part = "stepping" /\ Answers /\ UNCHANGED <<part, startVars>>)
    /\ WF_mcVars(part = "start" /\ LoaderSteps /\ UNCHANGED <<part, vars>>)
    /\ WF_mcVars(part = "start" /\ DebuggerSteps /\ UNCHANGED <<part, vars>>)
=============================================================================
