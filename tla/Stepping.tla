------------------------------ MODULE Stepping ------------------------------
(***************************************************************************)
(* Stepping in the debugger td2ine: software single-step (an INT3 where the *)
(* next instruction should be), hardware single-step, step-over (an INT3 at *)
(* the return address) and continue, in the text front end, the TUI and     *)
(* --autostep, against a debuggee that runs, traps, gets signals, exits and *)
(* may be killed at any moment.                                             *)
(*                                                                          *)
(* The debuggee is one thread of a 16-bit NE or a 32-bit LX program.  Every *)
(* instruction is one byte long, so the CPU that has executed an INT3       *)
(* stands on the following address, as on the real machine.                 *)
(***************************************************************************)
EXTENDS Integers, Sequences

CONSTANTS Program,    \* the instructions: address -> [op, to]
          Sessions,   \* the ways td2ine is run and used
          Unreadable, \* addresses with unmapped memory in the 64 bytes behind
          MaxDepth,   \* bound on its recursion
          Nowhere     \* an address that is not mapped

Addr == DOMAIN Program

ASSUME ProgramAssumption ==
    /\ Addr # {} /\ Addr \subseteq Nat /\ 0 \in Addr /\ Nowhere \notin Addr
    /\ \A a \in Addr : Program[a].to \in Addr
(* A session: the front end, whether the program is a 32-bit one, which the *)
(* hardware steps, what the user asks for, how many signals come, and       *)
(* whether the program may die of one: of SIGKILL, which no debugger sees   *)
(* before, or of one the debugger hands on to it.                           *)
ASSUME SessionsAssumption ==
    Sessions \subseteq [front : {"text", "tui", "auto"}, lx : BOOLEAN,
                        commands : SUBSET {"s", "p", "c", "b", "r"},
                        signals : Nat, mortal : BOOLEAN]
ASSUME DepthAssumption == MaxDepth \in Nat

VARIABLES session,
          mem,        \* the byte at each address: the program's or an INT3
          eip, stack, flag,
          run, why,   \* the debuggee runs, is stopped (and why), has exited, was
                      \* killed by a signal, or was and waitpid has told so
          sw,         \* g_sw_step_active, _addr, _saved_byte
          over,       \* g_debug.step_over_active, _address, _original_byte
          pc,         \* what the debugger is doing
          signals,
          should,     \* ghost: where the undisturbed program is
          cmd, done   \* ghost: last command, instructions since

FrontEnd == session.front
Lx == session.lx
Commands == session.commands
Mortal == session.mortal
Dead == run \in {"killed", "gone"}

vars == <<session, mem, eip, stack, flag, run, why, sw, over, pc, signals, should, cmd, done>>
ghosts == <<should, cmd, done>>

Byte == {"code", "int3"}
NoBreakpoint == [active |-> FALSE, addr |-> 0, byte |-> "code"]
Breakpoints == [active : BOOLEAN, addr : Addr, byte : Byte]

(* A trap at the last address leaves eip one behind it. *)
Eips == Addr \cup {a + 1 : a \in Addr}

TypeOK ==
    /\ mem \in [Addr -> Byte]
    /\ eip \in Eips /\ should \in Eips
    /\ stack \in Seq(Eips)
    /\ flag \in BOOLEAN
    /\ run \in {"running", "stepping", "stopped", "exited", "killed", "gone"}
    /\ why \in {"trap", "signal", "segv"}
    /\ sw \in Breakpoints /\ over \in Breakpoints
    /\ pc \in {"prompt", "step", "step2", "cont", "cont2", "over", "hwstep", "hung", "dead", "quit"}
    /\ session \in Sessions /\ signals \in 0..session.signals
    /\ cmd \in {"none", "s", "p", "c", "b"}
    /\ done \in 0..2

(* The entry breakpoint has been hit and main has taken it out. *)
Init ==
    /\ session \in Sessions
    /\ mem = [a \in Addr |-> "code"]
    /\ eip = 0 /\ stack = <<>> /\ flag = FALSE
    /\ run = "stopped" /\ why = "trap"
    /\ sw = NoBreakpoint /\ over = NoBreakpoint
    /\ pc = "prompt"
    /\ signals = 0
    /\ should = 0 /\ cmd = "none" /\ done = 0

-----------------------------------------------------------------------------
(* The debuggee *)

IsCall(a) == Program[a].op \in {"call", "lcall"}
IsReturn(a) == Program[a].op \in {"ret", "retf"}

(* Where the instruction at a goes on the CPU. *)
Successor(a) ==
    CASE Program[a].op \in {"call", "lcall", "jmp", "jind"} -> Program[a].to
      [] Program[a].op \in {"jcc", "loop"}                  -> IF flag THEN Program[a].to ELSE a + 1
      [] IsReturn(a)                                        -> Head(stack)
      [] OTHER                                              -> a + 1

(* One instruction of the program.  A "plain" one may change the flags; a   *)
(* program as deep as MaxDepth takes the conditional jump out of recursion. *)
Instruction ==
    /\ eip \in Addr /\ mem[eip] = "code"
    /\ IF Program[eip].op = "exit" \/ (IsReturn(eip) /\ stack = <<>>)
         THEN /\ run' = "exited"
              /\ UNCHANGED <<eip, stack, flag, why, should, done>>
         ELSE /\ eip' = Successor(eip)
              /\ should' = Successor(eip)
              /\ stack' = CASE IsCall(eip)   -> <<eip + 1>> \o stack
                            [] IsReturn(eip) -> Tail(stack)
                            [] OTHER         -> stack
              /\ flag' \in IF Program[eip].op # "plain" THEN {flag}
                           ELSE IF Len(stack) >= MaxDepth THEN {TRUE} ELSE BOOLEAN
              /\ done' = IF done = 2 THEN 2 ELSE done + 1
              /\ IF run = "stepping" THEN run' = "stopped" /\ why' = "trap"
                                     ELSE UNCHANGED <<run, why>>
    /\ UNCHANGED <<session, mem, sw, over, pc, signals, cmd>>

Execute == run \in {"running", "stepping"} /\ Instruction

Int3 ==
    /\ run \in {"running", "stepping"} /\ eip \in Addr /\ mem[eip] = "int3"
    /\ run' = "stopped" /\ why' = "trap"
    /\ eip' = eip + 1
    /\ UNCHANGED <<session, mem, stack, flag, sw, over, pc, signals, ghosts>>

(* A signal for the debuggee stops it first, before it sees the signal. *)
Signal ==
    /\ run \in {"running", "stepping"} /\ signals < session.signals
    /\ signals' = signals + 1
    /\ run' = "stopped" /\ why' \in {"signal", "segv"}
    /\ UNCHANGED <<session, mem, eip, stack, flag, sw, over, pc, ghosts>>

(* SIGKILL, from anywhere. *)
Dies ==
    /\ Mortal /\ run \in {"running", "stepping", "stopped"} /\ pc # "quit"
    /\ run' = "killed"
    /\ UNCHANGED <<session, mem, eip, stack, flag, why, sw, over, pc, signals, ghosts>>

-----------------------------------------------------------------------------
(* Breakpoints of the debugger *)

(* calculateNextIP: the address the INT3 goes to.  `loop` is not among the  *)
(* conditional jumps, an indirect jump has no target to parse, and a near   *)
(* return is read like a far one: its CS is whatever lies on the stack.     *)
calculateNextIP(a) ==
    CASE Program[a].op \in {"call", "lcall", "jmp"} -> {Program[a].to}
      [] Program[a].op = "jcc"                      -> {IF flag THEN Program[a].to ELSE a + 1}
      [] Program[a].op = "retf" /\ stack # <<>>     -> {Head(stack)}
      [] Program[a].op = "ret"                      -> Addr \cup {Nowhere}
      [] OTHER                                      -> {a + 1}

Begin(c, where) ==
    /\ pc' = where /\ cmd' = c /\ done' = 0
    /\ UNCHANGED session

Resume == run' = "running" /\ UNCHANGED why

(* Save the byte, write the INT3, let the program run. *)
Plant(a) == [active |-> TRUE, addr |-> a, byte |-> mem[a]]

PlantStep(c, where, a) ==
    /\ mem' = [mem EXCEPT ![a] = "int3"]
    /\ sw' = Plant(a)
    /\ Resume /\ Begin(c, where)
    /\ UNCHANGED <<eip, stack, flag, over, signals, should>>

PlantOver(where, a) ==
    /\ mem' = [mem EXCEPT ![a] = "int3"]
    /\ over' = Plant(a)
    /\ Resume /\ Begin("p", where)
    /\ UNCHANGED <<eip, stack, flag, sw, signals, should>>

Restored(m, b) == IF b.active THEN [m EXCEPT ![b.addr] = b.byte] ELSE m
BackTo(b, e) == IF b.active THEN b.addr ELSE e

(* Put the byte back and eip on it, wherever the program has stopped. *)
handleSoftwareStepBreakpoint ==
    /\ mem' = Restored(mem, sw)
    /\ eip' = BackTo(sw, eip)
    /\ sw' = NoBreakpoint
    /\ UNCHANGED over

BothForgetTheFirst(first, second) ==
    /\ mem' = Restored(mem, second)
    /\ eip' = BackTo(second, eip)
    /\ sw' = NoBreakpoint /\ over' = NoBreakpoint

handleBoth(first, second) ==
    /\ mem' = Restored(Restored(mem, first), second)
    /\ eip' = BackTo(second, BackTo(first, eip))
    /\ sw' = NoBreakpoint /\ over' = NoBreakpoint

Keep == UNCHANGED <<mem, eip, sw, over>>
Wait == UNCHANGED <<session, stack, flag, signals, ghosts>>

Prompt == pc' = "prompt" /\ UNCHANGED <<run, why>>
(* The debuggee goes on and the debugger waits again. *)
WaitAgain(where) == pc' = where /\ Resume /\ Keep

(* It goes on with the signal it was stopped by, and may die of it. *)
HandOn(where) ==
    /\ pc' = where
    /\ run' \in IF Mortal THEN {"running", "killed"} ELSE {"running"}
    /\ UNCHANGED why
    /\ Keep

(* waitpid tells that the debuggee was killed. *)
Died(where) == pc' = where /\ run' = "gone" /\ UNCHANGED why /\ Keep

(* The user asks a front end whose debuggee waits for it. *)
Ready(front) == FrontEnd = front /\ pc = "prompt" /\ run = "stopped"

Quit == pc' = "quit" /\ UNCHANGED <<run, why>> /\ Keep

-----------------------------------------------------------------------------
(* The text front end: handleDebuggerCommand *)

(* "Software step failed" or "Step failed" ends the session. *)
TextGivesUp ==
    /\ pc' = "quit"
    /\ UNCHANGED <<session, mem, run, why, eip, stack, flag, sw, over, signals, ghosts>>

TextStep ==
    /\ Ready("text") /\ "s" \in Commands /\ ~Lx
    /\ \E a \in calculateNextIP(eip) :
          IF a \in Addr THEN PlantStep("s", "step", a) ELSE TextGivesUp

HardwareStepRunsOn(c) ==
    /\ Begin(c, "hwstep")
    /\ Resume
    /\ UNCHANGED <<mem, eip, stack, flag, sw, over, signals, should>>

(* The CPU executes one instruction: hardware single-step. *)
HardwareStep(c) ==
    /\ Begin(c, "hwstep")
    /\ run' = "stepping" /\ UNCHANGED why
    /\ UNCHANGED <<mem, eip, stack, flag, sw, over, signals, should>>

TextHardwareStep ==
    /\ Ready("text") /\ "s" \in Commands /\ Lx
    /\ HardwareStep("s")

(* A signal is handed on, once; a second one ends the session. *)
TextStepStops ==
    /\ FrontEnd = "text" /\ pc \in {"step", "step2"}
    /\ \/ /\ run = "stopped"
          /\ IF why = "trap" THEN handleSoftwareStepBreakpoint /\ Prompt
             ELSE IF pc = "step" THEN HandOn("step2") ELSE Quit
       \/ run = "killed" /\ Died("quit")
    /\ Wait

TextContinue ==
    /\ Ready("text") /\ "c" \in Commands
    /\ Begin("c", "cont") /\ Resume /\ Keep
    /\ UNCHANGED <<stack, flag, signals, should>>

(* A death that the first wait tells of ends the session; after the second  *)
(* the user is asked for a command over a dead program.                     *)
TextContinueStops ==
    /\ FrontEnd = "text" /\ pc \in {"cont", "cont2"}
    /\ \/ /\ run = "stopped"
          /\ IF pc = "cont2" THEN Prompt /\ Keep
             ELSE IF why = "trap" THEN handleBoth(sw, over) /\ Prompt
             ELSE HandOn("cont2")
       \/ run = "killed" /\ Died(IF pc = "cont" THEN "quit" ELSE "prompt")
    /\ Wait

(* waitpid waits for a debuggee that was not resumed. *)
Hang ==
    /\ Begin("p", "hung")
    /\ UNCHANGED <<mem, eip, stack, flag, run, why, sw, over, signals, should>>

(* doStepOver, whose result is not looked at: when it has failed nothing    *)
(* runs, and the wait that follows has nothing to wait for.                 *)
TextStepOver ==
    /\ Ready("text") /\ "p" \in Commands
    /\ IF eip \in Unreadable THEN Hang
       ELSE IF IsCall(eip) THEN PlantOver("over", eip + 1)
       ELSE IF Lx THEN HardwareStep("p")
       ELSE \E a \in calculateNextIP(eip) :
                IF a \in Addr THEN PlantStep("p", "over", a) ELSE Hang

WaitStandsStill ==
    /\ FrontEnd = "text" /\ pc \in {"over", "hwstep"}
    /\ \/ /\ run = "stopped"
          /\ IF why = "trap" THEN handleBoth(over, sw) /\ Prompt
             ELSE IF why = "segv" THEN Quit
             ELSE Keep /\ UNCHANGED <<pc, run, why>>
       \/ run = "killed" /\ Died("hung")
    /\ Wait

(* wait_for_trap: a signal other than SIGSEGV is dropped and the debuggee   *)
(* runs on, even when it was to make a single hardware step.  A death by a  *)
(* signal is neither a stop nor an exit: the loop calls waitpid again, which *)
(* fails and leaves the status as it is, for ever.                          *)
TextWaitForTrap ==
    /\ FrontEnd = "text" /\ pc \in {"over", "hwstep"}
    /\ \/ /\ run = "stopped"
          /\ IF why = "trap" THEN handleBoth(over, sw) /\ Prompt
             ELSE IF why = "segv" THEN Quit
             ELSE WaitAgain(pc)
       \/ run = "killed" /\ Died("hung")
    /\ Wait

(* A command over a dead program.  The first waitpid may still have the     *)
(* death to tell; with nothing to wait for wait_for_trap looks at a status  *)
(* that was never set.  No breakpoint is pending then.                      *)
AfterDeath(c) ==
    CASE c = "c"        -> IF run = "killed" THEN {"quit"} ELSE {"prompt"}
      [] c = "s" /\ ~Lx -> {"quit"}
      [] OTHER          -> IF run = "killed" THEN {"hung"} ELSE {"prompt", "quit", "hung"}

TextOnDead ==
    /\ FrontEnd = "text" /\ pc = "prompt" /\ Dead
    /\ \E c \in Commands \cap {"s", "p", "c"} :
          /\ \E where \in AfterDeath(c) : Begin(c, where)
          /\ run' = IF c = "s" /\ ~Lx THEN run ELSE "gone"
    /\ UNCHANGED <<mem, eip, stack, flag, why, sw, over, signals, should>>

(* runTextMode and the TUI's idle look for news before each command, and    *)
(* lose that of a death.                                                    *)
Reaped ==
    /\ FrontEnd \in {"text", "tui"} /\ pc = "prompt" /\ run = "killed"
    /\ Died("prompt")
    /\ Wait

(* "q", or the debuggee has exited. *)
TextQuit ==
    /\ FrontEnd = "text" /\ pc # "quit"
    /\ pc = "prompt" \/ run = "exited"
    /\ Quit /\ Wait

-----------------------------------------------------------------------------
(* The TUI: TDebugApp *)

TuiStep ==
    /\ Ready("tui")
    /\ \E c \in {"s", "p"} \cap Commands :
          /\ c = "p" => ~IsCall(eip)
          /\ IF Lx THEN HardwareStep(c)
             ELSE \E a \in calculateNextIP(eip) \cap Addr : PlantStep(c, "step", a)

TuiStepOver ==
    /\ Ready("tui") /\ "p" \in Commands
    /\ eip \notin Unreadable /\ IsCall(eip)
    /\ PlantOver("over", eip + 1)

(* Any stop is taken for the one that was waited for.  Only doContinue      *)
(* takes notice of a death by a signal; the others leave debug_pid and the  *)
(* breakpoint as they are.                                                  *)
TuiStops ==
    /\ FrontEnd = "tui" /\ pc \in {"step", "hwstep", "over", "cont"}
    /\ \/ /\ run = "stopped"
          /\ CASE pc = "step" -> handleSoftwareStepBreakpoint
               [] pc = "over" -> handleBoth(over, sw)
               [] OTHER       -> Keep
          /\ Prompt
       \/ run = "killed" /\ Died(IF pc = "cont" THEN "dead" ELSE "prompt")
    /\ Wait

TuiContinue ==
    /\ Ready("tui") /\ "c" \in Commands
    /\ Begin("c", "cont") /\ Resume /\ Keep
    /\ UNCHANGED <<stack, flag, signals, should>>

(* doContinue over a dead program.  The other commands fail at their first  *)
(* look at it, and what they reap Reaped has reaped.                        *)
TuiOnDead ==
    /\ FrontEnd = "tui" /\ pc = "prompt" /\ run = "killed" /\ "c" \in Commands
    /\ Begin("c", "dead") /\ run' = "gone" /\ UNCHANGED why /\ Keep
    /\ UNCHANGED <<stack, flag, signals, should>>

(* doBreakpoint writes an INT3 at EIP and keeps no copy of the byte.  In a  *)
(* 16-bit program EIP is an offset, no address: the write fails unseen.     *)
TuiBreakpoint ==
    /\ Ready("tui") /\ "b" \in Commands
    /\ mem' = IF Lx /\ eip \in Addr THEN [mem EXCEPT ![eip] = "int3"] ELSE mem
    /\ cmd' = "b"
    /\ UNCHANGED <<session, eip, stack, flag, run, why, sw, over, pc, signals, should, done>>

(* debug_pid becomes -1: only doReset does anything from here on. *)
TuiExited ==
    /\ FrontEnd = "tui" /\ run = "exited" /\ pc \notin {"prompt", "dead"}
    /\ pc' = "dead"
    /\ UNCHANGED <<run, why>> /\ Keep /\ Wait

ResetForgetsTheStep ==
    /\ FrontEnd = "tui" /\ pc \in {"prompt", "dead"} /\ "r" \in Commands
    /\ pc' = "prompt" /\ run' = "stopped" /\ why' = "trap"
    /\ mem' = [a \in Addr |-> "code"] /\ eip' = 0 /\ stack' = <<>> /\ flag' = FALSE
    /\ over' = NoBreakpoint
    /\ should' = 0 /\ cmd' = "none" /\ done' = 0
    /\ UNCHANGED <<session, sw, signals>>

(* doReset: breakpoints taken out or forgotten, the debuggee killed and     *)
(* started again up to its entry point.                                     *)
TuiReset ==
    /\ FrontEnd = "tui" /\ pc \in {"prompt", "dead"} /\ "r" \in Commands
    /\ pc' = "prompt" /\ run' = "stopped" /\ why' = "trap"
    /\ mem' = [a \in Addr |-> "code"] /\ eip' = 0 /\ stack' = <<>> /\ flag' = FALSE
    /\ sw' = NoBreakpoint /\ over' = NoBreakpoint
    /\ should' = 0 /\ cmd' = "none" /\ done' = 0
    /\ UNCHANGED <<session, signals>>

-----------------------------------------------------------------------------
(* --autostep: execute_step in run_autostep *)

AutoStep ==
    /\ Ready("auto")
    /\ IF "p" \in Commands /\ IsCall(eip) THEN PlantOver("step", eip + 1)
       ELSE IF Lx THEN HardwareStep("s")
       ELSE \E a \in calculateNextIP(eip) :
              IF a \in Addr THEN PlantStep("s", "step", a)
              ELSE /\ Begin("s", "step") /\ Resume /\ Keep
                   /\ UNCHANGED <<stack, flag, signals, should>>

AutoStops ==
    /\ FrontEnd = "auto" /\ pc \in {"step", "hwstep"} /\ run = "stopped"
    /\ handleBoth(over, sw) /\ Prompt /\ Wait

AutoEnds ==
    /\ FrontEnd = "auto" /\ pc # "quit" /\ (pc = "prompt" \/ run \in {"exited", "killed"})
    /\ Quit /\ Wait

-----------------------------------------------------------------------------
Debuggee == Execute \/ Int3 \/ Signal \/ Dies

Asks == TextStep \/ TextHardwareStep \/ TextContinue \/ TextStepOver \/ TextOnDead
        \/ TuiStep \/ TuiStepOver \/ TuiContinue \/ TuiBreakpoint \/ TuiReset \/ TuiOnDead
        \/ AutoStep

Answers == TextStepStops \/ TextContinueStops \/ TextWaitForTrap \/ TextQuit
           \/ TuiStops \/ TuiExited \/ Reaped \/ AutoStops \/ AutoEnds

Next == Debuggee \/ Asks \/ Answers

Spec == Init /\ [][Next]_vars

(* The kernel lets a resumed debuggee run and waitpid report its stop; the  *)
(* user owes nobody a command.                                              *)
Fairness == WF_vars(Execute \/ Int3) /\ WF_vars(Answers)

FairSpec == Spec /\ Fairness

-----------------------------------------------------------------------------
(* Properties *)

(* Whenever the debugger asks for a command, no INT3 of its own is left in  *)
(* the program and no breakpoint state is pending: a leftover would be      *)
(* saved as the program's own byte by the next step.  (A dead program has   *)
(* no bytes.)                                                               *)
PromptIsClean ==
    pc = "prompt" /\ ~Dead => ~sw.active /\ ~over.active /\ \A a \in Addr : mem[a] = "code"

(* The debugger never moves the program: whenever it runs, and whenever the *)
(* user looks at it alive, eip is where the program alone would have come   *)
(* to.                                                                      *)
(* td2ine_main.cpp:274 has the handler run after a step breakpoint is hit.  *)
ProgramUndisturbed == (run = "running" \/ (pc = "prompt" /\ ~Dead)) => eip = should

(* td2ine_main.cpp:239, "Perform a software single-step", and               *)
(* td2ine_text.cpp:597, "Hardware single-step for LX mode": after a step one    *)
(* instruction of the program has been executed.                            *)
StepIsOneInstruction ==
    cmd = "s" => done <= 1 /\ (pc = "prompt" /\ ~Dead => done = 1)

(* Two waits of the text front end have nothing to wait for: wait_for_trap   *)
(* after a death by a signal (td2ine_core.cpp:63), and the one that follows  *)
(* a doStepOver that resumed nothing (td2ine_text.cpp:615).                  *)
WaitsForNothing == pc = "hung" /\ (Dead \/ (cmd = "p" /\ run = "stopped"))

Asked == pc \notin {"prompt", "dead", "quit"}

(* wait_for_trap and the other waits: apart from these two, every command   *)
(* comes back to the prompt or ends the session, in a program that comes to *)
(* its end, by itself or by a signal at any moment.                         *)
CommandEnds == Asked ~> (~Asked \/ WaitsForNothing)

(* What td2ine_text.cpp:601 and 618 say for a wait that went wrong: "Step   *)
(* failed" or "Step-over failed", and the session ends, as at line 556 when *)
(* a signal has ended the program.                                          *)
EveryWaitIsAnswered == Asked ~> ~Asked
=============================================================================
