--------------------------- MODULE Debugger_proofs ---------------------------
(***************************************************************************)
(* Proofs about the debugger, in two parts as in the model.                 *)
(*                                                                          *)
(* Stepping, for any program, any session and any number of signals: the    *)
(* debugger leaves no INT3 behind, does not move the program, and steps one *)
(* instruction at a time -- each under what the code needs for it.          *)
(*                                                                          *)
(* The start of a debuggee: what the debugger has in front of it at the     *)
(* first prompt, what it sees of the program, and that it reads and writes  *)
(* memory exactly.                                                          *)
(***************************************************************************)
EXTENDS Stepping, DebugStart, FoldTheorems, FiniteSetTheorems, SequenceTheorems

(* The TUI's doBreakpoint writes an INT3 into a 32-bit program and keeps no *)
(* copy of the byte: no session of its kind keeps the program's code.       *)
TakesBackWhatItWrites == ~(FrontEnd = "tui" /\ Lx /\ "b" \in Commands)

(* Only the text front end tells a signal from the stop it waits for.       *)
KnowsItsStops == FrontEnd = "text" \/ session.signals = 0

(* A signal for a hardware step makes it run on.                            *)
StepsUndisturbed == ~Lx \/ session.signals = 0

(* What a 16-bit program may be made of: no indirect jump, `loop` or near   *)
(* return, which calculateNextIP misjudges; no instruction that goes to     *)
(* itself, where the INT3 would take the place of the instruction to step;  *)
(* no return right behind a call, which a recursive function would do.      *)
SoundProgram ==
    \A a \in Addr :
        /\ Program[a].op \in {"plain", "jmp", "jcc", "call", "lcall", "retf", "exit"}
        /\ Program[a].op \in {"jmp", "jcc", "call", "lcall"} => Program[a].to # a
        /\ Program[a].op \notin {"jmp", "retf", "exit"} => a + 1 \in Addr
        /\ IsCall(a) => Program[a + 1].op # "retf"

-----------------------------------------------------------------------------
(* Where a breakpoint outlives the program it is in: the text front end     *)
(* hangs, the TUI asks on.                                                  *)
LeftBehind == Dead /\ (pc = "hung" \/ (FrontEnd = "tui" /\ pc = "prompt"))

(* Every INT3 in memory is the one of a breakpoint that the next stop takes *)
(* out, and the byte kept for it is the program's.                          *)
CleanInv ==
    /\ mem \in [Addr -> Byte]
    /\ \A a \in Addr : mem[a] = "int3" => (sw.active /\ sw.addr = a) \/ (over.active /\ over.addr = a)
    /\ sw.active => sw.addr \in Addr /\ sw.byte = "code"
    /\ over.active /\ over.addr \in Addr => over.byte = "code"
    /\ ~(sw.active /\ over.active)
    /\ sw.active => pc \in {"step", "step2", "over", "dead", "quit"} \/ LeftBehind
    /\ over.active => \/ pc \in {"over", "dead", "quit"} \/ LeftBehind
                      \/ FrontEnd = "auto" /\ pc = "step"

(* The program is where it would be alone, or it stands behind the INT3 of  *)
(* a breakpoint, at the address the breakpoint is for.                      *)
WhereInv ==
    /\ signals \in Nat
    /\ why \in {"trap", "signal", "segv"}
    /\ why # "trap" => FrontEnd = "text"
    /\ run \in {"running", "stepping", "stopped", "exited", "killed", "gone"}
    /\ run \in {"running", "stepping"} => eip = should
    /\ run = "stepping" => ~sw.active /\ ~over.active
    /\ run = "stopped" /\ why # "trap" => eip = should
    /\ run = "stopped" /\ why = "trap" =>
          should = IF sw.active THEN sw.addr ELSE IF over.active THEN over.addr ELSE eip
    /\ pc = "prompt" => run = "stopped" \/ Dead
    /\ pc \in {"dead", "quit"} => run \notin {"running", "stepping"}

Ends(a) == Program[a].op = "exit" \/ (IsReturn(a) /\ stack = <<>>)

(* A software step has executed nothing, and the INT3 is where the next     *)
(* instruction goes, or it has executed that one and stands on the INT3.    *)
SoftwareStepInv ==
    /\ stack \in Seq(Addr) /\ should \in Addr
    /\ \A i \in DOMAIN stack : Program[stack[i]].op # "retf"
    /\ cmd = "s" =>
         /\ pc \in {"prompt", "step", "step2", "dead", "quit"}
         /\ run # "stepping"
         /\ done \in {0, 1}
         /\ pc = "prompt" => done = 1 \/ Dead
         /\ ~over.active
         /\ pc \in {"step", "step2"} =>
               sw.active \/ (FrontEnd = "auto" /\ run # "stopped" /\ Ends(should) /\ done = 0)
         /\ sw.active => mem[sw.addr] = "int3"
         /\ sw.active /\ done = 0 => /\ sw.addr # should
                                     /\ Ends(should) \/ sw.addr = Successor(should)
         /\ sw.active /\ done = 1 => sw.addr = should

HardwareStepInv ==
    /\ why = "trap"
    /\ cmd = "s" =>
        /\ pc \in {"prompt", "hwstep", "hung", "dead", "quit"}
        /\ run # "running"
        /\ run = "stepping" => done = 0
        /\ run = "stopped" => done = 1
        /\ done \in {0, 1}

-----------------------------------------------------------------------------
(* The first prompt is clean: main has taken the entry's INT3 out.          *)
LEMMA CleanInit == Init => CleanInv
BY DEF Init, CleanInv, NoBreakpoint, Byte

(* The ways a command may touch memory: not at all, an INT3 planted, the    *)
(* INT3s taken out.                                                         *)
LEMMA PlantStepKeepsClean ==
    ASSUME CleanInv, pc = "prompt", run = "stopped", NEW c, NEW where \in {"step", "over"}, NEW a \in Addr,
           PlantStep(c, where, a)
    PROVE  CleanInv'
BY DEF CleanInv, LeftBehind, Dead, PlantStep, Plant, Begin, Byte

(* The same for the INT3 behind a call.                                     *)
LEMMA PlantOverKeepsClean ==
    ASSUME CleanInv, pc = "prompt", run = "stopped", NEW where, NEW a, PlantOver(where, a),
           where = "over" \/ (where = "step" /\ FrontEnd = "auto")
    PROVE  CleanInv'
BY DEF CleanInv, LeftBehind, Dead, PlantOver, Plant, Begin, Byte, FrontEnd

(* Both handlers together leave the program's own code.                     *)
LEMMA BothOutIsClean ==
    ASSUME CleanInv, handleBoth(sw, over) \/ handleBoth(over, sw)
    PROVE  CleanInv' /\ ~sw'.active /\ ~over'.active
BY DEF CleanInv, handleBoth, Restored, NoBreakpoint, Byte

(* So does the first alone when no step-over is on its way.                 *)
LEMMA StepOutIsClean ==
    ASSUME CleanInv, handleSoftwareStepBreakpoint, ~over.active
    PROVE  CleanInv' /\ ~sw'.active /\ ~over'.active
BY DEF CleanInv, handleSoftwareStepBreakpoint, Restored, NoBreakpoint, Byte

(* One of the debuggee's steps, the user's commands, the front ends'        *)
(* answers.                                                                 *)
LEMMA CleanStep ==
    ASSUME CleanInv, TakesBackWhatItWrites, [Next]_vars
    PROVE  CleanInv'
<1>1. CASE UNCHANGED vars
  BY <1>1 DEF vars, CleanInv, LeftBehind, Dead, FrontEnd
<1>2. CASE Debuggee
  <2>1. UNCHANGED <<session, mem, sw, over, pc>> /\ (Dead => Dead')
    BY <1>2 DEF Debuggee, Execute, Instruction, Int3, Signal, Dies, Dead
  <2> QED
    BY <2>1 DEF CleanInv, LeftBehind, FrontEnd
<1>3. CASE Asks
  <2>1. \/ pc = "prompt" /\ run = "stopped"
        \/ TuiReset \/ TextOnDead \/ TuiOnDead
    BY <1>3 DEF Asks, Ready, TextStep, TextHardwareStep, TextContinue, TextStepOver, TuiStep, TuiStepOver,
                TuiContinue, TuiBreakpoint, AutoStep
  <2>4. CASE TextOnDead
    BY <2>4 DEF TextOnDead, Begin, CleanInv, LeftBehind, Dead, FrontEnd
  <2>5. CASE TuiOnDead
    BY <2>5 DEF TuiOnDead, Begin, Keep, CleanInv, FrontEnd
  <2>2. CASE TuiReset
    BY <2>2 DEF TuiReset, CleanInv, NoBreakpoint, Byte
  <2>3. CASE /\ pc = "prompt" /\ run = "stopped"
            /\ ~TuiReset /\ ~TextOnDead /\ ~TuiOnDead
    <3>1. CASE UNCHANGED <<mem, sw, over>>
      BY <2>3, <3>1 DEF CleanInv, LeftBehind, Dead
    <3>2. CASE TextStep
      BY <2>3, <3>1, <3>2, PlantStepKeepsClean DEF TextStep, Ready, TextGivesUp
    <3>3. CASE TextStepOver
      BY <2>3, <3>1, <3>3, PlantStepKeepsClean, PlantOverKeepsClean DEF TextStepOver, Ready, Hang, HardwareStep
    <3>4. CASE TuiStep
      BY <2>3, <3>1, <3>4, PlantStepKeepsClean DEF TuiStep, Ready, HardwareStep
    <3>5. CASE TuiStepOver
      BY <2>3, <3>5, PlantOverKeepsClean DEF TuiStepOver, Ready
    <3>6. CASE AutoStep
      BY <2>3, <3>1, <3>6, PlantStepKeepsClean, PlantOverKeepsClean DEF AutoStep, Ready, HardwareStep, Keep
    <3>7. CASE TuiBreakpoint
      BY <2>3, <3>1, <3>7 DEF TuiBreakpoint, Ready, TakesBackWhatItWrites
    <3>8. CASE TextHardwareStep \/ TextContinue \/ TuiContinue
      BY <2>3, <3>1, <3>8 DEF TextHardwareStep, Ready, TextContinue, TuiContinue, HardwareStep, Keep
    <3> QED
      BY <1>3, <2>3, <3>2, <3>3, <3>4, <3>5, <3>6, <3>7, <3>8 DEF Asks
  <2> QED
    BY <2>1, <2>2, <2>3, <2>4, <2>5
<1>4. CASE Answers
  <2> USE DEF LeftBehind, Dead
  <2>7. CASE Reaped
    BY <2>7 DEF Reaped, Died, Keep, Wait, CleanInv, FrontEnd
  <2>1. CASE TextQuit \/ TuiExited \/ AutoEnds
    BY <2>1 DEF TextQuit, TuiExited, AutoEnds, Quit, Keep, Wait, CleanInv, FrontEnd
  <2>2. CASE TextStepStops
    <3>1. ~over.active
      BY <2>2 DEF TextStepStops, CleanInv, FrontEnd
    <3> QED
      BY <2>2, <3>1, StepOutIsClean DEF TextStepStops, HandOn, Died, Quit, Keep, Wait, CleanInv, FrontEnd
  <2>3. CASE TextContinueStops
    BY <2>3, BothOutIsClean DEF TextContinueStops, HandOn, Died, Keep, Wait, CleanInv, FrontEnd
  <2>4. CASE TextWaitForTrap
    BY <2>4, BothOutIsClean DEF TextWaitForTrap, WaitAgain, Died, Quit, Keep, Wait, CleanInv, FrontEnd
  <2>5. CASE TuiStops
    <3>1. pc # "over" => ~over.active
      BY <2>5 DEF TuiStops, CleanInv, FrontEnd
    <3> QED
      BY <2>5, <3>1, BothOutIsClean, StepOutIsClean DEF TuiStops, Died, Keep, Wait, CleanInv, FrontEnd
  <2>6. CASE AutoStops
    BY <2>6, BothOutIsClean DEF AutoStops
  <2> QED
    BY <1>4, <2>1, <2>2, <2>3, <2>4, <2>5, <2>6, <2>7 DEF Answers
<1> QED
  BY <1>1, <1>2, <1>3, <1>4 DEF Next

(* The session never changes.                                               *)
LEMMA SessionStays == [Next]_vars => UNCHANGED session
BY DEF Next, vars, Debuggee, Execute, Instruction, Int3, Signal, Dies, TextOnDead, TuiOnDead, Reaped,
       Asks, TextStep, TextGivesUp, TextHardwareStep, TextContinue, TextStepOver, Hang, TuiStep, TuiStepOver,
       TuiContinue, TuiBreakpoint, TuiReset, AutoStep, PlantStep, PlantOver, HardwareStep, Begin,
       Answers, TextStepStops, TextContinueStops, TextWaitForTrap, TextQuit, TuiStops, TuiExited, AutoStops,
       AutoEnds, Wait

(* No INT3 of the debugger's is left in the program when it asks for a      *)
(* command, whatever signals come (handleSoftwareStepBreakpoint and         *)
(* handleStepOverBreakpoint).                                               *)
THEOREM PromptStaysClean == Spec /\ TakesBackWhatItWrites => []PromptIsClean
<1>1. TakesBackWhatItWrites /\ [Next]_vars => TakesBackWhatItWrites'
  BY SessionStays DEF TakesBackWhatItWrites, FrontEnd, Lx, Commands
<1>2. CleanInv => PromptIsClean
  BY DEF CleanInv, LeftBehind, PromptIsClean, Byte
<1> QED
  BY <1>1, <1>2, CleanInit, CleanStep, PTL DEF Spec

-----------------------------------------------------------------------------
(* The program stands at its entry.                                         *)
LEMMA WhereInit == Init => WhereInv
BY DEF Init, WhereInv, NoBreakpoint

(* A trap that comes while it runs comes from a breakpoint's INT3.          *)
LEMMA DebuggeeKeepsWhere ==
    ASSUME CleanInv, WhereInv, KnowsItsStops, Debuggee
    PROVE  WhereInv'
<1> USE DEF WhereInv, KnowsItsStops, Dead
<1>4. CASE Dies
  BY <1>4 DEF Dies, FrontEnd, ghosts
<1>1. CASE Execute
  BY <1>1 DEF Execute, Instruction, FrontEnd
<1>2. CASE Int3
  BY <1>2 DEF Int3, CleanInv, FrontEnd, ghosts
<1>3. CASE Signal
  <2>1. FrontEnd = "text" /\ FrontEnd' = "text"
    BY <1>3 DEF Signal, FrontEnd
  <2> QED
    BY <1>3, <2>1 DEF Signal, ghosts
<1> QED
  BY <1>1, <1>2, <1>3, <1>4 DEF Debuggee

(* From the prompt the program goes on from where it is.                    *)
LEMMA AsksKeepsWhere ==
    ASSUME CleanInv, WhereInv, Asks
    PROVE  WhereInv'
<1> USE DEF WhereInv, Dead
<1>1. CASE TuiReset
  BY <1>1 DEF TuiReset, NoBreakpoint, FrontEnd
<1>3. CASE TextOnDead
  BY <1>3 DEF TextOnDead, AfterDeath, Begin, FrontEnd
<1>4. CASE TuiOnDead
  BY <1>4 DEF TuiOnDead, Begin, Keep, FrontEnd
<1>2. CASE ~TuiReset /\ ~TextOnDead /\ ~TuiOnDead
  <2>1. pc = "prompt" /\ run = "stopped"
    BY <1>2 DEF Asks, Ready, TextStep, TextHardwareStep, TextContinue, TextStepOver, TuiStep, TuiStepOver,
                TuiContinue, TuiBreakpoint, AutoStep
  <2>2. ~sw.active /\ ~over.active /\ eip = should /\ run = "stopped"
    BY <2>1 DEF CleanInv, LeftBehind
  <2>3. ASSUME NEW c, NEW where \in {"step", "over"}, NEW a, PlantStep(c, where, a) PROVE WhereInv'
    BY <2>2, <2>3 DEF PlantStep, Resume, Begin, FrontEnd
  <2>4. ASSUME NEW where \in {"step", "over"}, NEW a, PlantOver(where, a) PROVE WhereInv'
    BY <2>2, <2>4 DEF PlantOver, Resume, Begin, FrontEnd
  <2>5. ASSUME NEW c, HardwareStep(c) PROVE WhereInv'
    BY <2>2, <2>5 DEF HardwareStep, Begin, FrontEnd
  <2>6. CASE TextStep
    BY <2>2, <2>3, <2>6 DEF TextStep, Ready, TextGivesUp, FrontEnd, ghosts
  <2>7. CASE TextHardwareStep
    BY <2>5, <2>7 DEF TextHardwareStep, Ready
  <2>8. CASE TextStepOver
    BY <2>2, <2>3, <2>4, <2>5, <2>8 DEF TextStepOver, Ready, Hang, Begin, FrontEnd
  <2>9. CASE TuiStep
    BY <2>3, <2>5, <2>9 DEF TuiStep, Ready
  <2>10. CASE TuiStepOver
    BY <2>4, <2>10 DEF TuiStepOver, Ready
  <2>11. CASE AutoStep
    BY <2>2, <2>3, <2>4, <2>5, <2>11 DEF AutoStep, Ready, Begin, Resume, Keep, FrontEnd
  <2>12. CASE TuiBreakpoint
    BY <2>2, <2>12 DEF TuiBreakpoint, Ready, FrontEnd
  <2>13. CASE TextContinue \/ TuiContinue
    BY <2>2, <2>13 DEF TextContinue, Ready, TuiContinue, Begin, Resume, Keep, FrontEnd
  <2> QED
    BY <1>2, <2>6, <2>7, <2>8, <2>9, <2>10, <2>11, <2>12, <2>13 DEF Asks
<1> QED
  BY <1>1, <1>2, <1>3, <1>4

(* The INT3 comes out and eip goes back on it, when it was hit.             *)
LEMMA AnswersKeepsWhere ==
    ASSUME CleanInv, WhereInv, Answers
    PROVE  WhereInv'
<1> USE DEF WhereInv, Dead
<1>1. ASSUME run = "stopped", why = "trap", handleBoth(sw, over) \/ handleBoth(over, sw),
             UNCHANGED <<session, run, why, signals, should>>
      PROVE  WhereInv'
  <2>1. eip' = should
    BY <1>1 DEF handleBoth, BackTo, CleanInv
  <2> QED
    BY <1>1, <2>1 DEF handleBoth, NoBreakpoint, FrontEnd
<1>2. ASSUME run = "stopped", why = "trap", handleSoftwareStepBreakpoint, ~over.active,
             UNCHANGED <<session, run, why, signals, should>>
      PROVE  WhereInv'
  <2>1. eip' = should
    BY <1>2 DEF handleSoftwareStepBreakpoint, BackTo
  <2> QED
    BY <1>2, <2>1 DEF handleSoftwareStepBreakpoint, NoBreakpoint, FrontEnd
<1>3. ASSUME Keep, UNCHANGED <<session, run, why, signals, should>>, pc' = "prompt" => run = "stopped",
             run \notin {"running", "stepping"}
      PROVE  WhereInv'
  BY <1>3 DEF Keep, FrontEnd
<1>11. ASSUME NEW where, Died(where), UNCHANGED <<session, signals, should>> PROVE WhereInv'
  BY <1>11 DEF Died, Keep, FrontEnd
<1>4. ASSUME Keep, run' \in {"running", "killed"}, why' = why, run = "stopped", why # "trap", UNCHANGED <<session, signals, should>>,
             pc' \notin {"prompt", "dead", "quit"}
      PROVE  WhereInv'
  BY <1>4 DEF Keep, FrontEnd
<1>12. CASE Reaped
  BY <1>11, <1>12 DEF Reaped, Wait, ghosts
<1>5. CASE TextQuit \/ TuiExited \/ AutoEnds
  BY <1>3, <1>5 DEF TextQuit, TuiExited, AutoEnds, Quit, Wait, ghosts
<1>6. CASE TextStepStops
  <2>1. ~over.active
    BY <1>6 DEF TextStepStops, CleanInv, LeftBehind, FrontEnd
  <2> QED
    BY <1>2, <1>3, <1>4, <1>6, <1>11, <2>1 DEF TextStepStops, Prompt, HandOn, Quit, Wait, ghosts
<1>7. CASE TextContinueStops
  BY <1>1, <1>3, <1>4, <1>7, <1>11 DEF TextContinueStops, Prompt, HandOn, Wait, ghosts
<1>8. CASE TextWaitForTrap
  <2>1. pc \in {"over", "hwstep"}
    BY <1>8 DEF TextWaitForTrap
  <2> QED
    BY <1>1, <1>3, <1>4, <1>8, <1>11, <2>1 DEF TextWaitForTrap, Prompt, WaitAgain, Resume, Quit, Wait, ghosts
<1>9. CASE TuiStops
  <2>1. why = "trap"
    BY <1>9 DEF TuiStops, FrontEnd
  <2>2. pc # "over" => ~over.active
    BY <1>9 DEF TuiStops, CleanInv, LeftBehind, FrontEnd
  <2> QED
    BY <1>1, <1>2, <1>3, <1>9, <1>11, <2>1, <2>2 DEF TuiStops, Prompt, Wait, ghosts
<1>10. CASE AutoStops
  <2>1. why = "trap" /\ run = "stopped"
    BY <1>10 DEF AutoStops, FrontEnd
  <2> QED
    BY <1>1, <1>10, <2>1 DEF AutoStops, Prompt, Wait, ghosts
<1> QED
  BY <1>5, <1>6, <1>7, <1>8, <1>9, <1>10, <1>12 DEF Answers

(* The three above together.                                                *)
LEMMA WhereStep ==
    ASSUME CleanInv, WhereInv, KnowsItsStops, [Next]_vars
    PROVE  WhereInv'
<1>1. CASE UNCHANGED vars
  BY <1>1 DEF vars, WhereInv, Dead, FrontEnd
<1> QED
  BY <1>1, DebuggeeKeepsWhere, AsksKeepsWhere, AnswersKeepsWhere DEF Next

(* Whenever the program runs, and whenever the user looks at it, it is      *)
(* where it would have come to alone: the handlers of main, of the text     *)
(* front end and of the TUI put eip back only where the INT3 was hit.       *)
THEOREM ProgramIsUndisturbed ==
    Spec /\ TakesBackWhatItWrites /\ KnowsItsStops => []ProgramUndisturbed
<1>1. TakesBackWhatItWrites /\ KnowsItsStops /\ [Next]_vars => TakesBackWhatItWrites' /\ KnowsItsStops'
  BY SessionStays DEF TakesBackWhatItWrites, KnowsItsStops, FrontEnd, Lx, Commands
<1>2. CleanInv /\ WhereInv => ProgramUndisturbed
  BY DEF CleanInv, LeftBehind, WhereInv, ProgramUndisturbed
<1> QED
  BY <1>1, <1>2, CleanInit, CleanStep, WhereInit, WhereStep, PTL DEF Spec

-----------------------------------------------------------------------------
(* Hardware steps: the CPU executes one instruction and stops.              *)
LEMMA HardwareInit == Init => HardwareStepInv
BY DEF Init, HardwareStepInv

(* The count goes from none to one with the trap of the hardware step.      *)
LEMMA HardwareStepStep ==
    ASSUME CleanInv, WhereInv, HardwareStepInv, Lx, KnowsItsStops, StepsUndisturbed, [Next]_vars
    PROVE  HardwareStepInv'
<1> USE DEF HardwareStepInv
<1>1. CASE UNCHANGED vars
  BY <1>1 DEF vars
<1>2. CASE Debuggee
  <2>1. ~Signal
    BY DEF Signal, StepsUndisturbed, WhereInv
  <2>2. CASE Execute
    <3>1. /\ UNCHANGED <<pc, cmd>>
          /\ \/ run' = "exited" /\ UNCHANGED <<why, done>>
             \/ /\ done' = (IF done = 2 THEN 2 ELSE done + 1)
                /\ IF run = "stepping" THEN run' = "stopped" /\ why' = "trap" ELSE UNCHANGED <<run, why>>
      BY <2>2 DEF Execute, Instruction
    <3>2. run \in {"running", "stepping"}
      BY <2>2 DEF Execute
    <3> QED
      BY <3>1, <3>2
  <2>3. CASE Int3
    BY <2>3 DEF Int3, CleanInv, WhereInv, ghosts
  <2>4. CASE Dies
    BY <2>4 DEF Dies, ghosts
  <2> QED
    BY <1>2, <2>1, <2>2, <2>3, <2>4 DEF Debuggee
<1>3. CASE Asks
  <2>1. CASE TextOnDead
    BY <2>1 DEF TextOnDead, AfterDeath, Begin, Dead
  <2>11. CASE TuiOnDead
    BY <2>11 DEF TuiOnDead, Begin
  <2>2. ASSUME NEW where, NEW a, PlantOver(where, a) PROVE HardwareStepInv'
    BY <2>2 DEF PlantOver, Resume, Begin
  <2>3. ASSUME NEW c, HardwareStep(c) PROVE HardwareStepInv'
    BY <2>3 DEF HardwareStep, Begin
  <2>4. CASE TuiReset
    BY <2>4 DEF TuiReset
  <2>5. CASE TextStepOver
    BY <2>2, <2>3, <2>5 DEF TextStepOver, Ready, Hang, Begin
  <2>6. CASE TextHardwareStep \/ TuiStep \/ TuiStepOver
    BY <2>2, <2>3, <2>6 DEF TextHardwareStep, Ready, TuiStep, TuiStepOver
  <2>9. CASE AutoStep
    BY <2>2, <2>3, <2>9 DEF AutoStep, Ready
  <2>10. ~TextStep
    BY DEF TextStep, Ready
  <2>7. CASE TextContinue \/ TuiContinue
    BY <2>7 DEF TextContinue, Ready, TuiContinue, Begin, Resume
  <2>8. CASE TuiBreakpoint
    BY <2>8 DEF TuiBreakpoint, Ready
  <2> QED
    BY <1>3, <2>1, <2>11, <2>4, <2>5, <2>6, <2>7, <2>8, <2>9, <2>10 DEF Asks
<1>4. CASE Answers
  BY <1>4 DEF Answers, TextStepStops, TextContinueStops, TextWaitForTrap, TextQuit, TuiStops, TuiExited,
              Reaped, Died, AutoStops, AutoEnds, Wait, Prompt, Quit, ghosts, WhereInv, Dead
<1> QED
  BY <1>1, <1>2, <1>3, <1>4 DEF Next

-----------------------------------------------------------------------------
(* Software steps: the INT3 is where the next instruction goes.             *)
LEMMA SoftwareInit == Init => SoftwareStepInv
BY ProgramAssumption DEF Init, SoftwareStepInv, NoBreakpoint

(* calculateNextIP is right about an instruction of a sound program.        *)
LEMMA NextIPIsRight ==
    ASSUME SoundProgram, SoftwareStepInv, CleanInv, NEW a \in calculateNextIP(should), a \in Addr
    PROVE  a # should /\ (Ends(should) \/ a = Successor(should))
<1> DEFINE op == Program[should].op
<1>1. /\ should \in Addr /\ should \in Nat /\ op \in {"plain", "jmp", "jcc", "call", "lcall", "retf", "exit"}
      /\ op \in {"jmp", "jcc", "call", "lcall"} => Program[should].to # should
  BY ProgramAssumption DEF SoundProgram, SoftwareStepInv
<1>2. CASE op \in {"jmp", "call", "lcall"}
  BY <1>1, <1>2 DEF calculateNextIP, Successor, IsReturn
<1>5. CASE op = "jcc"
  <2>1. calculateNextIP(should) = {Successor(should)}
    BY <1>5 DEF calculateNextIP, Successor, IsReturn
  <2>2. Successor(should) = IF flag THEN Program[should].to ELSE should + 1
    BY <1>5 DEF Successor, IsReturn
  <2> QED
    BY <1>1, <1>5, <2>1, <2>2
<1>3. CASE op = "retf"
  <2>1. CASE stack = <<>>
    BY <1>1, <1>3, <2>1 DEF calculateNextIP, Ends, IsReturn
  <2>2. CASE stack # <<>>
    <3>1. Head(stack) = stack[1] /\ 1 \in DOMAIN stack
      BY <2>2, EmptySeq, HeadTailProperties DEF SoftwareStepInv
    <3>2. Program[Head(stack)].op # "retf"
      BY <3>1 DEF SoftwareStepInv
    <3> QED
      BY <1>1, <1>3, <2>2, <3>2 DEF calculateNextIP, Successor, IsReturn
  <2> QED
    BY <2>1, <2>2
<1>4. CASE op \in {"plain", "exit"}
  BY <1>1, <1>4 DEF calculateNextIP, Successor, IsReturn, Ends
<1> HIDE DEF op
<1> QED
  BY <1>1, <1>2, <1>3, <1>4, <1>5

(* Only where the program ends does the INT3 have nowhere to go.            *)
LEMMA NextIPIsInside ==
    ASSUME SoundProgram, SoftwareStepInv, NEW a \in calculateNextIP(should), a \notin Addr
    PROVE  Ends(should)
<1> DEFINE op == Program[should].op
<1>1. /\ should \in Addr /\ op \in {"plain", "jmp", "jcc", "call", "lcall", "retf", "exit"}
      /\ Program[should].to \in Addr
      /\ op \notin {"jmp", "retf", "exit"} => should + 1 \in Addr
  BY ProgramAssumption DEF SoundProgram, SoftwareStepInv
<1>2. CASE op \in {"jmp", "call", "lcall"}
  BY <1>1, <1>2 DEF calculateNextIP
<1>3. CASE op = "jcc"
  BY <1>1, <1>3 DEF calculateNextIP
<1>4. CASE op = "plain"
  BY <1>1, <1>4 DEF calculateNextIP
<1>5. CASE op = "retf" /\ stack # <<>>
  <2>1. Head(stack) \in Addr
    BY <1>5, HeadTailProperties DEF SoftwareStepInv
  <2> QED
    BY <1>5, <2>1 DEF calculateNextIP
<1>6. CASE op = "exit" \/ (op = "retf" /\ stack = <<>>)
  BY <1>6 DEF Ends, IsReturn
<1> HIDE DEF op
<1> QED
  BY <1>1, <1>2, <1>3, <1>4, <1>5, <1>6

(* Where a sound program goes, and what is on its stack.                    *)
LEMMA InstructionStaysInside ==
    ASSUME SoundProgram, SoftwareStepInv, eip = should, Instruction
    PROVE  /\ stack' \in Seq(Addr) /\ should' \in Addr
           /\ \A i \in DOMAIN stack' : Program[stack'[i]].op # "retf"
<1> DEFINE op == Program[eip].op
<1>1. /\ eip \in Addr /\ op \in {"plain", "jmp", "jcc", "call", "lcall", "retf", "exit"}
      /\ Program[eip].to \in Addr
      /\ op \notin {"jmp", "retf", "exit"} => eip + 1 \in Addr
      /\ IsCall(eip) => Program[eip + 1].op # "retf"
  BY ProgramAssumption DEF SoundProgram, SoftwareStepInv
<1>2. CASE op = "exit" \/ (IsReturn(eip) /\ stack = <<>>)
  BY <1>2 DEF Instruction, SoftwareStepInv
<1>3. CASE op = "retf" /\ stack # <<>>
  <2>1. /\ stack' = Tail(stack) /\ should' = Head(stack)
    BY <1>3 DEF Instruction, IsCall, IsReturn, Successor
  <2>2. stack \in Seq(Addr)
    BY DEF SoftwareStepInv
  <2>3. /\ Tail(stack) \in Seq(Addr) /\ Head(stack) \in Addr
        /\ Len(stack) \in Nat /\ Len(Tail(stack)) = Len(stack) - 1
        /\ \A i \in 1 .. Len(Tail(stack)) : Tail(stack)[i] = stack[i + 1]
    BY <1>3, <2>2, HeadTailProperties
  <2>4. DOMAIN stack = 1 .. Len(stack) /\ DOMAIN Tail(stack) = 1 .. Len(Tail(stack))
    BY <2>2, <2>3
  <2> QED
    BY <2>1, <2>2, <2>3, <2>4 DEF SoftwareStepInv
<1>4. CASE op \in {"call", "lcall"}
  <2>1. /\ stack' = <<eip + 1>> \o stack /\ should' = Program[eip].to
    BY <1>4 DEF Instruction, IsCall, IsReturn, Successor
  <2>2. stack \in Seq(Addr) /\ <<eip + 1>> \in Seq(Addr) /\ Program[eip + 1].op # "retf"
    BY <1>1, <1>4 DEF SoftwareStepInv, IsCall
  <2>3. /\ stack' \in Seq(Addr) /\ Len(stack) \in Nat /\ Len(stack') = 1 + Len(stack)
        /\ stack'[1] = eip + 1 /\ \A i \in 2 .. Len(stack') : stack'[i] = stack[i - 1]
    BY <2>1, <2>2
  <2>4. DOMAIN stack = 1 .. Len(stack) /\ DOMAIN stack' = 1 .. Len(stack')
    BY <2>2, <2>3
  <2> QED
    BY <1>1, <2>1, <2>2, <2>3, <2>4 DEF SoftwareStepInv
<1>5. CASE op \in {"plain", "jmp", "jcc"}
  BY <1>1, <1>5 DEF Instruction, IsCall, IsReturn, Successor, SoftwareStepInv
<1> QED
  BY <1>1, <1>2, <1>3, <1>4, <1>5 DEF IsReturn

(* A command plants one INT3 at most, at another address than eip.          *)
LEMMA AsksKeepsSoftware ==
    ASSUME SoundProgram, CleanInv, WhereInv, SoftwareStepInv, ~Lx, Asks
    PROVE  SoftwareStepInv'
<1>1. CASE TuiReset
  BY <1>1, ProgramAssumption DEF TuiReset, SoftwareStepInv, NoBreakpoint
<1>3. CASE TextOnDead
  BY <1>3 DEF TextOnDead, AfterDeath, Begin, Dead, CleanInv, LeftBehind, WhereInv, SoftwareStepInv, FrontEnd
<1>4. CASE TuiOnDead
  BY <1>4 DEF TuiOnDead, Begin, SoftwareStepInv
<1>2. CASE ~TuiReset /\ ~TextOnDead /\ ~TuiOnDead
  <2>1. pc = "prompt" /\ run = "stopped"
    BY <1>2 DEF Asks, Ready, TextStep, TextHardwareStep, TextContinue, TextStepOver, TuiStep, TuiStepOver,
                TuiContinue, TuiBreakpoint, AutoStep
  <2>2. ~sw.active /\ ~over.active /\ eip = should /\ run = "stopped"
    BY <2>1 DEF CleanInv, LeftBehind, Dead, WhereInv
  <2>3. ASSUME NEW c \in {"s", "p"}, NEW where \in {"step", "over"}, c = "s" => where = "step",
               NEW a \in calculateNextIP(eip), a \in Addr, PlantStep(c, where, a)
        PROVE  SoftwareStepInv'
    <3>1. a # should /\ (Ends(should) \/ a = Successor(should))
      BY <2>2, <2>3, NextIPIsRight
    <3>2. /\ sw'.active /\ sw'.addr = a /\ mem'[a] = "int3" /\ run' = "running"
          /\ cmd' = c /\ pc' = where /\ done' = 0
          /\ UNCHANGED <<session, eip, stack, flag, over, should>>
      BY <2>3 DEF PlantStep, Plant, Resume, Begin, CleanInv
    <3> QED
      BY <2>2, <2>3, <3>1, <3>2 DEF SoftwareStepInv, Ends, Successor
  <2>4. ASSUME UNCHANGED <<stack, should>>, cmd' # "s" PROVE SoftwareStepInv'
    BY <2>4 DEF SoftwareStepInv
  <2>5. ASSUME NEW where, NEW a, PlantOver(where, a) PROVE SoftwareStepInv'
    BY <2>4, <2>5 DEF PlantOver, Begin
  <2>6. CASE TextStep
    <3>1. CASE TextGivesUp
      BY <2>1, <2>2, <3>1 DEF TextGivesUp, SoftwareStepInv, ghosts
    <3> QED
      BY <2>3, <2>6, <3>1 DEF TextStep, Ready
  <2>7. CASE TextStepOver
    BY <2>3, <2>4, <2>5, <2>7 DEF TextStepOver, Ready, Hang, Begin
  <2>8. CASE TuiStep
    BY <2>3, <2>8 DEF TuiStep, Ready
  <2>9. CASE TuiStepOver
    BY <2>5, <2>9 DEF TuiStepOver, Ready
  <2>10. CASE AutoStep
    <3>1. ASSUME NEW a \in calculateNextIP(eip), a \notin Addr,
                 Begin("s", "step"), Resume, Keep, UNCHANGED <<stack, flag, signals, should>>,
                 FrontEnd = "auto"
          PROVE  SoftwareStepInv'
      <4>1. Ends(should)
        BY <2>2, <3>1, NextIPIsInside
      <4> QED
        BY <2>2, <3>1, <4>1 DEF SoftwareStepInv, Begin, Resume, Keep, Ends, FrontEnd
    <3> QED
      BY <2>3, <2>5, <2>10, <3>1 DEF AutoStep, Ready
  <2>11. CASE TuiBreakpoint
    BY <2>4, <2>11 DEF TuiBreakpoint, Ready
  <2>12. CASE TextContinue \/ TuiContinue
    BY <2>4, <2>12 DEF TextContinue, Ready, TuiContinue, Begin
  <2>13. ~TextHardwareStep
    BY DEF TextHardwareStep, Ready
  <2> QED
    BY <1>2, <2>6, <2>7, <2>8, <2>9, <2>10, <2>11, <2>12, <2>13 DEF Asks
<1> QED
  BY <1>1, <1>2, <1>3, <1>4

(* What the stop shows is one instruction, and the INT3 is gone.            *)
LEMMA AnswersKeepsSoftware ==
    ASSUME CleanInv, WhereInv, SoftwareStepInv, ~Lx, KnowsItsStops, Answers
    PROVE  SoftwareStepInv'
<1>1. UNCHANGED <<session, stack, flag, should, cmd, done>>
  BY DEF Answers, TextStepStops, TextContinueStops, TextWaitForTrap, TextQuit, TuiStops, TuiExited, Reaped,
         AutoStops, AutoEnds, Wait, ghosts
<1>2. CASE cmd # "s"
  BY <1>1, <1>2 DEF SoftwareStepInv
<1>3. CASE cmd = "s"
  <2>1. ASSUME run = "stopped", why = "trap", pc \in {"step", "step2"}, pc' = "prompt", run' = run,
               ~sw'.active, ~over'.active
        PROVE  SoftwareStepInv'
    <3>1. done = 1
      BY <1>3, <2>1 DEF SoftwareStepInv, WhereInv
    <3> QED
      BY <1>1, <1>3, <2>1, <3>1 DEF SoftwareStepInv
  <2>2. ASSUME run' # "stepping", Keep, pc' \in {"dead", "quit"} PROVE SoftwareStepInv'
    BY <1>1, <1>3, <2>2 DEF SoftwareStepInv, Keep, Ends, Successor
  <2>3. ~over.active
    BY <1>3 DEF SoftwareStepInv
  <2>4. CASE TextQuit \/ TuiExited \/ AutoEnds
    BY <2>2, <2>4 DEF TextQuit, TuiExited, AutoEnds, Quit, WhereInv, Dead
  <2>9. CASE Reaped
    BY <1>1, <1>3, <2>9 DEF Reaped, Died, Keep, SoftwareStepInv, Dead, Ends, Successor
  <2>10. ASSUME Died("prompt") PROVE SoftwareStepInv'
    BY <1>1, <1>3, <2>10 DEF Died, Keep, SoftwareStepInv, Dead, Ends, Successor
  <2>5. CASE TextStepStops
    <3>4. CASE run = "killed"
      BY <2>2, <2>5, <3>4 DEF TextStepStops, Died
    <3>1. CASE run = "stopped" /\ why = "trap"
      BY <2>1, <2>3, <2>5, <3>1, StepOutIsClean DEF TextStepStops, Prompt
    <3>2. CASE run = "stopped" /\ why # "trap" /\ pc # "step"
      BY <2>2, <2>5, <3>2 DEF TextStepStops, Quit
    <3>3. CASE run = "stopped" /\ why # "trap" /\ pc = "step"
      <4>1. HandOn("step2") /\ sw.active
        BY <1>3, <2>5, <3>3 DEF TextStepStops, SoftwareStepInv
      <4> QED
        BY <1>1, <1>3, <4>1 DEF HandOn, Keep, SoftwareStepInv, Ends, Successor
    <3> QED
      BY <2>5, <3>1, <3>2, <3>3, <3>4 DEF TextStepStops
  <2>6. CASE TuiStops
    <3>1. pc = "step" /\ why = "trap"
      BY <1>3, <2>6 DEF TuiStops, SoftwareStepInv, WhereInv
    <3>2. CASE run = "killed"
      BY <2>6, <2>10, <3>1, <3>2 DEF TuiStops
    <3>3. CASE run = "stopped"
      BY <2>1, <2>3, <2>6, <3>1, <3>3, StepOutIsClean DEF TuiStops, Prompt
    <3> QED
      BY <2>6, <3>2, <3>3 DEF TuiStops
  <2>7. CASE AutoStops
    <3>1. pc = "step" /\ why = "trap" /\ run = "stopped"
      BY <1>3, <2>7 DEF AutoStops, SoftwareStepInv, WhereInv
    <3> QED
      BY <2>1, <2>7, <3>1, BothOutIsClean DEF AutoStops, Prompt
  <2>8. ~TextContinueStops /\ ~TextWaitForTrap
    BY <1>3 DEF TextContinueStops, TextWaitForTrap, SoftwareStepInv
  <2> QED
    BY <2>4, <2>5, <2>6, <2>7, <2>8, <2>9 DEF Answers
<1> QED
  BY <1>2, <1>3

(* The debuggee executes one instruction and meets the INT3.                *)
LEMMA SoftwareStepStep ==
    ASSUME SoundProgram, CleanInv, WhereInv, SoftwareStepInv, ~Lx, KnowsItsStops, [Next]_vars
    PROVE  SoftwareStepInv'
<1>1. CASE UNCHANGED vars
  BY <1>1 DEF vars, SoftwareStepInv, Dead, Ends, Successor, FrontEnd
<1>2. CASE Execute
  <2>1. eip = should /\ Instruction /\ run \in {"running", "stepping"}
    BY <1>2 DEF Execute, WhereInv
  <2>2. /\ stack' \in Seq(Addr) /\ should' \in Addr
        /\ \A i \in DOMAIN stack' : Program[stack'[i]].op # "retf"
    BY <2>1, InstructionStaysInside
  <2>3. CASE Ends(eip)
    <3>1. run' = "exited" /\ UNCHANGED <<session, mem, stack, flag, sw, over, pc, should, cmd, done>>
      BY <2>1, <2>3 DEF Instruction, Ends
    <3> QED
      BY <2>1, <2>2, <3>1 DEF SoftwareStepInv, Dead, Ends, Successor, WhereInv, FrontEnd
  <2>4. CASE ~Ends(eip)
    <3>1. /\ should' = Successor(should) /\ done' = (IF done = 2 THEN 2 ELSE done + 1)
          /\ mem[should] = "code" /\ (run = "running" => run' = "running")
          /\ UNCHANGED <<session, mem, sw, over, pc, cmd>>
      BY <2>1, <2>4 DEF Instruction, Ends
    <3>2. cmd = "s" => sw.active /\ run = "running" /\ done = 0 /\ sw.addr = Successor(should)
      BY <2>1, <2>4, <3>1 DEF SoftwareStepInv, LeftBehind, Dead, WhereInv
    <3> QED
      BY <2>2, <3>1, <3>2 DEF SoftwareStepInv, WhereInv
  <2> QED
    BY <2>3, <2>4
<1>3. CASE Int3 \/ Signal
  <2>1. /\ run \in {"running", "stepping"} /\ run' = "stopped"
        /\ UNCHANGED <<session, mem, stack, flag, sw, over, pc, should, cmd, done>>
    BY <1>3 DEF Int3, Signal, ghosts
  <2>2. sw.active \/ ~(cmd = "s")
    <3>1. CASE Int3
      BY <3>1 DEF Int3, CleanInv, SoftwareStepInv, WhereInv
    <3>2. CASE Signal
      BY <3>2 DEF Signal, SoftwareStepInv, LeftBehind, Dead, WhereInv, KnowsItsStops
    <3> QED
      BY <1>3, <3>1, <3>2
  <2> QED
    BY <2>1, <2>2 DEF SoftwareStepInv, WhereInv, Dead, Ends, Successor, FrontEnd
<1>6. CASE Dies
  BY <1>6 DEF Dies, ghosts, SoftwareStepInv, Dead, Ends, Successor, FrontEnd
<1>4. CASE Asks
  BY <1>4, AsksKeepsSoftware
<1>5. CASE Answers
  BY <1>5, AnswersKeepsSoftware
<1> QED
  BY <1>1, <1>2, <1>3, <1>4, <1>5, <1>6 DEF Next, Debuggee

(* A step is one instruction: calculateNextIP and doSoftwareStep in a sound *)
(* 16-bit program, PTRACE_SINGLESTEP in any 32-bit one.                     *)
THEOREM OneInstructionAtATime ==
    Spec /\ TakesBackWhatItWrites /\ KnowsItsStops /\ StepsUndisturbed /\ (Lx \/ SoundProgram)
        => []StepIsOneInstruction
<1> DEFINE Kept == TakesBackWhatItWrites /\ KnowsItsStops /\ StepsUndisturbed /\ (Lx \/ SoundProgram)
<1> DEFINE Inv == CleanInv /\ WhereInv /\ (Lx => HardwareStepInv) /\ (~Lx => SoftwareStepInv)
<1>1. Init => Inv
  BY CleanInit, WhereInit, HardwareInit, SoftwareInit
<1>2. Kept /\ [Next]_vars => Kept' /\ (Lx' <=> Lx)
  BY SessionStays DEF TakesBackWhatItWrites, KnowsItsStops, StepsUndisturbed, FrontEnd, Lx, Commands
<1>3. Inv /\ Kept /\ [Next]_vars => Inv'
  BY <1>2, CleanStep, WhereStep, HardwareStepStep, SoftwareStepStep
<1>4. Inv => StepIsOneInstruction
  BY DEF WhereInv, HardwareStepInv, SoftwareStepInv, StepIsOneInstruction
<1> QED
  BY <1>1, <1>2, <1>3, <1>4, PTL DEF Spec


-----------------------------------------------------------------------------
(* The word of an address holds it.                                         *)
LEMMA WordHolds ==
    ASSUME NEW a \in Int
    PROVE  WordOf(a) \in Int /\ WordOf(a) <= a /\ a < WordOf(a) + WordSize
BY StartAssumption DEF WordOf

(* WriteByte changes its byte, where there is memory, and no other.         *)
LEMMA WriteByteIsExact ==
    ASSUME NEW m, NEW a \in Int, NEW v, DOMAIN m \subseteq Int, Mapped(m, a)
    PROVE  WriteByte([ok |-> TRUE, mem |-> m], a, v) = [ok |-> TRUE, mem |-> [b \in DOMAIN m |-> IF b = a THEN v ELSE m[b]]]
<1> DEFINE r == [ok |-> TRUE, mem |-> m]
           w == WordOf(a)
           word == [[k \in 0 .. WordSize - 1 |-> m[w + k]] EXCEPT ![a - w] = v]
<1>1. w \in Int /\ a - w \in 0 .. WordSize - 1 /\ WordSize \in Nat
  BY WordHolds, StartAssumption
<1>2. \A b \in Int : b \in w .. w + WordSize - 1 => b - w \in 0 .. WordSize - 1
  BY <1>1
<1>3. WriteByte(r, a, v) = [r EXCEPT !.mem = [b \in DOMAIN m |-> IF b \in w .. w + WordSize - 1 THEN word[b - w] ELSE m[b]]]
  BY DEF WriteByte, Poke, Peek
<1> HIDE DEF w
<1>4. ASSUME NEW b \in DOMAIN m, b \in w .. w + WordSize - 1
      PROVE word[b - w] = IF b = a THEN v ELSE m[b]
  <2>1. b \in Int /\ b - w \in 0 .. WordSize - 1
    BY <1>2, <1>4
  <2>2. word[b - w] = IF b - w = a - w THEN v ELSE m[w + (b - w)]
    BY <1>1, <2>1
  <2>3. (b - w = a - w <=> b = a) /\ w + (b - w) = b
    BY <1>1, <2>1
  <2> QED
    BY <2>2, <2>3
<1>5. a \in w .. w + WordSize - 1
  BY <1>1
<1>6. \A b \in DOMAIN m : (IF b \in w .. w + WordSize - 1 THEN word[b - w] ELSE m[b]) = IF b = a THEN v ELSE m[b]
  BY <1>4, <1>5
<1> HIDE DEF word
<1> QED
  BY <1>3, <1>6

-----------------------------------------------------------------------------
(* What a write of the first k bytes of data leaves: where memory is not    *)
(* there, nothing is written from there on.                                 *)
AllMapped(m, from, to) == \A a \in from .. to : Mapped(m, a)
Written(m, at, data, k) ==
    [ok |-> AllMapped(m, at, at + k - 1),
     mem |-> [a \in DOMAIN m |-> IF a \in at .. at + k - 1 /\ AllMapped(m, at, a) THEN data[a - at + 1] ELSE m[a]]]

(* WriteByte takes what a write of k - 1 bytes leaves to what one of k does.*)
LEMMA WrittenNext ==
    ASSUME NEW m, DOMAIN m \subseteq Int, NEW at \in Int, NEW data, NEW k \in Nat \ {0}
    PROVE  WriteByte(Written(m, at, data, k - 1), at + k - 1, data[k]) = Written(m, at, data, k)
<1> DEFINE r == Written(m, at, data, k - 1)
           x == at + k - 1
<1>1. DOMAIN r.mem = DOMAIN m /\ r.ok = AllMapped(m, at, x - 1) /\ r = [ok |-> r.ok, mem |-> r.mem]
  BY DEF Written
<1>2. Mapped(r.mem, x) <=> Mapped(m, x)
  BY <1>1 DEF Mapped
<1>3. AllMapped(m, at, x) <=> AllMapped(m, at, x - 1) /\ Mapped(m, x)
  <2>1. \A a : a \in at .. x <=> a \in at .. x - 1 \/ a = x
    OBVIOUS
  <2> QED
    BY <2>1 DEF AllMapped
<1>4. CASE AllMapped(m, at, x)
  <2>1. WriteByte(r, x, data[k]) = [ok |-> TRUE, mem |-> [b \in DOMAIN m |-> IF b = x THEN data[k] ELSE r.mem[b]]]
    <3>1. r.ok /\ Mapped(r.mem, x) /\ x \in Int /\ DOMAIN r.mem \subseteq Int
      BY <1>1, <1>2, <1>3, <1>4
    <3>2. r = [ok |-> TRUE, mem |-> r.mem] /\ DOMAIN r.mem = DOMAIN m
      BY <1>1, <3>1
    <3> HIDE DEF r, x
    <3>3. WriteByte(r, x, data[k]) = [ok |-> TRUE, mem |-> [b \in DOMAIN r.mem |-> IF b = x THEN data[k] ELSE r.mem[b]]]
      BY <3>1, <3>2, WriteByteIsExact
    <3> QED
      BY <3>2, <3>3
  <2>2. ASSUME NEW b \in DOMAIN m
        PROVE  (IF b = x THEN data[k] ELSE r.mem[b])
                   = IF b \in at .. x /\ AllMapped(m, at, b) THEN data[b - at + 1] ELSE m[b]
    <3>1. b \in Int
      OBVIOUS
    <3>2. CASE b = x
      <4>1. b - at + 1 = k /\ b \in at .. x
        BY <3>2
      <4> QED
        BY <3>2, <4>1, <1>4
    <3>3. CASE b # x
      <4>1. b \in at .. x <=> b \in at .. at + (k - 1) - 1
        BY <3>1, <3>3
      <4> QED
        BY <3>3, <4>1 DEF Written
    <3> QED
      BY <3>2, <3>3
  <2> QED
    BY <1>4, <2>1, <2>2 DEF Written
<1>5. CASE ~AllMapped(m, at, x)
  <2>1. WriteByte(r, x, data[k]) = [ok |-> FALSE, mem |-> r.mem]
    BY <1>1, <1>2, <1>3, <1>5 DEF WriteByte
  <2>2. ASSUME NEW b \in DOMAIN m
        PROVE  (b \in at .. x - 1 /\ AllMapped(m, at, b)) <=> (b \in at .. x /\ AllMapped(m, at, b))
    <3>1. CASE b = x
      BY <1>5, <3>1
    <3>2. CASE b # x
      BY <3>2
    <3> QED
      BY <3>1, <3>2
  <2>3. r.mem = [b \in DOMAIN m |-> IF b \in at .. x - 1 /\ AllMapped(m, at, b) THEN data[b - at + 1] ELSE m[b]]
    BY DEF Written
  <2>4. r.mem = [b \in DOMAIN m |-> IF b \in at .. x /\ AllMapped(m, at, b) THEN data[b - at + 1] ELSE m[b]]
    BY <2>2, <2>3
  <2>5. Written(m, at, data, k) = [ok |-> FALSE, mem |-> r.mem]
    <3>1. AllMapped(m, at, x) = FALSE
      BY <1>5 DEF AllMapped
    <3> HIDE DEF r
    <3> QED
      BY <2>4, <3>1 DEF Written
  <2> QED
    BY <2>1, <2>5
<1> QED
  BY <1>4, <1>5

(* ptrace_write_memory, whatever the address, the data and the memory.      *)
LEMMA WriteIsExact ==
    ASSUME NEW m, m = [a \in DOMAIN m |-> m[a]], DOMAIN m \subseteq Int, NEW at \in Int,
           NEW n \in Nat, NEW data, DOMAIN data = 1 .. n
    PROVE  ptrace_write_memory(m, at, data) = Written(m, at, data, n)
<1> DEFINE V == {m[a] : a \in DOMAIN m} \cup {data[k] : k \in 1 .. n}
           R == [ok : BOOLEAN, mem : [DOMAIN m -> V]]
           base == [ok |-> TRUE, mem |-> m]
           index == [k \in DOMAIN data |-> k]
           step == [p \in R \X (1 .. n) |-> WriteByte(p[1], at + index[p[2]] - 1, data[index[p[2]]])]
           Rec(g) == g = [s \in SUBSET (1 .. n) |->
                             IF s = {} THEN base
                             ELSE WriteByte(g[s \ {Max(s)}], at + index[Max(s)] - 1, data[index[Max(s)]])]
<1>1. base \in R
  OBVIOUS
<1>2. ASSUME NEW r \in R, NEW k \in 1 .. n PROVE WriteByte(r, at + index[k] - 1, data[index[k]]) \in R
  <2>1. r = [ok |-> r.ok, mem |-> r.mem] /\ DOMAIN r.mem = DOMAIN m /\ r.mem \in [DOMAIN m -> V] /\ r.ok \in BOOLEAN
    OBVIOUS
  <2>2. index[k] = k /\ at + k - 1 \in Int /\ data[k] \in V
    OBVIOUS
  <2> HIDE DEF V, index
  <2>3. CASE r.ok /\ Mapped(r.mem, at + k - 1)
    <3>1. DOMAIN r.mem \subseteq Int /\ r.ok
      BY <2>1, <2>3
    <3> HIDE DEF R
    <3>2. WriteByte(r, at + k - 1, data[k])
              = [ok |-> TRUE, mem |-> [b \in DOMAIN r.mem |-> IF b = at + k - 1 THEN data[k] ELSE r.mem[b]]]
      <4>1. r = [ok |-> TRUE, mem |-> r.mem]
        BY <2>1, <3>1
      <4> QED
        BY <2>2, <2>3, <3>1, <4>1, WriteByteIsExact
    <3> HIDE DEF Rec, step, base
    <3>3. [b \in DOMAIN m |-> IF b = at + k - 1 THEN data[k] ELSE r.mem[b]] \in [DOMAIN m -> V]
      BY <2>1, <2>2
    <3>4. WriteByte(r, at + k - 1, data[k])
              = [ok |-> TRUE, mem |-> [b \in DOMAIN m |-> IF b = at + k - 1 THEN data[k] ELSE r.mem[b]]]
      BY <2>1, <3>2
    <3>5. [ok |-> TRUE, mem |-> [b \in DOMAIN m |-> IF b = at + k - 1 THEN data[k] ELSE r.mem[b]]] \in R
      BY <3>3 DEF R
    <3> QED
      BY <2>2, <3>4, <3>5
  <2>4. CASE ~(r.ok /\ Mapped(r.mem, at + k - 1))
    BY <2>1, <2>2, <2>4 DEF WriteByte
  <2> QED
    BY <2>3, <2>4
<1>3. step \in [R \X (1 .. n) -> R]
  <2> HIDE DEF R, index
  <2> QED
    BY <1>2
<1>4. ptrace_write_memory(m, at, data) = (CHOOSE g : Rec(g))[1 .. n]
  BY DEF ptrace_write_memory, FoldLeft, MapThenFoldSet
<1>5. \E g : Rec(g)
  <2> HIDE DEF R, base, step
  <2>0. \E g : IsFold(g, R, base, n, step)
    <3> HIDE DEF Rec, V, index
    <3> QED
      BY <1>1, <1>3, FoldExists
  <2>1. PICK g : /\ g \in [SUBSET (1 .. n) -> R]
                 /\ \A s \in SUBSET (1 .. n) : g[s] = IF s = {} THEN base ELSE step[<<g[s \ {Max(s)}], Max(s)>>]
    BY <2>0 DEF IsFold
  <2>2. ASSUME NEW s \in SUBSET (1 .. n), s # {}
        PROVE  step[<<g[s \ {Max(s)}], Max(s)>>]
                   = WriteByte(g[s \ {Max(s)}], at + index[Max(s)] - 1, data[index[Max(s)]])
    <3>1. Max(s) \in s
      BY <2>2, MaxIsIn
    <3>2. Max(s) \in 1 .. n /\ s \ {Max(s)} \in SUBSET (1 .. n)
      BY <3>1
    <3>3. g[s \ {Max(s)}] \in R
      BY <2>1, <3>2
    <3> HIDE DEF index
    <3> QED
      BY <3>2, <3>3 DEF step
  <2>3. g = [s \in SUBSET (1 .. n) |-> g[s]]
    BY <2>1
  <2>4. Rec(g)
    <3> HIDE DEF index
    <3> QED
      BY <2>1, <2>2, <2>3
  <2> QED
    BY <2>4
<1>6. PICK g : Rec(g) /\ ptrace_write_memory(m, at, data) = g[1 .. n]
  BY <1>4, <1>5
<1>7. g[{}] = Written(m, at, data, 0)
  <2>1. AllMapped(m, at, at + 0 - 1) /\ \A a \in Int : a \notin at .. at + 0 - 1
    BY DEF AllMapped
  <2>2. g[{}] = base
    BY <1>6
  <2>3. Written(m, at, data, 0) = [ok |-> TRUE, mem |-> [a \in DOMAIN m |-> m[a]]]
    BY <2>1 DEF Written
  <2> QED
    BY <2>2, <2>3
<1>8. ASSUME NEW k \in 1 .. n, g[1 .. (k - 1)] = Written(m, at, data, k - 1)
      PROVE  g[1 .. k] = Written(m, at, data, k)
  <2>1. Max(1 .. k) = k /\ (1 .. k) \ {k} = 1 .. (k - 1) /\ 1 .. k \in SUBSET (1 .. n) /\ 1 .. k # {}
    BY WithoutTheLast, Zenon
  <2>2. index[k] = k
    OBVIOUS
  <2>3. g[1 .. k] = WriteByte(g[1 .. (k - 1)], at + k - 1, data[k])
    <3> HIDE DEF index, base
    <3> QED
      BY <1>6, <2>1, <2>2
  <2>4. k \in Nat \ {0}
    OBVIOUS
  <2> HIDE DEF index, base, V, R, step, Rec
  <2> QED
    BY <1>8, <2>3, <2>4, WrittenNext
<1> DEFINE Bad == {k \in 0 .. n : g[1 .. k] # Written(m, at, data, k)}
<1>9. ASSUME NEW b \in Bad, \A y \in Bad : b <= y PROVE FALSE
  <2>1. b # 0
    <3>1. 1 .. 0 = {}
      OBVIOUS
    <3> QED
      BY <1>7, <3>1
  <2>2. b \in 1 .. n /\ b - 1 \in 0 .. n
    BY <2>1
  <2>3. b - 1 \notin Bad
    BY <1>9, <2>2
  <2>4. g[1 .. (b - 1)] = Written(m, at, data, b - 1)
    BY <2>2, <2>3
  <2> QED
    BY <1>8, <2>2, <2>4
<1>10. Bad = {}
  <2>1. Bad \in SUBSET Nat
    OBVIOUS
  <2> HIDE DEF Bad
  <2> QED
    BY <1>9, <2>1, HasLeast
<1>11. n \in 0 .. n /\ n \notin Bad
  BY <1>10
<1>12. g[1 .. n] = Written(m, at, data, n)
  BY <1>11
<1> QED
  BY <1>6, <1>12

-----------------------------------------------------------------------------
(* The start.  What the loader publishes over memory that was all zero.     *)
View(on) ==
    [base |-> P.ldt, limit |-> [i \in Slot |-> SegmentSize - 1], is32 |-> [i \in Slot |-> FALSE],
     code |-> [i \in Slot |-> Marks(i) # {} /\ P.modules[LastMark(i)[1]][LastMark(i)[2]].exec],
     segment |-> [i \in Slot |-> IF Marks(i) = {} THEN 0 ELSE LastMark(i)[2]],
     apis |-> ApiTable, entry |-> EntryLinear, byte |-> P.bytes[EntryLinear], active |-> on,
     lx |-> P.lx, ready |-> TRUE]

WithInt3 == [P.bytes EXCEPT ![EntryLinear] = Int3Byte]
BehindEntry == [P.entry EXCEPT !.ip = @ + 1]

Connected == dpc \in {"awaittrap", "connect", "entry", "prompt"}

StartTypeOK ==
    /\ launch \in Launches
    /\ shm \in 0 .. 2
    /\ DOMAIN shared = {1, 2} /\ shared = [o \in {1, 2} |-> shared[o]]
    /\ sees \in [{"debugger", "loader"} -> 0 .. 2]

(* Where the loader is says where the debugger can be.                      *)
PlacesAgree ==
    /\ lpc \in {"none", "begin", "load", "raise", "run", "entered", "gone"}
    /\ lpc = "none" => dpc \in {"begin", "fork"} /\ child = "none"
    /\ lpc \in {"begin", "load", "raise"} => dpc = "awaitstop" /\ child = "runs"
    /\ lpc = "run" => \/ dpc = "awaitstop" /\ child = "stopped"
                      \/ dpc = "awaittrap" /\ (child = "runs" \/ (child = "stopped" /\ stop # "TRAP"))
    /\ lpc = "entered" => Connected /\ child = "stopped" /\ stop = "TRAP"
    /\ lpc = "gone" => (Connected \/ dpc \in {"awaitstop", "failed"}) /\ child = "exited"
    /\ dpc \in {"begin", "fork"} => lpc = "none"
    /\ dpc \notin {"awaitexec", "awaitexec2"}
    /\ dpc \in {"begin", "fork", "awaitstop"} => ~traced
    /\ Connected => traced

(* The INT3 is in the program from when the loader has put it there until   *)
(* the debugger takes it away.                                              *)
MemoryAgrees ==
    /\ bytes \in {P.bytes, WithInt3}
    /\ lpc \in {"none", "begin", "load"} => bytes = P.bytes
    /\ lpc \in {"raise", "run"} \/ (lpc = "entered" /\ dpc # "prompt") => bytes = WithInt3
    /\ lpc = "entered" /\ dpc # "prompt" => regs = BehindEntry
    /\ lpc = "entered" /\ dpc = "prompt" => bytes = P.bytes /\ regs = P.entry

(* All look at one object, and it is the one the loader has filled.         *)
ObjectsAgree ==
    /\ dpc # "begin" /\ lpc \in {"none", "begin"} =>
          IF launch.front = "main" THEN shm = 2 /\ shared[2] = Cleared /\ sees["debugger"] = 2 ELSE shm = 0
    /\ lpc = "load" => /\ shm = 2 /\ shared[2] = Cleared /\ sees["loader"] = 2
                       /\ launch.front = "main" => sees["debugger"] = 2
    /\ lpc \in {"raise", "run", "entered"} \/ Connected =>
          /\ shm = 2 /\ sees["loader"] = 2
          /\ launch.front = "main" \/ dpc \in {"entry", "prompt"} => sees["debugger"] = 2
          /\ shared[2] = View(TRUE) \/ (dpc = "prompt" /\ shared[2] = View(FALSE))
    /\ lpc = "entered" /\ dpc = "prompt" => shared[2] = View(FALSE)

(* A program that is none of OS/2 knows of no breakpoint.                   *)
NativeAgrees ==
    /\ lpc \in {"none", "exec", "exec2", "native", "gone"}
    /\ dpc \in {"begin", "fork", "awaitexec", "awaitexec2", "connect", "entry", "prompt", "failed"}
    /\ bytes = P.bytes
    /\ dpc \in {"fork", "awaitexec", "awaitexec2", "connect"} =>
          IF launch.front = "main" THEN shared[2] = Cleared /\ sees["debugger"] = 2 ELSE shm = 0
    /\ dpc = "entry" => shared[2] = Cleared /\ sees["debugger"] = 2

StartInv == StartTypeOK /\ IF launch.native THEN NativeAgrees ELSE PlacesAgree /\ MemoryAgrees /\ ObjectsAgree

(* The invariant holds when the debugger is started.                        *)
LEMMA StartInvInit == StartInit => StartInv
<1> SUFFICES ASSUME StartInit PROVE StartInv
  OBVIOUS
<1>1. StartTypeOK
  BY DEF StartInit, StartTypeOK
<1>2. PlacesAgree
  BY DEF StartInit, PlacesAgree, Connected
<1>3. MemoryAgrees
  BY DEF StartInit, MemoryAgrees
<1>4. ObjectsAgree
  BY DEF StartInit, ObjectsAgree, Connected
<1>5. NativeAgrees
  BY DEF StartInit, NativeAgrees
<1> QED
  BY <1>1, <1>2, <1>3, <1>4, <1>5 DEF StartInv

(* What is said of the program does not change while it is started.         *)
LEMMA ProgramStays ==
    ASSUME UNCHANGED launch
    PROVE  /\ UNCHANGED <<P, EntryLinear, WithInt3, BehindEntry>>
           /\ View(TRUE)' = View(TRUE) /\ View(FALSE)' = View(FALSE)
<1>1. UNCHANGED P
  BY DEF P
<1>2. UNCHANGED EntryLinear
  BY <1>1 DEF EntryLinear, LinearEntry
<1>3. UNCHANGED ApiTable
  BY <1>1 DEF ApiTable, ApiAddress, FoldLeft, MapThenFoldSet
<1>4. \A i \in Slot : Marks(i)' = Marks(i) /\ LastMark(i)' = LastMark(i)
  BY <1>1 DEF Marks, LastMark
<1>5. UNCHANGED <<WithInt3, BehindEntry>>
  BY <1>1, <1>2 DEF WithInt3, BehindEntry, Int3Byte
<1>6. View(TRUE)' = View(TRUE) /\ View(FALSE)' = View(FALSE)
  BY <1>1, <1>2, <1>3, <1>4 DEF View, Slot
<1> QED
  BY <1>1, <1>2, <1>5, <1>6

(* The entry of a loaded program is an address that has memory.             *)
LEMMA EntryIsThere ==
    ASSUME launch \in Launches
    PROVE  /\ EntryLinear \in Nat /\ EntryLinear \in DOMAIN P.bytes /\ Mapped(P.bytes, EntryLinear)
           /\ DOMAIN P.bytes \subseteq Nat /\ P.ldt \in [Slot -> Nat] /\ P.entry \in [cs : Nat, ip : Nat]
<1>1. Loaded(P)
  BY StartAssumption DEF P
<1>2. P.ldt \in [Slot -> Nat] /\ P.entry \in [cs : Nat, ip : Nat] /\ DOMAIN P.bytes \subseteq Nat
  BY <1>1 DEF Loaded
<1>3. LinearEntry(P) \in Nat
  BY <1>1 DEF Loaded, LinearEntry
<1>4. Mapped(P.bytes, LinearEntry(P))
  BY <1>1 DEF Loaded, Mapped
<1>5. LinearEntry(P) \in DOMAIN P.bytes
  <2>1. LinearEntry(P) \in WordOf(LinearEntry(P)) .. WordOf(LinearEntry(P)) + WordSize - 1
    BY <1>3, WordHolds, StartAssumption
  <2> QED
    BY <1>4, <2>1 DEF Mapped
<1> QED
  BY <1>2, <1>3, <1>4, <1>5 DEF EntryLinear

(* What LoaderPublishes writes is the view of the program.                  *)
LEMMA PublishedIsView ==
    ASSUME bytes = P.bytes
    PROVE  Published(Cleared) = View(TRUE)
BY DEF Published, Cleared, View

(* The loader and the kernel keep the invariant ...                         *)
LEMMA LoaderKeeps ==
    ASSUME StartInv, LoaderSteps \/ SignalComes
    PROVE  StartInv'
<1>1. UNCHANGED launch
  BY DEF LoaderSteps, SignalComes, LoaderOpens, LoadFails, LoaderPublishes, LoaderStops, EntryIsReached,
         Killed, NativeStops, NativeEnds, LoaderRest
<1>2. /\ UNCHANGED <<P, EntryLinear, WithInt3, BehindEntry>>
      /\ View(TRUE)' = View(TRUE) /\ View(FALSE)' = View(FALSE)
  BY <1>1, ProgramStays
<1>3. StartTypeOK'
  <2>1. CASE LoaderOpens
    BY <2>1 DEF LoaderOpens, OpenShared, CreateShared, LoaderRest, StartInv, StartTypeOK
  <2>2. CASE LoaderPublishes
    BY <2>2 DEF LoaderPublishes, LoaderRest, StartInv, StartTypeOK
  <2>3. CASE LoadFails \/ LoaderStops \/ EntryIsReached \/ Killed \/ NativeStops \/ NativeEnds \/ SignalComes
    BY <2>3, <1>1 DEF LoadFails, LoaderStops, EntryIsReached, Killed, NativeStops, NativeEnds, SignalComes,
                      LoaderRest, StartInv, StartTypeOK
  <2> QED
    BY <2>1, <2>2, <2>3 DEF LoaderSteps
<1>n. ASSUME launch.native PROVE NativeAgrees'
  <2>1. NativeAgrees /\ StartTypeOK
    BY <1>n DEF StartInv
  <2>2. NativeStops \/ NativeEnds
    BY <2>1 DEF NativeAgrees, LoaderSteps, LoaderOpens, LoadFails, LoaderPublishes, LoaderStops, EntryIsReached,
                Killed, SignalComes
  <2>3. Cleared' = Cleared
    BY DEF Cleared, Slot
  <2> QED
    BY <1>2, <2>1, <2>2, <2>3 DEF NativeAgrees, NativeStops, NativeEnds, LoaderRest
<1> SUFFICES ASSUME ~launch.native PROVE (PlacesAgree /\ MemoryAgrees /\ ObjectsAgree)'
  BY <1>1, <1>3, <1>n DEF StartInv
<1>4. PlacesAgree /\ MemoryAgrees /\ ObjectsAgree /\ StartTypeOK
  BY DEF StartInv
<1>5. CASE LoaderOpens
  <2>1. PlacesAgree'
    BY <1>4, <1>5 DEF LoaderOpens, LoaderRest, PlacesAgree, Connected
  <2>2. MemoryAgrees'
    BY <1>2, <1>4, <1>5 DEF LoaderOpens, LoaderRest, MemoryAgrees
  <2>3. ObjectsAgree'
    <3>1. /\ shm' = 2 /\ shared'[2] = Cleared /\ sees'["loader"] = 2
          /\ launch.front = "main" => sees'["debugger"] = 2
      BY <1>4, <1>5 DEF LoaderOpens, OpenShared, CreateShared, LoaderRest, ObjectsAgree, PlacesAgree, StartTypeOK
    <3>2. lpc' = "load" /\ dpc' = "awaitstop" /\ UNCHANGED launch
      BY <1>4, <1>5 DEF LoaderOpens, LoaderRest, PlacesAgree
    <3>3. Cleared' = Cleared
      BY DEF Cleared, Slot
    <3> QED
      BY <3>1, <3>2, <3>3 DEF ObjectsAgree, Connected
  <2> QED
    BY <2>1, <2>2, <2>3
<1>6. CASE LoaderPublishes
  <2>1. PlacesAgree'
    BY <1>4, <1>6 DEF LoaderPublishes, LoaderRest, PlacesAgree, Connected
  <2>2. MemoryAgrees'
    BY <1>2, <1>4, <1>6 DEF LoaderPublishes, LoaderRest, MemoryAgrees, WithInt3
  <2>3. ObjectsAgree'
    <3>1. sees["loader"] = 2 /\ shared[2] = Cleared /\ shm = 2 /\ bytes = P.bytes
      BY <1>4, <1>6 DEF LoaderPublishes, ObjectsAgree, MemoryAgrees
    <3>2. shared'[2] = View(TRUE)
      BY <1>4, <1>6, <3>1, PublishedIsView DEF LoaderPublishes, StartTypeOK
    <3>3. UNCHANGED <<shm, sees, launch, dpc>> /\ lpc' = "raise" /\ dpc = "awaitstop"
      BY <1>4, <1>6 DEF LoaderPublishes, LoaderRest, PlacesAgree
    <3>4. launch.front = "main" => sees["debugger"] = 2
      BY <1>4, <1>6 DEF LoaderPublishes, ObjectsAgree
    <3> QED
      BY <1>2, <3>1, <3>2, <3>3, <3>4 DEF ObjectsAgree, Connected
  <2> QED
    BY <2>1, <2>2, <2>3
<1>7. CASE LoadFails
  <2>1. PlacesAgree'
    BY <1>4, <1>7 DEF LoadFails, LoaderRest, PlacesAgree, Connected
  <2>2. MemoryAgrees'
    BY <1>2, <1>4, <1>7 DEF LoadFails, LoaderRest, MemoryAgrees
  <2>3. ObjectsAgree'
    BY <1>4, <1>7 DEF LoadFails, LoaderRest, ObjectsAgree, PlacesAgree, Connected
  <2> QED
    BY <2>1, <2>2, <2>3
<1>8. CASE LoaderStops
  <2>1. PlacesAgree'
    BY <1>4, <1>8 DEF LoaderStops, LoaderRest, PlacesAgree, Connected
  <2>2. MemoryAgrees'
    BY <1>2, <1>4, <1>8 DEF LoaderStops, LoaderRest, MemoryAgrees
  <2>3. ObjectsAgree'
    BY <1>2, <1>4, <1>8 DEF LoaderStops, LoaderRest, ObjectsAgree, Connected
  <2> QED
    BY <2>1, <2>2, <2>3
<1>9. CASE EntryIsReached
  <2>1. dpc = "awaittrap" /\ traced /\ bytes = WithInt3
    BY <1>4, <1>9 DEF EntryIsReached, PlacesAgree, MemoryAgrees, Connected
  <2>2. bytes[EntryLinear] = Int3Byte
    BY <1>4, <2>1, EntryIsThere DEF WithInt3, StartTypeOK
  <2>3. child' = "stopped" /\ stop' = "TRAP"
    BY <1>9, <2>1, <2>2 DEF EntryIsReached
  <2>4. PlacesAgree'
    BY <1>4, <1>9, <2>1, <2>3 DEF EntryIsReached, LoaderRest, PlacesAgree, Connected
  <2>5. MemoryAgrees'
    BY <1>2, <1>4, <1>9, <2>1 DEF EntryIsReached, LoaderRest, MemoryAgrees, BehindEntry
  <2>6. ObjectsAgree'
    BY <1>2, <1>4, <1>9, <2>1 DEF EntryIsReached, LoaderRest, ObjectsAgree, Connected
  <2> QED
    BY <2>4, <2>5, <2>6
<1>10. CASE Killed
  <2>1. PlacesAgree'
    BY <1>4, <1>10 DEF Killed, LoaderRest, PlacesAgree, Connected
  <2>2. MemoryAgrees'
    BY <1>2, <1>4, <1>10 DEF Killed, LoaderRest, MemoryAgrees
  <2>3. ObjectsAgree'
    BY <1>2, <1>4, <1>10 DEF Killed, LoaderRest, ObjectsAgree, Connected
  <2> QED
    BY <2>1, <2>2, <2>3
<1>11. CASE NativeStops \/ NativeEnds
  BY <1>4, <1>11 DEF NativeStops, NativeEnds, PlacesAgree
<1>12. CASE SignalComes
  <2>1. PlacesAgree'
    BY <1>4, <1>12 DEF SignalComes, PlacesAgree, Connected
  <2>2. MemoryAgrees'
    BY <1>2, <1>4, <1>12 DEF SignalComes, MemoryAgrees
  <2>3. ObjectsAgree'
    BY <1>2, <1>4, <1>12 DEF SignalComes, ObjectsAgree, Connected
  <2> QED
    BY <2>1, <2>2, <2>3
<1> QED
  BY <1>5, <1>6, <1>7, <1>8, <1>9, <1>10, <1>11, <1>12 DEF LoaderSteps

(* HandleEntry finds the INT3 with its own words and puts everything back.  *)
LEMMA EntryIsRestored ==
    ASSUME StartInv, ~launch.native, dpc = "entry", lpc = "entered"
    PROVE  /\ ptrace_write_memory(bytes, Of("debugger").entry, <<Of("debugger").byte>>)
                  = [ok |-> TRUE, mem |-> P.bytes]
           /\ BackOntoIt(Of("debugger"), regs) = P.entry
           /\ Of("debugger") = View(TRUE) /\ sees["debugger"] = 2
           /\ child = "stopped" /\ traced
<1>1. /\ StartTypeOK /\ PlacesAgree /\ MemoryAgrees /\ ObjectsAgree
  BY DEF StartInv
<1>2. sees["debugger"] = 2 /\ shared[2] = View(TRUE) /\ child = "stopped" /\ traced
  BY <1>1 DEF ObjectsAgree, PlacesAgree, Connected
<1>3. bytes = WithInt3 /\ regs = BehindEntry
  BY <1>1 DEF MemoryAgrees
<1>4. Of("debugger") = View(TRUE)
  BY <1>2 DEF Of
<1>5. /\ Loaded(P) /\ EntryLinear = LinearEntry(P) /\ P.entry \in [cs : Nat, ip : Nat] /\ P.ldt \in [Slot -> Nat]
      /\ EntryLinear \in Nat /\ EntryLinear \in DOMAIN P.bytes /\ Mapped(P.bytes, EntryLinear) /\ DOMAIN P.bytes \subseteq Nat
      /\ P.bytes = [a \in DOMAIN P.bytes |-> P.bytes[a]]
  BY <1>1, EntryIsThere, StartAssumption DEF StartTypeOK, P, Loaded, EntryLinear
<1>6. View(TRUE).entry = EntryLinear /\ View(TRUE).byte = P.bytes[EntryLinear] /\ View(TRUE).lx = P.lx /\ View(TRUE).base = P.ldt
  BY DEF View
<1>7. ptrace_write_memory(WithInt3, EntryLinear, <<P.bytes[EntryLinear]>>) = [ok |-> TRUE, mem |-> P.bytes]
  <2> DEFINE m == WithInt3
             v == P.bytes[EntryLinear]
  <2>1. DOMAIN m = DOMAIN P.bytes /\ m = [a \in DOMAIN m |-> m[a]]
    BY DEF WithInt3
  <2>2. Mapped(m, EntryLinear) /\ DOMAIN m \subseteq Int /\ EntryLinear \in Int
    BY <1>5, <2>1 DEF Mapped
  <2> HIDE DEF m, v
  <2>3. DOMAIN <<v>> = 1 .. 1 /\ 1 \in Nat
    OBVIOUS
  <2>4. ptrace_write_memory(m, EntryLinear, <<v>>) = Written(m, EntryLinear, <<v>>, 1)
    BY <2>1, <2>2, <2>3, WriteIsExact
  <2>5. \A a : a \in EntryLinear .. EntryLinear + 1 - 1 <=> a = EntryLinear
    BY <1>5
  <2>6. AllMapped(m, EntryLinear, EntryLinear) /\ AllMapped(m, EntryLinear, EntryLinear + 1 - 1)
    BY <1>5, <2>2, <2>5 DEF AllMapped
  <2>7. \A a \in DOMAIN m : (IF a \in EntryLinear .. EntryLinear + 1 - 1 /\ AllMapped(m, EntryLinear, a)
                              THEN <<v>>[a - EntryLinear + 1] ELSE m[a]) = P.bytes[a]
    BY <1>5, <2>1, <2>5, <2>6 DEF m, v, WithInt3
  <2>8. Written(m, EntryLinear, <<v>>, 1) = [ok |-> TRUE, mem |-> [a \in DOMAIN m |-> P.bytes[a]]]
    BY <2>6, <2>7 DEF Written
  <2> QED
    BY <1>5, <2>1, <2>4, <2>8 DEF m, v
<1>8. BackOntoIt(View(TRUE), BehindEntry) = P.entry
  <2>1. PICK cs \in Nat, ip \in Nat : P.entry = [cs |-> cs, ip |-> ip]
    BY <1>5
  <2>2. BehindEntry = [cs |-> cs, ip |-> ip + 1]
    BY <2>1 DEF BehindEntry
  <2>5. \A x : [[cs |-> cs, ip |-> ip + 1] EXCEPT !.ip = x] = [cs |-> cs, ip |-> x]
    OBVIOUS
  <2>3. CASE P.lx
    <3>1. EntryLinear = ip
      BY <1>5, <2>1, <2>3 DEF LinearEntry
    <3>2. BackOntoIt(View(TRUE), BehindEntry) = [BehindEntry EXCEPT !.ip = ip]
      BY <1>6, <2>3, <3>1 DEF BackOntoIt
    <3> QED
      BY <2>1, <2>2, <2>5, <3>2
  <2>4. CASE ~P.lx
    <3>1. cs \div 8 \in Slot /\ EntryLinear = P.ldt[cs \div 8] + ip
      BY <1>5, <2>1, <2>4 DEF LinearEntry, Loaded
    <3>2. ldt_get_selector_info(View(TRUE), cs).base = P.ldt[cs \div 8]
      BY <1>6, <3>1 DEF ldt_get_selector_info
    <3>3. P.ldt[cs \div 8] \in Nat
      BY <1>5, <3>1
    <3>4. BehindEntry.cs = cs
      BY <2>2
    <3>5. BackOntoIt(View(TRUE), BehindEntry) = [BehindEntry EXCEPT !.ip = EntryLinear - P.ldt[cs \div 8]]
      <4>1. ldt_get_selector_info(View(TRUE), BehindEntry.cs).base = P.ldt[cs \div 8] /\ ~(P.ldt[cs \div 8] = -1)
        <5>1. ~(P.ldt[cs \div 8] = -1)
          BY <3>3
        <5> QED
          BY <3>2, <3>4, <5>1, Zenon
      <4>2. View(TRUE).entry = EntryLinear /\ ~View(TRUE).lx
        BY <1>6, <2>4
      <4> QED
        BY <4>1, <4>2, Zenon DEF BackOntoIt
    <3>6. EntryLinear - P.ldt[cs \div 8] = ip
      BY <3>1, <3>3
    <3> QED
      BY <2>1, <2>2, <2>5, <3>5, <3>6
  <2> QED
    BY <2>3, <2>4
<1> QED
  BY <1>2, <1>3, <1>4, <1>6, <1>7, <1>8

(* ... and so does the debugger ...                                         *)
LEMMA DebuggerKeeps ==
    ASSUME StartInv, DebuggerSteps
    PROVE  StartInv'
<1>1. UNCHANGED launch
  BY DEF DebuggerSteps, Prepare, Fork, Attach, AwaitTrap, AwaitExec, Connect, HandleEntry, DebuggerRest
<1>2. /\ UNCHANGED <<P, EntryLinear, WithInt3, BehindEntry>>
      /\ View(TRUE)' = View(TRUE) /\ View(FALSE)' = View(FALSE)
  BY <1>1, ProgramStays
<1>3. StartTypeOK'
  <2>1. CASE Prepare
    BY <2>1 DEF Prepare, CreateShared, DebuggerRest, StartInv, StartTypeOK
  <2>2. CASE Connect
    BY <2>2 DEF Connect, OpenOrCreate, OpenShared, CreateShared, DebuggerRest, StartInv, StartTypeOK
  <2>3. CASE HandleEntry
    BY <2>3 DEF HandleEntry, DebuggerRest, StartInv, StartTypeOK
  <2>4. CASE Fork \/ Attach \/ AwaitTrap \/ AwaitExec
    BY <2>4, <1>1 DEF Fork, Attach, AwaitTrap, AwaitExec, DebuggerRest, StartInv, StartTypeOK
  <2> QED
    BY <2>1, <2>2, <2>3, <2>4 DEF DebuggerSteps
<1>n. ASSUME launch.native PROVE NativeAgrees'
  <2>1. NativeAgrees /\ StartTypeOK
    BY <1>n DEF StartInv
  <2>2. Cleared' = Cleared
    BY DEF Cleared, Slot
  <2>3. CASE Prepare
    BY <1>2, <2>1, <2>2, <2>3 DEF Prepare, CreateShared, DebuggerRest, NativeAgrees, StartTypeOK
  <2>4. CASE Fork
    BY <1>2, <1>n, <2>1, <2>2, <2>4 DEF Fork, NativeAgrees
  <2>5. CASE Attach \/ AwaitTrap
    BY <2>1, <2>5 DEF Attach, AwaitTrap, NativeAgrees
  <2>6. CASE AwaitExec
    BY <1>2, <2>1, <2>2, <2>6 DEF AwaitExec, DebuggerRest, NativeAgrees
  <2>7. CASE Connect
    <3>1. shared'[2] = Cleared /\ sees'["debugger"] = 2
      BY <2>1, <2>7 DEF Connect, OpenOrCreate, OpenShared, CreateShared, NativeAgrees, StartTypeOK
    <3> QED
      BY <1>2, <2>1, <2>2, <2>7, <3>1 DEF Connect, DebuggerRest, NativeAgrees
  <2>8. CASE HandleEntry
    <3>1. Of("debugger") = Cleared
      BY <2>1, <2>8 DEF HandleEntry, NativeAgrees, Of
    <3>2. ~Of("debugger").active
      BY <3>1 DEF Cleared
    <3>3. UNCHANGED <<bytes, lpc>> /\ dpc' = "prompt"
      BY <2>8, <3>2 DEF HandleEntry, DebuggerRest
    <3> QED
      BY <1>2, <2>1, <3>3 DEF NativeAgrees
  <2> QED
    BY <2>3, <2>4, <2>5, <2>6, <2>7, <2>8 DEF DebuggerSteps
<1> SUFFICES ASSUME ~launch.native PROVE (PlacesAgree /\ MemoryAgrees /\ ObjectsAgree)'
  BY <1>1, <1>3, <1>n DEF StartInv
<1>4. PlacesAgree /\ MemoryAgrees /\ ObjectsAgree /\ StartTypeOK
  BY DEF StartInv
<1>c. Cleared' = Cleared
  BY DEF Cleared, Slot
<1>5. CASE Prepare
  <2>1. PlacesAgree'
    BY <1>4, <1>5 DEF Prepare, DebuggerRest, PlacesAgree, Connected
  <2>2. MemoryAgrees'
    BY <1>2, <1>4, <1>5 DEF Prepare, DebuggerRest, MemoryAgrees, PlacesAgree
  <2>3. ObjectsAgree'
    <3>1. lpc' = "none" /\ dpc' = "fork" /\ UNCHANGED launch
      BY <1>4, <1>5 DEF Prepare, DebuggerRest, PlacesAgree
    <3>2. IF launch.front = "main" THEN shm' = 2 /\ shared'[2] = Cleared /\ sees'["debugger"] = 2 ELSE shm' = 0
      BY <1>4, <1>5 DEF Prepare, CreateShared, StartTypeOK
    <3> QED
      BY <1>c, <3>1, <3>2 DEF ObjectsAgree, Connected
  <2> QED
    BY <2>1, <2>2, <2>3
<1>6. CASE Fork
  <2>1. PlacesAgree'
    BY <1>4, <1>6 DEF Fork, PlacesAgree, Connected
  <2>2. MemoryAgrees'
    BY <1>2, <1>4, <1>6 DEF Fork, MemoryAgrees, PlacesAgree
  <2>3. ObjectsAgree'
    <3>1. lpc = "none" /\ lpc' = "begin" /\ dpc = "fork" /\ dpc' = "awaitstop" /\ UNCHANGED <<launch, shm, shared, sees>>
      BY <1>4, <1>6 DEF Fork, PlacesAgree
    <3> QED
      BY <1>c, <1>4, <3>1 DEF ObjectsAgree, Connected
  <2> QED
    BY <2>1, <2>2, <2>3
<1>7. CASE Attach
  <2>1. lpc = "run" \/ lpc = "gone"
    BY <1>4, <1>7 DEF Attach, PlacesAgree
  <2>2. PlacesAgree'
    BY <1>4, <1>7, <2>1 DEF Attach, DebuggerRest, PlacesAgree, Connected
  <2>3. MemoryAgrees'
    BY <1>2, <1>4, <1>7, <2>1 DEF Attach, DebuggerRest, MemoryAgrees
  <2>4. ObjectsAgree'
    BY <1>2, <1>4, <1>7, <2>1 DEF Attach, DebuggerRest, ObjectsAgree, PlacesAgree, Connected
  <2> QED
    BY <2>2, <2>3, <2>4
<1>8. CASE AwaitTrap
  <2>1. PlacesAgree'
    BY <1>4, <1>8 DEF AwaitTrap, DebuggerRest, PlacesAgree, Connected
  <2>2. MemoryAgrees'
    BY <1>2, <1>4, <1>8 DEF AwaitTrap, DebuggerRest, MemoryAgrees
  <2>3. ObjectsAgree'
    BY <1>2, <1>4, <1>8, <1>c DEF AwaitTrap, DebuggerRest, ObjectsAgree, Connected
  <2> QED
    BY <2>1, <2>2, <2>3
<1>9. CASE AwaitExec
  BY <1>4, <1>9 DEF AwaitExec, PlacesAgree
<1>10. CASE Connect
  <2>1. PlacesAgree'
    BY <1>4, <1>10 DEF Connect, DebuggerRest, PlacesAgree, Connected
  <2>2. MemoryAgrees'
    BY <1>2, <1>4, <1>10 DEF Connect, DebuggerRest, MemoryAgrees
  <2>3. /\ shm = 2 /\ sees["loader"] = 2 /\ shared[2] = View(TRUE)
        /\ launch.front = "main" => sees["debugger"] = 2
    BY <1>4, <1>10 DEF Connect, ObjectsAgree, Connected
  <2>4. UNCHANGED <<shm, shared, launch, lpc>> /\ sees'["loader"] = 2 /\ sees'["debugger"] = 2 /\ dpc' = "entry"
    BY <1>4, <1>10, <2>3 DEF Connect, OpenOrCreate, OpenShared, DebuggerRest, StartTypeOK
  <2>5. lpc \in {"entered", "gone"}
    BY <1>4, <1>10 DEF Connect, PlacesAgree
  <2>6. ObjectsAgree'
    BY <1>2, <2>3, <2>4, <2>5 DEF ObjectsAgree, Connected
  <2> QED
    BY <2>1, <2>2, <2>6
<1>11. CASE HandleEntry
  <2>1. PlacesAgree'
    BY <1>4, <1>11 DEF HandleEntry, DebuggerRest, PlacesAgree, Connected
  <2>2. lpc \in {"entered", "gone"} /\ dpc = "entry" /\ dpc' = "prompt" /\ UNCHANGED <<launch, lpc, shm, sees>>
    BY <1>4, <1>11 DEF HandleEntry, DebuggerRest, PlacesAgree
  <2>3. shm = 2 /\ sees["loader"] = 2 /\ sees["debugger"] = 2 /\ shared[2] = View(TRUE)
    BY <1>4, <2>2 DEF ObjectsAgree, Connected
  <2>4. CASE lpc = "entered"
    <3>1. bytes' = P.bytes /\ regs' = P.entry /\ shared' = [shared EXCEPT ![2].active = FALSE]
      <4>1. Of("debugger").active
        BY <2>2, <2>4, EntryIsRestored DEF View
      <4> QED
        <5> DEFINE w == ptrace_write_memory(bytes, Of("debugger").entry, <<Of("debugger").byte>>)
        <5>0. w = [ok |-> TRUE, mem |-> P.bytes]
          BY <2>2, <2>4, EntryIsRestored
        <5>1. w.ok /\ w.mem = P.bytes
          <6> HIDE DEF w
          <6> QED
            BY <5>0
        <5>2. child = "stopped" /\ traced /\ BackOntoIt(Of("debugger"), regs) = P.entry /\ sees["debugger"] = 2
          BY <2>2, <2>4, EntryIsRestored
        <5>3. /\ bytes' = w.mem
              /\ regs' = BackOntoIt(Of("debugger"), regs)
              /\ shared' = [shared EXCEPT ![sees["debugger"]].active = FALSE]
          BY <1>11, <4>1, <5>1, <5>2, Zenon DEF HandleEntry
        <5> HIDE DEF w
        <5> QED
          BY <5>1, <5>2, <5>3
    <3>2. [View(TRUE) EXCEPT !.active = FALSE] = View(FALSE)
      <4> DEFINE code == [i \in Slot |-> Marks(i) # {} /\ P.modules[LastMark(i)[1]][LastMark(i)[2]].exec]
                 segment == [i \in Slot |-> IF Marks(i) = {} THEN 0 ELSE LastMark(i)[2]]
                 limit == [i \in Slot |-> SegmentSize - 1]
                 is32 == [i \in Slot |-> FALSE]
                 ready == TRUE
                 v(t) == [base |-> P.ldt, limit |-> limit, is32 |-> is32, code |-> code, segment |-> segment,
                          apis |-> ApiTable, entry |-> EntryLinear, byte |-> P.bytes[EntryLinear], active |-> t,
                          lx |-> P.lx, ready |-> ready]
      <4>1. View(TRUE) = v(TRUE) /\ View(FALSE) = v(FALSE)
        BY Zenon DEF View
      <4> HIDE DEF code, segment, limit, is32, ready
      <4>2. [v(TRUE) EXCEPT !.active = FALSE] = v(FALSE)
        <5>1. ASSUME NEW t, NEW u PROVE [v(t) EXCEPT !.active = u] = v(u)
          OBVIOUS
        <5> HIDE DEF v
        <5> QED
          BY <5>1
      <4> HIDE DEF v
      <4> QED
        BY <4>1, <4>2
    <3>3. shared'[2] = View(FALSE)
      BY <1>4, <2>3, <3>1, <3>2 DEF StartTypeOK
    <3>4. MemoryAgrees'
      BY <1>2, <2>2, <2>4, <3>1 DEF MemoryAgrees
    <3>5. ObjectsAgree'
      BY <1>2, <2>2, <2>3, <2>4, <3>3 DEF ObjectsAgree, Connected
    <3> QED
      BY <2>1, <3>4, <3>5
  <2>5. CASE lpc = "gone"
    <3>1. UNCHANGED <<bytes, regs, shared>>
      BY <1>4, <1>11, <2>5 DEF HandleEntry, PlacesAgree
    <3>2. MemoryAgrees'
      BY <1>2, <1>4, <2>2, <2>5, <3>1 DEF MemoryAgrees
    <3>3. ObjectsAgree'
      BY <1>2, <2>2, <2>3, <2>5, <3>1 DEF ObjectsAgree, Connected
    <3> QED
      BY <2>1, <3>2, <3>3
  <2> QED
    BY <2>2, <2>4, <2>5
<1> QED
  BY <1>5, <1>6, <1>7, <1>8, <1>9, <1>10, <1>11 DEF DebuggerSteps

(* ... so that it is inductive.                                             *)
LEMMA StartInvStep == StartInv /\ [StartNext]_startVars => StartInv'
<1> SUFFICES ASSUME StartInv, [StartNext]_startVars PROVE StartInv'
  OBVIOUS
<1>1. CASE UNCHANGED startVars
  <2>1. /\ UNCHANGED <<P, EntryLinear, WithInt3, BehindEntry>>
        /\ View(TRUE)' = View(TRUE) /\ View(FALSE)' = View(FALSE)
    BY <1>1, ProgramStays DEF startVars
  <2>2. Cleared' = Cleared
    BY DEF Cleared, Slot
  <2>3. UNCHANGED StartTypeOK /\ UNCHANGED PlacesAgree
    BY <1>1 DEF startVars, StartTypeOK, PlacesAgree, Connected
  <2>4. UNCHANGED MemoryAgrees
    BY <1>1, <2>1 DEF startVars, MemoryAgrees
  <2>5. UNCHANGED ObjectsAgree
    BY <1>1, <2>1, <2>2 DEF startVars, ObjectsAgree, Connected
  <2>6. UNCHANGED NativeAgrees
    BY <1>1, <2>1, <2>2 DEF startVars, NativeAgrees
  <2> QED
    BY <1>1, <2>3, <2>4, <2>5, <2>6 DEF startVars, StartInv
<1> QED
  BY <1>1, LoaderKeeps, DebuggerKeeps DEF StartNext

(* At its first prompt a debugger has the program at its entry point, with  *)
(* its own bytes in memory, whichever front end started it and whatever an  *)
(* earlier session had left in the shared memory.                           *)
THEOREM StartsAtTheEntry == StartSpec => []ProgramStandsAtItsEntry
<1>1. StartInv => ProgramStandsAtItsEntry
  <2> SUFFICES ASSUME StartInv, dpc = "prompt", child = "stopped", ~launch.native
               PROVE  /\ bytes = P.bytes /\ regs = P.entry /\ traced
                      /\ ~Of("debugger").active
    BY DEF ProgramStandsAtItsEntry
  <2>1. PlacesAgree /\ MemoryAgrees /\ ObjectsAgree
    BY DEF StartInv
  <2>2. lpc = "entered" /\ traced
    BY <2>1 DEF PlacesAgree, Connected
  <2>3. bytes = P.bytes /\ regs = P.entry
    BY <2>1, <2>2 DEF MemoryAgrees
  <2>4. Of("debugger") = View(FALSE)
    BY <2>1, <2>2 DEF ObjectsAgree, Of
  <2> QED
    BY <2>2, <2>3, <2>4 DEF View
<1> QED
  BY <1>1, StartInvInit, StartInvStep, PTL DEF StartSpec

(* The last of the objects that have a slot is one of them.                 *)
LEMMA LastMarkMarks ==
    ASSUME launch \in Launches, NEW i \in Slot, Marks(i) # {}
    PROVE  LastMark(i) \in Marks(i)
<1>1. /\ Len(P.modules) \in Nat /\ DOMAIN P.modules = 1 .. Len(P.modules)
      /\ \A m \in DOMAIN P.modules : Len(P.modules[m]) \in Nat /\ DOMAIN P.modules[m] = 1 .. Len(P.modules[m])
  BY StartAssumption DEF P, Loaded, Listed
<1> DEFINE firsts == {x[1] : x \in Marks(i)}
           m == Max(firsts)
           seconds == {x[2] : x \in {y \in Marks(i) : y[1] = m}}
           k == Max(seconds)
<1>2. ASSUME NEW x \in Marks(i)
      PROVE  x = <<x[1], x[2]>> /\ x[1] \in DOMAIN P.modules /\ x[2] \in DOMAIN P.modules[x[1]]
  BY DEF Marks
<1>3. m \in firsts /\ \A x \in firsts : m >= x
  <2>1. firsts \in SUBSET (0 .. Len(P.modules)) /\ firsts # {}
    BY <1>1, <1>2
  <2> HIDE DEF firsts
  <2> QED
    BY <1>1, <2>1, MaxIsIn
<1>4. m \in DOMAIN P.modules
  BY <1>2, <1>3
<1>5. k \in seconds /\ \A x \in seconds : k >= x
  <2>1. seconds \in SUBSET (0 .. Len(P.modules[m])) /\ seconds # {}
    <3>1. seconds # {}
      BY <1>3
    <3>2. ASSUME NEW y \in Marks(i), y[1] = m PROVE y[2] \in 0 .. Len(P.modules[m])
      <4>1. y[2] \in DOMAIN P.modules[m] /\ m \in DOMAIN P.modules
        BY <1>2, <3>2, Zenon
      <4> HIDE DEF m
      <4> QED
        BY <1>1, <4>1
    <3> QED
      BY <3>1, <3>2
  <2> HIDE DEF seconds, m
  <2> QED
    BY <1>1, <1>4, <2>1, MaxIsIn
<1>6. PICK x \in Marks(i) : x[1] = m /\ x[2] = k
  BY <1>5
<1>7. ASSUME NEW y \in Marks(i) PROVE y[1] < x[1] \/ (y[1] = x[1] /\ y[2] <= x[2])
  <2>1. y[1] \in firsts /\ x[1] >= y[1] /\ y[1] \in Nat /\ x[1] \in Nat /\ y[2] \in Nat /\ x[2] \in Nat
    <3>1. y[1] \in firsts /\ x[1] \in firsts
      OBVIOUS
    <3>2. x[1] >= y[1]
      BY <1>3, <1>6, <3>1
    <3>3. y[1] \in Nat /\ x[1] \in Nat /\ y[2] \in Nat /\ x[2] \in Nat
      BY <1>1, <1>2
    <3> QED
      BY <3>1, <3>2, <3>3
  <2>2. y[1] = x[1] => x[2] >= y[2]
    BY <1>5, <1>6
  <2> HIDE DEF m, k, firsts
  <2> QED
    BY <2>1, <2>2
<1> QED
  BY <1>6, <1>7 DEF LastMark

(* Every entry of the table of names is an export, with its address.        *)
LEMMA ApisAreExports ==
    ASSUME launch \in Launches
    PROVE  ApiTable \in Seq({[name |-> e.name, addr |-> ApiAddress(e)] : e \in {P.exports[j] : j \in DOMAIN P.exports}})
<1> DEFINE n == Len(P.exports)
           E == {[name |-> e.name, addr |-> ApiAddress(e)] : e \in {P.exports[j] : j \in DOMAIN P.exports}}
           Next1(t, e) == IF Len(t) < MaxApiEntries /\ e.addr # 0 /\ e.name # "none" /\ ApiAddress(e) # 0
                          THEN Append(t, [name |-> e.name, addr |-> ApiAddress(e)]) ELSE t
           step == [p \in Seq(E) \X (1 .. n) |-> Next1(p[1], P.exports[p[2]])]
           Rec(g) == g = [s \in SUBSET (1 .. n) |->
                             IF s = {} THEN <<>> ELSE Next1(g[s \ {Max(s)}], P.exports[Max(s)])]
<1>1. n \in Nat /\ DOMAIN P.exports = 1 .. n
  BY StartAssumption DEF P, Loaded, Listed
<1>2. ASSUME NEW t \in Seq(E), NEW k \in 1 .. n PROVE Next1(t, P.exports[k]) \in Seq(E)
  <2>1. [name |-> P.exports[k].name, addr |-> ApiAddress(P.exports[k])] \in E
    BY <1>1
  <2> HIDE DEF E
  <2> QED
    BY <2>1
<1>3. ApiTable = (CHOOSE g : Rec(g))[1 .. n]
  BY <1>1 DEF ApiTable, FoldLeft, MapThenFoldSet
<1> HIDE DEF n, E, Next1
<1>4. step \in [Seq(E) \X (1 .. n) -> Seq(E)] /\ <<>> \in Seq(E)
  BY <1>2
<1>5. \E g : Rec(g)
  <2>1. PICK g : IsFold(g, Seq(E), <<>>, n, step)
    <3> HIDE DEF step, Rec
    <3> QED
      BY <1>1, <1>4, FoldExists
  <2>2. ASSUME NEW s \in SUBSET (1 .. n), s # {}
        PROVE  step[<<g[s \ {Max(s)}], Max(s)>>] = Next1(g[s \ {Max(s)}], P.exports[Max(s)])
    <3>1. Max(s) \in s
      <4>1. s \in SUBSET (0 .. n)
        BY <1>1
      <4> QED
        BY <1>1, <2>2, <4>1, MaxIsIn
    <3>2. Max(s) \in 1 .. n /\ s \ {Max(s)} \in SUBSET (1 .. n)
      BY <3>1
    <3>3. g[s \ {Max(s)}] \in Seq(E)
      BY <2>1, <3>2 DEF IsFold
    <3> QED
      BY <3>2, <3>3
  <2>3. /\ g = [s \in SUBSET (1 .. n) |-> g[s]]
        /\ \A s \in SUBSET (1 .. n) : g[s] = IF s = {} THEN <<>> ELSE step[<<g[s \ {Max(s)}], Max(s)>>]
    BY <2>1 DEF IsFold
  <2>4. \A s \in SUBSET (1 .. n) : g[s] = IF s = {} THEN <<>> ELSE Next1(g[s \ {Max(s)}], P.exports[Max(s)])
    BY <2>2, <2>3
  <2> HIDE DEF step
  <2> QED
    BY <2>3, <2>4
<1>6. PICK g : Rec(g) /\ ApiTable = g[1 .. n]
  <2> HIDE DEF Rec
  <2> QED
    BY <1>3, <1>5
<1>7. ASSUME NEW k \in 1 .. n, g[1 .. (k - 1)] \in Seq(E) PROVE g[1 .. k] \in Seq(E)
  <2>1. n \in Nat
    BY <1>1
  <2>2. Max(1 .. k) = k /\ (1 .. k) \ {k} = 1 .. (k - 1) /\ 1 .. k \in SUBSET (1 .. n) /\ 1 .. k # {}
    BY <2>1, WithoutTheLast, Zenon
  <2>3. g[1 .. k] = Next1(g[1 .. (k - 1)], P.exports[k])
    BY <1>6, <2>2
  <2> QED
    BY <1>2, <1>7, <2>3
<1>8. g[1 .. 0] \in Seq(E)
  <2>1. 1 .. 0 = {} /\ g[{}] = <<>>
    BY <1>6
  <2> QED
    BY <1>4, <2>1
<1> DEFINE Bad == {k \in 0 .. n : g[1 .. k] \notin Seq(E)}
<1>9. ASSUME NEW b \in Bad, \A y \in Bad : b <= y PROVE FALSE
  <2>1. b \in 1 .. n /\ b - 1 \in 0 .. n
    BY <1>1, <1>8
  <2>2. b - 1 \notin Bad
    BY <1>9, <2>1
  <2> QED
    BY <1>7, <2>1, <2>2
<1>10. Bad = {}
  <2>1. Bad \in SUBSET Nat
    BY <1>1
  <2> HIDE DEF Bad
  <2> QED
    BY <1>9, <2>1, HasLeast
<1>11. n \in 0 .. n /\ n \notin Bad
  BY <1>1, <1>10
<1>12. g[1 .. n] \in Seq(E)
  BY <1>11
<1> QED
  BY <1>6, <1>12 DEF E

(* What the debugger sees from the first prompt on.                         *)
LEMMA ViewAtPrompt ==
    ASSUME StartInv, dpc = "prompt", ~launch.native
    PROVE  /\ sees["debugger"] = sees["loader"]
           /\ launch \in Launches
           /\ Of("debugger").base = P.ldt
           /\ Of("debugger").limit = [i \in Slot |-> SegmentSize - 1]
           /\ Of("debugger").is32 = [i \in Slot |-> FALSE]
           /\ Of("debugger").code = [i \in Slot |-> Marks(i) # {} /\ P.modules[LastMark(i)[1]][LastMark(i)[2]].exec]
           /\ Of("debugger").segment = [i \in Slot |-> IF Marks(i) = {} THEN 0 ELSE LastMark(i)[2]]
           /\ Of("debugger").apis = ApiTable
<1>1. ObjectsAgree /\ StartTypeOK
  BY DEF StartInv
<1>2. sees["debugger"] = 2 /\ sees["loader"] = 2 /\ launch \in Launches
  BY <1>1 DEF ObjectsAgree, Connected, StartTypeOK
<1>3. Of("debugger") = View(TRUE) \/ Of("debugger") = View(FALSE)
  BY <1>1, <1>2 DEF ObjectsAgree, Connected, Of
<1>4. PICK on : Of("debugger") = View(on)
  BY <1>3
<1>5. View(on).base = P.ldt /\ View(on).apis = ApiTable
  BY DEF View
<1>6. /\ View(on).limit = [i \in Slot |-> SegmentSize - 1]
      /\ View(on).is32 = [i \in Slot |-> FALSE]
  BY DEF View
<1>7. View(on).code = [i \in Slot |-> Marks(i) # {} /\ P.modules[LastMark(i)[1]][LastMark(i)[2]].exec]
  BY DEF View
<1>8. View(on).segment = [i \in Slot |-> IF Marks(i) = {} THEN 0 ELSE LastMark(i)[2]]
  BY DEF View
<1> QED
  BY <1>2, <1>4, <1>5, <1>6, <1>7, <1>8, Zenon

(* The published segments and names are those of the program.               *)
LEMMA ViewFits == StartInv => ViewIsThePrograms
<1> SUFFICES ASSUME StartInv, dpc = "prompt", ~launch.native
             PROVE  ViewIsThePrograms
  BY DEF ViewIsThePrograms
<1> DEFINE s == Of("debugger")
<1>1. /\ sees["debugger"] = sees["loader"] /\ launch \in Launches /\ s.base = P.ldt
      /\ s.code = [i \in Slot |-> Marks(i) # {} /\ P.modules[LastMark(i)[1]][LastMark(i)[2]].exec]
      /\ s.segment = [i \in Slot |-> IF Marks(i) = {} THEN 0 ELSE LastMark(i)[2]]
      /\ s.apis = ApiTable
  BY ViewAtPrompt
<1> HIDE DEF s
<1>2. ASSUME NEW i \in Slot
      PROVE  /\ s.base[i] = P.ldt[i]
             /\ Marks(i) = {} => s.segment[i] = 0 /\ ~s.code[i]
             /\ Marks(i) # {} => \E m \in Marks(i) :
                   s.segment[i] = m[2] /\ s.code[i] = P.modules[m[1]][m[2]].exec
  <2>1. CASE Marks(i) = {}
    BY <1>1, <2>1
  <2>2. CASE Marks(i) # {}
    <3>1. LastMark(i) \in Marks(i)
      BY <1>1, <2>2, LastMarkMarks
    <3>2. s.segment[i] = LastMark(i)[2]
      BY <1>1, <2>2
    <3>3. s.code[i] = P.modules[LastMark(i)[1]][LastMark(i)[2]].exec
      <4>1. /\ LastMark(i)[1] \in DOMAIN P.modules
            /\ LastMark(i)[2] \in DOMAIN P.modules[LastMark(i)[1]]
        BY <3>1 DEF Marks
      <4>2. P.modules[LastMark(i)[1]][LastMark(i)[2]].exec \in BOOLEAN
        BY <1>1, <4>1, StartAssumption DEF P, Loaded
      <4>3. s.code[i] = (Marks(i) # {} /\ P.modules[LastMark(i)[1]][LastMark(i)[2]].exec)
        BY <1>1
      <4> QED
        BY <2>2, <4>2, <4>3
    <3> QED
      BY <1>1, <2>2, <3>1, <3>2, <3>3
  <2> QED
    BY <2>1, <2>2
<1>3. ASSUME NEW k \in DOMAIN s.apis
      PROVE  \E j \in DOMAIN P.exports : P.exports[j].name = s.apis[k].name /\ s.apis[k].addr = ApiAddress(P.exports[j])
  <2> DEFINE E == {[name |-> e.name, addr |-> ApiAddress(e)] : e \in {P.exports[j] : j \in DOMAIN P.exports}}
  <2>1. s.apis \in Seq(E)
    BY <1>1, ApisAreExports
  <2>2. s.apis[k] \in E
    <3> HIDE DEF E
    <3> QED
      BY <2>1
  <2> QED
    BY <2>2
<1> QED
  BY <1>1, <1>2, <1>3 DEF ViewIsThePrograms, s

(* The selector the debugger makes for a slot is one of the LDT, for it.    *)
LEMMA SelectorOfSlot ==
    ASSUME NEW i \in Nat
    PROVE  Selector(i) \in Nat /\ Selector(i) \div 8 = i /\ InLdt(Selector(i))
<1>1. Selector(i) = i * 8 + 7 /\ Selector(i) \in Nat
  BY DEF Selector
<1>2. (i * 8 + 7) \div 8 = i
  OBVIOUS
<1>3. (i * 8 + 7) \div 4 = 2 * i + 1
  OBVIOUS
<1>4. (2 * i + 1) % 2 = 1
  OBVIOUS
<1> QED
  BY <1>1, <1>2, <1>3, <1>4 DEF InLdt

(* An address in a segment leads to a selector, and that leads back to it.  *)
LEMMA AddressesLeadBack == StartInv => SelectorsLeadThereAndBack
<1> SUFFICES ASSUME StartInv, dpc = "prompt", ~launch.native,
                    NEW i \in Slot \ {0}, NEW off \in 0 .. SegmentSize - 1, P.ldt[i] # 0
             PROVE  LET s == Of("debugger")
                        a == ldt_selector_to_linear(s, Selector(i), off)
                    IN  /\ a = linearAddressFromSelectors(s, Selector(i), off)
                        /\ a = P.ldt[i] + off
                        /\ ldt_linear_to_selector(s, a) =
                              IF off < SegmentSize - 1 THEN [sel |-> Selector(i), off |-> off] ELSE NotFound
                        /\ ldt_get_segment_name(s, Selector(i)) \in {"CODE", "DATA"}
                        /\ ~ldt_is_32bit_segment(s, Selector(i))
  BY DEF SelectorsLeadThereAndBack
<1> DEFINE s == Of("debugger")
           sel == Selector(i)
           a == P.ldt[i] + off
<1>1. /\ launch \in Launches /\ s.base = P.ldt
      /\ s.limit = [j \in Slot |-> SegmentSize - 1] /\ s.is32 = [j \in Slot |-> FALSE]
  BY ViewAtPrompt
<1>2. /\ P.ldt \in [Slot -> Nat]
      /\ \A h, j \in Slot :
            h # j /\ P.ldt[h] # 0 /\ P.ldt[j] # 0 =>
                P.ldt[h] + SegmentSize <= P.ldt[j] \/ P.ldt[j] + SegmentSize <= P.ldt[h]
  BY <1>1, StartAssumption DEF P, Loaded
<1>3. i \in Nat /\ P.ldt[i] \in Nat /\ off \in Nat /\ off < SegmentSize /\ SegmentSize \in Nat
  BY <1>2, StartAssumption DEF Slot
<1>4. sel \in Nat /\ sel \div 8 = i /\ InLdt(sel)
  BY <1>3, SelectorOfSlot
<1> HIDE DEF s, sel
<1>5. ldt_selector_to_linear(s, sel, off) = a
  BY <1>1, <1>4 DEF ldt_selector_to_linear
<1>6. linearAddressFromSelectors(s, sel, off) = a
  <2>1. off % SegmentSize = off
    BY <1>3
  <2>2. ldt_get_selector_info(s, sel) = [base |-> P.ldt[i], is32 |-> FALSE]
    BY <1>1, <1>4 DEF ldt_get_selector_info
  <2> QED
    BY <1>3, <2>1, <2>2 DEF linearAddressFromSelectors
<1>7. SlotsWith(s, a) = IF off < SegmentSize - 1 THEN {i} ELSE {}
  <2>1. ASSUME NEW j \in Slot
        PROVE  s.base[j] # 0 /\ a >= s.base[j] /\ a < s.base[j] + s.limit[j] <=> j = i /\ off < SegmentSize - 1
    <3>1. s.base[j] = P.ldt[j] /\ s.limit[j] = SegmentSize - 1 /\ P.ldt[j] \in Nat
      BY <1>1, <1>2
    <3>2. CASE j = i
      BY <1>3, <3>1, <3>2
    <3>3. CASE j # i /\ P.ldt[j] # 0
      BY <1>2, <1>3, <3>1, <3>3
    <3> QED
      BY <3>1, <3>2, <3>3
  <2> QED
    BY <2>1 DEF SlotsWith
<1>8. ldt_linear_to_selector(s, a) = IF off < SegmentSize - 1 THEN [sel |-> sel, off |-> off] ELSE NotFound
  <2>1. CASE off < SegmentSize - 1
    <3>1. Min({i}) = i
      BY <1>3 DEF Min
    <3>2. a - s.base[i] = off
      BY <1>1, <1>3
    <3>3. SlotsWith(s, a) = {i} /\ sel = Selector(i)
      BY <1>7, <2>1 DEF sel
    <3> HIDE DEF a
    <3> QED
      BY <2>1, <3>1, <3>2, <3>3 DEF ldt_linear_to_selector
  <2>2. CASE ~(off < SegmentSize - 1)
    BY <1>7, <2>2 DEF ldt_linear_to_selector
  <2> QED
    BY <2>1, <2>2
<1>9. ldt_get_segment_name(s, sel) \in {"CODE", "DATA"} /\ ~ldt_is_32bit_segment(s, sel)
  BY <1>1, <1>4 DEF ldt_get_segment_name, ldt_is_32bit_segment
<1> QED
  BY <1>5, <1>6, <1>8, <1>9 DEF s, sel

(* What a debugger sees through the shared memory is the program it has     *)
(* started: its segments, its API names, and addresses that lead through a  *)
(* selector and back.                                                       *)
THEOREM TheViewIsRight == StartSpec => []DebuggerSeesTheProgram
<1>1. StartInv => DebuggerSeesTheProgram
  BY ViewFits, AddressesLeadBack DEF DebuggerSeesTheProgram
<1> QED
  BY <1>1, StartInvInit, StartInvStep, PTL DEF StartSpec

-----------------------------------------------------------------------------
(* Reads and writes of memory, whole words at a time.                        *)
(* Multiples of the word size are ordered as their factors are.             *)
LEMMA Larger ==
    ASSUME NEW x \in Int, NEW y \in Int, x <= y
    PROVE  x * WordSize \in Int /\ x * WordSize <= y * WordSize
<1>1. WordSize \in Nat
  BY StartAssumption
<1> HIDE DEF WordOf
<1>2. (y - x) * WordSize >= 0
  BY <1>1
<1> QED
  BY <1>1, <1>2

(* An address belongs to the word whose bounds it is within.                *)
LEMMA WordIs ==
    ASSUME NEW q \in Int, NEW a \in Int, q * WordSize <= a, a <= q * WordSize + WordSize - 1
    PROVE  a \div WordSize = q /\ WordOf(a) = q * WordSize
<1> DEFINE p == a \div WordSize
<1>1. p \in Int /\ p * WordSize <= a /\ a < p * WordSize + WordSize /\ WordSize \in Nat
  BY WordHolds, StartAssumption DEF WordOf
<1>2. q * WordSize \in Int
  BY <1>1
<1> HIDE DEF p
<1>3. CASE p < q
  <2>1. (p + 1) * WordSize <= q * WordSize
    BY <1>1, <1>3, Larger
  <2>2. (p + 1) * WordSize = p * WordSize + WordSize
    BY <1>1
  <2> QED
    BY <1>1, <1>2, <2>1, <2>2
<1>4. CASE q < p
  <2>1. (q + 1) * WordSize <= p * WordSize
    BY <1>1, <1>4, Larger
  <2>2. (q + 1) * WordSize = q * WordSize + WordSize
    BY <1>1
  <2> QED
    BY <1>1, <1>2, <2>1, <2>2
<1>5. CASE p = q
  BY <1>5 DEF p, WordOf
<1> QED
  BY <1>1, <1>3, <1>4, <1>5

(* The parts a transfer is made in follow each other and are each in one    *)
(* word: end[i] is the last byte of the first i of them.                    *)
FitsPart(p, at, before, last) ==
    /\ p = [word |-> p.word, from |-> p.from, to |-> p.to]
    /\ p.from = before + 1 /\ p.to = last /\ before < last /\ at <= p.from
    /\ p.word \in Int /\ p.word <= p.from /\ p.to <= p.word + WordSize - 1
    /\ \A a \in p.from .. p.to : WordOf(a) = p.word
    /\ WordOf(p.word) = p.word

FitsParts(at, len, n, end) ==
    /\ n \in Nat /\ DOMAIN PartsOf(at, len) = 1 .. n /\ end \in [0 .. n -> Int]
    /\ end[0] = at - 1 /\ end[n] = at + len - 1
    /\ \A i \in 1 .. n : FitsPart(PartsOf(at, len)[i], at, end[i - 1], end[i])

(* PartsOf cuts a transfer into such parts, all of it and in order.         *)
LEMMA PartsFit ==
    ASSUME NEW at \in Int, NEW len \in Nat \ {0}
    PROVE  \E n, end : FitsParts(at, len, n, end)
<1> DEFINE first == at \div WordSize
           last == (at + len - 1) \div WordSize
           n == last - first + 1
           base(i) == (first + i - 1) * WordSize
           end == [i \in 0 .. n |-> IF i = 0 THEN at - 1
                                    ELSE IF i = n THEN at + len - 1 ELSE base(i) + WordSize - 1]
           part(i) == PartsOf(at, len)[i]
<1>1. /\ first \in Int /\ last \in Int /\ WordSize \in Nat /\ WordSize > 0
      /\ first * WordSize <= at /\ at < first * WordSize + WordSize
      /\ last * WordSize <= at + len - 1 /\ at + len - 1 < last * WordSize + WordSize
      /\ first * WordSize \in Int /\ last * WordSize \in Int
  BY WordHolds, StartAssumption DEF WordOf
<1>2. first <= last
  <2> SUFFICES ASSUME last + 1 <= first PROVE FALSE
    BY <1>1
  <2>1. (last + 1) * WordSize <= first * WordSize
    <3> HIDE DEF first, last
    <3> QED
      BY <1>1, Larger
  <2> HIDE DEF first, last
  <2>2. (last + 1) * WordSize = last * WordSize + WordSize
    BY <1>1
  <2> QED
    BY <1>1, <2>1, <2>2
<1>3. Cardinality(first .. last) = n /\ n \in Nat \ {0} /\ Min(first .. last) = first
  <2> HIDE DEF first, last
  <2>1. Cardinality(first .. last) = last - first + 1
    BY <1>1, <1>2, FS_Interval
  <2>2. Min(first .. last) = first
    BY <1>1, <1>2 DEF Min
  <2> QED
    BY <1>1, <1>2, <2>1, <2>2
<1>4. /\ DOMAIN PartsOf(at, len) = 1 .. n
      /\ \A i \in 1 .. n : part(i) = [word |-> base(i), from |-> Max({at, base(i)}),
                                      to |-> Min({at + len - 1, base(i) + WordSize - 1})]
  <2>1. PartsOf(at, len) =
            [i \in 1 .. Cardinality(first .. last) |->
                LET w == Min(first .. last) + i - 1
                IN  [word |-> w * WordSize, from |-> Max({at, w * WordSize}),
                     to |-> Min({at + len - 1, w * WordSize + WordSize - 1})]]
    BY Zenon DEF PartsOf
  <2> HIDE DEF first, last
  <2> QED
    BY <1>3, <2>1
<1>5. \A x, y \in Int : /\ Max({x, y}) = IF x <= y THEN y ELSE x
                        /\ Min({x, y}) = IF x <= y THEN x ELSE y
  BY DEF Max, Min
<1> HIDE DEF first, last
<1>6. ASSUME NEW i \in 1 .. n
      PROVE  /\ base(i) \in Int
             /\ i = 1 => base(i) = first * WordSize
             /\ i # 1 => base(i) = base(i - 1) + WordSize /\ at < base(i)
             /\ i = n => base(i) = last * WordSize
             /\ i # n => base(i) + WordSize - 1 < at + len - 1
  <2>1. first + i - 1 \in Int /\ i \in Int
    BY <1>1
  <2>2. base(i) \in Int
    BY <1>1, <2>1
  <2>3. ASSUME i # 1 PROVE base(i) = base(i - 1) + WordSize /\ at < base(i)
    <3>1. (first + 1) * WordSize <= (first + i - 1) * WordSize
      BY <1>1, <2>1, <2>3, Larger
    <3>2. (first + 1) * WordSize = first * WordSize + WordSize
      BY <1>1
    <3>3. base(i) = base(i - 1) + WordSize
      <4>1. \A x, y \in Int : x = y + 1 => x * WordSize = y * WordSize + WordSize
        BY <1>1
      <4>2. first + i - 1 = (first + (i - 1) - 1) + 1 /\ first + (i - 1) - 1 \in Int
        BY <1>1, <2>1
      <4> QED
        BY <2>1, <4>1, <4>2
    <3> QED
      BY <1>1, <2>2, <3>1, <3>2, <3>3
  <2>4. ASSUME i # n PROVE base(i) + WordSize - 1 < at + len - 1
    <3>1. first + i - 1 <= last - 1
      BY <1>1, <2>4
    <3>2. (first + i - 1) * WordSize <= (last - 1) * WordSize
      BY <1>1, <2>1, <3>1, Larger
    <3>3. (last - 1) * WordSize = last * WordSize - WordSize
      BY <1>1
    <3> QED
      BY <1>1, <2>2, <3>2, <3>3
  <2>5. i = 1 => base(i) = first * WordSize
    <3>1. i = 1 => first + i - 1 = first
      BY <1>1
    <3> QED
      BY <3>1
  <2>6. i = n => base(i) = last * WordSize
    <3>1. i = n => first + i - 1 = last
      BY <1>1, <2>1
    <3> QED
      BY <3>1
  <2> QED
    BY <2>2, <2>3, <2>4, <2>5, <2>6
<1>7. end \in [0 .. n -> Int] /\ end[0] = at - 1 /\ end[n] = at + len - 1
  <2>1. ASSUME NEW i \in 0 .. n, i # 0 PROVE base(i) \in Int
    BY <1>6, <2>1
  <2> HIDE DEF base
  <2> QED
    BY <1>1, <1>3, <2>1
<1>8. ASSUME NEW i \in 1 .. n
      PROVE  FitsPart(PartsOf(at, len)[i], at, end[i - 1], end[i])
  <2> DEFINE p == PartsOf(at, len)[i]
  <2>1. /\ p = [word |-> p.word, from |-> p.from, to |-> p.to]
        /\ p.word = base(i) /\ p.from = Max({at, base(i)}) /\ p.to = Min({at + len - 1, base(i) + WordSize - 1})
    <3>1. p = [word |-> base(i), from |-> Max({at, base(i)}), to |-> Min({at + len - 1, base(i) + WordSize - 1})]
      <4> HIDE DEF base, n
      <4> QED
        BY <1>4
    <3> HIDE DEF base, p
    <3> QED
      BY <3>1
  <2>2. base(i) \in Int /\ at + len - 1 \in Int /\ base(i) + WordSize - 1 \in Int /\ i \in Int
    BY <1>1, <1>6
  <2>3. /\ p.from = IF at <= base(i) THEN base(i) ELSE at
        /\ p.to = IF at + len - 1 <= base(i) + WordSize - 1 THEN at + len - 1 ELSE base(i) + WordSize - 1
    <3> HIDE DEF base, p
    <3> QED
      BY <1>5, <2>1, <2>2
  <2>4. p.from = end[i - 1] + 1
    <3>1. CASE i = 1
      <4>1. base(i) = first * WordSize /\ end[i - 1] = at - 1
        BY <1>6, <1>7, <3>1
      <4> HIDE DEF base, p, end
      <4> QED
        BY <1>1, <2>2, <2>3, <4>1
    <3>2. CASE i # 1
      <4>1. base(i) = base(i - 1) + WordSize /\ at < base(i)
        BY <1>6, <3>2
      <4>2. i - 1 \in 1 .. n /\ i - 1 # n /\ i - 1 # 0
        BY <1>3, <3>2
      <4>3. end[i - 1] = base(i - 1) + WordSize - 1 /\ base(i - 1) \in Int
        BY <1>6, <4>2
      <4> HIDE DEF base, p, end
      <4> QED
        BY <1>1, <2>2, <2>3, <4>1, <4>3
    <3> QED
      BY <3>1, <3>2
  <2>5. p.to = end[i]
    <3>1. CASE i = n
      <4>1. base(i) = last * WordSize /\ end[i] = at + len - 1
        BY <1>6, <1>7, <3>1
      <4> HIDE DEF base, p, end
      <4> QED
        BY <1>1, <2>2, <2>3, <4>1
    <3>2. CASE i # n
      <4>1. base(i) + WordSize - 1 < at + len - 1
        BY <1>6, <3>2
      <4>2. end[i] = base(i) + WordSize - 1
        BY <3>2
      <4> HIDE DEF base, p, end
      <4> QED
        BY <1>1, <2>2, <2>3, <4>1, <4>2
    <3> QED
      BY <3>1, <3>2
  <2>6. at < base(i) + WordSize /\ base(i) <= at + len - 1
    <3>1. i = 1 \/ at < base(i)
      BY <1>6
    <3>2. i = n \/ base(i) + WordSize - 1 < at + len - 1
      BY <1>6
    <3>3. i = 1 => base(i) = first * WordSize
      BY <1>6
    <3>4. i = n => base(i) = last * WordSize
      BY <1>6
    <3> HIDE DEF base, n
    <3> QED
      BY <1>1, <2>2, <3>1, <3>2, <3>3, <3>4
  <2>7. at <= p.from /\ p.from <= p.to /\ p.from \in Int /\ p.to \in Int /\ base(i) <= p.from /\ p.to <= base(i) + WordSize - 1
    <3> HIDE DEF base, p
    <3> QED
      BY <1>1, <2>2, <2>3, <2>6
  <2>8. ASSUME NEW a \in Int, base(i) <= a, a <= base(i) + WordSize - 1 PROVE WordOf(a) = base(i)
    <3>1. first + i - 1 \in Int
      BY <1>1, <2>2
    <3> QED
      BY <2>8, <3>1, WordIs
  <2> HIDE DEF base, p, end
  <2>9. end[i - 1] < end[i]
    <3>1. end[i - 1] \in Int
      BY <1>3, <1>7
    <3> QED
      BY <2>4, <2>5, <2>7, <3>1
  <2>10. \A a \in p.from .. p.to : WordOf(a) = p.word
    BY <2>1, <2>2, <2>7, <2>8
  <2>11. WordOf(p.word) = p.word
    BY <1>1, <2>1, <2>2, <2>8
  <2> QED
    BY <2>1, <2>2, <2>4, <2>5, <2>7, <2>9, <2>10, <2>11 DEF p, FitsPart
<1>9. FitsParts(at, len, n, end)
  <2>1. n \in Nat
    BY <1>3
  <2> HIDE DEF n, end, base
  <2> QED
    BY <1>4, <1>7, <1>8, <2>1, Zenon DEF FitsParts
<1> QED
  BY <1>9

(* The bytes of a part are in memory if its word is.                        *)
LEMMA PartMapped ==
    ASSUME NEW m, NEW at \in Int, NEW from \in Int, NEW to \in Int, NEW word \in Int, at <= from, from <= to,
           \A a \in from .. to : WordOf(a) = word, WordOf(word) = word
    PROVE  /\ AllMapped(m, at, to) <=> AllMapped(m, at, from - 1) /\ Mapped(m, word)
           /\ \A a \in from .. to : AllMapped(m, at, a) <=> AllMapped(m, at, to)
<1>1. \A a \in from .. to : Mapped(m, a) <=> Mapped(m, word)
  BY DEF Mapped
<1>2. ASSUME NEW b \in from .. to
      PROVE  AllMapped(m, at, b) <=> AllMapped(m, at, from - 1) /\ Mapped(m, word)
  <2>1. \A a : a \in at .. b <=> a \in at .. from - 1 \/ a \in from .. b
    OBVIOUS
  <2>2. \A a \in from .. b : a \in from .. to
    OBVIOUS
  <2>3. from \in from .. b
    OBVIOUS
  <2> QED
    BY <1>1, <2>1, <2>2, <2>3, Zenon DEF AllMapped
<1>3. to \in from .. to
  OBVIOUS
<1> QED
  BY <1>2, <1>3, Zenon

(* ReadPart takes what was read up to a part to what is read with it ...    *)
LEMMA ReadPartNext ==
    ASSUME NEW m, NEW at \in Int, NEW from \in Int, NEW to \in Int, NEW word \in Int, at <= from, from <= to,
           \A a \in from .. to : WordOf(a) = word, WordOf(word) = word
    PROVE  ReadPart(m, ptrace_read_memory(m, at, from - at), [word |-> word, from |-> from, to |-> to])
               = ptrace_read_memory(m, at, to - at + 1)
<1> DEFINE r == ptrace_read_memory(m, at, from - at)
           p == [word |-> word, from |-> from, to |-> to]
           there == AllMapped(m, at, from - 1)
           had == [k \in 1 .. from - at |-> m[at + k - 1]]
           more == [k \in 1 .. to - from + 1 |-> m[from + k - 1]]
           all == [k \in 1 .. to - at + 1 |-> m[at + k - 1]]
           V == {m[a] : a \in DOMAIN m}
<1> SUFFICES ReadPart(m, r, p) = ptrace_read_memory(m, at, to - at + 1)
  OBVIOUS
<1>1. at + (from - at) - 1 = from - 1 /\ at + (to - at + 1) - 1 = to
  OBVIOUS
<1>2. AllMapped(m, at, to) <=> there /\ Mapped(m, word)
  BY PartMapped
<1>3. r = IF there THEN [ok |-> TRUE, got |-> had] ELSE [ok |-> FALSE, got |-> <<>>]
  BY <1>1 DEF ptrace_read_memory, AllMapped
<1>4. ptrace_read_memory(m, at, to - at + 1)
          = IF AllMapped(m, at, to) THEN [ok |-> TRUE, got |-> all] ELSE [ok |-> FALSE, got |-> <<>>]
  BY <1>1 DEF ptrace_read_memory, AllMapped
<1>5. CASE AllMapped(m, at, to)
  <2>1. ASSUME NEW a \in at .. to PROVE m[a] \in V
    <3>1. Mapped(m, a)
      BY <1>5 DEF AllMapped
    <3>2. a \in WordOf(a) .. WordOf(a) + WordSize - 1
      BY WordHolds, StartAssumption
    <3>3. a \in DOMAIN m
      BY <3>1, <3>2 DEF Mapped
    <3> QED
      BY <3>3
  <2>2. had \in Seq(V) /\ more \in Seq(V) /\ all \in Seq(V)
    <3>1. \A k \in 1 .. from - at : at + k - 1 \in at .. to
      OBVIOUS
    <3>2. \A k \in 1 .. to - from + 1 : from + k - 1 \in at .. to
      OBVIOUS
    <3>3. \A k \in 1 .. to - at + 1 : at + k - 1 \in at .. to
      OBVIOUS
    <3>4. from - at \in Nat /\ to - from + 1 \in Nat /\ to - at + 1 \in Nat
      OBVIOUS
    <3> HIDE DEF V
    <3>5. had \in [1 .. from - at -> V] /\ more \in [1 .. to - from + 1 -> V] /\ all \in [1 .. to - at + 1 -> V]
      BY <2>1, <3>1, <3>2, <3>3
    <3> HIDE DEF had, more, all
    <3> QED
      BY <3>4, <3>5
  <2> HIDE DEF V
  <2>3. Len(had) = from - at /\ Len(more) = to - from + 1 /\ Len(all) = to - at + 1
    BY <2>2
  <2>4. had \o more = all
    <3>1. \A k \in 1 .. from - at : had[k] = all[k]
      OBVIOUS
    <3>2. \A k \in 1 .. to - from + 1 : more[k] = all[(from - at) + k]
      <4>1. ASSUME NEW k \in 1 .. to - from + 1
            PROVE  (from - at) + k \in 1 .. to - at + 1 /\ at + ((from - at) + k) - 1 = from + k - 1
        OBVIOUS
      <4> QED
        BY <4>1
    <3> HIDE DEF had, more, all
    <3>3. had \o more \in Seq(V) /\ Len(had \o more) = Len(all)
      BY <2>2, <2>3
    <3>4. ASSUME NEW k \in 1 .. Len(all) PROVE (had \o more)[k] = all[k]
      <4>1. CASE k <= from - at
        <5>1. (had \o more)[k] = had[k]
          BY <2>2, <2>3, <4>1
        <5> QED
          BY <2>3, <3>1, <4>1, <5>1
      <4>2. CASE k > from - at
        <5>1. (had \o more)[k] = more[k - (from - at)] /\ k - (from - at) \in 1 .. to - from + 1 /\ k \in Int
          BY <2>2, <2>3, <4>2, SMTT(30)
        <5>2. (from - at) + (k - (from - at)) = k
          BY <5>1
        <5> QED
          BY <3>2, <5>1, <5>2
      <4> QED
        BY <2>3, <4>1, <4>2
    <3> QED
      BY <2>2, <3>3, <3>4, SeqEqual
  <2>5. r = [ok |-> TRUE, got |-> had]
    BY <1>2, <1>3, <1>5
  <2> HIDE DEF r, had, all, there
  <2>6. ReadPart(m, r, p) = [ok |-> TRUE, got |-> had \o more]
    BY <1>2, <1>5, <2>5 DEF ReadPart
  <2> QED
    BY <1>4, <1>5, <2>4, <2>6
<1>6. CASE ~AllMapped(m, at, to)
  <2>1. ~r.ok \/ ~Mapped(m, word)
    BY <1>2, <1>3, <1>6
  <2>2. ReadPart(m, r, p) = [ok |-> FALSE, got |-> <<>>]
    BY <2>1 DEF ReadPart
  <2> HIDE DEF r, p, all
  <2> QED
    BY <1>4, <1>6, <2>2
<1> QED
  BY <1>5, <1>6

(* ... and WritePart what was written up to a part to what is written with it.*)
LEMMA WritePartNext ==
    ASSUME NEW m, NEW at \in Int, NEW data, NEW from \in Int, NEW to \in Int, NEW word \in Int, at <= from, from <= to,
           DOMAIN m \subseteq Int, word <= from, to <= word + WordSize - 1,
           \A a \in from .. to : WordOf(a) = word, WordOf(word) = word
    PROVE  WritePart(at, data, Written(m, at, data, from - at), [word |-> word, from |-> from, to |-> to])
               = Written(m, at, data, to - at + 1)
<1> DEFINE r == Written(m, at, data, from - at)
           p == [word |-> word, from |-> from, to |-> to]
           M == r.mem
           new == [k \in 0 .. WordSize - 1 |->
                     IF p.word + k \in p.from .. p.to THEN data[p.word + k - at + 1] ELSE M[p.word + k]]
<1> SUFFICES WritePart(at, data, r, p) = Written(m, at, data, to - at + 1)
  OBVIOUS
<1>1. /\ r = [ok |-> r.ok, mem |-> M] /\ DOMAIN M = DOMAIN m /\ WordSize \in Nat
      /\ r.ok = AllMapped(m, at, at + (from - at) - 1)
  BY StartAssumption DEF Written
<1>2. at + (from - at) - 1 = from - 1 /\ at + (to - at + 1) - 1 = to
  OBVIOUS
<1>3. /\ AllMapped(m, at, to) <=> AllMapped(m, at, from - 1) /\ Mapped(m, word)
      /\ \A a \in from .. to : AllMapped(m, at, a) <=> AllMapped(m, at, to)
  BY PartMapped
<1>4. Mapped(M, word) <=> Mapped(m, word)
  BY <1>1 DEF Mapped
<1>5. \A a \in DOMAIN m : M[a] = IF a \in at .. from - 1 /\ AllMapped(m, at, a) THEN data[a - at + 1] ELSE m[a]
  BY <1>2 DEF Written
<1>6. CASE AllMapped(m, at, to)
  <2>1. r.ok /\ Mapped(M, word)
    BY <1>1, <1>2, <1>3, <1>4, <1>6
  <2>3. Poke(M, word, new) = [a \in DOMAIN m |-> IF a \in word .. word + WordSize - 1 THEN new[a - word] ELSE M[a]]
    BY <1>1 DEF Poke
  <2>4. ASSUME NEW a \in DOMAIN m
        PROVE  (IF a \in word .. word + WordSize - 1 THEN new[a - word] ELSE M[a])
                   = IF a \in at .. to /\ AllMapped(m, at, a) THEN data[a - at + 1] ELSE m[a]
    <3>1. a \in Int
      OBVIOUS
    <3>2. CASE a \in from .. to
      <4>1. a - word \in 0 .. WordSize - 1 /\ a \in word .. word + WordSize - 1 /\ word + (a - word) = a /\ a \in at .. to
        BY <1>1, <3>2
      <4>2. new[a - word] = data[a - at + 1]
        BY <3>2, <4>1
      <4>3. AllMapped(m, at, a)
        BY <1>3, <1>6, <3>2
      <4> HIDE DEF new, M
      <4> QED
        BY <4>1, <4>2, <4>3
    <3>3. CASE a \notin from .. to
      <4>1. a \in word .. word + WordSize - 1 => new[a - word] = M[a]
        <5>1. ASSUME a \in word .. word + WordSize - 1
              PROVE  a - word \in 0 .. WordSize - 1 /\ word + (a - word) = a
          BY <1>1, <5>1
        <5> HIDE DEF M
        <5> QED
          BY <3>3, <5>1
      <4>2. a \in at .. to <=> a \in at .. from - 1
        BY <3>1, <3>3
      <4> HIDE DEF new, M
      <4> QED
        BY <1>5, <4>1, <4>2
    <3> QED
      BY <3>2, <3>3
  <2>5. WritePart(at, data, r, p) = [ok |-> TRUE, mem |-> Poke(M, word, new)]
    BY <2>1 DEF WritePart
  <2>6. Poke(M, word, new) = [a \in DOMAIN m |-> IF a \in at .. to /\ AllMapped(m, at, a) THEN data[a - at + 1] ELSE m[a]]
    <3> HIDE DEF new, M
    <3> QED
      BY <2>3, <2>4
  <2> HIDE DEF new, M, r, p
  <2> QED
    BY <1>2, <1>6, <2>5, <2>6 DEF Written
<1>7. CASE ~AllMapped(m, at, to)
  <2>2. WritePart(at, data, r, p) = [ok |-> FALSE, mem |-> M]
    BY <1>1, <1>2, <1>3, <1>4, <1>7 DEF WritePart
  <2>3. ASSUME NEW a \in DOMAIN m
        PROVE  M[a] = IF a \in at .. to /\ AllMapped(m, at, a) THEN data[a - at + 1] ELSE m[a]
    <3>1. CASE a \in from .. to
      BY <1>3, <1>5, <1>7, <3>1
    <3>2. CASE a \notin from .. to
      <4>1. a \in at .. to <=> a \in at .. from - 1
        BY <3>2
      <4> HIDE DEF M
      <4> QED
        BY <1>5, <4>1
    <3> QED
      BY <3>1, <3>2
  <2>4. M = [a \in DOMAIN m |-> M[a]]
    BY DEF Written
  <2>5. M = [a \in DOMAIN m |-> IF a \in at .. to /\ AllMapped(m, at, a) THEN data[a - at + 1] ELSE m[a]]
    <3> HIDE DEF M
    <3> QED
      BY <2>3, <2>4
  <2>6. AllMapped(m, at, to) = FALSE
    BY <1>7 DEF AllMapped
  <2> HIDE DEF M, r, p, new
  <2> QED
    BY <1>2, <2>2, <2>5, <2>6 DEF Written
<1> QED
  BY <1>6, <1>7

(* The pair that moves whole words reads what the other reads ...           *)
LEMMA ReadsAgree ==
    ASSUME NEW m, NEW at \in Int, NEW len \in Nat \ {0}
    PROVE  ptrace_read_mem(m, at, len) = ptrace_read_memory(m, at, len)
<1>1. PICK n, end : FitsParts(at, len, n, end)
  BY PartsFit
<1> DEFINE V == {m[a] : a \in DOMAIN m}
           R == [ok : BOOLEAN, got : Seq(V)]
           base == [ok |-> TRUE, got |-> <<>>]
           part(i) == PartsOf(at, len)[i]
           step == [p \in R \X (1 .. n) |-> ReadPart(m, p[1], part(p[2]))]
           Rec(g) == g = [s \in SUBSET (1 .. n) |->
                             IF s = {} THEN base ELSE ReadPart(m, g[s \ {Max(s)}], part(Max(s)))]
<1>2. /\ n \in Nat /\ DOMAIN PartsOf(at, len) = 1 .. n /\ end \in [0 .. n -> Int]
      /\ end[0] = at - 1 /\ end[n] = at + len - 1
  BY <1>1 DEF FitsParts
<1>3. ASSUME NEW i \in 1 .. n
      PROVE  /\ part(i) = [word |-> part(i).word, from |-> part(i).from, to |-> part(i).to]
             /\ part(i).from = end[i - 1] + 1 /\ part(i).to = end[i] /\ end[i - 1] < end[i] /\ at <= part(i).from
             /\ part(i).word \in Int /\ part(i).word <= part(i).from /\ part(i).to <= part(i).word + WordSize - 1
             /\ \A a \in part(i).from .. part(i).to : WordOf(a) = part(i).word
             /\ WordOf(part(i).word) = part(i).word
             /\ end[i - 1] \in Int /\ end[i] \in Int
  <2>1. FitsPart(part(i), at, end[i - 1], end[i])
    BY <1>1 DEF FitsParts
  <2> HIDE DEF part
  <2> QED
    BY <1>2, <2>1 DEF FitsPart
<1> HIDE DEF part
<1>4. ASSUME NEW r \in R, NEW i \in 1 .. n PROVE ReadPart(m, r, part(i)) \in R
  <2> DEFINE p == part(i)
             more == [k \in 1 .. p.to - p.from + 1 |-> m[p.from + k - 1]]
  <2>1. CASE Mapped(m, p.word) /\ r.ok
    <3>1. p.from \in Int /\ p.to \in Int /\ p.word \in Int /\ p.word <= p.from /\ p.to <= p.word + WordSize - 1 /\ p.from <= p.to
      BY <1>3
    <3>2. p.word .. p.word + WordSize - 1 \subseteq DOMAIN m
      BY <1>3, <2>1 DEF Mapped
    <3> HIDE DEF p
    <3>3. ASSUME NEW k \in 1 .. p.to - p.from + 1 PROVE m[p.from + k - 1] \in V
      <4>1. p.from + k - 1 \in p.word .. p.word + WordSize - 1
        BY <3>1, StartAssumption
      <4> QED
        BY <3>2, <4>1
    <3>4. more \in Seq(V)
      <4>1. p.to - p.from + 1 \in Nat
        BY <3>1
      <4> HIDE DEF V
      <4> QED
        BY <3>3, <4>1
    <3> HIDE DEF V, more
    <3>5. r.got \o more \in Seq(V)
      BY <3>4
    <3> QED
      BY <2>1, <3>5 DEF ReadPart, more, p
  <2>2. CASE ~(Mapped(m, p.word) /\ r.ok)
    BY <2>2 DEF ReadPart
  <2> QED
    BY <2>1, <2>2
<1>5. step \in [R \X (1 .. n) -> R] /\ base \in R
  <2>1. base \in R
    OBVIOUS
  <2> HIDE DEF R
  <2> QED
    BY <1>4, <2>1
<1>6. ptrace_read_mem(m, at, len) = (CHOOSE g : Rec(g))[1 .. n]
  BY <1>2 DEF ptrace_read_mem, FoldLeft, MapThenFoldSet, part
<1> HIDE DEF R, base
<1>7. \E g : Rec(g)
  <2>1. PICK g : IsFold(g, R, base, n, step)
    <3> HIDE DEF step, Rec
    <3> QED
      BY <1>2, <1>5, FoldExists
  <2>2. ASSUME NEW s \in SUBSET (1 .. n), s # {}
        PROVE  step[<<g[s \ {Max(s)}], Max(s)>>] = ReadPart(m, g[s \ {Max(s)}], part(Max(s)))
    <3>1. Max(s) \in s
      <4>1. s \in SUBSET (0 .. n)
        BY <1>2
      <4> QED
        BY <1>2, <2>2, <4>1, MaxIsIn
    <3>2. Max(s) \in 1 .. n /\ s \ {Max(s)} \in SUBSET (1 .. n)
      BY <3>1
    <3>3. g[s \ {Max(s)}] \in R
      BY <2>1, <3>2 DEF IsFold
    <3> QED
      BY <3>2, <3>3
  <2>3. /\ g = [s \in SUBSET (1 .. n) |-> g[s]]
        /\ \A s \in SUBSET (1 .. n) : g[s] = IF s = {} THEN base ELSE step[<<g[s \ {Max(s)}], Max(s)>>]
    BY <2>1 DEF IsFold
  <2>4. \A s \in SUBSET (1 .. n) : g[s] = IF s = {} THEN base ELSE ReadPart(m, g[s \ {Max(s)}], part(Max(s)))
    BY <2>2, <2>3
  <2> HIDE DEF step
  <2> QED
    BY <2>3, <2>4
<1>8. PICK g : Rec(g) /\ ptrace_read_mem(m, at, len) = g[1 .. n]
  <2> HIDE DEF Rec
  <2> QED
    BY <1>6, <1>7
<1> DEFINE Goal(i) == g[1 .. i] = ptrace_read_memory(m, at, end[i] - at + 1)
<1>9. ASSUME NEW i \in 1 .. n, Goal(i - 1) PROVE Goal(i)
  <2>1. n \in Nat
    BY <1>2
  <2>2. Max(1 .. i) = i /\ (1 .. i) \ {i} = 1 .. (i - 1) /\ 1 .. i \in SUBSET (1 .. n) /\ 1 .. i # {}
    BY <2>1, WithoutTheLast, Zenon
  <2>3. g[1 .. i] = ReadPart(m, g[1 .. (i - 1)], part(i))
    BY <1>8, <2>2
  <2> DEFINE from == part(i).from
             to == part(i).to
             word == part(i).word
  <2>4. /\ from \in Int /\ to \in Int /\ word \in Int /\ at <= from /\ from <= to
        /\ \A a \in from .. to : WordOf(a) = word
        /\ WordOf(word) = word
        /\ part(i) = [word |-> word, from |-> from, to |-> to]
        /\ end[i - 1] - at + 1 = from - at /\ end[i] = to
    BY <1>3
  <2> HIDE DEF from, to, word
  <2>5. ReadPart(m, ptrace_read_memory(m, at, from - at), [word |-> word, from |-> from, to |-> to])
            = ptrace_read_memory(m, at, to - at + 1)
    <3> HIDE DEF Rec, Goal, part
    <3> QED
      BY <2>4, ReadPartNext, SMTT(30)
  <2> QED
    BY <1>9, <2>3, <2>4, <2>5
<1>10. Goal(0)
  <2>1. 1 .. 0 = {} /\ g[{}] = base /\ end[0] - at + 1 = 0
    BY <1>2, <1>8
  <2>2. ptrace_read_memory(m, at, 0) = [ok |-> TRUE, got |-> <<>>]
    <3>1. \A a : a \notin at .. at + 0 - 1
      OBVIOUS
    <3>2. [k \in 1 .. 0 |-> m[at + k - 1]] = <<>>
      OBVIOUS
    <3> QED
      BY <3>1, <3>2 DEF ptrace_read_memory
  <2> QED
    BY <2>1, <2>2 DEF base
<1> DEFINE Bad == {i \in 0 .. n : ~Goal(i)}
<1> HIDE DEF Goal
<1>11. ASSUME NEW b \in Bad, \A y \in Bad : b <= y PROVE FALSE
  <2>1. b \in 1 .. n /\ b - 1 \in 0 .. n
    BY <1>2, <1>10
  <2>2. b - 1 \notin Bad
    BY <1>11, <2>1
  <2> QED
    BY <1>9, <2>1, <2>2
<1>12. Bad = {}
  <2>1. Bad \in SUBSET Nat
    BY <1>2
  <2> HIDE DEF Bad
  <2> QED
    BY <1>11, <2>1, HasLeast
<1>13. Goal(n)
  <2>1. n \in 0 .. n /\ n \notin Bad
    BY <1>2, <1>12
  <2> QED
    BY <2>1
<1>14. end[n] - at + 1 = len
  BY <1>2
<1> QED
  BY <1>8, <1>13, <1>14 DEF Goal

(* ... and writes what the other writes.                                    *)
LEMMA WritesAgree ==
    ASSUME NEW m, m = [a \in DOMAIN m |-> m[a]], DOMAIN m \subseteq Int, NEW at \in Int,
           NEW data, NEW len \in Nat \ {0}, Len(data) = len, data # <<>>
    PROVE  ptrace_write_mem(m, at, data) = Written(m, at, data, len)
<1>1. PICK n, end : FitsParts(at, len, n, end)
  BY PartsFit
<1> DEFINE V == {m[a] : a \in DOMAIN m} \cup {data[a] : a \in Int}
           R == [ok : BOOLEAN, mem : [DOMAIN m -> V]]
           base == [ok |-> TRUE, mem |-> m]
           part(i) == PartsOf(at, len)[i]
           step == [p \in R \X (1 .. n) |-> WritePart(at, data, p[1], part(p[2]))]
           Rec(g) == g = [s \in SUBSET (1 .. n) |->
                             IF s = {} THEN base ELSE WritePart(at, data, g[s \ {Max(s)}], part(Max(s)))]
<1>2. /\ n \in Nat /\ DOMAIN PartsOf(at, len) = 1 .. n /\ end \in [0 .. n -> Int]
      /\ end[0] = at - 1 /\ end[n] = at + len - 1
  BY <1>1 DEF FitsParts
<1>3. ASSUME NEW i \in 1 .. n
      PROVE  /\ part(i) = [word |-> part(i).word, from |-> part(i).from, to |-> part(i).to]
             /\ part(i).from = end[i - 1] + 1 /\ part(i).to = end[i] /\ end[i - 1] < end[i] /\ at <= part(i).from
             /\ part(i).word \in Int /\ part(i).word <= part(i).from /\ part(i).to <= part(i).word + WordSize - 1
             /\ \A a \in part(i).from .. part(i).to : WordOf(a) = part(i).word
             /\ WordOf(part(i).word) = part(i).word
             /\ end[i - 1] \in Int /\ end[i] \in Int
  <2>1. FitsPart(part(i), at, end[i - 1], end[i])
    BY <1>1 DEF FitsParts
  <2> HIDE DEF part
  <2> QED
    BY <1>2, <2>1 DEF FitsPart
<1> HIDE DEF part
<1>4. ASSUME NEW r \in R, NEW i \in 1 .. n PROVE WritePart(at, data, r, part(i)) \in R
  <2> DEFINE p == part(i)
             new == [k \in 0 .. WordSize - 1 |->
                        IF p.word + k \in p.from .. p.to THEN data[p.word + k - at + 1] ELSE r.mem[p.word + k]]
  <2>0. r.mem \in [DOMAIN m -> V] /\ DOMAIN r.mem = DOMAIN m
    OBVIOUS
  <2>1. CASE Mapped(r.mem, p.word) /\ r.ok
    <3>1. p.word \in Int /\ WordOf(p.word) = p.word
      BY <1>3
    <3>2. p.word .. p.word + WordSize - 1 \subseteq DOMAIN m
      BY <2>0, <2>1, <3>1 DEF Mapped
    <3> HIDE DEF p
    <3>3. ASSUME NEW k \in 0 .. WordSize - 1 PROVE new[k] \in V
      <4>1. p.word + k \in p.word .. p.word + WordSize - 1
        BY <3>1, StartAssumption
      <4>2. r.mem[p.word + k] \in V
        <5> HIDE DEF V, R
        <5> QED
          BY <2>0, <3>2, <4>1
      <4>3. p.word + k - at + 1 \in Int
        BY <3>1
      <4>4. data[p.word + k - at + 1] \in V
        BY <4>3
      <4> HIDE DEF V
      <4> QED
        BY <4>2, <4>4
    <3>4. Poke(r.mem, p.word, new) \in [DOMAIN m -> V]
      <4>1. ASSUME NEW a \in DOMAIN m
            PROVE  (IF a \in p.word .. p.word + WordSize - 1 THEN new[a - p.word] ELSE r.mem[a]) \in V
        <5>1. a \in p.word .. p.word + WordSize - 1 => a - p.word \in 0 .. WordSize - 1
          BY <3>1, StartAssumption
        <5> HIDE DEF V, new, R
        <5> QED
          BY <2>0, <3>3, <5>1
      <4> HIDE DEF V, new, R
      <4> QED
        BY <2>0, <4>1 DEF Poke
    <3>5. WritePart(at, data, r, p) = [ok |-> TRUE, mem |-> Poke(r.mem, p.word, new)]
      BY <2>1 DEF WritePart
    <3> HIDE DEF V, new
    <3> QED
      BY <3>4, <3>5 DEF p
  <2>2. CASE ~(Mapped(r.mem, p.word) /\ r.ok)
    <3>1. WritePart(at, data, r, p) = [ok |-> FALSE, mem |-> r.mem]
      BY <2>2 DEF WritePart
    <3> HIDE DEF V
    <3> QED
      BY <2>0, <3>1
  <2> QED
    BY <2>1, <2>2
<1>5. step \in [R \X (1 .. n) -> R] /\ base \in R
  <2>1. base \in R
    OBVIOUS
  <2> HIDE DEF R
  <2> QED
    BY <1>4, <2>1
<1>6. ptrace_write_mem(m, at, data) = (CHOOSE g : Rec(g))[1 .. n]
  BY <1>2 DEF ptrace_write_mem, FoldLeft, MapThenFoldSet, part
<1> HIDE DEF R, base
<1>7. \E g : Rec(g)
  <2>1. PICK g : IsFold(g, R, base, n, step)
    <3> HIDE DEF step, Rec
    <3> QED
      BY <1>2, <1>5, FoldExists
  <2>2. ASSUME NEW s \in SUBSET (1 .. n), s # {}
        PROVE  step[<<g[s \ {Max(s)}], Max(s)>>] = WritePart(at, data, g[s \ {Max(s)}], part(Max(s)))
    <3>1. Max(s) \in s
      <4>1. s \in SUBSET (0 .. n)
        BY <1>2
      <4> QED
        BY <1>2, <2>2, <4>1, MaxIsIn
    <3>2. Max(s) \in 1 .. n /\ s \ {Max(s)} \in SUBSET (1 .. n)
      BY <3>1
    <3>3. g[s \ {Max(s)}] \in R
      BY <2>1, <3>2 DEF IsFold
    <3> QED
      BY <3>2, <3>3
  <2>3. /\ g = [s \in SUBSET (1 .. n) |-> g[s]]
        /\ \A s \in SUBSET (1 .. n) : g[s] = IF s = {} THEN base ELSE step[<<g[s \ {Max(s)}], Max(s)>>]
    BY <2>1 DEF IsFold
  <2>4. \A s \in SUBSET (1 .. n) : g[s] = IF s = {} THEN base ELSE WritePart(at, data, g[s \ {Max(s)}], part(Max(s)))
    BY <2>2, <2>3
  <2> HIDE DEF step
  <2> QED
    BY <2>3, <2>4
<1>8. PICK g : Rec(g) /\ ptrace_write_mem(m, at, data) = g[1 .. n]
  <2> HIDE DEF Rec
  <2> QED
    BY <1>6, <1>7
<1> DEFINE Goal(i) == g[1 .. i] = Written(m, at, data, end[i] - at + 1)
<1>9. ASSUME NEW i \in 1 .. n, Goal(i - 1) PROVE Goal(i)
  <2>1. n \in Nat
    BY <1>2
  <2>2. Max(1 .. i) = i /\ (1 .. i) \ {i} = 1 .. (i - 1) /\ 1 .. i \in SUBSET (1 .. n) /\ 1 .. i # {}
    BY <2>1, WithoutTheLast, Zenon
  <2>3. g[1 .. i] = WritePart(at, data, g[1 .. (i - 1)], part(i))
    BY <1>8, <2>2
  <2> DEFINE from == part(i).from
             to == part(i).to
             word == part(i).word
  <2>4. /\ from \in Int /\ to \in Int /\ word \in Int /\ at <= from /\ from <= to
        /\ word <= from /\ to <= word + WordSize - 1
        /\ \A a \in from .. to : WordOf(a) = word
        /\ WordOf(word) = word
        /\ part(i) = [word |-> word, from |-> from, to |-> to]
        /\ end[i - 1] - at + 1 = from - at /\ end[i] = to
    BY <1>3
  <2> HIDE DEF from, to, word
  <2>5. WritePart(at, data, Written(m, at, data, from - at), [word |-> word, from |-> from, to |-> to])
            = Written(m, at, data, to - at + 1)
    <3> HIDE DEF Rec, Goal, part
    <3> QED
      BY <2>4, WritePartNext, SMTT(30)
  <2> QED
    BY <1>9, <2>3, <2>4, <2>5
<1>10. Goal(0)
  <2>1. 1 .. 0 = {} /\ g[{}] = base /\ end[0] - at + 1 = 0
    BY <1>2, <1>8
  <2>2. Written(m, at, data, 0) = base
    <3>1. \A a : a \notin at .. at + 0 - 1
      OBVIOUS
    <3>2. AllMapped(m, at, at + 0 - 1)
      BY <3>1 DEF AllMapped
    <3>3. Written(m, at, data, 0) = [ok |-> TRUE, mem |-> [a \in DOMAIN m |-> m[a]]]
      BY <3>1, <3>2 DEF Written
    <3> QED
      BY <3>3 DEF base
  <2> QED
    BY <2>1, <2>2
<1> DEFINE Bad == {i \in 0 .. n : ~Goal(i)}
<1> HIDE DEF Goal
<1>11. ASSUME NEW b \in Bad, \A y \in Bad : b <= y PROVE FALSE
  <2>1. b \in 1 .. n /\ b - 1 \in 0 .. n
    BY <1>2, <1>10
  <2>2. b - 1 \notin Bad
    BY <1>11, <2>1
  <2> QED
    BY <1>9, <2>1, <2>2
<1>12. Bad = {}
  <2>1. Bad \in SUBSET Nat
    BY <1>2
  <2> HIDE DEF Bad
  <2> QED
    BY <1>11, <2>1, HasLeast
<1>13. Goal(n)
  <2>1. n \in 0 .. n /\ n \notin Bad
    BY <1>2, <1>12
  <2> QED
    BY <2>1
<1>14. end[n] - at + 1 = len
  BY <1>2
<1> QED
  BY <1>8, <1>13, <1>14 DEF Goal

(* Both pairs are exact on any memory, at any address, with any data.       *)
LEMMA AccessExact ==
    ASSUME NEW m, m = [a \in DOMAIN m |-> m[a]], DOMAIN m \subseteq Int, NEW at \in Nat,
           NEW data \in Seq(Nat)
    PROVE  AccessIsExact(m, at, data)
<1> DEFINE len == Len(data)
           G == {a \in at .. at + len - 1 : ~Mapped(m, a)} \cup {at + len}
           gap == Min(G)
           exact == [a \in DOMAIN m |-> IF a \in at .. gap - 1 THEN data[a - at + 1] ELSE m[a]]
           w == ptrace_write_memory(m, at, data)
<1>1. len \in Nat /\ DOMAIN data = 1 .. len /\ data = [k \in 1 .. len |-> data[k]] /\ (len = 0 => data = <<>>) /\ (len # 0 => data # <<>>)
  OBVIOUS
<1> HIDE DEF len
<1>2. gap \in G /\ \A a \in G : gap <= a
  <2>1. G \in SUBSET Nat /\ G # {}
    BY <1>1
  <2> HIDE DEF G
  <2>2. \E x \in G : \A y \in G : x <= y
    BY <2>1, HasLeast
  <2> QED
    BY <2>2 DEF Min
<1>3. gap \in Int /\ at <= gap /\ gap <= at + len
  <2>1. at + len \in G /\ \A a \in G : a \in Int /\ at <= a
    BY <1>1
  <2> HIDE DEF gap, G
  <2> QED
    BY <1>2, <2>1
<1>4. ASSUME NEW a \in Int, a \in at .. at + len - 1 PROVE AllMapped(m, at, a) <=> a < gap
  <2>1. ASSUME a < gap, NEW b \in at .. a PROVE Mapped(m, b)
    <3>1. b \notin G
      <4> HIDE DEF G, gap
      <4> QED
        BY <1>2, <1>3, <2>1
    <3>2. b \in at .. at + len - 1
      BY <1>1, <1>4
    <3> QED
      BY <3>1, <3>2
  <2>2. ASSUME ~(a < gap) PROVE ~AllMapped(m, at, a)
    <3>1. gap \in at .. a /\ gap # at + len
      <4> HIDE DEF G, gap
      <4> QED
        BY <1>1, <1>3, <1>4, <2>2
    <3>2. ~Mapped(m, gap)
      BY <1>2, <3>1
    <3> HIDE DEF gap
    <3> QED
      BY <3>1, <3>2 DEF AllMapped
  <2> QED
    BY <2>1, <2>2 DEF AllMapped
<1> HIDE DEF G, gap
<1>5. AllMapped(m, at, at + len - 1) <=> gap = at + len
  <2>1. CASE len = 0
    <3>1. \A a : a \notin at .. at + len - 1
      BY <2>1
    <3> QED
      BY <1>3, <2>1, <3>1 DEF AllMapped
  <2>2. CASE len # 0
    <3>1. at + len - 1 \in at .. at + len - 1 /\ at + len - 1 \in Int
      BY <1>1, <2>2
    <3>2. at + len - 1 < gap <=> gap = at + len
      BY <1>1, <1>3
    <3> QED
      BY <1>4, <3>1, <3>2
  <2> QED
    BY <2>1, <2>2
<1>6. Written(m, at, data, len) = [ok |-> gap = at + len, mem |-> exact]
  <2>1. ASSUME NEW a \in DOMAIN m
        PROVE  (a \in at .. at + len - 1 /\ AllMapped(m, at, a)) <=> a \in at .. gap - 1
    <3>1. a \in Int
      OBVIOUS
    <3> QED
      BY <1>1, <1>3, <1>4, <3>1
  <2>2. exact = [a \in DOMAIN m |-> IF a \in at .. at + len - 1 /\ AllMapped(m, at, a) THEN data[a - at + 1] ELSE m[a]]
    BY <2>1
  <2>3. AllMapped(m, at, at + len - 1) = (gap = at + len)
    <3>1. AllMapped(m, at, at + len - 1) \in BOOLEAN
      BY DEF AllMapped
    <3> QED
      BY <1>5, <3>1
  <2> HIDE DEF exact
  <2> QED
    BY <2>2, <2>3, Zenon DEF Written
<1>7. w = [ok |-> gap = at + len, mem |-> exact]
  <2>1. w = Written(m, at, data, len)
    BY <1>1, WriteIsExact
  <2> QED
    BY <1>6, <2>1
<1>8. ptrace_write_mem(m, at, data) = w
  <2>1. CASE len = 0
    <3>1. gap = at + len
      BY <1>1, <1>3, <2>1
    <3>2. \A a \in DOMAIN m : a \notin at .. gap - 1
      BY <1>3, <2>1, <3>1
    <3>3. exact = m
      BY <3>2
    <3>4. ptrace_write_mem(m, at, data) = [ok |-> TRUE, mem |-> m]
      BY <1>1, <2>1 DEF ptrace_write_mem
    <3> HIDE DEF exact, w
    <3> QED
      BY <1>7, <3>1, <3>3, <3>4
  <2>2. CASE len # 0
    <3>1. len \in Nat \ {0} /\ Len(data) = len /\ data # <<>>
      BY <1>1, <2>2 DEF len
    <3>2. ptrace_write_mem(m, at, data) = Written(m, at, data, len)
      BY <3>1, WritesAgree
    <3> QED
      BY <1>6, <1>7, <3>2
  <2> QED
    BY <2>1, <2>2
<1> HIDE DEF w
<1>9. ptrace_read_memory(w.mem, at, len) = ptrace_read_mem(w.mem, at, len)
  <2>1. CASE len = 0
    <3>1. \A a : a \notin at .. at + len - 1
      BY <2>1
    <3>2. [k \in 1 .. len |-> w.mem[at + k - 1]] = <<>>
      BY <2>1
    <3> QED
      BY <2>1, <3>1, <3>2 DEF ptrace_read_memory, ptrace_read_mem
  <2>2. CASE len # 0
    BY <1>1, <2>2, ReadsAgree
  <2> QED
    BY <2>1, <2>2
<1>10. ASSUME w.ok PROVE ptrace_read_memory(w.mem, at, len).got = data
  <2>1. gap = at + len /\ w.mem = exact
    <3> HIDE DEF exact
    <3> QED
      BY <1>7, <1>10
  <2>2. DOMAIN w.mem = DOMAIN m
    BY <2>1
  <2>3. \A a \in at .. at + len - 1 : Mapped(w.mem, a)
    <3>1. \A a \in at .. at + len - 1 : Mapped(m, a)
      BY <1>5, <2>1 DEF AllMapped
    <3> QED
      BY <2>2, <3>1 DEF Mapped
  <2>4. ASSUME NEW k \in 1 .. len PROVE w.mem[at + k - 1] = data[k]
    <3>1. at + k - 1 \in at .. gap - 1 /\ at + k - 1 \in at .. at + len - 1 /\ (at + k - 1) - at + 1 = k
      BY <1>1, <2>1
    <3>2. at + k - 1 \in DOMAIN m
      <4>1. Mapped(w.mem, at + k - 1)
        BY <2>3, <3>1
      <4>2. at + k - 1 \in WordOf(at + k - 1) .. WordOf(at + k - 1) + WordSize - 1
        BY <3>1, WordHolds, StartAssumption, SMTT(30)
      <4> QED
        BY <2>2, <4>1, <4>2 DEF Mapped
    <3> QED
      BY <2>1, <3>1, <3>2
  <2>5. [k \in 1 .. len |-> w.mem[at + k - 1]] = data
    BY <1>1, <2>4
  <2> QED
    BY <2>3, <2>5 DEF ptrace_read_memory
<1> QED
  BY <1>7, <1>8, <1>9, <1>10 DEF AccessIsExact, len, G, gap, exact, w

(* The debugger reads what is there and writes what it is given, however    *)
(* long and wherever it is, by both pairs of functions.                     *)
THEOREM MemoryIsAccessedExactly == StartSpec => []MemoryAccessIsExact
<1>1. StartInv => MemoryAccessIsExact
  <2> SUFFICES ASSUME StartInv, NEW at \in 0 .. TopAddress, NEW len \in 0 .. 2 * WordSize + 1
               PROVE  AccessIsExact(bytes, at, [k \in 1 .. len |-> 100 + k])
    BY DEF MemoryAccessIsExact
  <2>1. bytes = [a \in DOMAIN bytes |-> bytes[a]] /\ DOMAIN bytes \subseteq Int
    <3>1. P.bytes = [a \in DOMAIN P.bytes |-> P.bytes[a]] /\ DOMAIN P.bytes \subseteq Int
      BY StartAssumption DEF StartInv, StartTypeOK, P, Loaded
    <3>2. bytes = P.bytes \/ bytes = WithInt3
      BY DEF StartInv, NativeAgrees, MemoryAgrees
    <3> QED
      BY <3>1, <3>2 DEF WithInt3
  <2>2. at \in Nat /\ [k \in 1 .. len |-> 100 + k] \in Seq(Nat)
    <3>1. len \in Nat /\ TopAddress \in Nat
      BY StartAssumption
    <3> QED
      BY <3>1
  <2> QED
    BY <2>1, <2>2, AccessExact
<1> QED
  BY <1>1, StartInvInit, StartInvStep, PTL DEF StartSpec
=============================================================================
