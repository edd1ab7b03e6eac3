------------------------------ MODULE Arguments ------------------------------
(***************************************************************************)
(* What a program and its children are started with: the program, its       *)
(* arguments and its environment, from argv and environ into the process    *)
(* information block (initPib in lib2ine.c, main in lx_loader.c), and from  *)
(* there, by way of DosExecPgm (calcArgv and calcEnvp in native/doscalls.c) *)
(* and execve, into those of a child, and so on for generations.            *)
(*                                                                          *)
(* A string is a sequence of characters; the name of a program is a single  *)
(* one.  The other parts of DosExecPgm are in Children.                     *)
(***************************************************************************)
EXTENDS Integers, SequencesExt, FiniteSetsExt

CONSTANTS Loadable,        \* names
          UnixArguments,   \* what a user can give a program: sequences of strings
          Lines,           \* command lines a program makes up for its child
          Environments,    \* what it makes up for an environment
          Os2Path,         \* the variable OS2PATH
          MaxGenerations

VARIABLES argv, environ,   \* of the process that runs last
          pib,             \* [env, exe, arg0, line] once it has started
          libpath,
          module,          \* what main loads, or "usage", "not found" or "none"
          codes,           \* the result codes its parent gets
          generation,
          asked            \* ghost: what its parent asked for

argVars == <<argv, environ, pib, libpath, module, codes, generation, asked>>

Loader == "lx_loader"
NoPib == [env |-> <<>>, exe |-> <<>>, arg0 |-> <<>>, line |-> <<>>]

(* A user starts a program with the loader, run_os2.sh.                     *)
ArgInit ==
    /\ \E p \in Loadable, args \in UnixArguments :
          /\ argv = <<<<Loader>>, <<p>>>> \o args
          /\ asked = [name |-> p, line |-> <<>>, env |-> <<>>]
    /\ environ = <<[name |-> "PATH", value |-> "unix"], [name |-> "LIBPATH", value |-> "x"]>>
    /\ pib = NoPib /\ libpath = "" /\ module = "none" /\ codes = <<>>
    /\ generation = 1

Subprocess == \E i \in DOMAIN environ : environ[i].name = "IS_2INE"
GetEnv(name) == environ[Min({i \in DOMAIN environ : environ[i].name = name})].value

-----------------------------------------------------------------------------
(* initPib                                                                  *)

Escaped(arg) ==
    FlattenSeq([i \in DOMAIN arg |-> IF arg[i] \in {"\\", "newline"} THEN <<"\\", arg[i]>> ELSE <<arg[i]>>])
Quoted(arg) ==
    IF " " \in ToSet(arg) THEN <<"\"">> \o Escaped(arg) \o <<"\"">> ELSE arg

JoinBare(args) ==
    FlattenSeq([i \in DOMAIN args |-> IF i < Len(args) THEN args[i] \o <<" ">> ELSE args[i]])

Join(args) ==
    FlattenSeq([i \in DOMAIN args |->
        IF i < Len(args) THEN Quoted(args[i]) \o <<" ">> ELSE Quoted(args[i])])

KeptEnvironment ==
    [i \in DOMAIN environ |->
        IF environ[i].name = "PATH" /\ ~Subprocess THEN [environ[i] EXCEPT !.value = Os2Path] ELSE environ[i]]

Os2Environment ==
    SelectSeq(KeptEnvironment, LAMBDA v : v.name # "IS_2INE")

(* lx_loader is no argument of the program it runs.                         *)
Os2Argv == IF argv[1] = <<Loader>> THEN Tail(argv) ELSE argv

initPib ==
    /\ pib' = [env |-> Os2Environment, exe |-> Os2Argv[1], arg0 |-> Os2Argv[1], line |-> Join(Tail(Os2Argv))]
    /\ libpath' = IF \E i \in DOMAIN environ : environ[i].name = "LIBPATH"
                  THEN environ[Max({i \in DOMAIN environ : environ[i].name = "LIBPATH"})].value ELSE ""

(* lib2ine's constructor runs initPib, then main looks at its arguments.    *)
Boot ==
    /\ module = "none"
    /\ initPib
    /\ module' = CASE Len(argv) < 2 -> "usage"
                   [] Len(argv) >= 2 /\ Subprocess -> GetEnv("IS_2INE")
                   [] OTHER -> IF argv[2] \in {<<p>> : p \in Loadable} THEN argv[2][1] ELSE "not found"
    /\ UNCHANGED <<argv, environ, codes, generation, asked>>

-----------------------------------------------------------------------------
(* DosExecPgm                                                               *)

From(s, i, S) == Min({j \in i .. Len(s) : s[j] \in S} \cup {Len(s) + 1})
SkipBlanks(s, i) == Min({j \in i .. Len(s) : s[j] # " "} \cup {Len(s) + 1})

(* calcArgv: `start` is where the present word begins.  A quote ends at the *)
(* next one, and what the word had before it is put together with it, less  *)
(* the first character.                                                     *)
RECURSIVE Words(_, _, _)
Words(s, start, i) ==
    IF i > Len(s)
    THEN IF start <= Len(s) THEN <<SubSeq(s, start, Len(s))>> ELSE <<>>
    ELSE CASE s[i] = " " ->
                <<SubSeq(s, start, i - 1)>> \o Words(s, SkipBlanks(s, i), SkipBlanks(s, i))
           [] s[i] = "\"" ->
                LET end  == From(s, i + 1, {"\""})
                    next == SkipBlanks(s, end + 1)
                IN  <<SubSeq(s, start + 1, end - 1)>> \o Words(s, next, next)
           [] OTHER -> Words(s, start, i + 1)

calcArgv(arg0, line) ==
    <<arg0>> \o Words(line, SkipBlanks(line, 1), SkipBlanks(line, 1))

(* The program goes along in the environment, unless that is empty.         *)
calcEnvp(env, exe) ==
    IF env = <<>> THEN <<>> ELSE Append(env, [name |-> "IS_2INE", value |-> exe])

(* execOs2Child: the child is the same lx_loader, /proc/self/exe.  argv[0]  *)
(* is the first string of the arguments, by custom the program's name.      *)
ExecOs2Child ==
    /\ module \in Loadable /\ codes = <<>> /\ generation < MaxGenerations
    /\ \E name \in Loadable, line \in Lines \cup {pib.line}, env \in Environments \cup {pib.env} :
          /\ argv' = calcArgv(<<name>>, line)
          /\ environ' = calcEnvp(env, name)
          /\ asked' = [name |-> name, line |-> line, env |-> env]
    /\ module' = "none" /\ pib' = NoPib /\ libpath' = ""
    /\ generation' = generation + 1
    /\ UNCHANGED codes

(* setProcessResultCode, for EXEC_SYNC and DosWaitChild.                    *)
ResultCodes(status) ==
    CASE status.how = "exit" -> [codeTerminate |-> "TC_EXIT", codeResult |-> status.code % 256]
      [] status.how \in {"TERM", "KILL", "INT", "QUIT"} -> [codeTerminate |-> "TC_KILLPROCESS", codeResult |-> 0]
      [] status.how \in {"PIPE", "ABRT"} -> [codeTerminate |-> "TC_HARDERROR", codeResult |-> 0]
      [] OTHER -> [codeTerminate |-> "TC_EXCEPTION", codeResult |-> 0]

(* The child ends by itself, or of a signal; its parent waits for it.       *)
ChildEnds ==
    /\ module # "none" /\ codes = <<>> /\ generation > 1
    /\ \E how \in {"exit", "KILL", "ABRT", "SEGV"} :
          codes' = <<ResultCodes([how |-> how, code |-> IF module \in Loadable THEN 300 ELSE 1])>>
    /\ UNCHANGED <<argv, environ, pib, libpath, module, generation, asked>>

ArgNext == Boot \/ ExecOs2Child \/ ChildEnds

-----------------------------------------------------------------------------
(* Properties                                                               *)

(* The arguments of a command line: blanks outside quotes separate them.    *)
InQuotes(s, i) == Cardinality({j \in 1 .. i - 1 : s[j] = "\""}) % 2 = 1
Separates(s, i) == s[i] = " " /\ ~InQuotes(s, i)
WordStarts(s) == {i \in DOMAIN s : ~Separates(s, i) /\ (i = 1 \/ Separates(s, i - 1))}
WordAt(s, i) ==
    LET end == Min({j \in i .. Len(s) : Separates(s, j)} \cup {Len(s) + 1})
    IN  SelectSeq(SubSeq(s, i, end - 1), LAMBDA c : c # "\"")
ArgumentsOf(s) == [k \in 1 .. Cardinality(WordStarts(s)) |-> WordAt(s, SetToSortSeq(WordStarts(s), <)[k])]

(* Nothing calcArgv and initPib take apart differently: whole words are     *)
(* quoted, none is empty, and no backslash is in a quoted one.              *)
Ordinary(s) ==
    /\ \A i \in DOMAIN s : s[i] = "\"" =>
          IF InQuotes(s, i) THEN i = Len(s) \/ s[i + 1] = " " ELSE i = 1 \/ s[i - 1] = " "
    /\ \A i \in DOMAIN s : s[i] = "\"" /\ ~InQuotes(s, i) => i < Len(s) /\ s[i + 1] # "\""
    /\ \A i \in DOMAIN s : s[i] = "\\" => ~InQuotes(s, i)

(* A program finds on its command line, over all the ways it takes and for  *)
(* every generation, the arguments it was started with: by the user for the *)
(* first one, in what its parent passed for the others.                     *)
ArgumentsArrive ==
    module \in Loadable /\ (generation > 1 => asked.env # <<>>) =>
        IF generation = 1
        THEN (\A i \in DOMAIN argv : Ordinary(Quoted(argv[i])) /\ "\"" \notin ToSet(argv[i]) /\ argv[i] # <<>>)
             => ArgumentsOf(pib.line) = Tail(Tail(argv))
        ELSE Ordinary(asked.line) => ArgumentsOf(pib.line) = ArgumentsOf(asked.line)

(* A child that gets an environment and arguments is the program that was   *)
(* asked for, and has that environment, without what 2ine has put into it.  *)
ChildIsTheProgram ==
    module # "none" /\ generation > 1 /\ asked.env # <<>> /\ Len(argv) > 1 =>
        module = asked.name /\ pib.env = asked.env

(* A child is what its parent asked for, with its arguments.                *)
ChildIsAsAsked == ArgumentsArrive /\ ChildIsTheProgram

(* doscalls.c:1605, "run the new program!", and lx_loader.c:2791, where     *)
(* arguments are optional: what DosExecPgm starts is the program.           *)
TheNewProgramRuns == module # "none" => module \in Loadable
=============================================================================
