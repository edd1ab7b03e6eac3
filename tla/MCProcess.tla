----------------------------- MODULE MCProcess -----------------------------
(* Six components that share no variable: a behaviour is one of locks, of    *)
(* the exit list, of children, of sound, of what a child is started with, or *)
(* of threads that end.                                                      *)
EXTENDS Locks, ExitList, Children, Sound, Arguments, ThreadReaper

CONSTANTS t1, t2

VARIABLE part

mcVars == <<part, lockVars, exitVars, childVars, soundVars, argVars, vars>>

(* Two threads that wait for any, and one that waits for any or for one.     *)
Usual == {[callers |-> {t1, t2}, waits |-> {"any"}], [callers |-> {t1}, waits |-> {"any", "one"}]}

(* Every command line of up to three characters, and longer ones.            *)
Strings(n) == UNION {[1 .. k -> {"a", " ", "\"", "\\"}] : k \in 0 .. n}
CommandLines ==
    Strings(3) \cup {<<"\"", "a", " ", "a", "\"">>, <<"\"", " ", "\\", "\"">>,
                     <<"a", " ", "\"", "a", " ", "\"">>, <<"\"", " ", "\"", " ", "\"", "a", "\"">>,
                     <<" ", "a", " ", " ", "\\", "a", " ">>, <<"a", "\"", " ", "a", "\"", "a">>}
UserArguments ==
    {<<>>, <<<<"a">>>>, <<<<"a", " ", "a">>, <<"\\">>>>, <<<<"a">>, <<" ", "\\">>, <<"a", "a">>>>, <<<<>>, <<"a">>>>,
     <<<<"a", "\"">>, <<"a">>>>}
Variable(n, v) == [name |-> n, value |-> v]
OwnEnvironments == {<<>>, <<Variable("X", "1")>>, <<Variable("PATH", "p"), Variable("LIBPATH", "l")>>}

MCInit ==
        /\ part \in {"locks", "exit", "children", "sound", "arguments", "threads"}
        /\ LockInit /\ ExitInit /\ ChildInit /\ SoundInit /\ ArgInit /\ Init
        /\ part # "threads" => program = CHOOSE p \in Programs : TRUE
        /\ part # "locks" => mutex.owner = Null   \* one of the starts is enough there
        /\ part # "arguments" => argv = <<<<"lx_loader">>, <<"p">>>>

MCNext ==
        \/ part = "locks" /\ LockNext /\ UNCHANGED <<part, exitVars, childVars, soundVars, argVars, vars>>
        \/ part = "exit" /\ ExitNext /\ UNCHANGED <<part, lockVars, childVars, soundVars, argVars, vars>>
        \/ part = "children" /\ ChildNext /\ UNCHANGED <<part, lockVars, exitVars, soundVars, argVars, vars>>
        \/ part = "sound" /\ SoundNext /\ UNCHANGED <<part, lockVars, exitVars, childVars, argVars, vars>>
        \/ part = "arguments" /\ ArgNext /\ UNCHANGED <<part, lockVars, exitVars, childVars, soundVars, vars>>
        \/ part = "threads" /\ Next /\ UNCHANGED <<part, lockVars, exitVars, childVars, soundVars, argVars>>

(* The scheduler runs every thread that can go on, and the callbacks of an   *)
(* open device; programs end; pthread gives a mutex nobody has to a waiter.  *)
(* A thread past its cleanup comes to its end and a caller that polls goes   *)
(* on polling, but nothing makes a thread end or a program wait.             *)
MCFairness ==
    /\ \A t \in Thread :
           /\ WF_mcVars(part = "locks" /\ Grant(t) /\ UNCHANGED <<part, exitVars, childVars, soundVars, argVars, vars>>)
           /\ WF_mcVars(part = "children" /\ (ExecReturns(t) \/ WaitReturns(t) \/ WaitFails(t))
                      /\ UNCHANGED <<part, lockVars, exitVars, soundVars, argVars, vars>>)
           /\ WF_mcVars(part = "threads" /\ PollDeadList(t) /\ UNCHANGED <<part, lockVars, exitVars, childVars, soundVars, argVars>>)
           /\ WF_mcVars(part = "threads" /\ JoinAny(t) /\ UNCHANGED <<part, lockVars, exitVars, childVars, soundVars, argVars>>)
           /\ WF_mcVars(part = "sound" /\ (GrabBeepLock(t) \/ Queue(t) \/ FindDevice(t) \/ Add(t))
                      /\ UNCHANGED <<part, lockVars, exitVars, childVars, argVars, vars>>)
    /\ \A p \in Pid : WF_mcVars(part = "children" /\ (ForkAgain(p) \/ End(p))
                              /\ UNCHANGED <<part, lockVars, exitVars, soundVars, argVars, vars>>)
    /\ \A d \in Device : WF_mcVars(part = "sound" /\ Play(d)
                                 /\ UNCHANGED <<part, lockVars, exitVars, childVars, argVars, vars>>)
    /\ \A n \in Node : WF_mcVars(part = "threads" /\ ThreadIsGone(n)
                                /\ UNCHANGED <<part, lockVars, exitVars, childVars, soundVars, argVars>>)

MCSpec == MCInit /\ [][MCNext]_mcVars /\ MCFairness
=============================================================================
