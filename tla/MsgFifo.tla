------------------------------- MODULE MsgFifo -------------------------------
(***************************************************************************)
(* What a PM message queue promises to its thread: messages come out in the *)
(* order they went in, each once, and a filter only skips what it does not  *)
(* let through.  Messages are lost only together with the queue.            *)
(***************************************************************************)
EXTENDS SequencesExt

CONSTANT Accepts(_, _)     \* does a filter let a message through?

VARIABLES open,            \* is there a queue?
          queue,           \* the messages in it
          wanted,          \* the filter of the call in progress
          got              \* the message that was returned last

fvars == <<open, queue, wanted, got>>

FInit == queue = <<>>

FPut == open /\ IsPrefix(queue, queue') /\ UNCHANGED <<open, wanted, got>>

FTake ==
    \E i \in 1..Len(queue) :
        /\ Accepts(wanted, queue[i])
        /\ \A j \in 1..(i - 1) : ~Accepts(wanted, queue[j])
        /\ got' = queue[i]
        /\ queue' = RemoveAt(queue, i)
        /\ UNCHANGED open

FClose == open /\ ~open' /\ queue' = <<>>

(* Opening a queue, asking for a message, forgetting the one returned. *)
FOther == UNCHANGED queue

FNext == FPut \/ FTake \/ FClose \/ FOther

MsgFifoSpec == FInit /\ [][FNext]_fvars
=============================================================================
