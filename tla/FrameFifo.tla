------------------------------ MODULE FrameFifo ------------------------------
(***************************************************************************)
(* What the outbound path of a session promises, whatever it is made of:   *)
(* a first-in first-out channel. Items are put at one end by the reader    *)
(* thread and taken in bursts at the other by the network thread; none is  *)
(* lost, duplicated or overtaken.                                          *)
(*                                                                         *)
(* The work queue's linked list (module WorkQueue) and the two-stage path  *)
(* queue-then-batch of the pump (module Session) both implement it.        *)
(***************************************************************************)
EXTENDS Naturals, Sequences

CONSTANT Item

VARIABLES
    q,     \* items in the channel, oldest first
    in,    \* history: everything ever put
    out    \* history: everything ever taken

fifoVars == <<q, in, out>>

Init == q = << >> /\ in = << >> /\ out = << >>

Put(x) ==
    /\ q' = Append(q, x)
    /\ in' = Append(in, x)
    /\ UNCHANGED out

\* Take the n oldest items.
Take(n) ==
    /\ out' = out \o SubSeq(q, 1, n)
    /\ q' = SubSeq(q, n + 1, Len(q))
    /\ UNCHANGED in

Next ==
    \/ \E x \in Item : Put(x)
    \/ \E n \in 1 .. Len(q) : Take(n)

Spec == Init /\ [][Next]_fifoVars
=============================================================================
