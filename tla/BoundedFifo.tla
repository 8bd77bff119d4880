---------------------------- MODULE BoundedFifo ----------------------------
(***************************************************************************)
(* What the packet buffer of network.c and the keyboard buffer of          *)
(* keyboard.c promise: a queue of at most Capacity items, handed out one   *)
(* at a time in the order they were put in, none twice and none skipped.   *)
(***************************************************************************)
EXTENDS Naturals, Sequences

CONSTANTS Item, Capacity, Nothing

VARIABLES
    queue,  \* the items put in and not yet taken out
    out     \* the item handed out last, Nothing before the first

TypeOK ==
    /\ queue \in Seq(Item) /\ Len(queue) <= Capacity
    /\ out \in Item \cup {Nothing}

Init == queue = <<>> /\ out = Nothing

Put(x) ==
    /\ Len(queue) < Capacity
    /\ queue' = Append(queue, x)
    /\ UNCHANGED out

Get ==
    /\ queue # <<>>
    /\ out' = Head(queue)
    /\ queue' = Tail(queue)

Next == (\E x \in Item : Put(x)) \/ Get

Spec == Init /\ [][Next]_<<queue, out>>
=============================================================================
