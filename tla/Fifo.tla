-------------------------------- MODULE Fifo --------------------------------
(* What a pipe is to its users: a queue of at most Capacity bytes.             *)
EXTENDS Naturals, Sequences

CONSTANTS Byte, Capacity

VARIABLE queue

Init == queue = <<>>

Put(b) == /\ Len(queue) < Capacity
          /\ queue' = Append(queue, b)

Take == /\ queue # <<>>
        /\ queue' = Tail(queue)

Next == Take \/ \E b \in Byte : Put(b)

Spec == Init /\ [][Next]_queue
=============================================================================
