-------------------------------- MODULE Fifo --------------------------------
(***************************************************************************)
(* What the ring buffers of pipe.c and uart.c promise: elements come out   *)
(* in the order they went in, none is lost or made up, at most N are       *)
(* waiting.                                                                *)
(***************************************************************************)
EXTENDS Naturals, Sequences
CONSTANTS N, Elem
VARIABLE queue

Init == queue = <<>>

Put(v) ==
  /\ Len(queue) < N
  /\ queue' = Append(queue, v)

Get ==
  /\ queue # <<>>
  /\ queue' = Tail(queue)

Next == Get \/ \E v \in Elem : Put(v)

Spec == Init /\ [][Next]_queue
=============================================================================
