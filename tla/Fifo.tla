-------------------------------- MODULE Fifo --------------------------------
(***************************************************************************)
(* What a buffer promises (src/include/socket/circular_buffer.h): it holds *)
(* the bytes that were written and not taken yet, in their order.  A call  *)
(* has the effect that its own arguments say: write appends the bytes it   *)
(* is given, all of them unless they exceed the limit, and read and erase  *)
(* take as many bytes from the front as they are asked for.                *)
(***************************************************************************)
EXTENDS Naturals, Sequences

VARIABLES
  queue,   \* the bytes in the buffer
  limit,   \* how many bytes it may hold: 0 is no limit
  call     \* the last call: op, its bytes (given, or handed out) and a count

fifoVars == <<queue, limit, call>>

Init == queue = <<>> /\ call = [op |-> "none", bytes |-> <<>>, count |-> 0]

\* write(bytes) returns the count of bytes that it took.  It takes all of them, or
\* they exceed the limit; then it takes the first of them, as many as it likes.
Put ==
  /\ call'.op = "write"
  /\ call'.count <= Len(call'.bytes)
  /\ queue' = queue \o SubSeq(call'.bytes, 1, call'.count)
  /\ call'.count < Len(call'.bytes) => limit # 0 /\ Len(queue) + Len(call'.bytes) > limit
  /\ limit # 0 => Len(queue) + call'.count <= limit

\* How many bytes a call that asks for count of them gets, and what they leave.
Got(count) == IF count <= Len(queue) THEN count ELSE Len(queue)
Rest(count) == SubSeq(queue, Got(count) + 1, Len(queue))

\* read(count) hands out the first bytes, and they are gone.
Take ==
  /\ call'.op = "read"
  /\ call'.bytes = SubSeq(queue, 1, Got(call'.count))
  /\ queue' = Rest(call'.count)

\* data(), and count bytes are read from there: the first ones, and they stay.
Peek ==
  /\ call'.op = "data"
  /\ call'.count <= Len(queue)
  /\ call'.bytes = SubSeq(queue, 1, call'.count)
  /\ UNCHANGED queue

\* erase(count)
Drop == call'.op = "erase" /\ queue' = Rest(call'.count)

Clear == call'.op = "clear" /\ queue' = <<>>

Next == UNCHANGED limit /\ (Put \/ Take \/ Peek \/ Drop \/ Clear)

Spec == Init /\ [][Next]_fifoVars
=============================================================================
