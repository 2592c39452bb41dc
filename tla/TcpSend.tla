------------------------------ MODULE TcpSend ------------------------------
(***************************************************************************)
(* The sending side of a TCP socket: async_send, close and the handlers    *)
(* they lead to (tcp::socket in src/include/socket/socket.hpp).            *)
(*                                                                         *)
(* The socket owns two buffers.  New bytes are written to buf[widx] while  *)
(* the other buffer is being sent, at most Chunk bytes at a time: the      *)
(* kernel reads those in place.  When a send completes, commit sends what  *)
(* is left of the same buffer, or the buffer that has filled meanwhile.    *)
(* async_send and close only post to the reactor; close(linger) lets a     *)
(* send under way go on and closes the socket when both buffers are empty. *)
(*                                                                         *)
(* Bytes are numbered in the order in which the script sends them.  The    *)
(* completion of a send is not kept in the queue of posted operations:     *)
(* its place there is the kernel's choice, and so is the time it is run.   *)
(* Left out: the callbacks of the script (what they call are actions of    *)
(* their own), the receiving side, a buffer that cannot grow.              *)
(***************************************************************************)
EXTENDS Naturals, Sequences, SequencesExt

CONSTANTS
  Chunk,      \* async_send_size: the most that one send may take
  MaxBytes,   \* bound: the bytes the script sends
  MaxClose    \* bound: the calls of close

ASSUME SendAssumption ==
  /\ Chunk \in Nat \ {0}
  /\ MaxBytes \in Nat
  /\ MaxClose \in Nat

VARIABLES
  posted,     \* operations posted to the reactor and not yet run
  buf,        \* _buffers
  widx,       \* _widx: the buffer that is written
  sending,    \* _sending
  flight,     \* the send the kernel has been asked for
  closed,     \* _closed: the socket closes when the buffers are empty
  asyned,     \* _asyned: the socket has been selected for reading
  end,        \* "none" while parent::is_open(), then how the socket was closed
  broken,     \* the connection has failed
  wire,       \* the bytes the kernel has taken
  asked,      \* auxiliary: how many bytes the script has sent
  promised,   \* auxiliary: how many it had sent when it first called close
  closes      \* auxiliary: how often it has called close

vars == <<posted, buf, widx, sending, flight, closed, asyned, end, broken,
          wire, asked, promised, closes>>

Byte == 1..MaxBytes
NoFlight == [at |-> "none", index |-> 0, size |-> 0, taken |-> 0]
Flights == [at : {"none", "kernel", "done", "failed"}, index : 0..1,
            size : 0..Chunk, taken : 0..Chunk]
Operations ==
  [op : {"write"}, data : Seq(Byte)] \union [op : {"shutdown"}, linger : BOOLEAN]

-----------------------------------------------------------------------------
Init ==
  /\ posted = <<>>
  /\ buf = [i \in 0..1 |-> <<>>]
  /\ widx = 0
  /\ sending = FALSE
  /\ flight = NoFlight
  /\ closed = FALSE
  /\ asyned = FALSE
  /\ end = "none"
  /\ broken = FALSE
  /\ wire = <<>>
  /\ asked = 0
  /\ promised = 0
  /\ closes = 0

\* socket:send(data, true)
AsyncSend(n) ==
  /\ asked + n <= MaxBytes
  /\ asked' = asked + n
  /\ posted' = Append(posted, [op |-> "write", data |-> [i \in 1..n |-> asked + i]])
  /\ UNCHANGED <<buf, widx, sending, flight, closed, asyned, end, broken, wire,
                 promised, closes>>

\* socket:select(luaos.read, ...)
AsyncWait ==
  /\ ~asyned
  /\ asyned' = TRUE
  /\ UNCHANGED <<posted, buf, widx, sending, flight, closed, end, broken, wire,
                 asked, promised, closes>>

\* parent::close, unless it was called before.
Ended(how) == end' = IF end = "none" THEN how ELSE end

\* Mutant: linger is ignored.
MutantShutdown(linger) ==
  /\ closed' = closed
  /\ Ended(IF linger THEN "flushed" ELSE "aborted")

\* shutdown(linger)
Shutdown(linger) ==
  IF sending /\ linger
  THEN closed' = TRUE /\ end' = end
  ELSE closed' = closed /\ Ended(IF linger THEN "flushed" ELSE "aborted")

\* close(linger).  A socket that was never selected is closed at once.
Close(linger) ==
  /\ closes < MaxClose
  /\ closes' = closes + 1
  /\ promised' = IF closes = 0 THEN asked ELSE promised
  /\ IF asyned
     THEN /\ posted' = Append(posted, [op |-> "shutdown", linger |-> linger])
          /\ UNCHANGED <<closed, end>>
     ELSE /\ Shutdown(FALSE)
          /\ UNCHANGED posted
  /\ UNCHANGED <<buf, widx, sending, flight, asyned, broken, wire, asked>>

\* Mutants: the whole buffer is sent at once; the buffer being sent stays the one
\* that is written.
MutantFlushWhole(b, i) ==
  IF b[i] = <<>>
  THEN /\ sending' = FALSE
       /\ flight' = NoFlight
       /\ widx' = widx
       /\ IF closed THEN Ended("flushed") ELSE end' = end
  ELSE /\ sending' = TRUE
       /\ flight' = [at |-> "kernel", index |-> i, taken |-> 0, size |-> Len(b[i])]
       /\ widx' = 1 - i
       /\ end' = end

MutantFlushSame(b, i) ==
  IF b[i] = <<>>
  THEN /\ sending' = FALSE
       /\ flight' = NoFlight
       /\ widx' = widx
       /\ IF closed THEN Ended("flushed") ELSE end' = end
  ELSE /\ sending' = TRUE
       /\ flight' = [at |-> "kernel", index |-> i, taken |-> 0,
                     size |-> IF Len(b[i]) < Chunk THEN Len(b[i]) ELSE Chunk]
       /\ widx' = i
       /\ end' = end

\* flush: ask the kernel to send from buffer i, and write to the other one;
\* with nothing to send, a socket that lingers is closed.
Flush(b, i) ==
  IF b[i] = <<>>
  THEN /\ sending' = FALSE
       /\ flight' = NoFlight
       /\ widx' = widx
       /\ IF closed THEN Ended("flushed") ELSE end' = end
  ELSE /\ sending' = TRUE
       /\ flight' = [at |-> "kernel", index |-> i, taken |-> 0,
                     size |-> IF Len(b[i]) < Chunk THEN Len(b[i]) ELSE Chunk]
       /\ widx' = 1 - i
       /\ end' = end

\* enqueue: bytes are written even after the socket was closed.  A send under
\* way for longer than async_send_timeout closes the socket.
RunWrite ==
  /\ posted # <<>> /\ Head(posted).op = "write"
  /\ posted' = Tail(posted)
  /\ buf' = [buf EXCEPT ![widx] = @ \o Head(posted).data]
  /\ IF sending
     THEN /\ end' = end \/ Ended("aborted")
          /\ UNCHANGED <<widx, sending, flight>>
     ELSE Flush(buf', widx)
  /\ UNCHANGED <<closed, asyned, broken, wire, asked, promised, closes>>

RunShutdown ==
  /\ posted # <<>> /\ Head(posted).op = "shutdown"
  /\ posted' = Tail(posted)
  /\ Shutdown(Head(posted).linger)
  /\ UNCHANGED <<buf, widx, sending, flight, asyned, broken, wire, asked,
                 promised, closes>>

-----------------------------------------------------------------------------
\* The kernel takes some of the bytes, or the send fails.
Transmit(n) ==
  /\ flight.at = "kernel" /\ n \in 1..flight.size
  /\ end = "none" /\ ~broken
  /\ wire' = wire \o SubSeq(buf[flight.index], 1, n)
  /\ flight' = [flight EXCEPT !.at = "done", !.taken = n]
  /\ UNCHANGED <<posted, buf, widx, sending, closed, asyned, end, broken, asked,
                 promised, closes>>

Fail ==
  /\ flight.at = "kernel"
  /\ flight' = [flight EXCEPT !.at = "failed"]
  /\ broken' = (broken \/ end = "none")
  /\ UNCHANGED <<posted, buf, widx, sending, closed, asyned, end, wire, asked,
                 promised, closes>>

\* Mutants: the other buffer is not looked at; what is left of the buffer waits
\* for the other one.
MutantCommitRest ==
  /\ flight.at = "done"
  /\ LET index == 1 - widx
         rest == SubSeq(buf[index], flight.taken + 1, Len(buf[index]))
     IN  /\ buf' = [buf EXCEPT ![index] = rest]
         /\ Flush(buf', index)
  /\ UNCHANGED <<posted, closed, asyned, broken, wire, asked, promised, closes>>

MutantCommitSwap ==
  /\ flight.at = "done"
  /\ LET index == 1 - widx
         rest == SubSeq(buf[index], flight.taken + 1, Len(buf[index]))
     IN  /\ buf' = [buf EXCEPT ![index] = rest]
         /\ Flush(buf', widx)
  /\ UNCHANGED <<posted, closed, asyned, broken, wire, asked, promised, closes>>

\* commit, without and with an error.  After an error nothing is sent any more:
\* _sending stays set.
Commit ==
  /\ flight.at = "done"
  /\ LET index == 1 - widx
         rest == SubSeq(buf[index], flight.taken + 1, Len(buf[index]))
     IN  /\ buf' = [buf EXCEPT ![index] = rest]
         /\ Flush(buf', IF rest # <<>> THEN index ELSE widx)
  /\ UNCHANGED <<posted, closed, asyned, broken, wire, asked, promised, closes>>

CommitError ==
  /\ flight.at = "failed"
  /\ flight' = NoFlight
  /\ UNCHANGED <<posted, buf, widx, sending, closed, asyned, end, broken, wire,
                 asked, promised, closes>>

\* on_timer: nothing has been received for too long.
Expire ==
  /\ end = "none"
  /\ Shutdown(FALSE)
  /\ UNCHANGED <<posted, buf, widx, sending, flight, asyned, broken, wire, asked,
                 promised, closes>>

Kernel == Fail \/ \E n \in 1..Chunk : Transmit(n)
Reactor == RunWrite \/ RunShutdown \/ Commit \/ CommitError

Next ==
  \/ \E n \in 1..MaxBytes : AsyncSend(n)
  \/ AsyncWait
  \/ \E linger \in BOOLEAN : Close(linger)
  \/ Reactor
  \/ Kernel
  \/ Expire

Spec == Init /\ [][Next]_vars

\* The reactor runs what it holds, and a send completes or fails.
Fairness ==
  WF_vars(RunWrite \/ RunShutdown) /\ WF_vars(Commit \/ CommitError) /\ WF_vars(Kernel)

-----------------------------------------------------------------------------
\* What is posted, buffered and under way is of the kinds the code makes, and a
\* send takes at most Chunk bytes.
TypeOK ==
  /\ posted \in Seq(Operations)
  /\ buf \in [0..1 -> Seq(Byte)]
  /\ widx \in 0..1
  /\ sending \in BOOLEAN /\ closed \in BOOLEAN /\ asyned \in BOOLEAN
  /\ broken \in BOOLEAN
  /\ flight \in Flights
  /\ end \in {"none", "flushed", "aborted"}
  /\ wire \in Seq(Byte)
  /\ asked \in 0..MaxBytes /\ promised \in 0..MaxBytes
  /\ closes \in 0..MaxClose

\* What the kernel has taken of the buffer being sent and commit not yet erased.
Taken == IF flight.at = "done" THEN flight.taken ELSE 0

\* The bytes in the socket that the kernel has not taken, oldest first.
Pending == SubSeq(buf[1 - widx], Taken + 1, Len(buf[1 - widx])) \o buf[widx]

\* The buffer that the kernel reads is never the one that is written: a write
\* may move its memory.
FlightApart == flight.at # "none" => flight.index = 1 - widx

\* The flags agree with the buffers: an idle socket is empty, and one that sends
\* has a send under way, which takes what its buffer holds, or has failed.
SendState ==
  /\ flight.at # "none" => sending /\ flight.size \in 1..Len(buf[flight.index])
  /\ flight.at = "done" => flight.taken \in 1..flight.size
  /\ ~sending => buf[0] = <<>> /\ buf[1] = <<>>
  /\ sending /\ flight.at \in {"none", "failed"} => broken \/ end # "none"
  /\ closed /\ ~sending => end # "none"

\* No byte waits in the socket without a send under way to move it on, unless
\* the connection failed or the socket was closed.
NothingStuck ==
  Pending # <<>> => sending /\ (flight.at # "none" \/ broken \/ end # "none")

\* A socket that close(linger) has closed has sent what was sent on it, up to the
\* close at least: in the order of the sends, none lost or sent twice, whatever the
\* swaps of the two buffers and the partial sends.
CloseFlushes ==
  end = "flushed" => \E n \in promised..asked : wire = [i \in 1..n |-> i]

\* Every byte leaves or the socket ends, and a socket that lingers is closed, unless
\* the connection fails.
Drains ==
  /\ \A n \in 1..MaxBytes :
       asked >= n ~> (Len(wire) >= n \/ end # "none" \/ broken)
  /\ closed ~> (end # "none" \/ broken)

\* The socket is the byte stream.
Stream == INSTANCE ByteStream WITH accepted <- wire \o Pending
RefinesStream == Stream!Spec
=============================================================================
