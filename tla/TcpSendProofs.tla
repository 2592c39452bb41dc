--------------------------- MODULE TcpSendProofs ---------------------------
(***************************************************************************)
(* Proofs about the sending side of a TCP socket, for any size of a send   *)
(* and any number of bytes.                                                *)
(*                                                                         *)
(* The types and the two buffers; the stream it implements; the order of   *)
(* sends and close; and that what is to be sent is under way.              *)
(***************************************************************************)
EXTENDS TcpSend, SequenceTheorems, TLAPS

\* The inductive invariant.
IInv == TypeOK /\ FlightApart /\ SendState

-----------------------------------------------------------------------------
(* Sequences. *)

\* The type of a suffix and of a prefix.
LEMMA PartsOfSeq ==
  ASSUME NEW S, NEW s \in Seq(S), NEW n \in 0..Len(s)
  PROVE  /\ SubSeq(s, 1, n) \in Seq(S)
         /\ SubSeq(s, n + 1, Len(s)) \in Seq(S)
         /\ Len(SubSeq(s, 1, n)) = n
         /\ Len(SubSeq(s, n + 1, Len(s))) = Len(s) - n
         /\ SubSeq(s, 1, n) \o SubSeq(s, n + 1, Len(s)) = s
<1>1. Len(s) \in Nat /\ \A i \in 1..Len(s) : s[i] \in S
  BY LenProperties, ElementOfSeq
<1>2. /\ SubSeq(s, 1, n) \in Seq(S) /\ Len(SubSeq(s, 1, n)) = n
  BY <1>1, SubSeqProperties
<1>3. /\ SubSeq(s, n + 1, Len(s)) \in Seq(S)
      /\ Len(SubSeq(s, n + 1, Len(s))) = Len(s) - n
  BY <1>1, SubSeqProperties
<1>4. SubSeq(s, 1, n) \o SubSeq(s, n + 1, Len(s)) = SubSeq(s, 1, Len(s))
  <2>1. /\ 1 \in 1..Len(s) + 1 /\ n \in 1 - 1..Len(s) /\ Len(s) \in n..Len(s)
    BY <1>1
  <2>2. QED
    BY <2>1, ConcatAdjacentSubSeq
<1>5. QED
  BY <1>2, <1>3, <1>4, SubSeqFull

LEMMA PrefixOfConcat ==
  ASSUME NEW S, NEW s \in Seq(S), NEW t \in Seq(S)
  PROVE  IsPrefix(s, s \o t)
<1>1. /\ Len(s) \in Nat /\ Len(t) \in Nat
      /\ Len(s \o t) = Len(s) + Len(t) /\ s \o t \in Seq(S)
  BY LenProperties, ConcatProperties
<1>2. CASE s = <<>>
  BY <1>1, <1>2, SubSeqEmpty, EmptySeq DEF IsPrefix
<1>3. CASE s # <<>>
  <2>1. Len(s) \in 1..Len(s)
    BY <1>1, <1>3, EmptySeq
  <2>2. SubSeq(s \o t, 1, Len(s)) = SubSeq(s, 1, Len(s))
    BY <1>1, <2>1, SubSeqOfConcat1
  <2>3. QED
    BY <1>1, <2>2 DEF IsPrefix
<1>4. QED
  BY <1>2, <1>3

LEMMA ByteAssociative ==
  ASSUME NEW s \in Seq(Byte), NEW t \in Seq(Byte), NEW u \in Seq(Byte)
  PROVE  (s \o t) \o u = s \o (t \o u)
BY ConcatAssociative

\* Associativity and the empty sequence, for the bytes of the socket.
LEMMA ByteConcat ==
  /\ \A s, t, u \in Seq(Byte) : (s \o t) \o u = s \o (t \o u)
  /\ \A s, t \in Seq(Byte) : s \o t \in Seq(Byte)
  /\ \A s \in Seq(Byte) : s \o <<>> = s /\ <<>> \o s = s /\ SubSeq(s, 1, Len(s)) = s
  /\ <<>> \in Seq(Byte)
BY ConcatAssociative, ConcatProperties, ConcatEmptySeq, SubSeqFull, EmptySeq, SMTT(40)

-----------------------------------------------------------------------------
(* The invariant. *)

LEMMA InitIInv == Init => IInv
<1> SUFFICES ASSUME Init PROVE IInv
  OBVIOUS
<1>1. TypeOK
  <2>1. NoFlight \in Flights
    BY SendAssumption DEF NoFlight, Flights
  <2>2. <<>> \in Seq(Operations) /\ <<>> \in Seq(Byte)
    BY EmptySeq
  <2>3. QED
    BY <2>1, <2>2, SendAssumption, SMTT(40) DEF Init, TypeOK
<1>2. FlightApart /\ SendState
  BY DEF Init, FlightApart, SendState, NoFlight
<1>3. QED
  BY <1>1, <1>2 DEF IInv

\* What flush leaves, when the buffers are b.
LEMMA FlushGives ==
  ASSUME NEW b \in [0..1 -> Seq(Byte)], NEW i \in 0..1, TypeOK,
         b[i] = <<>> => b[1 - i] = <<>>,
         buf' = b, Flush(b, i), closed' = closed
  PROVE  /\ widx' \in 0..1 /\ sending' \in BOOLEAN /\ flight' \in Flights
         /\ end' \in {"none", "flushed", "aborted"}
         /\ FlightApart' /\ SendState'
<1>1. CASE b[i] = <<>>
  <2>1. /\ sending' = FALSE /\ flight' = NoFlight /\ widx' = widx
        /\ IF closed THEN Ended("flushed") ELSE end' = end
    BY <1>1 DEF Flush
  <2>2. b[0] = <<>> /\ b[1] = <<>>
    BY <1>1
  <2>3. /\ flight' \in Flights /\ flight'.at = "none"
    BY <2>1, SendAssumption DEF NoFlight, Flights
  <2>4. /\ end' \in {"none", "flushed", "aborted"}
        /\ closed => end' # "none"
    <3>1. CASE closed
      BY <2>1, <3>1 DEF Ended, TypeOK
    <3>2. CASE ~closed
      BY <2>1, <3>2 DEF TypeOK
    <3>3. QED
      BY <3>1, <3>2
  <2>5. FlightApart' /\ SendState'
    BY <2>1, <2>2, <2>3, <2>4 DEF FlightApart, SendState
  <2>6. QED
    BY <2>1, <2>3, <2>4, <2>5 DEF TypeOK
<1>2. CASE b[i] # <<>>
  <2>1. /\ sending' = TRUE /\ widx' = 1 - i /\ end' = end
        /\ flight' = [at |-> "kernel", index |-> i, taken |-> 0,
                      size |-> IF Len(b[i]) < Chunk THEN Len(b[i]) ELSE Chunk]
    BY <1>2 DEF Flush
  <2>2. Len(b[i]) \in Nat /\ Len(b[i]) > 0
    BY <1>2, EmptySeq, LenProperties
  <2>3. flight'.size \in 1..Len(b[i]) /\ flight'.size \in 0..Chunk
    BY <2>1, <2>2, SendAssumption
  <2>4. QED
    BY <2>1, <2>2, <2>3, SendAssumption
       DEF TypeOK, Flights, FlightApart, SendState
<1>3. QED
  BY <1>1, <1>2

\* shutdown(linger)
LEMMA ShutdownGives ==
  ASSUME IInv, NEW linger \in BOOLEAN, Shutdown(linger),
         UNCHANGED <<buf, widx, sending, flight, broken>>
  PROVE  /\ closed' \in BOOLEAN /\ end' \in {"none", "flushed", "aborted"}
         /\ FlightApart' /\ SendState'
<1>1. CASE sending /\ linger
  BY <1>1 DEF Shutdown, IInv, TypeOK, FlightApart, SendState
<1>2. CASE ~(sending /\ linger)
  <2>1. /\ closed' = closed /\ end' \in {"none", "flushed", "aborted"}
        /\ end' # "none"
    BY <1>2 DEF Shutdown, Ended, IInv, TypeOK
  <2>2. QED
    BY <2>1 DEF IInv, TypeOK, FlightApart, SendState
<1>3. QED
  BY <1>1, <1>2

LEMMA PostedHead ==
  ASSUME TypeOK, posted # <<>>
  PROVE  Head(posted) \in Operations /\ Tail(posted) \in Seq(Operations)
BY HeadTailProperties DEF TypeOK

LEMMA AsyncSendKeeps ==
  ASSUME IInv, NEW n \in 1..MaxBytes, AsyncSend(n)
  PROVE  IInv'
<1> DEFINE data == [i \in 1..n |-> asked + i]
<1>1. asked' \in 0..MaxBytes
  BY SendAssumption DEF AsyncSend, IInv, TypeOK
<1>2. \A i \in 1..n : asked + i \in Byte
  BY SendAssumption DEF AsyncSend, IInv, TypeOK, Byte
<1>3. data \in Seq(Byte)
  BY <1>2, IsASeq
<1>4. [op |-> "write", data |-> data] \in Operations
  BY <1>3 DEF Operations
<1>5. posted' \in Seq(Operations)
  BY <1>4, AppendProperties DEF AsyncSend, IInv, TypeOK
<1>6. QED
  BY <1>1, <1>5 DEF AsyncSend, IInv, TypeOK, FlightApart, SendState

LEMMA CloseKeeps ==
  ASSUME IInv, NEW linger \in BOOLEAN, Close(linger)
  PROVE  IInv'
<1>1. /\ closes' \in 0..MaxClose /\ promised' \in 0..MaxBytes
      /\ UNCHANGED <<buf, widx, sending, flight, asyned, broken, wire, asked>>
  BY SendAssumption DEF Close, IInv, TypeOK
<1>2. CASE asyned
  <2>1. [op |-> "shutdown", linger |-> linger] \in Operations
    BY DEF Operations
  <2>2. /\ posted' = Append(posted, [op |-> "shutdown", linger |-> linger])
        /\ UNCHANGED <<closed, end>>
    BY <1>2 DEF Close
  <2>4. posted \in Seq(Operations)
    BY DEF IInv, TypeOK
  <2>5. posted' \in Seq(Operations)
    BY <2>1, <2>2, <2>4, AppendProperties
  <2>3. QED
    BY <1>1, <2>2, <2>5 DEF IInv, TypeOK, FlightApart, SendState
<1>3. CASE ~asyned
  <2>1. Shutdown(FALSE) /\ UNCHANGED posted
    BY <1>3 DEF Close
  <2>2. /\ closed' \in BOOLEAN /\ end' \in {"none", "flushed", "aborted"}
        /\ FlightApart' /\ SendState'
    BY <1>1, <2>1, ShutdownGives
  <2>3. QED
    BY <1>1, <2>1, <2>2 DEF IInv, TypeOK
<1>4. QED
  BY <1>2, <1>3

LEMMA RunWriteKeeps ==
  ASSUME IInv, RunWrite
  PROVE  IInv'
<1>1. /\ posted' \in Seq(Operations) /\ Head(posted).data \in Seq(Byte)
      /\ UNCHANGED <<closed, asyned, broken, wire, asked, promised, closes>>
  BY PostedHead DEF RunWrite, IInv, Operations
<1>2. PICK data \in Seq(Byte) : data = Head(posted).data
  BY <1>1
<1>3. PICK b : b = [buf EXCEPT ![widx] = buf[widx] \o data]
  OBVIOUS
<1>4. buf' = b /\ b \in [0..1 -> Seq(Byte)]
  BY <1>2, <1>3, ConcatProperties DEF RunWrite, IInv, TypeOK
<1>5. CASE sending
  <2>1. /\ UNCHANGED <<widx, sending, flight>>
        /\ end' \in {"none", "flushed", "aborted"}
        /\ end # "none" => end' # "none"
    BY <1>5 DEF RunWrite, Ended, IInv, TypeOK
  <2>2. flight.at # "none" => b[flight.index] = buf[flight.index]
    BY <1>3 DEF IInv, TypeOK, FlightApart, Flights
  <2>3. SendState'
    BY <1>1, <1>4, <1>5, <2>1, <2>2 DEF IInv, SendState
  <2>4. QED
    BY <1>1, <1>4, <2>1, <2>3 DEF IInv, TypeOK, FlightApart
<1>6. CASE ~sending
  <2>1. Flush(b, widx)
    BY <1>4, <1>6 DEF RunWrite
  <2>2. b[1 - widx] = <<>>
    BY <1>3, <1>6 DEF IInv, TypeOK, SendState
  <2>3. /\ widx' \in 0..1 /\ sending' \in BOOLEAN /\ flight' \in Flights
        /\ end' \in {"none", "flushed", "aborted"}
        /\ FlightApart' /\ SendState'
    BY <1>1, <1>4, <2>1, <2>2, FlushGives DEF IInv, TypeOK
  <2>4. QED
    BY <1>1, <1>4, <2>3 DEF IInv, TypeOK
<1>7. QED
  BY <1>5, <1>6

LEMMA RunShutdownKeeps ==
  ASSUME IInv, RunShutdown
  PROVE  IInv'
<1>1. /\ posted' \in Seq(Operations) /\ Head(posted).linger \in BOOLEAN
  BY PostedHead DEF RunShutdown, IInv, Operations
<1>2. PICK linger \in BOOLEAN : linger = Head(posted).linger
  BY <1>1
<1>3. /\ Shutdown(linger)
      /\ UNCHANGED <<buf, widx, sending, flight, asyned, broken, wire, asked,
                     promised, closes>>
  BY <1>2 DEF RunShutdown
<1>4. /\ closed' \in BOOLEAN /\ end' \in {"none", "flushed", "aborted"}
      /\ FlightApart' /\ SendState'
  BY <1>3, ShutdownGives
<1>5. QED
  BY <1>1, <1>3, <1>4 DEF IInv, TypeOK

LEMMA TransmitKeeps ==
  ASSUME IInv, NEW n \in 1..Chunk, Transmit(n)
  PROVE  IInv'
<1>1. /\ flight.at = "kernel" /\ n \in 1..flight.size
      /\ flight' = [flight EXCEPT !.at = "done", !.taken = n]
      /\ flight.index \in 0..1 /\ buf[flight.index] \in Seq(Byte)
      /\ flight.size \in 1..Len(buf[flight.index])
  BY DEF Transmit, IInv, TypeOK, Flights, SendState
<1>2. n \in 0..Len(buf[flight.index])
  BY <1>1, LenProperties
<1>3. SubSeq(buf[flight.index], 1, n) \in Seq(Byte)
  BY <1>1, <1>2, PartsOfSeq
<1>4. wire' \in Seq(Byte)
  BY <1>3, ConcatProperties DEF Transmit, IInv, TypeOK
<1>5. flight' \in Flights
  <2>1. n \in 0..Chunk /\ flight \in Flights
    BY SendAssumption DEF IInv, TypeOK
  <2>2. QED
    BY <1>1, <2>1 DEF Flights
<1>6. flight'.at = "done" /\ flight'.taken = n /\ flight'.size = flight.size
      /\ flight'.index = flight.index
  BY <1>1 DEF IInv, TypeOK, Flights
<1>7. FlightApart' /\ SendState'
  BY <1>1, <1>6 DEF Transmit, IInv, FlightApart, SendState
<1>8. QED
  BY <1>4, <1>5, <1>7 DEF Transmit, IInv, TypeOK

LEMMA FailKeeps ==
  ASSUME IInv, Fail
  PROVE  IInv'
<1>1. /\ flight' \in Flights /\ flight'.at = "failed" /\ flight.at = "kernel"
      /\ flight'.index = flight.index /\ flight'.size = flight.size
  BY DEF Fail, IInv, TypeOK, Flights
<1>2. FlightApart' /\ SendState'
  BY <1>1 DEF Fail, IInv, FlightApart, SendState
<1>3. QED
  BY <1>1, <1>2 DEF Fail, IInv, TypeOK

LEMMA CommitKeeps ==
  ASSUME IInv, Commit
  PROVE  IInv'
<1> DEFINE index == 1 - widx
<1>1. /\ index \in 0..1 /\ flight.index = index /\ buf[index] \in Seq(Byte)
      /\ flight.taken \in 0..Len(buf[index])
      /\ UNCHANGED <<posted, closed, asyned, broken, wire, asked, promised, closes>>
  BY LenProperties DEF Commit, IInv, TypeOK, FlightApart, SendState, Flights
<1>2. PICK rest \in Seq(Byte) :
        rest = SubSeq(buf[index], flight.taken + 1, Len(buf[index]))
  BY <1>1, PartsOfSeq
<1>3. PICK b : b = [buf EXCEPT ![index] = rest]
  OBVIOUS
<1>4. /\ buf' = b /\ b \in [0..1 -> Seq(Byte)]
      /\ Flush(b, IF rest # <<>> THEN index ELSE widx)
  BY <1>1, <1>2, <1>3 DEF Commit, IInv, TypeOK
<1>5. PICK i \in 0..1 : /\ i = IF rest # <<>> THEN index ELSE widx
                        /\ b[i] = <<>> => b[1 - i] = <<>>
                        /\ Flush(b, i)
  BY <1>1, <1>3, <1>4 DEF IInv, TypeOK
<1>6. /\ widx' \in 0..1 /\ sending' \in BOOLEAN /\ flight' \in Flights
      /\ end' \in {"none", "flushed", "aborted"}
      /\ FlightApart' /\ SendState'
  BY <1>1, <1>4, <1>5, FlushGives DEF IInv
<1>7. QED
  BY <1>1, <1>4, <1>6 DEF IInv, TypeOK

LEMMA OthersKeep ==
  ASSUME IInv, AsyncWait \/ CommitError \/ Expire \/ UNCHANGED vars
  PROVE  IInv'
<1>1. CASE AsyncWait
  BY <1>1 DEF AsyncWait, IInv, TypeOK, FlightApart, SendState
<1>2. CASE CommitError
  <2>1. flight' \in Flights /\ flight'.at = "none"
    BY <1>2, SendAssumption DEF CommitError, NoFlight, Flights
  <2>2. QED
    BY <1>2, <2>1 DEF CommitError, IInv, TypeOK, FlightApart, SendState
<1>3. CASE Expire
  <2>1. /\ closed' \in BOOLEAN /\ end' \in {"none", "flushed", "aborted"}
        /\ FlightApart' /\ SendState'
    BY <1>3, ShutdownGives DEF Expire
  <2>2. QED
    BY <1>3, <2>1 DEF Expire, IInv, TypeOK
<1>4. CASE UNCHANGED vars
  BY <1>4 DEF vars, IInv, TypeOK, FlightApart, SendState
<1>5. QED
  BY <1>1, <1>2, <1>3, <1>4

LEMMA NextIInv == IInv /\ [Next]_vars => IInv'
<1> SUFFICES ASSUME IInv, [Next]_vars PROVE IInv'
  OBVIOUS
<1>1. CASE \E n \in 1..MaxBytes : AsyncSend(n)
  BY <1>1, AsyncSendKeeps
<1>2. CASE \E linger \in BOOLEAN : Close(linger)
  BY <1>2, CloseKeeps
<1>3. CASE RunWrite
  BY <1>3, RunWriteKeeps
<1>4. CASE RunShutdown
  BY <1>4, RunShutdownKeeps
<1>5. CASE Commit
  BY <1>5, CommitKeeps
<1>6. CASE Fail
  BY <1>6, FailKeeps
<1>7. CASE \E n \in 1..Chunk : Transmit(n)
  BY <1>7, TransmitKeeps
<1>8. CASE AsyncWait \/ CommitError \/ Expire \/ UNCHANGED vars
  BY <1>8, OthersKeep
<1>9. QED
  BY <1>1, <1>2, <1>3, <1>4, <1>5, <1>6, <1>7, <1>8 DEF Next, Reactor, Kernel

\* The socket keeps its types, never writes the buffer that the kernel reads, and
\* its flags agree with its buffers.
THEOREM Invariance == Spec => []IInv
<1>1. QED
  BY InitIInv, NextIInv, PTL DEF Spec

\* Type correctness: a send takes at most Chunk bytes of one of the two buffers.
THEOREM TypeCorrect == Spec => []TypeOK
<1>1. IInv => TypeOK
  BY DEF IInv
<1>2. QED
  BY <1>1, Invariance, PTL

\* The buffer that the kernel reads is never the one that is written.
THEOREM FlightApartAlways == Spec => []FlightApart
<1>1. IInv => FlightApart
  BY DEF IInv
<1>2. QED
  BY <1>1, Invariance, PTL

\* Bytes never wait in an open, working socket without a send under way.
THEOREM NothingStuckAlways == Spec => []NothingStuck
<1>1. IInv => NothingStuck
  <2> SUFFICES ASSUME IInv, Pending # <<>>
               PROVE  sending /\ (flight.at # "none" \/ broken \/ end # "none")
    BY DEF NothingStuck
  <2>1. widx \in 0..1 /\ 1 - widx \in 0..1
    BY DEF IInv, TypeOK
  <2>2. CASE ~sending
    <3>1. /\ buf[widx] = <<>> /\ buf[1 - widx] = <<>> /\ Taken = 0
      BY <2>1, <2>2 DEF IInv, SendState, Taken
    <3>2. SubSeq(buf[1 - widx], Taken + 1, Len(buf[1 - widx])) = <<>>
      BY <3>1, SubSeqEmpty, EmptySeq
    <3>3. Pending = <<>>
      BY <3>1, <3>2, ConcatEmptySeq, EmptySeq DEF Pending
    <3>4. QED
      BY <3>3
  <2>3. CASE sending
    BY <2>3 DEF IInv, SendState
  <2>4. QED
    BY <2>2, <2>3
<1>2. QED
  BY <1>1, Invariance, PTL

-----------------------------------------------------------------------------
(* The socket is the byte stream. *)

\* The bytes the socket has accepted: the stream.
Accepted == wire \o Pending

\* The bytes of the socket, by cases of where the send under way is.
LEMMA PendingType ==
  ASSUME IInv
  PROVE  /\ Taken \in 0..Len(buf[1 - widx])
         /\ SubSeq(buf[1 - widx], Taken + 1, Len(buf[1 - widx])) \in Seq(Byte)
         /\ buf[0] \in Seq(Byte) /\ buf[1] \in Seq(Byte)
         /\ widx \in 0..1 /\ 1 - widx \in 0..1
         /\ Pending \in Seq(Byte) /\ wire \in Seq(Byte)
         /\ wire \o Pending \in Seq(Byte)
<1>1. /\ buf[0] \in Seq(Byte) /\ buf[1] \in Seq(Byte) /\ wire \in Seq(Byte)
      /\ widx \in 0..1 /\ 1 - widx \in 0..1
  BY DEF IInv, TypeOK
<1>2. Taken \in 0..Len(buf[1 - widx])
  BY <1>1, LenProperties DEF IInv, TypeOK, FlightApart, SendState, Flights, Taken
<1>3. SubSeq(buf[1 - widx], Taken + 1, Len(buf[1 - widx])) \in Seq(Byte)
  BY <1>1, <1>2, PartsOfSeq
<1>4. Pending \in Seq(Byte)
  BY <1>1, <1>3, ConcatProperties DEF Pending
<1>5. QED
  BY <1>1, <1>2, <1>3, <1>4, ConcatProperties

\* An idle socket holds no byte.
LEMMA IdlePending ==
  ASSUME IInv, ~sending
  PROVE  Pending = <<>> /\ buf[0] = <<>> /\ buf[1] = <<>>
<1>1. /\ buf[widx] = <<>> /\ buf[1 - widx] = <<>> /\ Taken = 0
      /\ buf[0] = <<>> /\ buf[1] = <<>>
  BY PendingType DEF IInv, SendState, Taken
<1>2. SubSeq(buf[1 - widx], Taken + 1, Len(buf[1 - widx])) = <<>>
  BY <1>1, SubSeqEmpty, EmptySeq
<1>3. QED
  BY <1>1, <1>2, ConcatEmptySeq, EmptySeq DEF Pending

\* A close is the end of the stream, or no step of it.
LEMMA ShutdownRefines ==
  ASSUME IInv, NEW linger \in BOOLEAN, Shutdown(linger),
         UNCHANGED <<buf, widx, sending, flight, wire>>
  PROVE  Accepted' = Accepted /\ (Stream!Next \/ UNCHANGED Stream!vars)
<1>1. (wire \o Pending)' = wire \o Pending
  BY DEF Pending, Taken
<1>2. CASE end' = end
  BY <1>1, <1>2 DEF Accepted, Stream!vars
<1>3. CASE end' # end
  <2>1. /\ end = "none"
        /\ end' = "aborted" \/ (end' = "flushed" /\ ~sending)
    BY <1>3 DEF Shutdown, Ended
  <2>2. CASE end' = "aborted"
    BY <1>1, <2>1, <2>2 DEF Accepted, Stream!Next, Stream!Abort
  <2>3. CASE end' = "flushed" /\ ~sending
    <3>1. wire = wire \o Pending
      BY <2>3, IdlePending, PendingType, ConcatEmptySeq
    <3>2. QED
      BY <1>1, <2>1, <2>3, <3>1 DEF Accepted, Stream!Next, Stream!Finish
  <2>4. QED
    BY <2>1, <2>2, <2>3
<1>4. QED
  BY <1>1, <1>2, <1>3 DEF Accepted

LEMMA RunWriteRefines ==
  ASSUME IInv, RunWrite
  PROVE  /\ Stream!Next /\ end' \in {end, "aborted"}
         /\ Accepted' = Accepted \o Head(posted).data
<1>1. PICK data \in Seq(Byte) : data = Head(posted).data
  BY PostedHead DEF RunWrite, IInv, Operations
<1>2. /\ buf' = [buf EXCEPT ![widx] = buf[widx] \o data]
      /\ buf \in [0..1 -> Seq(Byte)] /\ wire' = wire /\ closed' = closed
  BY <1>1 DEF RunWrite, IInv, TypeOK
<1>3. PICK rest \in Seq(Byte) :
        rest = SubSeq(buf[1 - widx], Taken + 1, Len(buf[1 - widx]))
  BY PendingType
<1>4. /\ widx \in 0..1 /\ buf[widx] \in Seq(Byte) /\ wire \in Seq(Byte)
      /\ Pending \in Seq(Byte) /\ wire \o Pending \in Seq(Byte)
  BY PendingType
<1>5. Pending' = Pending \o data /\ end' \in {end, "aborted"} /\ (end' # end => end = "none")
  <2>1. CASE sending
    <3>1. UNCHANGED <<widx, flight>> /\ (end' = end \/ Ended("aborted"))
      BY <2>1 DEF RunWrite
    <3>2. Taken' = Taken /\ buf'[1 - widx] = buf[1 - widx]
          /\ buf'[widx] = buf[widx] \o data
      BY <1>2, <1>4, <3>1 DEF Taken
    <3>3. Pending' = rest \o (buf[widx] \o data)
      BY <1>3, <3>1, <3>2 DEF Pending
    <3>4. Pending = rest \o buf[widx]
      BY <1>3 DEF Pending
    <3>5. Pending' = Pending \o data
      <4>1. (rest \o buf[widx]) \o data = rest \o (buf[widx] \o data)
        BY <1>3, <1>4, ByteAssociative, ZenonT(60)
      <4>2. QED
        BY <3>3, <3>4, <4>1, ZenonT(40)
    <3>6. QED
      BY <3>1, <3>5 DEF Ended
  <2>2. CASE ~sending
    <3>1. Pending = <<>> /\ buf[widx] = <<>> /\ buf[1 - widx] = <<>>
      BY <2>2, <1>4, IdlePending
    <3>2. PICK b : b = buf'
      OBVIOUS
    <3>3. b[widx] = data /\ b[1 - widx] = <<>>
      BY <1>2, <1>4, <3>1, <3>2, ConcatEmptySeq
    <3>4. Flush(b, widx)
      BY <2>2, <3>2 DEF RunWrite
    <3>5. CASE data = <<>>
      <4>1. widx' = widx /\ Taken' = 0
        BY <3>3, <3>4, <3>5 DEF Flush, Taken, NoFlight
      <4>2. SubSeq(<<>>, 1, Len(<<>>)) = <<>>
        BY SubSeqEmpty, EmptySeq
      <4>3. Pending' = <<>> \o <<>>
        BY <3>2, <3>3, <3>5, <4>1, <4>2 DEF Pending
      <4>4. Pending' = Pending \o data
        BY <3>1, <3>5, <4>3
      <4>5. end' = end
        BY <2>2, <3>3, <3>4, <3>5 DEF Flush, Ended, IInv, SendState
      <4>6. QED
        BY <4>4, <4>5
    <3>6. CASE data # <<>>
      <4>1. widx' = 1 - widx /\ Taken' = 0 /\ end' = end
        BY <3>3, <3>4, <3>6 DEF Flush, Taken
      <4>2. b[1 - widx'] = data /\ b[widx'] = <<>>
        BY <1>4, <3>3, <4>1
      <4>3. Pending' = SubSeq(data, 1, Len(data)) \o <<>>
        BY <3>2, <4>1, <4>2 DEF Pending
      <4>4. Pending' = data
        BY <4>3, SubSeqFull, ConcatEmptySeq
      <4>5. QED
        BY <3>1, <4>1, <4>4, ConcatEmptySeq
    <3>7. QED
      BY <3>5, <3>6
  <2>3. QED
    BY <2>1, <2>2
<1>6. (wire \o Pending)' = (wire \o Pending) \o data
  <2>1. (wire \o Pending)' = wire \o (Pending \o data)
    BY <1>2, <1>5
  <2>2. wire \in Seq(Byte) /\ Pending \in Seq(Byte) /\ data \in Seq(Byte)
    BY <1>1, <1>4
  <2>3. (wire \o Pending) \o data = wire \o (Pending \o data)
    BY <2>2, ByteAssociative, ZenonT(60)
  <2>4. QED
    BY <2>1, <2>3, ZenonT(40)
<1>7. IsPrefix(wire \o Pending, (wire \o Pending)')
  BY <1>4, <1>6, PrefixOfConcat
<1>8. Stream!Next
  BY <1>2, <1>5, <1>7 DEF Stream!Next, Stream!Accept, IsPrefix, Stream!IsPrefix
<1>9. Accepted' = Accepted \o Head(posted).data
  BY <1>1, <1>6 DEF Accepted
<1>10. QED
  BY <1>5, <1>8, <1>9

LEMMA TransmitRefines ==
  ASSUME IInv, NEW n \in 1..Chunk, Transmit(n)
  PROVE  Accepted' = Accepted /\ Stream!Next
<1> DEFINE s == buf[1 - widx]
<1>1. /\ flight.index = 1 - widx /\ Taken = 0 /\ Taken' = n
      /\ n \in 0..Len(s) /\ n >= 1
      /\ UNCHANGED <<buf, widx, end>> /\ end = "none"
      /\ wire' = wire \o SubSeq(s, 1, n)
  BY LenProperties, SMTT(40)
     DEF Transmit, IInv, TypeOK, FlightApart, SendState, Flights, Taken
<1>2. s \in Seq(Byte) /\ buf[widx] \in Seq(Byte) /\ wire \in Seq(Byte)
  BY PendingType
<1> HIDE DEF s
<1> DEFINE head == SubSeq(s, 1, n)
           rest == SubSeq(s, n + 1, Len(s))
<1>3. /\ head \in Seq(Byte) /\ rest \in Seq(Byte)
      /\ Len(head) = n /\ head \o rest = s
  BY <1>1, <1>2, PartsOfSeq
<1>4. Pending = s \o buf[widx] /\ Pending' = rest \o buf[widx]
  <2>1. Pending = SubSeq(s, 1, Len(s)) \o buf[widx]
    BY <1>1 DEF Pending, s
  <2>2. Pending' = rest \o buf[widx]
    BY <1>1 DEF Pending, s
  <2>3. QED
    BY <1>2, <2>1, <2>2, ByteConcat
<1> HIDE DEF head, rest
<1>5. head \o rest \in Seq(Byte) /\ rest \o buf[widx] \in Seq(Byte)
      /\ wire \o head \in Seq(Byte) /\ wire' = wire \o head
  BY <1>1, <1>2, <1>3, ByteConcat DEF head
<1>6. Pending = head \o (rest \o buf[widx])
  <2>1. head \in Seq(Byte) /\ rest \in Seq(Byte) /\ buf[widx] \in Seq(Byte)
    BY <1>2, <1>3
  <2>2. (head \o rest) \o buf[widx] = head \o (rest \o buf[widx])
    BY <2>1, ByteAssociative, ZenonT(60)
  <2>3. QED
    BY <1>3, <1>4, <2>2, ZenonT(40)
<1>7. wire \o Pending = (wire \o head) \o (rest \o buf[widx])
  <2>1. wire \in Seq(Byte) /\ head \in Seq(Byte) /\ rest \o buf[widx] \in Seq(Byte)
    BY <1>2, <1>3, <1>5
  <2>2. (wire \o head) \o (rest \o buf[widx]) = wire \o (head \o (rest \o buf[widx]))
    BY <2>1, ByteAssociative, ZenonT(60)
  <2>3. QED
    BY <1>6, <2>2, ZenonT(40)
<1>8. (wire \o Pending)' = wire \o Pending
  BY <1>4, <1>5, <1>7
<1>9. IsPrefix(wire, wire') /\ IsPrefix(wire', wire \o Pending)
  BY <1>2, <1>3, <1>5, <1>7, PrefixOfConcat
<1>10. wire' # wire
  <2>1. head # <<>>
    BY <1>1, <1>3, EmptySeq
  <2>2. QED
    BY <1>2, <1>3, <1>5, <2>1, ConcatEqualIffEmpty
<1>11. QED
  BY <1>1, <1>8, <1>9, <1>10
     DEF Accepted, Stream!Next, Stream!Transmit, IsPrefix, Stream!IsPrefix

LEMMA CommitRefines ==
  ASSUME IInv, Commit
  PROVE  Accepted' = Accepted /\ (Stream!Next \/ UNCHANGED Stream!vars)
<1> DEFINE index == 1 - widx
<1>1. /\ flight.index = index /\ Taken = flight.taken
      /\ wire' = wire /\ closed' = closed
  BY DEF Commit, IInv, FlightApart, Taken
<1>2. /\ widx \in 0..1 /\ index \in 0..1 /\ 1 - index = widx /\ index # widx
      /\ buf[widx] \in Seq(Byte) /\ wire \in Seq(Byte)
      /\ wire \o Pending \in Seq(Byte)
  BY PendingType
<1>3. PICK rest \in Seq(Byte) :
        rest = SubSeq(buf[index], Taken + 1, Len(buf[index]))
  BY PendingType
<1>4. PICK b : b = [buf EXCEPT ![index] = rest]
  OBVIOUS
<1>5. /\ buf' = b /\ b[index] = rest /\ b[widx] = buf[widx]
      /\ Flush(b, IF rest # <<>> THEN index ELSE widx)
  BY <1>1, <1>2, <1>3, <1>4 DEF Commit, IInv, TypeOK
<1>6. Pending = rest \o buf[widx]
  BY <1>3 DEF Pending
<1>10. \A w \in 0..1 : widx' = w /\ Taken' = 0 =>
         Pending' = SubSeq(b[1 - w], 1, Len(b[1 - w])) \o b[w]
  BY <1>5 DEF Pending
<1>11. 1 - index = widx /\ 1 - widx = index
  BY <1>2
<1> HIDE DEF index
<1>7. CASE rest # <<>>
  <2>1. widx' = widx /\ Taken' = 0 /\ end' = end
    BY <1>2, <1>5, <1>7 DEF Flush, Taken
  <2>2. Pending' = SubSeq(rest, 1, Len(rest)) \o buf[widx]
    BY <1>2, <1>5, <1>10, <1>11, <2>1
  <2>3. Pending' = Pending
    BY <1>6, <2>2, SubSeqFull
  <2>4. QED
    BY <1>1, <2>1, <2>3 DEF Accepted, Stream!vars
<1>8. CASE rest = <<>> /\ buf[widx] # <<>>
  <2>1. widx' = index /\ Taken' = 0 /\ end' = end
    BY <1>2, <1>5, <1>8 DEF Flush, Taken, index
  <2>2. Pending' = SubSeq(buf[widx], 1, Len(buf[widx])) \o rest
    BY <1>2, <1>5, <1>10, <1>11, <2>1
  <2>3. Pending' = Pending
    BY <1>2, <1>6, <1>8, <2>2, ByteConcat
  <2>4. QED
    BY <1>1, <2>1, <2>3 DEF Accepted, Stream!vars
<1>9. CASE rest = <<>> /\ buf[widx] = <<>>
  <2>1. /\ widx' = widx /\ Taken' = 0
        /\ end' = end \/ (end = "none" /\ end' = "flushed")
    BY <1>5, <1>9 DEF Flush, Taken, NoFlight, Ended
  <2>2. SubSeq(rest, 1, Len(rest)) = <<>>
    BY <1>9, SubSeqEmpty, EmptySeq
  <2>3. Pending' = Pending
    BY <1>2, <1>5, <1>6, <1>9, <1>10, <1>11, <2>1, <2>2
  <2>4. wire \o Pending = wire
    BY <1>2, <1>6, <1>9, EmptySeq, ConcatEmptySeq
  <2>5. QED
    BY <1>1, <2>1, <2>3, <2>4 DEF Accepted, Stream!vars, Stream!Next, Stream!Finish
<1>12. QED
  BY <1>7, <1>8, <1>9

LEMMA QuietRefines ==
  ASSUME IInv, UNCHANGED <<buf, widx, wire, end>>, Taken' = Taken
  PROVE  Accepted' = Accepted /\ UNCHANGED Stream!vars
BY DEF Accepted, Pending, Stream!vars

LEMMA NextRefines ==
  ASSUME IInv, [Next]_vars
  PROVE  Stream!Next \/ UNCHANGED Stream!vars
<1>1. CASE \E n \in 1..MaxBytes : AsyncSend(n)
  BY <1>1, QuietRefines DEF AsyncSend, Taken
<1>2. CASE AsyncWait
  BY <1>2, QuietRefines DEF AsyncWait, Taken
<1>3. CASE \E linger \in BOOLEAN : Close(linger)
  <2>1. CASE asyned
    BY <1>3, <2>1, QuietRefines DEF Close, Taken
  <2>2. CASE ~asyned
    BY <1>3, <2>2, ShutdownRefines DEF Close
  <2>3. QED
    BY <2>1, <2>2
<1>4. CASE RunWrite
  BY <1>4, RunWriteRefines
<1>5. CASE RunShutdown
  <2>1. PICK linger \in BOOLEAN : linger = Head(posted).linger
    BY <1>5, PostedHead DEF RunShutdown, IInv, Operations
  <2>2. QED
    BY <1>5, <2>1, ShutdownRefines DEF RunShutdown
<1>6. CASE Commit
  BY <1>6, CommitRefines
<1>7. CASE CommitError
  BY <1>7, QuietRefines DEF CommitError, Taken, NoFlight
<1>8. CASE \E n \in 1..Chunk : Transmit(n)
  BY <1>8, TransmitRefines
<1>9. CASE Fail
  <2>1. flight'.at = "failed" /\ flight.at = "kernel"
    BY <1>9 DEF Fail, IInv, TypeOK, Flights
  <2>2. QED
    BY <1>9, <2>1, QuietRefines DEF Fail, Taken
<1>10. CASE Expire
  BY <1>10, ShutdownRefines DEF Expire
<1>11. CASE UNCHANGED vars
  BY <1>11, QuietRefines DEF vars, Taken
<1>12. QED
  BY <1>1, <1>2, <1>3, <1>4, <1>5, <1>6, <1>7, <1>8, <1>9, <1>10, <1>11
     DEF Next, Reactor, Kernel

\* The socket implements the byte stream: whatever the order of sends, partial
\* completions, swaps of the buffers and closes, the bytes leave in the order in
\* which they were accepted, and a socket that ends flushed has sent them all.
THEOREM Refinement == Spec => RefinesStream
<1>1. Init => Stream!Init
  <2>1. ASSUME Init PROVE Stream!Init
    <3>1. IInv /\ ~sending /\ wire = <<>>
      BY <2>1, InitIInv DEF Init
    <3>2. wire \o Pending = <<>>
      BY <3>1, IdlePending, EmptySeq, ConcatEmptySeq
    <3>3. QED
      BY <2>1, <3>2 DEF Init, Stream!Init
  <2>2. QED
    BY <2>1
<1>2. IInv /\ [Next]_vars => [Stream!Next]_Stream!vars
  BY NextRefines
<1>3. QED
  BY <1>1, <1>2, Invariance, PTL DEF Spec, RefinesStream, Stream!Spec

-----------------------------------------------------------------------------
(* What a lingering close promises. *)

\* The first n bytes that the script sends.
First(n) == [i \in 1..n |-> i]

\* The bytes after the first m, up to the n-th.
BytesOf(m, n) == [i \in 1..n - m |-> m + i]

\* The socket is to be closed once it is empty, or has been.
Closing == closed \/ end = "flushed"

\* mark[0] bytes are accepted, and mark[k] will be when the first k operations that
\* are posted have run: a write brings the bytes after those of the operation before
\* it, and a shutdown waits behind all that had been sent when close was first called.
Ordered(mark) ==
  /\ mark[Len(posted)] = asked
  /\ Accepted = First(mark[0])
  /\ \A k \in 1..Len(posted) :
       /\ mark[k - 1] <= mark[k]
       /\ posted[k].op = "write" =>
            posted[k].data = BytesOf(mark[k - 1], mark[k])
       /\ posted[k].op = "shutdown" =>
            mark[k] = mark[k - 1] /\ closes > 0 /\ promised <= mark[k]
  /\ Closing => closes > 0 /\ promised <= mark[0]

InOrder == \E mark \in [0..Len(posted) -> 0..asked] : Ordered(mark)

Finished == end = "flushed" => closes > 0 /\ \E n \in promised..asked : wire = First(n)

\* The inductive invariant of the order, beside IInv.
OrderInv == InOrder /\ Finished /\ promised <= asked

\* A first call of close sets what is promised, and later calls leave it.
Kept == closes > 0 => closes' > 0 /\ promised' = promised

LEMMA FirstConcat ==
  ASSUME NEW m \in Nat, NEW n \in Nat, m <= n
  PROVE  First(m) \o BytesOf(m, n) = First(n)
<1>1. /\ First(m) \in Seq(Nat) /\ Len(First(m)) = m
      /\ BytesOf(m, n) \in Seq(Nat) /\ Len(BytesOf(m, n)) = n - m
      /\ First(n) \in Seq(Nat) /\ Len(First(n)) = n
  BY IsASeq, LenProperties DEF First, BytesOf
<1>2. QED
  BY <1>1, ConcatProperties, SeqEqual DEF First, BytesOf

\* Nothing is posted or run.
LEMMA SameMarks ==
  ASSUME InOrder, UNCHANGED <<posted, asked>>, Accepted' = Accepted,
         Kept, Closing' => Closing
  PROVE  InOrder'
<1> PICK mark \in [0..Len(posted) -> 0..asked] : Ordered(mark)
  BY DEF InOrder
<1>1. Ordered(mark)'
  BY DEF Ordered, Kept
<1>2. QED
  BY <1>1 DEF InOrder

\* An operation is posted.
LEMMA EndMarks ==
  ASSUME InOrder, posted \in Seq(Operations), NEW op \in Operations,
         posted' = Append(posted, op), asked \in Nat, asked' \in Nat, asked <= asked',
         op.op = "write" => op.data = BytesOf(asked, asked'),
         op.op = "shutdown" => asked' = asked /\ closes' > 0 /\ promised' <= asked,
         Accepted' = Accepted, Kept, Closing' => Closing
  PROVE  InOrder'
<1> PICK mark \in [0..Len(posted) -> 0..asked] : Ordered(mark)
  BY DEF InOrder
<1> PICK n \in Nat : n = Len(posted)
  BY LenProperties
<1> PICK all : all = asked'
  OBVIOUS
<1> PICK p : p = posted'
  OBVIOUS
<1>1. Len(p) = n + 1 /\ p[n + 1] = op /\ \A k \in 1..n : p[k] = posted[k]
  BY AppendProperties
<1> DEFINE new == [k \in 0..n + 1 |-> IF k = n + 1 THEN all ELSE mark[k]]
<1>2. new \in [0..n + 1 -> 0..all]
  <2>1. \A k \in 0..n : mark[k] \in 0..all
    OBVIOUS
  <2>2. QED
    BY <2>1
<1>3. /\ new[n + 1] = all /\ new[0] = mark[0] /\ mark[n] = asked
      /\ \A k \in 0..n : new[k] = mark[k]
  BY DEF Ordered
<1> HIDE DEF new
<1>4. ASSUME NEW k \in 1..n + 1
      PROVE  /\ new[k - 1] <= new[k]
             /\ p[k].op = "write" =>
                  p[k].data = BytesOf(new[k - 1], new[k])
             /\ p[k].op = "shutdown" =>
                  new[k] = new[k - 1] /\ closes' > 0 /\ promised' <= new[k]
  <2>1. CASE k = n + 1
    <3>1. new[k] = all /\ new[k - 1] = asked /\ p[k] = op
      BY <1>1, <1>3, <2>1
    <3>2. QED
      BY <3>1
  <2>2. CASE k \in 1..n
    <3>1. new[k] = mark[k] /\ new[k - 1] = mark[k - 1] /\ p[k] = posted[k]
      BY <1>1, <1>3, <2>2
    <3>2. QED
      BY <2>2, <3>1 DEF Ordered, Kept
  <2>3. QED
    BY <2>1, <2>2
<1>5. Closing' => closes' > 0 /\ promised' <= new[0]
  BY <1>3 DEF Ordered, Kept
<1>6. Ordered(new)'
  BY <1>1, <1>3, <1>4, <1>5 DEF Ordered
<1>7. QED
  BY <1>1, <1>2, <1>6 DEF InOrder

\* The first operation is run: the bytes it brings are accepted.
LEMMA TailMarks ==
  ASSUME InOrder, posted \in Seq(Operations), posted # <<>>, posted' = Tail(posted),
         asked \in Nat, promised \in Nat, UNCHANGED <<asked, closes, promised>>,
         \/ Head(posted).op = "write" /\ Accepted' = Accepted \o Head(posted).data
         \/ Head(posted).op = "shutdown" /\ Accepted' = Accepted,
         Closing' => Closing \/ Head(posted).op = "shutdown"
  PROVE  InOrder'
<1> PICK mark \in [0..Len(posted) -> 0..asked] : Ordered(mark)
  BY DEF InOrder
<1>1. Len(posted) \in Nat \ {0} /\ Head(posted) = posted[1]
  BY LenProperties, EmptySeq, HeadTailProperties
<1> PICK n \in Nat : n + 1 = Len(posted)
  <2>1. Len(posted) - 1 \in Nat /\ Len(posted) - 1 + 1 = Len(posted)
    BY <1>1
  <2>2. QED
    BY <2>1
<1> PICK p : p = posted'
  OBVIOUS
<1>2. Len(p) = n /\ \A k \in 1..n : p[k] = posted[k + 1]
  BY <1>1, HeadTailProperties
<1> DEFINE new == [k \in 0..n |-> mark[k + 1]]
<1>3. new \in [0..n -> 0..asked] /\ \A k \in 0..n : new[k] = mark[k + 1]
  OBVIOUS
<1> HIDE DEF new
<1>4. /\ mark[0] \in Nat /\ mark[1] \in Nat /\ mark[0] <= mark[1]
      /\ posted[1].op = "write" =>
           posted[1].data = BytesOf(mark[0], mark[1])
      /\ posted[1].op = "shutdown" =>
           mark[1] = mark[0] /\ closes > 0 /\ promised <= mark[1]
  <2>1. 1 \in 1..Len(posted) /\ 1 - 1 = 0 /\ 0 \in 0..Len(posted) /\ 1 \in 0..Len(posted)
    BY <1>1
  <2>2. mark[0] \in Nat /\ mark[1] \in Nat
    <3>1. mark[0] \in 0..asked /\ mark[1] \in 0..asked
      BY <2>1, Zenon
    <3>2. QED
      BY <3>1
  <2> PICK j : j = 1 - 1
    OBVIOUS
  <2>3. /\ mark[j] <= mark[1]
        /\ posted[1].op = "write" => posted[1].data = BytesOf(mark[j], mark[1])
        /\ posted[1].op = "shutdown" => mark[1] = mark[j] /\ closes > 0 /\ promised <= mark[1]
    BY <2>1 DEF Ordered
  <2>4. QED
    BY <2>1, <2>2, <2>3
<1>5. Accepted' = First(new[0])
  <2>1. new[0] = mark[1]
    BY <1>3
  <2>2. CASE Head(posted).op = "write"
    <3>1. Accepted' = First(mark[0]) \o BytesOf(mark[0], mark[1])
      BY <1>1, <1>4, <2>2 DEF Ordered
    <3>2. QED
      BY <1>4, <2>1, <3>1, FirstConcat
  <2>3. CASE Head(posted).op = "shutdown"
    BY <1>1, <1>4, <2>1, <2>3 DEF Ordered
  <2>4. QED
    BY <2>2, <2>3
<1>6. ASSUME NEW k \in 1..n
      PROVE  /\ new[k - 1] <= new[k]
             /\ p[k].op = "write" =>
                  p[k].data = BytesOf(new[k - 1], new[k])
             /\ p[k].op = "shutdown" =>
                  new[k] = new[k - 1] /\ closes > 0 /\ promised <= new[k]
  <2>1. /\ new[k] = mark[k + 1] /\ new[k - 1] = mark[(k + 1) - 1] /\ p[k] = posted[k + 1]
        /\ k + 1 \in 1..Len(posted)
    BY <1>2, <1>3
  <2>2. QED
    BY <2>1 DEF Ordered
<1>7. Closing' => closes > 0 /\ promised <= new[0]
  <2>1. new[0] = mark[1]
    BY <1>3
  <2>2. Closing => promised <= mark[0] /\ closes > 0
    BY DEF Ordered
  <2>3. QED
    BY <1>1, <1>4, <2>1, <2>2
<1>8. new[n] = asked
  BY <1>3 DEF Ordered
<1>9. Ordered(new)'
  BY <1>2, <1>5, <1>6, <1>7, <1>8 DEF Ordered
<1>10. QED
  BY <1>2, <1>3, <1>9 DEF InOrder

\* What a step of the stream does to a socket that is closed, and when it closes one.
LEMMA StreamEnds ==
  ASSUME Stream!Next \/ UNCHANGED Stream!vars
  PROVE  /\ end = "flushed" => end' = end /\ wire' = wire
         /\ end' = "flushed" /\ end # "flushed" =>
              wire' = wire /\ wire = Accepted /\ Accepted' = Accepted
BY DEF Accepted, Stream!Next, Stream!Accept, Stream!Transmit, Stream!Finish, Stream!Abort,
       Stream!vars

LEMMA FinishedKeeps ==
  ASSUME IInv, IInv', OrderInv, Stream!Next \/ UNCHANGED Stream!vars, InOrder', Kept,
         asked <= asked'
  PROVE  Finished'
<1>1. /\ promised \in Nat /\ asked \in Nat /\ promised' \in Nat /\ asked' \in Nat
      /\ Len(posted') \in Nat
  BY LenProperties DEF IInv, TypeOK
<1>2. CASE end = "flushed"
  <2>1. PICK n \in promised..asked : closes > 0 /\ wire = First(n)
    BY <1>2 DEF OrderInv, Finished
  <2>2. wire' = wire /\ closes' > 0 /\ promised' = promised
    BY <1>2, <2>1, StreamEnds DEF Kept
  <2>3. n \in promised'..asked' /\ wire' = First(n)
    BY <1>1, <2>1, <2>2
  <2>4. QED
    BY <2>2, <2>3 DEF Finished
<1>3. CASE end' = "flushed" /\ end # "flushed"
  <2>1. wire' = Accepted'
    <3>1. wire' = wire /\ wire = Accepted /\ Accepted' = Accepted
      BY <1>3, StreamEnds
    <3>2. QED
      BY <3>1
  <2>2. PICK mark \in [0..Len(posted') -> 0..asked'] : Ordered(mark)'
    BY DEF InOrder
  <2>3. closes' > 0 /\ promised' <= mark[0] /\ Accepted' = First(mark[0])
    BY <1>3, <2>2 DEF Ordered, Closing
  <2>4. mark[0] \in 0..asked'
    BY <1>1, <2>2
  <2>5. mark[0] \in promised'..asked' /\ wire' = First(mark[0])
    BY <1>1, <2>1, <2>3, <2>4
  <2>6. QED
    BY <2>3, <2>5 DEF Finished
<1>4. CASE end' # "flushed"
  BY <1>4 DEF Finished
<1>5. QED
  BY <1>2, <1>3, <1>4

\* The steps that post nothing and run nothing, close aside.
LEMMA QuietOrder ==
  ASSUME IInv, IInv', OrderInv, Accepted' = Accepted,
         Stream!Next \/ UNCHANGED Stream!vars,
         UNCHANGED <<posted, asked, promised, closes>>, Closing' => Closing
  PROVE  OrderInv'
<1>1. Kept
  BY DEF Kept
<1>2. InOrder'
  BY <1>1, SameMarks DEF OrderInv
<1>3. asked <= asked' /\ promised' <= asked'
  BY DEF OrderInv, IInv, TypeOK
<1>4. QED
  BY <1>1, <1>2, <1>3, FinishedKeeps DEF OrderInv

LEMMA AsyncSendOrder ==
  ASSUME IInv, IInv', OrderInv, NEW n \in 1..MaxBytes, AsyncSend(n)
  PROVE  OrderInv'
<1>1. /\ posted \in Seq(Operations) /\ asked \in Nat /\ promised \in Nat
      /\ asked' = asked + n /\ asked' \in Nat /\ n \in Nat
      /\ asked <= asked' /\ asked' - asked = n /\ asked' <= MaxBytes
  BY SendAssumption DEF AsyncSend, IInv, TypeOK
<1> PICK op : op = [op |-> "write", data |-> [i \in 1..n |-> asked + i]]
  OBVIOUS
<1>2. op.op = "write" /\ op.data = BytesOf(asked, asked') /\ posted' = Append(posted, op)
  BY <1>1 DEF AsyncSend, BytesOf
<1>3. op \in Operations
  <2>1. \A i \in 1..n : asked + i \in Byte
    BY <1>1, SendAssumption DEF Byte
  <2>2. [i \in 1..n |-> asked + i] \in Seq(Byte)
    BY <1>1, <2>1, IsASeq
  <2>3. QED
    BY <2>2 DEF Operations
<1>4. Accepted' = Accepted /\ UNCHANGED Stream!vars
  BY QuietRefines DEF AsyncSend, Taken
<1>5. Kept /\ (Closing' => Closing)
  BY DEF AsyncSend, Kept, Closing
<1>6. InOrder'
  BY <1>1, <1>2, <1>3, <1>4, <1>5, EndMarks DEF OrderInv
<1>7. promised' <= asked'
  BY <1>1 DEF AsyncSend, OrderInv
<1>8. QED
  BY <1>1, <1>4, <1>5, <1>6, <1>7, FinishedKeeps DEF OrderInv

LEMMA CloseOrder ==
  ASSUME IInv, IInv', OrderInv, NEW linger \in BOOLEAN, Close(linger)
  PROVE  OrderInv'
<1>1. /\ posted \in Seq(Operations) /\ asked \in Nat /\ promised \in Nat /\ closes \in Nat
      /\ asked' = asked /\ asked' - asked = 0 /\ asked <= asked'
  BY SendAssumption DEF Close, IInv, TypeOK
<1>2. /\ closes' > 0 /\ Kept /\ promised' <= asked
  BY <1>1 DEF Close, Kept, OrderInv
<1>3. CASE asyned
  <2> PICK op : op = [op |-> "shutdown", linger |-> linger]
    OBVIOUS
  <2>1. /\ posted' = Append(posted, op) /\ op \in Operations /\ op.op = "shutdown"
        /\ UNCHANGED <<closed, end>>
    BY <1>3 DEF Close, Operations
  <2>2. Accepted' = Accepted /\ UNCHANGED Stream!vars
    BY <1>3, QuietRefines DEF Close, Taken
  <2>3. Closing' => Closing
    BY <2>1 DEF Closing
  <2>4. InOrder'
    BY <1>1, <1>2, <2>1, <2>2, <2>3, EndMarks DEF OrderInv
  <2>5. QED
    BY <1>1, <1>2, <2>2, <2>4, FinishedKeeps DEF OrderInv
<1>4. CASE ~asyned
  <2>1. Shutdown(FALSE) /\ UNCHANGED <<posted, buf, widx, sending, flight, wire>>
    BY <1>4 DEF Close
  <2>2. Accepted' = Accepted /\ (Stream!Next \/ UNCHANGED Stream!vars)
    BY <2>1, ShutdownRefines
  <2>3. Closing' => Closing
    BY <2>1 DEF Closing, Shutdown, Ended
  <2>4. InOrder'
    BY <1>1, <1>2, <2>1, <2>2, <2>3, SameMarks DEF OrderInv
  <2>5. QED
    BY <1>1, <1>2, <2>2, <2>4, FinishedKeeps DEF OrderInv
<1>5. QED
  BY <1>3, <1>4

LEMMA RunWriteOrder ==
  ASSUME IInv, IInv', OrderInv, RunWrite
  PROVE  OrderInv'
<1>1. /\ posted \in Seq(Operations) /\ asked \in Nat /\ promised \in Nat
      /\ posted # <<>> /\ Head(posted).op = "write" /\ posted' = Tail(posted)
      /\ UNCHANGED <<closed, asked, closes, promised>>
  BY SendAssumption DEF RunWrite, IInv, TypeOK
<1>2. /\ Stream!Next /\ end' \in {end, "aborted"}
      /\ Accepted' = Accepted \o Head(posted).data
  BY RunWriteRefines
<1>3. Closing' => Closing
  BY <1>1, <1>2 DEF Closing
<1>4. InOrder'
  BY <1>1, <1>2, <1>3, TailMarks DEF OrderInv
<1>5. Kept /\ asked <= asked' /\ promised' <= asked'
  BY <1>1 DEF Kept, OrderInv
<1>6. QED
  BY <1>2, <1>4, <1>5, FinishedKeeps DEF OrderInv

LEMMA RunShutdownOrder ==
  ASSUME IInv, IInv', OrderInv, RunShutdown
  PROVE  OrderInv'
<1>1. /\ posted \in Seq(Operations) /\ asked \in Nat /\ promised \in Nat
      /\ posted # <<>> /\ Head(posted).op = "shutdown" /\ posted' = Tail(posted)
      /\ UNCHANGED <<buf, widx, sending, flight, wire, asked, closes, promised>>
  BY SendAssumption DEF RunShutdown, IInv, TypeOK
<1>2. PICK linger \in BOOLEAN : linger = Head(posted).linger
  BY <1>1, PostedHead DEF IInv, Operations
<1>3. Accepted' = Accepted /\ (Stream!Next \/ UNCHANGED Stream!vars)
  BY <1>1, <1>2, ShutdownRefines DEF RunShutdown
<1>4. InOrder'
  BY <1>1, <1>3, TailMarks DEF OrderInv
<1>5. Kept /\ asked <= asked' /\ promised' <= asked'
  BY <1>1 DEF Kept, OrderInv
<1>6. QED
  BY <1>3, <1>4, <1>5, FinishedKeeps DEF OrderInv

LEMMA CommitOrder ==
  ASSUME IInv, IInv', OrderInv, Commit
  PROVE  OrderInv'
<1>1. UNCHANGED <<posted, asked, promised, closes>>
  BY DEF Commit
<1>2. Closing' => Closing
  <2>1. closed' = closed /\ (end' = end \/ closed)
    BY DEF Commit, Flush
  <2>2. QED
    BY <2>1 DEF Closing
<1>3. QED
  BY <1>1, <1>2, CommitRefines, QuietOrder

LEMMA NextOrder == IInv /\ IInv' /\ OrderInv /\ [Next]_vars => OrderInv'
<1> SUFFICES ASSUME IInv, IInv', OrderInv, [Next]_vars PROVE OrderInv'
  OBVIOUS
<1>1. CASE \E n \in 1..MaxBytes : AsyncSend(n)
  BY <1>1, AsyncSendOrder
<1>2. CASE AsyncWait \/ CommitError \/ UNCHANGED vars
  <2>1. UNCHANGED <<posted, buf, widx, closed, end, wire, asked, promised, closes>>
    BY <1>2 DEF AsyncWait, CommitError, vars
  <2>2. Taken' = Taken
    BY <1>2 DEF AsyncWait, CommitError, vars, Taken, NoFlight
  <2>3. Closing' => Closing
    BY <2>1 DEF Closing
  <2>4. QED
    BY <2>1, <2>2, <2>3, QuietRefines, QuietOrder
<1>3. CASE \E linger \in BOOLEAN : Close(linger)
  BY <1>3, CloseOrder
<1>4. CASE RunWrite
  BY <1>4, RunWriteOrder
<1>5. CASE RunShutdown
  BY <1>5, RunShutdownOrder
<1>6. CASE Commit
  BY <1>6, CommitOrder
<1>7. CASE \E n \in 1..Chunk : Transmit(n)
  <2>1. Accepted' = Accepted /\ Stream!Next
    BY <1>7, TransmitRefines
  <2>2. UNCHANGED <<posted, asked, promised, closes>> /\ (Closing' => Closing)
    BY <1>7 DEF Transmit, Closing
  <2>3. QED
    BY <2>1, <2>2, QuietOrder
<1>8. CASE Fail
  <2>1. flight'.at = "failed" /\ flight.at = "kernel"
    BY <1>8 DEF Fail, IInv, TypeOK, Flights
  <2>2. Accepted' = Accepted /\ UNCHANGED Stream!vars
    BY <1>8, <2>1, QuietRefines DEF Fail, Taken
  <2>3. UNCHANGED <<posted, asked, promised, closes>> /\ (Closing' => Closing)
    BY <1>8 DEF Fail, Closing
  <2>4. QED
    BY <2>2, <2>3, QuietOrder
<1>9. CASE Expire
  <2>1. UNCHANGED <<posted, asked, promised, closes>> /\ (Closing' => Closing)
    BY <1>9 DEF Expire, Shutdown, Ended, Closing
  <2>2. QED
    BY <1>9, <2>1, ShutdownRefines, QuietOrder DEF Expire
<1>10. QED
  BY <1>1, <1>2, <1>3, <1>4, <1>5, <1>6, <1>7, <1>8, <1>9 DEF Next, Reactor, Kernel

LEMMA InitOrder == Init => OrderInv
<1> SUFFICES ASSUME Init PROVE OrderInv
  OBVIOUS
<1>1. Accepted = <<>>
  <2>1. IInv /\ ~sending /\ wire = <<>>
    BY InitIInv DEF Init
  <2>2. QED
    BY <2>1, IdlePending, EmptySeq, ConcatEmptySeq DEF Accepted
<1>2. First(0) = <<>>
  BY DEF First
<1>3. /\ posted = <<>> /\ Len(posted) = 0 /\ asked = 0 /\ promised = 0
      /\ ~closed /\ end = "none"
  BY EmptySeq DEF Init
<1> DEFINE mark == [k \in 0..0 |-> 0]
<1>4. mark \in [0..0 -> 0..0] /\ mark[0] = 0
  OBVIOUS
<1> HIDE DEF mark
<1>5. Ordered(mark)
  BY <1>1, <1>2, <1>3, <1>4 DEF Ordered, Closing
<1>6. InOrder
  BY <1>3, <1>4, <1>5 DEF InOrder
<1>7. QED
  BY <1>3, <1>6 DEF OrderInv, Finished

\* A socket that close(linger) has closed has sent all that the script had sent when it
\* first called close, in the order of the sends, none lost or sent twice
\* (src/include/socket/socket.hpp, close and flush).
THEOREM CloseFlushesAlways == Spec => []CloseFlushes
<1>1. Init => OrderInv
  BY InitOrder
<1>2. IInv /\ IInv' /\ OrderInv /\ [Next]_vars => OrderInv'
  BY NextOrder
<1>3. OrderInv => CloseFlushes
  BY DEF OrderInv, Finished, CloseFlushes, First
<1>4. QED
  BY <1>1, <1>2, <1>3, Invariance, PTL DEF Spec

\* At every moment what the kernel has taken is the beginning of what the script has
\* sent, in its order and without a gap, and while a byte is missing, or the socket is to
\* close, what brings it on is under way: an operation is posted, or the kernel has a send
\* that it takes or has taken - unless the socket was closed or the connection failed.
\* Drains adds that the reactor and the kernel go on.
NothingForgotten ==
  /\ Len(wire) <= asked /\ wire = First(Len(wire))
  /\ (Len(wire) < asked \/ closed) /\ end = "none" /\ ~broken =>
       posted # <<>> \/ flight.at \in {"kernel", "done"}

\* NothingForgotten holds for any sends, of any size and in any order of completions
\* (tcp::socket in socket.hpp, commit): no completion finds work and leaves it.
THEOREM NothingForgottenAlways == Spec => []NothingForgotten
<1>1. ASSUME IInv, OrderInv, NothingStuck PROVE NothingForgotten
  <2>1. /\ wire \in Seq(Byte) /\ Pending \in Seq(Byte) /\ asked \in Nat
        /\ Len(wire) \in Nat /\ Len(Pending) \in Nat /\ Len(posted) \in Nat
        /\ flight.at \in {"none", "kernel", "done", "failed"}
    <3>1. wire \in Seq(Byte) /\ Pending \in Seq(Byte) /\ posted \in Seq(Operations)
      BY <1>1, PendingType DEF IInv, TypeOK
    <3> QED
      BY <1>1, <3>1, LenProperties, SendAssumption DEF IInv, TypeOK, Flights
  <2>2. PICK mark \in [0..Len(posted) -> 0..asked] : Ordered(mark)
    BY <1>1 DEF OrderInv, InOrder
  <2>3. PICK m \in 0..asked : m = mark[0] /\ wire \o Pending = First(m)
    <3>1. 0 \in 0..Len(posted)
      BY <2>1
    <3>2. mark[0] \in 0..asked
      BY <2>2, <3>1
    <3> QED
      BY <2>2, <3>2 DEF Ordered, Accepted
  <2>4. Len(First(m)) = m /\ \A i \in 1..m : First(m)[i] = i
    BY <2>1, <2>3, IsASeq, LenProperties DEF First
  <2>5. /\ Len(wire) + Len(Pending) = m
        /\ \A i \in 1..Len(wire) : wire[i] = First(m)[i]
    BY <2>1, <2>3, <2>4, ConcatProperties
  <2>6. Len(wire) <= asked /\ wire = First(Len(wire))
    <3>1. First(Len(wire)) \in Seq(Nat) /\ Len(First(Len(wire))) = Len(wire)
          /\ \A i \in 1..Len(wire) : First(Len(wire))[i] = i
      BY <2>1, IsASeq, LenProperties DEF First
    <3>2. \A i \in 1..Len(wire) : wire[i] = First(Len(wire))[i]
      BY <2>1, <2>3, <2>4, <2>5, <3>1
    <3>3. wire = First(Len(wire))
      <4>1. wire \in Seq(Nat)
        BY <2>1, SendAssumption DEF Byte
      <4> HIDE DEF First
      <4>2. PICK w \in Seq(Nat) : w = First(Len(wire))
        BY <3>1
      <4>3. Len(wire) = Len(w) /\ \A i \in 1..Len(wire) : wire[i] = w[i]
        BY <3>1, <3>2, <4>2
      <4> QED
        BY <4>1, <4>2, <4>3, SeqEqual
    <3> QED
      BY <2>1, <2>3, <2>5, <3>3
  <2>7. ASSUME end = "none", ~broken, Len(wire) < asked \/ closed, posted = <<>>
        PROVE  flight.at \in {"kernel", "done"}
    <3>1. CASE Len(wire) < asked
      <4>1. Len(posted) = 0
        BY <2>7, EmptySeq
      <4>2. m = asked
        BY <2>2, <2>3, <4>1 DEF Ordered
      <4>3. Len(Pending) # 0
        BY <2>1, <2>5, <3>1, <4>2
      <4>4. Pending # <<>>
        BY <4>3, EmptySeq
      <4> QED
        BY <1>1, <2>1, <2>7, <4>4 DEF NothingStuck, IInv, SendState
    <3>2. CASE closed
      BY <1>1, <2>1, <2>7, <3>2 DEF IInv, SendState
    <3> QED
      BY <2>7, <3>1, <3>2
  <2> QED
    BY <2>6, <2>7 DEF NothingForgotten
<1>2. Spec => []OrderInv
  <2>1. IInv /\ IInv' /\ OrderInv /\ [Next]_vars => OrderInv'
    BY NextOrder
  <2> QED
    BY InitOrder, <2>1, Invariance, PTL DEF Spec
<1>3. IInv /\ OrderInv /\ NothingStuck => NothingForgotten
  BY <1>1
<1> QED
  BY <1>2, <1>3, Invariance, NothingStuckAlways, PTL
=============================================================================
