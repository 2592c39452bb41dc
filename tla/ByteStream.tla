----------------------------- MODULE ByteStream -----------------------------
(***************************************************************************)
(* What a TCP socket of LuaOS promises to the script that sends on it      *)
(* (socket:send with async, socket:close; src/include/socket/socket.hpp):  *)
(* the bytes it has accepted leave in the order in which they were         *)
(* accepted, each once, and a connection that ends "flushed" has sent all  *)
(* of them.                                                                *)
(***************************************************************************)
EXTENDS Naturals, Sequences, SequencesExt

VARIABLES
  accepted,   \* the bytes the socket has accepted
  wire,       \* the bytes the network has taken
  end         \* "none" while the socket is open, then how it ended

vars == <<accepted, wire, end>>

Init ==
  /\ accepted = <<>>
  /\ wire = <<>>
  /\ end = "none"

\* A socket that has ended still takes bytes, which go nowhere.  One that sends
\* too slowly is closed.
Accept ==
  /\ IsPrefix(accepted, accepted')
  /\ UNCHANGED wire
  /\ end' = end \/ (end = "none" /\ end' = "aborted")

Transmit ==
  /\ end = "none"
  /\ wire' # wire
  /\ IsPrefix(wire, wire')
  /\ IsPrefix(wire', accepted)
  /\ UNCHANGED <<accepted, end>>

Finish ==
  /\ end = "none"
  /\ wire = accepted
  /\ end' = "flushed"
  /\ UNCHANGED <<accepted, wire>>

Abort ==
  /\ end = "none"
  /\ end' = "aborted"
  /\ UNCHANGED <<accepted, wire>>

Next == Accept \/ Transmit \/ Finish \/ Abort

Spec == Init /\ [][Next]_vars
=============================================================================
