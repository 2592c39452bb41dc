--------------------------- MODULE MCSocketEvents ---------------------------
(***************************************************************************)
(* Model checking of the socket events.                                    *)
(***************************************************************************)
EXTENDS SocketEvents

\* A state constraint: the states after a socket was handed data late are not left.  The
\* properties say nothing of them, and the first of them is still checked.
OnTime == late = {}
=============================================================================
