---------------------------- MODULE SocketEvents ----------------------------
(***************************************************************************)
(* The handlers of the sockets of one service (src/src/luaos_socket.cpp)   *)
(* and the operations whose completion runs them                           *)
(* (src/include/socket/socket.hpp).                                        *)
(*                                                                         *)
(* A Lua function given to connect, listen or select is kept in a slot of  *)
(* the registry, and the completion handlers know it by the index of that  *)
(* slot alone.  The one thread of the service runs the completions and the *)
(* posted calls of shutdown in the order in which they were queued.  A     *)
(* completion that is queued stays what it is when the socket is shut      *)
(* down; a slot that is released is taken by the next function.            *)
(*                                                                         *)
(* A script is assumed to open a socket once, to select it for reading     *)
(* once, and only while it is open.                                        *)
(*                                                                         *)
(* Left out: the data, udp, tls, what leaves the send buffer (TcpSend).    *)
(***************************************************************************)
EXTENDS Naturals, Sequences, FiniteSets, SequencesExt

CONSTANTS
  Streams,     \* the sockets that connect or are accepted
  Acceptors,   \* the sockets that listen
  Refs,        \* the slots of the registry
  MaxCloses,   \* bound: the calls of close by the script
  MaxSends,    \* bound: the sends
  None         \* no slot, no handler

Socks == Streams \union Acceptors

\* The Lua functions.
Handler == [kind : {"connect", "accept", "read", "write"}, sock : Socks]

ASSUME EventsAssumption ==
  /\ Streams \cap Acceptors = {}
  /\ None \notin Refs /\ None \notin Socks /\ None \notin Handler
  /\ IsFiniteSet(Refs) /\ Refs \cap Handler = {}
  /\ MaxCloses \in Nat /\ MaxSends \in Nat

VARIABLES
  registry,  \* what a slot holds: a handler, or the next slot that is free
  free,      \* the first slot that is free
  state,     \* "closed": closed by the script, and sending what is left
  index,     \* the slot the pending operation of a socket knows
  context,   \* the slot context() knows, for on_error to release
  notify,    \* the slot _notify knows, for on_send to look up
  asyned,    \* the sockets that are selected: _asyned
  op,        \* the operation of a socket: connect, accept or read
  sending,   \* the send of a socket, "stuck" when _sending stays set
  lingers,   \* the sockets whose _closed is set
  queue,     \* what the reactor has to run
  told,      \* auxiliary: the sockets whose handler was told of an error
  late,      \* auxiliary: the sockets that were handed data after they were closed
  astray,    \* auxiliary: the sockets whose send, completed, ran a function not selected for it
  left,      \* auxiliary: the slots that nobody knows any more
  closes, sends   \* auxiliary: counts

refs == <<index, context, notify>>
net == <<state, op, sending, lingers>>
notes == <<told, late, astray, left>>
bounds == <<closes, sends>>
slots == <<registry, free>>
vars == <<slots, refs, net, asyned, queue, notes, bounds>>

Event == [kind : {"connect", "accept", "read", "send", "shutdown"}, sock : Socks,
          ec : BOOLEAN]

Does(kind, k) == [kind |-> kind, sock |-> k]
Completion(kind, k, ec) == [kind |-> kind, sock |-> k, ec |-> ec]

Init ==
  /\ LET s == Append(SetToSeq(Refs), None)
     IN  /\ registry = [r \in Refs |-> s[(CHOOSE i \in 1..Cardinality(Refs) : s[i] = r) + 1]]
         /\ free = s[1]
  /\ state = [k \in Socks |-> "new"]
  /\ index = [k \in Socks |-> None]
  /\ context = [k \in Socks |-> None]
  /\ notify = [k \in Socks |-> None]
  /\ op = [k \in Socks |-> "none"]
  /\ sending = [k \in Socks |-> "idle"]
  /\ asyned = {} /\ lingers = {}
  /\ queue = <<>>
  /\ told = {} /\ late = {} /\ astray = {} /\ left = {}
  /\ closes = 0 /\ sends = 0

IsOpen(k) == state[k] = "open"

Holds(r) == registry[r] \in Handler

-----------------------------------------------------------------------------
(* What the script calls. *)

\* luaL_ref: the slot for h is the first of the free ones.
Ref(h) ==
  /\ free \in Refs /\ free' = registry[free]
  /\ registry' = [registry EXCEPT ![free] = h]

\* luaL_unref, which does not ask what the slot holds.
Released(slot, r) ==
  IF r = None THEN slot
  ELSE [registry |-> [slot.registry EXCEPT ![r] = slot.free], free |-> r]

\* It is called for the slot r1 and then for r2.
Unref(r1, r2) ==
  LET s == Released(Released([registry |-> registry, free |-> free], r1), r2)
  IN  registry' = s.registry /\ free' = s.free

\* lua_os_socket_connect with a handler, lua_os_socket_listen.
Open(k) ==
  LET kind == IF k \in Acceptors THEN "accept" ELSE "connect"
  IN  /\ state[k] = "new"
      /\ Ref(Does(kind, k)) /\ index' = [index EXCEPT ![k] = free]
      /\ state' = [state EXCEPT ![k] = IF k \in Acceptors THEN "open" ELSE "connecting"]
      /\ op' = [op EXCEPT ![k] = "pending"]
      /\ UNCHANGED <<context, notify, sending, lingers, asyned, queue, notes, bounds>>

\* lua_os_socket_listen that fails: the slot is not given back.  The name is not known,
\* the address is not free, or there is no descriptor.
ListenFails(k) ==
  /\ k \in Acceptors /\ state[k] = "new"
  /\ Ref(Does("accept", k)) /\ left' = left \union {free}
  /\ \E s \in {"new", "open", "shut"} : state' = [state EXCEPT ![k] = s]
  /\ UNCHANGED <<refs, op, sending, lingers, asyned, queue, told, late, astray, bounds>>

\* Mutant: a socket that listens is selected.
MutantSelectRead(k) ==
  /\ k \notin asyned /\ IsOpen(k)
  /\ asyned' = asyned \union {k}
  /\ Ref(Does("read", k)) /\ index' = [index EXCEPT ![k] = free]
  /\ op' = [op EXCEPT ![k] = "pending"]
  /\ UNCHANGED <<state, context, notify, sending, lingers, queue, notes, bounds>>

\* lua_os_socket_select, type 1.
SelectRead(k) ==
  /\ k \in Streams \ asyned /\ IsOpen(k)
  /\ asyned' = asyned \union {k}
  /\ Ref(Does("read", k)) /\ index' = [index EXCEPT ![k] = free]
  /\ op' = [op EXCEPT ![k] = "pending"]
  /\ UNCHANGED <<state, context, notify, sending, lingers, queue, notes, bounds>>

\* lua_os_socket_select, type 2: of a socket in whatever state, and any number of times.
SelectWrite(k) ==
  /\ Ref(Does("write", k))
  /\ context' = [context EXCEPT ![k] = free]
  /\ notify' = [notify EXCEPT ![k] = free]
  /\ left' = left \union ({context[k]} \ {None})
  /\ UNCHANGED <<index, net, asyned, queue, told, late, astray, bounds>>

\* lua_os_socket_send, asynchronous: TcpSend has the rest of it.
Send(k) ==
  /\ sends < MaxSends /\ sends' = sends + 1
  /\ k \in Streams /\ IsOpen(k) /\ sending[k] = "idle"
  /\ sending' = [sending EXCEPT ![k] = "pending"]
  /\ UNCHANGED <<slots, refs, state, op, lingers, asyned, queue, notes, closes>>

\* The completions of what a socket has under way when it is closed.
Aborted(k) ==
  LET kind == IF k \in Acceptors THEN "accept"
              ELSE IF state[k] = "connecting" THEN "connect" ELSE "read"
  IN  (IF op[k] = "pending" THEN <<Completion(kind, k, TRUE)>> ELSE <<>>)
        \o (IF sending[k] = "pending" THEN <<Completion("send", k, TRUE)>> ELSE <<>>)

\* Mutant: nothing is aborted.
MutantShutdownSilent(k, linger, q) ==
  /\ state' = [state EXCEPT ![k] = "shut"]
  /\ queue' = q
  /\ UNCHANGED <<op, sending, lingers>>

\* shutdown, with what is left of the queue.
Shutdown(k, linger, q) ==
  /\ lingers' = IF linger /\ sending[k] # "idle" THEN lingers \union {k} ELSE lingers
  /\ IF linger /\ sending[k] # "idle" /\ state[k] # "shut"
     THEN /\ state' = [state EXCEPT ![k] = "closed"]
          /\ queue' = q
          /\ UNCHANGED <<op, sending>>
     ELSE /\ state' = [state EXCEPT ![k] = "shut"]
          /\ queue' = q \o Aborted(k)
          /\ op' = [op EXCEPT ![k] = IF @ = "pending" THEN "queued" ELSE @]
          /\ sending' = [sending EXCEPT ![k] = IF @ = "pending" THEN "queued" ELSE @]

\* lua_os_socket_close, and a handler that fails.
Close(k) ==
  /\ closes < MaxCloses /\ closes' = closes + 1
  /\ state[k] \notin {"new", "shut"}
  /\ IF k \in asyned
     THEN /\ queue' = Append(queue, Completion("shutdown", k, FALSE))
          /\ UNCHANGED net
     ELSE Shutdown(k, FALSE, queue)
  /\ UNCHANGED <<slots, refs, asyned, notes, sends>>

-----------------------------------------------------------------------------
(* The operating system and the timer. *)

Complete(k, kind, ec) ==
  /\ op[k] = "pending"
  /\ op' = [op EXCEPT ![k] = "queued"]
  /\ queue' = Append(queue, Completion(kind, k, ec))
  /\ UNCHANGED <<slots, refs, state, sending, lingers, asyned, notes, bounds>>

Connected(k, ec) == state[k] = "connecting" /\ Complete(k, "connect", ec)

Accepted(k, ec) == k \in Acceptors /\ Complete(k, "accept", ec)

\* Data, or the end of it, arrives.  shutdown_receive ends it, after what has
\* arrived before.
Arrive(k) == k \in asyned /\ Complete(k, "read", FALSE)
Eof(k) == k \in asyned /\ Complete(k, "read", TRUE)

SendEnds(k, ec) ==
  /\ sending[k] = "pending"
  /\ sending' = [sending EXCEPT ![k] = "queued"]
  /\ queue' = Append(queue, Completion("send", k, ec))
  /\ UNCHANGED <<slots, refs, state, op, lingers, asyned, notes, bounds>>

\* on_timer
Expire(k) ==
  /\ k \in Streams /\ state[k] \in {"open", "closed"}
  /\ Shutdown(k, FALSE, queue)
  /\ UNCHANGED <<slots, refs, asyned, notes, bounds>>

-----------------------------------------------------------------------------
(* What the reactor runs. *)

Rest == Tail(queue)

\* on_connect.  A connect that fails leaves the descriptor as it is: closed when the name
\* was not known, and open otherwise.
RunConnect(k, ec) ==
  /\ Unref(index[k], None)
  /\ index' = [index EXCEPT ![k] = None]
  /\ op' = [op EXCEPT ![k] = "none"]
  /\ \E s \in IF ec THEN {"open", "shut"} ELSE {"open"} :
       state' = [state EXCEPT ![k] = IF @ = "connecting" THEN s ELSE @]
  /\ queue' = Rest
  /\ UNCHANGED <<context, notify, sending, lingers, asyned, notes, bounds>>

\* The sockets that the script has not got yet.
Spare == {p \in Streams : state[p] = "new" /\ notify[p] = None}

\* on_accept: a new socket for the handler, and the next accept.  An acceptor that
\* is closed releases its handler when its accept fails, and leaves it behind when it
\* succeeds.  The sockets that are accepted when Streams has none left are not followed.
RunAccept(k, ec) ==
  /\ Unref(IF ec /\ ~IsOpen(k) THEN index[k] ELSE None, None)
  /\ op' = [op EXCEPT ![k] = IF IsOpen(k) THEN "pending" ELSE "none"]
  /\ \/ /\ ~ec
        /\ \E p \in Spare : state' = [state EXCEPT ![p] = "open"]
     \/ /\ ec \/ Spare = {}
        /\ UNCHANGED state
  /\ index' = IF IsOpen(k) THEN index ELSE [index EXCEPT ![k] = None]
  /\ left' = IF ec \/ IsOpen(k) THEN left ELSE left \union {index[k]}
  /\ queue' = Rest
  /\ UNCHANGED <<context, notify, sending, lingers, asyned, told, late, astray, bounds>>

\* on_send runs whatever function the slot of _notify holds now.
OnSend(k) ==
  astray' = IF notify[k] # None /\ Holds(notify[k]) /\ registry[notify[k]] # Does("write", k)
            THEN astray \union {k} ELSE astray

\* commit and flush: on_send is called when all is sent, unless _closed is set.
RunSend(k, ec) ==
  /\ IF ec
     THEN /\ sending' = [sending EXCEPT ![k] = "stuck"]
          /\ queue' = Rest
          /\ UNCHANGED <<state, op>>
     ELSE IF state[k] = "closed"
     THEN /\ sending' = [sending EXCEPT ![k] = "idle"]
          /\ state' = [state EXCEPT ![k] = "shut"]
          /\ queue' = Rest \o (IF op[k] = "pending"
                               THEN <<Completion("read", k, TRUE)>> ELSE <<>>)
          /\ op' = [op EXCEPT ![k] = IF @ = "pending" THEN "queued" ELSE @]
     ELSE /\ sending' = [sending EXCEPT ![k] = "idle"]
          /\ queue' = Rest
          /\ UNCHANGED <<state, op>>
  /\ IF ec \/ k \in lingers THEN UNCHANGED astray ELSE OnSend(k)
  /\ UNCHANGED <<slots, refs, lingers, asyned, told, late, left, bounds>>

\* shutdown, posted by close.
RunShutdown(k) ==
  /\ Shutdown(k, TRUE, Rest)
  /\ UNCHANGED <<slots, refs, asyned, notes, bounds>>

\* Mutant: the slot of the context is forgotten.
MutantOnError(k, q) ==
  /\ context' = [context EXCEPT ![k] = None]
  /\ Unref(index[k], None)
  /\ told' = told \union {k}
  /\ queue' = IF IsOpen(k) THEN Append(q, Completion("shutdown", k, FALSE)) ELSE q

\* on_error: what it releases is whatever the slots hold now.  _notify keeps the slot it
\* knows.
OnError(k, q) ==
  LET found == Holds(index[k]) /\ index[k] # context[k]
  IN  /\ context' = [context EXCEPT ![k] = None]
      /\ Unref(context[k], IF found THEN index[k] ELSE None)
      /\ told' = IF found /\ registry[index[k]] = Does("read", k) THEN told \union {k}
                 ELSE told
      /\ queue' = IF found /\ IsOpen(k)
                  THEN Append(q, Completion("shutdown", k, FALSE)) ELSE q

\* Mutant: the wait is armed again after an error.
MutantRunError(k) ==
  /\ OnError(k, Rest)
  /\ op' = [op EXCEPT ![k] = "pending"]
  /\ UNCHANGED <<index, notify, state, sending, lingers, asyned, late, astray, left, bounds>>

\* on_wait and on_receive with an error.
RunError(k) ==
  /\ OnError(k, Rest)
  /\ index' = [index EXCEPT ![k] = None]
  /\ op' = [op EXCEPT ![k] = "none"]
  /\ UNCHANGED <<notify, state, sending, lingers, asyned, late, astray, left, bounds>>

\* on_wait and on_receive with data: on_read, on_error when that finds no handler
\* or the socket closed, and in every case the next read, which fails at once
\* on a socket that is shut.
RunData(k) ==
  LET again == IF state[k] = "shut" THEN <<Completion("read", k, TRUE)>> ELSE <<>>
      found == Holds(index[k])
  IN  /\ op' = [op EXCEPT ![k] = IF state[k] = "shut" THEN "queued" ELSE "pending"]
      /\ IF found /\ IsOpen(k)
         THEN /\ queue' = Rest \o again
              /\ UNCHANGED <<slots, context, told>>
         ELSE OnError(k, Rest \o again)
      /\ late' = IF found /\ ~IsOpen(k) THEN late \union {k} ELSE late
      /\ UNCHANGED <<index, notify, state, sending, lingers, asyned, astray, left, bounds>>

Run ==
  /\ queue # <<>>
  /\ LET e == Head(queue)
     IN  \/ e.kind = "connect" /\ RunConnect(e.sock, e.ec)
         \/ e.kind = "accept" /\ RunAccept(e.sock, e.ec)
         \/ e.kind = "send" /\ RunSend(e.sock, e.ec)
         \/ e.kind = "shutdown" /\ RunShutdown(e.sock)
         \/ e.kind = "read" /\ e.ec /\ RunError(e.sock)
         \/ e.kind = "read" /\ ~e.ec /\ RunData(e.sock)

-----------------------------------------------------------------------------
Script(k) ==
  Open(k) \/ ListenFails(k) \/ SelectRead(k) \/ SelectWrite(k) \/ Send(k) \/ Close(k)

System(k) ==
  \/ Arrive(k) \/ Eof(k) \/ Expire(k)
  \/ \E ec \in BOOLEAN : Connected(k, ec) \/ Accepted(k, ec) \/ SendEnds(k, ec)

Next == Run \/ \E k \in Socks : Script(k) \/ System(k)

Spec == Init /\ [][Next]_vars

\* The reactor runs what is queued, and a read ends after shutdown_receive.
FairSpec ==
  /\ Spec
  /\ WF_vars(Run)
  /\ \A k \in Streams : WF_vars(state[k] = "closed" /\ Eof(k))

-----------------------------------------------------------------------------
\* Slots, sockets and events are what they are declared to be.
TypeOK ==
  /\ registry \in [Refs -> Handler \union Refs \union {None}]
  /\ free \in Handler \union Refs \union {None}
  /\ state \in [Socks -> {"new", "connecting", "open", "closed", "shut"}]
  /\ \A f \in {index, context, notify} : f \in [Socks -> Refs \union {None}]
  /\ op \in [Socks -> {"none", "pending", "queued"}]
  /\ sending \in [Socks -> {"idle", "pending", "queued", "stuck"}]
  /\ queue \in Seq(Event)
  /\ \A S \in {asyned, lingers, told, late, astray} : S \subseteq Streams
  /\ left \subseteq Refs
  /\ closes \in 0..MaxCloses /\ sends \in 0..MaxSends

\* As long as no socket was handed data after it was closed, the slot that a
\* pending read knows holds the handler of that socket, the one context() knows its
\* write handler, and so does the one _notify knows until the handler was told of an
\* error: only then can a send that completes run a function not selected for it.
SlotsOwned ==
  late = {} =>
    /\ \A k \in asyned : op[k] # "none" => registry[index[k]] = Does("read", k)
    /\ \A k \in Socks : context[k] # None => registry[context[k]] = Does("write", k)
    /\ \A k \in Socks \ told : notify[k] # None => registry[notify[k]] = Does("write", k)
    /\ astray \subseteq told

\* As long as no socket was handed data after it was closed, the handlers of a socket
\* are released with its last completion, and the slots that are not are exactly these:
\* the write handler of a socket that was not selected for reading, or was told of its
\* error before; one that was replaced; the handler of a listen that failed, and of an
\* acceptor that was closed before it was given the connection it had accepted.
SlotsReturned ==
  late = {} =>
    \A k \in Socks, r \in Refs :
      op[k] = "none" /\ Holds(r) /\ registry[r].sock = k =>
        r \in left \/ (r = context[k] /\ k \notin asyned \ told)

\* The handler of a socket that is closed, by whom and in whatever state, is told
\* so, as long as no socket was handed data after it was closed.
ClosedTold ==
  \A k \in Streams : (k \in asyned /\ ~IsOpen(k)) ~> (k \in told \/ late # {})

\* select sets the receive callback of the socket: an event of a socket is given
\* to the handler of that socket.  The second error of a socket that was handed
\* data after it was closed finds the handler of another one in the slot.
OwnHandler ==
  queue # <<>> /\ Head(queue).kind = "read" =>
    LET k == Head(queue).sock
    IN  Holds(index[k]) /\ index[k] # context[k] => registry[index[k]] = Does("read", k)
=============================================================================
