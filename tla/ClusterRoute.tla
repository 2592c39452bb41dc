---------------------------- MODULE ClusterRoute ----------------------------
(***************************************************************************)
(* How a message and the replies to it find their way through a cluster    *)
(* (src/share/lua/5.4/luaos/cluster/, src/src/luaos_subscriber.cpp).       *)
(*                                                                         *)
(* A publisher is one integer of three 16-bit parts.  Whoever receives a   *)
(* message sees in it the id of the service that handed it over, which is  *)
(* the proxy for a message from another process, and above it the session  *)
(* of the connection and the id of the service there.  Published again as  *)
(* receiver it leads back: the bus hands the message to the proxy, the     *)
(* proxy to the master, the master to the session and the proxy there to   *)
(* the service; each puts its own address in the place of what it uses.    *)
(*                                                                         *)
(* Ids are the same in all processes, as they may be.  Sessions take       *)
(* theirs from the pool of the master's process.  One topic; every service *)
(* of Subscribers subscribes to it and every proxy knows so (Cluster has   *)
(* how).                                                                   *)
(***************************************************************************)
EXTENDS Identifiers, FiniteSets

CONSTANTS
  Base,          \* 2^16: every id is smaller
  Procs,         \* the processes
  Proxy,         \* the id of the proxy in every process
  Subscribers,   \* the services that subscribe: a process and an id
  Senders,       \* bound: the services that publish
  SendMasks,     \* the masks of publishers, 0 among them
  MaxConns,      \* bound: the connections to the master
  MaxEach,       \* bound: the connections of a process
  MaxPublishes,  \* bound: the publishes, before any reply
  MaxSends,      \* bound: publishes and replies
  None           \* no connection, no process, no address

\* The connections of a process, in the order in which it makes them.
Conns == Procs \X (1..MaxEach)

\* Who sends, and by which connection that came to the master.
Address == [proc : Procs, id : 1..Base - 1, via : Conns \union {None}]

ASSUME RouteAssumption ==
  /\ Owners = Conns
  /\ Base \in Nat /\ MaxId \in Nat /\ MaxConns \in Nat /\ MaxEach \in Nat
  /\ SendMasks \subseteq Nat /\ 0 \in SendMasks
  /\ MaxSends \in Nat /\ MaxPublishes \in 0..MaxSends
  /\ MaxId < Base /\ Proxy \in 1..Base - 1
  /\ Subscribers \subseteq Procs \X ((1..Base - 1) \ {Proxy})
  /\ Senders \subseteq Subscribers
  /\ None \notin Procs \union Conns \union Address

VARIABLES
  peer,           \* server.peer of a proxy
  made,           \* the connections made so far
  sessions,       \* the connections in sessions of the master
  interest,       \* the sessions that are subscribed
  up, down,       \* what a connection carries to the master and back
  posted,         \* what the bus has posted to the proxies
  got,            \* what the services have received
  sends           \* auxiliary: the publishes and replies so far

linkVars == <<peer, made, sessions, interest, up, down>>
routeVars == <<linkVars, idVars, posted, got, sends>>

\* A message: the publisher as an integer and the mask; as auxiliary parts the
\* number of the send, who sent it and by which connection it came to the master,
\* and the same of the one it replies to.
RouteMessage == [publisher : Nat, mask : SendMasks, n : 1..MaxSends,
                 from : Address, to : Address \union {None}]

RouteInit ==
  /\ peer = [p \in Procs |-> None]
  /\ made = {}
  /\ sessions = {}
  /\ interest = {}
  /\ PoolInit
  /\ up = [c \in Conns |-> <<>>] /\ down = up
  /\ posted = [p \in Procs |-> <<>>]
  /\ got = [s \in Subscribers |-> <<>>]
  /\ sends = 0

-----------------------------------------------------------------------------
\* os.publish by the service self of process p: the ids that receive m, and m as
\* they receive it.  A receiver other than 0 switches the mask off.
Local(p) == {s[2] : s \in {m \in Subscribers : m[1] = p}} \union {Proxy}

Audiences(p, self, mask, receiver) ==
  LET others == Local(p) \ {self}
  IN  IF receiver # 0 THEN {others \intersect {receiver}}
      ELSE IF mask > 0 /\ others # {} THEN {{i} : i \in others}
      ELSE {others}

PublishIn(p, self, m, receiver) ==
  \E R \in Audiences(p, self, m.mask, receiver % Base) :
    LET sent == [m EXCEPT !.publisher = (receiver \div Base) * Base + self,
                          !.mask = IF receiver % Base # 0 THEN 0 ELSE m.mask]
    IN  /\ got' = [s \in Subscribers |-> IF s[1] = p /\ s[2] \in R
                                         THEN Append(got[s], sent) ELSE got[s]]
        /\ posted' = [posted EXCEPT ![p] = IF Proxy \in R THEN Append(@, sent) ELSE @]

\* A service publishes to everybody.
Send(s, mask) ==
  /\ s \in Senders /\ sends < MaxPublishes /\ sends' = sends + 1
  /\ PublishIn(s[1], s[2],
       [publisher |-> 0, mask |-> mask, n |-> sends + 1,
        from |-> [proc |-> s[1], id |-> s[2], via |-> None], to |-> None], 0)
  /\ UNCHANGED <<linkVars, idVars>>

\* A service replies to a message it has received.  Bound: to the last that was sent.
Reply(s, m) ==
  /\ m.n = sends
  /\ sends < MaxSends /\ sends' = sends + 1
  /\ PublishIn(s[1], s[2],
       [publisher |-> 0, mask |-> 0, n |-> sends + 1,
        from |-> [proc |-> s[1], id |-> s[2], via |-> None], to |-> m.from], m.publisher)
  /\ UNCHANGED <<linkVars, idVars>>

-----------------------------------------------------------------------------
\* on_local_publish: the message goes to the master, if there is a connection.
OnLocalPublish(p) ==
  /\ posted[p] # <<>>
  /\ posted' = [posted EXCEPT ![p] = Tail(@)]
  /\ up' = IF peer[p] = None THEN up
           ELSE [up EXCEPT ![peer[p]] = Append(@, Head(posted[p]))]
  /\ UNCHANGED <<peer, made, sessions, interest, down, idVars, got, sends>>

\* proxy.start.
Connect(p) ==
  LET c == <<p, Cardinality({d \in made : d[1] = p}) + 1>>
  IN  /\ peer[p] = None /\ Cardinality(made) < MaxConns /\ c \in Conns
      /\ peer' = [peer EXCEPT ![p] = c]
      /\ made' = made \union {c}
      /\ UNCHANGED <<sessions, interest, up, down, idVars, posted, got, sends>>

\* on_socket_accept of the master: the session is found by the id of its socket.  A
\* process that connects again may have announced what it subscribes to or not.
Accept(c) ==
  /\ c \notin sessions /\ held[c] = 0 /\ peer[c[1]] = c
  /\ Take(c)
  /\ sessions' = sessions \union {c}
  /\ \/ interest' = interest \union {c}
     \/ c[2] > 1 /\ UNCHANGED interest
  /\ UNCHANGED <<peer, made, up, down, posted, got, sends>>

\* proxy.stop, or an error: what is under way to the proxy is lost.  (A message that
\* is lost on its way to the master is as one that the proxy drops after the break.)
Break(p) ==
  /\ peer[p] # None
  /\ peer' = [peer EXCEPT ![p] = None]
  /\ down' = [down EXCEPT ![peer[p]] = <<>>]
  /\ UNCHANGED <<made, sessions, interest, up, idVars, posted, got, sends>>

\* on_socket_error of the master: the socket and its id are given back.
MasterError(c) ==
  /\ c \in sessions /\ up[c] = <<>> /\ peer[c[1]] # c
  /\ sessions' = sessions \ {c}
  /\ interest' = interest \ {c}
  /\ Give(c)
  /\ UNCHANGED <<peer, made, up, down, posted, got, sends>>

-----------------------------------------------------------------------------
\* send_to_peer of the master to the connections S.
SendTo(S, m) ==
  down' = [c \in Conns |-> IF c \in S /\ peer[c[1]] = c
                           THEN Append(down[c], m) ELSE down[c]]

\* Mutant: the session that publishes is not left out.
MutantTargets(c, mask) ==
  IF mask > 0 /\ Cardinality(interest) > 1 THEN {{d} : d \in interest} ELSE {interest}

\* on_publish_request: all other sessions that subscribe, or one of them.
Targets(c, mask) ==
  LET others == interest \ {c}
  IN  IF mask > 0 /\ Cardinality(others) > 1 THEN {{d} : d \in others} ELSE {others}

\* Mutant: the publisher is passed on as it came.
MutantWithSession(publisher, fd) == publisher

\* A publisher with fd in the place of its session: (publisher & 0xFFFF0000FFFF) | (fd << 16).
WithSession(publisher, fd) ==
  (publisher \div (Base * Base)) * Base * Base + fd * Base + (publisher % Base)

\* on_socket_dispatch of the master, for a publish: a publish of a service becomes
\* its id and the session it came from, a reply goes to the session it names and
\* to no other, with the session it came from instead.
MasterReceive(c) ==
  LET m == Head(up[c])
      high == m.publisher \div Base
      stamped(publisher) == [m EXCEPT !.publisher = publisher, !.from.via = c]
  IN  /\ c \in sessions /\ up[c] # <<>>
      /\ up' = [up EXCEPT ![c] = Tail(@)]
      /\ \/ /\ high = 0
            /\ \E S \in Targets(c, m.mask) : SendTo(S, stamped(m.publisher * Base + held[c]))
         \/ /\ high # 0
            /\ SendTo({d \in sessions : held[d] = high % Base},
                      stamped(WithSession(m.publisher, held[c])))
      /\ UNCHANGED <<peer, made, sessions, interest, idVars, posted, got, sends>>

\* on_remote_publish: the receiver of a reply is the highest part, the other way
\* round for the address it is shown.
Arriving(publisher) ==
  LET receiver == publisher \div (Base * Base)
  IN  IF receiver > 0
      THEN (publisher % Base) * Base * Base + ((publisher \div Base) % Base) * Base + receiver
      ELSE publisher * Base

OnRemotePublish(p) ==
  LET c == peer[p]
      m == Head(down[c])
  IN  /\ c # None /\ down[c] # <<>>
      /\ down' = [down EXCEPT ![c] = Tail(@)]
      /\ PublishIn(p, Proxy, m, Arriving(m.publisher))
      /\ UNCHANGED <<peer, made, sessions, interest, up, idVars, sends>>

RouteNext ==
  \/ \E s \in Subscribers : \/ \E mask \in SendMasks : Send(s, mask)
                            \/ \E i \in DOMAIN got[s] : Reply(s, got[s][i])
  \/ \E p \in Procs : OnLocalPublish(p) \/ Connect(p) \/ Break(p) \/ OnRemotePublish(p)
  \/ \E c \in Conns : Accept(c) \/ MasterError(c) \/ MasterReceive(c)

RouteSpec == RouteInit /\ [][RouteNext]_routeVars

-----------------------------------------------------------------------------
\* Connections, queues and the pool are what they are declared to be.
RouteTypeOK ==
  /\ peer \in [Procs -> Conns \union {None}]
  /\ made \subseteq Conns
  /\ sessions \subseteq Conns /\ interest \subseteq sessions
  /\ PoolTypeOK
  /\ up \in [Conns -> Seq(RouteMessage)] /\ down \in [Conns -> Seq(RouteMessage)]
  /\ posted \in [Procs -> Seq(RouteMessage)]
  /\ got \in [Subscribers -> Seq(RouteMessage)]
  /\ sends \in 0..MaxSends

\* A reply reaches the service that published what it replies to, through any number
\* of replies to replies, and nobody else, unless the connection by which that
\* message came has ended: then its session id may have passed to another process.
RepliesReturn ==
  \A s \in Subscribers : \A i \in DOMAIN got[s] :
    LET to == got[s][i].to
    IN  to # None => \/ to.proc = s[1] /\ to.id = s[2]
                     \/ to.via # None /\ to.via \notin sessions

\* A message that came by a connection its process still has.
Current(m) == peer[m.from.proc] = m.from.via

\* What s has received of the send of m.
Copies(s, m) == {i \in DOMAIN got[s] : got[s][i].n = m.n}

\* A publish reaches a service once, with a mask one service of the whole cluster, as
\* a reply does, and it does not come back to its process.  Only a process that
\* connects again while its publish is under way may get it back by the new
\* connection, and its services then have it twice.
DeliveredOnce ==
  \A s \in Subscribers : \A i \in DOMAIN got[s] :
    LET m == got[s][i]
    IN  /\ \A j \in Copies(s, m) \ {i} :
             m.from.proc = s[1] /\ (m.from.via = None <=> got[s][j].from.via # None)
        /\ m.mask > 0 \/ m.to # None =>
             Copies(s, m) = {i} /\ \A r \in Subscribers \ {s} : Copies(r, m) = {}
        /\ m.to = None /\ m.from.proc = s[1] =>
             IF m.from.via = None THEN m.from.id # s[2] ELSE ~Current(m)
=============================================================================
