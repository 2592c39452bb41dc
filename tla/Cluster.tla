------------------------------ MODULE Cluster ------------------------------
(***************************************************************************)
(* How the processes of a cluster learn of each other's subscriptions: the *)
(* master (src/share/lua/5.4/luaos/cluster/master.lua) and the proxy of    *)
(* each process (src/share/lua/5.4/luaos/cluster/proxy.lua).               *)
(*                                                                         *)
(* The proxy is one service of its process.  It watches topics: the topic  *)
(* bus posts to it what the other services subscribe and cancel.  It       *)
(* counts their subscriptions in local_topics, and tells the master of the *)
(* first one and of the end of the last one.  The master forwards that to  *)
(* every other session, whose proxies count in remote_topics the processes *)
(* that are interested: what is published on a topic goes to the master    *)
(* only while that count is there.                                         *)
(*                                                                         *)
(* A connection is two queues of messages.  Each end of one that is broken *)
(* may still handle what has arrived, and then finds the error; what is    *)
(* left is lost.  Left out: heartbeats, "ready" (which only sets a flag    *)
(* that nothing reads), the framing, published messages, subscriptions by  *)
(* the service of the proxy itself, the stop of the master.                *)
(***************************************************************************)
EXTENDS Naturals, Sequences, FiniteSets, SequencesExt

CONSTANTS
  Procs,      \* the processes
  Topics,     \* the topics they watch
  Conns,      \* the connections that are made in a behaviour
  MaxConns,   \* bound: the connections a process makes
  MaxSubs,    \* bound: the services of a process that subscribe to a topic
  MaxOps,     \* bound: the calls of subscribe and cancel
  Leavers,    \* bound: the processes that stop their proxy
  None        \* no connection, no process

ASSUME ClusterAssumption ==
  /\ MaxConns \in Nat /\ MaxSubs \in Nat /\ MaxOps \in Nat
  /\ Leavers \subseteq Procs
  /\ None \notin Conns /\ None \notin Procs

VARIABLES
  subs,          \* how many other services of a process subscribe to a topic
  watched,       \* the topics the proxy watches
  notes,         \* what the topic bus has posted to the proxy
  local_topics,  \* local_topics of the proxy, 0 for nil
  remote_topics, \* remote_topics of the proxy, 0 for nil
  peer,          \* server.peer of the proxy
  owner,         \* the process that made a connection
  reading,       \* the connections whose proxy has not been handed an error
  broken,        \* the connections closed or failed
  up, down,      \* what a connection carries, to and from the master
  accepted,      \* the connections the master has accepted
  sessions,      \* the sessions of the master
  topics,        \* the topics a session has set to true
  ops            \* auxiliary: the calls of subscribe and cancel so far

bus == <<subs, watched, notes>>
proxy == <<local_topics, remote_topics, peer, reading>>
net == <<owner, broken, up, down>>
master == <<accepted, sessions, topics>>
vars == <<bus, proxy, net, master, ops>>

Message == [type : {"subscribe", "cancel"}, topic : Topics]
Subscribe(t) == [type |-> "subscribe", topic |-> t]
Cancel(t) == [type |-> "cancel", topic |-> t]

-----------------------------------------------------------------------------
Init ==
  /\ subs = [p \in Procs |-> [t \in Topics |-> 0]]
  /\ watched = [p \in Procs |-> {}]
  /\ notes = [p \in Procs |-> <<>>]
  /\ local_topics = [p \in Procs |-> [t \in Topics |-> 0]]
  /\ remote_topics = [p \in Procs |-> [t \in Topics |-> 0]]
  /\ peer = [p \in Procs |-> None]
  /\ owner = [c \in Conns |-> None]
  /\ reading = {}
  /\ broken = {}
  /\ up = [c \in Conns |-> <<>>]
  /\ down = [c \in Conns |-> <<>>]
  /\ accepted = {}
  /\ sessions = {}
  /\ topics = [c \in Conns |-> {}]
  /\ ops = 0

\* A service of p other than the proxy subscribes or cancels: the topic bus
\* posts that to the proxy, if it watches (TopicBus).
Tell(p, m) ==
  notes' = IF m.topic \in watched[p] THEN [notes EXCEPT ![p] = Append(@, m)] ELSE notes

LocalSubscribe(p, t) ==
  /\ ops < MaxOps /\ ops' = ops + 1
  /\ subs[p][t] < MaxSubs
  /\ subs' = [subs EXCEPT ![p][t] = @ + 1]
  /\ Tell(p, Subscribe(t))
  /\ UNCHANGED <<watched, proxy, net, master>>

LocalCancel(p, t) ==
  /\ ops < MaxOps /\ ops' = ops + 1
  /\ subs[p][t] > 0
  /\ subs' = [subs EXCEPT ![p][t] = @ - 1]
  /\ Tell(p, Cancel(t))
  /\ UNCHANGED <<watched, proxy, net, master>>

Made(p) == {c \in Conns : owner[c] = p}

\* proxy.watch.  The bus does not tell of subscriptions that are there already:
\* the proxy never learns of those.
Watch(p, t) ==
  /\ Made(p) # {}
  /\ t \notin watched[p]
  /\ watched' = [watched EXCEPT ![p] = @ \union {t}]
  /\ UNCHANGED <<subs, notes, proxy, net, master, ops>>

-----------------------------------------------------------------------------
\* proxy.start
Start(p) ==
  /\ peer[p] = None
  /\ Cardinality(Made(p)) < MaxConns
  /\ \E c \in Conns :
       /\ owner[c] = None
       /\ owner' = [owner EXCEPT ![c] = p]
       /\ peer' = [peer EXCEPT ![p] = c]
       /\ reading' = reading \union {c}
  /\ UNCHANGED <<bus, local_topics, remote_topics, broken, up, down, master, ops>>

\* proxy.stop
Stop(p) ==
  /\ peer[p] # None
  /\ peer' = [peer EXCEPT ![p] = None]
  /\ broken' = broken \union {peer[p]}
  /\ UNCHANGED <<bus, local_topics, remote_topics, reading, owner, up, down, master, ops>>

\* send_to_master
SendToMaster(p, m) ==
  up' = IF peer[p] # None /\ peer[p] \notin broken
        THEN [up EXCEPT ![peer[p]] = Append(@, m)]
        ELSE up

\* Mutants: every cancel goes to the master; a count that is nil falls as well.
MutantOnLocalCancel(p, m) ==
  /\ local_topics' = [local_topics EXCEPT ![p][m.topic] = IF @ = 0 THEN 0 ELSE @ - 1]
  /\ SendToMaster(p, m)

MutantOnLocalCancelNil(p, m) ==
  /\ local_topics' = [local_topics EXCEPT ![p][m.topic] = @ - 1]
  /\ IF local_topics[p][m.topic] = 1 THEN SendToMaster(p, m) ELSE up' = up

\* on_local_cancel, on_local_subscribe
OnLocalCancel(p, m) ==
  LET count == local_topics[p][m.topic]
  IN  /\ local_topics' = [local_topics EXCEPT ![p][m.topic] = IF @ = 0 THEN 0 ELSE @ - 1]
      /\ IF count = 1 THEN SendToMaster(p, m) ELSE up' = up

OnLocalSubscribe(p, m) ==
  /\ local_topics' = [local_topics EXCEPT ![p][m.topic] = @ + 1]
  /\ IF local_topics[p][m.topic] = 0 THEN SendToMaster(p, m) ELSE up' = up

\* on_local_watch, run by the topic bus.
OnLocalWatch(p) ==
  /\ notes[p] # <<>>
  /\ notes' = [notes EXCEPT ![p] = Tail(@)]
  /\ LET m == Head(notes[p])
     IN  IF m.type = "cancel" THEN OnLocalCancel(p, m) ELSE OnLocalSubscribe(p, m)
  /\ UNCHANGED <<subs, watched, remote_topics, peer, reading, owner, broken, down,
                 master, ops>>

\* on_remote_subscribe, on_remote_cancel: the proxy subscribes to the topic while
\* the count is there.
OnRemote(p, m) ==
  remote_topics' = [remote_topics EXCEPT ![p][m.topic] =
                      IF m.type = "subscribe" THEN @ + 1 ELSE IF @ = 0 THEN 0 ELSE @ - 1]

ProxyReceive(c) ==
  /\ c \in reading
  /\ down[c] # <<>>
  /\ OnRemote(owner[c], Head(down[c]))
  /\ down' = [down EXCEPT ![c] = Tail(@)]
  /\ UNCHANGED <<bus, local_topics, peer, reading, owner, broken, up, master, ops>>

\* on_socket_error of the proxy: it closes server.peer, whichever that is now,
\* and leaves both tables as they are.
ProxyError(c) ==
  /\ c \in reading /\ c \in broken
  /\ reading' = reading \ {c}
  /\ LET p == owner[c]
     IN  /\ peer' = [peer EXCEPT ![p] = None]
         /\ broken' = broken \union ({peer[p]} \ {None})
  /\ UNCHANGED <<bus, local_topics, remote_topics, owner, up, down, master, ops>>

-----------------------------------------------------------------------------
\* send_to_others: ms to every session of ss.
SendAll(ss, ms) ==
  down' = [c \in Conns |-> IF c \in ss \ broken THEN down[c] \o ms ELSE down[c]]

\* What the sessions are subscribed to, once per session, in an order that does
\* not matter.
Known ==
  LET pairs == SetToSeq({s \in sessions \X Topics : s[2] \in topics[s[1]]})
  IN  [i \in DOMAIN pairs |-> Subscribe(pairs[i][2])]

\* on_socket_accept: the new session is told what the others are subscribed to.
Accept(c) ==
  /\ owner[c] # None /\ c \notin accepted
  /\ accepted' = accepted \union {c}
  /\ sessions' = sessions \union {c}
  /\ SendAll({c}, Known)
  /\ UNCHANGED <<bus, proxy, owner, broken, up, topics, ops>>

\* Mutant: a session that is not subscribed is withdrawn as well.
MutantOnCancelRequest(c, m) ==
  /\ topics' = [topics EXCEPT ![c] = @ \ {m.topic}]
  /\ SendAll(sessions \ {c}, <<m>>)

\* on_cancel_request, on_subscribe_request
OnCancelRequest(c, m) ==
  /\ topics' = [topics EXCEPT ![c] = @ \ {m.topic}]
  /\ SendAll(IF m.topic \in topics[c] THEN sessions \ {c} ELSE {}, <<m>>)

OnSubscribeRequest(c, m) ==
  /\ topics' = [topics EXCEPT ![c] = @ \union {m.topic}]
  /\ SendAll(sessions \ {c}, <<m>>)

MasterReceive(c) ==
  /\ c \in sessions
  /\ up[c] # <<>>
  /\ up' = [up EXCEPT ![c] = Tail(@)]
  /\ LET m == Head(up[c])
     IN  IF m.type = "cancel" THEN OnCancelRequest(c, m) ELSE OnSubscribeRequest(c, m)
  /\ UNCHANGED <<bus, proxy, owner, broken, accepted, sessions, ops>>

\* Mutant: what the session was subscribed to is not withdrawn.
MutantMasterError(c) ==
  /\ c \in sessions /\ c \in broken
  /\ sessions' = sessions \ {c}
  /\ UNCHANGED <<bus, proxy, net, accepted, topics, ops>>

\* on_socket_error of the master: the others are told that the session cancels
\* what it was subscribed to.
MasterError(c) ==
  /\ c \in sessions /\ c \in broken
  /\ sessions' = sessions \ {c}
  /\ SendAll(sessions \ {c}, [i \in 1..Cardinality(topics[c]) |->
                                Cancel(SetToSeq(topics[c])[i])])
  /\ UNCHANGED <<bus, proxy, owner, broken, up, accepted, topics, ops>>

-----------------------------------------------------------------------------
\* A connection fails.
Break(c) ==
  /\ owner[c] # None /\ c \notin broken
  /\ broken' = broken \union {c}
  /\ UNCHANGED <<bus, proxy, owner, up, down, master, ops>>

Next ==
  \/ \E p \in Procs, t \in Topics : LocalSubscribe(p, t) \/ LocalCancel(p, t) \/ Watch(p, t)
  \/ \E p \in Procs : Start(p) \/ (p \in Leavers /\ Stop(p)) \/ OnLocalWatch(p)
  \/ \E c \in Conns : \/ ProxyReceive(c) \/ ProxyError(c) \/ Accept(c)
                      \/ MasterReceive(c) \/ MasterError(c) \/ Break(c)

Spec == Init /\ [][Next]_vars

\* The reactors of the proxies and of the master run what is there to run, and
\* an end of a broken connection finds out.
FairSpec ==
  /\ Spec
  /\ \A p \in Procs : WF_vars(OnLocalWatch(p))
  /\ \A c \in Conns :
       /\ WF_vars(ProxyReceive(c)) /\ WF_vars(ProxyError(c)) /\ WF_vars(Accept(c))
       /\ WF_vars(MasterReceive(c)) /\ WF_vars(MasterError(c))

-----------------------------------------------------------------------------
\* The counts count services and processes, and the queues hold messages.
TypeOK ==
  /\ subs \in [Procs -> [Topics -> 0..MaxSubs]]
  /\ watched \in [Procs -> SUBSET Topics]
  /\ notes \in [Procs -> Seq(Message)]
  /\ local_topics \in [Procs -> [Topics -> 0..MaxSubs]]
  /\ remote_topics \in [Procs -> [Topics -> Nat]]
  /\ peer \in [Procs -> Conns \union {None}]
  /\ owner \in [Conns -> Procs \union {None}]
  /\ up \in [Conns -> Seq(Message)] /\ down \in [Conns -> Seq(Message)]
  /\ \A s \in {reading, broken, accepted, sessions} : s \subseteq Conns
  /\ topics \in [Conns -> SUBSET Topics]
  /\ ops \in 0..MaxOps

Linked(p) == peer[p] # None /\ peer[p] \notin broken

\* p is on the first connection it made, and that works.
First(p) == Linked(p) /\ Made(p) = {peer[p]}

\* How often m is in q.
Copies(q, m) == Cardinality({i \in DOMAIN q : q[i] = m})

\* On its first connection a proxy has counted, or is about to be told, exactly
\* the other sessions that are subscribed, whichever of them came before it,
\* broke off or were told of each other in between.
CountExact ==
  \A p \in Procs, t \in Topics :
    First(p) /\ peer[p] \in sessions =>
      LET q == down[peer[p]]
          others == {c \in sessions \ {peer[p]} : t \in topics[c]}
      IN  remote_topics[p][t] + Copies(q, Subscribe(t)) = Copies(q, Cancel(t)) + Cardinality(others)

\* What q says of t: nothing, or last m.
Silent(q, t) == \A i \in DOMAIN q : q[i].topic # t
Ends(q, t, m) == \E i \in DOMAIN q : q[i] = m /\ \A j \in DOMAIN q : i < j => q[j].topic # t

\* On its first connection the session of a proxy is subscribed, once what is
\* under way has arrived, to the topics of local_topics.
SessionExact ==
  \A p \in Procs, t \in Topics :
    First(p) =>
      LET counted == local_topics[p][t] > 0
      IN  IF Silent(up[peer[p]], t)
          THEN t \in topics[peer[p]] <=> counted
          ELSE Ends(up[peer[p]], t, IF counted THEN Subscribe(t) ELSE Cancel(t))

\* Nothing is under way, and every end knows of every connection what the other
\* end knows.
Quiet ==
  /\ \A p \in Procs : notes[p] = <<>>
  /\ \A c \in Conns :
       owner[c] # None =>
         /\ c \in accepted
         /\ c \notin broken => up[c] = <<>> /\ down[c] = <<>>
         /\ c \in broken => c \notin reading /\ c \notin sessions

\* The other processes whose proxy has counted a service that subscribes.
Others(p, t) == {q \in Procs \ {p} : peer[q] # None /\ local_topics[q][t] > 0}

\* When nothing is under way a topic that is not in remote_topics is not in
\* local_topics of another process: no other node subscribes to it
\* (src/share/lua/5.4/luaos/cluster/proxy.lua:84, on_local_publish).
NobodyElse ==
  Quiet => \A p \in Procs, t \in Topics :
             peer[p] # None /\ remote_topics[p][t] = 0 => Others(p, t) = {}

\* A subscription that a proxy has counted reaches the proxies of the other
\* processes, unless it is cancelled or a connection breaks; so does its end.
InterestFollows ==
  \A p \in Procs, t \in Topics :
    /\ \A q \in Procs \ {p} :
         local_topics[q][t] > 0 /\ First(p) /\ First(q)
           ~> remote_topics[p][t] > 0 \/ local_topics[q][t] = 0 \/ ~First(p) \/ ~First(q)
    /\ First(p) /\ Others(p, t) = {}
         ~> remote_topics[p][t] = 0 \/ Others(p, t) # {} \/ ~First(p)
=============================================================================
