------------------------------ MODULE TopicBus ------------------------------
(***************************************************************************)
(* The topic bus of one LuaOS process: os.subscribe, os.cancel, os.watch,  *)
(* os.cancel_watch and os.publish (src/src/luaos_subscriber.cpp).          *)
(*                                                                         *)
(* Every service (a Lua state with its thread and its reactor) shares the  *)
(* tables _topics and _watchs under one mutex.  An entry of a table is a   *)
(* reactor and the index of a function in the registry of the service's    *)
(* Lua state.  An operation that finds receivers posts one message to the  *)
(* reactor of each while it still holds the mutex, so an operation is one  *)
(* action here.  A message carries the INDEX of the handler, which is read *)
(* back from the registry when the reactor of the receiver runs it: by     *)
(* then the index may have been released, and may name another function.   *)
(*                                                                         *)
(* Abstracted: parameters and results that no property reads, the session  *)
(* bits of a publisher (see Cluster), the errors for ill-typed arguments.  *)
(* A service identifies its reactor; 0 stands for "no receiver".           *)
(***************************************************************************)
EXTENDS Naturals, Sequences, SequencesExt

CONSTANTS
  Services,   \* the services of the process
  Publishers, \* bound: the services that publish
  Watchers,   \* bound: the services that watch
  Mortals,    \* bound: the services whose reactor may be stopped
  Topics,     \* the topics in use
  Masks,      \* the masks a publisher may pass, 0 among them
  Refs,       \* bound: the slots of a service's registry that hold handlers
  MaxPosts,   \* bound: operations that post messages
  Nobody      \* a receiver of 0: no directed publish

ASSUME BusAssumption ==
  /\ Publishers \subseteq Services
  /\ Watchers \subseteq Services
  /\ Mortals \subseteq Services
  /\ Nobody \notin Services
  /\ Masks \subseteq Nat
  /\ MaxPosts \in Nat

VARIABLES
  topics,     \* _topics: the subscribers of a topic, in order
  watchs,     \* _watchs: the watchers of a topic, in order
  registry,   \* the handlers each Lua state holds, by index
  queue,      \* the handlers posted to each reactor and not yet run
  alive,      \* the services whose reactor has not been stopped
  posts,      \* auxiliary: operations that posted, in the order of the lock
  seen,       \* auxiliary: the last such operation a service has handled
  view,       \* auxiliary: what a watcher makes of its notifications
  cancelled   \* auxiliary: services that cancelled a subscription or a watch

vars == <<topics, watchs, registry, queue, alive, posts, seen, view, cancelled>>

Item == [ios : Services, index : Refs]
Free == [kind |-> "free"]
Handler == [kind : {"subscriber", "watcher"}, topic : Topics]

Message == [kind : {"publish", "subscribe", "cancel"}, topic : Topics,
            index : Refs, from : Services, stamp : 1..MaxPosts]

-----------------------------------------------------------------------------
\* Mutant: only the first entry is compared.
MutantHasFirst(items, s) == items # <<>> /\ items[1].ios = s

Has(items, s) == \E i \in DOMAIN items : items[i].ios = s
At(items, s) == CHOOSE i \in DOMAIN items : items[i].ios = s
Members(items) == {items[i].ios : i \in DOMAIN items}

\* Mutants: the position in the list, or the first entry, instead of the index.
MutantIndexPosition(items, s) == At(items, s)
MutantIndexFirst(items, s) == items[1].index

IndexOf(items, s) == items[At(items, s)].index

\* The function a message was posted for.
Target(m) == [kind  |-> IF m.kind = "publish" THEN "subscriber" ELSE "watcher",
              topic |-> m.topic]

\* Mutant: the reactor runs the latest message first.
MutantPostFront(R, items, kind, t, s) ==
  /\ posts < MaxPosts
  /\ posts' = posts + 1
  /\ queue' = [r \in Services |->
       IF r \in R \intersect alive
       THEN <<[kind |-> kind, topic |-> t, index |-> IndexOf(items, r),
               from |-> s, stamp |-> posts + 1]>> \o queue[r]
       ELSE queue[r]]

\* Post one message of this kind to each reactor of R, for the handlers that
\* items name.  A stopped reactor never runs what is posted to it.
Post(R, items, kind, t, s) ==
  /\ posts < MaxPosts
  /\ posts' = posts + 1
  /\ queue' = [r \in Services |->
       IF r \in R \intersect alive
       THEN Append(queue[r], [kind |-> kind, topic |-> t, index |-> IndexOf(items, r),
                              from |-> s, stamp |-> posts + 1])
       ELSE queue[r]]

\* Mutant: the flag "cancel" is lost.
MutantNotifyKind(t, kind, s) ==
  Post(Members(watchs[t]) \ {s}, watchs[t], "subscribe", t, s)

\* on_notify: tell the watchers of the topic, but not the service itself.
Notify(t, kind, s) == Post(Members(watchs[t]) \ {s}, watchs[t], kind, t, s)

-----------------------------------------------------------------------------
Init ==
  /\ topics = [t \in Topics |-> <<>>]
  /\ watchs = [t \in Topics |-> <<>>]
  /\ registry = [s \in Services |-> [r \in Refs |-> Free]]
  /\ queue = [s \in Services |-> <<>>]
  /\ alive = Services
  /\ posts = 0
  /\ seen = [s \in Services |-> 0]
  /\ view = [s \in Services |-> [t \in Topics |-> {}]]
  /\ cancelled = {}

\* luaL_ref: any slot of the registry that is free.
Ref(s, h, r) ==
  /\ registry[s][r] = Free
  /\ registry' = [registry EXCEPT ![s][r] = h]

\* Mutant: the slot is not given back.
MutantUnref(s, r) == registry' = registry

\* luaL_unref
Unref(s, r) == registry' = [registry EXCEPT ![s][r] = Free]

\* A second subscription is refused and its reference given back.
Subscribe(s, t) ==
  /\ s \in alive
  /\ ~Has(topics[t], s)
  /\ \E r \in Refs :
       /\ Ref(s, [kind |-> "subscriber", topic |-> t], r)
       /\ topics' = [topics EXCEPT ![t] = Append(@, [ios |-> s, index |-> r])]
  /\ Notify(t, "subscribe", s)
  /\ UNCHANGED <<watchs, alive, seen, view, cancelled>>

Cancel(s, t) ==
  /\ s \in alive
  /\ Has(topics[t], s)
  /\ Unref(s, IndexOf(topics[t], s))
  /\ topics' = [topics EXCEPT ![t] = RemoveAt(@, At(@, s))]
  /\ Notify(t, "cancel", s)
  /\ cancelled' = cancelled \union {s}
  /\ UNCHANGED <<watchs, alive, seen, view>>

\* The watcher starts from the subscribers there are: nothing is replayed.
Watch(s, t) ==
  /\ s \in alive \intersect Watchers
  /\ ~Has(watchs[t], s)
  /\ \E r \in Refs :
       /\ Ref(s, [kind |-> "watcher", topic |-> t], r)
       /\ watchs' = [watchs EXCEPT ![t] = Append(@, [ios |-> s, index |-> r])]
  /\ view' = [view EXCEPT ![s][t] = Members(topics[t]) \ {s}]
  /\ UNCHANGED <<topics, queue, alive, posts, seen, cancelled>>

CancelWatch(s, t) ==
  /\ s \in alive \intersect Watchers
  /\ Has(watchs[t], s)
  /\ Unref(s, IndexOf(watchs[t], s))
  /\ watchs' = [watchs EXCEPT ![t] = RemoveAt(@, At(@, s))]
  /\ cancelled' = cancelled \union {s}
  /\ UNCHANGED <<topics, queue, alive, posts, seen, view>>

-----------------------------------------------------------------------------
\* Mutant: the publisher is skipped one position too late.
MutantSelectedLate(items, s, mask) ==
  LET count == Len(items) - (IF Has(items, s) THEN 1 ELSE 0)
      i == (mask % count) + 1
  IN  items[IF Has(items, s) /\ i > At(items, s) THEN i + 1 ELSE i].ios

\* The subscriber that a publisher's mask selects among the others: position
\* mask % count in the list with the publisher skipped.
Selected(items, s, mask) ==
  LET count == Len(items) - (IF Has(items, s) THEN 1 ELSE 0)
      i == (mask % count) + 1
  IN  items[IF Has(items, s) /\ i >= At(items, s) THEN i + 1 ELSE i].ios

\* The services a publish is posted to.  A directed publish ignores the mask.
Receivers(items, s, mask, receiver) ==
  LET others == Members(items) \ {s}
  IN  IF receiver # Nobody THEN others \intersect {receiver}
      ELSE IF mask > 0 /\ others # {} THEN {Selected(items, s, mask)}
      ELSE others

Publish(s, t, mask, receiver) ==
  /\ s \in alive \intersect Publishers
  /\ Receivers(topics[t], s, mask, receiver) # {}
  /\ Post(Receivers(topics[t], s, mask, receiver), topics[t], "publish", t, s)
  /\ UNCHANGED <<topics, watchs, registry, alive, seen, view, cancelled>>

\* on_publish and on_watch, once the index has been read back as h.  A watcher
\* notes who subscribed and who cancelled.  If the index names no function,
\* luaos_pcall raises out of os.wait; the script ends unless it protects that
\* call.
Failed(s, h) ==
  /\ h = Free
  /\ alive' \in {alive, alive \ ({s} \intersect Mortals)}
  /\ view' = view

Handled(s, h, m) ==
  /\ h # Free
  /\ alive' = alive
  /\ view' = IF h.kind = "watcher" /\ m.kind # "publish"
             THEN [view EXCEPT ![s][h.topic] = IF m.kind = "subscribe"
                                               THEN @ \union {m.from}
                                               ELSE @ \ {m.from}]
             ELSE view

\* The reactor of s runs its next message.
Dispatch(s) ==
  /\ s \in alive
  /\ queue[s] # <<>>
  /\ queue' = [queue EXCEPT ![s] = Tail(@)]
  /\ LET m == Head(queue[s])
         h == registry[s][m.index]
     IN  /\ seen' = [seen EXCEPT ![s] = m.stamp]
         /\ Failed(s, h) \/ Handled(s, h, m)
  /\ UNCHANGED <<topics, watchs, registry, posts, cancelled>>

\* The reactor of s is stopped: what it holds in the tables stays there.
Exit(s) ==
  /\ s \in alive \intersect Mortals
  /\ alive' = alive \ {s}
  /\ UNCHANGED <<topics, watchs, registry, queue, posts, seen, view, cancelled>>

Next ==
  \E s \in Services :
    \/ \E t \in Topics :
         \/ Subscribe(s, t)
         \/ Cancel(s, t)
         \/ Watch(s, t)
         \/ CancelWatch(s, t)
         \/ \E mask \in Masks, receiver \in Services \union {Nobody} :
              Publish(s, t, mask, receiver)
    \/ Dispatch(s)
    \/ Exit(s)

Spec == Init /\ [][Next]_vars

-----------------------------------------------------------------------------
\* The tables hold entries of services and slots, the queues hold messages whose
\* index is a slot of the receiver and whose stamp has been given out.
TypeOK ==
  /\ topics \in [Topics -> Seq(Item)]
  /\ watchs \in [Topics -> Seq(Item)]
  /\ registry \in [Services -> [Refs -> Handler \union {Free}]]
  /\ queue \in [Services -> Seq(Message)]
  /\ alive \subseteq Services
  /\ posts \in 0..MaxPosts
  /\ seen \in [Services -> 0..MaxPosts]
  /\ view \in [Services -> [Topics -> SUBSET Services]]
  /\ cancelled \subseteq Services

Once(items) == \A i, j \in DOMAIN items : items[i].ios = items[j].ios => i = j

\* The table entries for the handlers of one kind and topic.
Entries(h) == IF h.kind = "subscriber" THEN topics[h.topic] ELSE watchs[h.topic]

\* A service is listed at most once per topic, as subscriber and as watcher,
\* whatever the interleaving of the services: the loops of cancel and publish
\* stop at the first entry they find.
ListedOnce == \A h \in Handler : Once(Entries(h))

\* The entry of a table is the one owner of a registry slot: the slot named by
\* an entry holds the handler of that entry, and a slot that holds a handler is
\* named by an entry of its service.  Nothing dangles and nothing leaks.
RefsOwned ==
  /\ \A h \in Handler : \A i \in DOMAIN Entries(h) :
       registry[Entries(h)[i].ios][Entries(h)[i].index] = h
  /\ \A h \in Handler, s \in Services, r \in Refs :
       registry[s][r] = h =>
         \E i \in DOMAIN Entries(h) : Entries(h)[i] = [ios |-> s, index |-> r]

\* No service is handed what it published or changed itself (the index i++ in
\* os.publish, the "not notify self" of on_notify).
NoEcho == \A s \in Services : \A i \in DOMAIN queue[s] : queue[s][i].from # s

\* All services handle the publishes and notifications of the process in one
\* order, the order in which the operations took the lock.
LockOrder ==
  \A s \in Services :
    /\ \A i, j \in DOMAIN queue[s] : i < j => queue[s][i].stamp < queue[s][j].stamp
    /\ \A i \in DOMAIN queue[s] : seen[s] < queue[s][i].stamp

\* What a service that never cancelled anything still has to handle will run the
\* handler it was posted for: only a cancel makes a posted index stale.
SteadyTargets ==
  \A s \in Services \ cancelled : \A i \in DOMAIN queue[s] :
    registry[s][queue[s][i].index] = Target(queue[s][i])

\* The notifications are complete and in order: a watcher that knew the
\* subscribers when it began to watch, and has handled all it was notified of,
\* knows the other subscribers of the topic.
ViewExact ==
  \A t \in Topics : \A w \in (Members(watchs[t]) \intersect alive) \ cancelled :
    (\A i \in DOMAIN queue[w] : queue[w][i].kind = "publish" \/ queue[w][i].topic # t)
      => view[w][t] = Members(topics[t]) \ {w}

\* The masks of any round of consecutive integers reach every other subscriber
\* once: masks spread the load of a topic evenly, whoever publishes.
MasksSpread ==
  \A t \in Topics, s \in Services :
    LET others == Members(topics[t]) \ {s}
        n == Len(topics[t]) - (IF Has(topics[t], s) THEN 1 ELSE 0)
    IN  others # {} =>
          \A k \in 1..n : {Selected(topics[t], s, mask) : mask \in k..k + n - 1} = others

\* A handler is only run with messages of the topic it was given for: what
\* os.subscribe and os.watch document of their handler (src/share/lua/5.4/luaos.lua).
HandlerOfTopic ==
  [][\A s \in Services :
       Dispatch(s) => registry[s][Head(queue[s]).index] \in {Target(Head(queue[s])), Free}]_vars
=============================================================================
