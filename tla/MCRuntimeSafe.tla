--------------------------- MODULE MCRuntimeSafe ---------------------------
(***************************************************************************)
(* Model checking of the safety of the topic bus and of a part that shares *)
(* no variable with it: the routes through a cluster, with the pool of     *)
(* ids.  A behaviour is a behaviour of one of the two, chosen at the       *)
(* start, while the other stays as it is: TLC checks the sum of the two,   *)
(* not the product.                                                        *)
(***************************************************************************)
EXTENDS TopicBus, ClusterRoute, TLC

CONSTANTS p1, OtherProcs

VARIABLE unit   \* the part that runs

\* Three processes, the first with two services: one of them publishes once.  Two
\* more sends reply, or reply to a reply.
RouteProcs == {p1} \union OtherProcs
RouteServices == {<<p, 2>> : p \in RouteProcs} \union {<<p1, 3>>}
Sender == {<<p1, 2>>}

ASSUME IdentifiersAssumption

MCInit ==
  /\ unit \in {"bus", "route"}
  /\ Init /\ RouteInit

OfBus(A) == unit = "bus" /\ A /\ UNCHANGED <<unit, routeVars>>
OfRoute(A) == unit = "route" /\ A /\ UNCHANGED <<unit, vars>>

\* The next-state relations of the two parts, an action at a time.
MCNext ==
  \/ \E s \in Services :
       \/ \E t \in Topics :
            \/ OfBus(Subscribe(s, t)) \/ OfBus(Cancel(s, t))
            \/ OfBus(Watch(s, t)) \/ OfBus(CancelWatch(s, t))
            \/ \E mask \in Masks, receiver \in Services \union {Nobody} :
                 OfBus(Publish(s, t, mask, receiver))
       \/ OfBus(Dispatch(s))
       \/ OfBus(Exit(s))
  \/ \E s \in Subscribers :
       \/ \E mask \in SendMasks : OfRoute(Send(s, mask))
       \/ \E i \in DOMAIN got[s] : OfRoute(Reply(s, got[s][i]))
  \/ \E p \in Procs :
       \/ OfRoute(OnLocalPublish(p)) \/ OfRoute(OnRemotePublish(p))
       \/ OfRoute(Connect(p)) \/ OfRoute(Break(p))
  \/ \E c \in Conns :
       OfRoute(Accept(c)) \/ OfRoute(MasterError(c)) \/ OfRoute(MasterReceive(c))

MCSpec == MCInit /\ [][MCNext]_<<unit, vars, routeVars>>

\* The slots of a registry are alike, and so are the processes that do not publish.
Alike == Permutations(Refs) \union Permutations(OtherProcs)

-----------------------------------------------------------------------------
\* The variables of the part that runs are what they are declared to be; those of
\* the other stay as they are.
TypesOK ==
  /\ unit = "bus" => TypeOK
  /\ unit = "route" => RouteTypeOK
=============================================================================
