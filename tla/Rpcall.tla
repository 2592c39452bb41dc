------------------------------- MODULE Rpcall -------------------------------
(***************************************************************************)
(* Remote calls between the services of one process: rpcall.register,      *)
(* rpcall.cancel and rpcall.call (src/src/luaos_rpcall.cpp).               *)
(*                                                                         *)
(* A name maps to a reactor and the index of a function in the registry of *)
(* its service.  A call without a callback posts the call to that reactor  *)
(* and blocks the calling thread until the handler has run there: a        *)
(* blocked service runs nothing of its own.  A call with a callback posts  *)
(* and goes on, and the reactor of the caller is posted the result.  A     *)
(* service that calls itself runs the handler at once, on its own stack.   *)
(*                                                                         *)
(* A frame of stack is a handler that is being run; what it does on the    *)
(* way (register, cancel, call) are actions of its service.  Left out:     *)
(* parameters, and handlers that call os.wait themselves.                  *)
(***************************************************************************)
EXTENDS Naturals, Sequences

CONSTANTS
  Services,   \* the services of the process
  Names,      \* the names of functions
  Provides,   \* bound: pairs of a service and a name that it may register
  Calls,      \* bound: pairs of a service and a name that it may call
  Cancellers, \* bound: the services that cancel a name
  Mortals,    \* bound: the services that may stop
  Refs,       \* bound: the registry slots of a service
  Values,     \* what a handler may return: sequences of values
  MaxCalls,   \* bound: the calls made
  None        \* no registration

ASSUME RpcAssumption ==
  /\ Provides \subseteq Services \X Names
  /\ Calls \subseteq Services \X Names
  /\ Cancellers \subseteq Services
  /\ Mortals \subseteq Services
  /\ MaxCalls \in Nat
  /\ None \notin [ios : Services, handler : Refs]

VARIABLES
  reged,      \* _rpc_reged
  registry,   \* the functions each Lua state holds, by index
  queue,      \* what has been posted to each reactor
  alive,      \* the services whose reactor has not been stopped
  waiting,    \* the call that blocks a service, 0 for none
  stack,      \* the handlers a service is running, innermost last
  ids,        \* the number of calls made so far
  answers,    \* what a caller was handed: the status, then the results
  returned,   \* auxiliary: what the handler of a call returned
  lost        \* auxiliary: the calls whose handler was gone

vars == <<reged, registry, queue, alive, waiting, stack, ids, answers, returned, lost>>

Node == [ios : Services, handler : Refs]
Ids == 1..MaxCalls
Free == [kind |-> "free"]
Handler(n) == [kind |-> "handler", name |-> n]
Callback(id) == [kind |-> "callback", id |-> id]
Slot == {Free} \union {Handler(n) : n \in Names} \union {Callback(id) : id \in Ids}

\* A call or an invoke, in a queue or on a stack; callback is a slot of from.
Request == [op : {"call", "invoke"}, id : Ids, from : Services, name : Names,
            index : Refs, callback : Refs]
Answers == Seq(BOOLEAN \union UNION {{v[i] : i \in DOMAIN v} : v \in Values})
Result == [op : {"result"}, id : Ids, from : Services, callback : Refs, answer : Answers]

Post(s, m) == queue' = [queue EXCEPT ![s] = Append(@, m)]

\* The script of s, or the handler it is running, goes on: so it does when its
\* reactor was stopped, until it ends or comes back to os.wait.
Running(s) == waiting[s] = 0

-----------------------------------------------------------------------------
Init ==
  /\ reged = [n \in Names |-> None]
  /\ registry = [s \in Services |-> [r \in Refs |-> Free]]
  /\ queue = [s \in Services |-> <<>>]
  /\ alive = Services
  /\ waiting = [s \in Services |-> 0]
  /\ stack = [s \in Services |-> <<>>]
  /\ ids = 0
  /\ answers = [id \in Ids |-> <<>>]
  /\ returned = [id \in Ids |-> <<>>]
  /\ lost = {}

\* luaL_ref: any slot of the registry that is free.
Ref(s, f, r) ==
  /\ registry[s][r] = Free
  /\ registry' = [registry EXCEPT ![s][r] = f]

\* lua_rpcall_register: a name that is taken is refused.
Register(s, n) ==
  /\ Running(s)
  /\ reged[n] = None
  /\ \E r \in Refs :
       /\ Ref(s, Handler(n), r)
       /\ reged' = [reged EXCEPT ![n] = [ios |-> s, handler |-> r]]
  /\ UNCHANGED <<queue, alive, waiting, stack, ids, answers, returned, lost>>

\* lua_rpcall_cancel: only the service that registered a name may cancel it.
Cancel(s, n) ==
  /\ Running(s)
  /\ reged[n] # None /\ reged[n].ios = s
  /\ registry' = [registry EXCEPT ![s][reged[n].handler] = Free]
  /\ reged' = [reged EXCEPT ![n] = None]
  /\ UNCHANGED <<queue, alive, waiting, stack, ids, answers, returned, lost>>

\* lua_rpcall_call of a name that is registered.
Call(s, n) ==
  /\ Running(s)
  /\ reged[n] # None
  /\ ids < MaxCalls
  /\ ids' = ids + 1
  /\ LET m == [op |-> "call", id |-> ids + 1, from |-> s, name |-> n,
               index |-> reged[n].handler, callback |-> reged[n].handler]
     IN  IF reged[n].ios = s
         THEN /\ stack' = [stack EXCEPT ![s] = Append(@, m)]
              /\ UNCHANGED <<queue, waiting>>
         ELSE /\ Post(reged[n].ios, m)
              /\ waiting' = [waiting EXCEPT ![s] = ids + 1]
              /\ UNCHANGED stack
  /\ UNCHANGED <<reged, registry, alive, answers, returned, lost>>

\* Mutant: the reference to the callback is given back too early.
MutantInvoke(s, n) ==
  /\ Running(s)
  /\ ids < MaxCalls
  /\ ids' = ids + 1
  /\ \E r \in Refs :
       /\ registry[s][r] = Free
       /\ IF reged[n] = None
          THEN UNCHANGED queue
          ELSE Post(reged[n].ios,
                    [op |-> "invoke", id |-> ids + 1, from |-> s, name |-> n,
                     index |-> reged[n].handler, callback |-> r])
  /\ UNCHANGED <<reged, registry, alive, waiting, stack, answers, returned, lost>>

\* lua_rpcall_invoke with a callback.  When the name is unknown the reference to
\* the callback is kept for ever.
Invoke(s, n) ==
  /\ Running(s)
  /\ ids < MaxCalls
  /\ ids' = ids + 1
  /\ \E r \in Refs :
       /\ Ref(s, Callback(ids + 1), r)
       /\ IF reged[n] = None
          THEN UNCHANGED queue
          ELSE Post(reged[n].ios,
                    [op |-> "invoke", id |-> ids + 1, from |-> s, name |-> n,
                     index |-> reged[n].handler, callback |-> r])
  /\ UNCHANGED <<reged, alive, waiting, stack, answers, returned, lost>>

-----------------------------------------------------------------------------
\* A service runs what its reactor holds when its script waits: the reactor is not
\* stopped, and no handler of its own is under way.
Waits(s) == s \in alive /\ Running(s) /\ stack[s] = <<>> /\ queue[s] # <<>>

\* Mutant: a result is run as a request.
MutantRunRequest(s) ==
  /\ Waits(s)
  /\ stack' = [stack EXCEPT ![s] = <<Head(queue[s])>>]
  /\ queue' = [queue EXCEPT ![s] = Tail(@)]
  /\ UNCHANGED <<reged, registry, alive, waiting, ids, answers, returned, lost>>

\* call and invoke find the function of the index they were posted with.
RunRequest(s) ==
  /\ Waits(s)
  /\ LET m == Head(queue[s])
     IN  /\ m.op \in {"call", "invoke"}
         /\ registry[s][m.index] # Free
         /\ stack' = [stack EXCEPT ![s] = <<m>>]
  /\ queue' = [queue EXCEPT ![s] = Tail(@)]
  /\ UNCHANGED <<reged, registry, alive, waiting, ids, answers, returned, lost>>

\* The index names no function: luaos_pcall raises out of os.wait, and nobody
\* answers the call.  The script ends unless it protects os.wait.
RunMissing(s) ==
  /\ Waits(s)
  /\ LET m == Head(queue[s])
     IN  /\ m.op \in {"call", "invoke"}
         /\ registry[s][m.index] = Free
         /\ lost' = lost \union {m.id}
  /\ queue' = [queue EXCEPT ![s] = Tail(@)]
  /\ alive' \in {alive, alive \ ({s} \intersect Mortals)}
  /\ UNCHANGED <<reged, registry, waiting, stack, ids, answers, returned>>

\* The caller runs its callback with the result.
RunResult(s) ==
  /\ Waits(s)
  /\ Head(queue[s]).op = "result"
  /\ LET m == Head(queue[s])
     IN  /\ registry' = [registry EXCEPT ![s][m.callback] = Free]
         /\ answers' = [answers EXCEPT ![m.id] = m.answer]
  /\ queue' = [queue EXCEPT ![s] = Tail(@)]
  /\ UNCHANGED <<reged, alive, waiting, stack, ids, returned, lost>>

\* lua_value_array::append(L, begin, end): the values at these places of the
\* stack.
Appended(values, begin, end) == SubSeq(values, begin, end)

\* Mutant: the outermost handler ends.
MutantPopped(s) == Tail(stack[s])

\* The handlers of s that go on when the innermost one ends.
Popped(s) == SubSeq(stack[s], 1, Len(stack[s]) - 1)

\* Mutant: the reactor on which the caller waits is not stopped.
MutantResumed(s, m) == waiting

\* ios->stop(): the caller of m goes on, once s has answered.
Resumed(s, m) == IF m.from = s THEN waiting ELSE [waiting EXCEPT ![m.from] = 0]

\* The innermost handler of s returns values, or fails: the caller is handed the
\* status and what append(L, top + 1, 0) takes of the values.  The results are
\* the whole stack here: top is 0.
Return(s, ok, values) ==
  /\ Running(s)
  /\ stack[s] # <<>>
  /\ stack' = [stack EXCEPT ![s] = Popped(s)]
  /\ LET m == stack[s][Len(stack[s])]
         answer == <<ok>> \o Appended(values, 1, 0)
     IN  /\ returned' = [returned EXCEPT ![m.id] = values]
         /\ IF m.op = "call"
            THEN /\ answers' = [answers EXCEPT ![m.id] = answer]
                 /\ waiting' = Resumed(s, m)
                 /\ UNCHANGED queue
            ELSE /\ Post(m.from, [op |-> "result", id |-> m.id, from |-> s,
                                  callback |-> m.callback, answer |-> answer])
                 /\ UNCHANGED <<answers, waiting>>
  /\ UNCHANGED <<reged, registry, alive, ids, lost>>

\* luaos_exit, by the script or inside a handler: the reactor of s is stopped and
\* runs nothing more, the handlers under way go on, and what s registered stays
\* registered.
Exit(s) ==
  /\ s \in Mortals \intersect alive
  /\ Running(s)
  /\ alive' = alive \ {s}
  /\ UNCHANGED <<reged, registry, queue, waiting, stack, ids, answers, returned, lost>>

Returns(s) == \E ok \in BOOLEAN, values \in Values : Return(s, ok, values)

Next ==
  \E s \in Services :
    \/ \E n \in Names :
         \/ <<s, n>> \in Provides /\ Register(s, n)
         \/ s \in Cancellers /\ Cancel(s, n)
         \/ <<s, n>> \in Calls /\ (Call(s, n) \/ Invoke(s, n))
    \/ RunRequest(s)
    \/ RunMissing(s)
    \/ RunResult(s)
    \/ Returns(s)
    \/ Exit(s)

Spec == Init /\ [][Next]_vars

\* Scripts wait for what is posted to them, and handlers return.
FairSpec ==
  /\ Spec
  /\ \A s \in Services :
       /\ WF_vars(RunRequest(s) \/ RunMissing(s) \/ RunResult(s))
       /\ WF_vars(Returns(s))

-----------------------------------------------------------------------------
\* The requests, results, frames and answers are of the kinds posted, and their
\* indices are slots.
TypeOK ==
  /\ reged \in [Names -> Node \union {None}]
  /\ registry \in [Services -> [Refs -> Slot]]
  /\ queue \in [Services -> Seq(Request \union Result)]
  /\ stack \in [Services -> Seq(Request)]
  /\ alive \subseteq Services
  /\ waiting \in [Services -> 0..MaxCalls]
  /\ ids \in 0..MaxCalls
  /\ answers \in [Ids -> Answers]
  /\ lost \subseteq Ids

\* The requests and results under way: in a queue or on a stack.
Under == (UNION {{queue[s][i] : i \in DOMAIN queue[s]} : s \in Services})
           \union (UNION {{stack[s][i] : i \in DOMAIN stack[s]} : s \in Services})

\* A registered name owns one slot of its service, which holds its handler, and no
\* other slot holds a handler: a refused or cancelled registration leaves nothing
\* behind.  The callback of a request under way is still the one that was passed,
\* however many slots were given back and taken again meanwhile, and it is run once.
SlotsIntact ==
  /\ \A n \in Names, s \in Services, r \in Refs :
       registry[s][r] = Handler(n) <=> reged[n] = [ios |-> s, handler |-> r]
  /\ \A m \in Under :
       /\ m.op = "invoke" => registry[m.from][m.callback] = Callback(m.id)
       /\ m.op = "result" => answers[m.id] = <<>>

\* A handler that runs for a blocked service answers the very call that blocks
\* it, and nobody else does.
AnswersItsCaller ==
  \A s \in Services : \A i \in DOMAIN stack[s] :
    stack[s][i].op = "call" =>
      LET m == stack[s][i]
      IN  /\ m.from # s => waiting[m.from] = m.id
          /\ answers[m.id] = <<>>
          /\ \A t \in Services : \A j \in DOMAIN stack[t] :
               stack[t][j].id = m.id => <<t, j>> = <<s, i>>

\* What excuses a blocked service: the handler it called was gone, or the service
\* that has the call is blocked by a call of its own, or was stopped before it began
\* to run it.  A stop of the service after that is no excuse.
Excused(s) ==
  \/ waiting[s] \in lost
  \/ \E t \in Services :
       \/ /\ t \notin alive \/ waiting[t] # 0
          /\ \E i \in DOMAIN queue[t] : queue[t][i].id = waiting[s]
       \/ /\ waiting[t] # 0
          /\ \E i \in DOMAIN stack[t] : stack[t][i].id = waiting[s]

\* No other service is blocked for ever: a cycle of calls, a cancel under way and
\* a stop are all that can keep a caller from going on.
CallEnds == \A s \in Services : []<>(waiting[s] = 0 \/ Excused(s))

\* A blocked service goes on: os.rpcall returns a status
\* (src/share/lua/5.4/luaos.lua).
CallReturns == \A s \in Services : waiting[s] # 0 ~> waiting[s] = 0

\* Who called a function that succeeded is handed what it returned
\* (src/share/lua/5.4/luaos.lua: boolean, ...).
ResultsReturned ==
  \A id \in Ids :
    answers[id] # <<>> /\ answers[id][1] => Tail(answers[id]) = returned[id]
=============================================================================
