------------------------------ MODULE Storage ------------------------------
(***************************************************************************)
(* The storage that the services of a process share                        *)
(* (src/src/luaos_storage.cpp).                                            *)
(*                                                                         *)
(* Every operation holds one recursive mutex.  set takes a function that   *)
(* makes the value to store from the new and the old one: it is Lua code   *)
(* that runs under the mutex, so it may use the storage itself, fail, or   *)
(* call another service, which cannot answer while it waits for the mutex. *)
(* A value that is nil and an absent key look the same to get and set.     *)
(***************************************************************************)
EXTENDS Naturals, Sequences

CONSTANTS
  Services, Keys, Values,
  MaxOps,   \* bound: the operations and calls
  Nil       \* nil, no operation, nobody

\* The operations; merge is set with a function.
Op == [kind : {"get", "erase", "merge"}, key : Keys]
      \union [kind : {"set"}, key : Keys, value : Values \union {Nil}]
      \union [kind : {"clear"}]

StorageAssumption ==
  /\ Nil \notin Services \union Keys \union Values \union Op
  /\ MaxOps \in Nat

VARIABLES
  store,    \* _storage
  owner,    \* who holds _mutex
  frames,   \* the functions of set that run, the innermost first
  want,     \* the operation a service has called
  callee,   \* the service that the innermost function waits for
  acts,     \* auxiliary: what was done since the mutex was taken
  done,     \* auxiliary: who gave the mutex back last, and what was done before
  ops       \* auxiliary: the operations and calls so far

storageVars == <<store, owner, frames, want, callee, acts, done, ops>>

StoreInit ==
  /\ store = [k \in Keys |-> Nil]
  /\ owner = Nil
  /\ frames = <<>>
  /\ want = [s \in Services |-> Nil]
  /\ callee = Nil
  /\ acts = <<>>
  /\ done = [by |-> Nil, acts |-> <<>>]
  /\ ops = 0

\* A service calls an operation, from its script or from the function of a set.
Ask(s, op) ==
  /\ ops < MaxOps /\ ops' = ops + 1
  /\ want[s] = Nil
  /\ owner = s => callee = Nil
  /\ want' = [want EXCEPT ![s] = op]
  /\ UNCHANGED <<store, owner, frames, callee, acts, done>>

\* Mutant: the mutex is not taken.
MutantEnters(s, kind) ==
  /\ want[s] # Nil /\ want[s].kind = kind
  /\ want' = [want EXCEPT ![s] = Nil]

\* s has the mutex, or may take it, for the operation it wants.
Enters(s, kind) ==
  /\ want[s] # Nil /\ want[s].kind = kind
  /\ owner \in {Nil, s}
  /\ want' = [want EXCEPT ![s] = Nil]

\* What was done, with this: s did op and got v, and rest are the functions that run
\* around it.
Log(s, op, rest, v) ==
  Append(acts, [by |-> s, op |-> op, depth |-> Len(rest), value |-> v, map |-> store'])

\* op is over and returns v.  The mutex is given back when it was the outermost.
Leaves(s, op, rest, v) ==
  IF rest = <<>>
  THEN /\ owner' = Nil /\ acts' = <<>>
       /\ done' = [by |-> s, acts |-> Log(s, op, rest, v)]
  ELSE acts' = Log(s, op, rest, v) /\ UNCHANGED <<owner, done>>

Get(s) ==
  /\ Enters(s, "get")
  /\ UNCHANGED store
  /\ Leaves(s, want[s], frames, store[want[s].key])
  /\ UNCHANGED <<frames, callee, ops>>

Erase(s) ==
  /\ Enters(s, "erase")
  /\ store' = [store EXCEPT ![want[s].key] = Nil]
  /\ Leaves(s, want[s], frames, store[want[s].key])
  /\ UNCHANGED <<frames, callee, ops>>

Clear(s) ==
  /\ Enters(s, "clear")
  /\ store' = [k \in Keys |-> Nil]
  /\ Leaves(s, want[s], frames, Nil)
  /\ UNCHANGED <<frames, callee, ops>>

\* set without a function.
Set(s) ==
  /\ Enters(s, "set")
  /\ store' = [store EXCEPT ![want[s].key] = want[s].value]
  /\ Leaves(s, want[s], frames, store[want[s].key])
  /\ UNCHANGED <<frames, callee, ops>>

\* set with a function: the old value is read, the function starts.
Merge(s) ==
  /\ Enters(s, "merge")
  /\ owner' = s
  /\ frames' = <<[key |-> want[s].key, old |-> store[want[s].key]]>> \o frames
  /\ UNCHANGED store
  /\ acts' = Log(s, want[s], frames, store[want[s].key])
  /\ UNCHANGED <<callee, done, ops>>

\* s runs the function of a set.
Runs(s) == owner = s /\ frames # <<>> /\ want[s] = Nil /\ callee = Nil

\* The function returns v, or nothing: v is stored over what it may have stored itself.
Return(s, v) ==
  /\ Runs(s)
  /\ store' = [store EXCEPT ![Head(frames).key] = v]
  /\ frames' = Tail(frames)
  /\ Leaves(s, [kind |-> "return", key |-> Head(frames).key, value |-> v], Tail(frames),
            Head(frames).old)
  /\ UNCHANGED <<want, callee, ops>>

\* Mutant: the mutex is not given back.
MutantRaise(s) ==
  /\ Runs(s)
  /\ frames' = Tail(frames)
  /\ UNCHANGED <<store, owner, acts, done, want, callee, ops>>

\* The function fails: nothing is stored, nothing is returned.
Raise(s) ==
  /\ Runs(s)
  /\ UNCHANGED store
  /\ frames' = Tail(frames)
  /\ Leaves(s, [kind |-> "fail", key |-> Head(frames).key], Tail(frames), Nil)
  /\ UNCHANGED <<want, callee, ops>>

\* The function calls a handler of t (lua_rpcall_call), which may use the storage
\* as well before it answers.
Call(s, t) ==
  /\ ops < MaxOps /\ ops' = ops + 1
  /\ Runs(s) /\ t # s
  /\ callee' = t
  /\ UNCHANGED <<store, owner, frames, want, acts, done>>

Answer(t) ==
  /\ callee = t /\ want[t] = Nil
  /\ callee' = Nil
  /\ UNCHANGED <<store, owner, frames, want, acts, done, ops>>

Step(s) ==
  \/ Get(s) \/ Erase(s) \/ Clear(s) \/ Set(s) \/ Merge(s)
  \/ (\E v \in Values \union {Nil} : Return(s, v)) \/ Raise(s)

StoreNext ==
  \E s \in Services :
    \/ Step(s) \/ Answer(s)
    \/ \E op \in Op : Ask(s, op)
    \/ \E t \in Services : Call(s, t)

StoreSpec == StoreInit /\ [][StoreNext]_storageVars

\* A service that may go on does, and a function that runs comes to its end.
StoreFairness ==
  \A s \in Services :
    WF_storageVars(Step(s)) /\ WF_storageVars(Answer(s))

-----------------------------------------------------------------------------
\* An act on the storage: an operation, or the end of a function.
End == [kind : {"return"}, key : Keys, value : Values \union {Nil}]
       \union [kind : {"fail"}, key : Keys]
Act == [by : Services, op : Op \union End, depth : Nat,
        value : Values \union {Nil}, map : [Keys -> Values \union {Nil}]]

\* The variables of the storage are what they are declared to be.
StoreTypeOK ==
  /\ store \in [Keys -> Values \union {Nil}]
  /\ owner \in Services \union {Nil}
  /\ frames \in Seq([key : Keys, old : Values \union {Nil}])
  /\ want \in [Services -> Op \union {Nil}]
  /\ callee \in Services \union {Nil}
  /\ acts \in Seq(Act) /\ done \in [by : Services \union {Nil}, acts : Seq(Act)]
  /\ ops \in 0..MaxOps

\* What is stored, for everybody but the holder of the mutex: what the start of its
\* operation found.
Stored == IF acts = <<>> THEN store ELSE acts[1].map

\* The operation that a service has asked for; for the holder of the mutex it is the
\* one it took it for.
Asked(s) ==
  IF owner = s /\ frames # <<>> THEN [kind |-> "merge", key |-> frames[Len(frames)].key]
  ELSE want[s]

\* Every operation does what was asked and takes effect at once, a set with a function
\* as well: what the function did to the storage happens between the old value it is
\* shown and the value it makes, and nobody else does anything there.
Map == INSTANCE AtomicMap WITH map <- Stored, asked <- [s \in Services |-> Asked(s)]
RefinesMap == Map!Spec

\* The function that runs waits for a service that waits for the mutex.
Deadlock == callee # Nil /\ want[callee] # Nil

\* Whoever has the mutex gives it back, unless its function called a service that
\* uses the storage before it answers.
LockFreed == owner # Nil ~> (owner = Nil \/ Deadlock)
=============================================================================
