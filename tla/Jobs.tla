-------------------------------- MODULE Jobs --------------------------------
(***************************************************************************)
(* Services as jobs: os.start, job:stop and the end of a service           *)
(* (src/src/luaos_state.cpp).                                              *)
(*                                                                         *)
(* A service is a thread with a Lua state and a reactor.  os.start blocks  *)
(* the thread that calls it until the new service waits for the first time *)
(* or has ended.  job:stop, which also runs when the job is collected or   *)
(* the state of its owner is closed, posts a task to the service and       *)
(* blocks until the service has run it, then stops its reactor and joins   *)
(* its thread.  A thread that is blocked does not run its own reactor: a   *)
(* service that calls a blocked one waits for it as well.                  *)
(*                                                                         *)
(* A service stands for one thread: it is started at most once.  Left out: *)
(* what the services do between two calls, failed calls, remote calls of a *)
(* handler (Rpcall), the topic bus (TopicBus), the watchdog.               *)
(***************************************************************************)
EXTENDS Naturals, Sequences, SequencesExt

CONSTANTS
  Services,   \* the services, one thread each
  Root,       \* the service of main
  Callers,    \* the services that call others
  Quitters,   \* the services that call os.exit, return or fail on their own
  MaxCalls,   \* bound: the calls
  None        \* no service

ASSUME JobsAssumption ==
  /\ Root \in Services /\ None \notin Services
  /\ Callers \subseteq Services /\ Quitters \subseteq Services
  /\ MaxCalls \in Nat

VARIABLES
  pc,        \* what the thread of a service does
  at,        \* the service it starts, stops or calls
  parent,    \* the service that started it
  jobs,      \* the jobs of a service that have not been stopped and joined
  status,    \* job->status
  notified,  \* notify_ok: the service has waited
  stopped,   \* its reactor is stopped
  queue,     \* what is posted to its reactor
  woken,     \* the blocked services whose wait is stopped
  shut,      \* the services whose main has returned
  calls,     \* auxiliary: the calls so far
  quit       \* auxiliary: the services that ended on their own

tree == <<parent, jobs>>
life == <<status, shut, quit>>
posts == <<queue, calls>>
vars == <<pc, at, tree, life, posts, notified, stopped, woken>>

\* late: the service was being stopped when this was posted.
Task == [kind : {"drain", "call"}, from : Services, late : BOOLEAN]

Blocking == {"starting", "draining", "calling", "joining"}

Phases == Blocking \union
  {"none", "running", "checked", "halting", "returned", "released", "closing", "gone"}

Init ==
  /\ pc = [s \in Services |-> IF s = Root THEN "running" ELSE "none"]
  /\ at = [s \in Services |-> None]
  /\ parent = [s \in Services |-> None]
  /\ jobs = [s \in Services |-> {}]
  /\ status = [s \in Services |-> "ok"]
  /\ notified = {}
  /\ stopped = {}
  /\ queue = [s \in Services |-> <<>>]
  /\ woken = {}
  /\ shut = {}
  /\ calls = 0
  /\ quit = {}

Goto(s, phase) == pc' = [pc EXCEPT ![s] = phase]

\* The service that waits for the start of s.
Starter(s) == {p \in Services : pc[p] = "starting" /\ at[p] = s}

-----------------------------------------------------------------------------
\* load_execute, the beginning of local_thread.
Start(s, c) ==
  /\ pc[s] = "running" /\ pc[c] = "none"
  /\ pc' = [pc EXCEPT ![s] = "starting", ![c] = "running"]
  /\ at' = [at EXCEPT ![s] = c]
  /\ parent' = [parent EXCEPT ![c] = s]
  /\ jobs' = [jobs EXCEPT ![s] = @ \union {c}]
  /\ UNCHANGED <<life, notified, stopped, posts, woken>>

\* Mutant: the wait of the starter is left alone.
MutantFirstWait(s) ==
  /\ pc[s] = "running" /\ s \notin notified
  /\ notified' = notified \union {s}
  /\ UNCHANGED <<pc, at, tree, life, stopped, posts, woken>>

\* luaos_wait for the first time: the service that starts this one goes on.
FirstWait(s) ==
  /\ pc[s] = "running" /\ s \notin notified
  /\ notified' = notified \union {s}
  /\ woken' = woken \union Starter(s)
  /\ UNCHANGED <<pc, at, tree, life, stopped, posts>>

\* luaos_wait: the reactor runs what is posted next.
Dispatch(s) ==
  /\ pc[s] = "running" /\ s \in notified /\ s \notin stopped
  /\ queue[s] # <<>>
  /\ woken' = woken \union {Head(queue[s]).from}
  /\ queue' = [queue EXCEPT ![s] = Tail(@)]
  /\ UNCHANGED <<pc, at, tree, life, notified, stopped, calls>>

\* The job of s is being stopped: nothing posted now comes before its task.
Ending(s) ==
  \/ s \in stopped
  \/ \E p \in Services : at[p] = s /\ pc[p] \in {"draining", "halting", "joining"}

Post(s, t, kind) ==
  queue' = [queue EXCEPT ![t] =
              Append(@, [kind |-> kind, from |-> s, late |-> Ending(t)])]

\* lua_rpcall_call of a handler of another service, which may have ended.
Call(s, t) ==
  /\ calls < MaxCalls /\ calls' = calls + 1
  /\ pc[s] = "running" /\ t # s /\ pc[t] # "none"
  /\ Post(s, t, "call")
  /\ Goto(s, "calling")
  /\ at' = [at EXCEPT ![s] = t]
  /\ UNCHANGED <<tree, life, notified, stopped, woken>>

-----------------------------------------------------------------------------
\* luaos_exit.
Exit(s) ==
  /\ pc[s] = "running" /\ s \notin stopped
  /\ stopped' = stopped \union {s}
  /\ quit' = quit \union {s}
  /\ UNCHANGED <<pc, at, tree, status, notified, posts, woken, shut>>

\* local_thread: main returns or fails.
Return(s, result) ==
  /\ pc[s] = "running"
  /\ s \in stopped \/ s \in Quitters
  /\ status' = [status EXCEPT ![s] = result]
  /\ quit' = IF s \in stopped THEN quit ELSE quit \union {s}
  /\ shut' = shut \union {s}
  /\ Goto(s, "returned")
  /\ UNCHANGED <<at, tree, notified, stopped, posts, woken>>

\* local_thread: ios->stop().
Release(s) ==
  /\ pc[s] = "returned"
  /\ woken' = woken \union Starter(s)
  /\ Goto(s, "released")
  /\ UNCHANGED <<at, tree, life, notified, stopped, posts>>

\* local_thread: job->ios->stop(), which main does not.  The state is closed
\* when the thread ends.
Shut(s) ==
  /\ pc[s] = "released"
  /\ stopped' = IF s = Root THEN stopped ELSE stopped \union {s}
  /\ Goto(s, "closing")
  /\ UNCHANGED <<at, tree, life, notified, posts, woken>>

\* Mutant: the thread ends and leaves its jobs to themselves.
MutantClosed(s) ==
  /\ pc[s] = "closing"
  /\ Goto(s, "gone")
  /\ UNCHANGED <<at, tree, life, notified, stopped, posts, woken>>

\* luaos_close: lua_close has collected every job.
Closed(s) ==
  /\ pc[s] = "closing" /\ jobs[s] = {}
  /\ Goto(s, "gone")
  /\ UNCHANGED <<at, tree, life, notified, stopped, posts, woken>>

-----------------------------------------------------------------------------
\* Mutant: the reactor is stopped without the task.
MutantStop(s, c) ==
  /\ pc[s] \in {"running", "closing"} /\ c \in jobs[s]
  /\ Goto(s, IF c \in stopped THEN "joining" ELSE "halting")
  /\ at' = [at EXCEPT ![s] = c]
  /\ UNCHANGED <<tree, life, notified, stopped, posts, woken>>

\* luaos_job::stop, called by load_stop, load_stop_gc or lua_close: the checks.
Stop(s, c) ==
  /\ pc[s] \in {"running", "closing"} /\ c \in jobs[s]
  /\ Goto(s, IF c \in stopped THEN "joining"
             ELSE IF status[c] = "ok" THEN "checked" ELSE "halting")
  /\ at' = [at EXCEPT ![s] = c]
  /\ UNCHANGED <<tree, life, notified, stopped, posts, woken>>

\* Mutant: the reactor is stopped first.
MutantDrain(s) ==
  /\ pc[s] = "checked"
  /\ Post(s, at[s], "drain")
  /\ stopped' = stopped \union {at[s]}
  /\ Goto(s, "draining")
  /\ UNCHANGED <<at, tree, life, calls, notified, woken>>

\* luaos_job::stop: ios->post.
Drain(s) ==
  /\ pc[s] = "checked"
  /\ Post(s, at[s], "drain")
  /\ Goto(s, "draining")
  /\ UNCHANGED <<at, tree, life, notified, stopped, woken, calls>>

\* Mutant: the job that is being stopped is forgotten.
MutantResume(s) ==
  /\ pc[s] \in {"starting", "draining", "calling"} /\ s \in woken
  /\ woken' = woken \ {s}
  /\ Goto(s, IF pc[s] = "draining" THEN "halting" ELSE "running")
  /\ at' = [at EXCEPT ![s] = None]
  /\ UNCHANGED <<tree, life, posts, notified, stopped>>

\* The wait of a blocked service is stopped: wait->run() returns.
Resume(s) ==
  /\ pc[s] \in {"starting", "draining", "calling"} /\ s \in woken
  /\ woken' = woken \ {s}
  /\ Goto(s, IF pc[s] = "draining" THEN "halting" ELSE "running")
  /\ at' = IF pc[s] = "draining" THEN at ELSE [at EXCEPT ![s] = None]
  /\ UNCHANGED <<tree, life, notified, stopped, posts>>

\* luaos_job::stop: ios->stop().
Halt(s) ==
  /\ pc[s] = "halting"
  /\ stopped' = stopped \union {at[s]}
  /\ Goto(s, "joining")
  /\ UNCHANGED <<at, tree, life, notified, posts, woken>>

\* What s does after job:stop.
Base(s) == IF s \in shut THEN "closing" ELSE "running"

\* Mutant: the thread is not joined.
MutantJoin(s) ==
  /\ pc[s] = "joining"
  /\ jobs' = [jobs EXCEPT ![s] = @ \ {at[s]}]
  /\ Goto(s, Base(s))
  /\ at' = [at EXCEPT ![s] = None]
  /\ UNCHANGED <<parent, life, notified, stopped, posts, woken>>

\* luaos_job::stop: thread->join().
Join(s) ==
  /\ pc[s] = "joining" /\ pc[at[s]] = "gone"
  /\ jobs' = [jobs EXCEPT ![s] = @ \ {at[s]}]
  /\ Goto(s, Base(s))
  /\ at' = [at EXCEPT ![s] = None]
  /\ UNCHANGED <<parent, life, notified, stopped, posts, woken>>

-----------------------------------------------------------------------------
Next ==
  \/ \E s, c \in Services : \/ Start(s, c)
                            \/ Stop(s, c)
                            \/ (s \in Callers /\ Call(s, c))
  \/ \E s \in Services :
       \/ FirstWait(s) \/ Dispatch(s)
       \/ (s \in Quitters /\ Exit(s)) \/ (\E r \in {"ok", "failed"} : Return(s, r))
       \/ Release(s) \/ Shut(s) \/ Closed(s)
       \/ Drain(s) \/ Resume(s) \/ Halt(s) \/ Join(s)

Spec == Init /\ [][Next]_vars

\* A thread goes on with what it does in native code, its Lua code comes back to
\* os.wait and returns from main once the reactor is stopped, and lua_close
\* collects every job.
FairSpec ==
  /\ Spec
  /\ \A s \in Services :
       /\ WF_vars(FirstWait(s)) /\ WF_vars(Dispatch(s))
       /\ WF_vars(s \in stopped /\ \E r \in {"ok", "failed"} : Return(s, r))
       /\ WF_vars(Release(s)) /\ WF_vars(Shut(s)) /\ WF_vars(Closed(s))
       /\ WF_vars(Drain(s)) /\ WF_vars(Resume(s)) /\ WF_vars(Halt(s)) /\ WF_vars(Join(s))
       /\ WF_vars(s \in shut /\ \E c \in Services : Stop(s, c))

-----------------------------------------------------------------------------
\* Threads, jobs and tasks are what they are declared to be.
TypeOK ==
  /\ pc \in [Services -> Phases]
  /\ at \in [Services -> Services \union {None}]
  /\ parent \in [Services -> Services \union {None}]
  /\ jobs \in [Services -> SUBSET Services]
  /\ status \in [Services -> {"ok", "failed"}]
  /\ \A S \in {notified, stopped, woken, shut, quit} : S \subseteq Services
  /\ queue \in [Services -> Seq(Task)]
  /\ calls \in 0..MaxCalls

\* The thread of a service uses the luaos_job in the state of its owner: the
\* owner gives it up only when the thread has ended, also when the owner ends.
JobOutlivesThread ==
  \A s, c \in Services :
    parent[c] = s /\ pc[c] # "gone" => pc[s] # "gone" /\ c \in jobs[s]

\* The task of job:stop is what makes it graceful: a service that does not end on
\* its own has run, when its reactor is stopped, all that was posted to it before
\* it was being stopped.
StopIsGraceful ==
  \A s \in Services \ quit :
    s \in stopped => \A i \in DOMAIN queue[s] : queue[s][i].late

Blocked(s) ==
  /\ pc[s] \in Blocking /\ s \notin woken
  /\ pc[s] = "joining" => pc[at[s]] # "gone"

\* What s waits for is in a queue that no reactor runs any more.
Lost(s) ==
  /\ Blocked(s) /\ pc[s] \in {"draining", "calling"}
  /\ at[s] \in stopped \/ at[s] \in shut

\* s is in a chain of blocked services that closes or ends in a lost task.
Stuck(s) ==
  \E S \in SUBSET Services :
    /\ s \in S
    /\ \A x \in S : Lost(x) \/ (Blocked(x) /\ at[x] \in S)

\* Without a call and without a service that ends on its own nobody gets stuck:
\* the services that start and stop each other form a tree.
StuckHasCause ==
  (\E s \in Services : Stuck(s)) =>
    quit # {} \/ (\E s \in Services : pc[s] = "calling")

\* A service that starts, stops or calls another goes on, unless it is stuck.
BlockEnds == \A s \in Services : []<>(~Blocked(s) \/ Stuck(s))

\* When main has returned the process ends, with every service in it, unless main
\* is stuck.
ProcessEnds ==
  Root \in shut ~>
    \/ Stuck(Root)
    \/ \A s \in Services : pc[s] \in {"none", "gone"}
=============================================================================
