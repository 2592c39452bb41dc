----------------------------- MODULE JobsProofs -----------------------------
(***************************************************************************)
(* Proofs about services as jobs, for any set of services.                 *)
(*                                                                         *)
(* First the safety properties; then who waits for whom, as far as it is   *)
(* safety: of those who wait in a chain one goes on (WaitedForGoOn), and   *)
(* who is stuck stays so (StuckForEver).                                   *)
(***************************************************************************)
EXTENDS Jobs, SequenceTheorems, TLAPS

-----------------------------------------------------------------------------
(* The inductive invariant. *)

Waiting == {"starting", "draining", "calling"}

\* A thread that works on another service knows which.  Only a thread that waits
\* is woken, and a thread that has left main counts as shut.
Threads ==
  /\ \A s \in Services :
       pc[s] \in Waiting \union {"checked", "halting", "joining"} => at[s] \in Services
  /\ \A s \in woken : pc[s] \in Waiting
  /\ \A s \in Services : pc[s] \in {"returned", "released"} => s \in shut

\* A service that has left main was stopped or ended on its own; only one that has
\* left main has failed.
Ended ==
  /\ shut \subseteq stopped \union quit
  /\ \A s \in Services : status[s] = "failed" => s \in shut

\* A thread posts one task at a time, and is not woken before the task is run.
Posted(t) ==
  \A i \in DOMAIN queue[t] :
    /\ pc[queue[t][i].from] \in {"draining", "calling"}
    /\ at[queue[t][i].from] = t
    /\ queue[t][i].from \notin woken
    /\ \A j \in DOMAIN queue[t] : queue[t][j].from = queue[t][i].from => j = i

AllLate(t) == \A i \in DOMAIN queue[t] : queue[t][i].late

\* What came after the task of p was posted while the service was being stopped.
LateBehind(p, t) ==
  \E i \in DOMAIN queue[t] :
    /\ queue[t][i].from = p
    /\ \A j \in DOMAIN queue[t] : i < j => queue[t][j].late

\* How far the stop of a service has come.
Draining(p) == pc[p] = "draining" => IF p \in woken THEN AllLate(at[p]) ELSE LateBehind(p, at[p])
Halting(p) == pc[p] = "halting" => at[p] \in quit \/ AllLate(at[p])

Graceful ==
  /\ \A t \in Services : Posted(t)
  /\ \A p \in Services : Draining(p) /\ Halting(p)
  /\ StopIsGraceful

\* The jobs of a service are its children, and it works on one of them.
Family ==
  /\ \A c \in Services : parent[c] # None => pc[c] # "none" /\ pc[parent[c]] # "none"
  /\ \A s \in Services : \A c \in jobs[s] : parent[c] = s
  /\ \A s \in Services :
       pc[s] \in {"starting", "checked", "draining", "halting", "joining"} => at[s] \in jobs[s]

\* Only its owner stops a service that does not end on its own.
Owned ==
  \A c \in stopped \ quit :
    /\ parent[c] # None
    /\ c \in jobs[parent[c]] => pc[parent[c]] = "joining" /\ at[parent[c]] = c

\* There is neither a cycle of parents nor an endless line of children.
Grounded ==
  \A S \in SUBSET Services :
    S # {} => \E s \in S : \A c \in S : parent[c] # s

IInv ==
  /\ TypeOK /\ JobOutlivesThread /\ Threads /\ Ended /\ Graceful
  /\ Family /\ Owned /\ Grounded

-----------------------------------------------------------------------------
(* Every action, with the services that take part. *)

Step(s, c) ==
  \/ Start(s, c) \/ Stop(s, c) \/ Call(s, c)
  \/ FirstWait(s) \/ Dispatch(s) \/ Exit(s) \/ (\E r \in {"ok", "failed"} : Return(s, r))
  \/ Release(s) \/ Shut(s) \/ Closed(s)
  \/ Drain(s) \/ Resume(s) \/ Halt(s) \/ Join(s)

LEMMA NextIsStep ==
  ASSUME Next
  PROVE  \E s, c \in Services : Step(s, c)
<1>1. CASE \E s, c \in Services : \/ Start(s, c)
                                \/ Stop(s, c)
                                \/ (s \in Callers /\ Call(s, c))
  BY <1>1 DEF Step
<1>2. CASE \E s \in Services :
             \/ FirstWait(s) \/ Dispatch(s)
             \/ (s \in Quitters /\ Exit(s)) \/ (\E r \in {"ok", "failed"} : Return(s, r))
             \/ Release(s) \/ Shut(s) \/ Closed(s)
             \/ Drain(s) \/ Resume(s) \/ Halt(s) \/ Join(s)
  <2>1. PICK s \in Services :
             \/ FirstWait(s) \/ Dispatch(s)
             \/ Exit(s) \/ (\E r \in {"ok", "failed"} : Return(s, r))
             \/ Release(s) \/ Shut(s) \/ Closed(s)
             \/ Drain(s) \/ Resume(s) \/ Halt(s) \/ Join(s)
    BY <1>2
  <2>2. Step(s, s)
    BY <2>1 DEF Step
  <2>3. QED
    BY <2>2
<1>3. QED
  BY <1>1, <1>2 DEF Next

-----------------------------------------------------------------------------
(* Type correctness. *)

\* A task that is posted.
LEMMA PostIsTyped ==
  ASSUME TypeOK, NEW s \in Services, NEW t \in Services, NEW kind \in {"drain", "call"},
         Post(s, t, kind)
  PROVE  queue' \in [Services -> Seq(Task)]
<1> PICK m : m = [kind |-> kind, from |-> s, late |-> Ending(t)]
  OBVIOUS
<1>1. Ending(t) \in BOOLEAN
  BY DEF Ending
<1>2. m \in Task /\ queue[t] \in Seq(Task)
  BY <1>1 DEF Task, TypeOK
<1>3. Append(queue[t], m) \in Seq(Task)
  BY <1>2, AppendProperties
<1>4. queue' = [queue EXCEPT ![t] = Append(queue[t], m)]
  BY DEF Post
<1>5. QED
  BY <1>3, <1>4 DEF TypeOK

\* The task that is run, and those that are left.
LEMMA DispatchTask ==
  ASSUME TypeOK, NEW s \in Services, Dispatch(s)
  PROVE  \E m \in Task, n \in Nat :
           /\ DOMAIN queue[s] = 1..n + 1 /\ m = queue[s][1]
           /\ woken' = woken \union {m.from}
           /\ queue' \in [Services -> Seq(Task)]
           /\ DOMAIN queue'[s] = 1..n
           /\ \A i \in 1..n : queue'[s][i] = queue[s][i + 1]
           /\ \A t \in Services : t # s => queue'[t] = queue[t]
<1> PICK q : q = queue[s]
  OBVIOUS
<1> PICK p : p = Tail(q)
  OBVIOUS
<1> PICK m : m = Head(q)
  OBVIOUS
<1>1. q \in Seq(Task) /\ q # <<>>
  BY DEF Dispatch, TypeOK
<1>2. m \in Task /\ p \in Seq(Task)
  BY <1>1, HeadTailProperties
<1>3. Len(q) \in Nat \ {0}
  BY <1>1, LenProperties, EmptySeq
<1>4. PICK n \in Nat : n + 1 = Len(q)
  <2>1. Len(q) - 1 \in Nat /\ (Len(q) - 1) + 1 = Len(q)
    BY <1>3
  <2>2. QED
    BY <2>1
<1>5. /\ DOMAIN q = 1..n + 1 /\ DOMAIN p = 1..n /\ m = q[1]
      /\ \A i \in 1..n : p[i] = q[i + 1]
  BY <1>1, <1>3, <1>4, HeadTailProperties, LenProperties
<1>6. /\ queue' = [queue EXCEPT ![s] = p]
      /\ woken' = woken \union {m.from}
  BY DEF Dispatch
<1>7. queue'[s] = p /\ queue' \in [Services -> Seq(Task)]
      /\ \A t \in Services : t # s => queue'[t] = queue[t]
  BY <1>2, <1>6 DEF TypeOK
<1>8. QED
  BY <1>2, <1>5, <1>6, <1>7

LEMMA NextTypes == TypeOK /\ Threads /\ [Next]_vars => TypeOK'
<1> SUFFICES ASSUME TypeOK, Threads, [Next]_vars PROVE TypeOK'
  OBVIOUS
<1> USE DEF TypeOK, Phases, Blocking, tree, life, posts, Goto
<1>1. CASE UNCHANGED vars
  BY <1>1 DEF vars
<1>2. CASE Next
  <2>1. PICK s \in Services, c \in Services : Step(s, c)
    BY <1>2, NextIsStep
  <2>2. CASE Start(s, c)
    BY <2>2 DEF Start
  <2>3. CASE Stop(s, c)
    BY <2>3 DEF Stop
  <2>4. CASE Call(s, c)
    BY <2>4, PostIsTyped, JobsAssumption DEF Call
  <2>5. CASE FirstWait(s)
    BY <2>5 DEF FirstWait, Starter
  <2>6. CASE Dispatch(s)
    <3>1. PICK m \in Task : /\ queue' \in [Services -> Seq(Task)]
                            /\ woken' = woken \union {m.from}
      BY <2>6, DispatchTask
    <3>2. m.from \in Services
      BY DEF Task
    <3>3. QED
      BY <2>6, <3>1, <3>2 DEF Dispatch
  <2>7. CASE Exit(s)
    BY <2>7 DEF Exit
  <2>8. CASE \E r \in {"ok", "failed"} : Return(s, r)
    BY <2>8 DEF Return
  <2>9. CASE Release(s)
    BY <2>9 DEF Release, Starter
  <2>10. CASE Shut(s)
    BY <2>10 DEF Shut
  <2>11. CASE Closed(s)
    BY <2>11 DEF Closed
  <2>12. CASE Drain(s)
    BY <2>12, PostIsTyped DEF Drain, Threads
  <2>13. CASE Resume(s)
    BY <2>13 DEF Resume
  <2>14. CASE Halt(s)
    BY <2>14 DEF Halt, Threads
  <2>15. CASE Join(s)
    BY <2>15 DEF Join, Base
  <2>16. QED
    BY <2>1, <2>2, <2>3, <2>4, <2>5, <2>6, <2>7, <2>8, <2>9, <2>10, <2>11, <2>12, <2>13,
       <2>14, <2>15 DEF Step
<1>3. QED
  BY <1>1, <1>2

-----------------------------------------------------------------------------
(* Threads, the ends of services, and the tree of jobs. *)

LEMMA NextOutlives == TypeOK /\ JobOutlivesThread /\ [Next]_vars => JobOutlivesThread'
<1> SUFFICES ASSUME TypeOK, JobOutlivesThread, [Next]_vars PROVE JobOutlivesThread'
  OBVIOUS
<1> USE DEF TypeOK, Phases, Blocking, tree, life, posts, Goto, JobOutlivesThread
<1>1. CASE UNCHANGED vars
  BY <1>1 DEF vars
<1>2. CASE Next
  <2>1. PICK s \in Services, c \in Services : Step(s, c)
    BY <1>2, NextIsStep
  <2>2. CASE Start(s, c)
    BY <2>2 DEF Start
  <2>3. CASE Stop(s, c)
    BY <2>3 DEF Stop
  <2>4. CASE Call(s, c)
    BY <2>4 DEF Call
  <2>5. CASE FirstWait(s)
    BY <2>5 DEF FirstWait
  <2>6. CASE Dispatch(s)
    BY <2>6 DEF Dispatch
  <2>7. CASE Exit(s)
    BY <2>7 DEF Exit
  <2>8. CASE \E r \in {"ok", "failed"} : Return(s, r)
    BY <2>8 DEF Return
  <2>9. CASE Release(s)
    BY <2>9 DEF Release
  <2>10. CASE Shut(s)
    BY <2>10 DEF Shut
  <2>11. CASE Closed(s)
    BY <2>11 DEF Closed
  <2>12. CASE Drain(s)
    BY <2>12 DEF Drain
  <2>13. CASE Resume(s)
    BY <2>13 DEF Resume
  <2>14. CASE Halt(s)
    BY <2>14 DEF Halt
  <2>15. CASE Join(s)
    BY <2>15 DEF Join, Base
  <2>16. QED
    BY <2>1, <2>2, <2>3, <2>4, <2>5, <2>6, <2>7, <2>8, <2>9, <2>10, <2>11, <2>12,
       <2>13, <2>14, <2>15 DEF Step
<1>3. QED
  BY <1>1, <1>2

LEMMA NextThreads == TypeOK /\ Threads /\ Graceful /\ [Next]_vars => Threads'
<1> SUFFICES ASSUME TypeOK, Threads, Graceful, [Next]_vars PROVE Threads'
  OBVIOUS
<1> USE DEF TypeOK, Phases, Blocking, tree, life, posts, Goto, Threads, Waiting
<1>1. CASE UNCHANGED vars
  BY <1>1 DEF vars
<1>2. CASE Next
  <2>1. PICK s \in Services, c \in Services : Step(s, c)
    BY <1>2, NextIsStep
  <2>2. CASE Start(s, c)
    BY <2>2 DEF Start
  <2>3. CASE Stop(s, c)
    BY <2>3 DEF Stop
  <2>4. CASE Call(s, c)
    BY <2>4 DEF Call
  <2>5. CASE FirstWait(s)
    BY <2>5 DEF FirstWait, Starter
  <2>6. CASE Dispatch(s)
    <3>1. PICK m \in Task, n \in Nat : /\ DOMAIN queue[s] = 1..n + 1 /\ m = queue[s][1]
                                      /\ woken' = woken \union {m.from}
      BY <2>6, DispatchTask
    <3>2. 1 \in DOMAIN queue[s]
      BY <3>1
    <3>3. pc[m.from] \in {"draining", "calling"}
      BY <3>1, <3>2 DEF Graceful, Posted
    <3>4. QED
      BY <2>6, <3>1, <3>3 DEF Dispatch
  <2>7. CASE Exit(s)
    BY <2>7 DEF Exit
  <2>8. CASE \E r \in {"ok", "failed"} : Return(s, r)
    BY <2>8 DEF Return
  <2>9. CASE Release(s)
    BY <2>9 DEF Release, Starter
  <2>10. CASE Shut(s)
    BY <2>10 DEF Shut
  <2>11. CASE Closed(s)
    BY <2>11 DEF Closed
  <2>12. CASE Drain(s)
    BY <2>12 DEF Drain
  <2>13. CASE Resume(s)
    BY <2>13 DEF Resume
  <2>14. CASE Halt(s)
    BY <2>14 DEF Halt
  <2>15. CASE Join(s)
    BY <2>15 DEF Join, Base
  <2>16. QED
    BY <2>1, <2>2, <2>3, <2>4, <2>5, <2>6, <2>7, <2>8, <2>9, <2>10, <2>11, <2>12,
       <2>13, <2>14, <2>15 DEF Step
<1>3. QED
  BY <1>1, <1>2

LEMMA NextEnded == TypeOK /\ Threads /\ Ended /\ [Next]_vars => Ended'
<1> SUFFICES ASSUME TypeOK, Threads, Ended, [Next]_vars PROVE Ended'
  OBVIOUS
<1> USE DEF TypeOK, Phases, Blocking, tree, life, posts, Goto, Threads, Ended
<1>1. CASE UNCHANGED vars
  BY <1>1 DEF vars
<1>2. CASE Next
  <2>1. PICK s \in Services, c \in Services : Step(s, c)
    BY <1>2, NextIsStep
  <2>2. CASE Start(s, c)
    BY <2>2 DEF Start
  <2>3. CASE Stop(s, c)
    BY <2>3 DEF Stop
  <2>4. CASE Call(s, c)
    BY <2>4 DEF Call
  <2>5. CASE FirstWait(s)
    BY <2>5 DEF FirstWait
  <2>6. CASE Dispatch(s)
    BY <2>6 DEF Dispatch
  <2>7. CASE Exit(s)
    BY <2>7 DEF Exit
  <2>8. CASE \E r \in {"ok", "failed"} : Return(s, r)
    BY <2>8 DEF Return
  <2>9. CASE Release(s)
    BY <2>9 DEF Release
  <2>10. CASE Shut(s)
    BY <2>10 DEF Shut
  <2>11. CASE Closed(s)
    BY <2>11 DEF Closed
  <2>12. CASE Drain(s)
    BY <2>12 DEF Drain
  <2>13. CASE Resume(s)
    BY <2>13 DEF Resume
  <2>14. CASE Halt(s)
    BY <2>14 DEF Halt
  <2>15. CASE Join(s)
    BY <2>15 DEF Join
  <2>16. QED
    BY <2>1, <2>2, <2>3, <2>4, <2>5, <2>6, <2>7, <2>8, <2>9, <2>10, <2>11, <2>12,
       <2>13, <2>14, <2>15 DEF Step
<1>3. QED
  BY <1>1, <1>2

LEMMA NextFamily == TypeOK /\ Family /\ [Next]_vars => Family'
<1> SUFFICES ASSUME TypeOK, Family, [Next]_vars PROVE Family'
  OBVIOUS
<1> USE DEF TypeOK, Phases, Blocking, tree, life, posts, Goto, Family
<1>1. CASE UNCHANGED vars
  BY <1>1 DEF vars
<1>2. CASE Next
  <2>1. PICK s \in Services, c \in Services : Step(s, c)
    BY <1>2, NextIsStep
  <2>2. CASE Start(s, c)
    BY <2>2, JobsAssumption DEF Start
  <2>3. CASE Stop(s, c)
    BY <2>3 DEF Stop
  <2>4. CASE Call(s, c)
    BY <2>4 DEF Call
  <2>5. CASE FirstWait(s)
    BY <2>5 DEF FirstWait
  <2>6. CASE Dispatch(s)
    BY <2>6 DEF Dispatch
  <2>7. CASE Exit(s)
    BY <2>7 DEF Exit
  <2>8. CASE \E r \in {"ok", "failed"} : Return(s, r)
    BY <2>8 DEF Return
  <2>9. CASE Release(s)
    BY <2>9 DEF Release
  <2>10. CASE Shut(s)
    BY <2>10 DEF Shut
  <2>11. CASE Closed(s)
    BY <2>11 DEF Closed
  <2>12. CASE Drain(s)
    BY <2>12 DEF Drain
  <2>13. CASE Resume(s)
    BY <2>13 DEF Resume
  <2>14. CASE Halt(s)
    BY <2>14 DEF Halt
  <2>15. CASE Join(s)
    BY <2>15 DEF Join, Base
  <2>16. QED
    BY <2>1, <2>2, <2>3, <2>4, <2>5, <2>6, <2>7, <2>8, <2>9, <2>10, <2>11, <2>12,
       <2>13, <2>14, <2>15 DEF Step
<1>3. QED
  BY <1>1, <1>2

LEMMA NextOwned == TypeOK /\ Threads /\ Ended /\ Family /\ Owned /\ [Next]_vars => Owned'
<1> SUFFICES ASSUME TypeOK, Threads, Ended, Family, Owned, [Next]_vars PROVE Owned'
  OBVIOUS
<1> USE DEF TypeOK, Phases, Blocking, tree, life, posts, Goto, Family, Owned, Ended, Threads
<1>1. CASE UNCHANGED vars
  BY <1>1 DEF vars
<1>2. CASE Next
  <2>1. PICK s \in Services, c \in Services : Step(s, c)
    BY <1>2, NextIsStep
  <2>2. CASE Start(s, c)
    BY <2>2, JobsAssumption DEF Start
  <2>3. CASE Stop(s, c)
    BY <2>3 DEF Stop
  <2>4. CASE Call(s, c)
    BY <2>4 DEF Call
  <2>5. CASE FirstWait(s)
    BY <2>5 DEF FirstWait
  <2>6. CASE Dispatch(s)
    BY <2>6 DEF Dispatch
  <2>7. CASE Exit(s)
    BY <2>7 DEF Exit
  <2>8. CASE \E r \in {"ok", "failed"} : Return(s, r)
    BY <2>8 DEF Return
  <2>9. CASE Release(s)
    BY <2>9 DEF Release
  <2>10. CASE Shut(s)
    BY <2>10 DEF Shut
  <2>11. CASE Closed(s)
    BY <2>11 DEF Closed
  <2>12. CASE Drain(s)
    BY <2>12 DEF Drain
  <2>13. CASE Resume(s)
    BY <2>13 DEF Resume
  <2>14. CASE Halt(s)
    <3> SUFFICES ASSUME NEW d \in stopped' \ quit'
                 PROVE  /\ parent'[d] # None
                        /\ d \in jobs'[parent'[d]] =>
                             pc'[parent'[d]] = "joining" /\ at'[parent'[d]] = d
      BY DEF Owned
    <3>1. /\ pc[s] = "halting" /\ pc' = [pc EXCEPT ![s] = "joining"]
          /\ stopped' = stopped \union {at[s]}
          /\ UNCHANGED <<at, parent, jobs, quit>>
      BY <2>14 DEF Halt
    <3>2. CASE d = at[s]
      <4>1. at[s] \in jobs[s]
        BY <3>1
      <4>2. parent[d] = s /\ s # None
        BY <3>2, <4>1, JobsAssumption
      <4>3. QED
        BY <3>1, <3>2, <4>2
    <3>3. CASE d \in stopped
      <4>1. /\ parent[d] # None
            /\ d \in jobs[parent[d]] => pc[parent[d]] = "joining" /\ at[parent[d]] = d
        BY <3>1, <3>3
      <4>2. QED
        BY <3>1, <4>1
    <3>4. QED
      BY <3>1, <3>2, <3>3
  <2>15. CASE Join(s)
    BY <2>15 DEF Join, Base
  <2>16. QED
    BY <2>1, <2>2, <2>3, <2>4, <2>5, <2>6, <2>7, <2>8, <2>9, <2>10, <2>11, <2>12,
       <2>13, <2>14, <2>15 DEF Step
<1>3. QED
  BY <1>1, <1>2

LEMMA NextGrounded == TypeOK /\ Family /\ Grounded /\ [Next]_vars => Grounded'
<1> SUFFICES ASSUME TypeOK, Family, Grounded, [Next]_vars,
                    NEW S \in SUBSET Services, S # {}
             PROVE  \E x \in S : \A d \in S : parent'[d] # x
  BY DEF Grounded
<1>1. ASSUME NEW s \in Services, NEW c \in Services, Start(s, c)
      PROVE  \E x \in S : \A d \in S : parent'[d] # x
  <2>1. /\ pc[s] = "running" /\ pc[c] = "none"
        /\ parent' = [parent EXCEPT ![c] = s]
    BY <1>1 DEF Start
  <2>2. \A d \in Services : parent'[d] # c
    BY <2>1, JobsAssumption DEF Family, TypeOK
  <2>3. CASE c \in S
    BY <2>2, <2>3
  <2>4. CASE c \notin S
    <3>1. \A d \in S : parent'[d] = parent[d]
      BY <2>1, <2>4 DEF TypeOK
    <3>2. QED
      BY <3>1 DEF Grounded
  <2>5. QED
    BY <2>3, <2>4
<1>2. CASE UNCHANGED parent
  BY <1>2 DEF Grounded
<1>3. UNCHANGED parent \/ \E s, c \in Services : Start(s, c)
  <2>1. CASE UNCHANGED vars
    BY <2>1 DEF vars, tree
  <2>2. CASE Next
    <3>1. PICK s \in Services, c \in Services : Step(s, c)
      BY <2>2, NextIsStep
    <3>2. QED
      BY <3>1 DEF Step, Stop, Call, FirstWait, Dispatch, Exit, Return, Release, Shut, Closed,
         Drain, Resume, Halt, Join, tree
  <2>3. QED
    BY <2>1, <2>2
<1>4. QED
  BY <1>1, <1>2, <1>3

\* While nobody calls or ends on its own, a blocked thread waits for a child whose
\* reactor runs, and the last of a line of blocked threads for one that is not.
LEMMA NobodyStuck ==
  ASSUME TypeOK, Ended, Family, Owned, Grounded,
         quit = {}, \A s \in Services : pc[s] # "calling"
  PROVE  \A s \in Services : ~Stuck(s)
<1> SUFFICES ASSUME NEW S \in SUBSET Services, S # {},
                    \A x \in S : Lost(x) \/ (Blocked(x) /\ at[x] \in S)
             PROVE  FALSE
  BY DEF Stuck
<1>1. ASSUME NEW x \in S PROVE parent[at[x]] = x
  <2>1. pc[x] \in {"starting", "draining", "joining"}
    BY DEF Lost, Blocked, Blocking
  <2>2. QED
    BY <2>1 DEF Family
<1>2. ASSUME NEW x \in S, Lost(x) PROVE FALSE
  <2>1. pc[x] = "draining" /\ (at[x] \in stopped \/ at[x] \in shut)
    BY <1>2 DEF Lost
  <2>2. at[x] \in stopped \ quit /\ at[x] \in jobs[x]
    BY <2>1 DEF Ended, Family
  <2>3. pc[x] = "joining"
    BY <1>1, <2>2 DEF Owned
  <2>4. QED
    BY <2>1, <2>3
<1>3. PICK x \in S : \A c \in S : parent[c] # x
  BY DEF Grounded
<1>4. at[x] \in S
  BY <1>2
<1>5. QED
  BY <1>1, <1>3, <1>4

-----------------------------------------------------------------------------
(* The graceful stop. *)

LEMMA TasksAreTyped ==
  ASSUME TypeOK, NEW t \in Services, NEW i \in DOMAIN queue[t]
  PROVE  queue[t][i] \in Task /\ queue[t][i].from \in Services
<1>1. queue[t] \in Seq(Task)
  BY DEF TypeOK
<1>2. queue[t][i] \in Task
  BY <1>1, ElementOfSeq, LenProperties
<1>3. QED
  BY <1>2 DEF Task

\* A step that posts nothing and runs nothing: a thread whose task waits, or that
\* drains a job, goes on doing so; a job is halted or stopped when nothing waits for
\* it that is not late, or when it ended on its own.
Quiet ==
  /\ UNCHANGED queue /\ quit \subseteq quit' /\ stopped' \subseteq Services
  /\ \A f \in Services : pc[f] \in {"draining", "calling"} /\ f \notin woken =>
       pc'[f] = pc[f] /\ at'[f] = at[f] /\ f \notin woken'
  /\ \A p \in Services : pc'[p] = "draining" =>
       pc[p] = "draining" /\ at'[p] = at[p] /\ (p \in woken' <=> p \in woken)
  /\ \A p \in Services : pc'[p] = "halting" =>
       \/ pc[p] = "halting" /\ at'[p] = at[p]
       \/ at'[p] \in quit'
       \/ AllLate(at'[p])
  /\ \A c \in stopped' \ quit' : c \in stopped \/ AllLate(c)

LEMMA QuietGraceful ==
  ASSUME TypeOK, Graceful, Quiet
  PROVE  Graceful'
<1> USE DEF Quiet
<1>1. ASSUME NEW t \in Services PROVE Posted(t)'
  <2>1. Posted(t) /\ \A i \in DOMAIN queue[t] : queue[t][i].from \in Services
    BY TasksAreTyped DEF Graceful
  <2>2. QED
    BY <2>1 DEF Posted
<1>2. ASSUME NEW p \in Services PROVE Draining(p)'
  BY DEF Graceful, Draining, AllLate, LateBehind
<1>3. ASSUME NEW p \in Services PROVE Halting(p)'
  BY DEF Graceful, Halting, AllLate
<1>4. StopIsGraceful'
  BY DEF Graceful, StopIsGraceful, AllLate
<1>5. QED
  BY <1>1, <1>2, <1>3, <1>4 DEF Graceful

\* A service whose job is being stopped or halted is ending.
LEMMA StoppingIsEnding ==
  ASSUME NEW p \in Services, pc[p] \in {"draining", "halting"}
  PROVE  Ending(at[p])
BY DEF Ending

\* A task is posted to t by s, which then waits.
LEMMA PostGraceful ==
  ASSUME TypeOK, Threads, Graceful, NEW s \in Services, NEW t \in Services, NEW kind,
         Post(s, t, kind), pc[s] \in {"running", "checked"},
         NEW phase \in {"draining", "calling"}, pc' = [pc EXCEPT ![s] = phase],
         at'[s] = t, \A p \in Services \ {s} : at'[p] = at[p],
         UNCHANGED <<woken, stopped, quit>>
  PROVE  Graceful'
<1> PICK m : m = [kind |-> kind, from |-> s, late |-> Ending(t)]
  OBVIOUS
<1> PICK n \in Nat : n = Len(queue[t])
  BY LenProperties DEF TypeOK
<1>1. /\ DOMAIN queue[t] = 1..n /\ DOMAIN queue'[t] = 1..n + 1
      /\ queue'[t][n + 1] = m
      /\ \A i \in 1..n : queue'[t][i] = queue[t][i]
      /\ \A t1 \in Services : t1 # t => queue'[t1] = queue[t1]
  <2> PICK q : q = queue[t]
    OBVIOUS
  <2>1. q \in Seq(Task) /\ n = Len(q)
    BY DEF TypeOK
  <2> PICK p : p = Append(q, m)
    OBVIOUS
  <2>2. /\ DOMAIN q = 1..n /\ DOMAIN p = 1..n + 1 /\ p[n + 1] = m
        /\ \A i \in 1..n : p[i] = q[i]
    BY <2>1, AppendProperties, LenProperties
  <2>3. queue' = [queue EXCEPT ![t] = p]
    BY DEF Post
  <2>4. queue'[t] = p /\ \A t1 \in Services : t1 # t => queue'[t1] = queue[t1]
    BY <2>3 DEF TypeOK
  <2>5. QED
    BY <2>2, <2>4
<1>2. m.from = s /\ m.late = Ending(t)
  OBVIOUS
<1>3. s \notin woken /\ pc'[s] = phase /\ \A p \in Services \ {s} : pc'[p] = pc[p]
  BY DEF Threads, Waiting, TypeOK
<1>4. ASSUME NEW t1 \in Services, NEW i \in DOMAIN queue[t1]
      PROVE  queue[t1][i].from \in Services \ {s}
  BY <1>4, TasksAreTyped DEF Graceful, Posted
<1>5. ASSUME NEW t1 \in Services PROVE Posted(t1)'
  <2>1. Posted(t1)
    BY DEF Graceful
  <2>2. CASE t1 = t
    <3> SUFFICES ASSUME NEW i \in 1..n + 1
                 PROVE  /\ pc'[queue'[t][i].from] \in {"draining", "calling"}
                        /\ at'[queue'[t][i].from] = t
                        /\ queue'[t][i].from \notin woken'
                        /\ \A j \in 1..n + 1 : queue'[t][j].from = queue'[t][i].from => j = i
      BY <1>1, <2>2 DEF Posted
    <3>1. CASE i \in 1..n
      <4>1. queue'[t][i].from \in Services \ {s} /\ queue'[t][i] = queue[t][i]
        BY <1>1, <1>4, <3>1
      <4>2. /\ pc[queue[t][i].from] \in {"draining", "calling"}
            /\ at[queue[t][i].from] = t
            /\ queue[t][i].from \notin woken
            /\ \A j \in 1..n : queue[t][j].from = queue[t][i].from => j = i
        BY <1>1, <2>1, <2>2, <3>1 DEF Posted
      <4>3. \A j \in 1..n + 1 : j \in 1..n \/ j = n + 1
        OBVIOUS
      <4>4. QED
        BY <1>1, <1>2, <1>3, <4>1, <4>2, <4>3
    <3>2. CASE i = n + 1
      <4>1. \A j \in 1..n + 1 : j # i => queue'[t][j].from # s
        BY <1>1, <1>4, <3>2
      <4>2. QED
        BY <1>1, <1>2, <1>3, <3>2, <4>1
    <3>3. QED
      BY <3>1, <3>2
  <2>3. CASE t1 # t
    BY <1>1, <1>3, <1>4, <2>1, <2>3 DEF Posted
  <2>4. QED
    BY <2>2, <2>3
<1>6. ASSUME NEW t1 \in Services, AllLate(t1), t1 = t => Ending(t)
      PROVE  AllLate(t1)'
  <2>1. \A j \in 1..n + 1 : j \in 1..n \/ j = n + 1
    OBVIOUS
  <2>2. QED
    BY <1>1, <1>2, <1>6, <2>1 DEF AllLate
<1>7. ASSUME NEW p \in Services, NEW t1 \in Services, LateBehind(p, t1), t1 = t => Ending(t)
      PROVE  LateBehind(p, t1)'
  <2>1. PICK i \in DOMAIN queue[t1] : /\ queue[t1][i].from = p
                                      /\ \A j \in DOMAIN queue[t1] : i < j => queue[t1][j].late
    BY <1>7 DEF LateBehind
  <2>2. CASE t1 # t
    BY <1>1, <2>1, <2>2 DEF LateBehind
  <2>3. CASE t1 = t
    <3>1. i \in 1..n + 1 /\ queue'[t][i].from = p
      BY <1>1, <2>1, <2>3
    <3>2. \A j \in 1..n + 1 : j \in 1..n \/ j = n + 1
      OBVIOUS
    <3>3. \A j \in 1..n + 1 : i < j => queue'[t][j].late
      BY <1>1, <1>2, <1>7, <2>1, <2>3, <3>2
    <3>4. QED
      BY <1>1, <2>3, <3>1, <3>3 DEF LateBehind
  <2>4. QED
    BY <2>2, <2>3
<1>8. ASSUME NEW p \in Services PROVE Draining(p)'
  <2>1. CASE p = s
    <3>1. n + 1 \in DOMAIN queue'[t] /\ \A j \in DOMAIN queue'[t] : ~(n + 1 < j)
      BY <1>1
    <3>2. LateBehind(s, t)'
      BY <1>1, <1>2, <3>1 DEF LateBehind
    <3>3. QED
      BY <1>3, <2>1, <3>2 DEF Draining, LateBehind
  <2>2. CASE p # s
    <3> SUFFICES ASSUME pc'[p] = "draining"
                 PROVE  (IF p \in woken THEN AllLate(at[p]) ELSE LateBehind(p, at[p]))'
      BY DEF Draining
    <3>1. pc[p] = "draining" /\ at'[p] = at[p] /\ at[p] \in Services
      BY <1>3, <2>2 DEF Threads, Waiting
    <3>2. IF p \in woken THEN AllLate(at[p]) ELSE LateBehind(p, at[p])
      BY <3>1 DEF Graceful, Draining
    <3>3. at[p] = t => Ending(t)
      BY <3>1, StoppingIsEnding
    <3> PICK t1 \in Services : t1 = at[p]
      BY <3>1
    <3>4. IF p \in woken THEN AllLate(t1)' ELSE LateBehind(p, t1)'
      BY <1>6, <1>7, <3>2, <3>3
    <3>5. QED
      BY <3>1, <3>4 DEF AllLate, LateBehind
  <2>3. QED
    BY <2>1, <2>2
<1>9. ASSUME NEW p \in Services PROVE Halting(p)'
  <2> SUFFICES ASSUME pc'[p] = "halting"
               PROVE  (at[p] \in quit \/ AllLate(at[p]))'
    BY DEF Halting
  <2>1. pc[p] = "halting" /\ at'[p] = at[p] /\ at[p] \in Services
    BY <1>3 DEF Threads
  <2>2. at[p] \in quit \/ AllLate(at[p])
    BY <2>1 DEF Graceful, Halting
  <2>3. at[p] = t => Ending(t)
    BY <2>1, StoppingIsEnding
  <2> PICK t1 \in Services : t1 = at[p]
    BY <2>1
  <2>4. t1 \in quit \/ AllLate(t1)'
    BY <1>6, <2>2, <2>3
  <2>5. QED
    BY <2>1, <2>4 DEF AllLate
<1>10. StopIsGraceful'
  <2> SUFFICES ASSUME NEW c \in Services \ quit, c \in stopped PROVE AllLate(c)'
    BY DEF StopIsGraceful, AllLate
  <2>1. AllLate(c)
    BY DEF Graceful, StopIsGraceful, AllLate
  <2>2. QED
    BY <1>6, <2>1 DEF Ending
<1>11. QED
  BY <1>5, <1>8, <1>9, <1>10 DEF Graceful

\* The next task of s is run.
LEMMA DispatchGraceful ==
  ASSUME TypeOK, Threads, Graceful, NEW s \in Services, Dispatch(s)
  PROVE  Graceful'
<1>1. PICK m \in Task, n \in Nat :
           /\ DOMAIN queue[s] = 1..n + 1 /\ m = queue[s][1]
           /\ woken' = woken \union {m.from}
           /\ queue' \in [Services -> Seq(Task)]
           /\ DOMAIN queue'[s] = 1..n
           /\ \A i \in 1..n : queue'[s][i] = queue[s][i + 1]
           /\ \A t \in Services : t # s => queue'[t] = queue[t]
  BY DispatchTask
<1>2. UNCHANGED <<pc, at, stopped, quit>>
  BY DEF Dispatch, life
<1>3. /\ 1 \in DOMAIN queue[s]
      /\ \A i \in 1..n : i + 1 \in DOMAIN queue[s] /\ i + 1 # 1
  BY <1>1
<1>4. at[m.from] = s /\ m.from \notin woken
      /\ \A j \in DOMAIN queue[s] : queue[s][j].from = m.from => j = 1
  BY <1>1, <1>3 DEF Graceful, Posted
<1>5. ASSUME NEW t \in Services PROVE Posted(t)'
  <2>1. Posted(t) /\ Posted(s)
    BY DEF Graceful
  <2>2. CASE t # s
    BY <1>1, <1>2, <1>4, <2>1, <2>2 DEF Posted
  <2>3. CASE t = s
    <3> SUFFICES ASSUME NEW i \in 1..n
                 PROVE  /\ pc[queue'[s][i].from] \in {"draining", "calling"}
                        /\ at[queue'[s][i].from] = s
                        /\ queue'[s][i].from \notin woken'
                        /\ \A j \in 1..n : queue'[s][j].from = queue'[s][i].from => j = i
      BY <1>1, <1>2, <2>3 DEF Posted
    <3>1. /\ pc[queue[s][i + 1].from] \in {"draining", "calling"}
          /\ at[queue[s][i + 1].from] = s
          /\ queue[s][i + 1].from \notin woken
          /\ \A j \in DOMAIN queue[s] : queue[s][j].from = queue[s][i + 1].from => j = i + 1
      BY <1>3, <2>1 DEF Posted
    <3>2. queue[s][i + 1].from # m.from
      BY <1>3, <1>4
    <3>3. \A j \in 1..n : queue[s][j + 1].from = queue[s][i + 1].from => j = i
      <4> SUFFICES ASSUME NEW j \in 1..n, queue[s][j + 1].from = queue[s][i + 1].from
                   PROVE  j = i
        OBVIOUS
      <4>1. j + 1 = i + 1
        BY <1>3, <3>1
      <4>2. QED
        BY <4>1
    <3>4. QED
      BY <1>1, <3>1, <3>2, <3>3
  <2>4. QED
    BY <2>2, <2>3
<1>6. ASSUME NEW t \in Services, AllLate(t) PROVE AllLate(t)'
  BY <1>1, <1>3, <1>6 DEF AllLate
<1>7. ASSUME NEW p \in Services, NEW t \in Services, LateBehind(p, t)
      PROVE  IF p = m.from /\ t = s THEN AllLate(t)' ELSE LateBehind(p, t)'
  <2>1. PICK i \in DOMAIN queue[t] : /\ queue[t][i].from = p
                                     /\ \A j \in DOMAIN queue[t] : i < j => queue[t][j].late
    BY <1>7 DEF LateBehind
  <2>2. CASE t # s
    BY <1>1, <1>7, <2>2 DEF LateBehind
  <2>3. CASE t = s /\ p = m.from
    <3>1. i = 1
      BY <1>4, <2>1, <2>3
    <3>2. \A j \in 1..n : queue[s][j + 1].late
      BY <1>1, <2>1, <2>3, <3>1
    <3>3. QED
      BY <1>1, <2>3, <3>2 DEF AllLate
  <2>4. CASE t = s /\ p # m.from
    <3>1. i # 1
      BY <1>1, <2>1, <2>4
    <3>2. PICK k \in 1..n : k + 1 = i
      <4>1. i - 1 \in 1..n /\ (i - 1) + 1 = i
        BY <1>1, <2>1, <2>4, <3>1
      <4>2. QED
        BY <4>1
    <3>3. queue'[s][k].from = p
      BY <1>1, <2>1, <2>4, <3>2
    <3>4. ASSUME NEW j \in 1..n, k < j PROVE queue'[s][j].late
      <4>1. i < j + 1 /\ j + 1 \in DOMAIN queue[t]
        BY <1>1, <2>4, <3>2, <3>4
      <4>2. QED
        BY <1>1, <2>1, <2>4, <4>1
    <3>5. QED
      BY <1>1, <2>4, <3>3, <3>4 DEF LateBehind
  <2>5. QED
    BY <2>2, <2>3, <2>4
<1>8. ASSUME NEW p \in Services PROVE Draining(p)'
  <2> SUFFICES ASSUME pc[p] = "draining"
               PROVE  (IF p \in woken THEN AllLate(at[p]) ELSE LateBehind(p, at[p]))'
    BY <1>2 DEF Draining
  <2> PICK t \in Services : t = at[p]
    BY DEF Threads, Waiting
  <2>1. IF p \in woken THEN AllLate(t) ELSE LateBehind(p, t)
    BY DEF Graceful, Draining
  <2>2. p = m.from => t = s /\ p \notin woken
    BY <1>4
  <2>3. IF p \in woken' THEN AllLate(t)' ELSE LateBehind(p, t)'
    BY <1>1, <1>6, <1>7, <2>1, <2>2
  <2>4. QED
    BY <1>2, <2>3 DEF AllLate, LateBehind
<1>9. ASSUME NEW p \in Services PROVE Halting(p)'
  <2> SUFFICES ASSUME pc[p] = "halting"
               PROVE  (at[p] \in quit \/ AllLate(at[p]))'
    BY <1>2 DEF Halting
  <2> PICK t \in Services : t = at[p]
    BY DEF Threads
  <2>1. t \in quit \/ AllLate(t)'
    BY <1>6 DEF Graceful, Halting
  <2>2. QED
    BY <1>2, <2>1 DEF AllLate
<1>10. StopIsGraceful'
  <2> SUFFICES ASSUME NEW c \in Services \ quit, c \in stopped PROVE AllLate(c)'
    BY <1>2 DEF StopIsGraceful, AllLate
  <2>1. AllLate(c)
    BY DEF Graceful, StopIsGraceful, AllLate
  <2>2. QED
    BY <1>6, <2>1
<1>11. QED
  BY <1>5, <1>8, <1>9, <1>10 DEF Graceful

LEMMA NextGraceful == TypeOK /\ Threads /\ Ended /\ Graceful /\ [Next]_vars => Graceful'
<1> SUFFICES ASSUME TypeOK, Threads, Ended, Graceful, [Next]_vars, ~Quiet
             PROVE  Graceful'
  BY QuietGraceful
<1>1. CASE UNCHANGED vars
  BY <1>1 DEF vars, tree, life, posts, TypeOK, Quiet
<1>2. CASE Next
  <2>1. PICK s \in Services, c \in Services : Step(s, c)
    BY <1>2, NextIsStep
  <2>2. CASE Call(s, c)
    <3>1. /\ Post(s, c, "call") /\ pc[s] = "running" /\ pc' = [pc EXCEPT ![s] = "calling"]
          /\ at' = [at EXCEPT ![s] = c]
          /\ UNCHANGED <<woken, stopped, quit>>
      BY <2>2 DEF Call, Goto, life
    <3>2. at'[s] = c /\ \A p \in Services \ {s} : at'[p] = at[p]
      BY <3>1 DEF TypeOK
    <3>3. QED
      BY <3>1, <3>2, PostGraceful
  <2>3. CASE Drain(s)
    <3>1. /\ Post(s, at[s], "drain") /\ pc[s] = "checked" /\ pc' = [pc EXCEPT ![s] = "draining"]
          /\ UNCHANGED <<at, woken, stopped, quit>> /\ at[s] \in Services
      BY <2>3 DEF Drain, Goto, life, Threads
    <3>2. QED
      BY <3>1, PostGraceful
  <2>4. CASE Dispatch(s)
    BY <2>4, DispatchGraceful
  <2>5. CASE Start(s, c)
    BY <2>5 DEF Start, TypeOK, tree, life, posts, Goto, Quiet, Threads, Waiting
  <2>6. CASE Stop(s, c)
    BY <2>6 DEF Stop, TypeOK, tree, life, posts, Goto, Quiet, Ended
  <2>7. CASE FirstWait(s)
    BY <2>7 DEF FirstWait, TypeOK, tree, life, posts, Goto, Quiet, Starter
  <2>8. CASE Exit(s)
    BY <2>8 DEF Exit, TypeOK, tree, life, posts, Goto, Quiet
  <2>9. CASE \E r \in {"ok", "failed"} : Return(s, r)
    BY <2>9 DEF Return, TypeOK, tree, life, posts, Goto, Quiet
  <2>10. CASE Release(s)
    BY <2>10 DEF Release, TypeOK, tree, life, posts, Goto, Quiet, Starter
  <2>11. CASE Shut(s)
    BY <2>11 DEF Shut, TypeOK, tree, life, posts, Goto, Quiet, Ended, Threads
  <2>12. CASE Closed(s)
    BY <2>12 DEF Closed, TypeOK, tree, life, posts, Goto, Quiet
  <2>13. CASE Resume(s)
    BY <2>13 DEF Resume, TypeOK, tree, life, posts, Goto, Quiet, Graceful, Draining
  <2>14. CASE Halt(s)
    BY <2>14 DEF Halt, TypeOK, tree, life, posts, Goto, Quiet, Graceful, Halting, Threads
  <2>15. CASE Join(s)
    BY <2>15 DEF Join, TypeOK, tree, life, posts, Goto, Quiet, Base
  <2>16. QED
    BY <2>1, <2>2, <2>3, <2>4, <2>5, <2>6, <2>7, <2>8,
       <2>9, <2>10, <2>11, <2>12, <2>13, <2>14, <2>15 DEF Step
<1>3. QED
  BY <1>1, <1>2

-----------------------------------------------------------------------------
(* The theorems. *)

LEMMA InitIInv == Init => IInv
<1> SUFFICES ASSUME Init PROVE IInv
  OBVIOUS
<1>1. TypeOK
  BY JobsAssumption DEF Init, TypeOK, Phases, Blocking
<1>2. JobOutlivesThread /\ Threads /\ Ended /\ Owned
  BY JobsAssumption DEF Init, JobOutlivesThread, Threads, Waiting, Ended, Owned
<1>3. Graceful
  BY JobsAssumption DEF Init, Graceful, Posted, Draining, Halting, StopIsGraceful
<1>4. Family /\ Grounded
  BY JobsAssumption DEF Init, Family, Grounded
<1>5. QED
  BY <1>1, <1>2, <1>3, <1>4 DEF IInv

THEOREM Invariance == Spec => []IInv
<1>1. IInv /\ [Next]_vars => IInv'
  BY NextTypes, NextOutlives, NextThreads, NextEnded, NextGraceful, NextFamily, NextOwned,
     NextGrounded DEF IInv
<1>2. QED
  BY InitIInv, <1>1, PTL DEF Spec

\* Type correctness.
THEOREM TypeCorrect == Spec => []TypeOK
<1>1. IInv => TypeOK
  BY DEF IInv
<1>2. QED
  BY <1>1, Invariance, PTL

\* The luaos_job in the state of an owner outlives the thread that uses it:
\* lua_close does not end before every job is stopped and joined
\* (src/src/luaos_state.cpp).
THEOREM JobOutlivesThreadAlways == Spec => []JobOutlivesThread
<1>1. IInv => JobOutlivesThread
  BY DEF IInv
<1>2. QED
  BY <1>1, Invariance, PTL

\* job:stop is graceful for every number of services that call each other: what was
\* posted to a service before its stop is run before its reactor is stopped, unless
\* the service ends on its own.
THEOREM StopIsGracefulAlways == Spec => []StopIsGraceful
<1>1. IInv => StopIsGraceful
  BY DEF IInv, Graceful
<1>2. QED
  BY <1>1, Invariance, PTL

\* Starting and stopping alone never blocks a tree of services for ever: a thread
\* that is stuck has a call, or a service that ended on its own, behind it.
THEOREM StuckHasCauseAlways == Spec => []StuckHasCause
<1>1. IInv => StuckHasCause
  BY NobodyStuck DEF IInv, StuckHasCause
<1>2. QED
  BY <1>1, Invariance, PTL

-----------------------------------------------------------------------------
(* Who waits is waited for. *)

\* A thread that has left main does not come back to it.
Shuts ==
  /\ \A s \in shut : pc[s] \notin {"none", "running", "starting", "calling"}
  /\ \A s \in Services : pc[s] \in {"released", "closing", "gone"} => s \in shut
  /\ \A s \in notified : pc[s] # "none"

TaskOf(q, p) == \E i \in DOMAIN q : q[i].from = p

\* A thread that waits and is not woken waits for what is still to come: the first wait
\* of the service it starts, its task, the end of a thread whose reactor is stopped.
Asked ==
  \A s \in Services :
    /\ pc[s] = "starting" /\ s \notin woken =>
         /\ at[s] \notin notified
         /\ pc[at[s]] # "none"
         /\ at[s] \in shut => pc[at[s]] = "returned"
    /\ pc[s] \in {"draining", "calling"} /\ s \notin woken => TaskOf(queue[at[s]], s)
    /\ pc[s] \in {"draining", "calling", "joining"} => pc[at[s]] # "none"
    /\ pc[s] = "joining" => at[s] \in stopped

\* Every service but the first has an owner, and every line of owners ends.
Rooted ==
  /\ \A s \in Services \ {Root} : pc[s] # "none" => parent[s] # None
  /\ \A S \in SUBSET Services : (\A c \in S : parent[c] \in S) => S = {}

LEMMA NextShuts == TypeOK /\ Threads /\ Shuts /\ [Next]_vars => Shuts'
<1> SUFFICES ASSUME TypeOK, Threads, Shuts, [Next]_vars PROVE Shuts'
  OBVIOUS
<1> USE DEF TypeOK, Phases, Blocking, tree, life, posts, Goto, Threads, Waiting, Shuts
<1>1. CASE UNCHANGED vars
  BY <1>1 DEF vars
<1>2. CASE Next
  <2>1. PICK s \in Services, c \in Services : Step(s, c)
    BY <1>2, NextIsStep
  <2>2. CASE Start(s, c)
    BY <2>2 DEF Start
  <2>3. CASE Stop(s, c)
    BY <2>3 DEF Stop
  <2>4. CASE Call(s, c)
    BY <2>4 DEF Call
  <2>5. CASE FirstWait(s)
    BY <2>5 DEF FirstWait
  <2>6. CASE Dispatch(s)
    BY <2>6 DEF Dispatch
  <2>7. CASE Exit(s)
    BY <2>7 DEF Exit
  <2>8. CASE \E r \in {"ok", "failed"} : Return(s, r)
    BY <2>8 DEF Return
  <2>9. CASE Release(s)
    BY <2>9 DEF Release
  <2>10. CASE Shut(s)
    BY <2>10 DEF Shut
  <2>11. CASE Closed(s)
    BY <2>11 DEF Closed
  <2>12. CASE Drain(s)
    BY <2>12 DEF Drain
  <2>13. CASE Resume(s)
    BY <2>13 DEF Resume
  <2>14. CASE Halt(s)
    BY <2>14 DEF Halt
  <2>15. CASE Join(s)
    BY <2>15 DEF Join, Base
  <2>16. QED
    BY <2>1, <2>2, <2>3, <2>4, <2>5, <2>6, <2>7, <2>8, <2>9, <2>10, <2>11, <2>12,
       <2>13, <2>14, <2>15 DEF Step
<1>3. QED
  BY <1>1, <1>2

\* A task stays in its queue until it runs, and wakes the one who posted it.
LEMMA PostTask ==
  ASSUME TypeOK, NEW s \in Services, NEW t \in Services, NEW kind \in {"drain", "call"},
         Post(s, t, kind)
  PROVE  /\ TaskOf(queue'[t], s)
         /\ \A p, u \in Services : TaskOf(queue[u], p) => TaskOf(queue'[u], p)
<1>1. PICK m : m = [kind |-> kind, from |-> s, late |-> Ending(t)]
  OBVIOUS
<1>2. m \in Task /\ queue[t] \in Seq(Task) /\ m.from = s
  BY <1>1 DEF Task, TypeOK, Ending
<1>3. PICK q : q = queue[t]
  OBVIOUS
<1>4. /\ DOMAIN Append(q, m) = 1..Len(q) + 1 /\ DOMAIN q = 1..Len(q) /\ Len(q) \in Nat
      /\ \A i \in 1..Len(q) : Append(q, m)[i] = q[i]
      /\ Append(q, m)[Len(q) + 1] = m
  BY <1>2, <1>3, AppendProperties, LenProperties
<1>5. queue'[t] = Append(q, m) /\ \A u \in Services : u # t => queue'[u] = queue[u]
  BY <1>1, <1>3 DEF Post, TypeOK
<1>6. TaskOf(Append(q, m), s)
  <2>1. Len(q) + 1 \in DOMAIN Append(q, m)
    BY <1>4
  <2> QED
    BY <1>2, <1>4, <2>1 DEF TaskOf
<1>7. ASSUME NEW p, TaskOf(q, p) PROVE TaskOf(Append(q, m), p)
  <2>1. PICK i \in DOMAIN q : q[i].from = p
    BY <1>7 DEF TaskOf
  <2>2. i \in DOMAIN Append(q, m) /\ Append(q, m)[i] = q[i]
    BY <1>4
  <2> QED
    BY <2>1, <2>2 DEF TaskOf
<1> QED
  BY <1>3, <1>5, <1>6, <1>7

LEMMA TaskRuns ==
  ASSUME TypeOK, NEW s \in Services, Dispatch(s)
  PROVE  \A p, u \in Services : TaskOf(queue[u], p) => TaskOf(queue'[u], p) \/ p \in woken'
<1>1. PICK m \in Task, n \in Nat :
        /\ DOMAIN queue[s] = 1..n + 1 /\ m = queue[s][1]
        /\ woken' = woken \union {m.from}
        /\ DOMAIN queue'[s] = 1..n
        /\ \A i \in 1..n : queue'[s][i] = queue[s][i + 1]
        /\ \A t \in Services : t # s => queue'[t] = queue[t]
  BY DispatchTask
<1>2. ASSUME NEW p \in Services, TaskOf(queue[s], p), p \notin woken' PROVE TaskOf(queue'[s], p)
  <2>1. PICK i \in DOMAIN queue[s] : queue[s][i].from = p
    BY <1>2 DEF TaskOf
  <2>2. i # 1
    BY <1>1, <1>2, <2>1
  <2>3. i - 1 \in 1..n /\ (i - 1) + 1 = i
    BY <1>1, <2>2
  <2>4. i - 1 \in DOMAIN queue'[s] /\ queue'[s][i - 1] = queue[s][i]
    BY <1>1, <2>3
  <2> QED
    BY <2>1, <2>4 DEF TaskOf
<1> QED
  BY <1>1, <1>2

LEMMA NextAsked == TypeOK /\ Threads /\ Family /\ Shuts /\ Asked /\ [Next]_vars => Asked'
<1> SUFFICES ASSUME TypeOK, Threads, Family, Shuts, Asked, [Next]_vars PROVE Asked'
  OBVIOUS
<1> USE DEF TypeOK, Phases, Blocking, tree, life, posts, Goto, Threads, Waiting, Shuts, Asked
<1>1. CASE UNCHANGED vars
  BY <1>1 DEF vars
<1>2. CASE Next
  <2>1. PICK s \in Services, c \in Services : Step(s, c)
    BY <1>2, NextIsStep
  <2>2. CASE Start(s, c)
    BY <2>2, JobsAssumption DEF Start
  <2>3. CASE Stop(s, c)
    BY <2>3, JobsAssumption DEF Stop, Family
  <2>4. CASE Call(s, c)
    <3>1. /\ TaskOf(queue'[c], s)
          /\ \A p, u \in Services : TaskOf(queue[u], p) => TaskOf(queue'[u], p)
      BY <2>4, PostTask DEF Call
    <3>2. /\ pc[s] = "running" /\ pc[c] # "none" /\ pc' = [pc EXCEPT ![s] = "calling"]
          /\ at' = [at EXCEPT ![s] = c] /\ UNCHANGED <<notified, stopped, woken, shut>>
      BY <2>4 DEF Call
    <3> QED
      BY <3>1, <3>2
  <2>5. CASE FirstWait(s)
    BY <2>5 DEF FirstWait, Starter
  <2>6. CASE Dispatch(s)
    <3>1. \A p, u \in Services : TaskOf(queue[u], p) => TaskOf(queue'[u], p) \/ p \in woken'
      BY <2>6, TaskRuns
    <3>2. woken \subseteq woken' /\ UNCHANGED <<pc, at, notified, stopped, shut>>
      BY <2>6 DEF Dispatch
    <3> QED
      BY <3>1, <3>2
  <2>7. CASE Exit(s)
    BY <2>7 DEF Exit
  <2>8. CASE \E r \in {"ok", "failed"} : Return(s, r)
    BY <2>8 DEF Return
  <2>9. CASE Release(s)
    BY <2>9 DEF Release, Starter
  <2>10. CASE Shut(s)
    BY <2>10 DEF Shut
  <2>11. CASE Closed(s)
    BY <2>11 DEF Closed
  <2>12. CASE Drain(s)
    <3>1. pc[s] = "checked" /\ at[s] \in Services /\ Post(s, at[s], "drain")
      BY <2>12 DEF Drain
    <3>2. /\ TaskOf(queue'[at[s]], s)
          /\ \A p, u \in Services : TaskOf(queue[u], p) => TaskOf(queue'[u], p)
      BY <3>1, PostTask
    <3>3. pc[at[s]] # "none" /\ pc' = [pc EXCEPT ![s] = "draining"]
          /\ UNCHANGED <<at, notified, stopped, woken, shut>>
      BY <2>12, <3>1, JobsAssumption DEF Drain, Family
    <3> QED
      BY <3>1, <3>2, <3>3
  <2>13. CASE Resume(s)
    BY <2>13 DEF Resume
  <2>14. CASE Halt(s)
    BY <2>14, JobsAssumption DEF Halt, Family
  <2>15. CASE Join(s)
    <3>1. pc[s] = "joining" /\ UNCHANGED <<notified, stopped, woken, queue>>
          /\ at' = [at EXCEPT ![s] = None]
      BY <2>15 DEF Join
    <3>2. PICK x \in {"closing", "running"} : pc' = [pc EXCEPT ![s] = x]
      BY <2>15 DEF Join, Base
    <3>3. \A p \in Services \ {s} : pc'[p] = pc[p] /\ at'[p] = at[p]
      BY <3>1, <3>2
    <3>4. shut' = shut /\ \A p \in Services : pc[p] # "none" => pc'[p] # "none"
      BY <2>15, <3>2, <3>3 DEF Join
    <3> QED
      BY <3>1, <3>2, <3>3, <3>4
  <2>16. QED
    BY <2>1, <2>2, <2>3, <2>4, <2>5, <2>6, <2>7, <2>8, <2>9, <2>10, <2>11, <2>12,
       <2>13, <2>14, <2>15 DEF Step
<1>3. QED
  BY <1>1, <1>2

LEMMA NextRooted == TypeOK /\ Family /\ Rooted /\ [Next]_vars => Rooted'
<1> SUFFICES ASSUME TypeOK, Family, Rooted, [Next]_vars PROVE Rooted'
  OBVIOUS
<1>1. ASSUME NEW s \in Services, NEW c \in Services, Start(s, c) PROVE Rooted'
  <2>1. /\ pc[s] = "running" /\ pc[c] = "none" /\ s # c
        /\ parent' = [parent EXCEPT ![c] = s]
        /\ pc' = [pc EXCEPT ![s] = "starting", ![c] = "running"]
    BY <1>1 DEF Start
  <2>2. \A d \in Services : parent[d] # c
    BY <2>1, JobsAssumption DEF Family, TypeOK
  <2>3. ASSUME NEW S \in SUBSET Services, \A d \in S : parent'[d] \in S PROVE S = {}
    <3>1. CASE c \notin S
      <4>1. \A d \in S : parent[d] \in S
        BY <2>1, <2>3, <3>1 DEF TypeOK
      <4> QED
        BY <4>1 DEF Rooted
    <3>2. CASE c \in S
      <4>1. s \in S \ {c}
        BY <2>1, <2>3, <3>2 DEF TypeOK
      <4>2. \A d \in S \ {c} : parent[d] \in S \ {c}
        BY <2>1, <2>2, <2>3 DEF TypeOK
      <4>3. S \ {c} = {}
        BY <4>2 DEF Rooted
      <4> QED
        BY <4>1, <4>3
    <3> QED
      BY <3>1, <3>2
  <2>4. \A d \in Services \ {Root} : pc'[d] # "none" => parent'[d] # None
    BY <2>1, JobsAssumption DEF Rooted, TypeOK
  <2> QED
    BY <2>3, <2>4 DEF Rooted
<1>2. CASE UNCHANGED parent /\ \A d \in Services : pc[d] = "none" => pc'[d] = "none"
  BY <1>2 DEF Rooted
<1>3. \/ UNCHANGED parent /\ \A d \in Services : pc[d] = "none" => pc'[d] = "none"
      \/ \E s, c \in Services : Start(s, c)
  <2>1. CASE UNCHANGED vars
    BY <2>1 DEF vars, tree
  <2>2. CASE Next
    <3>1. PICK s \in Services, c \in Services : Step(s, c)
      BY <2>2, NextIsStep
    <3> QED
      BY <3>1 DEF Step, Stop, Call, FirstWait, Dispatch, Exit, Return, Release, Shut, Closed,
         Drain, Resume, Halt, Join, tree, TypeOK, Goto
  <2> QED
    BY <2>1, <2>2
<1> QED
  BY <1>1, <1>2, <1>3

THEOREM AskedAlways == Spec => [](Shuts /\ Asked /\ Rooted)
<1>1. Init => Shuts /\ Asked /\ Rooted
  <2>1. ASSUME Init PROVE Shuts /\ Asked
    BY <2>1, JobsAssumption DEF Init, Shuts, Asked
  <2>2. ASSUME Init PROVE Rooted
    BY <2>2, JobsAssumption DEF Init, Rooted
  <2> QED
    BY <2>1, <2>2
<1>2. IInv /\ Shuts /\ Asked /\ Rooted /\ [Next]_vars => (Shuts /\ Asked /\ Rooted)'
  BY NextShuts, NextAsked, NextRooted DEF IInv
<1> QED
  BY <1>1, <1>2, Invariance, PTL DEF Spec

\* s has a step that is left to the thread, not to the script: one of the steps that
\* FairSpec is fair to.
GoesOn(s) ==
  \/ pc[s] = "running" /\ (s \notin notified \/ s \in stopped \/ queue[s] # <<>>)
  \/ pc[s] \in {"returned", "released", "checked", "halting"}
  \/ pc[s] = "closing" /\ s \in shut
  \/ pc[s] \in Waiting /\ s \in woken
  \/ pc[s] = "joining" /\ pc[at[s]] = "gone"

\* A service that is waited for, and neither blocked nor out of reach, goes on.
LEMMA WaitedGoesOn ==
  ASSUME TypeOK, Threads, Shuts, Asked,
         NEW s \in Services, Blocked(s), ~Lost(s), ~Blocked(at[s])
  PROVE  at[s] \in Services /\ GoesOn(at[s])
<1>1. pc[s] \in {"starting", "draining", "calling", "joining"} /\ s \notin woken
  BY DEF Blocked, Blocking
<1>2. PICK t \in Services : t = at[s]
  BY <1>1 DEF Threads, Waiting
<1>3. pc[t] \in Phases /\ (pc[t] \in {"released", "closing", "gone"} => t \in shut)
      /\ (t \in shut => pc[t] \notin {"none", "running", "starting", "calling"})
  BY DEF TypeOK, Shuts
<1>4. pc[t] \in Blocking => GoesOn(t)
  BY <1>2 DEF Blocked, Blocking, GoesOn, Waiting, Threads
<1>5. CASE pc[s] = "starting"
  <2>1. t \notin notified /\ pc[t] # "none" /\ (t \in shut => pc[t] = "returned")
    BY <1>1, <1>2, <1>5 DEF Asked
  <2>2. pc[t] \in Blocking \union {"running", "checked", "halting", "returned"}
    BY <1>3, <2>1 DEF Phases
  <2> QED
    BY <1>2, <1>4, <2>1, <2>2 DEF GoesOn
<1>6. CASE pc[s] \in {"draining", "calling"}
  <2>1. t \notin stopped /\ t \notin shut /\ pc[t] # "none" /\ TaskOf(queue[t], s)
    BY <1>1, <1>2, <1>6 DEF Lost, Asked
  <2>2. pc[t] \in Blocking \union {"running", "checked", "halting", "returned"}
    BY <1>3, <2>1 DEF Phases
  <2>3. queue[t] # <<>>
    BY <2>1 DEF TaskOf
  <2> QED
    BY <1>2, <1>4, <2>2, <2>3 DEF GoesOn
<1>7. CASE pc[s] = "joining"
  <2>1. t \in stopped /\ pc[t] # "none" /\ pc[t] # "gone"
    BY <1>2, <1>7 DEF Asked, Blocked
  <2> QED
    BY <1>2, <1>3, <1>4, <2>1 DEF GoesOn, Phases
<1> QED
  BY <1>1, <1>5, <1>6, <1>7

\* Of the services that a blocked service waits for, in one step or in several, one goes
\* on, unless the service is stuck: os.start, job:stop and the calls of other services
\* leave nobody waiting for a service that only waits itself.  BlockEnds adds that the
\* threads are run.
WaitedForGoOn ==
  \A S \in SUBSET Services :
    /\ \A x \in S : Blocked(x) => at[x] \in S
    /\ \E s \in S : Blocked(s) /\ ~Stuck(s)
    => \E x \in S : GoesOn(x)

LEMMA ChainGoesOn ==
  ASSUME TypeOK, Threads, Shuts, Asked, NEW S \in SUBSET Services,
         \A x \in S : Blocked(x) => at[x] \in S,
         NEW s \in S, Blocked(s), ~Stuck(s)
  PROVE  \E x \in S : GoesOn(x)
<1> SUFFICES ASSUME \A x \in S : ~GoesOn(x) PROVE FALSE
  OBVIOUS
<1>1. PICK B \in SUBSET Services : B = {x \in S : Blocked(x)}
  OBVIOUS
<1>2. ASSUME NEW x \in B PROVE Lost(x) \/ (Blocked(x) /\ at[x] \in B)
  <2>1. x \in S /\ Blocked(x) /\ at[x] \in S
    BY <1>1
  <2>2. Lost(x) \/ Blocked(at[x])
    BY <2>1, WaitedGoesOn
  <2> QED
    BY <1>1, <2>1, <2>2
<1>3. s \in B
  BY <1>1
<1> QED
  BY <1>2, <1>3 DEF Stuck

\* WaitedForGoOn holds for any number of services that start, stop and call each other
\* (luaos_state.cpp, luaos_rpcall.cpp): nobody waits in a circle but those who are stuck.
THEOREM WaitedForGoOnAlways == Spec => []WaitedForGoOn
<1>1. IInv /\ Shuts /\ Asked /\ Rooted => WaitedForGoOn
  BY ChainGoesOn DEF IInv, WaitedForGoOn
<1> QED
  BY <1>1, Invariance, AskedAlways, PTL

\* A service that is stuck stays so: what it waits for is in a queue that is never run
\* again, or it waits for one that is stuck.  No stop, no end of another service and no
\* later task wakes it.
StuckForEver == [][\A s \in Services : Stuck(s) => Stuck(s)']_vars

\* S is closed: who is in it waits for a lost task or for another one in it.
Closure(S) == \A x \in S : Lost(x) \/ (Blocked(x) /\ at[x] \in S)

\* The services of S are left alone, and what stopped them stays.
LeftAlone(S) ==
  /\ \A x \in S : pc'[x] = pc[x] /\ at'[x] = at[x] /\ x \notin woken'
  /\ \A x \in S : pc[x] = "joining" => pc'[at[x]] # "gone"
  /\ stopped \subseteq stopped' /\ shut \subseteq shut'

LEMMA ClosureStays ==
  ASSUME TypeOK, Threads, Graceful, Shuts, NEW S \in SUBSET Services, Closure(S), [Next]_vars
  PROVE  Closure(S)'
<1> USE DEF TypeOK, Phases, Blocking, tree, life, posts, Goto
<1>0. \A x \in S : Blocked(x) /\ (Lost(x) \/ at[x] \in S)
  BY DEF Closure, Lost
<1>a. \A x \in S : /\ pc[x] \in Blocking /\ x \notin woken
                   /\ pc[x] = "joining" => pc[at[x]] # "gone"
  BY <1>0 DEF Blocked
<1>b. \A x \in S : \/ pc[x] \in {"draining", "calling"} /\ at[x] \in stopped \union shut
                   \/ at[x] \in S
  BY <1>0 DEF Lost
<1>c. \A x \in S : /\ pc[x] \notin {"none", "running", "checked", "halting", "returned",
                                   "released", "closing", "gone"}
                   /\ at[x] \in Services
  BY <1>a DEF Threads, Waiting
<1>s. ASSUME LeftAlone(S) PROVE Closure(S)'
  <2>1. \A x \in S : /\ pc'[x] \in Blocking /\ x \notin woken'
                     /\ pc'[x] = "joining" => pc'[at'[x]] # "gone"
    BY <1>s, <1>a DEF LeftAlone
  <2>2. \A x \in S : \/ pc'[x] \in {"draining", "calling"} /\ at'[x] \in stopped' \union shut'
                     \/ at'[x] \in S
    BY <1>s, <1>b DEF LeftAlone
  <2> QED
    BY <2>1, <2>2 DEF Closure, Lost, Blocked
<1>1. CASE UNCHANGED vars
  <2>1. LeftAlone(S)
    BY <1>1, <1>a DEF vars, LeftAlone
  <2> QED
    BY <1>s, <2>1
<1>2. ASSUME Next PROVE LeftAlone(S)
  <2>1. PICK s \in Services, c \in Services : Step(s, c)
    BY <1>2, NextIsStep
  <2>2. CASE Start(s, c)
    BY <2>2, <1>a, <1>c DEF LeftAlone, Start
  <2>3. CASE Stop(s, c)
    BY <2>3, <1>a, <1>c DEF LeftAlone, Stop
  <2>4. CASE Call(s, c)
    BY <2>4, <1>a, <1>c DEF LeftAlone, Call
  <2>5. CASE FirstWait(s)
    BY <2>5, <1>a, <1>b, <1>c DEF LeftAlone, FirstWait, Starter
  <2>6. CASE Dispatch(s)
    <3>1. PICK m \in Task, n \in Nat : /\ DOMAIN queue[s] = 1..n + 1 /\ m = queue[s][1]
                                      /\ woken' = woken \union {m.from}
      BY <2>6, DispatchTask
    <3>2. 1 \in DOMAIN queue[s]
      BY <3>1
    <3>3. at[m.from] = s
      BY <3>1, <3>2 DEF Graceful, Posted
    <3>4. pc[s] = "running" /\ s \notin stopped /\ UNCHANGED <<pc, at, stopped, shut>>
      BY <2>6 DEF Dispatch
    <3>5. s \notin shut
      BY <3>4 DEF Shuts
    <3>6. m.from \notin S
      BY <1>a, <1>b, <3>3, <3>4, <3>5
    <3> QED
      BY <1>a, <3>1, <3>4, <3>6 DEF LeftAlone
  <2>7. CASE Exit(s)
    BY <2>7, <1>a, <1>c DEF LeftAlone, Exit
  <2>8. CASE \E r \in {"ok", "failed"} : Return(s, r)
    BY <2>8, <1>a, <1>c DEF LeftAlone, Return
  <2>9. CASE Release(s)
    BY <2>9, <1>a, <1>b, <1>c DEF LeftAlone, Release, Starter
  <2>10. CASE Shut(s)
    BY <2>10, <1>a, <1>c DEF LeftAlone, Shut
  <2>11. CASE Closed(s)
    BY <2>11, <1>a, <1>b, <1>c DEF LeftAlone, Closed
  <2>12. CASE Drain(s)
    BY <2>12, <1>a, <1>c DEF LeftAlone, Drain
  <2>13. CASE Resume(s)
    BY <2>13, <1>a, <1>c DEF LeftAlone, Resume
  <2>14. CASE Halt(s)
    BY <2>14, <1>a, <1>c DEF LeftAlone, Halt
  <2>15. CASE Join(s)
    BY <2>15, <1>a, <1>c DEF LeftAlone, Join, Base
  <2>16. QED
    BY <2>1, <2>2, <2>3, <2>4, <2>5, <2>6, <2>7, <2>8, <2>9, <2>10, <2>11, <2>12,
       <2>13, <2>14, <2>15 DEF Step
<1>3. QED
  BY <1>1, <1>2, <1>s

\* StuckForEver holds of every step: StuckHasCause names what must not happen, because
\* nothing repairs it (luaos_state.cpp, a job joins its thread without a limit).
THEOREM StuckForEverAlways == Spec => StuckForEver
<1>1. IInv /\ Shuts /\ [Next]_vars => \A s \in Services : Stuck(s) => Stuck(s)'
  <2>1. ASSUME IInv, Shuts, [Next]_vars, NEW s \in Services, Stuck(s) PROVE Stuck(s)'
    <3>1. PICK S \in SUBSET Services : s \in S /\ Closure(S)
      BY <2>1 DEF Stuck, Closure
    <3>2. Closure(S)'
      BY <2>1, <3>1, ClosureStays DEF IInv
    <3> QED
      BY <3>1, <3>2 DEF Stuck, Closure
  <2> QED
    BY <2>1
<1> QED
  BY <1>1, Invariance, AskedAlways, PTL DEF Spec, StuckForEver

\* The thread of main is the last one: when it has ended, no thread of another service
\* is left.  Until then, once main has returned, some thread goes on, unless main is
\* stuck.  ProcessEnds adds that the threads are run.
EndGoesOn ==
  /\ pc[Root] = "gone" => \A s \in Services : pc[s] \in {"none", "gone"}
  /\ Root \in shut /\ pc[Root] # "gone" => Stuck(Root) \/ \E x \in Services : GoesOn(x)

\* EndGoesOn holds however the services are nested: closing the state of main ends and
\* joins every thread below it (luaos_state.cpp).
THEOREM EndGoesOnAlways == Spec => []EndGoesOn
<1>1. ASSUME IInv, Rooted, pc[Root] = "gone"
      PROVE  \A s \in Services : pc[s] \in {"none", "gone"}
  <2>1. PICK S \in SUBSET Services : S = {s \in Services : pc[s] \notin {"none", "gone"}}
    OBVIOUS
  <2>2. ASSUME NEW c \in S PROVE parent[c] \in S
    <3>1. c \in Services /\ pc[c] # "none" /\ pc[c] # "gone" /\ c # Root
      BY <1>1, <2>1
    <3>2. parent[c] # None /\ parent[c] \in Services
      BY <1>1, <3>1 DEF IInv, Rooted, TypeOK
    <3>3. pc[parent[c]] # "gone" /\ pc[parent[c]] # "none"
      BY <1>1, <3>1, <3>2 DEF IInv, JobOutlivesThread, Family
    <3> QED
      BY <2>1, <3>2, <3>3
  <2>3. S = {}
    BY <1>1, <2>2 DEF Rooted
  <2> QED
    BY <2>1, <2>3
<1>2. ASSUME IInv, Shuts, Asked, Root \in shut, pc[Root] # "gone", ~Stuck(Root)
      PROVE  \E x \in Services : GoesOn(x)
  <2>1. Root \in Services /\ pc[Root] \in Phases /\ pc[Root] \notin {"none", "running", "gone"}
    BY <1>2, JobsAssumption DEF Shuts, IInv, TypeOK
  <2>2. CASE Blocked(Root)
    <3>1. \A x \in Services : Blocked(x) => at[x] \in Services
      BY <1>2 DEF IInv, Threads, Blocked, Blocking, Waiting
    <3> QED
      BY <1>2, <2>1, <2>2, <3>1, ChainGoesOn DEF IInv
  <2>3. CASE ~Blocked(Root)
    <3>1. pc[Root] \in Blocking \union {"returned", "checked", "halting", "released", "closing"}
      BY <2>1 DEF Phases
    <3>2. GoesOn(Root)
      BY <1>2, <2>3, <3>1 DEF Blocked, Blocking, GoesOn, Waiting, Threads, IInv
    <3> QED
      BY <2>1, <3>2
  <2> QED
    BY <2>2, <2>3
<1>3. IInv /\ Shuts /\ Asked /\ Rooted => EndGoesOn
  BY <1>1, <1>2 DEF EndGoesOn
<1> QED
  BY <1>3, Invariance, AskedAlways, PTL
=============================================================================
