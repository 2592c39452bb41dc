--------------------------- MODULE MCRuntimeLive ---------------------------
(***************************************************************************)
(* Model checking, with fairness, of the sending side of a TCP socket and  *)
(* of four parts that share no variable with it: the storage of a process, *)
(* its watchdog, the timers of a script and the buffer of a socket.  As in *)
(* MCRuntimeSafe a behaviour is a behaviour of one of them, while the      *)
(* others stay in their initial state.                                     *)
(***************************************************************************)
EXTENDS TcpSend, Storage, Watchdog, ScriptTimers, CircularBuffer

VARIABLE unit   \* the part that runs

ASSUME StorageAssumption
ASSUME WatchdogAssumption
ASSUME TimersAssumption
ASSUME BufferAssumption

\* A limit makes a difference to the buffer only.
MCInit ==
  /\ unit \in {"tcp", "storage", "watchdog", "timers", "buffer"}
  /\ Init /\ StoreInit /\ CheckInit /\ TimersInit /\ BufferInit
  /\ unit # "buffer" => nmax = 0

OfTcp(A) ==
  unit = "tcp" /\ A /\ UNCHANGED <<unit, storageVars, watchdogVars, timerVars, bufferVars>>
OfStore(A) ==
  unit = "storage" /\ A /\ UNCHANGED <<unit, vars, watchdogVars, timerVars, bufferVars>>
OfCheck(A) ==
  unit = "watchdog" /\ A /\ UNCHANGED <<unit, vars, storageVars, timerVars, bufferVars>>
OfTimers(A) ==
  unit = "timers" /\ A /\ UNCHANGED <<unit, vars, storageVars, watchdogVars, bufferVars>>
OfBuffer(A) ==
  unit = "buffer" /\ A /\ UNCHANGED <<unit, vars, storageVars, watchdogVars, timerVars>>

\* The next-state relations of the five parts, an action at a time.
MCNext ==
  \/ \E n \in 1..MaxBytes : OfTcp(AsyncSend(n))
  \/ OfTcp(AsyncWait)
  \/ \E linger \in BOOLEAN : OfTcp(Close(linger))
  \/ OfTcp(RunWrite)
  \/ OfTcp(RunShutdown)
  \/ OfTcp(Commit)
  \/ OfTcp(CommitError)
  \/ \E n \in 1..Chunk : OfTcp(Transmit(n))
  \/ OfTcp(Fail)
  \/ OfTcp(Expire)
  \/ \E s \in Services :
       \/ OfStore(Get(s)) \/ OfStore(Erase(s)) \/ OfStore(Clear(s)) \/ OfStore(Set(s))
       \/ OfStore(Merge(s))
       \/ \E v \in Values \union {Nil} : OfStore(Return(s, v))
       \/ OfStore(Raise(s))
       \/ OfStore(Answer(s))
       \/ \E op \in Op : OfStore(Ask(s, op))
       \/ \E t \in Services : OfStore(Call(s, t))
  \/ OfCheck(Tick)
  \/ OfCheck(AliveCheck)
  \/ \E s \in States :
       \/ OfCheck(Interrupt(s))
       \/ OfCheck(Block(s)) \/ OfCheck(Unblock(s))
       \/ OfCheck(Wait(s)) \/ OfCheck(Run(s))
       \/ OfCheck(CloseState(s))
  \/ \E t \in Timers :
       \/ OfTimers(Scheme(t)) \/ OfTimers(ExpireTimer(t)) \/ OfTimers(CancelTimer(t))
       \/ OfTimers(Complete(t)) \/ OfTimers(Release(t))
  \/ \E len \in 1..Room :
       \/ \E bytes \in [1..len -> Bytes] : OfBuffer(Write(bytes))
       \/ OfBuffer(Read(len)) \/ OfBuffer(Data(len)) \/ OfBuffer(EraseBytes(len))
  \/ OfBuffer(ClearBytes)

\* The fairness of the parts.  In the initial state of the socket and of the storage
\* no fair action is enabled, and of the watchdog only Tick is, which must not be
\* asked for when another part runs.
MCSpec ==
  /\ MCInit /\ [][MCNext]_<<unit, vars, storageVars, watchdogVars, timerVars, bufferVars>>
  /\ Fairness
  /\ StoreFairness
  /\ ThreadsRun /\ WF_watchdogVars(unit = "watchdog" /\ Tick)

-----------------------------------------------------------------------------
\* The variables of the part that runs are what they are declared to be; those of
\* the others stay as they are.
TypesOK ==
  /\ unit = "tcp" => TypeOK
  /\ unit = "storage" => StoreTypeOK
  /\ unit = "watchdog" => CheckTypeOK
  /\ unit = "timers" => TimersTypeOK
  /\ unit = "buffer" => BufferTypeOK
=============================================================================
