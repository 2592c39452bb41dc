------------------------------ MODULE Watchdog ------------------------------
(***************************************************************************)
(* The check thread that interrupts services which do not come back to     *)
(* os.wait (src/src/luaos_state.cpp).                                      *)
(*                                                                         *)
(* Times are ages: how long ago something happened, no longer told apart   *)
(* above the bound that matters, so that time may pass for ever.  A unit   *)
(* of time is the second of check_thread or more, and what the check       *)
(* thread and a service do takes none.                                     *)
(***************************************************************************)
EXTENDS Naturals

CONSTANTS
  States,    \* the Lua states of the services
  Timeout,   \* the timeout of alive_check
  Interval   \* the interval of luaos_wait between two keep_alive

WatchdogAssumption ==
  Timeout \in Nat /\ Interval \in Nat /\ Interval < Timeout

VARIABLES
  mode,     \* what the thread of the service is in
  age,      \* now - alive_states[L]; 0 in the table is older than anything
  kept,     \* now - last_alive of luaos_wait
  hook,     \* the states whose hook is set
  waited,   \* auxiliary: how long ago the service was last in os.wait
  due       \* the check thread has not looked at the states since time passed

watchdogVars == <<mode, age, kept, hook, waited, due>>

Modes == {"lua", "wait", "native", "closed"}

\* An age n one unit later: ages above the limit are not told apart.
Older(n, limit) == IF n < limit THEN n + 1 ELSE limit

\* luaos_newstate has put every state into the table.  last_alive is 0, as if the
\* last keep_alive were long ago.
CheckInit ==
  /\ mode = [s \in States |-> "lua"]
  /\ age = [s \in States |-> 0]
  /\ kept = [s \in States |-> Interval + 1]
  /\ hook = {}
  /\ waited = [s \in States |-> 0]
  /\ due = FALSE

\* Time passes once the check thread, which runs every second, has looked, and
\* os.wait, which takes turns of 100 ms, has made one in the services that are in it.
Tick ==
  /\ ~due /\ due' = TRUE
  /\ \A s \in States : mode[s] = "wait" => waited[s] = 0
  /\ age' = [s \in States |-> Older(age[s], Timeout)]
  /\ kept' = [s \in States |-> Older(kept[s], Interval + 1)]
  /\ waited' = [s \in States |-> Older(waited[s], Timeout)]
  /\ UNCHANGED <<mode, hook>>

\* The states the check thread finds too old.
Stalled == {s \in States : mode[s] # "closed" /\ s \notin hook /\ age[s] = Timeout}

\* alive_check.  The 0 it stores is as old as what it replaces.
AliveCheck ==
  /\ due /\ due' = FALSE
  /\ hook' = hook \union Stalled
  /\ UNCHANGED <<mode, age, kept, waited>>

\* Mutant: the hook stays.
MutantInterrupt(s) ==
  mode[s] = "lua" /\ s \in hook /\ UNCHANGED watchdogVars

\* interrupt: the next instruction of Lua code raises, in a handler that os.wait
\* runs as well.  The script may catch the error and go on.
Interrupt(s) ==
  /\ mode[s] = "lua" /\ s \in hook
  /\ hook' = hook \ {s}
  /\ UNCHANGED <<mode, age, kept, waited, due>>

\* Lua code calls a function that blocks: os.start, job:stop, os.call.
Block(s) ==
  /\ mode[s] = "lua" /\ s \notin hook
  /\ mode' = [mode EXCEPT ![s] = "native"]
  /\ UNCHANGED <<age, kept, hook, waited, due>>

Unblock(s) ==
  /\ mode[s] = "native"
  /\ mode' = [mode EXCEPT ![s] = "lua"]
  /\ UNCHANGED <<age, kept, hook, waited, due>>

\* Mutant: the throttle counts from the last visit.
MutantKeepAlive(s) ==
  /\ age' = IF kept[s] > Interval THEN [age EXCEPT ![s] = 0] ELSE age
  /\ kept' = [kept EXCEPT ![s] = 0]

\* keep_alive, at most once per interval.
KeepAlive(s) ==
  IF kept[s] > Interval
  THEN age' = [age EXCEPT ![s] = 0] /\ kept' = [kept EXCEPT ![s] = 0]
  ELSE UNCHANGED <<age, kept>>

\* luaos_wait: nothing is posted, or the functions that were have run.
Wait(s) ==
  /\ mode[s] \in {"lua", "wait"} /\ (mode[s] = "lua" => s \notin hook)
  /\ mode' = [mode EXCEPT ![s] = "wait"]
  /\ KeepAlive(s)
  /\ waited' = [waited EXCEPT ![s] = 0]
  /\ UNCHANGED <<hook, due>>

\* luaos_wait runs a handler, or returns.
Run(s) ==
  /\ mode[s] = "wait"
  /\ mode' = [mode EXCEPT ![s] = "lua"]
  /\ UNCHANGED <<age, kept, hook, waited, due>>

\* luaos_close: the state leaves the table first.
CloseState(s) ==
  /\ mode[s] = "lua"
  /\ mode' = [mode EXCEPT ![s] = "closed"]
  /\ UNCHANGED <<age, kept, hook, waited, due>>

CheckNext ==
  \/ Tick \/ AliveCheck
  \/ \E s \in States :
       Interrupt(s) \/ Block(s) \/ Unblock(s) \/ Wait(s) \/ Run(s) \/ CloseState(s)

CheckSpec == CheckInit /\ [][CheckNext]_watchdogVars

\* Threads run: the check thread, os.wait, the Lua code of a service that is not
\* blocked.  (Time passes as well: WF of Tick.)
ThreadsRun ==
  /\ WF_watchdogVars(AliveCheck)
  /\ \A s \in States :
       WF_watchdogVars(Interrupt(s)) /\ WF_watchdogVars(mode[s] = "wait" /\ Wait(s))

-----------------------------------------------------------------------------
\* The variables of the watchdog are what they are declared to be.
CheckTypeOK ==
  /\ mode \in [States -> Modes]
  /\ age \in [States -> 0..Timeout]
  /\ kept \in [States -> 0..Interval + 1]
  /\ hook \subseteq States
  /\ waited \in [States -> 0..Timeout]
  /\ due \in BOOLEAN

\* Only a service that has not been in os.wait for the timeout, up to the interval
\* in which os.wait does not tell, is given the hook, and also after an interrupt
\* that it survived.  (The hook itself outlives the stall: os.wait does not take it
\* away, so a handler that runs after it may still be interrupted, once.)
ArmedOnStall ==
  [][\A s \in States : s \in hook' \ hook => waited[s] + Interval >= Timeout]_watchdogVars

\* A service that does not come back to os.wait is interrupted, unless it is blocked
\* in a native call or closed.
StallInterrupted ==
  \A s \in States :
    /\ waited[s] = Timeout ~> (waited[s] = 0 \/ mode[s] = "closed" \/ s \in hook)
    /\ s \in hook ~> (s \notin hook \/ mode[s] \in {"native", "closed"})
=============================================================================
