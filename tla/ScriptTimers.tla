---------------------------- MODULE ScriptTimers ----------------------------
(***************************************************************************)
(* The timers of a script: os.timer and the completion of its wait         *)
(* (src/src/luaos_state.cpp).                                              *)
(*                                                                         *)
(* A timer takes two slots of the registry of its service, one for the     *)
(* handler and one for itself, so that it lives until its wait is over.    *)
(* The reactor runs a completion some time after the timer expired, and    *)
(* the outcome it carries does not change when the timer is cancelled      *)
(* meanwhile.  Slots that are given back are taken again by other timers.  *)
(* luaL_unref does not ask who holds a slot.                               *)
(***************************************************************************)
EXTENDS Naturals

CONSTANTS
  Timers,   \* the timers a script creates, each once
  Slots,    \* the indexes of the registry, positive numbers
  NoTimer   \* a free slot

TimersAssumption ==
  /\ NoTimer \notin [of : Timers, as : {"handler", "self"}]
  /\ Slots \subseteq Nat \ {0}

VARIABLES
  phase,      \* what the wait of a timer is in
  cancelled,  \* luaos_timer::closed
  index,      \* the slots the completion knows
  ref,
  slots,      \* the registry: what its slots hold
  runs        \* auxiliary: how often the handler of a timer has run

timerVars == <<phase, cancelled, index, ref, slots, runs>>

Phases == {"none", "waiting", "expired", "aborted", "handling", "over"}

Holder(t, what) == [of |-> t, as |-> what]

TimersInit ==
  /\ phase = [t \in Timers |-> "none"]
  /\ cancelled = {}
  /\ index = [t \in Timers |-> 0] /\ ref = index
  /\ slots = [r \in Slots |-> NoTimer]
  /\ runs = [t \in Timers |-> 0]

\* steady_timer.
Scheme(t) ==
  /\ phase[t] = "none"
  /\ \E i, j \in {r \in Slots : slots[r] = NoTimer} :
       /\ i # j
       /\ slots' = [slots EXCEPT ![i] = Holder(t, "handler"), ![j] = Holder(t, "self")]
       /\ index' = [index EXCEPT ![t] = i]
       /\ ref' = [ref EXCEPT ![t] = j]
  /\ phase' = [phase EXCEPT ![t] = "waiting"]
  /\ UNCHANGED <<cancelled, runs>>

\* The time is up: the completion is queued.
ExpireTimer(t) ==
  /\ phase[t] = "waiting"
  /\ phase' = [phase EXCEPT ![t] = "expired"]
  /\ UNCHANGED <<cancelled, index, ref, slots, runs>>

\* Mutant: the slots are given back at once.
MutantCancelTimer(t) ==
  /\ phase[t] # "none"
  /\ cancelled' = cancelled \union {t}
  /\ phase' = [phase EXCEPT ![t] = IF @ = "waiting" THEN "aborted" ELSE @]
  /\ slots' = [slots EXCEPT ![index[t]] = NoTimer, ![ref[t]] = NoTimer]
  /\ UNCHANGED <<index, ref, runs>>

\* steady_cancel, at any time and as often as the script likes.
CancelTimer(t) ==
  /\ phase[t] # "none"
  /\ cancelled' = cancelled \union {t}
  /\ phase' = [phase EXCEPT ![t] = IF @ = "waiting" THEN "aborted" ELSE @]
  /\ UNCHANGED <<index, ref, slots, runs>>

\* The completion.  The timer and the handler it finds are what its slots hold now.
\* The script may do any of the above while the handler runs.
Complete(t) ==
  LET self == slots[ref[t]]
      handler == slots[index[t]]
      calls == self # NoTimer /\ self.of \notin cancelled /\ phase[t] = "expired"
  IN  /\ phase[t] \in {"expired", "aborted"}
      /\ \A u \in Timers : phase[u] # "handling"
      /\ phase' = [phase EXCEPT ![t] = "handling"]
      /\ runs' = IF calls /\ handler # NoTimer
                 THEN [runs EXCEPT ![handler.of] = @ + 1] ELSE runs
      /\ UNCHANGED <<cancelled, index, ref, slots>>

\* The end of the completion, whether the handler ran, failed or was not called.
Release(t) ==
  /\ phase[t] = "handling"
  /\ phase' = [phase EXCEPT ![t] = "over"]
  /\ slots' = [slots EXCEPT ![index[t]] = NoTimer, ![ref[t]] = NoTimer]
  /\ UNCHANGED <<cancelled, index, ref, runs>>

TimersNext ==
  \E t \in Timers :
    Scheme(t) \/ ExpireTimer(t) \/ CancelTimer(t) \/ Complete(t) \/ Release(t)

TimersSpec == TimersInit /\ [][TimersNext]_timerVars

-----------------------------------------------------------------------------
\* The variables of the timers are what they are declared to be.
TimersTypeOK ==
  /\ phase \in [Timers -> Phases]
  /\ cancelled \subseteq Timers
  /\ index \in [Timers -> Slots \union {0}] /\ ref \in [Timers -> Slots \union {0}]
  /\ slots \in [Slots -> [of : Timers, as : {"handler", "self"}] \union {NoTimer}]
  /\ runs \in [Timers -> Nat]

\* The slots of a timer whose wait is not over.
Holds(t) == {r \in Slots : slots[r] # NoTimer /\ slots[r].of = t}

\* A timer keeps its two slots exactly until its completion has run: a cancel, early,
\* late or repeated, neither gives them back, so that they would be taken from
\* another timer afterwards, nor leaks them.
SlotsKept ==
  \A t \in Timers :
    Holds(t) = IF phase[t] \in {"none", "over"} THEN {} ELSE {index[t], ref[t]}

\* A handler runs once at most, by the completion of its own timer, and never after
\* the timer was cancelled, also if it had expired by then and its completion was
\* queued.
FiresOnce ==
  \A t \in Timers :
    runs'[t] # runs[t] => runs[t] = 0 /\ t \notin cancelled /\ phase[t] = "expired"

\* What a timer holds and what it runs are its own, whatever the order of cancels
\* and completions: after every step the slots are as they should be, and a step that
\* runs a handler may do so.
TimersSound == [][SlotsKept' /\ FiresOnce]_timerVars
=============================================================================
