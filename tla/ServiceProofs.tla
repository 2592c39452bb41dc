---------------------------- MODULE ServiceProofs ---------------------------
(***************************************************************************)
(* What a service relies on beside its connections: its timers, the check  *)
(* thread, the storage and the buffers of its sockets, for any number of   *)
(* timers, slots and services, any timeout and any interval, any keys and  *)
(* values, blocks and words of any size.                                   *)
(*                                                                         *)
(* Timers: a timer whose wait is not over holds the two slots its          *)
(* completion knows, a slot that is held is one of the two of such a       *)
(* timer, and a handler has not run before its completion.                 *)
(*                                                                         *)
(* The check thread: what it believes, age, is ahead of the truth, waited, *)
(* by the interval at most.  When os.wait does not tell, because it told   *)
(* less than the interval ago, age is as old as that: this is the part     *)
(* that makes it inductive.                                                *)
(*                                                                         *)
(* The storage implements the atomic map, however deeply the functions of  *)
(* set are nested.  While nobody has the mutex no function runs and what   *)
(* was stored when it was last taken is what is stored; while somebody has *)
(* it, the outermost function was shown what was stored when it was taken. *)
(*                                                                         *)
(* A buffer implements the queue of bytes.  The size of its block divides  *)
(* the range of a word, so that an index names the same byte before and    *)
(* after it wraps; and it never holds as much as a word can count.         *)
(*                                                                         *)
(* The five parts share no variable: a step of the whole is a step of one  *)
(* part or of none (SumImplementsParts).                                   *)
(***************************************************************************)
EXTENDS MCRuntimeLive, TcpSendProofs, SequenceTheorems, WellFoundedInduction, TLAPS

-----------------------------------------------------------------------------
(* The timers. *)

Live(t) == phase[t] \notin {"none", "over"}

SlotsOwned ==
  \A t \in Timers : Live(t) =>
    /\ index[t] \in Slots /\ ref[t] \in Slots /\ index[t] # ref[t]
    /\ slots[index[t]] = Holder(t, "handler")
    /\ slots[ref[t]] = Holder(t, "self")

NoneLeaked ==
  \A r \in Slots, t \in Timers :
    slots[r] # NoTimer /\ slots[r].of = t => Live(t) /\ r \in {index[t], ref[t]}

NotYetRun == \A t \in Timers : runs[t] = 0 \/ phase[t] \in {"handling", "over"}

TimersInv == TimersTypeOK /\ SlotsOwned /\ NoneLeaked /\ NotYetRun

Slot == [of : Timers, as : {"handler", "self"}] \union {NoTimer}

\* What a timer puts into a slot is not NoTimer, and names the timer.
LEMMA HolderFacts ==
  ASSUME TimersAssumption, NEW t \in Timers, NEW what \in {"handler", "self"}
  PROVE  /\ Holder(t, what) \in Slot /\ Holder(t, what) # NoTimer
         /\ Holder(t, what).of = t
  BY DEF TimersAssumption, Holder, Slot

\* The initial states satisfy the invariant.
LEMMA InitTimers == ASSUME TimersAssumption PROVE TimersInit => TimersInv
  BY DEF TimersInit, TimersInv, TimersTypeOK, Phases, SlotsOwned, NoneLeaked, NotYetRun, Live

\* The invariant says what a timer holds.
LEMMA InvKept == TimersAssumption /\ TimersInv => SlotsKept
  <1> SUFFICES ASSUME TimersAssumption, TimersInv, NEW t \in Timers
               PROVE  Holds(t) = IF phase[t] \in {"none", "over"} THEN {}
                                 ELSE {index[t], ref[t]}
    BY DEF SlotsKept
  <1>1. CASE Live(t)
    <2>1. index[t] \in Holds(t) /\ ref[t] \in Holds(t)
      BY <1>1, HolderFacts DEF TimersInv, SlotsOwned, Holds
    <2>2. Holds(t) \subseteq {index[t], ref[t]}
      BY DEF TimersInv, NoneLeaked, Holds
    <2> QED
      BY <1>1, <2>1, <2>2 DEF Live
  <1>2. CASE ~Live(t)
    BY <1>2 DEF TimersInv, NoneLeaked, Holds, Live
  <1> QED
    BY <1>1, <1>2

\* A timer takes two free slots.
LEMMA SchemeInv ==
  ASSUME TimersAssumption, TimersInv, NEW t \in Timers, Scheme(t)
  PROVE  TimersInv'
  <1>1. PICK i \in Slots, j \in Slots :
          /\ slots[i] = NoTimer /\ slots[j] = NoTimer /\ i # j
          /\ slots' = [slots EXCEPT ![i] = Holder(t, "handler"),
                                          ![j] = Holder(t, "self")]
          /\ index' = [index EXCEPT ![t] = i]
          /\ ref' = [ref EXCEPT ![t] = j]
    BY DEF Scheme
  <1>2. /\ phase[t] = "none" /\ phase' = [phase EXCEPT ![t] = "waiting"]
        /\ cancelled' = cancelled /\ runs' = runs
    BY DEF Scheme
  <1>t. TimersTypeOK
    BY DEF TimersInv
  <1>3. TimersTypeOK'
    <2>1. slots' \in [Slots -> Slot]
      BY <1>1, <1>t, HolderFacts DEF TimersTypeOK, Slot
    <2> QED
      BY <1>1, <1>2, <1>t, <2>1 DEF TimersTypeOK, Phases, Slot
  <1>4. /\ slots'[i] = Holder(t, "handler") /\ slots'[j] = Holder(t, "self")
        /\ \A r \in Slots \ {i, j} : slots'[r] = slots[r]
    BY <1>1, <1>t DEF TimersTypeOK
  <1>5. /\ phase'[t] = "waiting" /\ index'[t] = i /\ ref'[t] = j
        /\ \A u \in Timers \ {t} : /\ phase'[u] = phase[u]
                                   /\ index'[u] = index[u] /\ ref'[u] = ref[u]
    BY <1>1, <1>2, <1>t DEF TimersTypeOK
  <1>6. SlotsOwned'
    <2> SUFFICES ASSUME NEW u \in Timers, Live(u)'
                 PROVE  /\ index'[u] \in Slots /\ ref'[u] \in Slots /\ index'[u] # ref'[u]
                        /\ slots'[index'[u]] = Holder(u, "handler")
                        /\ slots'[ref'[u]] = Holder(u, "self")
      BY DEF SlotsOwned, Holder
    <2>1. CASE u = t
      BY <1>1, <1>4, <1>5, <2>1
    <2>2. CASE u # t
      <3>1. Live(u)
        BY <1>5, <2>2 DEF Live
      <3>2. index[u] \notin {i, j} /\ ref[u] \notin {i, j}
        BY <1>1, <3>1, HolderFacts DEF TimersInv, SlotsOwned
      <3> QED
        BY <1>4, <1>5, <2>2, <3>1, <3>2 DEF TimersInv, SlotsOwned
    <2> QED
      BY <2>1, <2>2
  <1>7. NoneLeaked'
    <2> SUFFICES ASSUME NEW r \in Slots, NEW u \in Timers,
                        slots'[r] # NoTimer, slots'[r].of = u
                 PROVE  Live(u)' /\ r \in {index'[u], ref'[u]}
      BY DEF NoneLeaked
    <2>1. CASE r \in {i, j}
      <3>1. u = t
        BY <1>4, <2>1, HolderFacts
      <3> QED
        BY <1>5, <2>1, <3>1 DEF Live
    <2>2. CASE r \notin {i, j}
      <3>1. Live(u) /\ r \in {index[u], ref[u]}
        BY <1>4, <2>2 DEF TimersInv, NoneLeaked
      <3>2. u # t
        BY <1>2, <3>1 DEF Live
      <3> QED
        BY <1>5, <3>1, <3>2 DEF Live
    <2> QED
      BY <2>1, <2>2
  <1>8. NotYetRun'
    BY <1>2, <1>5 DEF TimersInv, NotYetRun
  <1> QED
    BY <1>3, <1>6, <1>7, <1>8 DEF TimersInv

\* ExpireTimer, cancel and the start of a completion leave the slots alone.
LEMMA PhaseInv ==
  ASSUME TimersAssumption, TimersInv, NEW t \in Timers,
         Live(t) \/ phase' = phase,
         phase' \in [Timers -> Phases],
         Live(t) => Live(t)',
         \A u \in Timers \ {t} : phase'[u] = phase[u],
         UNCHANGED <<index, ref, slots>>
  PROVE  SlotsOwned' /\ NoneLeaked'
  <1>1. \A u \in Timers : Live(u)' <=> Live(u)
    BY DEF Live
  <1>2. SlotsOwned'
    BY <1>1 DEF TimersInv, SlotsOwned, Holder
  <1>3. NoneLeaked'
    BY <1>1 DEF TimersInv, NoneLeaked
  <1> QED
    BY <1>2, <1>3

LEMMA ExpireInv ==
  ASSUME TimersAssumption, TimersInv, NEW t \in Timers, ExpireTimer(t)
  PROVE  TimersInv'
  <1>1. TimersTypeOK' /\ NotYetRun'
    BY DEF ExpireTimer, TimersInv, TimersTypeOK, NotYetRun, Phases
  <1>2. SlotsOwned' /\ NoneLeaked'
    BY PhaseInv DEF ExpireTimer, TimersInv, TimersTypeOK, Phases, Live
  <1> QED
    BY <1>1, <1>2 DEF TimersInv

LEMMA CancelInv ==
  ASSUME TimersAssumption, TimersInv, NEW t \in Timers, CancelTimer(t)
  PROVE  TimersInv'
  <1>1. TimersTypeOK' /\ NotYetRun'
    BY DEF CancelTimer, TimersInv, TimersTypeOK, NotYetRun, Phases
  <1>2. SlotsOwned' /\ NoneLeaked'
    BY PhaseInv DEF CancelTimer, TimersInv, TimersTypeOK, Phases, Live
  <1> QED
    BY <1>1, <1>2 DEF TimersInv

\* A completion that runs a handler runs the one of its own timer, which has not run.
LEMMA CompleteRuns ==
  ASSUME TimersAssumption, TimersInv, NEW t \in Timers, Complete(t)
  PROVE  /\ runs' = runs \/ (/\ runs' = [runs EXCEPT ![t] = @ + 1]
                             /\ t \notin cancelled /\ phase[t] = "expired")
         /\ runs[t] = 0
  <1>1. /\ slots[index[t]].of = t /\ slots[ref[t]].of = t
        /\ slots[ref[t]] # NoTimer
    BY HolderFacts DEF Complete, TimersInv, SlotsOwned, Live
  <1>2. runs[t] = 0
    BY DEF Complete, TimersInv, NotYetRun
  <1> QED
    BY <1>1, <1>2 DEF Complete

LEMMA CompleteInv ==
  ASSUME TimersAssumption, TimersInv, NEW t \in Timers, Complete(t)
  PROVE  TimersInv'
  <1>1. /\ phase[t] \in {"expired", "aborted"}
        /\ phase' = [phase EXCEPT ![t] = "handling"]
        /\ UNCHANGED <<cancelled, index, ref, slots>>
    BY DEF Complete
  <1>2. TimersTypeOK'
    BY <1>1, CompleteRuns DEF TimersInv, TimersTypeOK, Phases
  <1>3. NotYetRun'
    BY <1>1, CompleteRuns DEF TimersInv, TimersTypeOK, NotYetRun
  <1>4. SlotsOwned' /\ NoneLeaked'
    BY <1>1, PhaseInv DEF TimersInv, TimersTypeOK, Phases, Live
  <1> QED
    BY <1>2, <1>3, <1>4 DEF TimersInv

\* The end of a completion gives back its own two slots.
LEMMA ReleaseInv ==
  ASSUME TimersAssumption, TimersInv, NEW t \in Timers, Release(t)
  PROVE  TimersInv'
  <1>1. /\ phase[t] = "handling" /\ phase' = [phase EXCEPT ![t] = "over"]
        /\ slots' = [slots EXCEPT ![index[t]] = NoTimer, ![ref[t]] = NoTimer]
        /\ UNCHANGED <<cancelled, index, ref, runs>>
    BY DEF Release
  <1>2. index[t] \in Slots /\ ref[t] \in Slots
    BY <1>1 DEF TimersInv, SlotsOwned, Live
  <1>3. TimersTypeOK'
    BY <1>1, <1>2 DEF TimersInv, TimersTypeOK, Phases
  <1>4. /\ slots'[index[t]] = NoTimer /\ slots'[ref[t]] = NoTimer
        /\ \A r \in Slots \ {index[t], ref[t]} : slots'[r] = slots[r]
    BY <1>1, <1>2 DEF TimersInv, TimersTypeOK
  <1>5. phase'[t] = "over" /\ \A u \in Timers \ {t} : phase'[u] = phase[u]
    BY <1>1 DEF TimersInv, TimersTypeOK
  <1>6. SlotsOwned'
    <2> SUFFICES ASSUME NEW u \in Timers, Live(u)'
                 PROVE  /\ index[u] \in Slots /\ ref[u] \in Slots /\ index[u] # ref[u]
                        /\ slots'[index[u]] = Holder(u, "handler")
                        /\ slots'[ref[u]] = Holder(u, "self")
      BY <1>1 DEF SlotsOwned, Holder
    <2>1. u # t /\ Live(u)
      BY <1>5 DEF Live
    <2>2. slots[index[u]].of = u /\ slots[ref[u]].of = u
      BY <2>1, HolderFacts DEF TimersInv, SlotsOwned
    <2>3. slots[index[t]].of = t /\ slots[ref[t]].of = t
      BY <1>1, HolderFacts DEF TimersInv, SlotsOwned, Live
    <2> QED
      BY <1>4, <2>1, <2>2, <2>3 DEF TimersInv, SlotsOwned
  <1>7. NoneLeaked'
    <2> SUFFICES ASSUME NEW r \in Slots, NEW u \in Timers,
                        slots'[r] # NoTimer, slots'[r].of = u
                 PROVE  Live(u)' /\ r \in {index[u], ref[u]}
      BY <1>1 DEF NoneLeaked
    <2>1. r \notin {index[t], ref[t]} /\ slots'[r] = slots[r]
      BY <1>4
    <2>2. Live(u) /\ r \in {index[u], ref[u]}
      BY <2>1 DEF TimersInv, NoneLeaked
    <2> QED
      BY <1>5, <2>1, <2>2 DEF Live
  <1>8. NotYetRun'
    BY <1>1, <1>5 DEF TimersInv, NotYetRun
  <1> QED
    BY <1>3, <1>6, <1>7, <1>8 DEF TimersInv

LEMMA NextTimers ==
  ASSUME TimersAssumption, TimersInv, [TimersNext]_timerVars
  PROVE  TimersInv'
  <1>1. CASE UNCHANGED timerVars
    BY <1>1 DEF timerVars, TimersInv, TimersTypeOK, SlotsOwned, NoneLeaked, NotYetRun, Live, Holder
  <1> QED
    BY <1>1, SchemeInv, ExpireInv, CancelInv, CompleteInv, ReleaseInv DEF TimersNext

\* A handler that runs in a step may run.
LEMMA NextRuns ==
  ASSUME TimersAssumption, TimersInv, [TimersNext]_timerVars, NEW t \in Timers, runs'[t] # runs[t]
  PROVE  runs[t] = 0 /\ t \notin cancelled /\ phase[t] = "expired"
  <1>1. PICK u \in Timers : Complete(u)
    BY DEF TimersNext, Scheme, ExpireTimer, CancelTimer, Release, timerVars
  <1>2. runs \in [Timers -> Nat]
    BY DEF TimersInv, TimersTypeOK
  <1>3. u = t
    BY <1>1, <1>2, CompleteRuns
  <1> QED
    BY <1>1, <1>3, CompleteRuns

\* A timer keeps its two slots exactly until its completion has run, and a handler
\* runs once at most, not after a cancel.
THEOREM TimersAreSound ==
  ASSUME TimersAssumption PROVE TimersSpec => TimersSound
  <1>1. TimersInit => TimersInv
    BY InitTimers
  <1>2. TimersInv /\ [TimersNext]_timerVars => TimersInv'
    BY NextTimers
  <1>3. TimersInv /\ [TimersNext]_timerVars => [SlotsKept' /\ FiresOnce]_timerVars
    <2> SUFFICES ASSUME TimersInv, [TimersNext]_timerVars
                 PROVE  SlotsKept' /\ FiresOnce
      OBVIOUS
    <2>1. TimersInv'
      BY NextTimers
    <2>2. SlotsKept'
      BY <2>1, InvKept, PTL
    <2>3. FiresOnce
      BY NextRuns DEF FiresOnce
    <2> QED
      BY <2>2, <2>3
  <1> QED
    BY <1>1, <1>2, <1>3, PTL DEF TimersSpec, TimersSound

-----------------------------------------------------------------------------
(* The check thread. *)

\* The last visit that os.wait told of was the last one that changed age.
ToldAge == \A s \in States : kept[s] <= Interval => age[s] = kept[s]

AgeBounded == \A s \in States : age[s] <= waited[s] + Interval

CheckInv == CheckTypeOK /\ ToldAge /\ AgeBounded

\* The initial states satisfy the invariant.
LEMMA InitCheck == ASSUME WatchdogAssumption PROVE CheckInit => CheckInv
  <1> SUFFICES ASSUME WatchdogAssumption, CheckInit PROVE CheckInv
    OBVIOUS
  <1> USE DEF WatchdogAssumption, CheckInit
  <1>1. Interval + 1 \in 0..Interval + 1 /\ 0 \in 0..Timeout /\ "lua" \in Modes
    BY DEF Modes
  <1>2. CheckTypeOK
    BY <1>1 DEF CheckTypeOK
  <1>3. ToldAge /\ AgeBounded
    BY DEF ToldAge, AgeBounded
  <1> QED
    BY <1>2, <1>3 DEF CheckInv

\* Every step keeps it.
LEMMA NextCheck ==
  ASSUME WatchdogAssumption, CheckInv, [CheckNext]_watchdogVars
  PROVE  CheckInv'
  <1> USE DEF WatchdogAssumption
  <1>t. CheckTypeOK
    BY DEF CheckInv
  <1>1. CASE UNCHANGED watchdogVars
    BY <1>1 DEF watchdogVars, CheckInv, CheckTypeOK, ToldAge, AgeBounded
  <1>2. CASE Tick
    <2>1. CheckTypeOK'
      BY <1>2, <1>t DEF Tick, CheckTypeOK, Older
    <2>2. ToldAge'
      <3> SUFFICES ASSUME NEW s \in States, kept'[s] <= Interval
                   PROVE  age'[s] = kept'[s]
        BY DEF ToldAge
      <3>1. kept[s] < Interval + 1 /\ kept'[s] = kept[s] + 1 /\ kept[s] \in Nat
        BY <1>2, <1>t DEF Tick, CheckTypeOK, Older
      <3>2. age[s] = kept[s]
        BY <3>1 DEF CheckInv, ToldAge
      <3> QED
        BY <1>2, <3>1, <3>2 DEF Tick, Older
    <2>3. AgeBounded'
      <3> SUFFICES ASSUME NEW s \in States
                   PROVE  age'[s] <= waited'[s] + Interval
        BY DEF AgeBounded
      <3>1. age[s] \in 0..Timeout /\ waited[s] \in 0..Timeout
        BY <1>t DEF CheckTypeOK
      <3>2. age[s] <= waited[s] + Interval
        BY DEF CheckInv, AgeBounded
      <3> QED
        BY <1>2, <3>1, <3>2 DEF Tick, Older
    <2> QED
      BY <2>1, <2>2, <2>3 DEF CheckInv
  <1>3. CASE AliveCheck
    BY <1>3 DEF AliveCheck, Stalled, CheckInv, CheckTypeOK, ToldAge, AgeBounded
  <1>4. ASSUME NEW s \in States, Wait(s) PROVE CheckInv'
    <2>1. CheckTypeOK'
      BY <1>4, <1>t DEF Wait, KeepAlive, CheckTypeOK, Modes
    <2>2. CASE kept[s] > Interval
      BY <1>4, <1>t, <2>1, <2>2 DEF Wait, KeepAlive, CheckInv, CheckTypeOK, ToldAge, AgeBounded
    <2>3. CASE ~(kept[s] > Interval)
      <3>1. kept[s] \in Nat /\ age[s] = kept[s]
        BY <1>t, <2>3 DEF CheckInv, CheckTypeOK, ToldAge
      <3> QED
        BY <1>4, <1>t, <2>1, <2>3, <3>1
        DEF Wait, KeepAlive, CheckInv, CheckTypeOK, ToldAge, AgeBounded
    <2> QED
      BY <2>2, <2>3
  <1>5. ASSUME NEW s \in States,
               Interrupt(s) \/ Block(s) \/ Unblock(s) \/ Run(s) \/ CloseState(s)
        PROVE  CheckInv'
    <2>1. UNCHANGED <<age, kept, waited>>
      BY <1>5 DEF Interrupt, Block, Unblock, Run, CloseState
    <2>2. CheckTypeOK'
      BY <1>5, <1>t DEF Interrupt, Block, Unblock, Run, CloseState, CheckTypeOK, Modes
    <2> QED
      BY <2>1, <2>2 DEF CheckInv, ToldAge, AgeBounded
  <1> QED
    BY <1>1, <1>2, <1>3, <1>4, <1>5 DEF CheckNext

\* The hook is set by the check thread only, for a state it finds too old.
LEMMA HookSet ==
  ASSUME WatchdogAssumption, CheckInv, [CheckNext]_watchdogVars, NEW s \in hook' \ hook,
         s \in States
  PROVE  waited[s] + Interval >= Timeout
  <1>1. AliveCheck
    BY DEF CheckNext, Tick, Interrupt, Block, Unblock, Wait, Run, CloseState, watchdogVars
  <1>2. age[s] = Timeout
    BY <1>1 DEF AliveCheck, Stalled
  <1>3. waited[s] \in 0..Timeout /\ age[s] <= waited[s] + Interval
    BY DEF CheckInv, CheckTypeOK, AgeBounded
  <1> QED
    BY <1>2, <1>3 DEF WatchdogAssumption

\* A service is given the hook only when it has not been in os.wait for the timeout,
\* up to the interval in which os.wait does not tell the check thread.
THEOREM OnlyStalledArmed ==
  ASSUME WatchdogAssumption PROVE CheckSpec => ArmedOnStall
  <1>1. CheckInit => CheckInv
    BY InitCheck
  <1>2. CheckInv /\ [CheckNext]_watchdogVars => CheckInv'
    BY NextCheck
  <1>3. CheckInv /\ [CheckNext]_watchdogVars
        => [\A s \in States : s \in hook' \ hook =>
              waited[s] + Interval >= Timeout]_watchdogVars
    BY HookSet
  <1> QED
    BY <1>1, <1>2, <1>3, PTL DEF CheckSpec, ArmedOnStall

\* What the check thread believes is never younger than the truth.
AgeAhead == \A s \in States : waited[s] <= age[s]

LEMMA NextAhead ==
  ASSUME WatchdogAssumption, CheckInv, AgeAhead, [CheckNext]_watchdogVars
  PROVE  AgeAhead'
  <1>t. CheckTypeOK
    BY DEF CheckInv
  <1> SUFFICES ASSUME NEW s \in States PROVE waited'[s] <= age'[s]
    BY DEF AgeAhead
  <1>1. /\ waited[s] \in 0..Timeout /\ age[s] \in 0..Timeout /\ waited[s] <= age[s]
        /\ Timeout \in Nat
    BY <1>t DEF CheckTypeOK, AgeAhead, WatchdogAssumption
  <1>2. CASE Tick
    <2>1. waited'[s] = Older(waited[s], Timeout) /\ age'[s] = Older(age[s], Timeout)
      BY <1>2 DEF Tick
    <2> QED
      BY <1>1, <2>1 DEF Older
  <1>3. ASSUME NEW u \in States, Wait(u) PROVE waited'[s] <= age'[s]
    <2>1. waited' = [waited EXCEPT ![u] = 0] /\ (age' = age \/ age' = [age EXCEPT ![u] = 0])
      BY <1>3 DEF Wait, KeepAlive
    <2>2. CASE s = u
      <3>1. waited'[s] = 0 /\ (age'[s] = age[s] \/ age'[s] = 0)
        BY <1>t, <2>1, <2>2 DEF CheckTypeOK
      <3> QED
        BY <1>1, <3>1
    <2>3. CASE s # u
      BY <1>1, <1>t, <2>1, <2>3 DEF CheckTypeOK
    <2> QED
      BY <2>2, <2>3
  <1>4. CASE UNCHANGED <<age, waited>>
    BY <1>1, <1>4
  <1> QED
    BY <1>2, <1>3, <1>4
       DEF CheckNext, AliveCheck, Interrupt, Block, Unblock, Run, CloseState, watchdogVars

\* A check finds every service that has not been in os.wait for the timeout.
NoStallMissed ==
  [][AliveCheck =>
       \A s \in States : waited[s] = Timeout /\ mode[s] # "closed" => s \in hook']_watchdogVars

\* What of "a service that does not come back is interrupted" is safety: however a
\* service came and went before, and however os.wait held back what it told, the first
\* check after the timeout arms the hook (alive_check, luaos_wait).
THEOREM NoStallMissedAlways ==
  ASSUME WatchdogAssumption PROVE CheckSpec => NoStallMissed
  <1>1. CheckInit => CheckInv /\ AgeAhead
    <2>1. CheckInit => AgeAhead
      BY DEF CheckInit, AgeAhead
    <2> QED
      BY <2>1, InitCheck
  <1>2. CheckInv /\ AgeAhead /\ [CheckNext]_watchdogVars => CheckInv' /\ AgeAhead'
    BY NextCheck, NextAhead
  <1>3. CheckInv /\ AgeAhead
          => [AliveCheck =>
                \A s \in States :
                  waited[s] = Timeout /\ mode[s] # "closed" => s \in hook']_watchdogVars
    <2> SUFFICES ASSUME CheckInv, AgeAhead, AliveCheck,
                        NEW s \in States, waited[s] = Timeout, mode[s] # "closed"
                 PROVE  s \in hook'
      OBVIOUS
    <2>1. waited[s] <= age[s] /\ age[s] \in 0..Timeout
      BY DEF AgeAhead, CheckInv, CheckTypeOK
    <2>2. age[s] = Timeout
      BY <2>1 DEF WatchdogAssumption
    <2> QED
      BY <2>2 DEF AliveCheck, Stalled
  <1> QED
    BY <1>1, <1>2, <1>3, PTL DEF CheckSpec, NoStallMissed

-----------------------------------------------------------------------------
(* The storage. *)

Frame == [key : Keys, old : Values \union {Nil}]

\* A function runs exactly while somebody has the mutex.
HeldByFrames == owner = Nil <=> frames = <<>>

\* The outermost function is the last of the frames.
Outermost == frames[Len(frames)]
Merged(k) == [kind |-> "merge", key |-> k]

\* The acts L are of s, the first one is op, and each finds what the one before it left,
\* the first one m.
Found(L, m, i) == IF i = 1 THEN m ELSE L[i - 1].map
Chain(L, s, op, m) ==
  /\ L \in Seq(Act) /\ Len(L) > 0 /\ L[1].op = op /\ L[1].depth = 0
  /\ \A i \in 1..Len(L) : L[i].by = s
  /\ \A i \in 2..Len(L) :
       L[i].depth = IF Map!Ends(L[i]) THEN Map!Running(L[i - 1]) - 1 ELSE Map!Running(L[i - 1])
  /\ \A i \in 1..Len(L) :
       L[i].map = Map!After(L[i].op, Found(L, m, i)) /\ Map!Answers(L, i, Found(L, m, i))

\* No act has ended the outermost function.
Unfinished(L) == \A i \in 1..Len(L) : Map!Running(L[i]) > 0

\* The start of the p-th function of F is the j-th act of L, and no later one ended it.
Opened(L, F, p, j) ==
  /\ L[j].op = Merged(F[p].key) /\ L[j].value = F[p].old /\ L[j].depth = Len(F) - p
  /\ \A l \in j + 1..Len(L) : L[l].depth > Len(F) - p
AllOpened(L, F) == \A p \in 1..Len(F) : \E j \in 1..Len(L) : Opened(L, F, p, j)

\* What was done since the mutex was taken led from what was stored then to what is
\* stored now, and to the functions that run.
Logged ==
  IF frames = <<>> THEN acts = <<>>
  ELSE /\ Chain(acts, owner, Merged(Outermost.key), acts[1].map)
       /\ Unfinished(acts) /\ AllOpened(acts, frames)
       /\ Map!Running(acts[Len(acts)]) = Len(frames)
       /\ acts[Len(acts)].map = store

StoreInv == StoreTypeOK /\ HeldByFrames /\ Logged

-----------------------------------------------------------------------------
\* The initial states satisfy the invariant.
LEMMA InitStore == ASSUME StorageAssumption PROVE StoreInit => StoreInv
<1> SUFFICES ASSUME StoreInit PROVE StoreInv
  OBVIOUS
<1>1. <<>> \in Seq(Act) /\ frames \in Seq(Frame)
  BY DEF StoreInit
<1>2. StoreTypeOK
  BY <1>1 DEF StorageAssumption, StoreInit, StoreTypeOK, Frame
<1>3. QED
  BY <1>2 DEF StoreInit, StoreInv, HeldByFrames, Logged

\* What an operation that Enters wants.
LEMMA Wanted ==
  ASSUME StorageAssumption, StoreTypeOK, NEW s \in Services, want[s] # Nil
  PROVE  /\ want[s] \in Op
         /\ want[s].kind \in {"get", "erase", "set", "merge", "clear"}
         /\ want[s].kind \in {"get", "erase", "set", "merge"} => want[s].key \in Keys
         /\ want[s].kind = "set" => want[s].value \in Values \union {Nil}
         /\ want[s].kind = "merge" => want[s] = Merged(want[s].key)
         /\ [want EXCEPT ![s] = Nil] \in [Services -> Op \union {Nil}]
  <1>1. want[s] \in Op
    BY DEF StoreTypeOK
  <1>2. CASE want[s] \in [kind : {"get", "erase", "merge"}, key : Keys]
    BY <1>1, <1>2 DEF StoreTypeOK, Merged
  <1>3. CASE want[s] \in [kind : {"set"}, key : Keys, value : Values \union {Nil}]
    BY <1>1, <1>3 DEF StoreTypeOK
  <1>4. CASE want[s] \in [kind : {"clear"}]
    BY <1>1, <1>4 DEF StoreTypeOK
  <1> QED
    BY <1>1, <1>2, <1>3, <1>4 DEF Op

\* The frames of a state of the invariant.
LEMMA FramesTyped ==
  ASSUME StoreInv
  PROVE  /\ frames \in Seq(Frame) /\ Len(frames) \in Nat
         /\ frames # <<>> => /\ Head(frames) \in Frame /\ Tail(frames) \in Seq(Frame)
                             /\ Head(frames) = frames[1] /\ Len(frames) > 0
                             /\ Len(Tail(frames)) = Len(frames) - 1
                             /\ \A p \in 1..Len(frames) - 1 : Tail(frames)[p] = frames[p + 1]
  <1>1. frames \in Seq(Frame)
    BY DEF StoreInv, StoreTypeOK, Frame
  <1>2. Len(frames) \in Nat
    BY <1>1, LenProperties
  <1>3. frames # <<>> => Head(frames) = frames[1] /\ Len(frames) > 0
    BY <1>1, <1>2, EmptySeq
  <1> QED
    BY <1>1, <1>2, <1>3, HeadTailProperties

-----------------------------------------------------------------------------
(* The acts. *)

\* An act more.
LEMMA Appended ==
  ASSUME NEW L \in Seq(Act), NEW a \in Act
  PROVE  /\ Append(L, a) \in Seq(Act) /\ Len(Append(L, a)) = Len(L) + 1 /\ Len(L) \in Nat
         /\ \A i \in 1..Len(L) : Append(L, a)[i] = L[i]
         /\ Append(L, a)[Len(L) + 1] = a
  BY AppendProperties, LenProperties

\* What an act answered is not changed by a later one.
LEMMA AnswersStay ==
  ASSUME NEW L \in Seq(Act), NEW a \in Act, NEW i \in 1..Len(L), NEW m, Map!Answers(L, i, m)
  PROVE  Map!Answers(Append(L, a), i, m)
<1> DEFINE N == Append(L, a)
<1>1. Len(L) \in Nat /\ \A j \in 1..Len(L) : N[j] = L[j]
  BY Appended
<1> HIDE DEF N
<1>2. N[i] = L[i]
  BY <1>1
<1>3. CASE Map!Ends(L[i])
  <2>1. PICK j \in 1..i - 1 :
          /\ Map!Closes(L, i, j)
          /\ L[i].value = IF L[i].op.kind = "return" THEN L[j].value ELSE Nil
    BY <1>3 DEF Map!Answers
  <2>2. j \in 1..Len(L) /\ \A l \in j + 1..i - 1 : l \in 1..Len(L)
    BY <1>1, <2>1
  <2>3. N[j] = L[j] /\ \A l \in j + 1..i - 1 : N[l] = L[l]
    BY <1>1, <2>2
  <2>4. Map!Closes(N, i, j)
    BY <1>2, <2>1, <2>3 DEF Map!Closes
  <2>5. QED
    BY <1>2, <1>3, <2>1, <2>3, <2>4 DEF Map!Answers, N
<1>4. CASE ~Map!Ends(L[i])
  BY <1>2, <1>4 DEF Map!Answers, N
<1>5. QED
  BY <1>3, <1>4

\* An act that finds what the last one left makes the chain longer.
LEMMA ChainGrows ==
  ASSUME NEW L, NEW s, NEW op, NEW m, Chain(L, s, op, m), NEW a \in Act, a.by = s,
         a.depth = IF Map!Ends(a) THEN Map!Running(L[Len(L)]) - 1 ELSE Map!Running(L[Len(L)]),
         a.map = Map!After(a.op, L[Len(L)].map),
         Map!Answers(Append(L, a), Len(L) + 1, L[Len(L)].map)
  PROVE  Chain(Append(L, a), s, op, m)
<1> DEFINE n == Len(L)
<1> DEFINE N == Append(L, a)
<1>1. L \in Seq(Act) /\ n > 0
  BY DEF Chain
<1>2. /\ N \in Seq(Act) /\ Len(N) = n + 1 /\ n \in Nat
      /\ \A i \in 1..n : N[i] = L[i]
      /\ N[n + 1] = a
  BY <1>1, Appended
<1>3. Map!Answers(N, n + 1, L[n].map)
  OBVIOUS
<1>4. \A i \in 1..n : Map!Answers(L, i, Found(L, m, i)) => Map!Answers(N, i, Found(L, m, i))
  BY <1>1, AnswersStay
<1> HIDE DEF N, n
<1>5. N[1] = L[1] /\ n \in 1..n /\ N[n] = L[n]
  BY <1>1, <1>2
<1>6. \A i \in 1..Len(N) : N[i].by = s
  <2> TAKE i \in 1..Len(N)
  <2>1. CASE i \in 1..n
    BY <1>2, <2>1 DEF Chain, n
  <2>2. CASE i = n + 1
    BY <1>2, <2>2
  <2>3. QED
    BY <1>2, <2>1, <2>2
<1>7. \A i \in 2..Len(N) :
        N[i].depth = IF Map!Ends(N[i]) THEN Map!Running(N[i - 1]) - 1 ELSE Map!Running(N[i - 1])
  <2> TAKE i \in 2..Len(N)
  <2>1. CASE i \in 2..n
    <3>1. N[i] = L[i] /\ N[i - 1] = L[i - 1]
      BY <1>2, <2>1
    <3>2. L[i].depth = IF Map!Ends(L[i]) THEN Map!Running(L[i - 1]) - 1 ELSE Map!Running(L[i - 1])
      BY <2>1 DEF Chain, n
    <3>3. QED
      BY <3>1, <3>2
  <2>2. CASE i = n + 1
    <3>1. N[i] = a /\ N[i - 1] = L[n]
      BY <1>2, <1>5, <2>2
    <3>2. QED
      BY <3>1 DEF n
  <2>3. QED
    BY <1>2, <2>1, <2>2
<1>8. \A i \in 1..Len(N) :
        N[i].map = Map!After(N[i].op, Found(N, m, i)) /\ Map!Answers(N, i, Found(N, m, i))
  <2> TAKE i \in 1..Len(N)
  <2>1. CASE i \in 1..n
    <3>1. N[i] = L[i] /\ Found(N, m, i) = Found(L, m, i)
      <4>1. i # 1 => N[i - 1] = L[i - 1]
        BY <1>2, <2>1
      <4>2. QED
        BY <1>2, <2>1, <4>1 DEF Found
    <3>2. L[i].map = Map!After(L[i].op, Found(L, m, i)) /\ Map!Answers(L, i, Found(L, m, i))
      BY <2>1 DEF Chain, n
    <3>3. QED
      BY <1>4, <2>1, <3>1, <3>2
  <2>2. CASE i = n + 1
    <3>1. N[i] = a /\ Found(N, m, i) = L[n].map
      BY <1>1, <1>2, <1>5, <2>2 DEF Found
    <3>2. QED
      BY <1>3, <2>2, <3>1 DEF n
  <2>3. QED
    BY <1>2, <2>1, <2>2
<1>9. L[1].op = op /\ L[1].depth = 0 /\ Len(N) > 0
  BY <1>2 DEF Chain
<1>10. QED
  BY <1>2, <1>5, <1>6, <1>7, <1>8, <1>9 DEF Chain, N

\* The first act makes a chain.
LEMMA ChainStarts ==
  ASSUME NEW a \in Act, a.depth = 0, NEW m,
         a.map = Map!After(a.op, m), Map!Answers(<<a>>, 1, m)
  PROVE  /\ Append(<<>>, a) = <<a>> /\ Len(<<a>>) = 1 /\ <<a>>[1] = a
         /\ Chain(<<a>>, a.by, a.op, m)
<1> DEFINE N == <<a>>
<1>1. Append(<<>>, a) = N /\ Len(N) = 1 /\ N[1] = a /\ N \in Seq(Act)
  OBVIOUS
<1>2. Map!Answers(N, 1, m)
  OBVIOUS
<1> HIDE DEF N
<1>3. Found(N, m, 1) = m
  BY DEF Found
<1>4. \A i \in 1..Len(N) : i = 1
  BY <1>1
<1>5. \A i \in 2..Len(N) : FALSE
  BY <1>1
<1>6. Chain(N, a.by, a.op, m)
  BY <1>1, <1>2, <1>3, <1>4, <1>5 DEF Chain
<1>7. QED
  BY <1>1, <1>6 DEF N


\* An act inside the p-th function leaves it open.
LEMMA OpenedStays ==
  ASSUME NEW L \in Seq(Act), NEW F, Len(F) \in Nat, NEW p \in 1..Len(F), NEW j \in 1..Len(L),
         Opened(L, F, p, j), NEW a \in Act, a.depth > Len(F) - p
  PROVE  Opened(Append(L, a), F, p, j)
<1> DEFINE N == Append(L, a)
<1>1. /\ Len(N) = Len(L) + 1 /\ Len(L) \in Nat
      /\ \A i \in 1..Len(L) : N[i] = L[i]
      /\ N[Len(L) + 1] = a
  BY Appended
<1> HIDE DEF N
<1>2. N[j] = L[j]
  BY <1>1
<1>3. \A l \in j + 1..Len(N) : N[l].depth > Len(F) - p
  <2> TAKE l \in j + 1..Len(N)
  <2>1. CASE l = Len(L) + 1
    BY <1>1, <2>1
  <2>2. CASE l # Len(L) + 1
    <3>1. l \in 1..Len(L) /\ l \in j + 1..Len(L)
      BY <1>1, <2>2
    <3>2. QED
      BY <1>1, <3>1 DEF Opened
  <2>3. QED
    BY <2>1, <2>2
<1>4. QED
  BY <1>2, <1>3 DEF Opened, N

\* The kinds of what is done.
LEMMA Kinds ==
  ASSUME NEW op
  PROVE  /\ op \in Op => op.kind \in {"get", "erase", "merge", "set", "clear"}
         /\ op \in End => op.kind \in {"return", "fail"} /\ op.key \in Keys
  BY DEF Op, End

\* The act that Leaves notes.
Noted(s, op, rest, v) == [by |-> s, op |-> op, depth |-> Len(rest), value |-> v, map |-> store']

\* What s does is an operation without a function, or the end of the innermost one.
Fits(s, op, rest, v) ==
  /\ s \in Services /\ owner \in {Nil, s}
  /\ v \in Values \union {Nil} /\ store' \in [Keys -> Values \union {Nil}]
  /\ store' = Map!After(op, store)
  /\ \/ /\ rest = frames /\ op \in Op /\ op.kind # "merge"
        /\ v = IF op.kind = "clear" THEN Nil ELSE store[op.key]
     \/ /\ frames # <<>> /\ rest = Tail(frames) /\ op \in End /\ op.key = Head(frames).key
        /\ v = IF op.kind = "return" THEN Head(frames).old ELSE Nil

\* The functions that still run after it, and the acts before it.
LEMMA FitsFacts ==
  ASSUME StorageAssumption, StoreInv, NEW s, NEW op, NEW rest, NEW v, Fits(s, op, rest, v)
  PROVE  /\ rest \in Seq(Frame) /\ Len(rest) \in Nat
         /\ Noted(s, op, rest, v) \in Act /\ acts \in Seq(Act)
         /\ Log(s, op, rest, v) = Append(acts, Noted(s, op, rest, v))
         /\ Map!Running(Noted(s, op, rest, v)) = Len(rest)
         /\ Map!Ends(Noted(s, op, rest, v)) <=> op \in End
         /\ (op \in Op /\ rest = frames) \/ (op \in End /\ frames # <<>> /\ rest = Tail(frames))
         /\ (frames # <<>> => owner = s) /\ (frames = <<>> => owner = Nil /\ rest = frames)
<1>1. rest \in Seq(Frame) /\ Len(rest) \in Nat
  BY FramesTyped, LenProperties DEF Fits
<1>2. acts \in Seq(Act) /\ s # Nil
  BY DEF StoreInv, StoreTypeOK, StorageAssumption, Fits
<1>3. op \in Op \union End /\ op.kind # "merge"
  BY Kinds DEF Fits
<1>4. Noted(s, op, rest, v) \in Act
  BY <1>1, <1>3 DEF Noted, Act, Fits
<1>5. Map!Ends(Noted(s, op, rest, v)) <=> op \in End
  BY Kinds DEF Fits, Map!Ends, Noted
<1>6. Map!Running(Noted(s, op, rest, v)) = Len(rest)
  BY <1>3 DEF Map!Running, Noted
<1>7. QED
  BY <1>1, <1>2, <1>4, <1>5, <1>6 DEF Fits, Log, Noted, StoreInv, HeldByFrames

\* With it, what was done is still a chain.
LEMMA FitsChain ==
  ASSUME StorageAssumption, StoreInv, NEW s, NEW op, NEW rest, NEW v, Fits(s, op, rest, v)
  PROVE  Chain(Log(s, op, rest, v), s, IF frames = <<>> THEN op ELSE Merged(Outermost.key), Stored)
<1> DEFINE a == Noted(s, op, rest, v)
<1>1. /\ a \in Act /\ Log(s, op, rest, v) = Append(acts, a) /\ acts \in Seq(Act)
      /\ Map!Ends(a) <=> op \in End
      /\ (op \in Op /\ rest = frames) \/ (op \in End /\ frames # <<>> /\ rest = Tail(frames))
      /\ (frames # <<>> => owner = s) /\ (frames = <<>> => owner = Nil /\ rest = frames)
  BY FitsFacts
<1>2. a.by = s /\ a.op = op /\ a.depth = Len(rest) /\ a.value = v /\ a.map = Map!After(op, store)
  BY DEF Noted, Fits
<1> HIDE DEF a
<1>3. CASE frames = <<>>
  <2>1. acts = <<>> /\ Stored = store /\ a.depth = 0 /\ ~Map!Ends(a)
    <3>1. op \in Op /\ op \notin End
      BY <1>1, <1>3, Kinds
    <3>2. QED
      BY <1>1, <1>2, <1>3, <3>1 DEF StoreInv, Logged, Stored
  <2>2. v = IF op.kind = "clear" THEN Nil ELSE store[op.key]
    BY <1>3, <2>1, <1>1 DEF Fits
  <2>3. Map!Answers(<<a>>, 1, store)
    <3> DEFINE N == <<a>>
    <3>1. N[1] = a
      OBVIOUS
    <3> HIDE DEF N
    <3>2. Map!Answers(N, 1, store)
      BY <1>2, <2>1, <2>2, <3>1 DEF Map!Answers
    <3>3. QED
      BY <3>2 DEF N
  <2>4. Append(<<>>, a) = <<a>> /\ Chain(<<a>>, a.by, a.op, store)
    BY <1>1, <1>2, <2>1, <2>3, ChainStarts
  <2>5. QED
    BY <1>1, <1>2, <1>3, <2>1, <2>4
<1>4. CASE frames # <<>>
  <2> DEFINE n == Len(acts)
  <2> DEFINE N == Append(acts, a)
  <2>1. /\ Chain(acts, s, Merged(Outermost.key), acts[1].map) /\ AllOpened(acts, frames)
        /\ Map!Running(acts[n]) = Len(frames) /\ acts[n].map = store
    BY <1>1, <1>4 DEF StoreInv, Logged
  <2>2. /\ Len(N) = n + 1 /\ n \in Nat /\ N[n + 1] = a /\ \A i \in 1..n : N[i] = acts[i]
    BY <1>1, Appended
  <2>3. Stored = acts[1].map
    BY <2>1 DEF Chain, Stored
  <2>4. Len(frames) \in Nat /\ Len(frames) > 0 /\ Head(frames) = frames[1] /\ Len(Tail(frames)) = Len(frames) - 1
    BY <1>4, FramesTyped
  <2> HIDE DEF n, N
  <2>5. Map!Answers(N, n + 1, store)
    <3>1. CASE op \in Op
      <4>1. ~Map!Ends(a) /\ op \notin End
        BY <1>1, <3>1, Kinds
      <4>2. v = IF op.kind = "clear" THEN Nil ELSE store[op.key]
        BY <4>1 DEF Fits
      <4>3. QED
        BY <1>2, <2>2, <4>1, <4>2 DEF Map!Answers
    <3>2. CASE op \in End
      <4>1. Map!Ends(a) /\ op \notin Op /\ rest = Tail(frames)
        BY <1>1, <3>2, Kinds
      <4>2. op.key = frames[1].key /\ v = IF op.kind = "return" THEN frames[1].old ELSE Nil
        BY <2>4, <4>1 DEF Fits
      <4>3. PICK j \in 1..n : Opened(acts, frames, 1, j)
        BY <2>1, <2>4 DEF AllOpened, n
      <4>4. /\ acts[j].op = Merged(op.key) /\ acts[j].value = frames[1].old /\ acts[j].depth = a.depth
            /\ \A l \in j + 1..n : acts[l].depth > a.depth
        BY <1>2, <2>4, <4>1, <4>2, <4>3 DEF Opened, n
      <4>5. Map!Closes(N, n + 1, j)
        <5>1. N[j] = acts[j] /\ N[n + 1] = a
          BY <2>2
        <5>2. \A l \in j + 1..(n + 1) - 1 : N[l].depth > a.depth
          <6> TAKE l \in j + 1..(n + 1) - 1
          <6>1. l \in 1..n /\ l \in j + 1..n
            BY <2>2
          <6>2. QED
            BY <2>2, <4>4, <6>1
        <5>3. acts[j].op.kind = "merge" /\ acts[j].op.key = op.key
          BY <4>4 DEF Merged
        <5>4. QED
          BY <1>2, <4>4, <5>1, <5>2, <5>3 DEF Map!Closes
      <4>6. j \in 1..(n + 1) - 1 /\ N[j].value = frames[1].old
        BY <2>2, <4>4
      <4>7. N[n + 1].value = IF N[n + 1].op.kind = "return" THEN N[j].value ELSE Nil
        BY <1>2, <2>2, <4>2, <4>6
      <4>8. Map!Ends(N[n + 1])
        BY <2>2, <4>1
      <4>9. QED
        BY <4>5, <4>6, <4>7, <4>8 DEF Map!Answers
    <3>3. QED
      BY <1>1, <3>1, <3>2
  <2>6. a.depth = IF Map!Ends(a) THEN Map!Running(acts[n]) - 1 ELSE Map!Running(acts[n])
    <3>1. op \in Op => op \notin End
      BY Kinds
    <3>2. QED
      BY <1>1, <1>2, <2>1, <2>4, <3>1
  <2>7. Chain(N, s, Merged(Outermost.key), acts[1].map)
    <3>1. a.map = Map!After(a.op, acts[Len(acts)].map)
      BY <1>2, <2>1 DEF n
    <3>2. Map!Answers(Append(acts, a), Len(acts) + 1, acts[Len(acts)].map)
      BY <2>1, <2>5 DEF n, N
    <3>3. a.depth = IF Map!Ends(a) THEN Map!Running(acts[Len(acts)]) - 1 ELSE Map!Running(acts[Len(acts)])
      BY <2>6 DEF n
    <3>4. QED
      BY <1>1, <1>2, <2>1, <3>1, <3>2, <3>3, ChainGrows DEF N
  <2>8. QED
    BY <1>1, <1>4, <2>3, <2>7 DEF N
<1>5. QED
  BY <1>3, <1>4


\* What the acts look like after it.
LEMMA FitsLog ==
  ASSUME StorageAssumption, StoreInv, NEW s, NEW op, NEW rest, NEW v, Fits(s, op, rest, v)
  PROVE  LET N == Log(s, op, rest, v)
         IN  /\ N \in Seq(Act) /\ Len(N) = Len(acts) + 1 /\ Len(acts) \in Nat
             /\ \A i \in 1..Len(acts) : Map!Running(N[i]) > 0
             /\ Map!Running(N[Len(N)]) = Len(rest) /\ N[Len(N)].map = store'
             /\ rest # <<>> => N[1] = acts[1] /\ acts # <<>> /\ AllOpened(N, rest)
<1> DEFINE a == Noted(s, op, rest, v)
<1> DEFINE N == Append(acts, a)
<1> DEFINE n == Len(acts)
<1>1. /\ rest \in Seq(Frame) /\ Len(rest) \in Nat /\ a \in Act /\ acts \in Seq(Act)
      /\ Log(s, op, rest, v) = N /\ Map!Running(a) = Len(rest)
      /\ (op \in Op /\ rest = frames) \/ (op \in End /\ frames # <<>> /\ rest = Tail(frames))
  BY FitsFacts
<1>2. a.map = store' /\ a.depth = Len(rest)
  BY DEF Noted
<1> HIDE DEF a
<1>3. /\ N \in Seq(Act) /\ Len(N) = n + 1 /\ n \in Nat /\ N[n + 1] = a /\ \A i \in 1..n : N[i] = acts[i]
  BY <1>1, Appended
<1> HIDE DEF N
<1>4. \A i \in 1..n : Map!Running(N[i]) > 0
  <2>1. CASE frames = <<>>
    BY <1>3, <2>1 DEF StoreInv, Logged
  <2>2. CASE frames # <<>>
    BY <1>3, <2>2 DEF StoreInv, Logged, Unfinished
  <2>3. QED
    BY <2>1, <2>2
<1>5. ASSUME rest # <<>> PROVE N[1] = acts[1] /\ acts # <<>> /\ AllOpened(N, rest)
  <2>1. frames # <<>>
    BY <1>1, <1>5
  <2>2. AllOpened(acts, frames) /\ n > 0 /\ acts # <<>>
    BY <1>3, <2>1 DEF StoreInv, Logged, Chain
  <2>3. /\ Len(frames) \in Nat /\ Len(frames) > 0 /\ Len(Tail(frames)) = Len(frames) - 1
        /\ \A p \in 1..Len(frames) - 1 : Tail(frames)[p] = frames[p + 1]
    BY <2>1, FramesTyped
  <2>4. ASSUME NEW p \in 1..Len(rest) PROVE \E j \in 1..Len(N) : Opened(N, rest, p, j)
    <3>1. CASE rest = frames
      <4>1. PICK j \in 1..n : Opened(acts, rest, p, j)
        BY <2>2, <3>1 DEF AllOpened
      <4>2. a.depth > Len(rest) - p
        BY <1>1, <1>2
      <4>3. Opened(N, rest, p, j)
        BY <1>1, <4>1, <4>2, OpenedStays DEF N
      <4>4. QED
        BY <1>3, <4>3
    <3>2. CASE rest = Tail(frames)
      <4> DEFINE q == p + 1
      <4>1. q \in 1..Len(frames) /\ rest[p] = frames[q] /\ Len(frames) - q = Len(rest) - p
        BY <2>3, <3>2
      <4> HIDE DEF q
      <4>2. PICK j \in 1..n : Opened(acts, frames, q, j)
        BY <2>2, <4>1 DEF AllOpened
      <4>3. Opened(acts, rest, p, j)
        BY <4>1, <4>2 DEF Opened
      <4>4. a.depth > Len(rest) - p
        BY <1>1, <1>2
      <4>5. Opened(N, rest, p, j)
        BY <1>1, <4>3, <4>4, OpenedStays DEF N
      <4>6. QED
        BY <1>3, <4>5
    <3>3. QED
      BY <1>1, <3>1, <3>2
  <2>5. QED
    BY <1>3, <2>2, <2>4 DEF AllOpened
<1>6. QED
  BY <1>1, <1>2, <1>3, <1>4, <1>5

\* What a step does to the variables that Leaves leaves alone.
StepTyped ==
  /\ want' \in [Services -> Op \union {Nil}] /\ callee' \in Services \union {Nil}
  /\ ops' \in 0..MaxOps

\* The operations that are asked for, and not over.
AskedAll == [t \in Services |-> Asked(t)]
Hidden == Stored' = Stored /\ AskedAll' = AskedAll /\ done' = done

\* Inside a function a step keeps the invariant, and changes nothing that others see.
LEMMA LeavesInside ==
  ASSUME StorageAssumption, StoreInv, NEW s, NEW op, NEW rest, NEW v, Fits(s, op, rest, v),
         rest # <<>>, frames' = rest, Leaves(s, op, rest, v), StepTyped,
         \A t \in Services \ {s} : want'[t] = want[t]
  PROVE  StoreInv' /\ Hidden
<1> DEFINE N == Log(s, op, rest, v)
<1>1. /\ N \in Seq(Act) /\ Len(N) = Len(acts) + 1 /\ Len(acts) \in Nat
      /\ \A i \in 1..Len(acts) : Map!Running(N[i]) > 0
      /\ Map!Running(N[Len(N)]) = Len(rest) /\ N[Len(N)].map = store'
      /\ N[1] = acts[1] /\ acts # <<>> /\ AllOpened(N, rest)
  BY FitsLog
<1>2. Chain(N, s, IF frames = <<>> THEN op ELSE Merged(Outermost.key), Stored)
  BY FitsChain
<1>3. /\ rest \in Seq(Frame) /\ Len(rest) \in Nat
      /\ (op \in Op /\ rest = frames) \/ (op \in End /\ frames # <<>> /\ rest = Tail(frames))
      /\ (frames # <<>> => owner = s)
  BY FitsFacts
<1>4. acts' = N /\ owner' = owner /\ done' = done
  BY DEF Leaves
<1> HIDE DEF N
<1>5. frames # <<>> /\ owner = s /\ s # Nil /\ s \in Services
  BY <1>3 DEF Fits, StorageAssumption
<1>6. rest[Len(rest)] = frames[Len(frames)] /\ Len(rest) > 0
  <2>1. /\ Len(frames) \in Nat /\ Len(Tail(frames)) = Len(frames) - 1
        /\ \A p \in 1..Len(frames) - 1 : Tail(frames)[p] = frames[p + 1]
    BY <1>5, FramesTyped
  <2>2. Len(rest) > 0
    BY <1>3, EmptySeq
  <2>3. QED
    BY <1>3, <2>1, <2>2
<1>7. Outermost' = Outermost
  BY <1>6 DEF Outermost
<1>8. Stored = acts[1].map /\ acts'[1] = acts[1] /\ acts' # <<>> /\ Stored' = Stored
  BY <1>1, <1>4 DEF Stored
<1>9. Unfinished(N)
  <2>1. \A i \in 1..Len(N) : i \in 1..Len(acts) \/ i = Len(N)
    BY <1>1
  <2>2. QED
    BY <1>1, <1>3, <1>6, <2>1 DEF Unfinished
<1>10. Logged'
  BY <1>1, <1>2, <1>4, <1>5, <1>7, <1>8, <1>9 DEF Logged
<1>11. StoreTypeOK'
  BY <1>1, <1>3, <1>4 DEF StoreInv, StoreTypeOK, StepTyped, Fits, Frame
<1>12. HeldByFrames'
  BY <1>4, <1>5 DEF HeldByFrames
<1>13. \A t \in Services : Asked(t)' = Asked(t)
  <2>1. frames' # <<>> /\ frames'[Len(frames')] = frames[Len(frames)]
    BY <1>6
  <2>2. QED
    BY <1>4, <1>5, <2>1 DEF Asked
<1>14. QED
  BY <1>4, <1>8, <1>10, <1>11, <1>12, <1>13 DEF StoreInv, Hidden, AskedAll

\* The end of the outermost operation keeps the invariant, and it takes effect then.
LEMMA LeavesOutside ==
  ASSUME StorageAssumption, StoreInv, NEW s, NEW op, NEW rest, NEW v, Fits(s, op, rest, v),
         rest = <<>>, frames' = rest, Leaves(s, op, rest, v), StepTyped,
         frames = <<>> => want[s] = op,
         want' = [want EXCEPT ![s] = Nil]
  PROVE  StoreInv' /\ Map!Finish(s)
<1> DEFINE N == Log(s, op, rest, v)
<1>1. /\ N \in Seq(Act) /\ Len(N) = Len(acts) + 1 /\ Len(acts) \in Nat
      /\ \A i \in 1..Len(acts) : Map!Running(N[i]) > 0
      /\ Map!Running(N[Len(N)]) = Len(rest) /\ N[Len(N)].map = store'
  BY FitsLog
<1>2. Chain(N, s, IF frames = <<>> THEN op ELSE Merged(Outermost.key), Stored)
  BY FitsChain
<1>3. /\ (op \in Op /\ rest = frames) \/ (op \in End /\ frames # <<>> /\ rest = Tail(frames))
      /\ (frames # <<>> => owner = s) /\ (frames = <<>> => owner = Nil)
  BY FitsFacts
<1>4. acts' = <<>> /\ owner' = Nil /\ done' = [by |-> s, acts |-> N]
  BY DEF Leaves
<1> HIDE DEF N
<1>5. s # Nil /\ s \in Services /\ Len(rest) = 0 /\ frames' = <<>>
  BY EmptySeq DEF Fits, StorageAssumption
<1>6. StoreInv'
  <2>1. StoreTypeOK'
    <3>1. <<>> \in Seq(Act) /\ <<>> \in Seq(Frame)
      OBVIOUS
    <3>2. done' \in [by : Services \union {Nil}, acts : Seq(Act)]
      BY <1>1, <1>4, <1>5
    <3>3. QED
      BY <1>4, <1>5, <3>1, <3>2 DEF StoreTypeOK, StepTyped, Fits, Frame
  <2>2. QED
    BY <1>4, <1>5, <2>1 DEF StoreInv, HeldByFrames, Logged
<1> DEFINE top == IF frames = <<>> THEN op ELSE Merged(Outermost.key)
<1>7. Asked(s) = top
  BY <1>3, <1>5 DEF Asked, Outermost, Merged
<1>8. top # Nil
  <2>1. CASE frames = <<>>
    <3>1. op \in Op
      BY <1>3, <2>1
    <3>2. QED
      BY <2>1, <3>1 DEF StorageAssumption
  <2>2. CASE frames # <<>>
    <3>1. frames \in Seq(Frame) /\ Len(frames) \in 1..Len(frames)
      BY <2>2, FramesTyped
    <3>2. Outermost \in Frame
      BY <3>1, ElementOfSeq DEF Outermost
    <3>3. Outermost.key \in Keys
      BY <3>2 DEF Frame
    <3>4. Merged(Outermost.key) \in Op
      BY <3>3 DEF Merged, Op
    <3>5. QED
      BY <2>2, <3>4 DEF StorageAssumption
  <2>3. QED
    BY <2>1, <2>2
<1> HIDE DEF top
<1>9. Stored' = store'
  BY <1>4 DEF Stored
<1>10. AskedAll' = [AskedAll EXCEPT ![s] = Nil]
  <2>1. \A t \in Services : Asked(t)' = want'[t]
    BY <1>5 DEF Asked
  <2>2. \A t \in Services \ {s} : Asked(t) = want[t]
    BY <1>3 DEF Asked
  <2>3. want \in [Services -> Op \union {Nil}]
    BY DEF StoreInv, StoreTypeOK
  <2>4. \A t \in Services : want'[t] = IF t = s THEN Nil ELSE want[t]
    BY <2>3
  <2>5. QED
    BY <2>1, <2>2, <2>4 DEF AskedAll
<1>11. Map!Whole(s, top, N)
  <2>1. Len(N) > 0 /\ N[1].op = top /\ N[1].depth = 0
    BY <1>2 DEF Chain, top
  <2>2. \A i \in 1..Len(N) : N[i].by = s
    BY <1>2 DEF Chain
  <2>3. \A i \in 2..Len(N) :
          N[i].depth = IF Map!Ends(N[i]) THEN Map!Running(N[i - 1]) - 1 ELSE Map!Running(N[i - 1])
    BY <1>2 DEF Chain
  <2>4. \A i \in 1..Len(N) : Map!Running(N[i]) = 0 <=> i = Len(N)
    <3> TAKE i \in 1..Len(N)
    <3>1. i \in 1..Len(acts) \/ i = Len(N)
      BY <1>1
    <3>2. i \in 1..Len(acts) => i # Len(N)
      BY <1>1
    <3>3. QED
      BY <1>1, <1>5, <3>1, <3>2
  <2>5. QED
    BY <2>1, <2>2, <2>3, <2>4 DEF Map!Whole
<1>12. \A i \in 1..Len(N) :
         /\ N[i].map = Map!After(N[i].op, IF i = 1 THEN Stored ELSE N[i - 1].map)
         /\ Map!Answers(N, i, IF i = 1 THEN Stored ELSE N[i - 1].map)
  BY <1>2 DEF Chain, Found
<1>13. AskedAll[s] = top /\ done'.by = s /\ done'.acts = N
  BY <1>4, <1>5, <1>7 DEF AskedAll
<1>14. Map!Finish(s)
  BY <1>1, <1>8, <1>9, <1>10, <1>11, <1>12, <1>13 DEF Map!Finish, AskedAll
<1>15. QED
  BY <1>6, <1>14


\* The end of an operation or of a function, inside another one or not.
LEMMA LeavesMaps ==
  ASSUME StorageAssumption, StoreInv, NEW s, NEW op, NEW rest, NEW v, Fits(s, op, rest, v),
         frames' = rest, Leaves(s, op, rest, v), StepTyped,
         frames = <<>> => want[s] = op,
         want' = [want EXCEPT ![s] = Nil]
  PROVE  StoreInv' /\ (Map!Finish(s) \/ Hidden)
<1>1. \A t \in Services \ {s} : want'[t] = want[t]
  BY DEF StoreInv, StoreTypeOK
<1>2. CASE rest = <<>>
  BY <1>2, LeavesOutside
<1>3. CASE rest # <<>>
  BY <1>1, <1>3, LeavesInside
<1>4. QED
  BY <1>2, <1>3

\* A set whose function starts, alone or inside another one.
LEMMA MergeMaps ==
  ASSUME StorageAssumption, StoreInv, NEW s \in Services, Merge(s)
  PROVE  StoreInv' /\ Hidden
<1> DEFINE op == want[s]
<1> DEFINE a == [by |-> s, op |-> op, depth |-> Len(frames), value |-> store[op.key], map |-> store']
<1> DEFINE f == [key |-> op.key, old |-> store[op.key]]
<1>1. /\ want[s] # Nil /\ op.kind = "merge" /\ owner \in {Nil, s} /\ want' = [want EXCEPT ![s] = Nil]
      /\ owner' = s /\ frames' = <<f>> \o frames /\ store' = store
      /\ acts' = Append(acts, a) /\ callee' = callee /\ done' = done /\ ops' = ops
  BY DEF Merge, Enters, Log
<1>2. /\ store \in [Keys -> Values \union {Nil}] /\ acts \in Seq(Act) /\ StoreTypeOK /\ s # Nil
      /\ frames \in Seq(Frame) /\ Len(frames) \in Nat
  BY FramesTyped DEF StoreInv, StoreTypeOK, StorageAssumption
<1>3. op \in Op /\ op.key \in Keys /\ op = Merged(op.key) /\ want' \in [Services -> Op \union {Nil}]
  BY <1>1, <1>2, Wanted
<1> HIDE DEF op
<1>4. a \in Act /\ f \in Frame
  BY <1>1, <1>2, <1>3 DEF Act, Frame
<1>5. /\ a.by = s /\ a.op = op /\ a.depth = Len(frames) /\ a.map = store /\ a.value = store[op.key]
      /\ f.key = op.key /\ f.old = store[op.key]
  BY <1>1
<1> HIDE DEF a, f
<1>6. ~Map!Ends(a) /\ Map!Running(a) = Len(frames) + 1 /\ a.map = Map!After(a.op, store)
  BY <1>1, <1>5 DEF Map!Ends, Map!Running, Map!After
<1>7. /\ frames' \in Seq(Frame) /\ Len(frames') = Len(frames) + 1 /\ frames' # <<>> /\ frames'[1] = f
      /\ \A p \in 1..Len(frames) : frames'[p + 1] = frames[p]
  <2>1. <<f>> \in Seq(Frame) /\ Len(<<f>>) = 1 /\ <<f>>[1] = f
    BY <1>4
  <2>2. /\ <<f>> \o frames \in Seq(Frame) /\ Len(<<f>> \o frames) = 1 + Len(frames)
        /\ \A i \in 1..1 + Len(frames) :
             (<<f>> \o frames)[i] = IF i <= 1 THEN <<f>>[i] ELSE frames[i - 1]
    BY <1>2, <2>1, ConcatProperties
  <2> DEFINE F == <<f>> \o frames
  <2> HIDE DEF F
  <2>3. F \in Seq(Frame) /\ Len(F) = 1 + Len(frames) /\ F[1] = f
    BY <1>2, <2>1, <2>2 DEF F
  <2>4. \A p \in 1..Len(frames) : F[p + 1] = frames[p]
    <3> TAKE p \in 1..Len(frames)
    <3>1. p + 1 \in 1..1 + Len(frames) /\ ~(p + 1 <= 1) /\ (p + 1) - 1 = p
      BY <1>2
    <3>2. QED
      BY <2>2, <3>1 DEF F
  <2>5. F # <<>>
    BY <1>2, <2>3, EmptySeq
  <2>6. QED
    BY <1>1, <1>2, <2>3, <2>4, <2>5 DEF F
<1>8. Outermost' = IF frames = <<>> THEN f ELSE Outermost
  <2>1. CASE frames = <<>>
    BY <1>7, <2>1, EmptySeq DEF Outermost
  <2>2. CASE frames # <<>>
    <3>1. Len(frames) \in 1..Len(frames)
      BY <2>2, FramesTyped
    <3>2. QED
      BY <1>7, <2>2, <3>1 DEF Outermost
  <2>3. QED
    BY <2>1, <2>2
<1>9. /\ acts' \in Seq(Act) /\ Len(acts') = Len(acts) + 1 /\ Len(acts) \in Nat
      /\ acts'[Len(acts) + 1] = a /\ \A i \in 1..Len(acts) : acts'[i] = acts[i]
  BY <1>1, <1>2, <1>4, Appended
<1>10. acts' # <<>> /\ Len(acts') > 0
  BY <1>9, EmptySeq
<1>11. StoreTypeOK'
  BY <1>1, <1>2, <1>3, <1>7, <1>9 DEF StoreTypeOK, Frame
<1>12. HeldByFrames'
  BY <1>1, <1>2, <1>7 DEF HeldByFrames
<1>13. CASE frames = <<>>
  <2>1. acts = <<>> /\ owner = Nil /\ Len(frames) = 0 /\ Len(acts) = 0
    BY <1>13, EmptySeq DEF StoreInv, Logged, HeldByFrames
  <2>2. acts' = <<a>> /\ Chain(<<a>>, s, op, store) /\ <<a>>[1] = a
    <3> DEFINE N == <<a>>
    <3>1. N[1] = a
      OBVIOUS
    <3> HIDE DEF N
    <3>2. Map!Answers(N, 1, store)
      BY <1>1, <1>5, <1>6, <3>1 DEF Map!Answers
    <3>3. Map!Answers(<<a>>, 1, store)
      BY <3>2 DEF N
    <3>4. Append(<<>>, a) = <<a>> /\ Chain(<<a>>, a.by, a.op, store) /\ <<a>>[1] = a
      BY <1>4, <1>5, <1>6, <2>1, <3>3, ChainStarts
    <3>5. QED
      BY <1>1, <1>5, <2>1, <3>4
  <2>3. Stored = store /\ Stored' = store /\ acts'[1].map = store
    BY <1>5, <1>10, <2>1, <2>2 DEF Stored
  <2>4. AllOpened(acts', frames')
    <3>1. Opened(acts', frames', 1, 1)
      <4>1. \A l \in 1 + 1..Len(acts') : FALSE
        BY <1>9, <2>1
      <4>2. acts'[1] = a /\ frames'[1] = f /\ a.depth = Len(frames') - 1
        BY <1>5, <1>7, <2>1, <2>2
      <4>3. QED
        BY <1>3, <1>5, <4>1, <4>2 DEF Opened
    <3>2. \A p \in 1..Len(frames') : p = 1
      BY <1>7, <2>1
    <3>3. QED
      BY <1>9, <2>1, <3>1, <3>2 DEF AllOpened
  <2>5. Logged'
    <3>1. Unfinished(acts')
      <4>1. \A i \in 1..Len(acts') : i = 1
        BY <1>9, <2>1
      <4>2. QED
        BY <1>6, <2>1, <2>2, <4>1 DEF Unfinished
    <3>2. acts'[Len(acts')] = a
      BY <1>9
    <3>3. Outermost'.key = op.key
      BY <1>5, <1>8, <1>13
    <3>4. Merged(Outermost'.key) = op
      BY <1>3, <3>3
    <3>5. Chain(acts', owner', Merged(Outermost'.key), acts'[1].map)
      BY <1>1, <2>2, <2>3, <3>4
    <3>6. Map!Running(acts'[Len(acts')]) = Len(frames') /\ acts'[Len(acts')].map = store'
      BY <1>1, <1>5, <1>6, <1>7, <3>2
    <3>7. QED
      BY <1>7, <2>4, <3>1, <3>5, <3>6 DEF Logged
  <2>6. \A t \in Services : Asked(t)' = Asked(t)
    <3>1. Outermost'.key = op.key
      BY <1>5, <1>8, <1>13
    <3>2. Asked(s)' = op /\ Asked(s) = op
      BY <1>1, <1>3, <1>7, <1>13, <3>1 DEF Asked, Merged, Outermost, op
    <3>3. \A t \in Services \ {s} : Asked(t)' = Asked(t)
      BY <1>1, <1>2, <2>1 DEF Asked, StoreTypeOK
    <3>4. QED
      BY <3>2, <3>3
  <2>7. QED
    BY <1>1, <1>11, <1>12, <2>3, <2>5, <2>6 DEF StoreInv, Hidden, AskedAll
<1>14. CASE frames # <<>>
  <2>1. owner = s /\ Chain(acts, s, Merged(Outermost.key), acts[1].map)
    BY <1>1, <1>14 DEF StoreInv, Logged, HeldByFrames
  <2>2. /\ Unfinished(acts) /\ AllOpened(acts, frames) /\ acts[Len(acts)].map = store
        /\ Map!Running(acts[Len(acts)]) = Len(frames) /\ Len(acts) > 0 /\ acts # <<>>
    BY <1>14 DEF StoreInv, Logged, Chain
  <2>3. Map!Answers(acts', Len(acts) + 1, acts[Len(acts)].map)
    BY <1>1, <1>5, <1>6, <1>9, <2>2 DEF Map!Answers
  <2>4. Chain(acts', s, Merged(Outermost.key), acts[1].map)
    <3>1. Map!Answers(Append(acts, a), Len(acts) + 1, acts[Len(acts)].map)
      BY <1>1, <2>3
    <3>2. a.map = Map!After(a.op, acts[Len(acts)].map)
      BY <1>6, <2>2
    <3>3. Chain(Append(acts, a), s, Merged(Outermost.key), acts[1].map)
      BY <1>4, <1>5, <1>6, <2>1, <2>2, <3>1, <3>2, ChainGrows
    <3>4. QED
      BY <1>1, <3>3
  <2>5. acts'[1] = acts[1] /\ Stored' = Stored
    <3>1. acts'[1] = acts[1]
      BY <1>9, <2>2
    <3>2. QED
      BY <1>10, <2>2, <3>1 DEF Stored
  <2>6. AllOpened(acts', frames')
    <3>1. Opened(acts', frames', 1, Len(acts) + 1)
      <4>1. \A l \in (Len(acts) + 1) + 1..Len(acts') : FALSE
        BY <1>9
      <4>2. a.depth = Len(frames') - 1
        BY <1>2, <1>5, <1>7
      <4>3. QED
        BY <1>3, <1>5, <1>7, <1>9, <4>1, <4>2 DEF Opened
    <3>2. ASSUME NEW p \in 2..Len(frames') PROVE \E j \in 1..Len(acts') : Opened(acts', frames', p, j)
      <4> DEFINE q == p - 1
      <4>1. q \in 1..Len(frames) /\ frames'[p] = frames[q] /\ Len(frames) - q = Len(frames') - p
        <5>1. q \in 1..Len(frames) /\ q + 1 = p
          BY <1>2, <1>7
        <5>2. QED
          BY <1>2, <1>7, <5>1
      <4> HIDE DEF q
      <4>2. PICK j \in 1..Len(acts) : Opened(acts, frames, q, j)
        BY <2>2, <4>1 DEF AllOpened
      <4>3. a.depth > Len(frames) - q
        BY <1>2, <1>5, <4>1
      <4>4. Opened(Append(acts, a), frames, q, j)
        BY <1>2, <1>4, <4>1, <4>2, <4>3, OpenedStays
      <4>5. Opened(acts', frames', p, j)
        BY <1>1, <4>1, <4>4 DEF Opened
      <4>6. QED
        BY <1>9, <4>5
    <3>3. \A p \in 1..Len(frames') : p = 1 \/ p \in 2..Len(frames')
      BY <1>2, <1>7
    <3>4. Len(acts) + 1 \in 1..Len(acts')
      BY <1>9
    <3>5. QED
      BY <3>1, <3>2, <3>3, <3>4 DEF AllOpened
  <2>7. Logged'
    <3>1. Unfinished(acts')
      <4>1. \A i \in 1..Len(acts') : i \in 1..Len(acts) \/ i = Len(acts) + 1
        BY <1>9
      <4>2. Map!Running(a) > 0
        BY <1>2, <1>6
      <4>3. QED
        BY <1>9, <2>2, <4>1, <4>2 DEF Unfinished
    <3>2. acts'[Len(acts')] = a
      BY <1>9
    <3>3. Outermost' = Outermost
      BY <1>8, <1>14
    <3>4. QED
      BY <1>1, <1>5, <1>6, <1>7, <2>4, <2>5, <2>6, <3>1, <3>2, <3>3 DEF Logged
  <2>8. \A t \in Services : Asked(t)' = Asked(t)
    <3>1. Outermost' = Outermost
      BY <1>8, <1>14
    <3>2. QED
      BY <1>1, <1>2, <1>7, <1>14, <2>1, <3>1 DEF Asked, Outermost, StoreTypeOK
  <2>9. QED
    BY <1>1, <1>11, <1>12, <2>5, <2>7, <2>8 DEF StoreInv, Hidden, AskedAll
<1>15. QED
  BY <1>13, <1>14


\* A step of a service keeps the invariant; it is the end of an operation of the map, or
\* changes nothing that others see.
LEMMA StepMaps ==
  ASSUME StorageAssumption, StoreInv, NEW s \in Services, Step(s)
  PROVE  StoreInv' /\ (Map!Finish(s) \/ Hidden)
  <1> DEFINE Goal == StoreInv' /\ (Map!Finish(s) \/ Hidden)
  <1>1. /\ store \in [Keys -> Values \union {Nil}] /\ callee \in Services \union {Nil}
        /\ want \in [Services -> Op \union {Nil}]
        /\ ops \in 0..MaxOps /\ StoreTypeOK
    BY DEF StoreInv, StoreTypeOK
  <1>2. CASE Get(s)
    <2>1. /\ want[s] # Nil /\ want[s].kind = "get" /\ owner \in {Nil, s} /\ want' = [want EXCEPT ![s] = Nil]
          /\ store' = store /\ frames' = frames /\ callee' = callee /\ ops' = ops
          /\ Leaves(s, want[s], frames, store[want[s].key])
      BY <1>2 DEF Get, Enters
    <2>2. want[s] \in Op /\ want[s].key \in Keys /\ StepTyped
      BY <1>1, <2>1, Wanted DEF StepTyped
    <2>3. Fits(s, want[s], frames, store[want[s].key])
      BY <1>1, <2>1, <2>2 DEF Fits, Map!After
    <2>4. QED
      BY <2>1, <2>2, <2>3, LeavesMaps
  <1>3. CASE Erase(s)
    <2>1. /\ want[s] # Nil /\ want[s].kind = "erase" /\ owner \in {Nil, s} /\ want' = [want EXCEPT ![s] = Nil]
          /\ store' = [store EXCEPT ![want[s].key] = Nil]
          /\ frames' = frames /\ callee' = callee /\ ops' = ops
          /\ Leaves(s, want[s], frames, store[want[s].key])
      BY <1>3 DEF Erase, Enters
    <2>2. want[s] \in Op /\ want[s].key \in Keys /\ StepTyped
      BY <1>1, <2>1, Wanted DEF StepTyped
    <2>3. Fits(s, want[s], frames, store[want[s].key])
      BY <1>1, <2>1, <2>2 DEF Fits, Map!After
    <2>4. QED
      BY <2>1, <2>2, <2>3, LeavesMaps
  <1>4. CASE Clear(s)
    <2>1. /\ want[s] # Nil /\ want[s].kind = "clear" /\ owner \in {Nil, s} /\ want' = [want EXCEPT ![s] = Nil]
          /\ store' = [k \in Keys |-> Nil]
          /\ frames' = frames /\ callee' = callee /\ ops' = ops
          /\ Leaves(s, want[s], frames, Nil)
      BY <1>4 DEF Clear, Enters
    <2>2. want[s] \in Op /\ StepTyped
      BY <1>1, <2>1, Wanted DEF StepTyped
    <2>3. Fits(s, want[s], frames, Nil)
      BY <1>1, <2>1, <2>2 DEF Fits, Map!After
    <2>4. QED
      BY <2>1, <2>2, <2>3, LeavesMaps
  <1>5. CASE Set(s)
    <2>1. /\ want[s] # Nil /\ want[s].kind = "set" /\ owner \in {Nil, s} /\ want' = [want EXCEPT ![s] = Nil]
          /\ store' = [store EXCEPT ![want[s].key] = want[s].value]
          /\ frames' = frames /\ callee' = callee /\ ops' = ops
          /\ Leaves(s, want[s], frames, store[want[s].key])
      BY <1>5 DEF Set, Enters
    <2>2. want[s] \in Op /\ want[s].key \in Keys /\ want[s].value \in Values \union {Nil} /\ StepTyped
      BY <1>1, <2>1, Wanted DEF StepTyped
    <2>3. Fits(s, want[s], frames, store[want[s].key])
      BY <1>1, <2>1, <2>2 DEF Fits, Map!After
    <2>4. QED
      BY <2>1, <2>2, <2>3, LeavesMaps
  <1>6. CASE Merge(s)
    BY <1>6, MergeMaps
  <1>7. ASSUME NEW v \in Values \union {Nil}, Return(s, v) PROVE Goal
    <2> DEFINE op == [kind |-> "return", key |-> Head(frames).key, value |-> v]
    <2>1. /\ owner = s /\ frames # <<>> /\ want[s] = Nil /\ want' = want
          /\ store' = [store EXCEPT ![Head(frames).key] = v]
          /\ frames' = Tail(frames) /\ callee' = callee /\ ops' = ops
          /\ Leaves(s, op, Tail(frames), Head(frames).old)
      BY <1>7 DEF Return, Runs
    <2>2. Head(frames).key \in Keys /\ Head(frames).old \in Values \union {Nil}
      <3>1. Head(frames) \in Frame
        BY <2>1, FramesTyped
      <3>2. QED
        BY <3>1 DEF Frame
    <2>3. op \in End /\ op.kind = "return" /\ op.key = Head(frames).key /\ op.value = v
      BY <2>2 DEF End
    <2> HIDE DEF op
    <2>4. Fits(s, op, Tail(frames), Head(frames).old)
      BY <1>1, <2>1, <2>2, <2>3 DEF Fits, Map!After
    <2>5. StepTyped /\ want' = [want EXCEPT ![s] = Nil]
      BY <1>1, <2>1 DEF StepTyped
    <2>6. QED
      BY <2>1, <2>4, <2>5, LeavesMaps
  <1>8. CASE Raise(s)
    <2> DEFINE op == [kind |-> "fail", key |-> Head(frames).key]
    <2>1. /\ owner = s /\ frames # <<>> /\ want[s] = Nil /\ want' = want
          /\ store' = store
          /\ frames' = Tail(frames) /\ callee' = callee /\ ops' = ops
          /\ Leaves(s, op, Tail(frames), Nil)
      BY <1>8 DEF Raise, Runs
    <2>2. Head(frames).key \in Keys
      <3>1. Head(frames) \in Frame
        BY <2>1, FramesTyped
      <3>2. QED
        BY <3>1 DEF Frame
    <2>3. op \in End /\ op.kind = "fail" /\ op.key = Head(frames).key
      BY <2>2 DEF End
    <2> HIDE DEF op
    <2>4. Fits(s, op, Tail(frames), Nil)
      BY <1>1, <2>1, <2>2, <2>3 DEF Fits, Map!After
    <2>5. StepTyped /\ want' = [want EXCEPT ![s] = Nil]
      BY <1>1, <2>1 DEF StepTyped
    <2>6. QED
      BY <2>1, <2>4, <2>5, LeavesMaps
  <1>9. QED
    BY <1>2, <1>3, <1>4, <1>5, <1>6, <1>7, <1>8 DEF Step

-----------------------------------------------------------------------------
\* Calls between services and new operations touch neither the mutex nor what is stored.
Aside == UNCHANGED <<store, owner, frames, acts, done>>

LEMMA AsideKeeps ==
  ASSUME StoreInv, Aside, StoreTypeOK'
  PROVE  /\ StoreInv' /\ Stored' = Stored /\ done' = done
         /\ \A t \in Services : want'[t] = want[t] => Asked(t)' = Asked(t)
  <1>1. HeldByFrames' /\ Logged'
    BY DEF Aside, StoreInv, HeldByFrames, Logged, Outermost
  <1>2. QED
    BY <1>1 DEF Aside, StoreInv, Stored, Asked

\* A service that asks for an operation does so of the map, unless it does it from a
\* function of its own.
LEMMA AskMaps ==
  ASSUME StorageAssumption, StoreInv, NEW s \in Services, NEW op \in Op, Ask(s, op)
  PROVE  Aside /\ StoreTypeOK' /\ (Map!Ask(s, op) \/ Hidden)
  <1>1. StoreTypeOK /\ want \in [Services -> Op \union {Nil}]
    BY DEF StoreInv, StoreTypeOK
  <1>2. /\ want[s] = Nil /\ want' = [want EXCEPT ![s] = op]
        /\ UNCHANGED <<store, owner, frames, callee, acts, done>>
        /\ ops < MaxOps /\ ops' = ops + 1
    BY DEF Ask
  <1>3. Aside /\ StoreTypeOK'
    BY <1>1, <1>2 DEF Aside, StoreTypeOK, StorageAssumption
  <1>4. /\ Stored' = Stored /\ done' = done
        /\ \A t \in Services \ {s} : Asked(t)' = Asked(t)
    BY <1>1, <1>2, <1>3, AsideKeeps
  <1>5. CASE owner = s /\ frames # <<>>
    <2>1. Asked(s)' = Asked(s)
      BY <1>2, <1>5 DEF Asked
    <2>2. QED
      BY <1>3, <1>4, <2>1 DEF Hidden, AskedAll
  <1>6. CASE ~(owner = s /\ frames # <<>>)
    <2>1. Asked(s)' = op /\ Asked(s) = Nil
      BY <1>1, <1>2, <1>6 DEF Asked
    <2>2. AskedAll' = [AskedAll EXCEPT ![s] = op] /\ AskedAll[s] = Nil
      BY <1>4, <2>1 DEF AskedAll
    <2>3. Map!Ask(s, op)
      BY <1>4, <2>2 DEF Map!Ask, AskedAll
    <2>4. QED
      BY <1>3, <2>3
  <1>7. QED
    BY <1>5, <1>6

\* Every step keeps the invariant and is one of the map, or changes nothing that others
\* see.
LEMMA NextStore ==
  ASSUME StorageAssumption, StoreInv, [StoreNext]_storageVars
  PROVE  StoreInv' /\ (Map!Next \/ Hidden)
  <1> DEFINE Goal == StoreInv' /\ (Map!Next \/ Hidden)
  <1>1. CASE UNCHANGED storageVars
    <2>1. StoreTypeOK' /\ Aside /\ want' = want
      BY <1>1 DEF storageVars, Aside, StoreInv, StoreTypeOK
    <2>2. QED
      BY <2>1, AsideKeeps DEF Hidden, AskedAll
  <1>2. ASSUME NEW s \in Services, Step(s) PROVE Goal
    BY <1>2, StepMaps DEF Map!Next
  <1>3. ASSUME NEW s \in Services, NEW op \in Op, Ask(s, op) PROVE Goal
    <2>1. Aside /\ StoreTypeOK' /\ (Map!Ask(s, op) \/ Hidden)
      BY <1>3, AskMaps
    <2>2. StoreInv'
      BY <2>1, AsideKeeps
    <2>3. op \in Map!Op
      BY DEF Op, Map!Op
    <2>4. Map!Ask(s, op) => Map!Next
      BY <2>3 DEF Map!Next
    <2>5. QED
      BY <2>1, <2>2, <2>4
  <1>4. ASSUME NEW s \in Services, Answer(s) PROVE Goal
    <2>1. Aside /\ StoreTypeOK' /\ want' = want
      BY <1>4 DEF Answer, Aside, StoreInv, StoreTypeOK
    <2>2. QED
      BY <2>1, AsideKeeps DEF Hidden, AskedAll
  <1>5. ASSUME NEW s \in Services, NEW t \in Services, Call(s, t) PROVE Goal
    <2>1. Aside /\ StoreTypeOK' /\ want' = want
      BY <1>5 DEF Call, Aside, StoreInv, StoreTypeOK, StorageAssumption
    <2>2. QED
      BY <2>1, AsideKeeps DEF Hidden, AskedAll
  <1>6. QED
    BY <1>1, <1>2, <1>3, <1>4, <1>5 DEF StoreNext

-----------------------------------------------------------------------------
\* The storage behaves like a map on which every operation has the effect and the answer
\* that were asked for, one at a time: a set with a function is one of them, with all that
\* its function does to the storage, nested sets included, and nobody else does anything
\* in between (luaos_storage.cpp).
THEOREM StorageRefinesMap ==
  ASSUME StorageAssumption PROVE StoreSpec => RefinesMap
  <1>1. StoreInit => StoreInv /\ Map!Init
    <2>1. StoreInit => StoreInv
      BY InitStore
    <2>2. StoreInit => Map!Init
      BY DEF StoreInit, Map!Init, Stored, Asked
    <2> QED
      BY <2>1, <2>2
  <1>2. StoreInv /\ [StoreNext]_storageVars => StoreInv'
    BY NextStore
  <1>3. StoreInv /\ [StoreNext]_storageVars => [Map!Next]_(Map!vars)
    <2>1. Hidden => UNCHANGED Map!vars
      BY DEF Hidden, AskedAll, Map!vars
    <2>2. QED
      BY <2>1, NextStore
  <1> QED
    BY <1>1, <1>2, <1>3, PTL DEF StoreSpec, RefinesMap, Map!Spec

-----------------------------------------------------------------------------
\* A function that waits for a service is one of the holder of the mutex, who has no
\* operation of its own under way.
HolderCalls == callee # Nil => owner # Nil /\ callee # owner /\ want[owner] = Nil

LEMMA NextCalls ==
  ASSUME StorageAssumption, StoreInv, HolderCalls, [StoreNext]_storageVars
  PROVE  HolderCalls'
  <1>t. StoreTypeOK
    BY DEF StoreInv
  <1>1. CASE UNCHANGED storageVars
    BY <1>1 DEF storageVars, HolderCalls
  <1>2. ASSUME NEW s \in Services, NEW op \in Op, Ask(s, op) PROVE HolderCalls'
    BY <1>2, <1>t DEF Ask, HolderCalls, StoreTypeOK
  <1>3. ASSUME NEW s \in Services, NEW t \in Services, Call(s, t) PROVE HolderCalls'
    BY <1>3, <1>t DEF Call, Runs, HolderCalls, StoreTypeOK, StorageAssumption
  <1>4. ASSUME NEW t \in Services, Answer(t) PROVE HolderCalls'
    BY <1>4 DEF Answer, HolderCalls
  <1>5. ASSUME NEW s \in Services, Step(s) PROVE HolderCalls'
    <2>1. callee' = callee
      BY <1>5 DEF Step, Get, Erase, Clear, Set, Merge, Return, Raise
    <2>2. callee = Nil
      <3>1. CASE Runs(s)
        BY <3>1 DEF Runs
      <3>2. ASSUME NEW kind, Enters(s, kind) PROVE callee = Nil
        BY <3>2 DEF Enters, HolderCalls
      <3> QED
        BY <1>5, <3>1, <3>2 DEF Step, Get, Erase, Clear, Set, Merge, Return, Raise
    <2> QED
      BY <2>1, <2>2 DEF HolderCalls
  <1> QED
    BY <1>1, <1>2, <1>3, <1>4, <1>5 DEF StoreNext

LEMMA CallsInvariance ==
  ASSUME StorageAssumption PROVE StoreSpec => [](StoreInv /\ HolderCalls)
  <1>1. StoreInit => StoreInv /\ HolderCalls
    <2>1. StoreInit => HolderCalls
      BY DEF StoreInit, HolderCalls
    <2> QED
      BY <2>1, InitStore
  <1>2. StoreInv /\ HolderCalls /\ [StoreNext]_storageVars => StoreInv' /\ HolderCalls'
    BY NextStore, NextCalls
  <1> QED
    BY <1>1, <1>2, PTL DEF StoreSpec

\* Who has the mutex has an operation to go on with or a function to return from, or
\* waits for a service that may answer, or nobody goes on.
HolderGoesOn ==
  owner # Nil =>
    \/ Runs(owner)
    \/ callee = Nil /\ want[owner] # Nil
    \/ callee # Nil /\ want[callee] = Nil
    \/ Deadlock

\* What of "the mutex is given back" is safety: its holder is never left without a step
\* but in the deadlock (luaos_storage.cpp, std::unique_lock over the recursive mutex).
THEOREM HolderGoesOnAlways ==
  ASSUME StorageAssumption PROVE StoreSpec => []HolderGoesOn
  <1>1. StoreInv => HolderGoesOn
    BY DEF StoreInv, HeldByFrames, HolderGoesOn, Runs, Deadlock
  <1> QED
    BY <1>1, CallsInvariance, PTL

\* From a deadlock on the mutex is never given back, nothing is stored any more, and who
\* has called an operation waits for ever; others may still join them.
DeadlockForEver ==
  [][Deadlock =>
       /\ Deadlock' /\ UNCHANGED <<store, owner, callee>>
       /\ \A s \in Services : want[s] # Nil => want'[s] = want[s]]_storageVars

\* A function of set that calls a service which uses the storage before it answers stops
\* the storage of the whole process, not only these two services (luaos_storage.cpp, set).
THEOREM DeadlockForEverAlways ==
  ASSUME StorageAssumption PROVE StoreSpec => DeadlockForEver
  <1> DEFINE Held == /\ Deadlock' /\ UNCHANGED <<store, owner, callee>>
                     /\ \A s \in Services : want[s] # Nil => want'[s] = want[s]
  <1>1. ASSUME StoreInv, HolderCalls, StoreNext, Deadlock PROVE Held
    <2>t. StoreTypeOK
      BY <1>1 DEF StoreInv
    <2>1. callee # Nil /\ want[callee] # Nil /\ owner # Nil /\ want[owner] = Nil
      BY <1>1 DEF Deadlock, HolderCalls
    <2>2. ASSUME NEW s \in Services, NEW op \in Op, Ask(s, op) PROVE Held
      BY <2>1, <2>2, <2>t DEF Ask, Deadlock, StoreTypeOK
    <2>3. ASSUME NEW s \in Services, Step(s) PROVE FALSE
      <3>1. ~Runs(s)
        BY <2>1 DEF Runs
      <3>2. ASSUME NEW kind, Enters(s, kind) PROVE FALSE
        BY <2>1, <3>2 DEF Enters
      <3> QED
        BY <2>3, <3>1, <3>2 DEF Step, Get, Erase, Clear, Set, Merge, Return, Raise
    <2>4. ASSUME NEW s \in Services, NEW t \in Services, Call(s, t) \/ Answer(s) PROVE FALSE
      BY <2>1, <2>4 DEF Call, Runs, Answer
    <2> QED
      BY <1>1, <2>2, <2>3, <2>4 DEF StoreNext
  <1>2. StoreInv /\ HolderCalls /\ [StoreNext]_storageVars => [Deadlock => Held]_storageVars
    BY <1>1
  <1> QED
    BY <1>2, CallsInvariance, PTL DEF StoreSpec, DeadlockForEver

-----------------------------------------------------------------------------
(* The buffer: arithmetic first, what a step leaves next, the steps last. *)

\* What remains of a division, told by quotient and remainder.
LEMMA ModOf ==
  ASSUME NEW n \in Nat \ {0}, NEW q \in Nat, NEW r \in 0..n - 1
  PROVE  (n * q + r) % n = r
OBVIOUS

\* Every number has a quotient and a remainder.
LEMMA ModParts ==
  ASSUME NEW n \in Nat \ {0}, NEW a \in Nat
  PROVE  a = n * (a \div n) + (a % n) /\ a % n \in 0..n - 1 /\ a \div n \in Nat
OBVIOUS

\* A number below twice n needs one subtraction.
LEMMA ModNear ==
  ASSUME NEW n \in Nat \ {0}, NEW a \in 0..2 * n - 1
  PROVE  a % n = IF a < n THEN a ELSE a - n
<1>1. CASE a < n
  BY <1>1, ModOf, a = n * 0 + a
<1>2. CASE a >= n
  <2>1. a - n \in 0..n - 1 /\ a = n * 1 + (a - n)
    BY <1>2
  <2>2. QED
    BY <1>2, <2>1, ModOf
<1>3. QED
  BY <1>1, <1>2

\* A sum may be reduced before it is made.
LEMMA ModSum ==
  ASSUME NEW n \in Nat \ {0}, NEW a \in Nat, NEW b \in Nat
  PROVE  ((a % n) + b) % n = (a + b) % n
<1> DEFINE r == (a % n) + b
<1>1. a = n * (a \div n) + (a % n) /\ a % n \in Nat /\ a \div n \in Nat
  BY ModParts
<1>2. r \in Nat /\ r = n * (r \div n) + (r % n) /\ r % n \in 0..n - 1 /\ r \div n \in Nat
  BY <1>1, ModParts
<1> HIDE DEF r
<1>3. a + b = n * (a \div n) + r
  BY <1>1 DEF r
<1>4. a + b = n * (a \div n + r \div n) + (r % n)
  BY <1>1, <1>2, <1>3
<1>5. a \div n + r \div n \in Nat
  BY <1>1, <1>2
<1>6. (a + b) % n = r % n
  BY <1>2, <1>4, <1>5, ModOf
<1>7. QED
  BY <1>6 DEF r

\* The same, for use with PICK.
LEMMA Quotient ==
  ASSUME NEW n \in Nat \ {0}, NEW a \in Nat
  PROVE  \E q \in Nat, r \in 0..n - 1 : a = n * q + r /\ r = a % n
BY ModParts

\* The products that ModMod collects.
LEMMA ProductSum ==
  ASSUME NEW n \in Nat, NEW m \in Nat, NEW q \in Nat, NEW k \in Nat, NEW s \in Nat
  PROVE  (n * m) * q + (n * k + s) = n * (m * q + k) + s /\ m * q + k \in Nat
OBVIOUS

\* Remainders by a divisor of W may be taken after remainders by W.
LEMMA ModMod ==
  ASSUME NEW W \in Nat \ {0}, NEW n \in Nat \ {0}, W % n = 0, NEW a \in Nat
  PROVE  (a % W) % n = a % n
<1>1. PICK m \in Nat : W = n * m
  <2>1. PICK m \in Nat, r \in 0..n - 1 : W = n * m + r /\ r = W % n
    BY Quotient
  <2>2. W = n * m
    BY <2>1
  <2>3. QED
    BY <2>2
<1>2. PICK q \in Nat, r \in 0..W - 1 : a = W * q + r /\ r = a % W
  BY Quotient
<1>3. r \in Nat
  OBVIOUS
<1>4. PICK k \in Nat, s \in 0..n - 1 : r = n * k + s /\ s = r % n
  BY <1>3, Quotient
<1>5. a = (n * m) * q + (n * k + s)
  BY <1>1, <1>2, <1>4
<1>6. a = n * (m * q + k) + s /\ m * q + k \in Nat
  <2>1. s \in Nat
    OBVIOUS
  <2>2. QED
    BY <1>5, <2>1, ProductSum
<1> DEFINE h == m * q + k
<1>7. a = n * h + s /\ h \in Nat
  BY <1>6
<1> HIDE DEF h
<1>8. a % n = s
  BY <1>7, ModOf
<1>9. QED
  BY <1>2, <1>4, <1>8

\* A block has as many bytes as divide a word, so an index may wrap around the word first.
LEMMA WordMod ==
  ASSUME BufferAssumption, NEW n \in Powers, NEW a \in Nat
  PROVE  (a % Word) % n = a % n
<1>1. Word \in Nat \ {0} /\ n \in Nat \ {0} /\ Word % n = 0
  BY DEF BufferAssumption, Powers
<1>2. QED
  BY <1>1, ModMod

\* The byte of a block k bytes after the one the index r names.
At(n, r, k) == IF (r % n) + k < n THEN (r % n) + k ELSE (r % n) + k - n

\* At is what the code's addition and mask compute.
LEMMA AtSlot ==
  ASSUME NEW n \in Nat \ {0}, NEW r \in Nat, NEW k \in 0..n
  PROVE  (r + k) % n = At(n, r, k) /\ At(n, r, k) \in 0..n - 1
<1> DEFINE a == (r % n) + k
<1>1. r % n \in 0..n - 1
  BY ModParts
<1>2. k \in Nat
  OBVIOUS
<1>3. (r + k) % n = a % n
  BY <1>2, ModSum
<1>4. a \in 0..2 * n - 1 /\ At(n, r, k) = (IF a < n THEN a ELSE a - n)
  BY <1>1 DEF At
<1> HIDE DEF a
<1>5. a % n = IF a < n THEN a ELSE a - n
  BY <1>4, ModNear
<1>6. QED
  BY <1>3, <1>4, <1>5

\* How many bytes two indexes hold.
Held(r, w) == (w + Word - r) % Word

Index == 0..Word - 1

\* The indexes tell how much is held, and what is held where the other index is.
LEMMA HeldFacts ==
  ASSUME BufferAssumption, NEW r \in Index, NEW w \in Index
  PROVE  /\ Held(r, w) = IF r <= w THEN w - r ELSE w + Word - r
         /\ Held(r, w) \in Index
         /\ w = (r + Held(r, w)) % Word
<1> DEFINE a == w + Word - r
<1> DEFINE b == r + Held(r, w)
<1>1. Word \in Nat \ {0} /\ a \in 0..2 * Word - 1 /\ Held(r, w) = a % Word
  BY DEF BufferAssumption, Index, Held
<1> HIDE DEF a
<1>2. a % Word = IF a < Word THEN a ELSE a - Word
  BY <1>1, ModNear
<1>3. Held(r, w) = IF r <= w THEN w - r ELSE w + Word - r
  BY <1>1, <1>2 DEF Index, a
<1>4. Held(r, w) \in Index /\ b \in 0..2 * Word - 1 /\ w = (IF b < Word THEN b ELSE b - Word)
  BY <1>1, <1>3 DEF Index
<1> HIDE DEF b
<1>5. w = b % Word
  BY <1>1, <1>4, ModNear
<1>6. QED
  BY <1>3, <1>4, <1>5 DEF b

\* An index k bytes on holds k bytes.
LEMMA HeldMoved ==
  ASSUME BufferAssumption, NEW r \in Index, NEW k \in Index
  PROVE  (r + k) % Word \in Index /\ Held(r, (r + k) % Word) = k
<1> DEFINE a == r + k
<1> DEFINE w == a % Word
<1>1. Word \in Nat \ {0} /\ a \in 0..2 * Word - 1
  BY DEF BufferAssumption, Index
<1> HIDE DEF a
<1>2. w = IF a < Word THEN a ELSE a - Word
  BY <1>1, ModNear
<1> HIDE DEF w
<1>3. w \in Index
  BY <1>1, <1>2 DEF Index
<1>4. Held(r, w) = IF r <= w THEN w - r ELSE w + Word - r
  BY <1>3, HeldFacts
<1>5. Held(r, w) = k
  BY <1>1, <1>2, <1>3, <1>4 DEF Index, a
<1>6. QED
  BY <1>3, <1>5 DEF a, w

\* Where the byte is that an index names, k bytes on, when the index has wrapped.
LEMMA FarSlot ==
  ASSUME BufferAssumption, NEW n \in Powers, NEW r \in Nat, NEW k \in 0..n
  PROVE  ((r + k) % Word) % n = At(n, r, k)
<1>1. n \in Nat \ {0} /\ r + k \in Nat
  BY DEF Powers
<1>2. QED
  BY <1>1, WordMod, AtSlot

\* As the code adds them up.
LEMMA ByteSlot ==
  ASSUME NEW n \in Nat \ {0}, NEW r \in Nat, NEW i \in 1..n + 1
  PROVE  (r + i - 1) % n = At(n, r, i - 1) /\ At(n, r, i - 1) \in 0..n - 1
<1> DEFINE k == i - 1
<1>1. k \in 0..n /\ r + i - 1 = r + k
  OBVIOUS
<1> HIDE DEF k
<1>2. (r + k) % n = At(n, r, k) /\ At(n, r, k) \in 0..n - 1
  BY <1>1, AtSlot
<1>3. QED
  BY <1>1, <1>2 DEF k

\* The first bytes of a sequence, and the others.
LEMMA FrontOf ==
  ASSUME NEW S, NEW s \in Seq(S), NEW k \in 0..Len(s), NEW t \in Seq(S), Len(t) = k,
         \A i \in 1..k : t[i] = s[i]
  PROVE  t = SubSeq(s, 1, k)
<1>1. k \in Nat /\ Len(s) \in Nat /\ k <= Len(s)
  BY LenProperties
<1>2. \A i \in 1..k : s[i] \in S
  BY <1>1, ElementOfSeq
<1>3. /\ SubSeq(s, 1, k) \in Seq(S) /\ Len(SubSeq(s, 1, k)) = k
      /\ \A i \in 1..k : SubSeq(s, 1, k)[i] = s[i]
  BY <1>1, <1>2, SubSeqProperties
<1>4. QED
  BY <1>3, SeqEqual

LEMMA BackOf ==
  ASSUME NEW S, NEW s \in Seq(S), NEW k \in 0..Len(s), NEW t \in Seq(S), Len(t) = Len(s) - k,
         \A i \in 1..Len(s) - k : t[i] = s[k + i]
  PROVE  t = SubSeq(s, k + 1, Len(s))
<1>1. k \in Nat /\ Len(s) \in Nat /\ k <= Len(s)
  BY LenProperties
<1>2. \A i \in k + 1..Len(s) : s[i] \in S
  BY <1>1, ElementOfSeq
<1>3. /\ SubSeq(s, k + 1, Len(s)) \in Seq(S) /\ Len(SubSeq(s, k + 1, Len(s))) = Len(s) - k
      /\ \A i \in 1..Len(s) - k : SubSeq(s, k + 1, Len(s))[i] = s[k + i]
  BY <1>1, <1>2, SubSeqProperties
<1>4. QED
  BY <1>3, SeqEqual

-----------------------------------------------------------------------------
AnyByte == Bytes \union {Junk}

\* A buffer without a limit holds Room bytes at most; the block of one with a limit never
\* has more than half of the bytes a word can count.
Bounded == IF nmax = 0 THEN Size <= Room ELSE nsize <= nmax /\ 2 * nmax <= Word

BufferInv == BufferTypeOK /\ Bounded

\* What size() says of the indexes.
LEMMA SizeFacts ==
  ASSUME BufferAssumption, BufferInv
  PROVE  /\ nr \in Index /\ nw \in Index /\ nr \in Nat /\ nw \in Nat
         /\ nsize \in Nat \ {0} /\ nsize <= Word /\ Word \in Nat \ {0}
         /\ Size = Held(nr, nw) /\ Size \in Index /\ Size \in 0..nsize /\ nw = (nr + Size) % Word
         /\ nw % nsize = At(nsize, nr, Size)
<1>1. nr \in Index /\ nw \in Index /\ nsize \in Powers /\ Size <= nsize
  BY DEF BufferInv, BufferTypeOK, Index
<1>2. Word \in Nat \ {0} /\ nsize \in Nat \ {0} /\ nsize <= Word
  BY <1>1 DEF Powers, BufferAssumption
<1>3. Size = Held(nr, nw)
  BY DEF Size, Held
<1>4. Size \in Index /\ nw = (nr + Size) % Word
  BY <1>1, <1>3, HeldFacts
<1>5. nr \in Nat /\ nw \in Nat /\ Size \in 0..nsize
  BY <1>1, <1>2, <1>4 DEF Index
<1>6. nw % nsize = At(nsize, nr, Size)
  BY <1>1, <1>4, <1>5, FarSlot
<1>7. QED
  BY <1>1, <1>2, <1>3, <1>4, <1>5, <1>6

\* The k bytes of a block from the one that the index r names.
Ring(d, n, r, k) == [i \in 1..k |-> d[(r + i - 1) % n]]

\* Such a sequence, byte by byte.
LEMMA RingFacts ==
  ASSUME NEW n \in Nat \ {0}, NEW d \in [0..n - 1 -> AnyByte], NEW r \in Nat, NEW k \in 0..n
  PROVE  /\ Ring(d, n, r, k) \in Seq(AnyByte) /\ Len(Ring(d, n, r, k)) = k
         /\ \A i \in 1..k : /\ At(n, r, i - 1) \in 0..n - 1
                            /\ Ring(d, n, r, k)[i] = d[At(n, r, i - 1)]
<1>1. ASSUME NEW i \in 1..k
      PROVE  (r + i - 1) % n = At(n, r, i - 1) /\ At(n, r, i - 1) \in 0..n - 1
  <2>1. i \in 1..n + 1
    OBVIOUS
  <2>2. QED
    BY <2>1, ByteSlot
<1>2. Ring(d, n, r, k) = [i \in 1..k |-> d[At(n, r, i - 1)]]
  BY <1>1 DEF Ring
<1>3. \A i \in 1..k : d[At(n, r, i - 1)] \in AnyByte
  BY <1>1
<1>4. Ring(d, n, r, k) \in Seq(AnyByte) /\ Len(Ring(d, n, r, k)) = k
  BY <1>2, <1>3
<1>5. QED
  BY <1>1, <1>2, <1>4

\* What is in the buffer, byte by byte.
LEMMA ContentsFacts ==
  ASSUME BufferAssumption, BufferInv
  PROVE  /\ Contents \in Seq(AnyByte) /\ Len(Contents) = Size
         /\ \A i \in 1..Size : /\ At(nsize, nr, i - 1) \in 0..nsize - 1
                               /\ Contents[i] = data[At(nsize, nr, i - 1)]
<1>1. Size \in 0..nsize /\ nsize \in Nat \ {0} /\ nr \in Nat
  BY SizeFacts
<1>2. data \in [0..nsize - 1 -> AnyByte]
  BY DEF BufferInv, BufferTypeOK, AnyByte
<1>3. Contents = Ring(data, nsize, nr, Size)
  BY DEF Contents, Ring
<1>4. /\ Ring(data, nsize, nr, Size) \in Seq(AnyByte) /\ Len(Ring(data, nsize, nr, Size)) = Size
      /\ \A i \in 1..Size : /\ At(nsize, nr, i - 1) \in 0..nsize - 1
                            /\ Ring(data, nsize, nr, Size)[i] = data[At(nsize, nr, i - 1)]
  BY <1>1, <1>2, RingFacts
<1>5. QED
  BY <1>3, <1>4

\* A block of n bytes with its indexes holds what the buffer holds.
SameBytes(b, n) ==
  /\ b.data \in [0..n - 1 -> AnyByte] /\ b.nr \in Index /\ b.nw \in Index
  /\ Held(b.nr, b.nw) = Size
  /\ \A i \in 1..Size : b.data[At(n, b.nr, i - 1)] = Contents[i]

\* A small index is a place of the block.
LEMMA AtSmall ==
  ASSUME NEW n \in Nat \ {0}, NEW r \in 0..n - 1, NEW k \in 0..n - 1, r + k < n
  PROVE  At(n, r, k) = r + k
<1>1. r % n = r
  BY ModNear
<1>2. QED
  BY <1>1 DEF At

\* normalize leaves what is held, and in one piece.
LEMMA NormalizedHolds ==
  ASSUME BufferAssumption, BufferInv
  PROVE  /\ SameBytes(Normalized, nsize)
         /\ Size # 0 => Normalized.nr + Size <= nsize
<1> DEFINE r == nr % nsize
<1> DEFINE w == nw % nsize
<1>1. /\ nr \in Index /\ nw \in Index /\ nr \in Nat /\ nw \in Nat
      /\ nsize \in Nat \ {0} /\ nsize <= Word /\ Word \in Nat \ {0}
      /\ Size = Held(nr, nw) /\ Size \in Index /\ Size \in 0..nsize
      /\ w = At(nsize, nr, Size)
  BY SizeFacts
<1>2. data \in [0..nsize - 1 -> AnyByte]
  BY DEF BufferInv, BufferTypeOK, AnyByte
<1>3. r \in 0..nsize - 1
  BY <1>1, ModParts
<1>4. w = IF r + Size < nsize THEN r + Size ELSE r + Size - nsize
  BY <1>1 DEF At
<1>5. \A i \in 1..Size : /\ At(nsize, nr, i - 1) \in 0..nsize - 1
                         /\ Contents[i] = data[At(nsize, nr, i - 1)]
  BY ContentsFacts
<1>6. \A i \in 1..Size : At(nsize, nr, i - 1) = IF r + (i - 1) < nsize THEN r + (i - 1) ELSE r + (i - 1) - nsize
  BY DEF At
<1>7. CASE Size = 0
  <2>1. Normalized = [data |-> data, nr |-> nr, nw |-> nw]
    BY <1>7 DEF Normalized
  <2> HIDE DEF r, w
  <2>2. QED
    BY <1>1, <1>2, <1>5, <1>7, <2>1 DEF SameBytes
<1>8. CASE Size # 0 /\ r < w
  <2>1. Normalized = [data |-> data, nr |-> r, nw |-> w]
    BY <1>8 DEF Normalized
  <2> HIDE DEF r, w
  <2>2. w = r + Size /\ r + Size < nsize
    BY <1>1, <1>3, <1>4, <1>8
  <2>3. r \in Index /\ w \in Index
    BY <1>1, <1>3, <2>2 DEF Index
  <2>4. Held(r, w) = Size
    BY <1>1, <1>3, <2>2, <2>3, HeldFacts
  <2>5. \A i \in 1..Size : At(nsize, r, i - 1) = At(nsize, nr, i - 1)
    <3> TAKE i \in 1..Size
    <3>1. i - 1 \in 0..nsize - 1 /\ r + (i - 1) < nsize
      BY <1>1, <1>3, <2>2
    <3>2. At(nsize, r, i - 1) = r + (i - 1)
      BY <1>1, <1>3, <3>1, AtSmall
    <3>3. QED
      BY <1>6, <3>1, <3>2
  <2>6. QED
    BY <1>1, <1>2, <1>5, <2>1, <2>2, <2>3, <2>4, <2>5 DEF SameBytes
<1>9. CASE Size # 0 /\ ~(r < w)
  <2> DEFINE d == [i \in 0..nsize - 1 |->
                     IF i < nsize - r THEN data[r + i]
                     ELSE IF i < nsize - r + w THEN data[i - (nsize - r)]
                     ELSE data[i]]
  <2>1. Normalized = [data |-> d, nr |-> 0, nw |-> Size]
    BY <1>9 DEF Normalized
  <2> HIDE DEF r, w
  <2>2. r + Size >= nsize /\ w = r + Size - nsize
    BY <1>1, <1>3, <1>4, <1>9
  <2>3. d \in [0..nsize - 1 -> AnyByte]
    <3>1. \A i \in 0..nsize - 1 : (IF i < nsize - r THEN data[r + i]
                                   ELSE IF i < nsize - r + w THEN data[i - (nsize - r)]
                                   ELSE data[i]) \in AnyByte
      BY <1>1, <1>2, <1>3, <2>2
    <3>2. QED
      BY <3>1
  <2>4. 0 \in Index /\ Held(0, Size) = Size
    <3>1. 0 \in Index
      BY <1>1 DEF Index
    <3>2. QED
      BY <1>1, <3>1, HeldFacts DEF Index
  <2>5. \A i \in 1..Size : d[At(nsize, 0, i - 1)] = Contents[i]
    <3> TAKE i \in 1..Size
    <3>1. i - 1 \in 0..nsize - 1 /\ 0 \in 0..nsize - 1 /\ 0 + (i - 1) = i - 1
      BY <1>1
    <3>2. At(nsize, 0, i - 1) = i - 1
      BY <1>1, <3>1, AtSmall
    <3>3. d[i - 1] = data[At(nsize, nr, i - 1)]
      BY <1>1, <1>3, <1>6, <2>2, <3>1
    <3>4. QED
      BY <1>5, <3>2, <3>3
  <2> HIDE DEF d
  <2>6. QED
    BY <1>1, <2>1, <2>3, <2>4, <2>5 DEF SameBytes
<1>10. QED
  BY <1>7, <1>8, <1>9

\* The fields of what normalize leaves.
NormalizedRecord ==
  Normalized = [data |-> Normalized.data, nr |-> Normalized.nr, nw |-> Normalized.nw]

\* A larger block holds the same: what is in one piece does not wrap, in either block.
LEMMA ResizedHolds ==
  ASSUME BufferAssumption, BufferInv, NEW n \in Powers, nsize <= n
  PROVE  SameBytes(Resized(n), n)
<1>1. nsize \in Nat \ {0} /\ n \in Nat \ {0} /\ Size \in 0..nsize /\ nr \in Index /\ nw \in Index /\ Size = Held(nr, nw)
  BY SizeFacts DEF Powers
<1>2. CASE n = nsize
  <2>1. Resized(n) = [data |-> data, nr |-> nr, nw |-> nw]
    BY <1>2 DEF Resized
  <2>2. data \in [0..nsize - 1 -> AnyByte]
    BY DEF BufferInv, BufferTypeOK, AnyByte
  <2>3. QED
    BY <1>1, <1>2, <2>1, <2>2, ContentsFacts DEF SameBytes
<1>3. CASE n # nsize
  <2> DEFINE d == [i \in 0..n - 1 |-> IF i < nsize THEN Normalized.data[i] ELSE Junk]
  <2>1. Resized(n) = [data |-> d, nr |-> Normalized.nr, nw |-> Normalized.nw]
    <3>1. NormalizedRecord
      BY DEF NormalizedRecord, Normalized
    <3>2. Resized(n) = [Normalized EXCEPT !.data = d]
      BY <1>3 DEF Resized
    <3> HIDE DEF d
    <3>3. QED
      BY <3>1, <3>2 DEF NormalizedRecord
  <2>2. SameBytes(Normalized, nsize) /\ (Size # 0 => Normalized.nr + Size <= nsize)
    BY NormalizedHolds
  <2>3. d \in [0..n - 1 -> AnyByte]
    BY <1>1, <2>2 DEF SameBytes, AnyByte
  <2>4. \A i \in 1..Size : d[At(n, Normalized.nr, i - 1)] = Contents[i]
    <3> TAKE i \in 1..Size
    <3> DEFINE r == Normalized.nr
    <3> DEFINE k == i - 1
    <3>1. r \in Nat /\ k \in Nat /\ r + k < nsize
      BY <1>1, <2>2 DEF SameBytes, Index
    <3>2. At(nsize, r, k) = r + k /\ At(n, r, k) = r + k
      <4> HIDE DEF r, k
      <4>1. r \in 0..nsize - 1 /\ k \in 0..nsize - 1 /\ r \in 0..n - 1 /\ k \in 0..n - 1 /\ r + k < n
        BY <1>1, <3>1
      <4>2. QED
        BY <1>1, <3>1, <4>1, AtSmall
    <3>3. d[r + k] = Normalized.data[r + k]
      BY <1>1, <3>1
    <3>4. Normalized.data[At(nsize, r, k)] = Contents[i]
      BY <2>2 DEF SameBytes
    <3>5. QED
      BY <3>2, <3>3, <3>4
  <2> HIDE DEF d
  <2>5. QED
    BY <2>1, <2>2, <2>3, <2>4 DEF SameBytes
<1>4. QED
  BY <1>2, <1>3

-----------------------------------------------------------------------------
\* The order of the numbers.
Smaller == {p \in Nat \X Nat : p[1] < p[2]}

\* It is well-founded, so a set of numbers has a least one.
LEMMA LeastElement ==
  ASSUME NEW T \in SUBSET Nat, T # {}
  PROVE  \E x \in T : \A y \in T : x <= y
<1>1. IsWellFoundedOn(Smaller, Nat)
  BY NatLessThanWellFounded DEF OpToRel, Smaller
<1>2. PICK x \in T : \A y \in T : <<y, x>> \notin Smaller
  BY <1>1, WFMin
<1>3. ASSUME NEW y \in T PROVE x <= y
  <2>1. <<y, x>> \in Nat \X Nat /\ <<y, x>> \notin Smaller
    BY <1>2
  <2>2. ~(y < x)
    BY <2>1 DEF Smaller
  <2>3. QED
    BY <2>2
<1>4. QED
  BY <1>3

\* roundup_power_of_2 finds the smallest power that is large enough.
LEMMA RoundUpFacts ==
  ASSUME BufferAssumption, NEW len \in 0..Word
  PROVE  /\ RoundUp(len) \in Powers /\ RoundUp(len) >= len
         /\ \A k \in Powers : k >= len => RoundUp(len) <= k
<1> DEFINE T == {n \in Powers : n >= len}
<1>1. T \in SUBSET Nat
  BY DEF Powers, BufferAssumption
<1>2. Word \in T
  <2>1. Word % Word = 0
    <3>1. Word \in Nat \ {0} /\ Word \in 0..2 * Word - 1
      BY DEF BufferAssumption
    <3>2. QED
      BY <3>1, ModNear
  <2>2. QED
    BY <2>1 DEF Powers, BufferAssumption
<1>3. PICK n \in T : \A k \in T : n <= k
  BY <1>1, <1>2, LeastElement
<1>4. \E m \in Powers : m >= len /\ \A k \in Powers : k >= len => m <= k
  BY <1>3
<1>5. QED
  BY <1>4 DEF RoundUp

\* A word has a half.
LEMMA HalfFacts ==
  ASSUME BufferAssumption
  PROVE  \E h \in Powers : Word = 2 * h
<1>1. Word \in Nat \ {0} /\ Word % 2 = 0
  BY DEF BufferAssumption
<1>2. PICK h \in Nat, r \in 0..1 : Word = 2 * h + r /\ r = Word % 2
  BY <1>1, Quotient
<1>3. Word = h * 2 + 0 /\ h \in 1..Word
  BY <1>1, <1>2
<1>4. Word % h = 0
  BY <1>3, ModOf
<1>5. QED
  BY <1>3, <1>4 DEF Powers

-----------------------------------------------------------------------------
(* After a step. *)

\* What is in the buffer after a step, byte by byte.
LEMMA NewContents ==
  ASSUME nsize' \in Nat \ {0}, data' \in [0..nsize' - 1 -> AnyByte], nr' \in Nat, Size' \in 0..nsize'
  PROVE  /\ Contents' \in Seq(AnyByte) /\ Len(Contents') = Size'
         /\ \A i \in 1..Size' : /\ At(nsize', nr', i - 1) \in 0..nsize' - 1
                                /\ Contents'[i] = data'[At(nsize', nr', i - 1)]
<1>1. Contents' = Ring(data', nsize', nr', Size')
  BY DEF Contents, Ring
<1>2. /\ Ring(data', nsize', nr', Size') \in Seq(AnyByte) /\ Len(Ring(data', nsize', nr', Size')) = Size'
      /\ \A i \in 1..Size' : /\ At(nsize', nr', i - 1) \in 0..nsize' - 1
                             /\ Ring(data', nsize', nr', Size')[i] = data'[At(nsize', nr', i - 1)]
  BY RingFacts
<1>3. QED
  BY <1>1, <1>2

\* Two places of a block differ.
LEMMA AtApart ==
  ASSUME NEW n \in Nat \ {0}, NEW r \in Nat, NEW i \in 0..n - 1, NEW j \in 0..n - 1, i # j
  PROVE  At(n, r, i) # At(n, r, j)
<1>1. r % n \in 0..n - 1
  BY ModParts
<1>2. QED
  BY <1>1 DEF At

\* What the block held stays, and the new bytes follow it.
LEMMA FilledFacts ==
  ASSUME BufferAssumption, BufferInv, NEW n \in Powers, NEW b, SameBytes(b, n),
         NEW total \in Nat, NEW bytes \in [1..total -> Bytes],
         NEW len \in 0..total, Size + len <= n
  PROVE  /\ Filled(b, n, bytes, len) \in [0..n - 1 -> AnyByte]
         /\ \A i \in 1..Size : Filled(b, n, bytes, len)[At(n, b.nr, i - 1)] = Contents[i]
         /\ \A i \in 1..len : Filled(b, n, bytes, len)[At(n, b.nr, Size + i - 1)] = bytes[i]
<1> DEFINE at(i) == ((b.nw % n) + i - 1) % n
<1> DEFINE Spot(i) == At(n, b.nr, Size + i - 1)
<1> DEFINE m == b.nw % n
<1> DEFINE first == Least(len, n - m)
<1> DEFINE e == [j \in 0..n - 1 |-> IF m <= j /\ j < m + first THEN bytes[j - m + 1]
                                    ELSE IF j < len - first THEN bytes[first + j + 1]
                                    ELSE b.data[j]]
<1>1. Filled(b, n, bytes, len) = e
  BY DEF Filled
<1>2. /\ n \in Nat \ {0} /\ Size \in Nat /\ Size \in 0..n /\ len \in Nat
      /\ b.nr \in Index /\ b.nw \in Index /\ b.nr \in Nat /\ b.nw \in Nat
      /\ b.data \in [0..n - 1 -> AnyByte]
  <2>1. n \in Nat \ {0} /\ Size \in Nat /\ Word \in Nat \ {0}
    BY SizeFacts DEF Powers
  <2>2. b.nr \in Index /\ b.nw \in Index /\ b.data \in [0..n - 1 -> AnyByte]
    BY DEF SameBytes
  <2>3. QED
    BY <2>1, <2>2 DEF Index
<1>3. b.nw = (b.nr + Size) % Word
  BY <1>2, HeldFacts DEF SameBytes
<1>4. ASSUME NEW i \in 1..len PROVE at(i) = Spot(i) /\ Spot(i) \in 0..n - 1
  <2> DEFINE k == i - 1
  <2>1. k \in Nat /\ Size + k \in 0..n /\ Size + i - 1 = Size + k /\ (b.nw % n) + i - 1 = (b.nw % n) + k
    <3>1. b.nw % n \in 0..n - 1
      BY <1>2, ModParts
    <3> DEFINE x == b.nw % n
    <3> HIDE DEF x
    <3>2. x \in Nat
      BY <1>2, <3>1 DEF x
    <3>3. x + i - 1 = x + k
      BY <3>2
    <3>4. QED
      BY <1>2, <3>3 DEF x
  <2> HIDE DEF k
  <2>2. at(i) = ((b.nw % n) + k) % n
    BY <2>1
  <2>3. ((b.nw % n) + k) % n = (b.nw + k) % n
    BY <1>2, <2>1, ModSum
  <2>4. (b.nw + k) % n = (b.nr + (Size + k)) % n
    <3> DEFINE x == b.nr + Size
    <3>1. x \in Nat /\ b.nw = x % Word /\ b.nr + (Size + k) = x + k
      <4>1. b.nr \in Nat /\ Size \in Nat /\ k \in Nat
        BY <1>2, <2>1
      <4>2. x \in Nat /\ b.nr + (Size + k) = x + k
        BY <4>1
      <4>3. QED
        BY <1>3, <4>2
    <3> HIDE DEF x
    <3>2. b.nw % n = x % n
      BY <3>1, WordMod
    <3>3. ((b.nw % n) + k) % n = ((x % n) + k) % n
      BY <3>2
    <3>4. ((x % n) + k) % n = (x + k) % n
      BY <1>2, <2>1, <3>1, ModSum
    <3>5. QED
      BY <2>3, <3>1, <3>3, <3>4
  <2>5. (b.nr + (Size + k)) % n = At(n, b.nr, Size + k) /\ At(n, b.nr, Size + k) \in 0..n - 1
    BY <1>2, <2>1, AtSlot
  <2>6. QED
    BY <2>1, <2>2, <2>3, <2>4, <2>5
<1>5. len <= n
  BY <1>2
<1>6. ASSUME NEW i \in 1..Size
      PROVE  At(n, b.nr, i - 1) \in 0..n - 1 /\ \A j \in 1..len : Spot(j) # At(n, b.nr, i - 1)
  <2>1. i - 1 \in 0..n - 1 /\ i - 1 \in 0..n
    BY <1>2
  <2>2. At(n, b.nr, i - 1) \in 0..n - 1
    BY <1>2, <2>1, AtSlot
  <2>3. ASSUME NEW j \in 1..len PROVE Spot(j) # At(n, b.nr, i - 1)
    <3>1. Size + j - 1 \in 0..n - 1 /\ Size + j - 1 # i - 1
      BY <1>2
    <3>2. QED
      BY <1>2, <2>1, <3>1, AtApart
  <2>4. QED
    BY <2>2, <2>3
<1>7. m \in 0..n - 1 /\ m \in Nat /\ first \in 0..len /\ first \in Nat /\ m + first <= n
       /\ (first # len => first = n - m)
  <2>1. m \in 0..n - 1
    BY <1>2, ModParts
  <2> HIDE DEF m
  <2>2. QED
    BY <1>2, <2>1 DEF Least
<1>8. ASSUME NEW i \in 1..len
       PROVE  at(i) = IF m + (i - 1) < n THEN m + (i - 1) ELSE m + (i - 1) - n
  <2> DEFINE k == i - 1
  <2>1. k \in 0..n /\ k \in Nat /\ m + i - 1 = m + k
    <3> HIDE DEF m
    <3>1. QED
      BY <1>2, <1>7
  <2>2. at(i) = (m + k) % n
    BY <2>1
  <2>3. (m + k) % n = (b.nw + k) % n
    BY <1>2, <2>1, ModSum
  <2>4. (b.nw + k) % n = At(n, b.nw, k)
    BY <1>2, <2>1, AtSlot
  <2>5. QED
    BY <2>2, <2>3, <2>4 DEF At
<1> HIDE DEF at, Spot, m, first
<1>9. ASSUME NEW i \in 1..len PROVE e[Spot(i)] = bytes[i]
  <2> DEFINE j == at(i)
  <2>1. j = Spot(i) /\ j \in 0..n - 1
    BY <1>4
  <2>2. j = IF m + (i - 1) < n THEN m + (i - 1) ELSE m + (i - 1) - n
    BY <1>8
  <2> HIDE DEF j
  <2>3. CASE i <= first
    <3>1. m <= j /\ j < m + first /\ j - m + 1 = i
      BY <1>2, <1>7, <2>2, <2>3
    <3>2. QED
      BY <2>1, <3>1
  <2>4. CASE ~(i <= first)
    <3>1. ~(m <= j /\ j < m + first) /\ j < len - first /\ first + j + 1 = i
      BY <1>2, <1>5, <1>7, <2>2, <2>4
    <3>2. QED
      BY <2>1, <3>1
  <2>5. QED
    BY <2>3, <2>4
<1>10. ASSUME NEW j \in 0..n - 1
       PROVE  /\ (m <= j /\ j < m + first => j - m + 1 \in 1..len /\ at(j - m + 1) = j)
              /\ (j < len - first => first + j + 1 \in 1..len /\ at(first + j + 1) = j)
  <2>1. CASE m <= j /\ j < m + first
    <3> DEFINE i == j - m + 1
    <3>1. i \in 1..len /\ m + (i - 1) = j
      BY <1>2, <1>7, <2>1
    <3>2. ~(j < len - first)
      BY <1>2, <1>5, <1>7, <2>1
    <3> HIDE DEF i
    <3>3. at(i) = j
      BY <1>2, <1>7, <1>8, <3>1
    <3>4. QED
      BY <2>1, <3>1, <3>2, <3>3 DEF i
  <2>2. CASE j < len - first
    <3>1. /\ j \in Nat /\ n \in Nat /\ len \in Nat /\ m \in Nat /\ first \in Nat
          /\ first # len /\ first = n - m
      BY <1>2, <1>7, <2>2
    <3>2. first + j < len
      BY <2>2, <3>1
    <3>3. j < m
      BY <1>5, <3>1, <3>2
    <3> DEFINE i == first + j + 1
    <3>4. i \in 1..len /\ i - 1 = first + j
      BY <3>1, <3>2
    <3> HIDE DEF i
    <3>5. m + (i - 1) = n + j /\ ~(n + j < n) /\ n + j - n = j
      BY <3>1, <3>4
    <3>6. at(i) = IF m + (i - 1) < n THEN m + (i - 1) ELSE m + (i - 1) - n
      BY <1>8, <3>4
    <3>7. at(i) = j
      BY <3>1, <3>4, <3>5, <3>6
    <3>8. QED
      BY <3>1, <3>3, <3>4, <3>7 DEF i
  <2>3. QED
    BY <2>1, <2>2
<1>11. ASSUME NEW i \in 1..Size PROVE e[At(n, b.nr, i - 1)] = Contents[i]
  <2> DEFINE j == At(n, b.nr, i - 1)
  <2>1. j \in 0..n - 1 /\ ~ \E k \in 1..len : at(k) = j
    BY <1>4, <1>6
  <2>2. b.data[j] = Contents[i]
    BY DEF SameBytes
  <2> HIDE DEF j
  <2>3. ~(m <= j /\ j < m + first) /\ ~(j < len - first)
    BY <1>10, <2>1
  <2>4. e[j] = b.data[j]
    BY <2>1, <2>3
  <2>5. QED
    BY <2>2, <2>4 DEF j
<1>12. e \in [0..n - 1 -> AnyByte]
  <2>1. ASSUME NEW j \in 0..n - 1
        PROVE  (IF m <= j /\ j < m + first THEN bytes[j - m + 1]
                ELSE IF j < len - first THEN bytes[first + j + 1] ELSE b.data[j]) \in AnyByte
    <3>1. \A i \in 1..len : bytes[i] \in AnyByte
      <4>1. \A i \in 1..len : i \in 1..total
        BY <1>2
      <4>2. QED
        BY <4>1 DEF AnyByte
    <3>2. b.data[j] \in AnyByte
      BY <1>2
    <3>3. QED
      BY <1>10, <3>1, <3>2
  <2>2. QED
    BY <2>1
<1> HIDE DEF e
<1>13. QED
  BY <1>1, <1>9, <1>11, <1>12 DEF Spot

-----------------------------------------------------------------------------
\* What is asked for never exceeds a word.
LEMMA RoomFacts ==
  ASSUME BufferAssumption, BufferInv, NEW total \in 0..Room, nmax = 0 => Size + total <= Room
  PROVE  Size + total \in 0..Word /\ Room < Word /\ (nmax # 0 => nmax < Word)
<1>1. Size \in Nat /\ Word \in Nat \ {0} /\ Size <= nsize /\ nsize \in Nat
  BY SizeFacts
<1>2. Room \in Nat /\ 2 * Room <= Word
  BY DEF BufferAssumption
<1>3. nmax \in Nat
  BY DEF BufferInv, BufferTypeOK, Powers
<1>4. nmax # 0 => nsize <= nmax /\ 2 * nmax <= Word
  BY DEF BufferInv, Bounded
<1>5. QED
  BY <1>1, <1>2, <1>3, <1>4

\* write appends.
LEMMA WriteKeeps ==
  ASSUME BufferAssumption, BufferInv, NEW total \in 1..Room, NEW bytes \in [1..total -> Bytes], Write(bytes)
  PROVE  BufferInv' /\ Queue!Put /\ nmax' = nmax
<1> DEFINE rest == nsize - Size
<1> DEFINE n == RoundUp(Size + total)
<1> DEFINE grows == rest < total /\ (nmax = 0 \/ n <= nmax)
<1> DEFINE block == IF grows THEN Resized(n) ELSE [data |-> data, nr |-> nr, nw |-> nw]
<1> DEFINE len == IF grows THEN total ELSE Least(total, rest)
<1> DEFINE size == IF grows THEN n ELSE nsize
<1>1. Len(bytes) = total /\ total \in Nat
  <2>1. total \in Nat /\ Room \in Nat
    BY DEF BufferAssumption
  <2>2. QED
    BY <2>1
<1>2. /\ nmax = 0 => Size + total <= Room
      /\ nsize' = size /\ data' = Filled(block, size, bytes, len)
      /\ nr' = block.nr /\ nw' = (block.nw + len) % Word
      /\ nmax' = nmax /\ resev' = resev
      /\ call' = [op |-> "write", bytes |-> bytes, count |-> len]
  BY <1>1 DEF Write
<1>3. /\ nr \in Index /\ nw \in Index /\ nsize \in Nat \ {0} /\ nsize \in Powers
      /\ Size \in 0..nsize /\ Size \in Nat /\ Size = Held(nr, nw) /\ Word \in Nat \ {0}
  BY SizeFacts DEF BufferInv, BufferTypeOK
<1>4. nmax \in Powers \union {0} /\ resev \in Powers /\ nmax \in Nat
  BY DEF BufferInv, BufferTypeOK, Powers
<1>5. Size + total \in 0..Word /\ Room < Word /\ (nmax # 0 => nmax < Word)
  <2>1. total \in 0..Room
    OBVIOUS
  <2>2. QED
    BY <1>2, <2>1, RoomFacts
<1>6. n \in Powers /\ n >= Size + total /\ n \in Nat
  BY <1>5, RoundUpFacts DEF Powers
<1>7. /\ nmax # 0 => nsize <= nmax
      /\ ~grows /\ rest < total => nmax # 0 /\ Size + total > nmax
  <2>1. nmax # 0 => nsize <= nmax
    BY DEF BufferInv, Bounded
  <2>2. nmax # 0 /\ Size + total <= nmax => n <= nmax
    BY <1>4, <1>5, RoundUpFacts
  <2>3. QED
    BY <1>1, <1>3, <1>4, <1>6, <2>1, <2>2
<1> HIDE DEF n
<1>8. size \in Powers /\ nsize <= size /\ size \in Nat \ {0} /\ (nmax # 0 => size <= nmax)
  BY <1>1, <1>3, <1>4, <1>6, <1>7 DEF Powers
<1>9. /\ len \in 0..total /\ Size + len <= size /\ len \in Nat
      /\ len < total => nmax # 0 /\ Size + total > nmax
  BY <1>1, <1>3, <1>6, <1>7 DEF Least
<1>10. SameBytes(block, size)
  <2>1. CASE grows
    <3>1. nsize <= n
      BY <1>1, <1>3, <1>6, <2>1
    <3>2. QED
      BY <1>6, <2>1, <3>1, ResizedHolds
  <2>2. CASE ~grows
    <3>1. block = [data |-> data, nr |-> nr, nw |-> nw] /\ size = nsize
      BY <2>2
    <3>2. data \in [0..nsize - 1 -> AnyByte]
      BY DEF BufferInv, BufferTypeOK, AnyByte
    <3> HIDE DEF block, size
    <3>3. QED
      BY <1>3, <3>1, <3>2, ContentsFacts DEF SameBytes
  <2>3. QED
    BY <2>1, <2>2
<1> HIDE DEF block, len, size
<1>11. Size + len \in Index /\ (IF nmax = 0 THEN Size + len <= Room ELSE size <= nmax)
  <2>1. Room \in Nat
    BY DEF BufferAssumption
  <2>2. Size \in Nat /\ len \in Nat /\ total \in Nat /\ size \in Nat /\ Word \in Nat
    BY <1>1, <1>3, <1>8, <1>9
  <2>3. CASE nmax = 0
    <3>1. Size + len <= Room
      <4>1. Size + total <= Room /\ len <= total
        BY <1>2, <1>9, <2>3
      <4>2. QED
        BY <2>1, <2>2, <4>1
    <3>2. QED
      BY <1>5, <2>1, <2>2, <2>3, <3>1 DEF Index
  <2>4. CASE nmax # 0
    <3>1. size <= nmax /\ nmax < Word /\ Size + len <= size
      BY <1>5, <1>8, <1>9, <2>4
    <3>2. QED
      BY <1>4, <2>2, <2>4, <3>1 DEF Index
  <2>5. QED
    BY <2>3, <2>4
<1>12. /\ data' \in [0..size - 1 -> AnyByte]
       /\ \A i \in 1..Size : data'[At(size, block.nr, i - 1)] = Contents[i]
       /\ \A i \in 1..len : data'[At(size, block.nr, Size + i - 1)] = bytes[i]
  <2>1. /\ total \in Nat /\ bytes \in [1..total -> Bytes] /\ len \in 0..total
        /\ size \in Powers /\ SameBytes(block, size) /\ Size + len <= size
    BY <1>1, <1>8, <1>9, <1>10
  <2>2. /\ Filled(block, size, bytes, len) \in [0..size - 1 -> AnyByte]
        /\ \A i \in 1..Size : Filled(block, size, bytes, len)[At(size, block.nr, i - 1)] = Contents[i]
        /\ \A i \in 1..len : Filled(block, size, bytes, len)[At(size, block.nr, Size + i - 1)] = bytes[i]
    BY <2>1, FilledFacts
  <2>3. data' = Filled(block, size, bytes, len)
    BY <1>2
  <2>4. QED
    BY <2>2, <2>3
<1>13. nr' \in Index /\ nr' \in Nat /\ nw' \in Index /\ Size' = Size + len
  <2>1. block.nr \in Index /\ block.nw \in Index /\ Held(block.nr, block.nw) = Size
    BY <1>10 DEF SameBytes
  <2>2. block.nr \in Nat /\ block.nw \in Nat
    BY <1>3, <2>1 DEF Index
  <2>3. block.nw = (block.nr + Size) % Word
    BY <2>1, HeldFacts
  <2>4. nw' = (block.nr + (Size + len)) % Word
    <3> DEFINE x == block.nr + Size
    <3>1. x \in Nat /\ block.nw = x % Word /\ block.nr + (Size + len) = x + len
      <4>1. Size \in Nat /\ len \in Nat
        BY <1>3, <1>9
      <4> HIDE DEF rest, grows
      <4>2. x \in Nat /\ block.nr + (Size + len) = x + len
        BY <2>2, <4>1
      <4>3. QED
        BY <2>3, <4>2
    <3> HIDE DEF x
    <3>2. ((x % Word) + len) % Word = (x + len) % Word
      BY <1>3, <1>9, <3>1, ModSum
    <3>3. QED
      BY <1>2, <3>1, <3>2
  <2> DEFINE k == Size + len
  <2> HIDE DEF k
  <2>5. (block.nr + k) % Word \in Index /\ Held(block.nr, (block.nr + k) % Word) = k
    BY <1>11, <2>1, HeldMoved DEF k
  <2>6. nw' \in Index /\ Held(nr', nw') = k
    BY <1>2, <2>4, <2>5 DEF k
  <2>7. Size' = Held(nr', nw')
    BY DEF Size, Held
  <2>8. QED
    BY <1>2, <2>1, <2>2, <2>6, <2>7 DEF k
<1>14. BufferInv'
  <2>1. BufferTypeOK'
    BY <1>2, <1>4, <1>8, <1>9, <1>12, <1>13 DEF BufferTypeOK, AnyByte, Index
  <2>2. Bounded'
    <3>1. nmax # 0 => 2 * nmax <= Word
      BY DEF BufferInv, Bounded
    <3>2. QED
      BY <1>2, <1>11, <1>13, <3>1 DEF Bounded
  <2>3. QED
    BY <2>1, <2>2 DEF BufferInv
<1>15. /\ Contents' \in Seq(AnyByte) /\ Len(Contents') = Size'
       /\ \A i \in 1..Size' : Contents'[i] = data'[At(nsize', nr', i - 1)]
  <2>1. nsize' \in Nat \ {0} /\ data' \in [0..nsize' - 1 -> AnyByte] /\ nr' \in Nat /\ Size' \in 0..nsize'
    BY <1>2, <1>3, <1>8, <1>9, <1>12, <1>13
  <2>2. QED
    BY <2>1, NewContents
<1>16. Contents \in Seq(AnyByte) /\ Len(Contents) = Size
  BY ContentsFacts
<1>17. Contents' = Contents \o SubSeq(bytes, 1, len)
  <2>1. /\ SubSeq(bytes, 1, len) \in Seq(AnyByte) /\ Len(SubSeq(bytes, 1, len)) = len
        /\ \A i \in 1..len : SubSeq(bytes, 1, len)[i] = bytes[i]
    <3>1. \A i \in 1..len : bytes[i] \in AnyByte
      <4>1. \A i \in 1..len : i \in 1..total
        BY <1>1, <1>9
      <4>2. QED
        BY <4>1 DEF AnyByte
    <3>2. QED
      BY <1>9, <3>1, SubSeqProperties
  <2> DEFINE new == SubSeq(bytes, 1, len)
  <2> HIDE DEF new
  <2>2. /\ Contents \o new \in Seq(AnyByte) /\ Len(Contents \o new) = Size + len
        /\ \A i \in 1..Size + len : (Contents \o new)[i] = IF i <= Size THEN Contents[i] ELSE new[i - Size]
    <3>1. new \in Seq(AnyByte) /\ Len(new) = len
      BY <2>1 DEF new
    <3>2. /\ Contents \o new \in Seq(AnyByte) /\ Len(Contents \o new) = Len(Contents) + Len(new)
          /\ \A i \in 1..Len(Contents) + Len(new) :
               (Contents \o new)[i] = IF i <= Len(Contents) THEN Contents[i] ELSE new[i - Len(Contents)]
      BY <1>16, <3>1, ConcatProperties
    <3>3. QED
      BY <1>16, <3>1, <3>2
  <2>3. \A i \in 1..Size + len : Contents'[i] = (Contents \o new)[i]
    <3> TAKE i \in 1..Size + len
    <3>1. Contents'[i] = data'[At(size, block.nr, i - 1)]
      BY <1>2, <1>13, <1>15
    <3>2. CASE i <= Size
      <4>1. i \in 1..Size
        BY <1>3, <3>2
      <4>2. QED
        BY <1>12, <2>2, <3>1, <3>2, <4>1
    <3>3. CASE ~(i <= Size)
      <4> DEFINE k == i - Size
      <4>1. k \in 1..len /\ Size + k - 1 = i - 1
        BY <1>3, <1>9, <3>3
      <4>2. (Contents \o new)[i] = new[k]
        BY <2>2, <3>3
      <4> HIDE DEF k
      <4>3. data'[At(size, block.nr, Size + k - 1)] = bytes[k]
        BY <1>12, <4>1
      <4>4. new[k] = bytes[k]
        BY <2>1, <4>1 DEF new
      <4>5. QED
        BY <3>1, <4>1, <4>2, <4>3, <4>4
    <3>4. QED
      BY <3>2, <3>3
  <2>4. QED
    BY <1>13, <1>15, <2>2, <2>3, SeqEqual DEF new
<1>18. nmax # 0 => Size + len <= nmax
  BY <1>11, <1>3, <1>4, <1>8, <1>9
<1>19. call'.op = "write" /\ call'.bytes = bytes /\ call'.count = len
  BY <1>2
<1>20. len <= total
  BY <1>1, <1>9
<1>21. QED
  BY <1>1, <1>2, <1>9, <1>14, <1>16, <1>17, <1>18, <1>19, <1>20 DEF Queue!Put

\* An index that was moved names the same bytes.
LEMMA AtMoved ==
  ASSUME BufferAssumption, NEW n \in Powers, NEW r \in Nat, NEW l \in Nat, NEW k \in 0..n, l + k <= n
  PROVE  At(n, (r + l) % Word, k) = At(n, r, l + k)
<1> DEFINE x == r + l
<1> DEFINE y == x % Word
<1>1. n \in Nat \ {0} /\ Word \in Nat \ {0} /\ x \in Nat /\ k \in Nat /\ l + k \in 0..n /\ x + k = r + (l + k)
  BY DEF Powers, BufferAssumption
<1>2. At(n, r, l + k) = (x + k) % n
  BY <1>1, AtSlot
<1> HIDE DEF x
<1>3. y \in Nat /\ y % n = x % n
  <2>1. x % Word \in 0..Word - 1
    BY <1>1, ModParts
  <2>2. (x % Word) % n = x % n
    BY <1>1, WordMod
  <2>3. QED
    BY <1>1, <2>1, <2>2
<1> HIDE DEF y
<1>4. At(n, y, k) = (y + k) % n
  BY <1>1, <1>3, AtSlot
<1>5. (y + k) % n = ((y % n) + k) % n /\ (x + k) % n = ((x % n) + k) % n
  BY <1>1, <1>3, ModSum
<1>6. QED
  BY <1>2, <1>3, <1>4, <1>5 DEF x, y

\* What the buffer forgets, it forgets from the front.
LEMMA SkippedKeeps ==
  ASSUME BufferAssumption, BufferInv, NEW len \in 0..Size, Skipped(len), UNCHANGED <<nmax, resev>>
  PROVE  /\ BufferInv'
         /\ Contents' \in Seq(AnyByte) /\ Size' = Size - len /\ Len(Contents') = Size'
         /\ \A i \in 1..Size' : Contents'[i] = Contents[len + i]
<1>1. /\ nr \in Index /\ nw \in Index /\ nr \in Nat /\ nw \in Nat
      /\ nsize \in Nat \ {0} /\ Word \in Nat \ {0} /\ nsize \in Powers
      /\ Size = Held(nr, nw) /\ Size \in Index /\ Size \in 0..nsize /\ nw = (nr + Size) % Word
  BY SizeFacts DEF BufferInv, BufferTypeOK
<1>2. data \in [0..nsize - 1 -> AnyByte] /\ nmax \in Powers \union {0} /\ resev \in Powers
  BY DEF BufferInv, BufferTypeOK, AnyByte
<1>3. len \in Nat /\ len \in Index /\ Size \in Nat /\ Size - len \in Index
  BY <1>1 DEF Index
<1>10. Size \in Nat /\ len \in Nat /\ len <= Size /\ nsize \in Nat /\ Size <= nsize
  BY <1>1, <1>3
<1>4. (nr + len) % Word \in Index /\ Held(nr, (nr + len) % Word) = len
  BY <1>1, <1>3, HeldMoved
<1>5. nmax \in Nat /\ resev \in Nat /\ Room \in Nat
  BY <1>2 DEF Powers, BufferAssumption
<1>6. Bounded
  BY DEF BufferInv
<1>7. CASE (nr + len) % Word = nw
  <2>1. nr' = 0 /\ nw' = 0 /\ nsize' = Least(nsize, resev) /\ data' = [i \in 0..nsize' - 1 |-> data[i]]
    BY <1>7 DEF Skipped, Cleared
  <2>2. len = Size
    BY <1>1, <1>4, <1>7
  <2>3. nsize' \in Powers /\ nsize' \in Nat \ {0} /\ nsize' <= nsize
    BY <1>1, <1>2, <1>5, <2>1 DEF Least, Powers
  <2>4. Size' = 0 /\ 0 \in Index
    <3>1. 0 \in Index
      BY <1>1 DEF Index
    <3>2. Size' = Held(0, 0)
      BY <2>1 DEF Size, Held
    <3>3. QED
      BY <3>1, <3>2, HeldFacts
  <2>5. data' \in [0..nsize' - 1 -> AnyByte]
    <3>1. \A i \in 0..nsize' - 1 : i \in 0..nsize - 1
      <4> DEFINE n == nsize'
      <4>1. n \in Nat /\ n <= nsize
        BY <2>3
      <4> HIDE DEF n
      <4>2. \A i \in 0..n - 1 : i \in 0..nsize - 1
        BY <1>10, <4>1
      <4>3. QED
        BY <4>2 DEF n
    <3>2. \A i \in 0..nsize' - 1 : data[i] \in AnyByte
      BY <1>2, <3>1
    <3>3. QED
      BY <2>1, <3>2
  <2>6. BufferInv'
    <3>1. BufferTypeOK'
      BY <1>2, <2>1, <2>3, <2>4, <2>5 DEF BufferTypeOK, AnyByte, Index
    <3>2. Bounded'
      BY <1>1, <1>5, <1>6, <2>3, <2>4 DEF Bounded
    <3>3. QED
      BY <3>1, <3>2 DEF BufferInv
  <2>7. Contents' \in Seq(AnyByte) /\ Len(Contents') = Size'
    <3>1. nr' \in Nat /\ Size' \in 0..nsize'
      BY <2>1, <2>3, <2>4
    <3>2. QED
      BY <2>3, <2>5, <3>1, NewContents
  <2>8. QED
    BY <1>3, <2>2, <2>4, <2>6, <2>7
<1>8. CASE (nr + len) % Word # nw
  <2>1. nr' = (nr + len) % Word /\ data' = data /\ nsize' = nsize /\ nw' = nw /\ nmax' = nmax /\ resev' = resev
    BY <1>8 DEF Skipped
  <2>2. nr' \in Index /\ nr' \in Nat
    BY <1>1, <1>4, <2>1 DEF Index
  <2>3. nw = (nr' + (Size - len)) % Word
    <3> DEFINE x == nr + len
    <3> DEFINE k == Size - len
    <3>1. x \in Nat /\ k \in Nat /\ nr + Size = x + k
      BY <1>1, <1>3
    <3> HIDE DEF x, k
    <3>2. ((x % Word) + k) % Word = (x + k) % Word
      BY <1>1, <3>1, ModSum
    <3>3. nr' = x % Word
      BY <2>1 DEF x
    <3>4. nw = (nr' + k) % Word
      BY <1>1, <3>1, <3>2, <3>3
    <3>5. QED
      BY <3>4 DEF k
  <2>4. Size' = Size - len
    <3>1. Size' = Held(nr', nw)
      BY <2>1 DEF Size, Held
    <3> DEFINE k == Size - len
    <3>2. k \in Index
      BY <1>3
    <3> HIDE DEF k
    <3>3. Held(nr', (nr' + k) % Word) = k
      BY <2>2, <3>2, HeldMoved
    <3>4. QED
      BY <2>3, <3>1, <3>3 DEF k
  <2>5. Size' \in 0..nsize' /\ Size' <= Size /\ Size' \in Nat
    <3>1. nsize' = nsize
      BY <2>1
    <3>2. QED
      BY <1>10, <2>4, <3>1
  <2>6. BufferInv'
    <3>1. BufferTypeOK'
      BY <1>1, <1>2, <2>1, <2>2, <2>5 DEF BufferTypeOK, AnyByte, Index
    <3>2. Bounded'
      BY <1>3, <1>5, <1>6, <2>1, <2>5 DEF Bounded
    <3>3. QED
      BY <3>1, <3>2 DEF BufferInv
  <2>7. /\ Contents' \in Seq(AnyByte) /\ Len(Contents') = Size'
        /\ \A i \in 1..Size' : Contents'[i] = data[At(nsize, nr', i - 1)]
    <3>1. nsize' \in Nat \ {0} /\ data' \in [0..nsize' - 1 -> AnyByte]
      BY <1>1, <1>2, <2>1
    <3>2. QED
      BY <2>1, <2>2, <2>5, <3>1, NewContents
  <2>8. \A i \in 1..Size' : Contents'[i] = Contents[len + i]
    <3> TAKE i \in 1..Size'
    <3>1. i - 1 \in 0..nsize /\ len + (i - 1) <= nsize /\ len + i \in 1..Size /\ len + i - 1 = len + (i - 1)
      BY <1>10, <2>4
    <3>2. At(nsize, nr', i - 1) = At(nsize, nr, len + (i - 1))
      <4> DEFINE k == i - 1
      <4>1. k \in 0..nsize /\ len + k <= nsize /\ nsize \in Powers /\ nr \in Nat /\ len \in Nat
        BY <1>1, <1>3, <3>1
      <4> HIDE DEF k
      <4>2. At(nsize, (nr + len) % Word, k) = At(nsize, nr, len + k)
        BY <4>1, AtMoved
      <4>3. nr' = (nr + len) % Word
        BY <2>1
      <4>4. At(nsize, nr', k) = At(nsize, nr, len + k)
        BY <4>2, <4>3
      <4>5. QED
        BY <4>4 DEF k
    <3>3. Contents[len + i] = data[At(nsize, nr, len + i - 1)]
      BY <3>1, ContentsFacts
    <3>4. QED
      BY <2>7, <3>1, <3>2, <3>3
  <2>9. QED
    BY <2>4, <2>6, <2>7, <2>8
<1>9. QED
  BY <1>7, <1>8

\* read takes bytes from the front and hands them out, in one copy or in two.
LEMMA ReadKeeps ==
  ASSUME BufferAssumption, BufferInv, NEW wanted \in Nat, Read(wanted)
  PROVE  BufferInv' /\ Queue!Take /\ nmax' = nmax
<1> DEFINE len == Least(wanted, Size)
<1> DEFINE m == nr % nsize
<1> DEFINE n == Least(len, nsize - m)
<1> DEFINE taken == [i \in 1..len |-> IF i <= n THEN data[m + i - 1] ELSE data[i - n - 1]]
<1>1. /\ call' = [op |-> "read", bytes |-> taken, count |-> wanted]
      /\ Skipped(len) /\ UNCHANGED <<nmax, resev>>
  BY DEF Read
<1>2. Size \in 0..nsize /\ Size \in Nat /\ nsize \in Nat \ {0} /\ nr \in Nat
  BY SizeFacts
<1>3. len \in 0..Size /\ len \in Nat
  BY <1>2 DEF Least
<1>4. m \in 0..nsize - 1
  BY <1>2, ModParts
<1>5. /\ BufferInv'
      /\ Contents' \in Seq(AnyByte) /\ Size' = Size - len /\ Len(Contents') = Size'
      /\ \A i \in 1..Size' : Contents'[i] = Contents[len + i]
  <2> HIDE DEF len
  <2>1. QED
    BY <1>1, <1>3, SkippedKeeps
<1>6. /\ Contents \in Seq(AnyByte) /\ Len(Contents) = Size
      /\ \A i \in 1..Size : Contents[i] = data[At(nsize, nr, i - 1)]
  BY ContentsFacts
<1>7. \A i \in 1..len : (IF i <= n THEN data[m + i - 1] ELSE data[i - n - 1]) = Contents[i]
  <2> TAKE i \in 1..len
  <2>1. i \in 1..Size
    BY <1>2, <1>3
  <2>2. At(nsize, nr, i - 1) = IF m + (i - 1) < nsize THEN m + (i - 1) ELSE m + (i - 1) - nsize
    BY DEF At
  <2> HIDE DEF m, len
  <2>3. IF i <= n THEN m + (i - 1) < nsize /\ m + i - 1 = m + (i - 1)
        ELSE ~(m + (i - 1) < nsize) /\ i - n - 1 = m + (i - 1) - nsize
    BY <1>2, <1>3, <1>4 DEF Least
  <2> HIDE DEF n
  <2>4. QED
    BY <1>6, <2>1, <2>2, <2>3
<1>8. taken = [i \in 1..len |-> Contents[i]]
  BY <1>7
<1> HIDE DEF len, m, n, taken
<1>9. taken \in Seq(AnyByte) /\ Len(taken) = len /\ \A i \in 1..len : taken[i] = Contents[i]
  <2>1. \A i \in 1..len : Contents[i] \in AnyByte
    <3>1. \A i \in 1..len : i \in 1..Len(Contents)
      BY <1>2, <1>3, <1>6
    <3>2. QED
      BY <1>6, <3>1, ElementOfSeq
  <2>2. QED
    BY <1>3, <1>8, <2>1
<1>10. len = Queue!Got(wanted)
  BY <1>2, <1>6 DEF len, Least, Queue!Got
<1>11. taken = SubSeq(Contents, 1, len)
  BY <1>3, <1>6, <1>9, FrontOf
<1>12. Contents' = SubSeq(Contents, len + 1, Len(Contents))
  BY <1>3, <1>5, <1>6, BackOf
<1>13. call'.op = "read" /\ call'.bytes = taken /\ call'.count = wanted
  BY <1>1
<1>14. QED
  BY <1>1, <1>5, <1>10, <1>11, <1>12, <1>13 DEF Queue!Take, Queue!Rest

\* data() shows the bytes in one piece and keeps them.
LEMMA DataKeeps ==
  ASSUME BufferAssumption, BufferInv, NEW len \in Nat, Data(len)
  PROVE  BufferInv' /\ Queue!Peek /\ nmax' = nmax
<1> DEFINE N == Normalized
<1>1. /\ len <= Size /\ data' = N.data /\ nr' = N.nr /\ nw' = N.nw
      /\ call' = [op |-> "data", count |-> len, bytes |-> [i \in 1..len |-> N.data[N.nr + i - 1]]]
      /\ nsize' = nsize /\ nmax' = nmax /\ resev' = resev
  BY DEF Data
<1> HIDE DEF N
<1>2. Size \in 0..nsize /\ Size \in Nat /\ nsize \in Nat \ {0} /\ nsize \in Powers /\ Word \in Nat \ {0}
  BY SizeFacts DEF BufferInv, BufferTypeOK
<1>3. SameBytes(N, nsize) /\ (Size # 0 => N.nr + Size <= nsize)
  BY NormalizedHolds DEF N
<1>4. /\ N.data \in [0..nsize - 1 -> AnyByte] /\ N.nr \in Index /\ N.nw \in Index /\ Held(N.nr, N.nw) = Size
      /\ \A i \in 1..Size : N.data[At(nsize, N.nr, i - 1)] = Contents[i]
  BY <1>3 DEF SameBytes
<1>5. Size' = Size /\ N.nr \in Nat
  BY <1>1, <1>2, <1>4 DEF Size, Held, Index
<1>6. BufferInv'
  <2>1. BufferTypeOK'
    BY <1>1, <1>2, <1>4, <1>5 DEF BufferInv, BufferTypeOK, AnyByte, Index
  <2>2. Bounded'
    BY <1>1, <1>5 DEF BufferInv, Bounded
  <2>3. QED
    BY <2>1, <2>2 DEF BufferInv
<1>7. Contents \in Seq(AnyByte) /\ Len(Contents) = Size
  BY ContentsFacts
<1>8. /\ Contents' \in Seq(AnyByte) /\ Len(Contents') = Size
      /\ \A i \in 1..Size : Contents'[i] = Contents[i]
  <2>1. nsize' \in Nat \ {0} /\ data' \in [0..nsize' - 1 -> AnyByte] /\ nr' \in Nat /\ Size' \in 0..nsize'
    BY <1>1, <1>2, <1>4, <1>5
  <2>2. /\ Contents' \in Seq(AnyByte) /\ Len(Contents') = Size'
        /\ \A i \in 1..Size' : Contents'[i] = data'[At(nsize', nr', i - 1)]
    BY <2>1, NewContents
  <2>3. QED
    BY <1>1, <1>4, <1>5, <2>2
<1>9. Contents' = Contents
  BY <1>7, <1>8, SeqEqual
<1>10. \A i \in 1..len : N.data[N.nr + i - 1] = Contents[i]
  <2> TAKE i \in 1..len
  <2> DEFINE r == N.nr
  <2> DEFINE k == i - 1
  <2>1. i \in 1..Size /\ r \in 0..nsize - 1 /\ k \in 0..nsize - 1 /\ r + k < nsize /\ r + i - 1 = r + k
    BY <1>1, <1>2, <1>3, <1>5
  <2>2. N.data[At(nsize, r, k)] = Contents[i]
    BY <1>4, <2>1
  <2> HIDE DEF r, k
  <2>3. At(nsize, r, k) = r + k
    BY <1>2, <2>1, AtSmall
  <2>4. N.data[r + i - 1] = Contents[i]
    BY <2>1, <2>2, <2>3
  <2>5. QED
    BY <2>4 DEF r
<1> DEFINE seen == [i \in 1..len |-> N.data[N.nr + i - 1]]
<1>11. seen \in Seq(AnyByte) /\ Len(seen) = len /\ \A i \in 1..len : seen[i] = Contents[i]
  <2>1. \A i \in 1..len : Contents[i] \in AnyByte
    <3>1. \A i \in 1..len : i \in 1..Len(Contents)
      BY <1>1, <1>2, <1>7
    <3>2. QED
      BY <1>7, <3>1, ElementOfSeq
  <2>2. seen = [i \in 1..len |-> Contents[i]]
    BY <1>10
  <2> HIDE DEF seen
  <2>3. QED
    BY <2>1, <2>2
<1>12. call'.op = "data" /\ call'.bytes = seen /\ call'.count = len
  BY <1>1
<1> HIDE DEF seen
<1>13. len \in 0..Len(Contents) /\ len <= Len(Contents)
  BY <1>1, <1>2, <1>7
<1>14. seen = SubSeq(Contents, 1, len)
  BY <1>7, <1>11, <1>13, FrontOf
<1>15. QED
  BY <1>1, <1>6, <1>9, <1>12, <1>13, <1>14 DEF Queue!Peek

\* erase drops bytes from the front.
LEMMA EraseKeeps ==
  ASSUME BufferAssumption, BufferInv, NEW wanted \in Nat, EraseBytes(wanted)
  PROVE  BufferInv' /\ Queue!Drop /\ nmax' = nmax
<1> DEFINE len == Least(wanted, Size)
<1>1. /\ Skipped(len) /\ UNCHANGED <<nmax, resev>>
      /\ call' = [op |-> "erase", bytes |-> <<>>, count |-> wanted]
  BY DEF EraseBytes
<1>2. Size \in Nat
  BY SizeFacts
<1>3. len \in 0..Size /\ len \in Nat
  BY <1>2 DEF Least
<1> HIDE DEF len
<1>4. /\ BufferInv'
      /\ Contents' \in Seq(AnyByte) /\ Size' = Size - len /\ Len(Contents') = Size'
      /\ \A i \in 1..Size' : Contents'[i] = Contents[len + i]
  BY <1>1, <1>3, SkippedKeeps
<1>5. Contents \in Seq(AnyByte) /\ Len(Contents) = Size
  BY ContentsFacts
<1>6. len = Queue!Got(wanted)
  BY <1>2, <1>5 DEF len, Least, Queue!Got
<1>7. Contents' = SubSeq(Contents, len + 1, Len(Contents))
  BY <1>3, <1>4, <1>5, BackOf
<1>8. call'.op = "erase" /\ call'.count = wanted
  BY <1>1
<1>9. QED
  BY <1>1, <1>4, <1>6, <1>7, <1>8 DEF Queue!Drop, Queue!Rest

\* clear drops all.
LEMMA ClearKeeps ==
  ASSUME BufferAssumption, BufferInv, ClearBytes
  PROVE  BufferInv' /\ Queue!Clear /\ nmax' = nmax
<1>1. Cleared /\ UNCHANGED <<nmax, resev>> /\ call'.op = "clear"
  BY DEF ClearBytes
<1>2. Size \in 0..Size /\ Size \in Nat
  BY SizeFacts
<1>3. (nr + Size) % Word = nw
  BY SizeFacts
<1>4. Skipped(Size)
  BY <1>1, <1>3 DEF Skipped
<1>5. BufferInv' /\ Contents' \in Seq(AnyByte) /\ Size' = Size - Size /\ Len(Contents') = Size'
  BY <1>1, <1>2, <1>4, SkippedKeeps
<1>6. Contents' = <<>>
  BY <1>2, <1>5
<1>7. QED
  BY <1>1, <1>5, <1>6 DEF Queue!Clear

\* A new buffer is empty, and its block within the limit.
LEMMA InitBuffer ==
  ASSUME BufferAssumption, BufferInit
  PROVE  BufferInv /\ Queue!Init
<1>1. PICK limit \in Limits :
        /\ nmax = IF limit = 0 THEN 0 ELSE RoundUp(limit)
        /\ nsize = IF limit = 0 THEN IniSize ELSE Least(IniSize, nmax)
        /\ resev = IF limit = 0 THEN nsize * Spare ELSE Least(nsize * Spare, nmax)
  BY DEF BufferInit
<1>2. /\ data = [i \in 0..nsize - 1 |-> Junk] /\ nr = 0 /\ nw = 0
      /\ call = [op |-> "none", bytes |-> <<>>, count |-> 0]
  BY DEF BufferInit
<1>3. /\ Word \in Nat \ {0} /\ IniSize \in Powers /\ IniSize * Spare \in Powers /\ Spare \in Nat \ {0}
      /\ limit \in Nat /\ 2 * limit <= Word /\ Room \in Nat
  BY DEF BufferAssumption
<1>4. \A p \in Powers : p \in Nat \ {0} /\ p <= Word
  BY <1>3 DEF Powers
<1>5. /\ nsize \in Powers /\ nmax \in Powers \union {0} /\ resev \in Powers
      /\ (nmax # 0 => nsize <= nmax /\ 2 * nmax <= Word)
  <2>1. CASE limit = 0
    BY <1>1, <1>3, <2>1
  <2>2. CASE limit # 0
    <3>1. PICK h \in Powers : Word = 2 * h
      BY HalfFacts
    <3>2. h >= limit /\ h \in Nat /\ limit \in 0..Word
      BY <1>3, <1>4, <3>1
    <3>3. nmax \in Powers /\ nmax <= h
      BY <1>1, <2>2, <3>1, <3>2, RoundUpFacts
    <3>4. nmax \in Nat \ {0} /\ IniSize \in Nat \ {0} /\ 2 * nmax <= Word
      BY <1>3, <1>4, <3>1, <3>2, <3>3
    <3>5. nsize = Least(IniSize, nmax) /\ resev = Least(nsize * Spare, nmax)
      BY <1>1, <2>2
    <3>6. nsize \in Powers /\ nsize <= nmax
      BY <1>3, <3>3, <3>4, <3>5 DEF Least
    <3>7. resev \in Powers
      <4>1. CASE nsize = IniSize
        BY <1>3, <3>3, <3>5, <4>1 DEF Least
      <4>2. CASE nsize = nmax
        <5>1. nmax * Spare >= nmax
          BY <1>3, <3>4
        <5>2. resev = Least(nmax * Spare, nmax) /\ nmax * Spare \in Nat
          BY <1>3, <3>4, <3>5, <4>2
        <5>3. resev = nmax
          BY <3>4, <5>1, <5>2 DEF Least
        <5>4. QED
          BY <3>3, <5>3
      <4>3. QED
        BY <3>5, <4>1, <4>2 DEF Least
    <3>8. QED
      BY <3>3, <3>4, <3>6, <3>7
  <2>3. QED
    BY <2>1, <2>2
<1>6. Size = 0
  <2>1. 0 \in Index /\ Size = Held(0, 0)
    BY <1>2, <1>3 DEF Index, Size, Held
  <2>2. QED
    BY <2>1, HeldFacts
<1>7. BufferInv
  <2>1. nsize \in Nat \ {0}
    BY <1>4, <1>5
  <2>2. data \in [0..nsize - 1 -> Bytes \union {Junk}]
    BY <1>2
  <2>3. BufferTypeOK
    BY <1>2, <1>3, <1>5, <1>6, <2>1, <2>2 DEF BufferTypeOK
  <2>4. Bounded
    BY <1>3, <1>5, <1>6 DEF Bounded
  <2>5. QED
    BY <2>3, <2>4 DEF BufferInv
<1>8. Contents = <<>>
  <2>1. Contents \in Seq(AnyByte) /\ Len(Contents) = 0
    BY <1>6, <1>7, ContentsFacts
  <2>2. QED
    BY <2>1
<1>9. QED
  BY <1>2, <1>7, <1>8 DEF Queue!Init

\* Each operation is one of a queue.
LEMMA NextBuffer ==
  ASSUME BufferAssumption, BufferInv, [BufferNext]_bufferVars
  PROVE  BufferInv' /\ [Queue!Next]_(Queue!fifoVars)
<1>1. CASE UNCHANGED bufferVars
  <2>1. BufferInv'
    BY <1>1 DEF bufferVars, BufferInv, BufferTypeOK, Bounded, Size
  <2>2. Contents' = Contents /\ call' = call /\ nmax' = nmax
    BY <1>1 DEF bufferVars, Contents, Size
  <2>3. QED
    BY <2>1, <2>2 DEF Queue!fifoVars
<1>2. Room \in Nat
  BY DEF BufferAssumption
<1>3. ASSUME NEW len \in 1..Room, NEW bytes \in [1..len -> Bytes], Write(bytes)
      PROVE  BufferInv' /\ Queue!Next
  BY <1>3, WriteKeeps DEF Queue!Next
<1>4. ASSUME NEW len \in 1..Room, Read(len) PROVE BufferInv' /\ Queue!Next
  BY <1>2, <1>4, ReadKeeps DEF Queue!Next
<1>5. ASSUME NEW len \in 1..Room, Data(len) PROVE BufferInv' /\ Queue!Next
  BY <1>2, <1>5, DataKeeps DEF Queue!Next
<1>6. ASSUME NEW len \in 1..Room, EraseBytes(len) PROVE BufferInv' /\ Queue!Next
  BY <1>2, <1>6, EraseKeeps DEF Queue!Next
<1>7. ASSUME ClearBytes PROVE BufferInv' /\ Queue!Next
  BY <1>7, ClearKeeps DEF Queue!Next
<1>8. QED
  BY <1>1, <1>3, <1>4, <1>5, <1>6, <1>7 DEF BufferNext

\* However the indexes wrap around the block and around the word, and however the block
\* grows, shrinks and is put straight in between, write appends the bytes it was given, all
\* of them unless the limit forbids it, and read, data, erase and clear see and take the
\* first ones, as many as they were asked for (circular_buffer.h).
THEOREM BufferIsFifo ==
  ASSUME BufferAssumption
  PROVE  BufferSpec => RefinesFifo
<1>1. BufferInit => BufferInv /\ Queue!Init
  BY InitBuffer
<1>2. BufferInv /\ [BufferNext]_bufferVars => BufferInv' /\ [Queue!Next]_(Queue!fifoVars)
  BY NextBuffer
<1>3. QED
  BY <1>1, <1>2, PTL DEF BufferSpec, RefinesFifo, Queue!Spec

-----------------------------------------------------------------------------
(* The sum of the socket and these parts that a run explores (MCRuntimeLive). *)

\* A step of the sum is a step of one part, while the others stutter.
LEMMA SumSteps ==
  ASSUME [MCNext]_<<unit, vars, storageVars, watchdogVars, timerVars, bufferVars>>
  PROVE  /\ [Next]_vars /\ [StoreNext]_storageVars /\ [CheckNext]_watchdogVars
         /\ [TimersNext]_timerVars /\ [BufferNext]_bufferVars
<1> DEFINE Goal == /\ [Next]_vars /\ [StoreNext]_storageVars /\ [CheckNext]_watchdogVars
                   /\ [TimersNext]_timerVars /\ [BufferNext]_bufferVars
<1>1. CASE UNCHANGED <<unit, vars, storageVars, watchdogVars, timerVars, bufferVars>>
  BY <1>1
<1>2. CASE unit = "tcp" /\ MCNext
  BY <1>2 DEF MCNext, OfTcp, OfStore, OfCheck, OfTimers, OfBuffer, Next, Reactor, Kernel
<1>3. CASE unit = "storage" /\ MCNext
  BY <1>3 DEF MCNext, OfTcp, OfStore, OfCheck, OfTimers, OfBuffer, StoreNext, Step
<1>4. CASE unit = "watchdog" /\ MCNext
  BY <1>4 DEF MCNext, OfTcp, OfStore, OfCheck, OfTimers, OfBuffer, CheckNext
<1>5. CASE unit = "timers" /\ MCNext
  BY <1>5 DEF MCNext, OfTcp, OfStore, OfCheck, OfTimers, OfBuffer, TimersNext
<1>6. CASE unit = "buffer" /\ MCNext
  BY <1>6 DEF MCNext, OfTcp, OfStore, OfCheck, OfTimers, OfBuffer, BufferNext
<1>7. MCNext => unit \in {"tcp", "storage", "watchdog", "timers", "buffer"}
  BY DEF MCNext, OfTcp, OfStore, OfCheck, OfTimers, OfBuffer
<1>8. QED
  BY <1>1, <1>2, <1>3, <1>4, <1>5, <1>6, <1>7

\* A behaviour of the sum is a behaviour of every part, so that what is proved of a
\* part holds in it.
THEOREM SumImplementsParts ==
  MCSpec => Spec /\ StoreSpec /\ CheckSpec /\ TimersSpec /\ BufferSpec
<1>1. MCInit => Init /\ StoreInit /\ CheckInit /\ TimersInit /\ BufferInit
  BY DEF MCInit
<1>2. [MCNext]_<<unit, vars, storageVars, watchdogVars, timerVars, bufferVars>>
        => /\ [Next]_vars /\ [StoreNext]_storageVars /\ [CheckNext]_watchdogVars
           /\ [TimersNext]_timerVars /\ [BufferNext]_bufferVars
  BY SumSteps
<1>3. QED
  BY <1>1, <1>2, PTL DEF MCSpec, Spec, StoreSpec, CheckSpec, TimersSpec, BufferSpec

\* Type correctness of what the run explores: the socket, the storage, the check
\* thread, the timers and the buffer.
THEOREM TypesOKAlways ==
  ASSUME StorageAssumption, WatchdogAssumption, TimersAssumption, BufferAssumption
  PROVE  MCSpec => []TypesOK
<1> DEFINE Invs == IInv /\ StoreInv /\ CheckInv /\ TimersInv /\ BufferInv
<1>1. StoreInit => StoreInv
  BY InitStore
<1>2. StoreInv /\ [StoreNext]_storageVars => StoreInv'
  BY NextStore
<1>3. CheckInit => CheckInv
  BY InitCheck
<1>4. CheckInv /\ [CheckNext]_watchdogVars => CheckInv'
  BY NextCheck
<1>5. TimersInit => TimersInv
  BY InitTimers
<1>6. TimersInv /\ [TimersNext]_timerVars => TimersInv'
  BY NextTimers
<1>7. BufferInit => BufferInv
  BY InitBuffer
<1>8. BufferInv /\ [BufferNext]_bufferVars => BufferInv'
  BY NextBuffer
<1>9. TypeOK /\ StoreInv /\ CheckInv /\ TimersInv /\ BufferInv => TypesOK
  BY DEF TypesOK, StoreInv, CheckInv, TimersInv, BufferInv
<1>10. QED
  BY <1>1, <1>2, <1>3, <1>4, <1>5, <1>6, <1>7, <1>8, <1>9, SumImplementsParts, TypeCorrect,
     PTL DEF StoreSpec, CheckSpec, TimersSpec, BufferSpec
=============================================================================
