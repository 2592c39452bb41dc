---------------------------- MODULE Identifiers ----------------------------
(***************************************************************************)
(* The pool of ids that the reactors and sockets of a process share        *)
(* (src/include/socket/identifier.h).  Fresh ids come first, then those    *)
(* that were given back, the oldest one first.  Each operation is under    *)
(* the mutex of the generator.                                             *)
(***************************************************************************)
EXTENDS Naturals, Sequences

CONSTANTS
  Owners,   \* the reactors and sockets, each constructed once
  MaxId     \* max_value

IdentifiersAssumption == MaxId \in Nat

VARIABLES
  next,   \* _next
  free,   \* _free
  held    \* the id of an owner, 0 before and after its life

idVars == <<next, free, held>>

PoolInit ==
  /\ next = 1
  /\ free = <<>>
  /\ held = [o \in Owners |-> 0]

\* generator::next, when the owner is constructed.  The assertion that there is an
\* id ends the process.
Take(o) ==
  /\ held[o] = 0
  /\ \/ /\ next < MaxId + 1
        /\ held' = [held EXCEPT ![o] = next]
        /\ next' = next + 1
        /\ UNCHANGED free
     \/ /\ ~(next < MaxId + 1) /\ free # <<>>
        /\ held' = [held EXCEPT ![o] = Head(free)]
        /\ free' = Tail(free)
        /\ UNCHANGED next

\* Mutant: the id is given back and kept.
MutantGive(o) ==
  /\ held[o] # 0
  /\ free' = Append(free, held[o])
  /\ UNCHANGED <<held, next>>

\* generator::push, when the owner is destroyed.
Give(o) ==
  /\ held[o] # 0
  /\ free' = Append(free, held[o])
  /\ held' = [held EXCEPT ![o] = 0]
  /\ UNCHANGED next

PoolNext == \E o \in Owners : Take(o) \/ Give(o)

PoolSpec == PoolInit /\ [][PoolNext]_idVars

-----------------------------------------------------------------------------
\* Ids in use are in the range and what is free is a list of them.
PoolTypeOK ==
  /\ next \in 1..MaxId + 1
  /\ free \in Seq(1..MaxId)
  /\ held \in [Owners -> 0..MaxId]

\* Two owners that live at the same time have different ids, however many were
\* constructed and destroyed before: sessions and subscribers are found by them.
IdsDiffer ==
  \A o \in Owners : held[o] # 0 => \A q \in Owners \ {o} : held[q] # held[o]
=============================================================================
