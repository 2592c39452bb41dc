------------------------------ MODULE AtomicMap ------------------------------
(***************************************************************************)
(* What the shared storage of a process promises (luaos_storage.cpp): a    *)
(* map on which the operations that the services ask for take effect one   *)
(* at a time.  A set with a function is one of them, with all that its     *)
(* function does to the map in between: it is a series of acts, each of    *)
(* which finds what the one before it left, and none of which is anybody   *)
(* else's.                                                                 *)
(***************************************************************************)
EXTENDS Naturals, Sequences

CONSTANTS Services, Keys, Values, Nil

VARIABLES
  map,     \* what is stored
  asked,   \* the operation that a service has asked for and that is not over
  done     \* the last operation that is over: who asked for it, its acts

vars == <<map, asked, done>>

Op == [kind : {"get", "erase", "merge"}, key : Keys]
      \union [kind : {"set"}, key : Keys, value : Values \union {Nil}]
      \union [kind : {"clear"}]

Init ==
  /\ map = [k \in Keys |-> Nil]
  /\ asked = [s \in Services |-> Nil]
  /\ done = [by |-> Nil, acts |-> <<>>]

Ask(s, op) ==
  /\ asked[s] = Nil
  /\ asked' = [asked EXCEPT ![s] = op]
  /\ UNCHANGED <<map, done>>

\* What an operation leaves of the map m; merge is the start of a set with a
\* function, which its function's return or failure ends.
After(op, m) ==
  CASE op.kind \in {"get", "merge", "fail"} -> m
    [] op.kind = "erase" -> [m EXCEPT ![op.key] = Nil]
    [] op.kind \in {"set", "return"} -> [m EXCEPT ![op.key] = op.value]
    [] op.kind = "clear" -> [k \in Keys |-> Nil]

\* How many functions run when the act is over, and whether it ended one.  Its depth
\* is how many run around it.
Running(act) == IF act.op.kind = "merge" THEN act.depth + 1 ELSE act.depth
Ends(act) == act.op.kind \in {"return", "fail"}

\* The i-th act ends the function that the j-th has started.
Closes(acts, i, j) ==
  /\ acts[j].op.kind = "merge"
  /\ acts[j].op.key = acts[i].op.key /\ acts[j].depth = acts[i].depth
  /\ \A l \in j + 1..i - 1 : acts[l].depth > acts[i].depth

\* What the i-th act returns when it finds m: the old value, also when a function
\* has run, and nothing when that failed.
Answers(acts, i, m) ==
  IF Ends(acts[i])
  THEN \E j \in 1..i - 1 :
         /\ Closes(acts, i, j)
         /\ acts[i].value = IF acts[i].op.kind = "return" THEN acts[j].value ELSE Nil
  ELSE acts[i].value = IF acts[i].op.kind = "clear" THEN Nil ELSE m[acts[i].op.key]

\* The operation op of s is these acts: its own, and those of its function.
Whole(s, op, acts) ==
  /\ Len(acts) > 0 /\ acts[1].op = op /\ acts[1].depth = 0
  /\ \A i \in 1..Len(acts) : acts[i].by = s
  /\ \A i \in 1..Len(acts) : Running(acts[i]) = 0 <=> i = Len(acts)
  /\ \A i \in 2..Len(acts) :
       acts[i].depth = IF Ends(acts[i]) THEN Running(acts[i - 1]) - 1 ELSE Running(acts[i - 1])

\* The acts take effect one after the other.
Finish(s) ==
  LET acts == done'.acts
      found(i) == IF i = 1 THEN map ELSE acts[i - 1].map
  IN  /\ asked[s] # Nil /\ done'.by = s
      /\ Whole(s, asked[s], acts)
      /\ \A i \in 1..Len(acts) :
           acts[i].map = After(acts[i].op, found(i)) /\ Answers(acts, i, found(i))
      /\ map' = acts[Len(acts)].map
      /\ asked' = [asked EXCEPT ![s] = Nil]

Next == \E s \in Services : Finish(s) \/ \E op \in Op : Ask(s, op)

Spec == Init /\ [][Next]_vars
=============================================================================
