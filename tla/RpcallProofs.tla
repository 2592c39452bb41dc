---------------------------- MODULE RpcallProofs ----------------------------
(***************************************************************************)
(* Proofs about the remote calls, for any sets of services, names and      *)
(* registry slots and any number of calls.                                 *)
(*                                                                         *)
(* A caller that is blocked is followed to who has its call: this is in a  *)
(* queue or on a stack at every moment (WaitInv), so that somebody can go  *)
(* on for it (NobodyForgotten).  Once it is lost nothing brings it back    *)
(* (LostForEver).                                                          *)
(***************************************************************************)
EXTENDS Rpcall, SequenceTheorems, TLAPS

\* Where messages are under way: in the queue of a service or on its stack.
Kinds == {"queue", "stack"}
Line(k, s) == IF k = "queue" THEN queue[s] ELSE stack[s]

\* No two of them belong to one call.
Apart ==
  \A k, l \in Kinds, s, t \in Services :
    \A i \in DOMAIN Line(k, s), j \in DOMAIN Line(l, t) :
      Line(k, s)[i].id = Line(l, t)[j].id => k = l /\ s = t /\ i = j

\* What holds of a message m that is under way at service s: its call has not been
\* answered, the caller still waits for it or still holds the callback.
Pending(s, m) ==
  /\ m.id <= ids
  /\ answers[m.id] = <<>>
  /\ m.op = "call" => m.from = s \/ waiting[m.from] = m.id
  /\ m.op = "invoke" => registry[m.from][m.callback] = Callback(m.id)
  /\ m.op = "result" => registry[s][m.callback] = Callback(m.id)

AllPending ==
  \A k \in Kinds, s \in Services : \A i \in DOMAIN Line(k, s) : Pending(s, Line(k, s)[i])

\* A call that has not been made has no answer.
NoneBefore == \A id \in Ids : id > ids => answers[id] = <<>>

\* The first part of SlotsIntact.
HandlersOwned ==
  \A n \in Names, s \in Services, r \in Refs :
    registry[s][r] = Handler(n) <=> reged[n] = [ios |-> s, handler |-> r]

\* The inductive invariant.
IInv == TypeOK /\ HandlersOwned /\ Apart /\ AllPending /\ NoneBefore

-----------------------------------------------------------------------------
(* Sequences, by their domains. *)

LEMMA Appending ==
  ASSUME NEW S, NEW q \in Seq(S), NEW e \in S
  PROVE  /\ Append(q, e) \in Seq(S)
         /\ DOMAIN Append(q, e) = DOMAIN q \union {Len(q) + 1}
         /\ Len(q) + 1 \notin DOMAIN q
         /\ \A i \in DOMAIN q : Append(q, e)[i] = q[i]
         /\ Append(q, e)[Len(q) + 1] = e
<1>1. Len(q) \in Nat /\ DOMAIN q = 1..Len(q)
  BY LenProperties
<1>2. Append(q, e) \in Seq(S) /\ DOMAIN Append(q, e) = 1..Len(q) + 1
  BY <1>1, AppendProperties, LenProperties
<1>3. QED
  BY <1>1, <1>2, AppendProperties

LEMMA Dropping ==
  ASSUME NEW S, NEW q \in Seq(S), q # <<>>
  PROVE  /\ Tail(q) \in Seq(S)
         /\ 1 \in DOMAIN q /\ Head(q) = q[1] /\ Head(q) \in S
         /\ \A i \in DOMAIN Tail(q) :
              i \in Nat \ {0} /\ i + 1 \in DOMAIN q /\ Tail(q)[i] = q[i + 1]
<1>1. Len(q) \in Nat \ {0} /\ DOMAIN q = 1..Len(q)
  BY LenProperties, EmptySeq
<1>2. Tail(q) \in Seq(S) /\ DOMAIN Tail(q) = 1..Len(q) - 1
      /\ \A i \in 1..Len(q) - 1 : Tail(q)[i] = q[i + 1]
  BY <1>1, HeadTailProperties, LenProperties
<1>3. Head(q) = q[1] /\ Head(q) \in S
  BY HeadTailProperties
<1>4. QED
  BY <1>1, <1>2, <1>3

LEMMA Popping ==
  ASSUME NEW S, NEW q \in Seq(S), q # <<>>
  PROVE  /\ SubSeq(q, 1, Len(q) - 1) \in Seq(S)
         /\ Len(q) \in DOMAIN q /\ q[Len(q)] \in S
         /\ \A i \in DOMAIN SubSeq(q, 1, Len(q) - 1) :
              i \in DOMAIN q /\ i # Len(q) /\ SubSeq(q, 1, Len(q) - 1)[i] = q[i]
<1>1. Len(q) \in Nat \ {0} /\ DOMAIN q = 1..Len(q)
      /\ \A i \in 1..Len(q) : q[i] \in S
  BY LenProperties, EmptySeq, ElementOfSeq
<1>2. /\ SubSeq(q, 1, Len(q) - 1) \in Seq(S)
      /\ Len(SubSeq(q, 1, Len(q) - 1)) = Len(q) - 1
      /\ \A i \in 1..Len(q) - 1 : SubSeq(q, 1, Len(q) - 1)[i] = q[i]
  BY <1>1, SubSeqProperties
<1>3. DOMAIN SubSeq(q, 1, Len(q) - 1) = 1..Len(q) - 1
  BY <1>2, LenProperties
<1>4. QED
  BY <1>1, <1>2, <1>3

-----------------------------------------------------------------------------
(* What the operations do to the messages under way. *)

LEMMA LineType ==
  ASSUME TypeOK, NEW k \in Kinds, NEW s \in Services
  PROVE  /\ Line(k, s) \in Seq(Request \union Result)
         /\ \A i \in DOMAIN Line(k, s) : Line(k, s)[i] \in Request \union Result
<1>1. queue[s] \in Seq(Request \union Result) /\ stack[s] \in Seq(Request)
  BY DEF TypeOK
<1>2. stack[s] \in Seq(Request \union Result)
  BY <1>1, SeqMonotonic
<1>3. Line(k, s) \in Seq(Request \union Result)
  BY <1>1, <1>2 DEF Line
<1>4. QED
  BY <1>3, LenProperties, ElementOfSeq

\* m was under way at s before the step.
Old(s, m) == \E k \in Kinds : \E i \in DOMAIN Line(k, s) : m = Line(k, s)[i]

\* Every message under way after the step was under way before, at the same service,
\* and is not of the call gone; or it is x, at s0.
Carried(gone, s0, x) ==
  \A k \in Kinds, s \in Services : \A i \in DOMAIN Line(k, s)' :
    \/ Old(s, Line(k, s)'[i]) /\ Line(k, s)'[i].id # gone
    \/ s = s0 /\ Line(k, s)'[i] = x

\* The message x is put at the place n of the line l of t; the others, none of which
\* is of the call gone, stay where they are, but for those of the line k0 of s0, which
\* move d places.
Relocated(k0, s0, d, gone, l, t, n, x) ==
  \A k \in Kinds, s \in Services : \A i \in DOMAIN Line(k, s)' :
    \/ k = l /\ s = t /\ i = n /\ Line(k, s)'[i] = x
    \/ LET j == IF k = k0 /\ s = s0 THEN i + d ELSE i
       IN  /\ i \in Nat /\ j \in DOMAIN Line(k, s)
           /\ Line(k, s)'[i] = Line(k, s)[j] /\ Line(k, s)[j].id # gone

LEMMA Moved ==
  ASSUME Apart, NEW k0, NEW s0, NEW d \in {0, 1}, NEW gone, NEW l, NEW t, NEW n,
         NEW x, x.id = gone, Relocated(k0, s0, d, gone, l, t, n, x)
  PROVE  Apart' /\ Carried(gone, t, x)
<1>1. Carried(gone, t, x)
  <2> SUFFICES ASSUME NEW k \in Kinds, NEW s \in Services, NEW i \in DOMAIN Line(k, s)'
               PROVE  \/ Old(s, Line(k, s)'[i]) /\ Line(k, s)'[i].id # gone
                      \/ s = t /\ Line(k, s)'[i] = x
    BY DEF Carried
  <2>1. QED
    BY DEF Old, Relocated
<1>2. Apart'
  <2> SUFFICES ASSUME NEW ka \in Kinds, NEW kb \in Kinds, NEW sa \in Services, NEW sb \in Services,
                      NEW i \in DOMAIN Line(ka, sa)', NEW j \in DOMAIN Line(kb, sb)',
                      Line(ka, sa)'[i].id = Line(kb, sb)'[j].id
               PROVE  ka = kb /\ sa = sb /\ i = j
    BY DEF Apart
  <2> DEFINE a == IF ka = k0 /\ sa = s0 THEN i + d ELSE i
             b == IF kb = k0 /\ sb = s0 THEN j + d ELSE j
  <2>1. \/ ka = l /\ sa = t /\ i = n /\ Line(ka, sa)'[i] = x
        \/ /\ i \in Nat /\ a \in DOMAIN Line(ka, sa)
           /\ Line(ka, sa)'[i] = Line(ka, sa)[a] /\ Line(ka, sa)[a].id # gone
    BY DEF Relocated
  <2>2. \/ kb = l /\ sb = t /\ j = n /\ Line(kb, sb)'[j] = x
        \/ /\ j \in Nat /\ b \in DOMAIN Line(kb, sb)
           /\ Line(kb, sb)'[j] = Line(kb, sb)[b] /\ Line(kb, sb)[b].id # gone
    BY DEF Relocated
  <2>3. ka = kb /\ sa = sb /\ i \in Nat /\ j \in Nat /\ a = b => i = j
    OBVIOUS
  <2> HIDE DEF a, b
  <2>4. QED
    BY <2>1, <2>2, <2>3 DEF Apart
<1>3. QED
  BY <1>1, <1>2

\* Nothing moves.
LEMMA SameLines ==
  ASSUME TypeOK, Apart, UNCHANGED <<queue, stack>>, NEW x, NEW s0
  PROVE  Apart' /\ Carried(0, s0, x)
<1>1. \A k \in Kinds, s \in Services : Line(k, s)' = Line(k, s)
  BY DEF Line
<1>2. \A k \in Kinds, s \in Services : \A i \in DOMAIN Line(k, s) : Line(k, s)[i].id # 0
  BY LineType DEF Request, Result, Ids
<1>3. Apart'
  BY <1>1 DEF Apart
<1>4. Carried(0, s0, x)
  BY <1>1, <1>2 DEF Carried, Old
<1>5. QED
  BY <1>3, <1>4

\* A new call.
Extended(k0, s0, m) ==
  \A k \in Kinds, s \in Services :
    Line(k, s)' = IF k = k0 /\ s = s0 THEN Append(Line(k, s), m) ELSE Line(k, s)

LEMMA NewLine ==
  ASSUME TypeOK, Apart, AllPending, NEW k0 \in Kinds, NEW s0 \in Services,
         NEW m \in Request \union Result, NEW g, g = ids + 1, m.id = g,
         Extended(k0, s0, m)
  PROVE  Apart' /\ Carried(g, s0, m)
<1>1. \A k \in Kinds, s \in Services : \A i \in DOMAIN Line(k, s) :
        i \in Nat /\ Line(k, s)[i].id # ids + 1
  <2>1. ids \in Nat
    BY DEF TypeOK
  <2>2. SUFFICES ASSUME NEW k \in Kinds, NEW s \in Services, NEW i \in DOMAIN Line(k, s)
                 PROVE  i \in Nat /\ Line(k, s)[i].id # ids + 1
    OBVIOUS
  <2>3. Line(k, s)[i].id <= ids
    BY DEF AllPending, Pending
  <2>4. i \in Nat
    BY LineType, LenProperties
  <2>5. QED
    BY <2>1, <2>3, <2>4
<1>2. \A k \in Kinds, s \in Services : \A i \in DOMAIN Line(k, s)' :
        \/ k = k0 /\ s = s0 /\ i = Len(Line(k0, s0)) + 1 /\ Line(k, s)'[i] = m
        \/ i \in DOMAIN Line(k, s) /\ Line(k, s)'[i] = Line(k, s)[i]
  BY LineType, Appending DEF Extended
<1> PICK n : n = Len(Line(k0, s0)) + 1
  OBVIOUS
<1>3. Relocated(k0, s0, 0, g, k0, s0, n, m)
  <2> SUFFICES ASSUME NEW k \in Kinds, NEW s \in Services, NEW i \in DOMAIN Line(k, s)',
                      ~(k = k0 /\ s = s0 /\ i = n /\ Line(k, s)'[i] = m)
               PROVE  LET j == IF k = k0 /\ s = s0 THEN i + 0 ELSE i
                      IN  /\ i \in Nat /\ j \in DOMAIN Line(k, s)
                          /\ Line(k, s)'[i] = Line(k, s)[j] /\ Line(k, s)[j].id # g
    BY DEF Relocated
  <2>1. i \in DOMAIN Line(k, s) /\ Line(k, s)'[i] = Line(k, s)[i]
    BY <1>2
  <2>2. i \in Nat /\ Line(k, s)[i].id # g
    BY <1>1, <2>1
  <2>3. i + 0 = i
    BY <2>2
  <2>4. QED
    BY <2>1, <2>2, <2>3
<1>4. QED
  BY <1>3, Moved

\* The places of the lines are numbers.
LEMMA Places ==
  ASSUME TypeOK, NEW k \in Kinds, NEW s \in Services, NEW i \in DOMAIN Line(k, s)
  PROVE  i \in Nat
BY LineType, LenProperties

\* The first message of a queue is taken: dropped, or put on the empty stack.
LEMMA Taken ==
  ASSUME TypeOK, Apart, NEW s0 \in Services, queue[s0] # <<>>,
         queue' = [queue EXCEPT ![s0] = Tail(@)],
         \/ stack' = stack
         \/ stack[s0] = <<>> /\ stack' = [stack EXCEPT ![s0] = <<Head(queue[s0])>>]
  PROVE  Apart' /\ Carried(Head(queue[s0]).id, s0, Head(queue[s0]))
<1>1. /\ 1 \in DOMAIN queue[s0] /\ Head(queue[s0]) = queue[s0][1]
      /\ \A i \in DOMAIN Tail(queue[s0]) :
           i \in Nat \ {0} /\ i + 1 \in DOMAIN queue[s0] /\ Tail(queue[s0])[i] = queue[s0][i + 1]
  BY Dropping DEF TypeOK
<1> PICK x : x = Head(queue[s0])
  OBVIOUS
<1> PICK gone : gone = x.id
  OBVIOUS
<1>2. \A k \in Kinds, s \in Services : \A i \in DOMAIN Line(k, s) :
        Line(k, s)[i].id = gone => k = "queue" /\ s = s0 /\ i = 1
  <2>1. "queue" \in Kinds /\ Line("queue", s0) = queue[s0]
    BY DEF Kinds, Line
  <2>2. QED
    BY <1>1, <2>1 DEF Apart
<1>3. Relocated("queue", s0, 1, gone, "stack", s0, 1, x)
  <2> SUFFICES ASSUME NEW k \in Kinds, NEW s \in Services, NEW i \in DOMAIN Line(k, s)',
                      ~(k = "stack" /\ s = s0 /\ i = 1 /\ Line(k, s)'[i] = x)
               PROVE  LET j == IF k = "queue" /\ s = s0 THEN i + 1 ELSE i
                      IN  /\ i \in Nat /\ j \in DOMAIN Line(k, s)
                          /\ Line(k, s)'[i] = Line(k, s)[j] /\ Line(k, s)[j].id # gone
    BY DEF Relocated
  <2>1. CASE k = "queue" /\ s = s0
    <3>1. Line(k, s)' = Tail(queue[s0]) /\ Line(k, s) = queue[s0]
      BY <2>1 DEF Line, TypeOK
    <3>2. /\ i \in Nat \ {0} /\ i + 1 \in DOMAIN Line(k, s)
          /\ Line(k, s)'[i] = Line(k, s)[i + 1]
      BY <1>1, <3>1
    <3>3. i + 1 # 1
      BY <3>2
    <3>4. QED
      BY <1>2, <2>1, <3>2, <3>3
  <2>2. CASE ~(k = "queue" /\ s = s0)
    <3>1. Line(k, s)' = Line(k, s)
      <4>1. CASE k = "stack" /\ s = s0 /\ stack' # stack
        <5>1. Line(k, s)' = <<x>>
          BY <4>1 DEF Line, TypeOK
        <5>2. QED
          BY <4>1, <5>1
      <4>2. CASE ~(k = "stack" /\ s = s0 /\ stack' # stack)
        BY <2>2, <4>2 DEF Line, TypeOK, Kinds
      <4>3. QED
        BY <4>1, <4>2
    <3>2. i \in Nat /\ Line(k, s)[i].id # gone
      BY <1>2, <2>2, <3>1, Places
    <3>3. QED
      BY <2>2, <3>1, <3>2
  <2>3. QED
    BY <2>1, <2>2
<1>4. Apart' /\ Carried(gone, s0, x)
  BY <1>3, Moved
<1>5. QED
  BY <1>4

\* The last message m of a stack is taken: dropped, or replaced by a message of the same
\* call in the queue of t.
LEMMA Ended ==
  ASSUME TypeOK, Apart, NEW s0 \in Services, stack[s0] # <<>>,
         stack' = [stack EXCEPT ![s0] = Popped(s0)],
         NEW t \in Services, NEW x \in Result, x.id = stack[s0][Len(stack[s0])].id,
         queue' = queue \/ Post(t, x)
  PROVE  Apart' /\ Carried(x.id, t, x)
<1> DEFINE last == Len(stack[s0])
<1>1. /\ last \in DOMAIN stack[s0]
      /\ \A i \in DOMAIN Popped(s0) :
           i \in DOMAIN stack[s0] /\ i # last /\ Popped(s0)[i] = stack[s0][i]
  BY Popping DEF TypeOK, Popped
<1> PICK gone : gone = x.id
  OBVIOUS
<1> PICK n : n = Len(queue[t]) + 1
  OBVIOUS
<1>2. \A k \in Kinds, s \in Services : \A i \in DOMAIN Line(k, s) :
        Line(k, s)[i].id = gone => k = "stack" /\ s = s0 /\ i = last
  <2>1. "stack" \in Kinds /\ Line("stack", s0) = stack[s0]
    BY DEF Kinds, Line
  <2>2. QED
    BY <1>1, <2>1 DEF Apart
<1> HIDE DEF last
<1>3. Relocated("none", s0, 0, gone, "queue", t, n, x)
  <2> SUFFICES ASSUME NEW k \in Kinds, NEW s \in Services, NEW i \in DOMAIN Line(k, s)',
                      ~(k = "queue" /\ s = t /\ i = n /\ Line(k, s)'[i] = x)
               PROVE  /\ i \in Nat /\ i \in DOMAIN Line(k, s)
                      /\ Line(k, s)'[i] = Line(k, s)[i] /\ Line(k, s)[i].id # gone
    BY DEF Relocated, Kinds
  <2>1. CASE k = "stack" /\ s = s0
    <3>1. Line(k, s)' = Popped(s0) /\ Line(k, s) = stack[s0]
      BY <2>1 DEF Line, TypeOK
    <3>2. i \in DOMAIN Line(k, s) /\ i # last /\ Line(k, s)'[i] = Line(k, s)[i]
      BY <1>1, <3>1
    <3>3. QED
      BY <1>2, <3>2, Places
  <2>2. CASE ~(k = "stack" /\ s = s0)
    <3>1. i \in DOMAIN Line(k, s) /\ Line(k, s)'[i] = Line(k, s)[i]
      <4>1. CASE k = "queue" /\ s = t /\ Post(t, x)
        <5>1. Line(k, s)' = Append(queue[t], x) /\ Line(k, s) = queue[t]
          BY <4>1 DEF Line, Post, TypeOK
        <5>2. queue[t] \in Seq(Request \union Result) /\ x \in Request \union Result
          BY DEF TypeOK
        <5>3. /\ DOMAIN Line(k, s)' = DOMAIN Line(k, s) \union {n}
              /\ \A j \in DOMAIN Line(k, s) : Line(k, s)'[j] = Line(k, s)[j]
              /\ Line(k, s)'[n] = x
          BY <5>1, <5>2, Appending
        <5>4. QED
          BY <4>1, <5>3
      <4>2. CASE ~(k = "queue" /\ s = t /\ Post(t, x))
        <5>1. Line(k, s)' = Line(k, s)
          BY <2>2, <4>2 DEF Line, Post, TypeOK, Kinds
        <5>2. QED
          BY <5>1
      <4>3. QED
        BY <4>1, <4>2
    <3>2. QED
      BY <1>2, <2>2, <3>1, Places
  <2>3. QED
    BY <2>1, <2>2
<1>4. Apart' /\ Carried(gone, t, x)
  BY <1>3, Moved
<1>5. QED
  BY <1>4

\* What is pending stays so, but for the call gone.
Undisturbed(gone) ==
  \A s \in Services, m \in Request \union Result :
    Pending(s, m) /\ m.id # gone => Pending(s, m)'

\* The messages that were under way are still pending after a step that disturbs
\* the call gone alone, when the one it puts is.
LEMMA StillPending ==
  ASSUME TypeOK, AllPending, NEW gone, NEW s0 \in Services, NEW x, Carried(gone, s0, x),
         Undisturbed(gone),
         Old(s0, x)' => Pending(s0, x)'
  PROVE  AllPending'
<1> SUFFICES ASSUME NEW k \in Kinds, NEW s \in Services, NEW i \in DOMAIN Line(k, s)'
             PROVE  Pending(s, Line(k, s)[i])'
  BY DEF AllPending
<1>1. CASE s = s0 /\ Line(k, s)'[i] = x
  <2>1. Pending(s0, x)'
    BY <1>1 DEF Old
  <2>2. QED
    BY <1>1, <2>1
<1>2. CASE Old(s, Line(k, s)'[i]) /\ Line(k, s)'[i].id # gone
  <2> PICK m : m = Line(k, s)'[i]
    OBVIOUS
  <2>1. PICK l \in Kinds : \E j \in DOMAIN Line(l, s) : m = Line(l, s)[j]
    BY <1>2 DEF Old
  <2>2. m \in Request \union Result /\ Pending(s, m)
    BY <2>1, LineType DEF AllPending
  <2>3. Pending(s, m)'
    BY <1>2, <2>2 DEF Undisturbed
  <2>4. QED
    BY <2>3
<1>3. QED
  BY <1>1, <1>2 DEF Carried

LEMMA KeptPending ==
  ASSUME TypeOK, AllPending, UNCHANGED <<queue, stack>>, Undisturbed(0)
  PROVE  AllPending'
<1> SUFFICES ASSUME NEW k \in Kinds, NEW s \in Services, NEW i \in DOMAIN Line(k, s)'
             PROVE  Pending(s, Line(k, s)[i])'
  BY DEF AllPending
<1> PICK m : m = Line(k, s)[i]
  OBVIOUS
<1>1. Line(k, s)' = Line(k, s)
  BY DEF Line
<1>2. m \in Request \union Result /\ Pending(s, m)
  BY <1>1, LineType DEF AllPending
<1>3. m.id # 0
  BY <1>2 DEF Request, Result, Ids
<1>4. Pending(s, m)'
  BY <1>2, <1>3 DEF Undisturbed
<1>5. QED
  BY <1>1, <1>4

-----------------------------------------------------------------------------
(* The operations. *)

\* A free slot and a slot that holds a handler are not a callback's.
LEMMA SlotKinds ==
  /\ \A n : Handler(n) # Free /\ Handler(n).name = n
  /\ \A id : Callback(id) # Free /\ Callback(id).id = id
  /\ \A n, id : Handler(n) # Callback(id)
<1>1. \A n : Handler(n).kind = "handler" /\ Handler(n).name = n
  BY DEF Handler
<1>2. \A id : Callback(id).kind = "callback" /\ Callback(id).id = id
  BY DEF Callback
<1>3. Free.kind = "free"
  BY DEF Free
<1>4. \A n : Handler(n) # Free
  BY <1>1, <1>3
<1>5. \A id : Callback(id) # Free
  BY <1>2, <1>3
<1>6. \A n, id : Handler(n) # Callback(id)
  BY <1>1, <1>2
<1>7. QED
  BY <1>1, <1>2, <1>4, <1>5, <1>6

LEMMA SameHandlers ==
  ASSUME HandlersOwned, UNCHANGED <<reged, registry>>
  PROVE  HandlersOwned'
BY DEF HandlersOwned

LEMMA InitInv == Init => IInv
<1> SUFFICES ASSUME Init PROVE IInv
  OBVIOUS
<1>1. <<>> \in Answers
  BY DEF Answers
<1>2. TypeOK
  BY <1>1, RpcAssumption DEF Init, TypeOK, Slot
<1>3. HandlersOwned
  <2>1. \A n \in Names, s \in Services, r \in Refs :
          registry[s][r] = Free /\ reged[n] = None
    BY DEF Init
  <2>2. \A s \in Services, r \in Refs : [ios |-> s, handler |-> r] # None
    BY RpcAssumption
  <2>3. QED
    BY <2>1, <2>2, SlotKinds DEF HandlersOwned
<1>4. \A k \in Kinds, s \in Services : DOMAIN Line(k, s) = {}
  <2>1. \A k \in Kinds, s \in Services : Line(k, s) = <<>>
    BY DEF Init, Line
  <2>2. QED
    BY <2>1
<1>5. Apart /\ AllPending
  BY <1>4 DEF Apart, AllPending
<1>6. NoneBefore
  BY DEF Init, NoneBefore
<1>7. QED
  BY <1>2, <1>3, <1>5, <1>6 DEF IInv

LEMMA RegisterInv ==
  ASSUME IInv, NEW s \in Services, NEW n \in Names, Register(s, n)
  PROVE  IInv'
<1> USE DEF IInv
<1> PICK r \in Refs :
      /\ registry[s][r] = Free
      /\ registry' = [registry EXCEPT ![s][r] = Handler(n)]
      /\ reged' = [reged EXCEPT ![n] = [ios |-> s, handler |-> r]]
  BY DEF Register, Ref
<1>1. /\ UNCHANGED <<queue, alive, waiting, stack, ids, answers, lost>>
      /\ reged[n] = None
  BY DEF Register
<1>2. TypeOK'
  <2>1. registry' \in [Services -> [Refs -> Slot]]
    BY DEF TypeOK, Slot
  <2>2. reged' \in [Names -> Node \union {None}]
    BY DEF TypeOK, Node
  <2>3. QED
    BY <1>1, <2>1, <2>2 DEF TypeOK
<1>3. \A t \in Services, q \in Refs :
        registry'[t][q] = IF t = s /\ q = r THEN Handler(n) ELSE registry[t][q]
  BY DEF TypeOK
<1>4. \A o \in Names :
        reged'[o] = IF o = n THEN [ios |-> s, handler |-> r] ELSE reged[o]
  BY DEF TypeOK
<1>5. HandlersOwned'
  <2> SUFFICES ASSUME NEW o \in Names, NEW t \in Services, NEW q \in Refs
               PROVE  registry'[t][q] = Handler(o) <=> reged'[o] = [ios |-> t, handler |-> q]
    BY DEF HandlersOwned
  <2>1. registry[t][q] = Handler(o) <=> reged[o] = [ios |-> t, handler |-> q]
    BY DEF HandlersOwned
  <2>2. registry[s][r] = Handler(o) <=> reged[o] = [ios |-> s, handler |-> r]
    BY DEF HandlersOwned
  <2>3. [ios |-> t, handler |-> q] # None
    BY RpcAssumption
  <2>4. [ios |-> s, handler |-> r] = [ios |-> t, handler |-> q] <=> s = t /\ r = q
    OBVIOUS
  <2>5. Handler(n) = Handler(o) <=> n = o
    BY SlotKinds
  <2>6. QED
    BY <1>1, <1>3, <1>4, <2>1, <2>2, <2>3, <2>4, <2>5, SlotKinds
<1>6. Apart'
  BY <1>1, SameLines
<1>7. AllPending'
  <2>1. ASSUME NEW t \in Services, NEW m \in Request \union Result, Pending(t, m)
        PROVE  Pending(t, m)'
    <3>1. m.from \in Services /\ m.callback \in Refs
      BY DEF Request, Result
    <3>2. QED
      BY <1>1, <1>3, <2>1, <3>1, SlotKinds DEF Pending
  <2>2. Undisturbed(0)
    BY <2>1 DEF Undisturbed
  <2>3. QED
    BY <1>1, <2>2, KeptPending
<1>8. NoneBefore'
  BY <1>1 DEF NoneBefore
<1>9. QED
  BY <1>2, <1>5, <1>6, <1>7, <1>8

LEMMA CancelInv ==
  ASSUME IInv, NEW s \in Services, NEW n \in Names, Cancel(s, n)
  PROVE  IInv'
<1> USE DEF IInv
<1>1. /\ UNCHANGED <<queue, alive, waiting, stack, ids, answers, lost>>
      /\ reged[n] # None /\ reged[n].ios = s
      /\ registry' = [registry EXCEPT ![s][reged[n].handler] = Free]
      /\ reged' = [reged EXCEPT ![n] = None]
  BY DEF Cancel
<1> PICK r : r = reged[n].handler
  OBVIOUS
<1>2. reged[n] = [ios |-> s, handler |-> r] /\ r \in Refs
  BY <1>1 DEF TypeOK, Node
<1>3. TypeOK'
  <2>1. registry' \in [Services -> [Refs -> Slot]]
    BY <1>1 DEF TypeOK, Slot
  <2>2. reged' \in [Names -> Node \union {None}]
    BY <1>1 DEF TypeOK
  <2>3. QED
    BY <1>1, <2>1, <2>2 DEF TypeOK
<1>4. \A t \in Services, q \in Refs :
        registry'[t][q] = IF t = s /\ q = r THEN Free ELSE registry[t][q]
  BY <1>1 DEF TypeOK
<1>5. \A o \in Names : reged'[o] = IF o = n THEN None ELSE reged[o]
  BY <1>1 DEF TypeOK
<1>6. registry[s][r] = Handler(n)
  BY <1>2 DEF HandlersOwned
<1>7. HandlersOwned'
  <2> SUFFICES ASSUME NEW o \in Names, NEW t \in Services, NEW q \in Refs
               PROVE  registry'[t][q] = Handler(o) <=> reged'[o] = [ios |-> t, handler |-> q]
    BY DEF HandlersOwned
  <2>1. registry[t][q] = Handler(o) <=> reged[o] = [ios |-> t, handler |-> q]
    BY DEF HandlersOwned
  <2>2. [ios |-> t, handler |-> q] # None
    BY RpcAssumption
  <2>3. [ios |-> s, handler |-> r] = [ios |-> t, handler |-> q] <=> s = t /\ r = q
    OBVIOUS
  <2>4. Handler(n) = Handler(o) <=> n = o
    BY SlotKinds
  <2>5. CASE t = s /\ q = r
    <3>1. registry'[t][q] # Handler(o)
      BY <1>4, <2>5, SlotKinds
    <3>2. o # n => reged[o] # [ios |-> t, handler |-> q]
      BY <1>6, <2>1, <2>4, <2>5
    <3>3. QED
      BY <1>5, <2>2, <3>1, <3>2
  <2>6. CASE ~(t = s /\ q = r)
    <3>1. registry'[t][q] = registry[t][q]
      BY <1>4, <2>6
    <3>2. o = n => reged[o] # [ios |-> t, handler |-> q]
      BY <1>2, <2>3, <2>6
    <3>3. reged'[o] = IF o = n THEN None ELSE reged[o]
      BY <1>5
    <3>4. QED
      BY <2>1, <2>2, <3>1, <3>2, <3>3
  <2>7. QED
    BY <2>5, <2>6
<1>8. Apart'
  BY <1>1, SameLines
<1>9. AllPending'
  <2>1. ASSUME NEW t \in Services, NEW m \in Request \union Result, Pending(t, m)
        PROVE  Pending(t, m)'
    <3>1. m.from \in Services /\ m.callback \in Refs
      BY DEF Request, Result
    <3>2. QED
      BY <1>1, <1>4, <1>6, <2>1, <3>1, SlotKinds DEF Pending
  <2>2. Undisturbed(0)
    BY <2>1 DEF Undisturbed
  <2>3. QED
    BY <1>1, <2>2, KeptPending
<1>10. NoneBefore'
  BY <1>1 DEF NoneBefore
<1>11. QED
  BY <1>3, <1>7, <1>8, <1>9, <1>10

LEMMA CallInv ==
  ASSUME IInv, NEW s \in Services, NEW n \in Names, Call(s, n)
  PROVE  IInv'
<1> USE DEF IInv
<1> PICK d : d = reged[n].ios
  OBVIOUS
<1> PICK m : m = [op |-> "call", id |-> ids + 1, from |-> s, name |-> n,
                  index |-> reged[n].handler, callback |-> reged[n].handler]
  OBVIOUS
<1>1. /\ UNCHANGED <<reged, registry, alive, answers, lost>>
      /\ reged[n] # None /\ waiting[s] = 0 /\ ids < MaxCalls /\ ids' = ids + 1
      /\ \/ /\ d = s /\ stack' = [stack EXCEPT ![s] = Append(@, m)]
            /\ UNCHANGED <<queue, waiting>>
         \/ /\ d # s /\ queue' = [queue EXCEPT ![d] = Append(@, m)]
            /\ waiting' = [waiting EXCEPT ![s] = ids + 1] /\ UNCHANGED stack
  BY DEF Call, Running, Post
<1>2. d \in Services /\ reged[n].handler \in Refs
  BY <1>1 DEF TypeOK, Node
<1>3. ids \in Nat /\ ids + 1 \in Ids /\ ids + 1 \in 0..MaxCalls
  BY <1>1, RpcAssumption DEF TypeOK, Ids
<1>4. m \in Request /\ m.id = ids + 1 /\ m.op = "call" /\ m.from = s
  BY <1>2, <1>3 DEF Request
<1>5. TypeOK'
  <2>1. queue' \in [Services -> Seq(Request \union Result)]
    <3>1. Append(queue[d], m) \in Seq(Request \union Result)
      BY <1>2, <1>4, AppendProperties DEF TypeOK
    <3>2. QED
      BY <1>1, <1>2, <3>1 DEF TypeOK
  <2>2. stack' \in [Services -> Seq(Request)]
    <3>1. Append(stack[s], m) \in Seq(Request)
      BY <1>4, AppendProperties DEF TypeOK
    <3>2. QED
      BY <1>1, <3>1 DEF TypeOK
  <2>3. waiting' \in [Services -> 0..MaxCalls]
    <3>1. waiting' = waiting \/ waiting' = [waiting EXCEPT ![s] = ids + 1]
      BY <1>1
    <3>2. QED
      BY <1>3, <3>1 DEF TypeOK
  <2>4. QED
    BY <1>1, <1>3, <2>1, <2>2, <2>3 DEF TypeOK
<1>6. HandlersOwned'
  BY <1>1, SameHandlers
<1> PICK k0 \in Kinds : k0 = IF d = s THEN "stack" ELSE "queue"
  BY DEF Kinds
<1>7. Extended(k0, d, m)
  BY <1>1, <1>2 DEF TypeOK, Line, Kinds, Extended
<1> PICK gone : gone = ids + 1
  OBVIOUS
<1>8. Apart' /\ Carried(gone, d, m)
  BY <1>2, <1>4, <1>7, NewLine
<1>9. Undisturbed(gone)
  <2> SUFFICES ASSUME NEW t \in Services, NEW o \in Request \union Result, Pending(t, o)
               PROVE  Pending(t, o)'
    BY DEF Undisturbed
  <2>1. o.from \in Services /\ o.id \in Nat \ {0}
    BY RpcAssumption DEF Request, Result, Ids
  <2>2. o.op = "call" => o.from = t \/ waiting'[o.from] = o.id
    BY <1>1, <2>1 DEF Pending, TypeOK
  <2>3. o.id <= ids'
    BY <1>1, <1>3, <2>1 DEF Pending
  <2>4. QED
    BY <1>1, <2>2, <2>3 DEF Pending
<1>10. Pending(d, m)'
  <2>1. answers[m.id] = <<>>
    BY <1>3, <1>4 DEF NoneBefore
  <2>2. m.from = d \/ waiting'[m.from] = m.id
    BY <1>1, <1>4 DEF TypeOK
  <2>3. QED
    BY <1>1, <1>3, <1>4, <2>1, <2>2 DEF Pending
<1>11. AllPending'
  BY <1>2, <1>8, <1>9, <1>10, StillPending
<1>12. NoneBefore'
  BY <1>1, <1>3 DEF NoneBefore, Ids
<1>13. QED
  BY <1>5, <1>6, <1>8, <1>11, <1>12

LEMMA InvokeInv ==
  ASSUME IInv, NEW s \in Services, NEW n \in Names, Invoke(s, n)
  PROVE  IInv'
<1> USE DEF IInv
<1> PICK d : d = reged[n].ios
  OBVIOUS
<1> PICK r \in Refs :
      /\ registry[s][r] = Free
      /\ registry' = [registry EXCEPT ![s][r] = Callback(ids + 1)]
      /\ IF reged[n] = None
         THEN UNCHANGED queue
         ELSE Post(reged[n].ios,
                   [op |-> "invoke", id |-> ids + 1, from |-> s, name |-> n,
                    index |-> reged[n].handler, callback |-> r])
  BY DEF Invoke, Ref
<1> PICK m : m = [op |-> "invoke", id |-> ids + 1, from |-> s, name |-> n,
                  index |-> reged[n].handler, callback |-> r]
  OBVIOUS
<1>1. /\ UNCHANGED <<reged, alive, waiting, stack, answers, lost>>
      /\ ids < MaxCalls /\ ids' = ids + 1
      /\ \/ reged[n] = None /\ UNCHANGED queue
         \/ reged[n] # None /\ queue' = [queue EXCEPT ![d] = Append(@, m)]
  BY DEF Invoke, Post
<1>2. ids \in Nat /\ ids + 1 \in Ids /\ ids + 1 \in 0..MaxCalls
  BY <1>1, RpcAssumption DEF TypeOK, Ids
<1>3. reged[n] # None => /\ d \in Services /\ m \in Request
  BY <1>2 DEF TypeOK, Node, Request
<1>4. m.id = ids + 1 /\ m.op = "invoke" /\ m.from = s /\ m.callback = r
  OBVIOUS
<1>5. TypeOK'
  <2>1. queue' \in [Services -> Seq(Request \union Result)]
    <3>1. reged[n] # None => Append(queue[d], m) \in Seq(Request \union Result)
      BY <1>3, AppendProperties DEF TypeOK
    <3>2. QED
      BY <1>1, <1>3, <3>1 DEF TypeOK
  <2>2. registry' \in [Services -> [Refs -> Slot]]
    BY <1>2 DEF TypeOK, Slot
  <2>3. QED
    BY <1>1, <1>2, <2>1, <2>2 DEF TypeOK
<1>6. \A t \in Services, q \in Refs :
        registry'[t][q] = IF t = s /\ q = r THEN Callback(ids + 1) ELSE registry[t][q]
  BY DEF TypeOK
<1>7. HandlersOwned'
  <2> SUFFICES ASSUME NEW o \in Names, NEW t \in Services, NEW q \in Refs
               PROVE  registry'[t][q] = Handler(o) <=> reged'[o] = [ios |-> t, handler |-> q]
    BY DEF HandlersOwned
  <2>1. registry[t][q] = Handler(o) <=> reged[o] = [ios |-> t, handler |-> q]
    BY DEF HandlersOwned
  <2>2. QED
    BY <1>1, <1>6, <2>1, SlotKinds
<1>8. ASSUME NEW t \in Services, NEW o \in Request \union Result, Pending(t, o)
      PROVE  Pending(t, o)'
  <2>1. o.from \in Services /\ o.id \in Nat \ {0} /\ o.callback \in Refs
    BY RpcAssumption DEF Request, Result, Ids
  <2>2. o.id <= ids'
    BY <1>1, <1>2, <1>8, <2>1 DEF Pending
  <2>3. \A u \in Services : registry[u][o.callback] = Callback(o.id)
          => registry'[u][o.callback] = Callback(o.id)
    BY <1>6, <2>1, SlotKinds
  <2>4. QED
    BY <1>1, <1>8, <2>1, <2>2, <2>3 DEF Pending
<1>9. Apart' /\ AllPending'
  <2>1. CASE UNCHANGED queue
    <3>1. Undisturbed(0)
      BY <1>8 DEF Undisturbed
    <3>2. QED
      BY <1>1, <2>1, <3>1, SameLines, KeptPending
  <2>2. CASE reged[n] # None /\ queue' = [queue EXCEPT ![d] = Append(@, m)]
    <3> PICK gone : gone = ids + 1
      OBVIOUS
    <3> PICK k0 \in Kinds : k0 = "queue"
      BY DEF Kinds
    <3>1. Extended(k0, d, m)
      BY <1>1, <1>3, <2>2 DEF TypeOK, Line, Kinds, Extended
    <3>2. Apart' /\ Carried(gone, d, m)
      BY <1>3, <1>4, <2>2, <3>1, NewLine
    <3>3. Undisturbed(gone)
      BY <1>8 DEF Undisturbed
    <3>4. Pending(d, m)'
      <4>1. answers[m.id] = <<>>
        BY <1>2, <1>4 DEF NoneBefore
      <4>2. QED
        BY <1>1, <1>2, <1>4, <1>6, <4>1 DEF Pending
    <3>5. QED
      BY <1>3, <2>2, <3>2, <3>3, <3>4, StillPending
  <2>3. QED
    BY <1>1, <2>1, <2>2
<1>10. NoneBefore'
  BY <1>1, <1>2 DEF NoneBefore, Ids
<1>11. QED
  BY <1>5, <1>7, <1>9, <1>10

LEMMA RunRequestInv ==
  ASSUME IInv, NEW s \in Services, RunRequest(s)
  PROVE  IInv'
<1> USE DEF IInv
<1> PICK m : m = Head(queue[s])
  OBVIOUS
<1>1. /\ UNCHANGED <<reged, registry, alive, waiting, ids, answers, lost>>
      /\ queue[s] # <<>> /\ stack[s] = <<>> /\ m.op \in {"call", "invoke"}
      /\ stack' = [stack EXCEPT ![s] = <<m>>]
      /\ queue' = [queue EXCEPT ![s] = Tail(@)]
  BY DEF RunRequest, Waits
<1>2. /\ Tail(queue[s]) \in Seq(Request \union Result)
      /\ "queue" \in Kinds /\ Line("queue", s) = queue[s]
      /\ 1 \in DOMAIN queue[s] /\ m = queue[s][1] /\ m \in Request \union Result
  BY <1>1, Dropping DEF TypeOK, Kinds, Line
<1>3. m \in Request
  BY <1>1, <1>2 DEF Result
<1>4. TypeOK'
  <2>1. queue' \in [Services -> Seq(Request \union Result)]
    BY <1>1, <1>2 DEF TypeOK
  <2>2. stack' \in [Services -> Seq(Request)]
    BY <1>1, <1>3 DEF TypeOK
  <2>3. QED
    BY <1>1, <2>1, <2>2 DEF TypeOK
<1>5. HandlersOwned'
  BY <1>1, SameHandlers
<1> PICK gone : gone = m.id
  OBVIOUS
<1>6. Apart' /\ Carried(gone, s, m)
  BY <1>1, Taken
<1>7. Undisturbed(gone)
  BY <1>1 DEF Undisturbed, Pending
<1>8. Pending(s, m)'
  <2>1. Pending(s, m)
    BY <1>2 DEF AllPending
  <2>2. QED
    BY <1>1, <2>1 DEF Pending
<1>9. AllPending'
  BY <1>6, <1>7, <1>8, StillPending
<1>10. NoneBefore'
  BY <1>1 DEF NoneBefore
<1>11. QED
  BY <1>4, <1>5, <1>6, <1>9, <1>10

\* The head of a queue is dropped, and no message of its call is left.
LEMMA Gone ==
  ASSUME TypeOK, Apart, AllPending, NEW s \in Services, queue[s] # <<>>,
         queue' = [queue EXCEPT ![s] = Tail(@)], stack' = stack,
         NEW gone, gone = Head(queue[s]).id, Undisturbed(gone)
  PROVE  Apart' /\ AllPending'
<1> PICK m : m = Head(queue[s])
  OBVIOUS
<1>1. Apart' /\ Carried(gone, s, m)
  BY Taken
<1>2. ~Old(s, m)'
  <2>1. /\ 1 \in DOMAIN queue[s] /\ m = queue[s][1]
        /\ \A i \in DOMAIN Tail(queue[s]) :
             i \in Nat \ {0} /\ i + 1 \in DOMAIN queue[s] /\ Tail(queue[s])[i] = queue[s][i + 1]
    BY Dropping DEF TypeOK
  <2>2. "queue" \in Kinds /\ Line("queue", s) = queue[s]
    BY DEF Kinds, Line
  <2>3. SUFFICES ASSUME NEW k \in Kinds, NEW i \in DOMAIN Line(k, s)'
                 PROVE  Line(k, s)'[i].id # m.id
    BY DEF Old
  <2>4. CASE k = "queue"
    <3>1. Line(k, s)' = Tail(queue[s])
      BY <2>4 DEF Line, TypeOK
    <3>2. i + 1 \in DOMAIN queue[s] /\ i + 1 # 1 /\ Line(k, s)'[i] = queue[s][i + 1]
      BY <2>1, <3>1
    <3>3. QED
      BY <2>1, <2>2, <3>2 DEF Apart
  <2>5. CASE k = "stack"
    <3>1. Line(k, s)' = Line(k, s)
      BY <2>5 DEF Line
    <3>2. QED
      BY <2>1, <2>2, <2>5, <3>1 DEF Apart
  <2>6. QED
    BY <2>4, <2>5 DEF Kinds
<1>3. AllPending'
  BY <1>1, <1>2, StillPending
<1>4. QED
  BY <1>1, <1>3

LEMMA RunMissingInv ==
  ASSUME IInv, NEW s \in Services, RunMissing(s)
  PROVE  IInv'
<1> USE DEF IInv
<1> PICK m : m = Head(queue[s])
  OBVIOUS
<1>1. /\ UNCHANGED <<reged, registry, waiting, stack, ids, answers>>
      /\ queue[s] # <<>> /\ queue' = [queue EXCEPT ![s] = Tail(@)]
      /\ lost' = lost \union {m.id}
      /\ alive' \in {alive, alive \ ({s} \intersect Mortals)}
  BY DEF RunMissing, Waits
<1>2. Tail(queue[s]) \in Seq(Request \union Result) /\ m \in Request \union Result
  BY <1>1, Dropping DEF TypeOK
<1>3. TypeOK'
  <2>1. queue' \in [Services -> Seq(Request \union Result)]
    BY <1>1, <1>2 DEF TypeOK
  <2>2. m.id \in Ids
    BY <1>2 DEF Request, Result
  <2>3. lost' \subseteq Ids /\ alive' \subseteq Services
    BY <1>1, <2>2 DEF TypeOK
  <2>4. QED
    BY <1>1, <2>1, <2>3 DEF TypeOK
<1>4. HandlersOwned'
  BY <1>1, SameHandlers
<1> PICK gone : gone = m.id
  OBVIOUS
<1>5. Undisturbed(gone)
  BY <1>1 DEF Undisturbed, Pending
<1>6. Apart' /\ AllPending'
  BY <1>1, <1>5, Gone
<1>7. NoneBefore'
  BY <1>1 DEF NoneBefore
<1>8. QED
  BY <1>3, <1>4, <1>6, <1>7

LEMMA RunResultInv ==
  ASSUME IInv, NEW s \in Services, RunResult(s)
  PROVE  IInv'
<1> USE DEF IInv
<1> PICK m : m = Head(queue[s])
  OBVIOUS
<1>1. /\ UNCHANGED <<reged, alive, waiting, stack, ids, lost>>
      /\ queue[s] # <<>> /\ queue' = [queue EXCEPT ![s] = Tail(@)] /\ m.op = "result"
      /\ registry' = [registry EXCEPT ![s][m.callback] = Free]
      /\ answers' = [answers EXCEPT ![m.id] = m.answer]
  BY DEF RunResult, Waits
<1>2. /\ Tail(queue[s]) \in Seq(Request \union Result)
      /\ "queue" \in Kinds /\ Line("queue", s) = queue[s]
      /\ 1 \in DOMAIN queue[s] /\ m = queue[s][1] /\ m \in Request \union Result
  BY <1>1, Dropping DEF TypeOK, Kinds, Line
<1>3. m \in Result /\ m.id \in Ids /\ m.callback \in Refs /\ m.answer \in Answers
  BY <1>1, <1>2 DEF Result, Request
<1>4. registry[s][m.callback] = Callback(m.id) /\ m.id <= ids
  BY <1>1, <1>2 DEF AllPending, Pending
<1>5. TypeOK'
  <2>1. queue' \in [Services -> Seq(Request \union Result)]
    BY <1>1, <1>2 DEF TypeOK
  <2>2. registry' \in [Services -> [Refs -> Slot]]
    BY <1>1, <1>3 DEF TypeOK, Slot
  <2>3. answers' \in [Ids -> Answers]
    BY <1>1, <1>3 DEF TypeOK
  <2>4. QED
    BY <1>1, <2>1, <2>2, <2>3 DEF TypeOK
<1>6. \A t \in Services, q \in Refs :
        registry'[t][q] = IF t = s /\ q = m.callback THEN Free ELSE registry[t][q]
  BY <1>1, <1>3 DEF TypeOK
<1>7. \A id \in Ids : id # m.id => answers'[id] = answers[id]
  BY <1>1 DEF TypeOK
<1>8. HandlersOwned'
  <2> SUFFICES ASSUME NEW o \in Names, NEW t \in Services, NEW q \in Refs
               PROVE  registry'[t][q] = Handler(o) <=> reged'[o] = [ios |-> t, handler |-> q]
    BY DEF HandlersOwned
  <2>1. registry[t][q] = Handler(o) <=> reged[o] = [ios |-> t, handler |-> q]
    BY DEF HandlersOwned
  <2>2. QED
    BY <1>1, <1>4, <1>6, <2>1, SlotKinds
<1> PICK gone : gone = m.id
  OBVIOUS
<1>9. Undisturbed(gone)
  <2> SUFFICES ASSUME NEW t \in Services, NEW o \in Request \union Result,
                      Pending(t, o), o.id # m.id
               PROVE  Pending(t, o)'
    BY DEF Undisturbed
  <2>1. o.from \in Services /\ o.id \in Ids /\ o.callback \in Refs
    BY DEF Request, Result
  <2>2. \A u \in Services : registry[u][o.callback] = Callback(o.id)
          => registry'[u][o.callback] = Callback(o.id)
    BY <1>4, <1>6, <2>1, SlotKinds
  <2>3. answers'[o.id] = <<>>
    BY <1>7, <2>1 DEF Pending
  <2>4. QED
    BY <1>1, <2>1, <2>2, <2>3 DEF Pending
<1>10. Apart' /\ AllPending'
  BY <1>1, <1>9, Gone
<1>11. NoneBefore'
  <2>1. ids \in Nat
    BY DEF TypeOK
  <2>2. \A id \in Ids : id > ids => id # m.id
    BY <1>3, <1>4, <2>1 DEF Ids
  <2>3. QED
    BY <1>1, <1>7, <2>2 DEF NoneBefore
<1>12. QED
  BY <1>5, <1>8, <1>10, <1>11

\* What append(L, top + 1, 0) takes of the results of a handler is nothing.
LEMMA NothingAppended ==
  ASSUME NEW ok \in BOOLEAN, NEW values
  PROVE  <<ok>> \o Appended(values, 1, 0) \in Answers
<1>1. Appended(values, 1, 0) = <<>>
  BY SubSeqEmpty DEF Appended
<1>2. <<ok>> \in Answers
  BY DEF Answers
<1>3. QED
  BY <1>1, <1>2, ConcatEmptySeq DEF Answers

LEMMA ReturnInv ==
  ASSUME IInv, NEW s \in Services, NEW ok \in BOOLEAN, NEW values \in Values,
         Return(s, ok, values)
  PROVE  IInv'
<1> USE DEF IInv
<1> PICK m : m = stack[s][Len(stack[s])]
  OBVIOUS
<1> PICK answer : answer = <<ok>> \o Appended(values, 1, 0)
  OBVIOUS
<1> PICK x : x = [op |-> "result", id |-> m.id, from |-> s,
                  callback |-> m.callback, answer |-> answer]
  OBVIOUS
<1>1. /\ UNCHANGED <<reged, registry, alive, ids, lost>>
      /\ stack[s] # <<>> /\ stack' = [stack EXCEPT ![s] = Popped(s)]
      /\ \/ /\ m.op = "call" /\ UNCHANGED queue
            /\ answers' = [answers EXCEPT ![m.id] = answer]
            /\ waiting' = Resumed(s, m)
         \/ /\ m.op # "call" /\ Post(m.from, x) /\ UNCHANGED <<answers, waiting>>
  BY DEF Return
<1>2. /\ Popped(s) \in Seq(Request)
      /\ "stack" \in Kinds /\ Line("stack", s) = stack[s]
      /\ Len(stack[s]) \in DOMAIN stack[s] /\ m \in Request
  BY <1>1, Popping DEF TypeOK, Kinds, Line, Popped
<1>3. /\ m.id \in Ids /\ m.from \in Services /\ m.callback \in Refs
      /\ m.op \in {"call", "invoke"}
  BY <1>2 DEF Request
<1>4. answer \in Answers
  BY NothingAppended
<1>5. x \in Result /\ x.id = m.id /\ x.op = "result" /\ x.callback = m.callback
  BY <1>3, <1>4 DEF Result
<1>6. Pending(s, m)
  BY <1>2 DEF AllPending
<1>7. TypeOK'
  <2>1. stack' \in [Services -> Seq(Request)]
    BY <1>1, <1>2 DEF TypeOK
  <2>2. CASE m.op = "call"
    <3>1. answers' \in [Ids -> Answers]
      BY <1>1, <1>3, <1>4, <2>2 DEF TypeOK
    <3>2. waiting' \in [Services -> 0..MaxCalls]
      <4>1. waiting' = waiting \/ waiting' = [waiting EXCEPT ![m.from] = 0]
        BY <1>1, <2>2 DEF Resumed
      <4>2. 0 \in 0..MaxCalls
        BY RpcAssumption
      <4>3. QED
        BY <1>3, <4>1, <4>2 DEF TypeOK
    <3>3. QED
      BY <1>1, <2>1, <2>2, <3>1, <3>2 DEF TypeOK
  <2>3. CASE m.op # "call"
    <3>1. Append(queue[m.from], x) \in Seq(Request \union Result)
      BY <1>3, <1>5, AppendProperties DEF TypeOK
    <3>2. queue' \in [Services -> Seq(Request \union Result)]
      BY <1>1, <1>3, <2>3, <3>1 DEF TypeOK, Post
    <3>3. QED
      BY <1>1, <2>1, <2>3, <3>2 DEF TypeOK
  <2>4. QED
    BY <2>2, <2>3
<1>8. HandlersOwned'
  BY <1>1, SameHandlers
<1> PICK gone : gone = m.id
  OBVIOUS
<1> PICK t \in Services : t = m.from
  BY <1>3
<1>9. Apart' /\ Carried(gone, t, x)
  <2>1. queue' = queue \/ Post(t, x)
    BY <1>1
  <2>2. Apart' /\ Carried(x.id, t, x)
    BY <1>1, <1>5, <2>1, Ended
  <2>3. QED
    BY <1>5, <2>2
<1>10. Undisturbed(gone)
  <2> SUFFICES ASSUME NEW u \in Services, NEW o \in Request \union Result,
                      Pending(u, o), o.id # m.id
               PROVE  Pending(u, o)'
    BY DEF Undisturbed
  <2>1. o.from \in Services /\ o.id \in Ids
    BY DEF Request, Result
  <2>2. answers'[o.id] = <<>>
    BY <1>1, <2>1 DEF Pending, TypeOK
  <2>3. ASSUME o.op = "call", o.from # u PROVE waiting'[o.from] = o.id
    <3>1. waiting[o.from] = o.id
      BY <2>3 DEF Pending
    <3>2. CASE m.op = "call" /\ m.from # s
      <4>1. waiting[m.from] = m.id
        BY <1>6, <3>2 DEF Pending
      <4>2. waiting' = [waiting EXCEPT ![m.from] = 0]
        BY <1>1, <3>2 DEF Resumed
      <4>3. QED
        BY <2>1, <3>1, <4>1, <4>2 DEF TypeOK
    <3>3. CASE ~(m.op = "call" /\ m.from # s)
      BY <1>1, <3>1, <3>3 DEF Resumed
    <3>4. QED
      BY <3>2, <3>3
  <2>4. QED
    BY <1>1, <2>2, <2>3 DEF Pending
<1>11. AllPending'
  <2>1. CASE m.op = "call"
    <3>1. ~Old(t, x)'
      <4> SUFFICES ASSUME NEW k \in Kinds, NEW i \in DOMAIN Line(k, t)', Line(k, t)'[i] = x
                   PROVE  FALSE
        BY DEF Old
      <4>1. CASE k = "queue"
        <5>1. Line(k, t)' = Line(k, t)
          BY <1>1, <2>1, <4>1 DEF Line
        <5>2. i \in DOMAIN Line(k, t) /\ Line(k, t)[i].id = m.id
          BY <1>5, <5>1
        <5>3. k = "stack"
          BY <1>2, <5>2 DEF Apart
        <5>4. QED
          BY <4>1, <5>3
      <4>2. CASE k = "stack"
        <5>1. Line(k, t)' \in Seq(Request)
          BY <1>7, <4>2 DEF Line, TypeOK
        <5>2. Line(k, t)'[i] \in Request
          BY <5>1, LenProperties, ElementOfSeq
        <5>3. QED
          BY <1>5, <5>2 DEF Request
      <4>3. QED
        BY <4>1, <4>2 DEF Kinds
    <3>2. QED
      BY <1>9, <1>10, <3>1, StillPending
  <2>2. CASE m.op # "call"
    <3>1. Pending(t, x)'
      BY <1>1, <1>3, <1>5, <1>6, <2>2 DEF Pending
    <3>2. QED
      BY <1>9, <1>10, <3>1, StillPending
  <2>3. QED
    BY <2>1, <2>2
<1>12. NoneBefore'
  <2>1. ids \in Nat
    BY DEF TypeOK
  <2>2. \A id \in Ids : id > ids => id # m.id
    BY <1>3, <1>6, <2>1 DEF Ids, Pending
  <2>3. \A id \in Ids : id # m.id => answers'[id] = answers[id]
    BY <1>1 DEF TypeOK
  <2>4. QED
    BY <1>1, <2>2, <2>3 DEF NoneBefore
<1>13. QED
  BY <1>7, <1>8, <1>9, <1>11, <1>12

LEMMA SteadyInv ==
  ASSUME IInv,
         UNCHANGED <<reged, registry, queue, waiting, stack, ids, answers, lost>>,
         alive' \subseteq alive
  PROVE  IInv'
<1> USE DEF IInv
<1>1. TypeOK'
  BY DEF TypeOK
<1>2. HandlersOwned'
  BY SameHandlers
<1>3. Apart'
  BY SameLines
<1>4. AllPending'
  <2>1. Undisturbed(0)
    BY DEF Undisturbed, Pending
  <2>2. QED
    BY <2>1, KeptPending
<1>5. NoneBefore'
  BY DEF NoneBefore
<1>6. QED
  BY <1>1, <1>2, <1>3, <1>4, <1>5

-----------------------------------------------------------------------------
\* Whatever the services do, the messages under way are those of calls not yet
\* answered, one for each call, and their slots and callers are kept for them.
THEOREM Invariance == Spec => []IInv
<1>1. IInv /\ [Next]_vars => IInv'
  <2> SUFFICES ASSUME IInv, [Next]_vars PROVE IInv'
    OBVIOUS
  <2>1. CASE UNCHANGED vars
    BY <2>1, SteadyInv DEF vars
  <2>2. CASE Next
    <3>1. PICK s \in Services :
            \/ \E n \in Names :
                 \/ Register(s, n)
                 \/ Cancel(s, n)
                 \/ Call(s, n)
                 \/ Invoke(s, n)
            \/ RunRequest(s)
            \/ RunMissing(s)
            \/ RunResult(s)
            \/ Returns(s)
            \/ Exit(s)
      BY <2>2 DEF Next
    <3>2. ASSUME NEW n \in Names, Register(s, n) PROVE IInv'
      BY <3>2, RegisterInv
    <3>3. ASSUME NEW n \in Names, Cancel(s, n) PROVE IInv'
      BY <3>3, CancelInv
    <3>4. ASSUME NEW n \in Names, Call(s, n) PROVE IInv'
      BY <3>4, CallInv
    <3>5. ASSUME NEW n \in Names, Invoke(s, n) PROVE IInv'
      BY <3>5, InvokeInv
    <3>6. CASE RunRequest(s)
      BY <3>6, RunRequestInv
    <3>7. CASE RunMissing(s)
      BY <3>7, RunMissingInv
    <3>8. CASE RunResult(s)
      BY <3>8, RunResultInv
    <3>9. CASE Returns(s)
      BY <3>9, ReturnInv DEF Returns
    <3>10. CASE Exit(s)
      BY <3>10, SteadyInv DEF Exit
    <3>11. QED
      BY <3>1, <3>2, <3>3, <3>4, <3>5, <3>6, <3>7, <3>8, <3>9, <3>10
  <2>3. QED
    BY <2>1, <2>2
<1>2. QED
  BY InitInv, <1>1, PTL DEF Spec

THEOREM TypeCorrect == Spec => []TypeOK
<1>1. IInv => TypeOK
  BY DEF IInv
<1>2. QED
  BY Invariance, <1>1, PTL

\* A slot belongs to the name that is registered with it or to the callback that was
\* passed, and the callback of a request under way is still that one: no sequence of
\* register, cancel, call and answer hands a service another function than the one
\* it passed (src/src/luaos_rpcall.cpp, luaL_ref and luaL_unref).
THEOREM SlotsIntactAlways == Spec => []SlotsIntact
<1>1. IInv => SlotsIntact
  <2> SUFFICES ASSUME IInv, NEW m \in Under
               PROVE  /\ m.op = "invoke" => registry[m.from][m.callback] = Callback(m.id)
                      /\ m.op = "result" => answers[m.id] = <<>>
    BY DEF IInv, SlotsIntact, HandlersOwned
  <2>1. PICK s \in Services : \/ m \in {queue[s][i] : i \in DOMAIN queue[s]}
                              \/ m \in {stack[s][i] : i \in DOMAIN stack[s]}
    <3>1. \/ m \in UNION {{queue[s][i] : i \in DOMAIN queue[s]} : s \in Services}
          \/ m \in UNION {{stack[s][i] : i \in DOMAIN stack[s]} : s \in Services}
      BY Zenon DEF Under
    <3>2. CASE m \in UNION {{queue[s][i] : i \in DOMAIN queue[s]} : s \in Services}
      BY Zenon, <3>2
    <3>3. CASE m \in UNION {{stack[s][i] : i \in DOMAIN stack[s]} : s \in Services}
      BY Zenon, <3>3
    <3>4. QED
      BY <3>1, <3>2, <3>3
  <2>2. /\ "queue" \in Kinds /\ Line("queue", s) = queue[s]
        /\ "stack" \in Kinds /\ Line("stack", s) = stack[s]
    BY DEF Kinds, Line
  <2>3. Pending(s, m)
    BY <2>1, <2>2 DEF IInv, AllPending
  <2>4. QED
    BY <2>3 DEF Pending
<1>2. QED
  BY Invariance, <1>1, PTL

\* A handler that runs for a blocked service answers the very call that blocks it: the
\* caller is still blocked by that call, no other frame belongs to it, and it has not
\* been answered before (src/src/luaos_rpcall.cpp, the reactor on the caller's stack).
THEOREM AnswersItsCallerAlways == Spec => []AnswersItsCaller
<1>1. IInv => AnswersItsCaller
  <2> SUFFICES ASSUME IInv, NEW s \in Services, NEW i \in DOMAIN stack[s],
                      stack[s][i].op = "call"
               PROVE  LET m == stack[s][i]
                      IN  /\ m.from # s => waiting[m.from] = m.id
                          /\ answers[m.id] = <<>>
                          /\ \A t \in Services : \A j \in DOMAIN stack[t] :
                               stack[t][j].id = m.id => <<t, j>> = <<s, i>>
    BY DEF AnswersItsCaller
  <2>1. \A t \in Services : "stack" \in Kinds /\ Line("stack", t) = stack[t]
    BY DEF Kinds, Line
  <2>2. Pending(s, stack[s][i])
    BY <2>1 DEF IInv, AllPending
  <2>3. \A t \in Services : \A j \in DOMAIN stack[t] :
          stack[t][j].id = stack[s][i].id => t = s /\ j = i
    BY <2>1 DEF IInv, Apart
  <2>4. QED
    BY <2>2, <2>3 DEF Pending
<1>2. QED
  BY Invariance, <1>1, PTL

-----------------------------------------------------------------------------
(* Who waits. *)

\* t has the call that blocks s, in its queue or on its stack.
HasCall(t, s) ==
  \E k \in Kinds : \E i \in DOMAIN Line(k, t) :
    /\ Line(k, t)[i].op = "call"
    /\ Line(k, t)[i].from = s /\ Line(k, t)[i].id = waiting[s]

\* Somebody has the call that blocks a service, unless its handler was gone.
Waited ==
  \A s \in Services : waiting[s] # 0 =>
    waiting[s] \in lost \/ \E t \in Services \ {s} : HasCall(t, s)

\* The calls whose handler was gone were made, and nobody has one of them.
Unlost ==
  /\ lost \subseteq 1..ids
  /\ \A k \in Kinds, s \in Services : \A i \in DOMAIN Line(k, s) : Line(k, s)[i].id \notin lost

\* A call that is at a service stays there, unless it is the call gone.
CallsStay(gone) ==
  \A k \in Kinds, t \in Services : \A i \in DOMAIN Line(k, t) :
    Line(k, t)[i].op = "call" /\ Line(k, t)[i].id # gone =>
      \E l \in Kinds : \E j \in DOMAIN Line(l, t)' : Line(l, t)'[j] = Line(k, t)[i]

\* Who is not blocked anew, and not by the call gone, still waits.
LEMMA StillWaited ==
  ASSUME Waited, lost \subseteq lost', NEW gone, CallsStay(gone),
         NEW s \in Services, waiting'[s] = waiting[s], waiting[s] # gone, waiting[s] # 0
  PROVE  waiting'[s] \in lost' \/ \E t \in Services \ {s} : HasCall(t, s)'
<1>1. CASE waiting[s] \in lost
  BY <1>1
<1>2. ASSUME NEW t \in Services \ {s}, HasCall(t, s) PROVE HasCall(t, s)'
  <2>1. PICK k \in Kinds :
          \E i \in DOMAIN Line(k, t) :
            /\ Line(k, t)[i].op = "call"
            /\ Line(k, t)[i].from = s /\ Line(k, t)[i].id = waiting[s]
    BY <1>2 DEF HasCall
  <2>2. PICK i \in DOMAIN Line(k, t) :
          /\ Line(k, t)[i].op = "call"
          /\ Line(k, t)[i].from = s /\ Line(k, t)[i].id = waiting[s]
    BY <2>1
  <2>3. PICK l \in Kinds : \E j \in DOMAIN Line(l, t)' : Line(l, t)'[j] = Line(k, t)[i]
    BY <2>2 DEF CallsStay
  <2>4. PICK j \in DOMAIN Line(l, t)' : Line(l, t)'[j] = Line(k, t)[i]
    BY <2>3
  <2>5. QED
    BY <2>2, <2>4 DEF HasCall
<1>3. QED
  BY <1>1, <1>2 DEF Waited

\* Messages that stay where they are, in front of the others.
LEMMA LongerLines ==
  ASSUME \A k \in Kinds, t \in Services : \A i \in DOMAIN Line(k, t) :
           i \in DOMAIN Line(k, t)' /\ Line(k, t)'[i] = Line(k, t)[i]
  PROVE  CallsStay(0)
BY DEF CallsStay

\* What is under way afterwards was so before, or is the call that is made.
LEMMA StillUnlost ==
  ASSUME TypeOK, Unlost, ids' \in Nat, ids <= ids', lost' = lost,
         \A k \in Kinds, s \in Services : \A i \in DOMAIN Line(k, s)' :
           \/ Line(k, s)'[i].id > ids
           \/ \E l \in Kinds, t \in Services : \E j \in DOMAIN Line(l, t) :
                Line(k, s)'[i].id = Line(l, t)[j].id
  PROVE  Unlost'
<1>1. ids \in Nat
  BY DEF TypeOK
<1>2. lost' \subseteq 1..ids'
  BY <1>1 DEF Unlost
<1>3. ASSUME NEW k \in Kinds, NEW s \in Services, NEW i \in DOMAIN Line(k, s)'
      PROVE  Line(k, s)'[i].id \notin lost
  <2> PICK id : id = Line(k, s)'[i].id
    OBVIOUS
  <2>1. CASE id > ids
    <3>1. id \notin 1..ids
      BY <1>1, <2>1
    <3>2. QED
      BY <3>1 DEF Unlost
  <2>2. CASE \E l \in Kinds, t \in Services : \E j \in DOMAIN Line(l, t) : id = Line(l, t)[j].id
    BY <2>2 DEF Unlost
  <2>3. QED
    BY <2>1, <2>2
<1>4. QED
  BY <1>2, <1>3 DEF Unlost

\* A message is put at the end of a line, or nowhere.
LEMMA PutLine ==
  ASSUME TypeOK, NEW k0 \in Kinds, NEW s0 \in Services, NEW m \in Request \union Result,
         m.id = ids + 1, Unlost, lost' = lost, ids' = ids + 1,
         Extended(k0, s0, m) \/ UNCHANGED <<queue, stack>>
  PROVE  CallsStay(0) /\ Unlost'
<1>1. ids \in Nat
  BY DEF TypeOK
<1>2. CASE Extended(k0, s0, m)
  <2>1. Line(k0, s0) \in Seq(Request \union Result)
    BY LineType
  <2>2. \A k \in Kinds, t \in Services : \A i \in DOMAIN Line(k, t) :
          i \in DOMAIN Line(k, t)' /\ Line(k, t)'[i] = Line(k, t)[i]
    BY <1>2, <2>1, Appending DEF Extended
  <2>3. \A k \in Kinds, t \in Services : \A i \in DOMAIN Line(k, t)' :
          \/ Line(k, t)'[i] = m
          \/ i \in DOMAIN Line(k, t) /\ Line(k, t)'[i] = Line(k, t)[i]
    <3> SUFFICES ASSUME NEW k \in Kinds, NEW t \in Services, NEW i \in DOMAIN Line(k, t)'
                 PROVE  \/ Line(k, t)'[i] = m
                        \/ i \in DOMAIN Line(k, t) /\ Line(k, t)'[i] = Line(k, t)[i]
      OBVIOUS
    <3>1. CASE k = k0 /\ t = s0
      <4>1. Line(k, t)' = Append(Line(k, t), m)
        BY <1>2, <3>1 DEF Extended
      <4>2. QED
        BY <2>1, <3>1, <4>1, Appending
    <3>2. CASE ~(k = k0 /\ t = s0)
      BY <1>2, <3>2 DEF Extended
    <3>3. QED
      BY <3>1, <3>2
  <2>4. Unlost'
    <3>1. m.id > ids
      BY <1>1
    <3>2. QED
      BY <1>1, <2>3, <3>1, StillUnlost
  <2>5. QED
    BY <2>2, <2>4, LongerLines
<1>3. CASE UNCHANGED <<queue, stack>>
  <2>1. \A k \in Kinds, t \in Services : Line(k, t)' = Line(k, t)
    BY <1>3 DEF Line
  <2>2. Unlost'
    BY <1>1, <2>1, StillUnlost
  <2>3. QED
    BY <2>1, <2>2, LongerLines
<1>4. QED
  BY <1>2, <1>3

WaitInv == Waited /\ Unlost

\* Nothing moves, and nobody is blocked or goes on.
LEMMA SteadyWait ==
  ASSUME TypeOK, WaitInv, UNCHANGED <<queue, stack, waiting, ids, lost>>
  PROVE  WaitInv'
<1>1. \A k \in Kinds, s \in Services : Line(k, s)' = Line(k, s)
  BY DEF Line
<1>2. Waited'
  BY <1>1 DEF WaitInv, Waited, HasCall
<1>3. Unlost'
  BY <1>1 DEF WaitInv, Unlost
<1>4. QED
  BY <1>2, <1>3 DEF WaitInv

LEMMA CallWait ==
  ASSUME IInv, WaitInv, NEW s \in Services, NEW n \in Names, Call(s, n)
  PROVE  WaitInv'
<1> USE DEF IInv, WaitInv
<1> PICK d : d = reged[n].ios
  OBVIOUS
<1> PICK m : m = [op |-> "call", id |-> ids + 1, from |-> s, name |-> n,
                  index |-> reged[n].handler, callback |-> reged[n].handler]
  OBVIOUS
<1>1. /\ reged[n] # None /\ waiting[s] = 0 /\ ids < MaxCalls /\ ids' = ids + 1 /\ lost' = lost
      /\ \/ /\ d = s /\ stack' = [stack EXCEPT ![s] = Append(@, m)]
            /\ UNCHANGED <<queue, waiting>>
         \/ /\ d # s /\ queue' = [queue EXCEPT ![d] = Append(@, m)]
            /\ waiting' = [waiting EXCEPT ![s] = ids + 1] /\ UNCHANGED stack
  BY DEF Call, Running, Post
<1>2. d \in Services /\ reged[n].handler \in Refs
  BY <1>1 DEF TypeOK, Node
<1>3. ids \in Nat /\ ids + 1 \in Ids
  BY <1>1, RpcAssumption DEF TypeOK, Ids
<1>4. m \in Request /\ m.id = ids + 1 /\ m.op = "call" /\ m.from = s
  BY <1>2, <1>3 DEF Request
<1> PICK k0 \in Kinds : k0 = IF d = s THEN "stack" ELSE "queue"
  BY DEF Kinds
<1>5. Extended(k0, d, m)
  BY <1>1, <1>2 DEF TypeOK, Line, Kinds, Extended
<1>6. CallsStay(0) /\ Unlost'
  BY <1>1, <1>2, <1>4, <1>5, PutLine
<1>7. ASSUME NEW u \in Services, waiting'[u] # 0
      PROVE  waiting'[u] \in lost' \/ \E t \in Services \ {u} : HasCall(t, u)'
  <2>1. CASE waiting'[u] = waiting[u]
    BY <1>1, <1>6, <1>7, <2>1, StillWaited
  <2>2. CASE waiting'[u] # waiting[u]
    <3>1. u = s /\ d # s /\ waiting'[u] = ids + 1
      BY <1>1, <2>2 DEF TypeOK
    <3>2. Line(k0, d) \in Seq(Request \union Result) /\ Line(k0, d)' = Append(Line(k0, d), m)
      BY <1>2, <1>5, LineType DEF Extended
    <3>3. \E j \in DOMAIN Line(k0, d)' : Line(k0, d)'[j] = m
      BY <1>4, <3>2, Appending
    <3>4. HasCall(d, u)'
      BY <1>4, <3>1, <3>3 DEF HasCall
    <3>5. QED
      BY <1>2, <3>1, <3>4
  <2>3. QED
    BY <2>1, <2>2
<1>8. QED
  BY <1>6, <1>7 DEF Waited

LEMMA InvokeWait ==
  ASSUME IInv, WaitInv, NEW s \in Services, NEW n \in Names, Invoke(s, n)
  PROVE  WaitInv'
<1> USE DEF IInv, WaitInv
<1> PICK r \in Refs :
      IF reged[n] = None
      THEN UNCHANGED queue
      ELSE Post(reged[n].ios,
                [op |-> "invoke", id |-> ids + 1, from |-> s, name |-> n,
                 index |-> reged[n].handler, callback |-> r])
  BY DEF Invoke
<1>1. /\ ids < MaxCalls /\ ids' = ids + 1
      /\ UNCHANGED <<stack, waiting, lost>>
  BY DEF Invoke
<1>2. ids \in Nat /\ ids + 1 \in Ids
  BY <1>1, RpcAssumption DEF TypeOK, Ids
<1>3. CallsStay(0) /\ Unlost'
  <2>1. CASE reged[n] = None
    <3>1. UNCHANGED <<queue, stack>>
      BY <1>1, <2>1
    <3>2. \A k \in Kinds, t \in Services : Line(k, t)' = Line(k, t)
      BY <3>1 DEF Line
    <3>3. Unlost'
      BY <1>1, <1>2, <3>2, StillUnlost
    <3>4. QED
      BY <3>2, <3>3, LongerLines
  <2>2. CASE reged[n] # None
    <3> PICK d \in Services : d = reged[n].ios
      BY <2>2 DEF TypeOK, Node
    <3> PICK m : m = [op |-> "invoke", id |-> ids + 1, from |-> s, name |-> n,
                      index |-> reged[n].handler, callback |-> r]
      OBVIOUS
    <3>1. m \in Request /\ m.id = ids + 1
      BY <1>2, <2>2 DEF Request, TypeOK, Node
    <3>2. queue' = [queue EXCEPT ![d] = Append(@, m)]
      BY <2>2 DEF Post
    <3>3. "queue" \in Kinds /\ Extended("queue", d, m)
      BY <1>1, <3>2 DEF TypeOK, Line, Kinds, Extended
    <3>4. QED
      BY <1>1, <3>1, <3>3, PutLine
  <2>3. QED
    BY <2>1, <2>2
<1>4. ASSUME NEW u \in Services, waiting'[u] # 0
      PROVE  waiting'[u] \in lost' \/ \E t \in Services \ {u} : HasCall(t, u)'
  BY <1>1, <1>3, <1>4, StillWaited
<1>5. QED
  BY <1>3, <1>4 DEF Waited

\* What is under way at a service after the step was there before, and is not the first
\* message of the queue of s if no stack changes.
WasThere(s) ==
  \A k \in Kinds, t \in Services : \A i \in DOMAIN Line(k, t)' :
    \E l \in Kinds : \E j \in DOMAIN Line(l, t) :
      /\ Line(k, t)'[i] = Line(l, t)[j]
      /\ stack' = stack => ~(l = "queue" /\ t = s /\ j = 1)

\* The first message of a queue is taken: what is behind it stays, and so does what is
\* on the stacks.
LEMMA TakenStay ==
  ASSUME TypeOK, Apart, NEW s \in Services, queue[s] # <<>>,
         queue' = [queue EXCEPT ![s] = Tail(@)],
         \/ stack' = stack
         \/ stack[s] = <<>> /\ stack' = [stack EXCEPT ![s] = <<Head(queue[s])>>]
  PROVE  /\ CallsStay(Head(queue[s]).id)
         /\ stack' # stack \/ Head(queue[s]).op # "call" => CallsStay(0)
         /\ WasThere(s)
<1> PICK x : x = Head(queue[s])
  OBVIOUS
<1> PICK q : q = queue[s]
  OBVIOUS
<1>1. /\ q \in Seq(Request \union Result) /\ Len(q) \in Nat \ {0} /\ DOMAIN q = 1..Len(q)
      /\ x = q[1] /\ DOMAIN Tail(q) = 1..Len(q) - 1
      /\ \A i \in 1..Len(q) - 1 : Tail(q)[i] = q[i + 1]
  <2>1. q \in Seq(Request \union Result) /\ q # <<>>
    BY DEF TypeOK
  <2>2. Len(q) \in Nat \ {0} /\ DOMAIN q = 1..Len(q)
    BY <2>1, LenProperties, EmptySeq
  <2>3. DOMAIN Tail(q) = 1..Len(q) - 1 /\ \A i \in 1..Len(q) - 1 : Tail(q)[i] = q[i + 1]
    BY <2>1, <2>2, HeadTailProperties, LenProperties
  <2>4. QED
    BY <2>1, <2>2, <2>3, HeadTailProperties
<1>2. /\ "queue" \in Kinds /\ "stack" \in Kinds
      /\ Line("queue", s) = q /\ Line("queue", s)' = Tail(q)
      /\ Line("stack", s) = stack[s] /\ Line("stack", s)' = stack'[s]
      /\ stack[s] # stack'[s] => stack[s] = <<>> /\ stack'[s] = <<x>>
      /\ \A k \in Kinds, t \in Services : t # s => Line(k, t)' = Line(k, t)
  BY DEF TypeOK, Line, Kinds
<1>3. \A k \in Kinds, t \in Services : \A i \in DOMAIN Line(k, t) :
        \/ k = "queue" /\ t = s /\ i = 1 /\ Line(k, t)[i] = x
        \/ \E j \in DOMAIN Line(k, t)' : Line(k, t)'[j] = Line(k, t)[i]
  <2> SUFFICES ASSUME NEW k \in Kinds, NEW t \in Services, NEW i \in DOMAIN Line(k, t)
               PROVE  \/ k = "queue" /\ t = s /\ i = 1 /\ Line(k, t)[i] = x
                      \/ \E j \in DOMAIN Line(k, t)' : Line(k, t)'[j] = Line(k, t)[i]
    OBVIOUS
  <2>1. CASE t # s
    BY <1>2, <2>1
  <2>2. CASE t = s /\ k = "queue"
    <3>1. i \in 1..Len(q)
      BY <1>1, <1>2, <2>2
    <3>2. CASE i = 1
      BY <1>1, <1>2, <2>2, <3>2
    <3>3. CASE i # 1
      <4>1. i - 1 \in 1..Len(q) - 1 /\ (i - 1) + 1 = i
        BY <1>1, <3>1, <3>3
      <4>2. i - 1 \in DOMAIN Tail(q) /\ Tail(q)[i - 1] = q[i]
        BY <1>1, <4>1
      <4>3. QED
        BY <1>2, <2>2, <4>2
    <3>4. QED
      BY <3>2, <3>3
  <2>3. CASE t = s /\ k = "stack"
    <3>1. CASE stack[s] = stack'[s]
      BY <1>2, <2>3, <3>1
    <3>2. CASE stack[s] = <<>>
      BY <1>2, <2>3, <3>2
    <3>3. QED
      BY <1>2, <3>1, <3>2
  <2>4. QED
    BY <2>1, <2>2, <2>3 DEF Kinds
<1>4. CallsStay(x.id)
  BY <1>3 DEF CallsStay
<1>5. ASSUME stack' # stack PROVE CallsStay(0)
  <2>1. stack'[s] = <<x>>
    BY <1>5 DEF TypeOK
  <2>2. \E j \in DOMAIN Line("stack", s)' : Line("stack", s)'[j] = x
    BY <1>2, <2>1
  <2>3. QED
    BY <1>2, <1>3, <2>2 DEF CallsStay
<1>6. ASSUME x.op # "call" PROVE CallsStay(0)
  BY <1>3, <1>6 DEF CallsStay
<1>7. ASSUME NEW k \in Kinds, NEW t \in Services, NEW i \in DOMAIN Line(k, t)'
      PROVE  \E l \in Kinds : \E j \in DOMAIN Line(l, t) :
               /\ Line(k, t)'[i] = Line(l, t)[j]
               /\ stack' = stack => ~(l = "queue" /\ t = s /\ j = 1)
  <2>1. CASE t # s
    BY <1>2, <2>1
  <2>2. CASE t = s /\ k = "queue"
    <3>1. i \in 1..Len(q) - 1 /\ Line(k, t)'[i] = q[i + 1]
      BY <1>1, <1>2, <2>2
    <3>2. i + 1 \in DOMAIN q /\ i + 1 # 1
      BY <1>1, <3>1
    <3>3. QED
      BY <1>2, <2>2, <3>1, <3>2
  <2>3. CASE t = s /\ k = "stack"
    <3>1. CASE stack[s] = stack'[s]
      BY <1>2, <2>3, <3>1
    <3>2. CASE stack[s] # stack'[s] /\ stack'[s] = <<x>>
      <4>1. Line(k, t)'[i] = x /\ 1 \in DOMAIN q
        BY <1>1, <1>2, <2>3, <3>2
      <4>2. stack' # stack
        BY <3>2
      <4>3. QED
        BY <1>1, <1>2, <2>3, <4>1, <4>2
    <3>3. QED
      BY <1>2, <3>1, <3>2
  <2>4. QED
    BY <2>1, <2>2, <2>3 DEF Kinds
<1>8. WasThere(s)
  BY <1>7 DEF WasThere
<1>9. QED
  BY <1>4, <1>5, <1>6, <1>8

LEMMA RunRequestWait ==
  ASSUME IInv, WaitInv, NEW s \in Services, RunRequest(s)
  PROVE  WaitInv'
<1> USE DEF IInv, WaitInv
<1>1. /\ UNCHANGED <<waiting, ids, lost>>
      /\ queue[s] # <<>> /\ stack[s] = <<>>
      /\ stack' = [stack EXCEPT ![s] = <<Head(queue[s])>>]
      /\ queue' = [queue EXCEPT ![s] = Tail(@)]
  BY DEF RunRequest, Waits
<1>2. stack' # stack
  BY <1>1 DEF TypeOK
<1>3. CallsStay(0)
  BY <1>1, <1>2, TakenStay
<1>4. WasThere(s)
  BY <1>1, TakenStay
<1>5. Unlost'
  <2>1. ids \in Nat /\ ids' = ids
    BY <1>1 DEF TypeOK
  <2>2. QED
    BY <1>1, <1>4, <2>1, StillUnlost DEF WasThere
<1>6. Waited'
  BY <1>1, <1>3, StillWaited DEF Waited
<1>7. QED
  BY <1>5, <1>6

\* The caller of a handler that is gone is not forgotten: its call is among the lost ones.
LEMMA RunMissingWait ==
  ASSUME IInv, WaitInv, NEW s \in Services, RunMissing(s)
  PROVE  WaitInv'
<1> USE DEF IInv, WaitInv
<1> PICK m : m = Head(queue[s])
  OBVIOUS
<1>1. /\ UNCHANGED <<waiting, stack, ids>>
      /\ queue[s] # <<>> /\ queue' = [queue EXCEPT ![s] = Tail(@)]
      /\ lost' = lost \union {m.id}
  BY DEF RunMissing, Waits
<1>2. /\ "queue" \in Kinds /\ Line("queue", s) = queue[s]
      /\ 1 \in DOMAIN queue[s] /\ m = queue[s][1] /\ m \in Request \union Result
  BY <1>1, Dropping DEF TypeOK, Kinds, Line
<1>3. CallsStay(m.id)
  BY <1>1, TakenStay
<1>4. WasThere(s)
  BY <1>1, TakenStay
<1>5. \A k \in Kinds, t \in Services : \A i \in DOMAIN Line(k, t)' : Line(k, t)'[i].id \notin lost'
  <2> SUFFICES ASSUME NEW k \in Kinds, NEW t \in Services, NEW i \in DOMAIN Line(k, t)'
               PROVE  Line(k, t)'[i].id \notin lost'
    OBVIOUS
  <2>1. PICK l \in Kinds : \E j \in DOMAIN Line(l, t) :
          Line(k, t)'[i] = Line(l, t)[j] /\ ~(l = "queue" /\ t = s /\ j = 1)
    BY <1>1, <1>4 DEF WasThere
  <2>2. PICK j \in DOMAIN Line(l, t) :
          Line(k, t)'[i] = Line(l, t)[j] /\ ~(l = "queue" /\ t = s /\ j = 1)
    BY <2>1
  <2>3. Line(l, t)[j].id \notin lost
    BY DEF Unlost
  <2>4. Line(l, t)[j].id # m.id
    BY <1>2, <2>2 DEF Apart
  <2>5. QED
    BY <1>1, <2>2, <2>3, <2>4
<1>6. lost' \subseteq 1..ids'
  <2>1. m.id <= ids
    BY <1>2 DEF AllPending, Pending
  <2>2. m.id \in Nat \ {0} /\ ids \in Nat
    BY <1>2, RpcAssumption DEF Request, Result, Ids, TypeOK
  <2>3. m.id \in 1..ids /\ lost \subseteq 1..ids
    BY <2>1, <2>2 DEF Unlost
  <2>4. QED
    BY <1>1, <2>3
<1>7. ASSUME NEW u \in Services, waiting'[u] # 0
      PROVE  waiting'[u] \in lost' \/ \E t \in Services \ {u} : HasCall(t, u)'
  BY <1>1, <1>3, <1>7, StillWaited
<1>8. QED
  BY <1>5, <1>6, <1>7 DEF Waited, Unlost

LEMMA RunResultWait ==
  ASSUME IInv, WaitInv, NEW s \in Services, RunResult(s)
  PROVE  WaitInv'
<1> USE DEF IInv, WaitInv
<1>1. /\ UNCHANGED <<waiting, stack, ids, lost>>
      /\ queue[s] # <<>> /\ queue' = [queue EXCEPT ![s] = Tail(@)]
      /\ Head(queue[s]).op # "call"
  BY DEF RunResult, Waits
<1>2. CallsStay(0)
  BY <1>1, TakenStay
<1>3. WasThere(s)
  BY <1>1, TakenStay
<1>4. Unlost'
  <2>1. ids \in Nat /\ ids' = ids
    BY <1>1 DEF TypeOK
  <2>2. QED
    BY <1>1, <1>3, <2>1, StillUnlost DEF WasThere
<1>5. Waited'
  BY <1>1, <1>2, StillWaited DEF Waited
<1>6. QED
  BY <1>4, <1>5

\* Who is blocked by the call of the innermost handler of s is its caller, another
\* service, and waits for no one else.
LEMMA WhoWaits ==
  ASSUME IInv, WaitInv, NEW s \in Services, stack[s] # <<>>,
         NEW m, m = stack[s][Len(stack[s])],
         NEW u \in Services, waiting[u] = m.id
  PROVE  m.op = "call" /\ m.from = u /\ u # s /\ m.id \notin lost
<1> USE DEF IInv, WaitInv
<1>1. /\ "stack" \in Kinds /\ Line("stack", s) = stack[s]
      /\ Len(stack[s]) \in DOMAIN stack[s] /\ m \in Request
  BY Popping DEF TypeOK, Kinds, Line
<1>2. m.id \notin lost
  BY <1>1 DEF Unlost
<1>3. m.id # 0
  BY <1>1, RpcAssumption DEF Request, Ids
<1>4. PICK t \in Services \ {u} : HasCall(t, u)
  BY <1>2, <1>3 DEF Waited
<1>5. PICK k \in Kinds : \E i \in DOMAIN Line(k, t) :
        /\ Line(k, t)[i].op = "call"
        /\ Line(k, t)[i].from = u /\ Line(k, t)[i].id = waiting[u]
  BY <1>4 DEF HasCall
<1>6. PICK i \in DOMAIN Line(k, t) :
        /\ Line(k, t)[i].op = "call"
        /\ Line(k, t)[i].from = u /\ Line(k, t)[i].id = waiting[u]
  BY <1>5
<1>7. k = "stack" /\ t = s /\ i = Len(stack[s])
  BY <1>1, <1>6 DEF Apart
<1>8. QED
  BY <1>1, <1>2, <1>6, <1>7

LEMMA ReturnWait ==
  ASSUME IInv, WaitInv, NEW s \in Services, NEW ok \in BOOLEAN, NEW values \in Values,
         Return(s, ok, values)
  PROVE  WaitInv'
<1> USE DEF IInv, WaitInv
<1> PICK m : m = stack[s][Len(stack[s])]
  OBVIOUS
<1> PICK x : x = [op |-> "result", id |-> m.id, from |-> s,
                  callback |-> m.callback, answer |-> <<ok>> \o Appended(values, 1, 0)]
  OBVIOUS
<1>1. /\ UNCHANGED <<ids, lost>>
      /\ stack[s] # <<>> /\ stack' = [stack EXCEPT ![s] = Popped(s)]
      /\ \/ /\ m.op = "call" /\ UNCHANGED queue
            /\ waiting' = Resumed(s, m)
         \/ /\ m.op # "call" /\ Post(m.from, x) /\ UNCHANGED waiting
  BY DEF Return
<1>2. /\ "stack" \in Kinds /\ Line("stack", s) = stack[s]
      /\ "queue" \in Kinds /\ Line("queue", m.from) = queue[m.from]
      /\ Len(stack[s]) \in DOMAIN stack[s] /\ m \in Request
  BY <1>1, Popping DEF TypeOK, Kinds, Line
<1>3. m.id \in Ids /\ m.from \in Services /\ x.id = m.id /\ x \in Result
  <2>1. m.id \in Ids /\ m.from \in Services /\ m.callback \in Refs
    BY <1>2 DEF Request
  <2>2. QED
    BY <2>1, NothingAppended DEF Result
<1>4. \A k \in Kinds, t \in Services :
        /\ k = "stack" /\ t = s =>
             Line(k, t) = stack[s] /\ Line(k, t)' = SubSeq(stack[s], 1, Len(stack[s]) - 1)
        /\ ~(k = "stack" /\ t = s) =>
             Line(k, t)' = Line(k, t) \/ Line(k, t)' = Append(Line(k, t), x)
  <2>1. \A t \in Services : queue'[t] = queue[t] \/ queue'[t] = Append(queue[t], x)
    <3>1. queue' = queue \/ queue' = [queue EXCEPT ![m.from] = Append(@, x)]
      BY <1>1 DEF Post
    <3>2. QED
      BY <1>3, <3>1 DEF TypeOK
  <2>2. /\ stack'[s] = SubSeq(stack[s], 1, Len(stack[s]) - 1)
        /\ \A t \in Services \ {s} : stack'[t] = stack[t]
    BY <1>1 DEF TypeOK, Popped
  <2>3. QED
    BY <2>1, <2>2 DEF Line, Kinds
<1>5. CallsStay(m.id)
  <2> SUFFICES ASSUME NEW k \in Kinds, NEW t \in Services, NEW i \in DOMAIN Line(k, t),
                      Line(k, t)[i].id # m.id
               PROVE  \E j \in DOMAIN Line(k, t)' : Line(k, t)'[j] = Line(k, t)[i]
    BY DEF CallsStay
  <2>1. CASE k = "stack" /\ t = s
    <3>1. /\ Len(stack[s]) \in Nat \ {0} /\ DOMAIN stack[s] = 1..Len(stack[s])
          /\ stack[s] \in Seq(Request)
      BY <1>1, LenProperties, EmptySeq DEF TypeOK
    <3>2. i \in 1..Len(stack[s]) - 1
      BY <1>4, <2>1, <3>1
    <3>3. /\ i \in DOMAIN SubSeq(stack[s], 1, Len(stack[s]) - 1)
          /\ SubSeq(stack[s], 1, Len(stack[s]) - 1)[i] = stack[s][i]
      BY <3>1, <3>2, SubSeqProperties, LenProperties
    <3>4. QED
      BY <1>4, <2>1, <3>3
  <2>2. CASE ~(k = "stack" /\ t = s)
    <3>1. Line(k, t) \in Seq(Request \union Result)
      BY LineType
    <3>2. i \in DOMAIN Append(Line(k, t), x) /\ Append(Line(k, t), x)[i] = Line(k, t)[i]
      BY <1>3, <3>1, Appending
    <3>3. QED
      BY <1>4, <2>2, <3>2
  <2>3. QED
    BY <2>1, <2>2
<1>6. \A k \in Kinds, t \in Services : \A i \in DOMAIN Line(k, t)' :
        \E l \in Kinds, u \in Services : \E j \in DOMAIN Line(l, u) :
          Line(k, t)'[i].id = Line(l, u)[j].id
  <2> SUFFICES ASSUME NEW k \in Kinds, NEW t \in Services, NEW i \in DOMAIN Line(k, t)'
               PROVE  \E l \in Kinds, u \in Services : \E j \in DOMAIN Line(l, u) :
                        Line(k, t)'[i].id = Line(l, u)[j].id
    OBVIOUS
  <2>1. CASE k = "stack" /\ t = s
    <3>1. stack[s] \in Seq(Request) /\ Line(k, t)' = SubSeq(stack[s], 1, Len(stack[s]) - 1)
      BY <1>4, <2>1 DEF TypeOK
    <3>2. i \in DOMAIN stack[s] /\ Line(k, t)'[i] = stack[s][i]
      BY <1>1, <3>1, Popping
    <3>3. QED
      BY <1>2, <3>2
  <2>2. CASE ~(k = "stack" /\ t = s) /\ Line(k, t)'[i] # x
    <3>1. Line(k, t) \in Seq(Request \union Result)
      BY LineType
    <3>2. i \in DOMAIN Line(k, t) /\ Line(k, t)'[i] = Line(k, t)[i]
      <4>1. CASE Line(k, t)' = Line(k, t)
        BY <4>1
      <4>2. CASE Line(k, t)' = Append(Line(k, t), x)
        <5>1. x \in Request \union Result
          BY <1>3
        <5>2. i \in DOMAIN Line(k, t) \union {Len(Line(k, t)) + 1}
              /\ (i = Len(Line(k, t)) + 1 => Append(Line(k, t), x)[i] = x)
          BY <3>1, <4>2, <5>1, Appending
        <5>3. QED
          BY <2>2, <3>1, <4>2, <5>1, <5>2, Appending
      <4>3. QED
        BY <1>4, <2>2, <4>1, <4>2
    <3>3. QED
      BY <3>2
  <2>3. CASE Line(k, t)'[i] = x
    BY <1>2, <1>3, <2>3
  <2>4. QED
    BY <2>1, <2>2, <2>3
<1>7. Unlost'
  <2>1. ids \in Nat /\ ids' = ids
    BY <1>1 DEF TypeOK
  <2>2. QED
    BY <1>1, <1>6, <2>1, StillUnlost
<1>8. ASSUME NEW u \in Services, waiting'[u] # 0
      PROVE  waiting'[u] \in lost' \/ \E t \in Services \ {u} : HasCall(t, u)'
  <2>1. waiting'[u] = waiting[u] /\ (m.op = "call" /\ m.from # s => u # m.from)
    BY <1>1, <1>3, <1>8 DEF Resumed, TypeOK
  <2>2. waiting[u] # m.id
    BY <1>1, <2>1, WhoWaits
  <2>3. QED
    BY <1>1, <1>5, <1>8, <2>1, <2>2, StillWaited
<1>9. QED
  BY <1>7, <1>8 DEF Waited

-----------------------------------------------------------------------------
\* Every step keeps account of who waits.
LEMMA NextWait ==
  ASSUME IInv, WaitInv, [Next]_vars
  PROVE  WaitInv'
<1> USE DEF IInv
<1>1. CASE UNCHANGED vars
  BY <1>1, SteadyWait DEF vars
<1>2. ASSUME NEW s \in Services, NEW n \in Names, Register(s, n) \/ Cancel(s, n)
      PROVE  WaitInv'
  BY <1>2, SteadyWait DEF Register, Cancel
<1>3. ASSUME NEW s \in Services, NEW n \in Names, Call(s, n) PROVE WaitInv'
  BY <1>3, CallWait
<1>4. ASSUME NEW s \in Services, NEW n \in Names, Invoke(s, n) PROVE WaitInv'
  BY <1>4, InvokeWait
<1>5. ASSUME NEW s \in Services, RunRequest(s) PROVE WaitInv'
  BY <1>5, RunRequestWait
<1>6. ASSUME NEW s \in Services, RunMissing(s) PROVE WaitInv'
  BY <1>6, RunMissingWait
<1>7. ASSUME NEW s \in Services, RunResult(s) PROVE WaitInv'
  BY <1>7, RunResultWait
<1>8. ASSUME NEW s \in Services, Returns(s) PROVE WaitInv'
  BY <1>8, ReturnWait DEF Returns
<1>9. ASSUME NEW s \in Services, Exit(s) PROVE WaitInv'
  BY <1>9, SteadyWait DEF Exit
<1>10. QED
  BY <1>1, <1>2, <1>3, <1>4, <1>5, <1>6, <1>7, <1>8, <1>9 DEF Next

LEMMA WaitInvariance == Spec => [](IInv /\ WaitInv)
<1>1. Init => WaitInv
  <2> SUFFICES ASSUME Init PROVE WaitInv
    OBVIOUS
  <2>1. \A s \in Services : waiting[s] = 0
    BY DEF Init
  <2>2. \A k \in Kinds, s \in Services : DOMAIN Line(k, s) = {}
    <3>1. \A k \in Kinds, s \in Services : Line(k, s) = <<>>
      BY DEF Init, Line
    <3>2. QED
      BY <3>1
  <2>3. lost = {}
    BY DEF Init
  <2>4. QED
    BY <2>1, <2>2, <2>3 DEF WaitInv, Waited, Unlost
<1>2. IInv /\ WaitInv /\ [Next]_vars => WaitInv'
  BY NextWait
<1>3. QED
  BY <1>1, <1>2, Invariance, PTL DEF Spec

\* s is not blocked and has a handler to return from or a message to run: one of
\* RunRequest, RunMissing, RunResult and Returns is enabled.
CanGoOn(s) == Running(s) /\ (stack[s] # <<>> \/ (s \in alive /\ queue[s] # <<>>))

\* A blocked service that is not excused waits for one that has its call and can go on.
NobodyForgotten ==
  \A s \in Services :
    waiting[s] # 0 => Excused(s) \/ \E t \in Services \ {s} : HasCall(t, s) /\ CanGoOn(t)

\* What of "os.rpcall returns" is safety: no call is ever forgotten.  At every moment
\* somebody has the call that blocks a service and can go on with it, unless its handler
\* was gone, or who has it is blocked in turn or was stopped before it began to run it
\* (luaos_rpcall.cpp).
THEOREM NobodyForgottenAlways == Spec => []NobodyForgotten
<1>1. IInv /\ WaitInv => NobodyForgotten
  <2> SUFFICES ASSUME IInv, WaitInv, NEW s \in Services, waiting[s] # 0, ~Excused(s)
               PROVE  \E t \in Services \ {s} : HasCall(t, s) /\ CanGoOn(t)
    BY DEF NobodyForgotten
  <2>1. PICK t \in Services \ {s} : HasCall(t, s)
    BY DEF WaitInv, Waited, Excused
  <2>2. CASE \E i \in DOMAIN queue[t] : queue[t][i].id = waiting[s]
    <3>1. t \in alive /\ waiting[t] = 0
      BY <2>2 DEF Excused
    <3>2. queue[t] # <<>>
      BY <2>2
    <3>3. QED
      BY <2>1, <3>1, <3>2 DEF CanGoOn, Running
  <2>3. CASE \E i \in DOMAIN stack[t] : stack[t][i].id = waiting[s]
    <3>1. waiting[t] = 0
      BY <2>3 DEF Excused
    <3>2. stack[t] # <<>>
      BY <2>3
    <3>3. QED
      BY <2>1, <3>1, <3>2 DEF CanGoOn, Running
  <2>4. QED
    BY <2>1, <2>2, <2>3 DEF HasCall, Line
<1>2. QED
  BY <1>1, WaitInvariance, PTL

\* A service whose call was lost stays blocked by it, and runs nothing any more.
LostForEver ==
  [][\A s \in Services :
       waiting[s] \in lost =>
         /\ waiting'[s] = waiting[s] /\ waiting'[s] \in lost'
         /\ stack'[s] = stack[s] /\ (s \in alive => s \in alive')]_vars

\* When the function of a call has been cancelled before the call is run, its caller is
\* blocked for ever: nothing that anybody does afterwards wakes it up
\* (luaos_rpcall.cpp, luaos_pcall raises in the callee before ios->stop).
THEOREM LostForEverAlways == Spec => LostForEver
<1>1. ASSUME IInv, WaitInv, [Next]_vars, NEW s \in Services, waiting[s] \in lost
      PROVE  /\ waiting'[s] = waiting[s] /\ waiting'[s] \in lost'
             /\ stack'[s] = stack[s] /\ (s \in alive => s \in alive')
  <2> USE <1>1 DEF IInv
  <2> DEFINE Still == /\ waiting'[s] = waiting[s] /\ stack'[s] = stack[s] /\ lost \subseteq lost'
                      /\ s \in alive => s \in alive'
  <2>1. waiting[s] # 0 /\ ~Running(s)
    BY RpcAssumption DEF TypeOK, Ids, Running
  <2>2. ASSUME NEW t \in Services, RunMissing(t)
        PROVE  Still
    <3>1. t # s
      BY <2>1, <2>2 DEF RunMissing, Waits
    <3>2. QED
      BY <2>2, <3>1 DEF RunMissing
  <2>3. ASSUME NEW t \in Services, RunRequest(t) \/ RunResult(t) \/ Exit(t)
        PROVE  Still
    BY <2>1, <2>3 DEF RunRequest, RunResult, Exit, Waits, TypeOK
  <2>4. ASSUME NEW t \in Services, NEW n \in Names,
               Register(t, n) \/ Cancel(t, n) \/ Call(t, n) \/ Invoke(t, n)
        PROVE  Still
    BY <2>1, <2>4 DEF Register, Cancel, Call, Invoke, TypeOK
  <2>5. ASSUME NEW t \in Services, NEW ok \in BOOLEAN, NEW values \in Values,
               Return(t, ok, values)
        PROVE  Still
    <3> PICK m : m = stack[t][Len(stack[t])]
      OBVIOUS
    <3>1. /\ t # s /\ stack[t] # <<>> /\ alive' = alive /\ lost' = lost
          /\ stack' = [stack EXCEPT ![t] = Popped(t)]
          /\ waiting' = waiting \/ (m.op = "call" /\ waiting' = Resumed(t, m))
      BY <2>1, <2>5 DEF Return
    <3>2. m \in Request /\ m.op = "call" => m.from = t \/ waiting[m.from] = m.id
      <4>1. /\ "stack" \in Kinds /\ Line("stack", t) = stack[t]
            /\ Len(stack[t]) \in DOMAIN stack[t]
        BY <3>1, Popping DEF TypeOK, Kinds, Line
      <4>2. QED
        BY <4>1 DEF AllPending, Pending
    <3>3. m \in Request
      BY <3>1, Popping DEF TypeOK
    <3>4. waiting[s] # m.id
      BY <3>1, WhoWaits
    <3>5. waiting'[s] = waiting[s]
      BY <3>1, <3>2, <3>3, <3>4 DEF Resumed, TypeOK, Request
    <3>6. QED
      BY <3>1, <3>5 DEF TypeOK
  <2>6. ASSUME UNCHANGED vars PROVE Still
    BY <2>6 DEF vars
  <2>7. Still => waiting'[s] \in lost'
    OBVIOUS
  <2> HIDE DEF Still
  <2>8. Still
    BY <2>2, <2>3, <2>4, <2>5, <2>6 DEF Next, Returns
  <2>9. QED
    BY <2>7, <2>8 DEF Still
<1>2. IInv /\ WaitInv /\ [Next]_vars
        => [\A s \in Services :
              waiting[s] \in lost =>
                /\ waiting'[s] = waiting[s] /\ waiting'[s] \in lost'
                /\ stack'[s] = stack[s] /\ (s \in alive => s \in alive')]_vars
  BY <1>1
<1>3. QED
  BY <1>2, WaitInvariance, PTL DEF Spec, LostForEver
=============================================================================
