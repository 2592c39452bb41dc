--------------------------- MODULE ClusterProofs ---------------------------
(***************************************************************************)
(* How subscriptions become known in a cluster, for any sets of processes, *)
(* topics and connections.                                                 *)
(*                                                                         *)
(* SessionExact speaks of the last message that is under way, so the proof *)
(* needs that a proxy never sends a subscription to a session that has it  *)
(* (Announced).  CountExact needs that the master takes every subscription *)
(* it receives for a new one (Announced again), and that a proxy is never  *)
(* told of the end of what it has not counted, because its count does not  *)
(* fall below 0 (NeverBelow).  The bound of local_topics in TypeOK needs   *)
(* that the notes of the bus never speak of more subscriptions than there  *)
(* were (Counted).                                                         *)
(*                                                                         *)
(* The parts: words about queues of messages, one lemma per part of the    *)
(* invariant, one step per action in each, and the theorems at the end.    *)
(*                                                                         *)
(* What they say of a moment when nothing is under way is QuietAgrees.     *)
(***************************************************************************)
EXTENDS Cluster, SequenceTheorems, FunctionTheorems, FiniteSetTheorems, TLAPS

-----------------------------------------------------------------------------
(* The inductive invariant. *)

\* A connection that was not made carries nothing, and the master knows nothing of
\* one it has not accepted; it forgets only those that are broken.
Links ==
  /\ \A c \in Conns : owner[c] = None =>
       up[c] = <<>> /\ c \notin accepted /\ c \notin broken /\ c \notin reading
  /\ \A c \in Conns \ accepted : c \notin sessions /\ topics[c] = {} /\ down[c] = <<>>
  /\ \A c \in accepted \ sessions : c \in broken
  /\ \A p \in Procs : peer[p] # None => owner[peer[p]] = p
  /\ IsFiniteSet(sessions)
  /\ IsFiniteSet(UNION {topics[c] : c \in Conns})

\* A proxy that was never started watches nothing and has counted nothing.
Unstarted ==
  \A p \in Procs :
    /\ Made(p) = {} => watched[p] = {} /\ \A t \in Topics : remote_topics[p][t] = 0
    /\ \A t \in Topics \ watched[p] : Silent(notes[p], t) /\ local_topics[p][t] = 0

\* How often m is among the first k messages of q.
Upto(q, m, k) == Cardinality({i \in DOMAIN q : i <= k /\ q[i] = m})

\* The subscriptions to t when the k-th message of q was sent, if there are n after
\* all of q.
Before(n, q, t, k) ==
  n + (Copies(q, Cancel(t)) - Upto(q, Cancel(t), k))
    - (Copies(q, Subscribe(t)) - Upto(q, Subscribe(t), k))

\* There never were too many, and l is no more than there were before q.
WithinCount(n, q, t, l) ==
  /\ \A k \in 0..Len(q) : Before(n, q, t, k) \in 0..MaxSubs
  /\ l <= Before(n, q, t, 0)

\* The proxy counts no more subscriptions than there were when it was posted the
\* first of its notes.
Counted ==
  \A p \in Procs, t \in Topics :
    WithinCount(subs[p][t], notes[p], t, local_topics[p][t])

\* q subscribes to t only when what was before it left it out of known.
Alternates(q, t, known) ==
  \A i \in DOMAIN q :
    q[i] = Subscribe(t) =>
      \/ \E j \in DOMAIN q : /\ j < i /\ q[j] = Cancel(t)
                             /\ \A k \in DOMAIN q : j < k /\ k < i => q[k].topic # t
      \/ t \notin known /\ \A j \in DOMAIN q : j < i => q[j].topic # t

\* After q it is out of known.
Ready(q, t, known) == Ends(q, t, Cancel(t)) \/ (Silent(q, t) /\ t \notin known)

\* A session subscribes only to what it is not subscribed to, and its proxy is
\* ready to subscribe to what it counts no subscriptions of.
Announced ==
  /\ \A c \in Conns, t \in Topics : Alternates(up[c], t, topics[c])
  /\ \A p \in Procs, t \in Topics :
       Linked(p) /\ local_topics[p][t] = 0 => Ready(up[peer[p]], t, topics[peer[p]])

\* After q the topic t is in known if n is not 0.
Exact(q, t, known, n) ==
  IF Silent(q, t)
  THEN t \in known <=> n > 0
  ELSE Ends(q, t, IF n > 0 THEN Subscribe(t) ELSE Cancel(t))

\* At no point of q has t been cancelled oftener than subscribed to, r included.
Below(q, t, r) ==
  \A k \in 0..Len(q) : Upto(q, Cancel(t), k) <= r + Upto(q, Subscribe(t), k)

\* A proxy on its first connection is never told of a cancel before the
\* subscription it ends; before the master accepts it, it is told nothing.
NeverBelow ==
  \A p \in Procs, t \in Topics :
    First(p) => /\ peer[p] \notin accepted => remote_topics[p][t] = 0
                /\ peer[p] \in sessions => Below(down[peer[p]], t, remote_topics[p][t])

IInv ==
  /\ TypeOK /\ Links /\ Unstarted /\ Counted /\ Announced /\ SessionExact
  /\ NeverBelow /\ CountExact
-----------------------------------------------------------------------------
(* What the queues' operators do. *)

\* A queue is a function on the interval of its length.
LEMMA QueueShape ==
  ASSUME NEW q \in Seq(Message)
  PROVE  /\ Len(q) \in Nat /\ DOMAIN q = 1..Len(q)
         /\ \A i \in DOMAIN q : q[i] \in Message
         /\ q = <<>> <=> Len(q) = 0
<1>1. Len(q) \in Nat /\ DOMAIN q = 1..Len(q) /\ q \in [1..Len(q) -> Message]
  BY LenProperties
<1> QED
  BY <1>1, EmptySeq

\* Append adds one message behind the others.
LEMMA AppendShape ==
  ASSUME NEW q \in Seq(Message), NEW m \in Message
  PROVE  LET r == Append(q, m)
         IN  /\ r \in Seq(Message) /\ Len(r) = Len(q) + 1
             /\ DOMAIN q = 1..Len(q) /\ DOMAIN r = 1..(Len(q) + 1) /\ Len(q) \in Nat
             /\ \A i \in DOMAIN q : r[i] = q[i]
             /\ r[Len(q) + 1] = m
<1> DEFINE r == Append(q, m)
<1>1. r \in Seq(Message) /\ Len(r) = Len(q) + 1 /\ r[Len(q) + 1] = m
      /\ \A i \in 1..Len(q) : r[i] = q[i]
  BY AppendProperties
<1>2. DOMAIN q = 1..Len(q) /\ Len(q) \in Nat
  BY QueueShape
<1>3. DOMAIN r = 1..Len(r)
  BY <1>1, QueueShape
<1> QED
  BY <1>1, <1>2, <1>3

\* Tail takes the first one and moves the others up.
LEMMA TailShape ==
  ASSUME NEW q \in Seq(Message), q # <<>>
  PROVE  LET r == Tail(q)
         IN  /\ r \in Seq(Message) /\ Len(r) \in Nat /\ Len(q) = Len(r) + 1
             /\ DOMAIN q = 1..(Len(r) + 1) /\ DOMAIN r = 1..Len(r)
             /\ \A i \in DOMAIN r : r[i] = q[i + 1]
             /\ Head(q) = q[1] /\ q[1] \in Message
<1> DEFINE r == Tail(q)
<1>1. r \in Seq(Message) /\ Len(r) = Len(q) - 1 /\ \A i \in 1..Len(r) : r[i] = q[i + 1]
  BY HeadTailProperties
<1>2. DOMAIN q = 1..Len(q) /\ Len(q) \in Nat
  BY QueueShape
<1>3. DOMAIN r = 1..Len(r) /\ Len(r) \in Nat
  BY <1>1, QueueShape
<1>4. Head(q) = q[1] /\ Head(q) \in Message
  BY HeadTailProperties
<1>5. Len(q) = Len(r) + 1
  BY <1>1, <1>2, <1>3
<1> QED
  BY <1>1, <1>2, <1>3, <1>4, <1>5

\* The positions at which a queue holds a message are finitely many.
LEMMA UptoType ==
  ASSUME NEW q \in Seq(Message), NEW m, NEW k \in Nat
  PROVE  /\ Upto(q, m, k) \in Nat /\ Copies(q, m) \in Nat
         /\ Upto(q, m, k) <= Copies(q, m)
         /\ IsFiniteSet({i \in DOMAIN q : i <= k /\ q[i] = m})
         /\ IsFiniteSet({i \in DOMAIN q : q[i] = m})
<1> DEFINE S == {i \in DOMAIN q : q[i] = m}
           T == {i \in DOMAIN q : i <= k /\ q[i] = m}
<1>1. IsFiniteSet(DOMAIN q)
  BY QueueShape, FS_Interval
<1>2. S \in SUBSET DOMAIN q /\ T \in SUBSET S
  OBVIOUS
<1>3. IsFiniteSet(S)
  BY <1>1, <1>2, FS_Subset
<1>4. IsFiniteSet(T) /\ Cardinality(T) <= Cardinality(S)
  BY <1>2, <1>3, FS_Subset
<1>5. Cardinality(S) \in Nat /\ Cardinality(T) \in Nat
  BY <1>3, <1>4, FS_CardinalityType
<1> QED
  BY <1>3, <1>4, <1>5 DEF Upto, Copies

\* Before the first message there is none, and up to the last there are all.
LEMMA UptoEnds ==
  ASSUME NEW q \in Seq(Message), NEW m
  PROVE  Upto(q, m, 0) = 0 /\ Upto(q, m, Len(q)) = Copies(q, m)
<1>1. {i \in DOMAIN q : i <= 0 /\ q[i] = m} = {}
  BY QueueShape
<1>2. {i \in DOMAIN q : i <= Len(q) /\ q[i] = m} = {i \in DOMAIN q : q[i] = m}
  BY QueueShape
<1> QED
  BY <1>1, <1>2, FS_EmptySet DEF Upto, Copies

\* What follows does not change what was before.
LEMMA UptoPrefix ==
  ASSUME NEW q \in Seq(Message), NEW ms \in Seq(Message), NEW m, NEW k \in 0..Len(q)
  PROVE  Upto(q \o ms, m, k) = Upto(q, m, k)
<1> DEFINE r == q \o ms
<1>1. PICK n \in Nat : n = Len(q) /\ DOMAIN q = 1..n
  BY QueueShape
<1>2. PICK l \in Nat : l = Len(ms)
  BY QueueShape
<1>3. r \in Seq(Message) /\ Len(r) = n + l /\ \A i \in 1..n : r[i] = q[i]
  BY <1>1, <1>2, ConcatProperties
<1>4. DOMAIN r = 1..(n + l)
  BY <1>3, QueueShape
<1> HIDE DEF r
<1>5. {i \in DOMAIN r : i <= k /\ r[i] = m} = {i \in DOMAIN q : i <= k /\ q[i] = m}
  BY <1>1, <1>3, <1>4
<1> QED
  BY <1>5 DEF Upto, r

\* In what two queues hold together a message is found as often as in each.
LEMMA UptoConcat ==
  ASSUME NEW q \in Seq(Message), NEW ms \in Seq(Message), NEW m
  PROVE  /\ q \o ms \in Seq(Message)
         /\ Len(q \o ms) = Len(q) + Len(ms)
         /\ \A k \in 0..Len(ms) :
              Upto(q \o ms, m, Len(q) + k) = Copies(q, m) + Upto(ms, m, k)
         /\ Copies(q \o ms, m) = Copies(q, m) + Copies(ms, m)
<1> DEFINE r == q \o ms
<1>1. PICK n \in Nat : n = Len(q) /\ DOMAIN q = 1..n
  BY QueueShape
<1>2. PICK l \in Nat : l = Len(ms) /\ DOMAIN ms = 1..l
  BY QueueShape
<1>3. r \in Seq(Message) /\ Len(r) = n + l
      /\ \A i \in 1..(n + l) : r[i] = IF i <= n THEN q[i] ELSE ms[i - n]
  BY <1>1, <1>2, ConcatProperties
<1>4. DOMAIN r = 1..(n + l)
  BY <1>3, QueueShape
<1> HIDE DEF r
<1>6. ASSUME NEW k \in 0..l PROVE Upto(r, m, n + k) = Copies(q, m) + Upto(ms, m, k)
  <2> DEFINE A == {i \in DOMAIN q : q[i] = m}
             B == {i \in DOMAIN ms : i <= k /\ ms[i] = m}
             C == {i \in (n + 1)..(n + l) : i - n <= k /\ ms[i - n] = m}
             f == [i \in B |-> n + i]
  <2>1. {i \in DOMAIN r : i <= n + k /\ r[i] = m} = A \union C
    BY <1>1, <1>2, <1>3, <1>4
  <2>2. A \intersect C = {}
    BY <1>1
  <2>3. IsFiniteSet(A) /\ IsFiniteSet(B) /\ Cardinality(A) \in Nat /\ Cardinality(B) \in Nat
    <3>1. IsFiniteSet(A)
      BY UptoType
    <3>2. k \in Nat
      BY <1>2
    <3>3. IsFiniteSet(B)
      BY <3>2, UptoType
    <3> QED
      BY <3>1, <3>3, FS_CardinalityType
  <2>4. f \in Bijection(B, C)
    <3>1. f \in [B -> C]
      BY <1>2
    <3>2. \A a, b \in B : f[a] = f[b] => a = b
      BY <1>2
    <3>3. ASSUME NEW c \in C PROVE \E b \in B : f[b] = c
      <4>1. c - n \in B
        BY <1>2
      <4>2. f[c - n] = c
        BY <4>1, <1>2
      <4> QED
        BY <4>1, <4>2
    <3> HIDE DEF f, B, C
    <3> QED
      BY <3>1, <3>2, <3>3, Fun_IsBij
  <2>5. IsFiniteSet(C) /\ Cardinality(C) = Cardinality(B)
    <3> HIDE DEF f, B, C
    <3>1. ExistsBijection(B, C)
      BY <2>4 DEF ExistsBijection
    <3> QED
      BY <3>1, <2>3, FS_Bijection
  <2>6. Cardinality(A \union C) = Cardinality(A) + Cardinality(B)
    <3> HIDE DEF A, B, C
    <3>1. Cardinality(A \union C) = Cardinality(A) + Cardinality(C) - Cardinality({})
      BY <2>2, <2>3, <2>5, FS_Union
    <3> QED
      BY <3>1, <2>3, <2>5, FS_EmptySet
  <2> QED
    BY <2>1, <2>6 DEF Upto, Copies
<1>7. Copies(r, m) = Copies(q, m) + Copies(ms, m)
  <2>1. Upto(r, m, Len(r)) = Copies(r, m) /\ Upto(ms, m, l) = Copies(ms, m)
    BY <1>2, <1>3, UptoEnds
  <2>2. l \in 0..l
    BY <1>2
  <2> QED
    BY <2>1, <2>2, <1>3, <1>6
<1> QED
  BY <1>1, <1>2, <1>3, <1>6, <1>7 DEF r

\* A queue of one message holds it once.
LEMMA CopiesOfOne ==
  ASSUME NEW m \in Message, NEW x
  PROVE  /\ <<m>> \in Seq(Message) /\ Len(<<m>>) = 1
         /\ Copies(<<m>>, x) = IF x = m THEN 1 ELSE 0
<1>1. <<m>> \in Seq(Message) /\ Len(<<m>>) = 1 /\ DOMAIN <<m>> = 1..1 /\ <<m>>[1] = m
  OBVIOUS
<1>2. CASE x = m
  <2>1. {i \in DOMAIN <<m>> : <<m>>[i] = x} = {1}
    BY <1>1, <1>2
  <2> QED
    BY <1>1, <1>2, <2>1, FS_Singleton DEF Copies
<1>3. CASE x # m
  <2>1. {i \in DOMAIN <<m>> : <<m>>[i] = x} = {}
    BY <1>1, <1>3
  <2> QED
    BY <1>1, <1>3, <2>1, FS_EmptySet DEF Copies
<1> QED
  BY <1>2, <1>3

\* What Append adds.
LEMMA UptoAppend ==
  ASSUME NEW q \in Seq(Message), NEW m \in Message, NEW x
  PROVE  /\ \A k \in 0..Len(q) : Upto(Append(q, m), x, k) = Upto(q, x, k)
         /\ Copies(Append(q, m), x) = Copies(q, x) + IF x = m THEN 1 ELSE 0
<1>1. Append(q, m) = q \o <<m>>
  BY AppendIsConcat
<1>2. <<m>> \in Seq(Message) /\ Copies(<<m>>, x) = IF x = m THEN 1 ELSE 0
  BY CopiesOfOne
<1>3. /\ \A k \in 0..Len(q) : Upto(q \o <<m>>, x, k) = Upto(q, x, k)
      /\ Copies(q \o <<m>>, x) = Copies(q, x) + Copies(<<m>>, x)
  <2>1. PICK ms \in Seq(Message) : ms = <<m>>
    BY <1>2
  <2>2. \A k \in 0..Len(q) : Upto(q \o ms, x, k) = Upto(q, x, k)
    BY UptoPrefix
  <2>3. Copies(q \o ms, x) = Copies(q, x) + Copies(ms, x)
    BY UptoConcat
  <2> QED
    BY <2>1, <2>2, <2>3
<1> QED
  BY <1>1, <1>2, <1>3

\* What Tail takes.
LEMMA UptoTail ==
  ASSUME NEW q \in Seq(Message), q # <<>>, NEW x
  PROVE  /\ \A k \in 0..Len(Tail(q)) :
              Upto(q, x, k + 1) = Upto(Tail(q), x, k) + IF x = Head(q) THEN 1 ELSE 0
         /\ Copies(q, x) = Copies(Tail(q), x) + IF x = Head(q) THEN 1 ELSE 0
<1>1. Tail(q) \in Seq(Message) /\ Head(q) \in Message
  BY HeadTailProperties
<1>2. q = <<Head(q)>> \o Tail(q)
  <2>1. <<Head(q)>> \in Seq(Message) /\ Len(<<Head(q)>>) = 1
    BY <1>1, CopiesOfOne
  <2> DEFINE r == <<Head(q)>> \o Tail(q)
  <2>2. r \in Seq(Message) /\ Len(r) = 1 + Len(Tail(q))
        /\ \A i \in 1..(1 + Len(Tail(q))) : r[i] = IF i <= 1 THEN Head(q) ELSE Tail(q)[i - 1]
    BY <1>1, <2>1, ConcatProperties
  <2>3. DOMAIN r = 1..(1 + Len(Tail(q)))
    BY <2>2, QueueShape
  <2>4. r \in [1..(1 + Len(Tail(q))) -> Message] /\ q \in [1..(1 + Len(Tail(q))) -> Message]
    <3>1. q \in [1..Len(q) -> Message] /\ r \in [1..Len(r) -> Message]
      BY <2>2, LenProperties
    <3>2. Len(q) = 1 + Len(Tail(q))
      BY TailShape
    <3> QED
      BY <2>2, <3>1, <3>2
  <2>5. \A i \in 1..(1 + Len(Tail(q))) : r[i] = q[i]
    BY <2>2, TailShape
  <2> QED
    BY <2>4, <2>5
<1>3. Len(<<Head(q)>>) = 1 /\ <<Head(q)>> \in Seq(Message)
      /\ Copies(<<Head(q)>>, x) = IF x = Head(q) THEN 1 ELSE 0
  BY <1>1, CopiesOfOne
<1> DEFINE h == <<Head(q)>>
           r == Tail(q)
<1>4. /\ \A k \in 0..Len(r) : Upto(h \o r, x, Len(h) + k) = Copies(h, x) + Upto(r, x, k)
      /\ Copies(h \o r, x) = Copies(h, x) + Copies(r, x)
  <2>1. PICK a \in Seq(Message), b \in Seq(Message) : a = h /\ b = r
    BY <1>1, <1>3
  <2>2. /\ \A k \in 0..Len(b) : Upto(a \o b, x, Len(a) + k) = Copies(a, x) + Upto(b, x, k)
        /\ Copies(a \o b, x) = Copies(a, x) + Copies(b, x)
    BY UptoConcat
  <2> QED
    BY <2>1, <2>2
<1>5. PICK n \in Nat : n = Len(r)
  BY <1>1, QueueShape
<1>6. \A k \in 0..n : Upto(r, x, k) \in Nat
  <2>1. \A k \in 0..n : k \in Nat
    OBVIOUS
  <2> QED
    BY <1>1, <2>1, UptoType, Zenon
<1>7. Copies(r, x) \in Nat
  BY <1>1, UptoType
<1>8. PICK b \in 0..1 : b = IF x = Head(q) THEN 1 ELSE 0
  OBVIOUS
<1>9. ASSUME NEW k \in 0..n PROVE Upto(q, x, k + 1) = Upto(r, x, k) + b
  <2>1. Upto(q, x, 1 + k) = b + Upto(r, x, k)
    BY <1>2, <1>3, <1>4, <1>5, <1>8
  <2> QED
    BY <2>1, <1>6
<1>10. Copies(q, x) = Copies(r, x) + b
  <2>1. Copies(q, x) = b + Copies(r, x)
    BY <1>2, <1>3, <1>4, <1>8
  <2> QED
    BY <2>1, <1>7
<1> QED
  BY <1>5, <1>8, <1>9, <1>10

-----------------------------------------------------------------------------
(* What a queue says of a topic. *)

\* A message is about one topic, and either subscribes or cancels.
LEMMA MessageForms ==
  /\ \A t \in Topics : /\ Subscribe(t) \in Message /\ Cancel(t) \in Message
                       /\ Subscribe(t) # Cancel(t)
                       /\ Subscribe(t).topic = t /\ Cancel(t).topic = t
                       /\ Subscribe(t).type = "subscribe" /\ Cancel(t).type = "cancel"
  /\ \A m \in Message : /\ m.topic \in Topics
                        /\ m.type = "cancel" => m = Cancel(m.topic)
                        /\ m.type # "cancel" => m = Subscribe(m.topic)
BY DEF Message, Subscribe, Cancel

\* A topic that q does not speak of is in none of its messages.
LEMMA SilentCopies ==
  ASSUME NEW q \in Seq(Message), NEW m \in Message, Silent(q, m.topic), NEW k \in Nat
  PROVE  Copies(q, m) = 0 /\ Upto(q, m, k) = 0
<1>1. {i \in DOMAIN q : q[i] = m} = {} /\ {i \in DOMAIN q : i <= k /\ q[i] = m} = {}
  BY DEF Silent
<1> QED
  BY <1>1, FS_EmptySet DEF Copies, Upto

\* A queue whose last word on a topic is m speaks of the topic.
LEMMA EndsSpeaks ==
  ASSUME NEW q, NEW t, NEW m, m.topic = t, Ends(q, t, m)
  PROVE  ~Silent(q, t)
BY DEF Ends, Silent

\* One more message is the last word on its topic, and on no other.
LEMMA AppendWord ==
  ASSUME NEW q \in Seq(Message), NEW m \in Message, NEW t \in Topics, NEW x \in Message
  PROVE  /\ Silent(Append(q, m), t) <=> Silent(q, t) /\ m.topic # t
         /\ m.topic # t /\ Ends(q, t, x) => Ends(Append(q, m), t, x)
         /\ m = x => Ends(Append(q, m), t, x)
<1> DEFINE r == Append(q, m)
<1>1. PICK n \in Nat : n = Len(q) /\ DOMAIN q = 1..n
  BY QueueShape
<1>2. DOMAIN r = 1..(n + 1) /\ r[n + 1] = m /\ \A i \in 1..n : r[i] = q[i]
  BY <1>1, AppendShape
<1> HIDE DEF r
<1>3. Silent(r, t) <=> Silent(q, t) /\ m.topic # t
  BY <1>1, <1>2 DEF Silent
<1>4. ASSUME m.topic # t, Ends(q, t, x) PROVE Ends(r, t, x)
  <2>1. PICK i \in 1..n : q[i] = x /\ \A j \in 1..n : i < j => q[j].topic # t
    BY <1>1, <1>4 DEF Ends
  <2>2. i \in DOMAIN r /\ r[i] = x /\ \A j \in DOMAIN r : i < j => r[j].topic # t
    BY <1>2, <1>4, <2>1
  <2> QED
    BY <2>2 DEF Ends
<1>5. ASSUME m = x PROVE Ends(r, t, x)
  BY <1>2, <1>5 DEF Ends
<1> QED
  BY <1>3, <1>4, <1>5 DEF r

\* The first message gone, the last word is what it was, unless it was that one.
LEMMA TailWord ==
  ASSUME NEW q \in Seq(Message), q # <<>>, NEW t \in Topics, NEW x \in Message
  PROVE  /\ Silent(q, t) <=> Silent(Tail(q), t) /\ Head(q).topic # t
         /\ Ends(q, t, x) => Ends(Tail(q), t, x) \/ (Head(q) = x /\ Silent(Tail(q), t))
<1> DEFINE r == Tail(q)
<1>1. PICK n \in Nat : n = Len(r) /\ DOMAIN r = 1..n
  BY TailShape
<1>2. DOMAIN q = 1..(n + 1) /\ Head(q) = q[1] /\ \A i \in 1..n : r[i] = q[i + 1]
  BY <1>1, TailShape
<1> HIDE DEF r
<1>3. \A i \in 2..(n + 1) : i - 1 \in 1..n /\ q[i] = r[i - 1]
  BY <1>2
<1>4. Silent(q, t) <=> Silent(r, t) /\ Head(q).topic # t
  <2>1. ASSUME Silent(q, t) PROVE Silent(r, t) /\ Head(q).topic # t
    BY <1>1, <1>2, <2>1 DEF Silent
  <2>2. ASSUME Silent(r, t), Head(q).topic # t PROVE Silent(q, t)
    <3>1. \A i \in 1..(n + 1) : q[i].topic # t
      <4>1. \A i \in 1..n : r[i].topic # t
        BY <1>1, <2>2 DEF Silent
      <4>2. \A i \in 2..(n + 1) : q[i].topic # t
        BY <1>3, <4>1
      <4> QED
        BY <1>2, <2>2, <4>2
    <3> QED
      BY <1>2, <3>1 DEF Silent
  <2> QED
    BY <2>1, <2>2
<1>5. ASSUME Ends(q, t, x) PROVE Ends(r, t, x) \/ (Head(q) = x /\ Silent(r, t))
  <2>1. PICK i \in 1..(n + 1) : q[i] = x /\ \A j \in 1..(n + 1) : i < j => q[j].topic # t
    BY <1>2, <1>5 DEF Ends
  <2>2. CASE i = 1
    BY <1>1, <1>2, <2>1, <2>2 DEF Silent
  <2>3. CASE i # 1
    <3>1. i - 1 \in DOMAIN r /\ r[i - 1] = x /\ \A j \in DOMAIN r : i - 1 < j => r[j].topic # t
      BY <1>1, <1>2, <1>3, <2>1, <2>3
    <3> QED
      BY <3>1 DEF Ends
  <2> QED
    BY <2>1, <2>2, <2>3
<1> QED
  BY <1>4, <1>5 DEF r

\* What the master makes of the topics of a session when it receives m.
Follows(m, t, known, after) ==
  /\ m = Subscribe(t) => t \in after
  /\ m = Cancel(t) => t \notin after
  /\ m.topic # t => (t \in after <=> t \in known)

\* A message that is sent when the queue is ready for it keeps the alternation.
LEMMA AppendAlternates ==
  ASSUME NEW q \in Seq(Message), NEW m \in Message, NEW t \in Topics, NEW known,
         Alternates(q, t, known), m = Subscribe(t) => Ready(q, t, known)
  PROVE  Alternates(Append(q, m), t, known)
<1> DEFINE r == Append(q, m)
<1>1. PICK n \in Nat : n = Len(q) /\ DOMAIN q = 1..n
  BY QueueShape
<1>2. DOMAIN r = 1..(n + 1) /\ r[n + 1] = m /\ \A i \in 1..n : r[i] = q[i]
  BY <1>1, AppendShape
<1> HIDE DEF r
<1> DEFINE Good(s, i) ==
             \/ \E j \in DOMAIN s : /\ j < i /\ s[j] = Cancel(t)
                                    /\ \A k \in DOMAIN s : j < k /\ k < i => s[k].topic # t
             \/ t \notin known /\ \A j \in DOMAIN s : j < i => s[j].topic # t
<1>3. ASSUME NEW i \in DOMAIN r, r[i] = Subscribe(t) PROVE Good(r, i)
  <2>1. CASE i \in 1..n
    <3>1. Good(q, i)
      BY <1>1, <1>2, <1>3, <2>1 DEF Alternates
    <3>2. CASE \E j \in DOMAIN q : /\ j < i /\ q[j] = Cancel(t)
                                   /\ \A k \in DOMAIN q : j < k /\ k < i => q[k].topic # t
      <4>1. PICK j \in 1..n : /\ j < i /\ q[j] = Cancel(t)
                              /\ \A k \in 1..n : j < k /\ k < i => q[k].topic # t
        BY <1>1, <3>2
      <4>2. j \in DOMAIN r /\ j < i /\ r[j] = Cancel(t)
            /\ \A k \in DOMAIN r : j < k /\ k < i => r[k].topic # t
        BY <1>2, <2>1, <4>1
      <4> QED
        BY <4>2
    <3>3. CASE t \notin known /\ \A j \in DOMAIN q : j < i => q[j].topic # t
      BY <1>1, <1>2, <2>1, <3>3
    <3> QED
      BY <3>1, <3>2, <3>3
  <2>2. CASE i = n + 1
    <3>1. Ready(q, t, known)
      BY <1>2, <1>3, <2>2
    <3>2. CASE Ends(q, t, Cancel(t))
      <4>1. PICK j \in 1..n : q[j] = Cancel(t) /\ \A k \in 1..n : j < k => q[k].topic # t
        BY <1>1, <3>2 DEF Ends
      <4>2. j \in DOMAIN r /\ j < i /\ r[j] = Cancel(t)
            /\ \A k \in DOMAIN r : j < k /\ k < i => r[k].topic # t
        BY <1>2, <2>2, <4>1
      <4> QED
        BY <4>2
    <3>3. CASE Silent(q, t) /\ t \notin known
      BY <1>1, <1>2, <2>2, <3>3 DEF Silent
    <3> QED
      BY <3>1, <3>2, <3>3 DEF Ready
  <2> QED
    BY <1>2, <1>3, <2>1, <2>2
<1> QED
  BY <1>3 DEF Alternates, r

\* So does the master, which takes the first message and follows it.
LEMMA TailAlternates ==
  ASSUME NEW q \in Seq(Message), q # <<>>, NEW t \in Topics, NEW known, NEW after,
         Alternates(q, t, known), Follows(Head(q), t, known, after)
  PROVE  Alternates(Tail(q), t, after)
<1> DEFINE r == Tail(q)
<1>1. PICK n \in Nat : n = Len(r) /\ DOMAIN r = 1..n
  BY TailShape
<1>2. DOMAIN q = 1..(n + 1) /\ Head(q) = q[1] /\ \A i \in 1..n : r[i] = q[i + 1]
  BY <1>1, TailShape
<1> HIDE DEF r
<1> DEFINE Good(s, i, set) ==
             \/ \E j \in DOMAIN s : /\ j < i /\ s[j] = Cancel(t)
                                    /\ \A k \in DOMAIN s : j < k /\ k < i => s[k].topic # t
             \/ t \notin set /\ \A j \in DOMAIN s : j < i => s[j].topic # t
<1>3. ASSUME NEW i \in DOMAIN r, r[i] = Subscribe(t) PROVE Good(r, i, after)
  <2>1. i + 1 \in DOMAIN q /\ q[i + 1] = Subscribe(t)
    BY <1>1, <1>2, <1>3
  <2>2. Good(q, i + 1, known)
    BY <2>1 DEF Alternates
  <2>3. ASSUME NEW j \in 1..(n + 1), j < i + 1, q[j] = Cancel(t),
               \A k \in 1..(n + 1) : j < k /\ k < i + 1 => q[k].topic # t
        PROVE  Good(r, i, after)
    <3>1. CASE j = 1
      <4>1. t \notin after
        BY <1>2, <2>3, <3>1 DEF Follows
      <4>2. \A k \in 1..n : k < i => r[k].topic # t
        BY <1>1, <1>2, <1>3, <2>3, <3>1
      <4> QED
        BY <1>1, <4>1, <4>2
    <3>2. CASE j # 1
      <4>1. j - 1 \in DOMAIN r /\ j - 1 < i /\ r[j - 1] = Cancel(t)
        BY <1>1, <1>2, <1>3, <2>3, <3>2
      <4>2. \A k \in DOMAIN r : j - 1 < k /\ k < i => r[k].topic # t
        BY <1>1, <1>2, <1>3, <2>3, <3>2
      <4> QED
        BY <4>1, <4>2
    <3> QED
      BY <3>1, <3>2
  <2>4. ASSUME t \notin known, \A j \in 1..(n + 1) : j < i + 1 => q[j].topic # t
        PROVE  Good(r, i, after)
    <3>1. \A k \in 1..n : k < i => r[k].topic # t
      BY <1>1, <1>2, <1>3, <2>4
    <3>2. Head(q).topic # t
      BY <1>1, <1>2, <1>3, <2>4
    <3> QED
      BY <1>1, <2>4, <3>1, <3>2 DEF Follows
  <2> QED
    BY <1>2, <2>2, <2>3, <2>4
<1> QED
  BY <1>3 DEF Alternates, r

\* A proxy that is ready to subscribe stays so, and is after it sent a cancel.
LEMMA TailReady ==
  ASSUME NEW q \in Seq(Message), q # <<>>, NEW t \in Topics, NEW known, NEW after,
         Ready(q, t, known), Follows(Head(q), t, known, after)
  PROVE  Ready(Tail(q), t, after)
BY TailWord, MessageForms DEF Ready, Follows

LEMMA AppendReady ==
  ASSUME NEW q \in Seq(Message), NEW m \in Message, NEW t \in Topics, NEW known,
         m = Cancel(t) \/ (m.topic # t /\ Ready(q, t, known))
  PROVE  Ready(Append(q, m), t, known)
BY AppendWord, MessageForms DEF Ready

\* What is sent when the count rises from 0 or falls to 0 keeps the session exact,
\* and so does what the master receives.
LEMMA AppendExact ==
  ASSUME NEW q \in Seq(Message), NEW m \in Message, NEW t \in Topics, NEW known,
         NEW n \in Nat, NEW l \in Nat,
         \/ m = Subscribe(t) /\ l > 0
         \/ m = Cancel(t) /\ l = 0
         \/ m.topic # t /\ Exact(q, t, known, n) /\ (n > 0 <=> l > 0)
  PROVE  Exact(Append(q, m), t, known, l)
<1>1. CASE m = Subscribe(t) /\ l > 0
  BY <1>1, AppendWord, MessageForms DEF Exact
<1>2. CASE m = Cancel(t) /\ l = 0
  BY <1>2, AppendWord, MessageForms DEF Exact
<1>3. CASE m.topic # t /\ Exact(q, t, known, n) /\ (n > 0 <=> l > 0)
  <2>1. Silent(Append(q, m), t) <=> Silent(q, t)
    BY <1>3, AppendWord
  <2>2. Ends(q, t, Subscribe(t)) => Ends(Append(q, m), t, Subscribe(t))
    BY <1>3, AppendWord, MessageForms
  <2>3. Ends(q, t, Cancel(t)) => Ends(Append(q, m), t, Cancel(t))
    BY <1>3, AppendWord, MessageForms
  <2> QED
    BY <1>3, <2>1, <2>2, <2>3 DEF Exact
<1> QED
  BY <1>1, <1>2, <1>3

LEMMA TailExact ==
  ASSUME NEW q \in Seq(Message), q # <<>>, NEW t \in Topics, NEW known, NEW after,
         NEW n \in Nat, Exact(q, t, known, n), Follows(Head(q), t, known, after)
  PROVE  Exact(Tail(q), t, after, n)
<1>1. CASE Silent(q, t)
  BY <1>1, TailWord, MessageForms DEF Exact, Follows
<1>2. CASE ~Silent(q, t) /\ n > 0
  <2>1. Ends(q, t, Subscribe(t))
    BY <1>2 DEF Exact
  <2>2. CASE Ends(Tail(q), t, Subscribe(t))
    <3>1. ~Silent(Tail(q), t)
      <4>1. Subscribe(t).topic = t /\ Cancel(t).topic = t
        BY MessageForms
      <4> QED
        BY <2>2, <4>1, EndsSpeaks
    <3> QED
      BY <1>2, <2>2, <3>1 DEF Exact
  <2>3. CASE Head(q) = Subscribe(t) /\ Silent(Tail(q), t)
    BY <1>2, <2>3 DEF Exact, Follows
  <2> QED
    BY <2>1, <2>2, <2>3, TailWord, MessageForms
<1>3. CASE ~Silent(q, t) /\ ~(n > 0)
  <2>1. Ends(q, t, Cancel(t))
    BY <1>3 DEF Exact
  <2>2. CASE Ends(Tail(q), t, Cancel(t))
    <3>1. ~Silent(Tail(q), t)
      <4>1. Subscribe(t).topic = t /\ Cancel(t).topic = t
        BY MessageForms
      <4> QED
        BY <2>2, <4>1, EndsSpeaks
    <3> QED
      BY <1>3, <2>2, <3>1 DEF Exact
  <2>3. CASE Head(q) = Cancel(t) /\ Silent(Tail(q), t)
    BY <1>3, <2>3 DEF Exact, Follows
  <2> QED
    BY <2>1, <2>2, <2>3, TailWord, MessageForms
<1> QED
  BY <1>1, <1>2, <1>3

-----------------------------------------------------------------------------
(* What the master tells. *)

\* SetToSeq lists every element of a finite set once.
LEMMA ListShape ==
  ASSUME NEW S, IsFiniteSet(S)
  PROVE  /\ Cardinality(S) \in Nat
         /\ SetToSeq(S) \in [1..Cardinality(S) -> S]
         /\ \A i, j \in 1..Cardinality(S) : SetToSeq(S)[i] = SetToSeq(S)[j] => i = j
         /\ \A s \in S : \E i \in 1..Cardinality(S) : SetToSeq(S)[i] = s
<1>1. PICK n \in Nat : n = Cardinality(S)
  BY FS_CardinalityType
<1>2. PICK f : f \in [1..n -> S] /\ IsInjective(f)
  BY <1>1, FS_CardinalityType DEF ExistsBijection, Bijection, Injection
<1>3. PICK g : g = SetToSeq(S)
  OBVIOUS
<1>4. g \in [1..n -> S] /\ IsInjective(g)
  BY <1>1, <1>2, <1>3 DEF SetToSeq
<1>5. g \in Injection(1..n, S)
  BY <1>4 DEF Injection
<1>6. Cardinality(1..n) = n
  BY FS_Interval
<1>7. g \in Surjection(1..n, S)
  BY <1>1, <1>5, <1>6, FS_Injection
<1>8. \A s \in S : \E i \in 1..n : g[i] = s
  BY <1>7 DEF Surjection
<1> QED
  BY <1>1, <1>3, <1>4, <1>8 DEF IsInjective

\* What is said when a session ends: a cancel of each of its topics.
Withdrawal(S) == [i \in 1..Cardinality(S) |-> Cancel(SetToSeq(S)[i])]

LEMMA WithdrawalList ==
  ASSUME NEW S \in SUBSET Topics, IsFiniteSet(S), NEW t \in Topics
  PROVE  /\ Withdrawal(S) \in Seq(Message)
         /\ Copies(Withdrawal(S), Subscribe(t)) = 0
         /\ Copies(Withdrawal(S), Cancel(t)) = IF t \in S THEN 1 ELSE 0
<1>1. PICK n \in Nat : n = Cardinality(S)
  BY ListShape
<1>2. PICK g : g = SetToSeq(S)
  OBVIOUS
<1>3. /\ g \in [1..n -> S]
      /\ \A i, j \in 1..n : g[i] = g[j] => i = j
      /\ \A s \in S : \E i \in 1..n : g[i] = s
  BY <1>1, <1>2, ListShape
<1>4. PICK ms : ms = [i \in 1..n |-> Cancel(g[i])]
  OBVIOUS
<1>5. ms = Withdrawal(S)
  BY <1>1, <1>2, <1>4 DEF Withdrawal
<1>6. \A i \in 1..n : ms[i] = Cancel(g[i]) /\ g[i] \in Topics
  BY <1>3, <1>4
<1>7. ms \in Seq(Message)
  <2>1. \A i \in 1..n : ms[i] \in Message
    BY <1>6, MessageForms
  <2>2. ms \in [1..n -> Message]
    BY <1>4, <2>1
  <2> QED
    BY <2>2
<1>8. DOMAIN ms = 1..n
  BY <1>4
<1>9. Copies(ms, Subscribe(t)) = 0
  <2>1. \A i \in 1..n : ms[i].type # Subscribe(t).type
    BY <1>6, MessageForms
  <2>2. {i \in DOMAIN ms : ms[i] = Subscribe(t)} = {}
    BY <1>8, <2>1
  <2> QED
    BY <2>2, FS_EmptySet DEF Copies
<1>10. \A i \in 1..n : ms[i] = Cancel(t) <=> g[i] = t
  <2>1. \A a, b \in Topics : Cancel(a) = Cancel(b) => a = b
    BY DEF Cancel
  <2> QED
    BY <1>6, <2>1
<1>11. CASE t \in S
  <2>1. PICK i \in 1..n : g[i] = t
    BY <1>3, <1>11
  <2>2. {j \in DOMAIN ms : ms[j] = Cancel(t)} = {i}
    BY <1>3, <1>8, <1>10, <2>1
  <2> QED
    BY <1>5, <1>7, <1>9, <1>11, <2>2, FS_Singleton DEF Copies
<1>12. CASE t \notin S
  <2>1. {j \in DOMAIN ms : ms[j] = Cancel(t)} = {}
    BY <1>3, <1>8, <1>10, <1>12
  <2> QED
    BY <1>5, <1>7, <1>9, <1>12, <2>1, FS_EmptySet DEF Copies
<1> QED
  BY <1>11, <1>12

\* What a new session is told: of each topic, one subscription per session.
LEMMA KnownList ==
  ASSUME sessions \subseteq Conns, topics \in [Conns -> SUBSET Topics],
         IsFiniteSet(sessions), IsFiniteSet(UNION {topics[c] : c \in Conns}),
         NEW t \in Topics
  PROVE  /\ Known \in Seq(Message)
         /\ Copies(Known, Cancel(t)) = 0
         /\ Copies(Known, Subscribe(t)) = Cardinality({c \in sessions : t \in topics[c]})
<1> DEFINE S == {s \in sessions \X Topics : s[2] \in topics[s[1]]}
           T == {c \in sessions : t \in topics[c]}
<1>1. IsFiniteSet(S)
  <2> DEFINE U == UNION {topics[c] : c \in Conns}
  <2>1. IsFiniteSet(sessions \X U)
    BY FS_Product
  <2>2. S \subseteq sessions \X U
    OBVIOUS
  <2> QED
    BY <2>1, <2>2, FS_Subset
<1>2. PICK n \in Nat : n = Cardinality(S)
  BY <1>1, ListShape
<1>3. PICK g : g = SetToSeq(S)
  OBVIOUS
<1>4. /\ g \in [1..n -> S]
      /\ \A i, j \in 1..n : g[i] = g[j] => i = j
      /\ \A s \in S : \E i \in 1..n : g[i] = s
  <2> HIDE DEF S
  <2> QED
    BY <1>1, <1>2, <1>3, ListShape
<1>5. PICK ms : ms = [i \in 1..n |-> Subscribe(g[i][2])]
  OBVIOUS
<1>6. ms = Known
  BY <1>3, <1>4, <1>5 DEF Known
<1>7. \A i \in 1..n : ms[i] = Subscribe(g[i][2]) /\ g[i][2] \in Topics /\ g[i][1] \in sessions
                      /\ g[i][2] \in topics[g[i][1]] /\ g[i] = <<g[i][1], g[i][2]>>
  BY <1>4, <1>5
<1>8. ms \in Seq(Message)
  <2>1. \A i \in 1..n : ms[i] \in Message
    BY <1>7, MessageForms
  <2>2. ms \in [1..n -> Message]
    BY <1>5, <2>1
  <2> QED
    BY <2>2
<1>9. DOMAIN ms = 1..n
  BY <1>5
<1>10. Copies(ms, Cancel(t)) = 0
  <2>1. \A i \in 1..n : ms[i].type # Cancel(t).type
    BY <1>7, MessageForms
  <2>2. {i \in DOMAIN ms : ms[i] = Cancel(t)} = {}
    BY <1>9, <2>1
  <2> QED
    BY <2>2, FS_EmptySet DEF Copies
<1> DEFINE A == {i \in DOMAIN ms : ms[i] = Subscribe(t)}
           f == [i \in A |-> g[i][1]]
<1>11. \A i \in A : i \in 1..n /\ g[i][2] = t
  BY <1>7, <1>9 DEF Subscribe
<1>12. f \in Bijection(A, T)
  <2>1. f \in [A -> T]
    BY <1>7, <1>11
  <2>2. ASSUME NEW a \in A, NEW b \in A, f[a] = f[b] PROVE a = b
    <3>1. a \in 1..n /\ b \in 1..n /\ g[a][2] = t /\ g[b][2] = t
      BY <1>11
    <3>2. g[a][1] = g[b][1]
      BY <2>2
    <3>3. g[a] = <<g[a][1], t>> /\ g[b] = <<g[b][1], t>>
      BY <1>7, <3>1
    <3> QED
      BY <1>4, <3>1, <3>2, <3>3
  <2>3. ASSUME NEW c \in T PROVE \E a \in A : f[a] = c
    <3>1. <<c, t>> \in S
      OBVIOUS
    <3>2. PICK i \in 1..n : g[i] = <<c, t>>
      BY <1>4, <3>1
    <3>3. i \in A /\ f[i] = c
      BY <1>7, <1>9, <3>2
    <3> QED
      BY <3>3
  <2> HIDE DEF f, A, T
  <2> QED
    BY <2>1, <2>2, <2>3, Fun_IsBij
<1>13. Copies(ms, Subscribe(t)) = Cardinality(T)
  <2>1. IsFiniteSet(A)
    BY <1>8, UptoType
  <2>2. Cardinality(A) = Cardinality(T)
    <3> HIDE DEF f, A, T
    <3>1. ExistsBijection(A, T)
      BY <1>12 DEF ExistsBijection
    <3> QED
      BY <2>1, <3>1, FS_Bijection
  <2> QED
    BY <2>2 DEF Copies
<1> QED
  BY <1>6, <1>8, <1>10, <1>13

-----------------------------------------------------------------------------
(* Every step keeps each part of the invariant. *)

\* What the master does with a message about t: it changes the topics of one
\* session, and passes on what is news to the others.
Received(c, t) ==
  LET m == Head(up[c])
  IN  /\ c \in sessions /\ up[c] # <<>> /\ m \in {Subscribe(t), Cancel(t)}
      /\ up' = [up EXCEPT ![c] = Tail(@)]
      /\ topics' = [topics EXCEPT ![c] = IF m = Cancel(t) THEN @ \ {t} ELSE @ \union {t}]
      /\ \A d \in Conns :
           down'[d] = IF /\ d \in sessions \ broken /\ d # c
                         /\ m = Cancel(t) => t \in topics[c]
                      THEN down[d] \o <<m>> ELSE down[d]
      /\ down' \in [Conns -> Seq(Message)]
      /\ UNCHANGED <<bus, proxy, owner, broken, accepted, sessions, ops>>

LEMMA Receipt ==
  ASSUME TypeOK, NEW c \in Conns, MasterReceive(c)
  PROVE  \E t \in Topics : Received(c, t)
<1> USE DEF TypeOK
<1>1. c \in sessions /\ up[c] # <<>> /\ up' = [up EXCEPT ![c] = Tail(@)]
      /\ UNCHANGED <<bus, proxy, owner, broken, accepted, sessions, ops>>
  BY DEF MasterReceive
<1>2. PICK m \in Message : m = Head(up[c])
  BY <1>1, HeadTailProperties
<1>3. PICK t \in Topics : t = m.topic /\ m \in {Subscribe(t), Cancel(t)} /\ Subscribe(t) # Cancel(t)
                         /\ (m.type = "cancel" <=> m = Cancel(t))
  BY MessageForms
<1>4. IF m = Cancel(t) THEN OnCancelRequest(c, m) ELSE OnSubscribeRequest(c, m)
  BY <1>2, <1>3 DEF MasterReceive
<1>5. topics' = [topics EXCEPT ![c] = IF m = Cancel(t) THEN @ \ {t} ELSE @ \union {t}]
  BY <1>3, <1>4 DEF OnCancelRequest, OnSubscribeRequest
<1>6. down' = [d \in Conns |-> IF /\ d \in sessions \ broken /\ d # c
                                  /\ m = Cancel(t) => t \in topics[c]
                               THEN down[d] \o <<m>> ELSE down[d]]
  BY <1>3, <1>4 DEF OnCancelRequest, OnSubscribeRequest, SendAll
<1>7. down' \in [Conns -> Seq(Message)]
  <2>1. \A d \in Conns : down[d] \o <<m>> \in Seq(Message)
    OBVIOUS
  <2> QED
    BY <1>6, <2>1
<1> QED
  BY <1>1, <1>2, <1>3, <1>5, <1>6, <1>7 DEF Received


\* A connection is made, accepted and given up in this order.
LEMMA LinksNext == ASSUME ClusterAssumption, TypeOK, Links, [Next]_vars PROVE Links'
<1> USE DEF ClusterAssumption, TypeOK, Links
<1>1. CASE UNCHANGED vars
  BY <1>1 DEF vars, bus, proxy, net, master
<1>2. ASSUME NEW p \in Procs, NEW t \in Topics, LocalSubscribe(p, t) PROVE Links'
  BY <1>2 DEF LocalSubscribe, bus, proxy, net, master
<1>3. ASSUME NEW p \in Procs, NEW t \in Topics, LocalCancel(p, t) PROVE Links'
  BY <1>3 DEF LocalCancel, bus, proxy, net, master
<1>4. ASSUME NEW p \in Procs, NEW t \in Topics, Watch(p, t) PROVE Links'
  BY <1>4 DEF Watch, bus, proxy, net, master
<1>5. ASSUME NEW p \in Procs, Start(p) PROVE Links'
  <2>1. PICK d \in Conns : /\ owner[d] = None /\ owner' = [owner EXCEPT ![d] = p]
                           /\ peer' = [peer EXCEPT ![p] = d] /\ reading' = reading \union {d}
    BY <1>5 DEF Start
  <2> QED
    BY <1>5, <2>1 DEF Start, bus, master
<1>6. ASSUME NEW p \in Procs, Stop(p) PROVE Links'
  BY <1>6 DEF Stop, bus, proxy, net, master
<1>7. ASSUME NEW p \in Procs, OnLocalWatch(p) PROVE Links'
  <2>1. \A c \in Conns : c # peer[p] => up'[c] = up[c]
    BY <1>7 DEF OnLocalWatch, OnLocalCancel, OnLocalSubscribe, SendToMaster
  <2>2. peer[p] # None => owner[peer[p]] # None
    OBVIOUS
  <2> QED
    BY <1>7, <2>1, <2>2 DEF OnLocalWatch, master
<1>8. ASSUME NEW c \in Conns, ProxyReceive(c) PROVE Links'
  <2>1. c \in accepted
    BY <1>8 DEF ProxyReceive
  <2> QED
    BY <1>8, <2>1 DEF ProxyReceive, bus, master
<1>9. ASSUME NEW c \in Conns, ProxyError(c) PROVE Links'
  BY <1>9 DEF ProxyError, bus, proxy, net, master
<1>10. ASSUME NEW c \in Conns, Accept(c) PROVE Links'
  <2>1. IsFiniteSet(sessions \union {c})
    BY FS_AddElement
  <2>2. \A d \in Conns : d # c => down'[d] = down[d]
    BY <1>10 DEF Accept, SendAll
  <2> QED
    BY <1>10, <2>1, <2>2 DEF Accept, bus, proxy
<1>11. ASSUME NEW c \in Conns, MasterReceive(c) PROVE Links'
  <2>r. PICK t \in Topics : Received(c, t)
    BY <1>11, Receipt
  <2>1. /\ c \in sessions /\ up[c] # <<>>
        /\ \A d \in Conns : d # c => up'[d] = up[d]
        /\ topics' \in [Conns -> SUBSET Topics]
        /\ \A d \in Conns : d # c => topics'[d] = topics[d]
        /\ \A d \in Conns : topics'[d] \subseteq topics[d] \union {t}
        /\ \A d \in Conns \ sessions : down'[d] = down[d]
        /\ UNCHANGED <<bus, proxy, owner, broken, accepted, sessions, ops>>
    BY <2>r DEF Received
  <2>2. IsFiniteSet(UNION {topics'[d] : d \in Conns})
    <3> DEFINE U == UNION {topics[d] : d \in Conns}
               V == UNION {topics'[d] : d \in Conns}
    <3>1. V \subseteq U \union {t}
      BY <2>1
    <3>2. IsFiniteSet(U)
      OBVIOUS
    <3> HIDE DEF U, V
    <3>3. IsFiniteSet(U \union {t})
      BY <3>2, FS_AddElement
    <3>4. IsFiniteSet(V)
      BY <3>1, <3>3, FS_Subset
    <3> QED
      BY <3>4 DEF V
  <2> QED
    BY <2>1, <2>2 DEF bus, proxy
<1>12. ASSUME NEW c \in Conns, MasterError(c) PROVE Links'
  <2>1. IsFiniteSet(sessions \ {c})
    BY FS_RemoveElement
  <2>2. \A d \in Conns \ sessions : down'[d] = down[d]
    BY <1>12 DEF MasterError, SendAll
  <2> QED
    BY <1>12, <2>1, <2>2 DEF MasterError, bus, proxy
<1>13. ASSUME NEW c \in Conns, Break(c) PROVE Links'
  BY <1>13 DEF Break, bus, proxy, net, master
<1> QED
  BY <1>1, <1>2, <1>3, <1>4, <1>5, <1>6, <1>7,
     <1>8, <1>9, <1>10, <1>11, <1>12, <1>13 DEF Next

\* What a proxy does with a note about t.
Noted(p, t) ==
  LET m == Head(notes[p])
      n == local_topics[p][t]
  IN  /\ notes[p] # <<>> /\ m \in {Subscribe(t), Cancel(t)}
      /\ notes' = [notes EXCEPT ![p] = Tail(@)]
      /\ local_topics' = [local_topics EXCEPT ![p][t] =
                            IF m = Subscribe(t) THEN n + 1 ELSE IF n = 0 THEN 0 ELSE n - 1]
      /\ up' = IF Linked(p) /\ (IF m = Subscribe(t) THEN n = 0 ELSE n = 1)
               THEN [up EXCEPT ![peer[p]] = Append(@, m)]
               ELSE up
      /\ UNCHANGED <<subs, watched, remote_topics, peer, reading, owner, broken, down,
                     master, ops>>

LEMMA Noting ==
  ASSUME TypeOK, NEW p \in Procs, OnLocalWatch(p)
  PROVE  \E t \in Topics : Noted(p, t)
<1> USE DEF TypeOK
<1>1. notes[p] # <<>> /\ notes' = [notes EXCEPT ![p] = Tail(@)]
      /\ UNCHANGED <<subs, watched, remote_topics, peer, reading, owner, broken, down,
                     master, ops>>
  BY DEF OnLocalWatch
<1>2. PICK m \in Message : m = Head(notes[p])
  BY <1>1, HeadTailProperties
<1>3. PICK t \in Topics : /\ t = m.topic /\ m \in {Subscribe(t), Cancel(t)}
                         /\ Subscribe(t) # Cancel(t) /\ (m.type = "cancel" <=> m = Cancel(t))
  BY MessageForms
<1>4. IF m = Cancel(t) THEN OnLocalCancel(p, m) ELSE OnLocalSubscribe(p, m)
  BY <1>2, <1>3 DEF OnLocalWatch
<1>5. PICK n : n = local_topics[p][t]
  OBVIOUS
<1>6. local_topics' = [local_topics EXCEPT ![p][t] =
                        IF m = Subscribe(t) THEN n + 1 ELSE IF n = 0 THEN 0 ELSE n - 1]
  BY <1>3, <1>4, <1>5 DEF OnLocalCancel, OnLocalSubscribe
<1>7. up' = IF Linked(p) /\ (IF m = Subscribe(t) THEN n = 0 ELSE n = 1)
            THEN [up EXCEPT ![peer[p]] = Append(@, m)] ELSE up
  BY <1>3, <1>4, <1>5 DEF OnLocalCancel, OnLocalSubscribe, SendToMaster, Linked
<1> QED
  BY <1>1, <1>2, <1>3, <1>5, <1>6, <1>7 DEF Noted

\* Counting back from the end of a queue.
LEMMA BeforeEnd ==
  ASSUME NEW q \in Seq(Message), NEW t \in Topics, NEW n \in Nat
  PROVE  /\ \A k \in Nat : Before(n, q, t, k) \in Int
         /\ Before(n, q, t, Len(q)) = n
         /\ Silent(q, t) => \A k \in Nat : Before(n, q, t, k) = n
<1>1. Subscribe(t) \in Message /\ Cancel(t) \in Message
      /\ Subscribe(t).topic = t /\ Cancel(t).topic = t
  BY MessageForms
<1>2. Copies(q, Subscribe(t)) \in Nat /\ Copies(q, Cancel(t)) \in Nat
  BY UptoType
<1>3. \A k \in Nat : Upto(q, Subscribe(t), k) \in Nat /\ Upto(q, Cancel(t), k) \in Nat
  BY UptoType
<1>4. Before(n, q, t, Len(q)) = n
  BY <1>2, UptoEnds DEF Before
<1>5. ASSUME Silent(q, t), NEW k \in Nat PROVE Before(n, q, t, k) = n
  <2>1. Copies(q, Subscribe(t)) = 0 /\ Upto(q, Subscribe(t), k) = 0
    BY <1>1, <1>5, SilentCopies
  <2>2. Copies(q, Cancel(t)) = 0 /\ Upto(q, Cancel(t), k) = 0
    BY <1>1, <1>5, SilentCopies
  <2> QED
    BY <2>1, <2>2 DEF Before
<1>6. ASSUME NEW k \in Nat PROVE Before(n, q, t, k) \in Int
  <2>1. PICK a \in Nat, b \in Nat : a = Copies(q, Subscribe(t)) /\ b = Copies(q, Cancel(t))
    BY <1>2
  <2>2. PICK c \in Nat, d \in Nat : c = Upto(q, Subscribe(t), k) /\ d = Upto(q, Cancel(t), k)
    BY <1>3
  <2>3. Before(n, q, t, k) = n + (b - d) - (a - c)
    BY <2>1, <2>2 DEF Before
  <2> QED
    BY <2>3
<1> QED
  BY <1>4, <1>5, <1>6

\* How the subscriptions to t change by what m tells.
Change(m, t) == IF m = Subscribe(t) THEN 1 ELSE IF m = Cancel(t) THEN 0 - 1 ELSE 0

LEMMA BeforeAppend ==
  ASSUME NEW q \in Seq(Message), NEW m \in Message, NEW t \in Topics, NEW n \in Nat,
         n + Change(m, t) \in Nat, NEW k \in 0..Len(q)
  PROVE  Before(n + Change(m, t), Append(q, m), t, k) = Before(n, q, t, k)
<1>1. Subscribe(t) # Cancel(t)
  BY MessageForms
<1>2. k \in Nat
  BY QueueShape
<1> DEFINE r == Append(q, m)
           s == Subscribe(t)
           c == Cancel(t)
<1>3. Upto(r, s, k) = Upto(q, s, k) /\ Upto(r, c, k) = Upto(q, c, k)
  <2>1. \A j \in 0..Len(q) : Upto(r, s, j) = Upto(q, s, j)
    BY UptoAppend
  <2>2. \A j \in 0..Len(q) : Upto(r, c, j) = Upto(q, c, j)
    BY UptoAppend
  <2> QED
    BY <2>1, <2>2
<1>4. /\ Copies(r, s) = Copies(q, s) + (IF s = m THEN 1 ELSE 0)
      /\ Copies(r, c) = Copies(q, c) + (IF c = m THEN 1 ELSE 0)
  BY UptoAppend
<1>5. Copies(q, s) \in Nat /\ Copies(q, c) \in Nat /\ Upto(q, s, k) \in Nat /\ Upto(q, c, k) \in Nat
  BY <1>2, UptoType
<1> HIDE DEF r, s, c
<1>6. PICK a \in Nat, b \in Nat : a = Copies(q, s) /\ b = Copies(q, c)
  BY <1>5
<1>7. PICK x \in Nat, y \in Nat : x = Upto(q, s, k) /\ y = Upto(q, c, k)
  BY <1>5
<1>8. PICK e \in 0..1 : e = IF s = m THEN 1 ELSE 0
  OBVIOUS
<1>9. PICK f \in 0..1 : f = IF c = m THEN 1 ELSE 0
  OBVIOUS
<1>10. Change(m, t) = e - f
  BY <1>1, <1>8, <1>9 DEF Change, s, c
<1>11. Before(n + Change(m, t), r, t, k) = (n + (e - f)) + ((b + f) - y) - ((a + e) - x)
  BY <1>3, <1>4, <1>6, <1>7, <1>8, <1>9, <1>10 DEF Before, s, c
<1>12. Before(n, q, t, k) = n + (b - y) - (a - x)
  BY <1>6, <1>7 DEF Before, s, c
<1> QED
  BY <1>11, <1>12 DEF r

LEMMA BeforeTail ==
  ASSUME NEW q \in Seq(Message), q # <<>>, NEW t \in Topics, NEW n \in Nat
  PROVE  /\ \A k \in 0..Len(Tail(q)) : Before(n, Tail(q), t, k) = Before(n, q, t, k + 1)
         /\ Before(n, q, t, 1) = Before(n, q, t, 0) + Change(Head(q), t)
<1> DEFINE r == Tail(q)
           s == Subscribe(t)
           c == Cancel(t)
<1>1. s # c
  BY MessageForms
<1>2. r \in Seq(Message) /\ Len(r) \in Nat
  BY TailShape
<1>3. PICK a \in 0..1 : a = IF s = Head(q) THEN 1 ELSE 0
  OBVIOUS
<1>4. PICK b \in 0..1 : b = IF c = Head(q) THEN 1 ELSE 0
  OBVIOUS
<1>5. Copies(q, s) = Copies(r, s) + a /\ Copies(q, c) = Copies(r, c) + b
  BY <1>3, <1>4, UptoTail
<1>6. \A k \in 0..Len(r) : Upto(q, s, k + 1) = Upto(r, s, k) + a
  BY <1>3, UptoTail
<1>7. \A k \in 0..Len(r) : Upto(q, c, k + 1) = Upto(r, c, k) + b
  BY <1>4, UptoTail
<1>8. Copies(r, s) \in Nat /\ Copies(r, c) \in Nat
  BY <1>2, UptoType
<1>9. \A k \in Nat : Upto(r, s, k) \in Nat /\ Upto(r, c, k) \in Nat
  BY <1>2, UptoType
<1>10. Upto(q, s, 0) = 0 /\ Upto(q, c, 0) = 0 /\ Upto(r, s, 0) = 0 /\ Upto(r, c, 0) = 0
  BY <1>2, UptoEnds
<1>11. Change(Head(q), t) = a - b
  BY <1>1, <1>3, <1>4 DEF Change
<1>12. Upto(q, s, 1) = a /\ Upto(q, c, 1) = b
  <2>1. 0 \in 0..Len(r) /\ 0 + 1 = 1
    BY <1>2
  <2> QED
    BY <2>1, <1>6, <1>7, <1>10
<1> HIDE DEF r, s, c
<1>13. ASSUME NEW k \in 0..Len(r) PROVE Before(n, r, t, k) = Before(n, q, t, k + 1)
  <2>1. Upto(r, s, k) \in Nat /\ Upto(r, c, k) \in Nat
    BY <1>2, <1>9
  <2> QED
    BY <2>1, <1>5, <1>6, <1>7, <1>8 DEF Before, s, c
<1>14. Before(n, q, t, 1) = Before(n, q, t, 0) + Change(Head(q), t)
  BY <1>5, <1>8, <1>10, <1>11, <1>12 DEF Before, s, c
<1> QED
  BY <1>13, <1>14 DEF r

\* What a proxy counts it was told of because it watches.
LEMMA UnstartedNext == ASSUME ClusterAssumption, TypeOK, Links, Unstarted, [Next]_vars PROVE Unstarted'
<1> USE DEF ClusterAssumption
<1>1. CASE UNCHANGED vars
  BY <1>1 DEF vars, bus, proxy, net, master, Unstarted, Made
<1>2. ASSUME NEW p \in Procs, NEW t \in Topics, LocalSubscribe(p, t) PROVE Unstarted'
  <2>1. PICK m \in Message : m = Subscribe(t) /\ m.topic = t
    BY MessageForms DEF TypeOK, Links, Unstarted, Made
  <2>2. notes' = IF t \in watched[p] THEN [notes EXCEPT ![p] = Append(@, m)] ELSE notes
    BY <1>2, <2>1 DEF LocalSubscribe, Tell, TypeOK, Links, Unstarted, Made
  <2>3. watched' = watched /\ owner' = owner /\ local_topics' = local_topics
        /\ remote_topics' = remote_topics
    BY <1>2 DEF LocalSubscribe, proxy, net, TypeOK, Links, Unstarted, Made
  <2>4. ASSUME NEW q \in Procs, NEW u \in Topics \ watched[q] PROVE Silent(notes'[q], u)
    <3>1. Silent(notes[q], u)
      BY DEF TypeOK, Links, Unstarted, Made
    <3>2. CASE notes'[q] = notes[q]
      BY <3>1, <3>2 DEF TypeOK, Links, Unstarted, Made
    <3>3. CASE notes'[q] # notes[q]
      <4>1. q = p /\ t \in watched[p] /\ notes'[p] = Append(notes[p], m)
        BY <2>2, <3>3 DEF TypeOK, Links, Unstarted, Made
      <4>2. m.topic # u /\ notes[p] \in Seq(Message)
        BY <2>1, <4>1 DEF TypeOK, Links, Unstarted, Made
      <4> QED
        BY <3>1, <4>1, <4>2, AppendWord DEF TypeOK, Links, Unstarted, Made
    <3> QED
      BY <3>2, <3>3 DEF TypeOK, Links, Unstarted, Made
  <2> QED
    BY <2>3, <2>4 DEF Unstarted, Made
<1>3. ASSUME NEW p \in Procs, NEW t \in Topics, LocalCancel(p, t) PROVE Unstarted'
  <2>1. PICK m \in Message : m = Cancel(t) /\ m.topic = t
    BY MessageForms DEF TypeOK, Links, Unstarted, Made
  <2>2. notes' = IF t \in watched[p] THEN [notes EXCEPT ![p] = Append(@, m)] ELSE notes
    BY <1>3, <2>1 DEF LocalCancel, Tell, TypeOK, Links, Unstarted, Made
  <2>3. watched' = watched /\ owner' = owner /\ local_topics' = local_topics
        /\ remote_topics' = remote_topics
    BY <1>3 DEF LocalCancel, proxy, net, TypeOK, Links, Unstarted, Made
  <2>4. ASSUME NEW q \in Procs, NEW u \in Topics \ watched[q] PROVE Silent(notes'[q], u)
    <3>1. Silent(notes[q], u)
      BY DEF TypeOK, Links, Unstarted, Made
    <3>2. CASE notes'[q] = notes[q]
      BY <3>1, <3>2 DEF TypeOK, Links, Unstarted, Made
    <3>3. CASE notes'[q] # notes[q]
      <4>1. q = p /\ t \in watched[p] /\ notes'[p] = Append(notes[p], m)
        BY <2>2, <3>3 DEF TypeOK, Links, Unstarted, Made
      <4>2. m.topic # u /\ notes[p] \in Seq(Message)
        BY <2>1, <4>1 DEF TypeOK, Links, Unstarted, Made
      <4> QED
        BY <3>1, <4>1, <4>2, AppendWord DEF TypeOK, Links, Unstarted, Made
    <3> QED
      BY <3>2, <3>3 DEF TypeOK, Links, Unstarted, Made
  <2> QED
    BY <2>3, <2>4 DEF Unstarted, Made
<1>4. ASSUME NEW p \in Procs, NEW t \in Topics, Watch(p, t) PROVE Unstarted'
  <2>1. /\ \A q \in Procs : watched[q] \subseteq watched'[q]
        /\ \A q \in Procs : Made(q) = {} => watched'[q] = watched[q]
    BY <1>4 DEF Watch, TypeOK
  <2>2. owner' = owner /\ notes' = notes /\ local_topics' = local_topics
        /\ remote_topics' = remote_topics
    BY <1>4 DEF Watch, proxy, net
  <2> QED
    BY <2>1, <2>2 DEF Unstarted, Made
<1>5. ASSUME NEW p \in Procs, Start(p) PROVE Unstarted'
  <2>1. PICK d \in Conns : owner[d] = None /\ owner' = [owner EXCEPT ![d] = p]
    BY <1>5 DEF Start, TypeOK, Links, Unstarted, Made
  <2>2. \A q \in Procs : Made(q)' = {} => Made(q) = {} /\ q # p
    BY <2>1 DEF TypeOK, Links, Unstarted, Made
  <2> QED
    BY <1>5, <2>2 DEF Start, bus, Unstarted, Made
<1>6. ASSUME NEW p \in Procs, Stop(p) PROVE Unstarted'
  <2>1. watched' = watched /\ owner' = owner /\ notes' = notes /\ local_topics' = local_topics /\ remote_topics' = remote_topics
    BY <1>6 DEF Stop, bus, proxy, net, master
  <2> QED
    BY <2>1 DEF Unstarted, Made
<1>7. ASSUME NEW p \in Procs, OnLocalWatch(p) PROVE Unstarted'
  <2>1. PICK t \in Topics : Noted(p, t)
    BY <1>7, Noting DEF TypeOK, Links, Unstarted, Made
  <2>2. ASSUME NEW q \in Procs, NEW u \in Topics \ watched[q]
        PROVE  Silent(notes'[q], u) /\ local_topics'[q][u] = 0
    <3>1. Silent(notes[q], u) /\ local_topics[q][u] = 0
      BY DEF TypeOK, Links, Unstarted, Made
    <3>2. CASE q # p
      BY <2>1, <3>1, <3>2 DEF Noted, TypeOK, Links, Unstarted, Made
    <3>3. CASE q = p
      <4>1. notes[p] # <<>> /\ notes[p] \in Seq(Message) /\ notes'[p] = Tail(notes[p])
            /\ Head(notes[p]) \in {Subscribe(t), Cancel(t)}
        BY <2>1 DEF Noted, TypeOK, Links, Unstarted, Made
      <4>2. Head(notes[p]).topic = t
        BY <4>1, MessageForms DEF TypeOK, Links, Unstarted, Made
      <4>3. Silent(Tail(notes[p]), u) /\ t # u
        BY <3>1, <3>3, <4>1, <4>2, TailWord, MessageForms DEF TypeOK, Links, Unstarted, Made
      <4> QED
        BY <2>1, <3>1, <3>3, <4>1, <4>3 DEF Noted, TypeOK, Links, Unstarted, Made
    <3> QED
      BY <3>2, <3>3 DEF TypeOK, Links, Unstarted, Made
  <2>3. watched' = watched /\ owner' = owner /\ remote_topics' = remote_topics
    BY <2>1 DEF Noted, TypeOK, Links, Unstarted, Made
  <2> QED
    BY <2>2, <2>3 DEF Unstarted, Made
<1>8. ASSUME NEW c \in Conns, ProxyReceive(c) PROVE Unstarted'
  <2>1. owner[c] \in Procs /\ c \in Made(owner[c])
    BY <1>8 DEF ProxyReceive, TypeOK, Links, Unstarted, Made
  <2>2. \A q \in Procs : q # owner[c] => remote_topics'[q] = remote_topics[q]
    BY <1>8, <2>1 DEF ProxyReceive, OnRemote, TypeOK, Links, Unstarted, Made
  <2> QED
    BY <1>8, <2>1, <2>2 DEF ProxyReceive, bus, Unstarted, Made
<1>9. ASSUME NEW c \in Conns, ProxyError(c) PROVE Unstarted'
  <2>1. watched' = watched /\ owner' = owner /\ notes' = notes /\ local_topics' = local_topics /\ remote_topics' = remote_topics
    BY <1>9 DEF ProxyError, bus, proxy, net, master
  <2> QED
    BY <2>1 DEF Unstarted, Made
<1>10. ASSUME NEW c \in Conns, Accept(c) PROVE Unstarted'
  <2>1. watched' = watched /\ owner' = owner /\ notes' = notes /\ local_topics' = local_topics /\ remote_topics' = remote_topics
    BY <1>10 DEF Accept, bus, proxy, net, master
  <2> QED
    BY <2>1 DEF Unstarted, Made
<1>11. ASSUME NEW c \in Conns, MasterReceive(c) PROVE Unstarted'
  <2>1. watched' = watched /\ owner' = owner /\ notes' = notes /\ local_topics' = local_topics /\ remote_topics' = remote_topics
    BY <1>11 DEF MasterReceive, bus, proxy, net, master
  <2> QED
    BY <2>1 DEF Unstarted, Made
<1>12. ASSUME NEW c \in Conns, MasterError(c) PROVE Unstarted'
  <2>1. watched' = watched /\ owner' = owner /\ notes' = notes /\ local_topics' = local_topics /\ remote_topics' = remote_topics
    BY <1>12 DEF MasterError, bus, proxy, net, master
  <2> QED
    BY <2>1 DEF Unstarted, Made
<1>13. ASSUME NEW c \in Conns, Break(c) PROVE Unstarted'
  <2>1. watched' = watched /\ owner' = owner /\ notes' = notes /\ local_topics' = local_topics /\ remote_topics' = remote_topics
    BY <1>13 DEF Break, bus, proxy, net, master
  <2> QED
    BY <2>1 DEF Unstarted, Made
<1> QED
  BY <1>1, <1>2, <1>3, <1>4, <1>5, <1>6, <1>7,
     <1>8, <1>9, <1>10, <1>11, <1>12, <1>13 DEF Next

\* One more subscription, or one less, and the note of it.
LEMMA WithinAppend ==
  ASSUME ClusterAssumption, NEW q \in Seq(Message), NEW m \in Message, NEW t \in Topics,
         NEW n \in 0..MaxSubs, n + Change(m, t) \in 0..MaxSubs, NEW l \in Nat,
         WithinCount(n, q, t, l)
  PROVE  WithinCount(n + Change(m, t), Append(q, m), t, l)
<1> USE DEF ClusterAssumption
<1>1. PICK r \in Seq(Message) : r = Append(q, m) /\ Len(r) = Len(q) + 1
  BY AppendShape
<1>2. PICK h \in Nat : h = Len(q)
  BY QueueShape
<1>3. PICK x \in 0..MaxSubs : x = n + Change(m, t)
  OBVIOUS
<1>4. \A k \in 0..h : Before(x, r, t, k) = Before(n, q, t, k)
  BY <1>1, <1>2, <1>3, BeforeAppend
<1>5. Before(x, r, t, h + 1) = x
  <2>1. Len(r) = h + 1 /\ x \in Nat
    BY <1>1, <1>2
  <2>2. Before(x, r, t, Len(r)) = x
    BY <2>1, BeforeEnd
  <2> QED
    BY <2>1, <2>2
<1>6. \A k \in 0..h : Before(n, q, t, k) \in 0..MaxSubs
  BY <1>2 DEF WithinCount
<1>7. \A k \in 0..(h + 1) : k \in 0..h \/ k = h + 1
  OBVIOUS
<1>8. \A k \in 0..(h + 1) : Before(x, r, t, k) \in 0..MaxSubs
  BY <1>3, <1>4, <1>5, <1>6, <1>7
<1>9. l <= Before(x, r, t, 0)
  <2>1. 0 \in 0..h /\ l <= Before(n, q, t, 0)
    BY DEF WithinCount
  <2> QED
    BY <1>4, <2>1
<1> QED
  BY <1>1, <1>2, <1>3, <1>8, <1>9 DEF WithinCount

\* Without notes of it, any number of subscriptions will do.
LEMMA WithinSilent ==
  ASSUME ClusterAssumption, NEW q \in Seq(Message), NEW t \in Topics, NEW n \in 0..MaxSubs,
         Silent(q, t)
  PROVE  WithinCount(n, q, t, 0)
<1>1. \A k \in Nat : Before(n, q, t, k) = n
  BY BeforeEnd DEF ClusterAssumption
<1>2. Len(q) \in Nat
  BY QueueShape
<1> QED
  BY <1>1, <1>2 DEF WithinCount, ClusterAssumption

\* The proxy follows a note.
LEMMA WithinTail ==
  ASSUME ClusterAssumption, NEW q \in Seq(Message), q # <<>>, NEW t \in Topics,
         NEW n \in 0..MaxSubs, NEW l \in Nat, WithinCount(n, q, t, l), NEW j \in Nat,
         \/ j = l + Change(Head(q), t)
         \/ l = 0 /\ j = 0 /\ Head(q) = Cancel(t)
  PROVE  WithinCount(n, Tail(q), t, j) /\ j <= MaxSubs
<1> USE DEF ClusterAssumption
<1>1. PICK r \in Seq(Message) : r = Tail(q)
  BY TailShape
<1>2. PICK h \in Nat : h = Len(r) /\ Len(q) = h + 1
  BY <1>1, TailShape
<1>3. \A k \in 0..h : Before(n, r, t, k) = Before(n, q, t, k + 1)
  BY <1>1, <1>2, BeforeTail
<1>4. Before(n, q, t, 1) = Before(n, q, t, 0) + Change(Head(q), t)
  BY BeforeTail
<1>5. \A k \in 0..(h + 1) : Before(n, q, t, k) \in 0..MaxSubs
  BY <1>2 DEF WithinCount
<1>6. \A k \in 0..h : k + 1 \in 0..(h + 1)
  OBVIOUS
<1>7. \A k \in 0..h : Before(n, r, t, k) \in 0..MaxSubs
  BY <1>3, <1>5, <1>6
<1>8. 0 \in 0..h /\ 0 + 1 = 1 /\ 0 \in 0..(h + 1)
  OBVIOUS
<1>9. PICK a \in 0..MaxSubs, b \in 0..MaxSubs : a = Before(n, q, t, 0) /\ b = Before(n, r, t, 0)
  BY <1>5, <1>7, <1>8
<1>10. PICK d \in Int : d = Change(Head(q), t)
  BY DEF Change
<1>11. b = a + d /\ l <= a
  BY <1>3, <1>4, <1>8, <1>9, <1>10 DEF WithinCount
<1>12. j <= b
  BY <1>10, <1>11
<1> QED
  BY <1>1, <1>2, <1>7, <1>9, <1>12 DEF WithinCount

\* How the count of a topic changes.
LEMMA Recount ==
  ASSUME TypeOK, ClusterAssumption, NEW p \in Procs, NEW t \in Topics, Noted(p, t), NEW u \in Topics
  PROVE  LET l == local_topics[p][u]
             j == local_topics'[p][u]
             m == Head(notes[p])
         IN  /\ j \in Nat
             /\ j = l + Change(m, u) \/ (l = 0 /\ j = 0 /\ m = Cancel(u))
<1>1. PICK m \in {Subscribe(t), Cancel(t)} : m = Head(notes[p])
  BY DEF Noted
<1>2. PICK l \in Nat : l = local_topics[p][u]
  BY DEF TypeOK, ClusterAssumption
<1>3. local_topics' = [local_topics EXCEPT ![p][t] =
        IF m = Subscribe(t) THEN local_topics[p][t] + 1
        ELSE IF local_topics[p][t] = 0 THEN 0 ELSE local_topics[p][t] - 1]
  BY <1>1 DEF Noted
<1>4. local_topics \in [Procs -> [Topics -> 0..MaxSubs]]
  BY DEF TypeOK
<1>5. CASE u = t /\ m = Subscribe(t)
  <2>1. Change(m, u) = 1
    BY <1>5 DEF Change
  <2>2. local_topics'[p][u] = l + 1
    BY <1>2, <1>3, <1>4, <1>5
  <2> QED
    BY <1>1, <1>2, <2>1, <2>2
<1>6. CASE u = t /\ m = Cancel(t)
  <2>1. m # Subscribe(t)
    BY <1>6, MessageForms
  <2>2. Change(m, u) = 0 - 1
    BY <1>6, <2>1 DEF Change
  <2>3. local_topics'[p][u] = IF l = 0 THEN 0 ELSE l - 1
    BY <1>2, <1>3, <1>4, <1>6, <2>1
  <2> QED
    BY <1>1, <1>2, <1>6, <2>2, <2>3
<1>7. CASE u # t
  <2>1. m # Subscribe(u) /\ m # Cancel(u)
    BY <1>7, MessageForms
  <2>2. Change(m, u) = 0
    BY <2>1 DEF Change
  <2>3. local_topics'[p][u] = l
    BY <1>2, <1>3, <1>4, <1>7
  <2> QED
    BY <1>1, <1>2, <2>2, <2>3
<1> QED
  BY <1>5, <1>6, <1>7

\* A proxy that is told of a subscription has counted less than there were then.
LEMMA CountedNext == ASSUME ClusterAssumption, TypeOK, Unstarted, Counted, [Next]_vars PROVE Counted'
<1> USE DEF ClusterAssumption
<1>t. \A q \in Procs, u \in Topics : /\ subs[q][u] \in 0..MaxSubs /\ notes[q] \in Seq(Message)
                                     /\ local_topics[q][u] \in Nat
  BY DEF TypeOK
<1>1. CASE UNCHANGED vars
  BY <1>1 DEF vars, bus, proxy, net, master, Counted
<1>2. ASSUME NEW p \in Procs, NEW t \in Topics, LocalSubscribe(p, t) PROVE Counted'
  <2>1. PICK m \in Message : m = Subscribe(t) /\ m.topic = t
    BY MessageForms
  <2>2. notes' = IF t \in watched[p] THEN [notes EXCEPT ![p] = Append(@, m)] ELSE notes
    BY <1>2, <2>1 DEF LocalSubscribe, Tell
  <2>3. local_topics' = local_topics /\ subs' = [subs EXCEPT ![p][t] = @ + 1]
        /\ subs[p][t] + 1 \in 0..MaxSubs
    BY <1>2, <1>t DEF LocalSubscribe, proxy
  <2>4. subs \in [Procs -> [Topics -> 0..MaxSubs]] /\ notes \in [Procs -> Seq(Message)]
    BY DEF TypeOK
  <2>5. ASSUME NEW q \in Procs, NEW u \in Topics
        PROVE  WithinCount(subs'[q][u], notes'[q], u, local_topics'[q][u])
    <3>0. PICK n \in 0..MaxSubs : n = subs[q][u]
      BY <1>t
    <3>1. PICK x \in Seq(Message) : x = notes[q]
      BY <1>t
    <3>2. PICK l \in Nat : l = local_topics[q][u]
      BY <1>t
    <3>3. WithinCount(n, x, u, l)
      BY <3>0, <3>1, <3>2 DEF Counted
    <3>4. CASE subs'[q][u] = subs[q][u] /\ notes'[q] = notes[q]
      BY <2>3, <3>0, <3>1, <3>2, <3>3, <3>4
    <3>5. CASE q = p /\ t \in watched[p]
      <4>1. subs'[q][u] = n + Change(m, u)
        BY <2>1, <2>3, <2>4, <3>0, <3>5, MessageForms DEF Change
      <4>2. subs'[q][u] \in 0..MaxSubs
        BY <2>3, <2>4, <3>5
      <4>3. WithinCount(n + Change(m, u), Append(x, m), u, l)
        BY <3>3, <4>1, <4>2, WithinAppend
      <4>4. notes'[q] = Append(x, m)
        BY <2>2, <2>4, <3>1, <3>5
      <4> QED
        BY <2>3, <3>2, <4>1, <4>3, <4>4
    <3>6. CASE q = p /\ u = t /\ t \notin watched[p]
      <4>1. subs'[q][u] \in 0..MaxSubs /\ notes'[q] = x
        BY <2>2, <2>3, <2>4, <3>1, <3>6
      <4>2. Silent(x, u) /\ local_topics[q][u] = 0
        BY <3>1, <3>6 DEF Unstarted
      <4>3. WithinCount(subs'[q][u], x, u, 0)
        BY <4>1, <4>2, WithinSilent
      <4> QED
        BY <2>3, <4>1, <4>2, <4>3
    <3> QED
      BY <2>2, <2>3, <2>4, <3>4, <3>5, <3>6
  <2> QED
    BY <2>5 DEF Counted
<1>3. ASSUME NEW p \in Procs, NEW t \in Topics, LocalCancel(p, t) PROVE Counted'
  <2>1. PICK m \in Message : m = Cancel(t) /\ m.topic = t
    BY MessageForms
  <2>2. notes' = IF t \in watched[p] THEN [notes EXCEPT ![p] = Append(@, m)] ELSE notes
    BY <1>3, <2>1 DEF LocalCancel, Tell
  <2>3. local_topics' = local_topics /\ subs' = [subs EXCEPT ![p][t] = @ - 1]
        /\ subs[p][t] - 1 \in 0..MaxSubs
    BY <1>3, <1>t DEF LocalCancel, proxy
  <2>4. subs \in [Procs -> [Topics -> 0..MaxSubs]] /\ notes \in [Procs -> Seq(Message)]
    BY DEF TypeOK
  <2>5. ASSUME NEW q \in Procs, NEW u \in Topics
        PROVE  WithinCount(subs'[q][u], notes'[q], u, local_topics'[q][u])
    <3>0. PICK n \in 0..MaxSubs : n = subs[q][u]
      BY <1>t
    <3>1. PICK x \in Seq(Message) : x = notes[q]
      BY <1>t
    <3>2. PICK l \in Nat : l = local_topics[q][u]
      BY <1>t
    <3>3. WithinCount(n, x, u, l)
      BY <3>0, <3>1, <3>2 DEF Counted
    <3>4. CASE subs'[q][u] = subs[q][u] /\ notes'[q] = notes[q]
      BY <2>3, <3>0, <3>1, <3>2, <3>3, <3>4
    <3>5. CASE q = p /\ t \in watched[p]
      <4>1. subs'[q][u] = n + Change(m, u)
        BY <2>1, <2>3, <2>4, <3>0, <3>5, MessageForms DEF Change
      <4>2. subs'[q][u] \in 0..MaxSubs
        BY <2>3, <2>4, <3>5
      <4>3. WithinCount(n + Change(m, u), Append(x, m), u, l)
        BY <3>3, <4>1, <4>2, WithinAppend
      <4>4. notes'[q] = Append(x, m)
        BY <2>2, <2>4, <3>1, <3>5
      <4> QED
        BY <2>3, <3>2, <4>1, <4>3, <4>4
    <3>6. CASE q = p /\ u = t /\ t \notin watched[p]
      <4>1. subs'[q][u] \in 0..MaxSubs /\ notes'[q] = x
        BY <2>2, <2>3, <2>4, <3>1, <3>6
      <4>2. Silent(x, u) /\ local_topics[q][u] = 0
        BY <3>1, <3>6 DEF Unstarted
      <4>3. WithinCount(subs'[q][u], x, u, 0)
        BY <4>1, <4>2, WithinSilent
      <4> QED
        BY <2>3, <4>1, <4>2, <4>3
    <3> QED
      BY <2>2, <2>3, <2>4, <3>4, <3>5, <3>6
  <2> QED
    BY <2>5 DEF Counted
<1>4. ASSUME NEW p \in Procs, NEW t \in Topics, Watch(p, t) PROVE Counted'
  BY <1>4 DEF Watch, Counted, bus, proxy, net, master
<1>5. ASSUME NEW p \in Procs, Start(p) PROVE Counted'
  BY <1>5 DEF Start, Counted, bus, proxy, net, master
<1>6. ASSUME NEW p \in Procs, Stop(p) PROVE Counted'
  BY <1>6 DEF Stop, Counted, bus, proxy, net, master
<1>7. ASSUME NEW p \in Procs, OnLocalWatch(p) PROVE Counted'
  <2>1. PICK t \in Topics : Noted(p, t)
    BY <1>7, Noting
  <2>2. ASSUME NEW q \in Procs, NEW u \in Topics
        PROVE  WithinCount(subs'[q][u], notes'[q], u, local_topics'[q][u])
    <3>1. CASE q # p
      <4>1. subs' = subs /\ notes'[q] = notes[q] /\ local_topics'[q] = local_topics[q]
        BY <2>1, <3>1 DEF Noted, TypeOK
      <4> QED
        BY <4>1 DEF Counted
    <3>2. CASE q = p
      <4>1. PICK x \in Seq(Message) : x = notes[p]
        BY <1>t
      <4>2. x # <<>> /\ notes'[p] = Tail(x) /\ Head(x) \in {Subscribe(t), Cancel(t)} /\ subs' = subs
        BY <2>1, <4>1 DEF Noted, TypeOK
      <4>3. PICK n \in 0..MaxSubs : n = subs[p][u]
        BY <1>t
      <4>4. PICK l \in Nat : l = local_topics[p][u]
        BY <1>t
      <4>5. WithinCount(n, x, u, l)
        BY <4>1, <4>3, <4>4 DEF Counted
      <4>6. PICK j \in Nat : /\ j = local_topics'[p][u]
                             /\ \/ j = l + Change(Head(x), u)
                                \/ l = 0 /\ j = 0 /\ Head(x) = Cancel(u)
        BY <2>1, <3>2, <4>1, <4>4, Recount
      <4>7. WithinCount(n, Tail(x), u, j)
        BY <4>2, <4>5, <4>6, WithinTail
      <4> QED
        BY <3>2, <4>2, <4>3, <4>6, <4>7
    <3> QED
      BY <3>1, <3>2
  <2> QED
    BY <2>2 DEF Counted
<1>8. ASSUME NEW c \in Conns, ProxyReceive(c) PROVE Counted'
  BY <1>8 DEF ProxyReceive, Counted, bus, proxy, net, master
<1>9. ASSUME NEW c \in Conns, ProxyError(c) PROVE Counted'
  BY <1>9 DEF ProxyError, Counted, bus, proxy, net, master
<1>10. ASSUME NEW c \in Conns, Accept(c) PROVE Counted'
  BY <1>10 DEF Accept, Counted, bus, proxy, net, master
<1>11. ASSUME NEW c \in Conns, MasterReceive(c) PROVE Counted'
  BY <1>11 DEF MasterReceive, Counted, bus, proxy, net, master
<1>12. ASSUME NEW c \in Conns, MasterError(c) PROVE Counted'
  BY <1>12 DEF MasterError, Counted, bus, proxy, net, master
<1>13. ASSUME NEW c \in Conns, Break(c) PROVE Counted'
  BY <1>13 DEF Break, Counted, bus, proxy, net, master
<1> QED
  BY <1>1, <1>2, <1>3, <1>4, <1>5, <1>6, <1>7,
     <1>8, <1>9, <1>10, <1>11, <1>12, <1>13 DEF Next

\* Nothing changes in what a proxy has counted, in what it sends the master, and in
\* what the master knows of it; and no proxy gets a connection.
Steady ==
  /\ up' = up /\ topics' = topics /\ local_topics' = local_topics
  /\ \A p \in Procs : /\ Linked(p)' => Linked(p) /\ peer'[p] = peer[p]
                      /\ First(p)' => First(p) /\ peer'[p] = peer[p]

\* The actions that are not steady.
Telling ==
  \/ \E p \in Procs : Start(p) \/ OnLocalWatch(p)
  \/ \E c \in Conns : MasterReceive(c)

\* All others are.
LEMMA SteadyNext == ASSUME ClusterAssumption, TypeOK, Links, [Next]_vars PROVE Steady \/ Telling
<1> USE DEF ClusterAssumption
<1>1. CASE UNCHANGED vars
  BY <1>1 DEF vars, bus, proxy, net, master, Steady, Linked, First, Made
<1>2. ASSUME NEW p \in Procs, NEW t \in Topics, LocalSubscribe(p, t) PROVE Steady \/ Telling
  <2>1. up' = up /\ topics' = topics /\ local_topics' = local_topics /\ peer' = peer /\ broken' = broken /\ owner' = owner
    BY <1>2 DEF LocalSubscribe, bus, proxy, net, master
  <2> QED
    BY <2>1 DEF Steady, Linked, First, Made
<1>3. ASSUME NEW p \in Procs, NEW t \in Topics, LocalCancel(p, t) PROVE Steady \/ Telling
  <2>1. up' = up /\ topics' = topics /\ local_topics' = local_topics /\ peer' = peer /\ broken' = broken /\ owner' = owner
    BY <1>3 DEF LocalCancel, bus, proxy, net, master
  <2> QED
    BY <2>1 DEF Steady, Linked, First, Made
<1>4. ASSUME NEW p \in Procs, NEW t \in Topics, Watch(p, t) PROVE Steady \/ Telling
  <2>1. up' = up /\ topics' = topics /\ local_topics' = local_topics /\ peer' = peer /\ broken' = broken /\ owner' = owner
    BY <1>4 DEF Watch, bus, proxy, net, master
  <2> QED
    BY <2>1 DEF Steady, Linked, First, Made
<1>5. ASSUME NEW p \in Procs, Start(p) PROVE Steady \/ Telling
  BY <1>5 DEF Telling
<1>6. ASSUME NEW p \in Procs, Stop(p) PROVE Steady \/ Telling
  <2>1. up' = up /\ topics' = topics /\ local_topics' = local_topics /\ owner' = owner
        /\ broken \subseteq broken'
        /\ \A q \in Procs : peer'[q] = peer[q] \/ peer'[q] = None
    BY <1>6 DEF Stop, TypeOK, Links, bus, proxy, net, master
  <2> QED
    BY <2>1 DEF Steady, Linked, First, Made
<1>7. ASSUME NEW p \in Procs, OnLocalWatch(p) PROVE Steady \/ Telling
  BY <1>7 DEF Telling
<1>8. ASSUME NEW c \in Conns, ProxyReceive(c) PROVE Steady \/ Telling
  <2>1. up' = up /\ topics' = topics /\ local_topics' = local_topics /\ peer' = peer /\ broken' = broken /\ owner' = owner
    BY <1>8 DEF ProxyReceive, bus, proxy, net, master
  <2> QED
    BY <2>1 DEF Steady, Linked, First, Made
<1>9. ASSUME NEW c \in Conns, ProxyError(c) PROVE Steady \/ Telling
  <2>1. up' = up /\ topics' = topics /\ local_topics' = local_topics /\ owner' = owner
        /\ broken \subseteq broken'
        /\ \A q \in Procs : peer'[q] = peer[q] \/ peer'[q] = None
    BY <1>9 DEF ProxyError, TypeOK, Links, bus, proxy, net, master
  <2> QED
    BY <2>1 DEF Steady, Linked, First, Made
<1>10. ASSUME NEW c \in Conns, Accept(c) PROVE Steady \/ Telling
  <2>1. up' = up /\ topics' = topics /\ local_topics' = local_topics /\ peer' = peer /\ broken' = broken /\ owner' = owner
    BY <1>10 DEF Accept, bus, proxy, net, master
  <2> QED
    BY <2>1 DEF Steady, Linked, First, Made
<1>11. ASSUME NEW c \in Conns, MasterReceive(c) PROVE Steady \/ Telling
  BY <1>11 DEF Telling
<1>12. ASSUME NEW c \in Conns, MasterError(c) PROVE Steady \/ Telling
  <2>1. up' = up /\ topics' = topics /\ local_topics' = local_topics /\ peer' = peer /\ broken' = broken /\ owner' = owner
    BY <1>12 DEF MasterError, bus, proxy, net, master
  <2> QED
    BY <2>1 DEF Steady, Linked, First, Made
<1>13. ASSUME NEW c \in Conns, Break(c) PROVE Steady \/ Telling
  <2>1. up' = up /\ topics' = topics /\ local_topics' = local_topics /\ owner' = owner
        /\ broken \subseteq broken'
        /\ \A q \in Procs : peer'[q] = peer[q] \/ peer'[q] = None
    BY <1>13 DEF Break, TypeOK, Links, bus, proxy, net, master
  <2> QED
    BY <2>1 DEF Steady, Linked, First, Made
<1> QED
  BY <1>1, <1>2, <1>3, <1>4, <1>5, <1>6, <1>7,
     <1>8, <1>9, <1>10, <1>11, <1>12, <1>13 DEF Next

\* A new connection has carried nothing, and a proxy that is on its first one has
\* counted nothing.
LEMMA Starting ==
  ASSUME ClusterAssumption, TypeOK, Links, Unstarted, NEW p \in Procs, Start(p)
  PROVE  /\ up' = up /\ topics' = topics /\ down' = down /\ local_topics' = local_topics
         /\ remote_topics' = remote_topics /\ sessions' = sessions /\ accepted' = accepted
         /\ \A q \in Procs \ {p} : /\ peer'[q] = peer[q]
                                   /\ Linked(q)' => Linked(q)
                                   /\ First(q)' => First(q)
         /\ peer'[p] \in Conns /\ peer'[p] \notin accepted /\ peer'[p] \notin sessions
         /\ up[peer'[p]] = <<>> /\ topics[peer'[p]] = {}
         /\ First(p)' => \A t \in Topics : local_topics[p][t] = 0 /\ remote_topics[p][t] = 0
<1>1. PICK d \in Conns : owner[d] = None /\ owner' = [owner EXCEPT ![d] = p]
                         /\ peer' = [peer EXCEPT ![p] = d]
  BY DEF Start
<1>2. up' = up /\ topics' = topics /\ down' = down /\ local_topics' = local_topics
      /\ remote_topics' = remote_topics /\ sessions' = sessions /\ accepted' = accepted
      /\ broken' = broken
  BY DEF Start, master
<1>3. up[d] = <<>> /\ d \notin accepted /\ d \notin sessions /\ topics[d] = {}
  BY <1>1 DEF Links
<1>4. peer'[p] = d
  BY <1>1 DEF TypeOK
<1>5. ASSUME NEW q \in Procs \ {p}
      PROVE  peer'[q] = peer[q] /\ (Linked(q)' => Linked(q)) /\ (First(q)' => First(q))
  <2>1. peer'[q] = peer[q]
    BY <1>1 DEF TypeOK
  <2>2. Made(q)' = Made(q)
    BY <1>1 DEF TypeOK, Made, ClusterAssumption
  <2> QED
    BY <1>2, <2>1, <2>2 DEF Linked, First
<1>6. ASSUME First(p)', NEW t \in Topics
      PROVE  local_topics[p][t] = 0 /\ remote_topics[p][t] = 0
  <2>1. Made(p)' = {d}
    BY <1>4, <1>6 DEF First
  <2>2. Made(p) \subseteq Made(p)' /\ d \notin Made(p)
    BY <1>1 DEF TypeOK, Made, ClusterAssumption
  <2>3. Made(p) = {}
    BY <2>1, <2>2
  <2> QED
    BY <2>3 DEF Unstarted
<1> QED
  BY <1>2, <1>3, <1>4, <1>5, <1>6

\* What the master knows of a session follows what it receives.
LEMMA Following ==
  ASSUME TypeOK, NEW c \in Conns, NEW t \in Topics, Received(c, t), NEW u \in Topics
  PROVE  /\ Follows(Head(up[c]), u, topics[c], topics'[c])
         /\ up'[c] = Tail(up[c]) /\ up[c] # <<>> /\ up[c] \in Seq(Message)
         /\ \A d \in Conns : d # c => up'[d] = up[d] /\ topics'[d] = topics[d]
         /\ local_topics' = local_topics
         /\ \A p \in Procs : /\ peer'[p] = peer[p]
                             /\ Linked(p)' => Linked(p)
                             /\ First(p)' => First(p)
<1>1. PICK m \in {Subscribe(t), Cancel(t)} : m = Head(up[c])
  BY DEF Received
<1>2. topics'[c] = IF m = Cancel(t) THEN topics[c] \ {t} ELSE topics[c] \union {t}
  BY <1>1 DEF Received, TypeOK
<1>3. Follows(m, u, topics[c], topics'[c])
  BY <1>1, <1>2, MessageForms DEF Follows
<1>4. up'[c] = Tail(up[c]) /\ up[c] # <<>> /\ up[c] \in Seq(Message)
      /\ \A d \in Conns : d # c => up'[d] = up[d] /\ topics'[d] = topics[d]
  BY DEF Received, TypeOK
<1>5. local_topics' = local_topics /\ peer' = peer /\ broken' = broken /\ owner' = owner
  BY DEF Received, proxy
<1> QED
  BY <1>1, <1>3, <1>4, <1>5 DEF Linked, First, Made

\* A session subscribes only to what it is not subscribed to.
LEMMA AnnouncedNext ==
  ASSUME ClusterAssumption, TypeOK, Links, Unstarted, Announced, [Next]_vars
  PROVE  Announced'
<1>1. CASE Steady
  <2>1. \A c \in Conns, t \in Topics : Alternates(up'[c], t, topics'[c])
    BY <1>1 DEF Announced, Steady
  <2>2. \A p \in Procs, t \in Topics :
          Linked(p)' /\ local_topics'[p][t] = 0 => Ready(up'[peer'[p]], t, topics'[peer'[p]])
    BY <1>1 DEF Announced, Steady
  <2> QED
    BY <2>1, <2>2 DEF Announced
<1>2. ASSUME NEW p \in Procs, Start(p) PROVE Announced'
  <2>1. \A c \in Conns, t \in Topics : Alternates(up'[c], t, topics'[c])
    BY <1>2, Starting DEF Announced
  <2>2. ASSUME NEW q \in Procs, NEW t \in Topics, Linked(q)', local_topics'[q][t] = 0
        PROVE  Ready(up'[peer'[q]], t, topics'[peer'[q]])
    <3>1. CASE q = p
      <4>1. up'[peer'[p]] = <<>> /\ topics'[peer'[p]] = {}
        BY <1>2, Starting
      <4>2. Ready(<<>>, t, {})
        BY DEF Ready, Silent
      <4> QED
        BY <3>1, <4>1, <4>2
    <3>2. CASE q # p
      <4>1. peer'[q] = peer[q] /\ Linked(q) /\ up' = up /\ topics' = topics
            /\ local_topics' = local_topics
        BY <1>2, <2>2, <3>2, Starting
      <4> QED
        BY <2>2, <4>1 DEF Announced
    <3> QED
      BY <3>1, <3>2
  <2> QED
    BY <2>1, <2>2 DEF Announced
<1>3. ASSUME NEW p \in Procs, OnLocalWatch(p) PROVE Announced'
  <2>1. PICK t \in Topics : Noted(p, t)
    BY <1>3, Noting
  <2>2. PICK m \in {Subscribe(t), Cancel(t)} : m = Head(notes[p])
    BY <2>1 DEF Noted
  <2>3. topics' = topics /\ peer' = peer /\ broken' = broken
    BY <2>1 DEF Noted, master
  <2>4. local_topics' = [local_topics EXCEPT ![p][t] =
          IF m = Subscribe(t) THEN local_topics[p][t] + 1
          ELSE IF local_topics[p][t] = 0 THEN 0 ELSE local_topics[p][t] - 1]
    BY <2>1, <2>2 DEF Noted
  <2>5. m \in Message /\ m.topic = t
    BY <2>2, MessageForms
  <2>6. ASSUME NEW q \in Procs, NEW u \in Topics, q # p \/ u # t
        PROVE  local_topics'[q][u] = local_topics[q][u]
    BY <2>4, <2>6 DEF TypeOK
  <2>7. local_topics[p][t] \in Nat
    BY DEF TypeOK, ClusterAssumption
  <2>8. CASE up' = up
    <3>1. ASSUME NEW q \in Procs, NEW u \in Topics, Linked(q)', local_topics'[q][u] = 0
          PROVE  Ready(up'[peer'[q]], u, topics'[peer'[q]])
      <4>1. Linked(q)
        BY <2>3, <3>1 DEF Linked
      <4>2. CASE local_topics[q][u] = 0
        BY <2>3, <2>8, <4>1, <4>2 DEF Announced
      <4>3. CASE local_topics[q][u] # 0
        <5>1. q = p /\ u = t
          BY <2>6, <3>1, <4>3
        <5>2. local_topics'[p][t] = IF m = Subscribe(t) THEN local_topics[p][t] + 1
                                    ELSE local_topics[p][t] - 1
          BY <2>4, <4>3, <5>1 DEF TypeOK
        <5>3. m # Subscribe(t) /\ local_topics[p][t] = 1
          BY <2>7, <3>1, <5>1, <5>2
        <5>4. peer[p] \in Conns
          BY <4>1, <5>1 DEF Linked, TypeOK
        <5>5. up' = [up EXCEPT ![peer[p]] = Append(@, m)]
          BY <2>1, <2>2, <4>1, <5>1, <5>3 DEF Noted
        <5>6. Len(Append(up[peer[p]], m)) = Len(up[peer[p]]) + 1 /\ Len(up[peer[p]]) \in Nat
          BY <2>5, <5>4, AppendShape DEF TypeOK
        <5>7. up'[peer[p]] = Append(up[peer[p]], m)
          BY <5>4, <5>5 DEF TypeOK
        <5> QED
          BY <2>8, <5>6, <5>7
      <4> QED
        BY <4>2, <4>3
    <3> QED
      BY <2>3, <2>8, <3>1 DEF Announced
  <2>9. CASE up' # up
    <3>1. /\ Linked(p) /\ up' = [up EXCEPT ![peer[p]] = Append(@, m)]
          /\ IF m = Subscribe(t) THEN local_topics[p][t] = 0 ELSE local_topics[p][t] = 1
      BY <2>1, <2>2, <2>9 DEF Noted
    <3>2. PICK c \in Conns : c = peer[p] /\ owner[c] = p
      BY <3>1 DEF Linked, TypeOK, Links
    <3>3. PICK x \in Seq(Message) : x = up[c]
      BY DEF TypeOK
    <3>4. up'[c] = Append(x, m) /\ \A d \in Conns : d # c => up'[d] = up[d]
      BY <3>1, <3>2, <3>3 DEF TypeOK
    <3>5. ASSUME NEW d \in Conns, NEW u \in Topics PROVE Alternates(up'[d], u, topics'[d])
      <4>1. Alternates(up[d], u, topics[d])
        BY DEF Announced
      <4>2. CASE d # c
        BY <2>3, <3>4, <4>1, <4>2
      <4>3. CASE d = c
        <5>1. m = Subscribe(u) => Ready(x, u, topics[c])
          <6>1. ASSUME m = Subscribe(u) PROVE u = t /\ m = Subscribe(t)
            BY <2>2, <2>5, <6>1, MessageForms
          <6> QED
            BY <3>1, <3>2, <3>3, <6>1 DEF Announced
        <5>2. Alternates(x, u, topics[c])
          BY <3>3, <4>1, <4>3
        <5>3. Alternates(Append(x, m), u, topics[c])
          BY <2>5, <5>1, <5>2, AppendAlternates
        <5> QED
          BY <2>3, <3>4, <4>3, <5>3
      <4> QED
        BY <4>2, <4>3
    <3>6. ASSUME NEW q \in Procs, NEW u \in Topics, Linked(q)', local_topics'[q][u] = 0
          PROVE  Ready(up'[peer'[q]], u, topics'[peer'[q]])
      <4>1. Linked(q)
        BY <2>3, <3>6 DEF Linked
      <4>2. CASE q # p
        <5>1. peer[q] \in Conns /\ owner[peer[q]] = q
          BY <4>1 DEF Linked, TypeOK, Links
        <5>2. up'[peer[q]] = up[peer[q]]
          BY <3>2, <3>4, <4>2, <5>1
        <5>3. local_topics[q][u] = 0
          BY <2>6, <3>6, <4>2
        <5> QED
          BY <2>3, <4>1, <5>2, <5>3 DEF Announced
      <4>3. CASE q = p /\ u # t
        <5>1. local_topics[p][u] = 0
          BY <2>6, <3>6, <4>3
        <5>2. Ready(x, u, topics[c])
          BY <3>1, <3>2, <3>3, <5>1 DEF Announced
        <5>3. Ready(Append(x, m), u, topics[c])
          BY <2>5, <4>3, <5>2, AppendReady
        <5> QED
          BY <2>3, <3>2, <3>4, <4>3, <5>3
      <4>4. CASE q = p /\ u = t
        <5>1. m = Cancel(t)
          <6>1. ASSUME m = Subscribe(t) PROVE FALSE
            <7>1. local_topics'[p][t] = local_topics[p][t] + 1
              BY <2>4, <6>1 DEF TypeOK
            <7> QED
              BY <2>7, <3>6, <4>4, <7>1
          <6> QED
            BY <2>2, <6>1
        <5>2. Ready(Append(x, m), u, topics[c])
          BY <2>5, <4>4, <5>1, AppendReady
        <5> QED
          BY <2>3, <3>2, <3>4, <4>4, <5>2
      <4> QED
        BY <4>2, <4>3, <4>4
    <3> QED
      BY <3>5, <3>6 DEF Announced
  <2> QED
    BY <2>8, <2>9
<1>4. ASSUME NEW c \in Conns, MasterReceive(c) PROVE Announced'
  <2>1. PICK t \in Topics : Received(c, t)
    BY <1>4, Receipt
  <2>2. ASSUME NEW d \in Conns, NEW u \in Topics PROVE Alternates(up'[d], u, topics'[d])
    <3>1. Alternates(up[d], u, topics[d])
      BY DEF Announced
    <3>2. CASE d # c
      BY <2>1, <3>1, <3>2, Following
    <3>3. CASE d = c
      <4>1. Follows(Head(up[c]), u, topics[c], topics'[c]) /\ up'[c] = Tail(up[c])
            /\ up[c] # <<>> /\ up[c] \in Seq(Message)
        BY <2>1, Following
      <4> QED
        BY <3>1, <3>3, <4>1, TailAlternates
    <3> QED
      BY <3>2, <3>3
  <2>3. ASSUME NEW q \in Procs, NEW u \in Topics, Linked(q)', local_topics'[q][u] = 0
        PROVE  Ready(up'[peer'[q]], u, topics'[peer'[q]])
    <3>1. Linked(q) /\ peer'[q] = peer[q] /\ local_topics[q][u] = 0
      BY <2>1, <2>3, Following
    <3>2. Ready(up[peer[q]], u, topics[peer[q]]) /\ peer[q] \in Conns
      BY <3>1 DEF Announced, Linked, TypeOK
    <3>3. CASE peer[q] # c
      BY <2>1, <3>1, <3>2, <3>3, Following
    <3>4. CASE peer[q] = c
      <4>1. Follows(Head(up[c]), u, topics[c], topics'[c]) /\ up'[c] = Tail(up[c])
            /\ up[c] # <<>> /\ up[c] \in Seq(Message)
        BY <2>1, Following
      <4> QED
        BY <3>1, <3>2, <3>4, <4>1, TailReady
    <3> QED
      BY <3>3, <3>4
  <2> QED
    BY <2>2, <2>3 DEF Announced
<1> QED
  BY <1>1, <1>2, <1>3, <1>4, SteadyNext DEF Telling

\* SessionExact, in the words of Exact.
Agreed ==
  \A p \in Procs, t \in Topics :
    First(p) => Exact(up[peer[p]], t, topics[peer[p]], local_topics[p][t])

LEMMA AgreedIs == SessionExact <=> Agreed
BY DEF SessionExact, Agreed, Exact

\* A session on a first connection stays exact.
LEMMA AgreedNext ==
  ASSUME ClusterAssumption, TypeOK, Links, Unstarted, Agreed, [Next]_vars
  PROVE  Agreed'
<1>1. CASE Steady
  BY <1>1 DEF Agreed, Steady
<1>2. ASSUME NEW p \in Procs, Start(p) PROVE Agreed'
  <2>1. ASSUME NEW q \in Procs, NEW t \in Topics, First(q)'
        PROVE  Exact(up'[peer'[q]], t, topics'[peer'[q]], local_topics'[q][t])
    <3>1. CASE q = p
      <4>1. up'[peer'[p]] = <<>> /\ topics'[peer'[p]] = {}
        BY <1>2, Starting
      <4>2. local_topics'[p][t] = 0
        BY <1>2, <2>1, <3>1, Starting
      <4>3. Exact(<<>>, t, {}, 0)
        BY DEF Exact, Silent
      <4> QED
        BY <3>1, <4>1, <4>2, <4>3
    <3>2. CASE q # p
      <4>1. peer'[q] = peer[q] /\ First(q) /\ up' = up /\ topics' = topics
            /\ local_topics' = local_topics
        BY <1>2, <2>1, <3>2, Starting
      <4> QED
        BY <4>1 DEF Agreed
    <3> QED
      BY <3>1, <3>2
  <2> QED
    BY <2>1 DEF Agreed
<1>3. ASSUME NEW p \in Procs, OnLocalWatch(p) PROVE Agreed'
  <2>1. PICK t \in Topics : Noted(p, t)
    BY <1>3, Noting
  <2>2. PICK m \in {Subscribe(t), Cancel(t)} : m = Head(notes[p])
    BY <2>1 DEF Noted
  <2>3. m \in Message /\ m.topic = t /\ Subscribe(t) # Cancel(t)
    BY <2>2, MessageForms
  <2>4. topics' = topics /\ peer' = peer /\ broken' = broken /\ owner' = owner
    BY <2>1 DEF Noted, master
  <2>5. PICK n \in Nat : n = local_topics[p][t]
    BY DEF TypeOK, ClusterAssumption
  <2>6. PICK l \in Nat : l = IF m = Subscribe(t) THEN n + 1 ELSE IF n = 0 THEN 0 ELSE n - 1
    OBVIOUS
  <2>7. local_topics' = [local_topics EXCEPT ![p][t] = l]
    BY <2>1, <2>2, <2>5, <2>6 DEF Noted
  <2>8. up' = IF Linked(p) /\ (IF m = Subscribe(t) THEN n = 0 ELSE n = 1)
              THEN [up EXCEPT ![peer[p]] = Append(@, m)] ELSE up
    BY <2>1, <2>2, <2>5 DEF Noted
  <2>9. ASSUME NEW q \in Procs, NEW u \in Topics, First(q)'
        PROVE  Exact(up'[peer'[q]], u, topics'[peer'[q]], local_topics'[q][u])
    <3>1. First(q) /\ Linked(q) /\ peer[q] \in Conns /\ owner[peer[q]] = q
      BY <2>4, <2>9 DEF First, Linked, Made, TypeOK, Links
    <3>2. PICK x \in Seq(Message) : x = up[peer[q]]
      BY <3>1 DEF TypeOK
    <3>3. PICK k \in Nat : k = local_topics[q][u]
      BY DEF TypeOK, ClusterAssumption
    <3>4. Exact(x, u, topics[peer[q]], k)
      BY <3>1, <3>2, <3>3 DEF Agreed
    <3>5. CASE q # p
      <4>1. up'[peer[q]] = x
        BY <2>8, <3>1, <3>2, <3>5 DEF TypeOK, Links, Linked
      <4>2. local_topics'[q][u] = k
        BY <2>7, <3>3, <3>5 DEF TypeOK
      <4> QED
        BY <2>4, <3>4, <4>1, <4>2
    <3>6. CASE q = p /\ ~(IF m = Subscribe(t) THEN n = 0 ELSE n = 1)
      <4>1. up' = up
        BY <2>8, <3>6
      <4>2. l > 0 <=> n > 0
        BY <2>6, <3>6
      <4>3. PICK j \in Nat : j = local_topics'[p][u] /\ (j > 0 <=> k > 0)
        <5>1. local_topics'[p][u] = IF u = t THEN l ELSE k
          BY <2>7, <3>3, <3>6 DEF TypeOK
        <5> QED
          BY <2>5, <3>3, <3>6, <4>2, <5>1
      <4> QED
        BY <2>4, <3>2, <3>4, <3>6, <4>1, <4>3 DEF Exact
    <3>7. CASE q = p /\ (IF m = Subscribe(t) THEN n = 0 ELSE n = 1)
      <4>1. up'[peer[p]] = Append(x, m)
        BY <2>8, <3>1, <3>2, <3>7 DEF TypeOK
      <4>2. PICK j \in Nat : j = local_topics'[p][u] /\ j = IF u = t THEN l ELSE k
        BY <2>7, <3>3, <3>7 DEF TypeOK
      <4>3. \/ m = Subscribe(u) /\ j > 0
            \/ m = Cancel(u) /\ j = 0
            \/ m.topic # u /\ Exact(x, u, topics[peer[q]], k) /\ (k > 0 <=> j > 0)
        <5>1. CASE u = t
          BY <2>2, <2>6, <3>7, <4>2, <5>1
        <5>2. CASE u # t
          BY <2>3, <3>4, <4>2, <5>2
        <5> QED
          BY <5>1, <5>2
      <4>4. Exact(Append(x, m), u, topics[peer[q]], j)
        BY <2>3, <4>3, AppendExact
      <4> QED
        BY <2>4, <3>7, <4>1, <4>2, <4>4
    <3> QED
      BY <3>5, <3>6, <3>7
  <2> QED
    BY <2>9 DEF Agreed
<1>4. ASSUME NEW c \in Conns, MasterReceive(c) PROVE Agreed'
  <2>1. PICK t \in Topics : Received(c, t)
    BY <1>4, Receipt
  <2>2. ASSUME NEW q \in Procs, NEW u \in Topics, First(q)'
        PROVE  Exact(up'[peer'[q]], u, topics'[peer'[q]], local_topics'[q][u])
    <3>1. First(q) /\ peer'[q] = peer[q] /\ local_topics' = local_topics
      BY <2>1, <2>2, Following
    <3>2. PICK k \in Nat : k = local_topics[q][u]
      BY DEF TypeOK, ClusterAssumption
    <3>3. Exact(up[peer[q]], u, topics[peer[q]], k) /\ peer[q] \in Conns
      BY <3>1, <3>2 DEF Agreed, First, Linked, TypeOK
    <3>4. CASE peer[q] # c
      BY <2>1, <3>1, <3>2, <3>3, <3>4, Following
    <3>5. CASE peer[q] = c
      <4>1. Follows(Head(up[c]), u, topics[c], topics'[c]) /\ up'[c] = Tail(up[c])
            /\ up[c] # <<>> /\ up[c] \in Seq(Message)
        BY <2>1, Following
      <4>2. Exact(Tail(up[c]), u, topics'[c], k)
        BY <3>3, <3>5, <4>1, TailExact
      <4> QED
        BY <3>1, <3>2, <3>5, <4>1, <4>2
    <3> QED
      BY <3>4, <3>5
  <2> QED
    BY <2>2 DEF Agreed
<1> QED
  BY <1>1, <1>2, <1>3, <1>4, SteadyNext DEF Telling

\* The master tells messages.
LEMMA ListTypes ==
  ASSUME sessions \subseteq Conns, topics \in [Conns -> SUBSET Topics],
         IsFiniteSet(sessions), IsFiniteSet(UNION {topics[c] : c \in Conns})
  PROVE  /\ Known \in Seq(Message)
         /\ \A c \in Conns : IsFiniteSet(topics[c]) /\ Withdrawal(topics[c]) \in Seq(Message)
<1>1. Known \in Seq(Message)
  <2> DEFINE S == {s \in sessions \X Topics : s[2] \in topics[s[1]]}
             U == UNION {topics[c] : c \in Conns}
  <2>1. IsFiniteSet(sessions \X U)
    BY FS_Product
  <2>2. S \subseteq sessions \X U
    OBVIOUS
  <2>3. IsFiniteSet(S)
    BY <2>1, <2>2, FS_Subset
  <2>s. PICK n \in Nat : n = Cardinality(S)
    BY <2>3, ListShape
  <2>4. PICK g \in [1..n -> S] : g = SetToSeq(S)
    <3> HIDE DEF S
    <3> QED
      BY <2>s, <2>3, ListShape
  <2>5. Known = [i \in 1..n |-> Subscribe(g[i][2])]
    BY <2>s, <2>4 DEF Known
  <2>6. \A i \in 1..n : Subscribe(g[i][2]) \in Message
    BY MessageForms
  <2> QED
    BY <2>5, <2>6
<1>2. ASSUME NEW c \in Conns PROVE IsFiniteSet(topics[c]) /\ Withdrawal(topics[c]) \in Seq(Message)
  <2>1. PICK S \in SUBSET Topics : S = topics[c]
    OBVIOUS
  <2>2. IsFiniteSet(S)
    <3> DEFINE U == UNION {topics[d] : d \in Conns}
    <3>1. S \subseteq U
      BY <2>1
    <3> QED
      BY <3>1, FS_Subset
  <2>s. PICK n \in Nat : n = Cardinality(S)
    BY <2>2, ListShape
  <2>3. PICK g \in [1..n -> S] : g = SetToSeq(S)
    BY <2>s, <2>2, ListShape
  <2>4. Withdrawal(S) = [i \in 1..n |-> Cancel(g[i])]
    BY <2>s, <2>3 DEF Withdrawal
  <2>5. \A i \in 1..n : Cancel(g[i]) \in Message
    BY MessageForms
  <2> QED
    BY <2>1, <2>2, <2>4, <2>5
<1> QED
  BY <1>1, <1>2

\* The types are kept: a proxy never counts more services than there can be.
LEMMA TypesNext == ASSUME ClusterAssumption, TypeOK, Links, Counted, [Next]_vars PROVE TypeOK'
<1> USE DEF ClusterAssumption
<1>1. CASE UNCHANGED vars
  BY <1>1 DEF vars, bus, proxy, net, master, TypeOK
<1>2. ASSUME NEW p \in Procs, NEW t \in Topics, LocalSubscribe(p, t) PROVE TypeOK'
  <2>1. PICK m \in Message : m = Subscribe(t)
    BY MessageForms
  <2>2. notes' \in [Procs -> Seq(Message)]
    <3>1. Append(notes[p], m) \in Seq(Message)
      BY AppendShape DEF TypeOK
    <3> QED
      BY <1>2, <2>1, <3>1 DEF LocalSubscribe, Tell, TypeOK
  <2>3. subs' \in [Procs -> [Topics -> 0..MaxSubs]]
    <3>1. subs[p][t] + 1 \in 0..MaxSubs
      BY <1>2 DEF LocalSubscribe, TypeOK, ClusterAssumption
    <3> QED
      BY <1>2, <3>1 DEF LocalSubscribe, TypeOK
  <2>4. ops' \in 0..MaxOps
    BY <1>2 DEF LocalSubscribe, TypeOK, ClusterAssumption
  <2> QED
    BY <1>2, <2>2, <2>3, <2>4 DEF LocalSubscribe, TypeOK, proxy, net, master
<1>3. ASSUME NEW p \in Procs, NEW t \in Topics, LocalCancel(p, t) PROVE TypeOK'
  <2>1. PICK m \in Message : m = Cancel(t)
    BY MessageForms
  <2>2. notes' \in [Procs -> Seq(Message)]
    <3>1. Append(notes[p], m) \in Seq(Message)
      BY AppendShape DEF TypeOK
    <3> QED
      BY <1>3, <2>1, <3>1 DEF LocalCancel, Tell, TypeOK
  <2>3. subs' \in [Procs -> [Topics -> 0..MaxSubs]]
    <3>1. subs[p][t] - 1 \in 0..MaxSubs
      BY <1>3 DEF LocalCancel, TypeOK, ClusterAssumption
    <3> QED
      BY <1>3, <3>1 DEF LocalCancel, TypeOK
  <2>4. ops' \in 0..MaxOps
    BY <1>3 DEF LocalCancel, TypeOK, ClusterAssumption
  <2> QED
    BY <1>3, <2>2, <2>3, <2>4 DEF LocalCancel, TypeOK, proxy, net, master
<1>4. ASSUME NEW p \in Procs, NEW t \in Topics, Watch(p, t) PROVE TypeOK'
  BY <1>4 DEF Watch, TypeOK, bus, proxy, net, master
<1>5. ASSUME NEW p \in Procs, Start(p) PROVE TypeOK'
  BY <1>5 DEF Start, TypeOK, bus, proxy, net, master
<1>6. ASSUME NEW p \in Procs, Stop(p) PROVE TypeOK'
  BY <1>6 DEF Stop, TypeOK, bus, proxy, net, master
<1>7. ASSUME NEW p \in Procs, OnLocalWatch(p) PROVE TypeOK'
  <2>1. PICK t \in Topics : Noted(p, t)
    BY <1>7, Noting
  <2>2. notes[p] \in Seq(Message) /\ notes[p] # <<>>
    BY <2>1 DEF Noted, TypeOK
  <2>3. PICK m \in Message : m = Head(notes[p])
    BY <2>2, HeadTailProperties
  <2>4. notes' \in [Procs -> Seq(Message)]
    <3>1. Tail(notes[p]) \in Seq(Message)
      BY <2>2, HeadTailProperties
    <3> QED
      BY <2>1, <3>1 DEF Noted, TypeOK
  <2>5. up' \in [Conns -> Seq(Message)]
    <3>1. \A c \in Conns : Append(up[c], m) \in Seq(Message)
      BY AppendShape DEF TypeOK
    <3> QED
      BY <2>1, <2>3, <3>1 DEF Noted, TypeOK
  <2>6. local_topics'[p][t] \in 0..MaxSubs
    <3>1. PICK l \in Nat, n \in 0..MaxSubs : l = local_topics[p][t] /\ n = subs[p][t]
      BY DEF TypeOK, ClusterAssumption
    <3>2. PICK j \in Nat : /\ j = local_topics'[p][t]
                           /\ j = l + Change(m, t) \/ (l = 0 /\ j = 0 /\ m = Cancel(t))
      BY <2>1, <2>3, <3>1, Recount
    <3>3. WithinCount(n, notes[p], t, l)
      BY <3>1 DEF Counted
    <3>4. j <= MaxSubs
      BY <2>2, <2>3, <3>2, <3>3, WithinTail
    <3> QED
      BY <3>2, <3>4 DEF ClusterAssumption
  <2>7. local_topics' \in [Procs -> [Topics -> 0..MaxSubs]]
    <3>1. PICK v : local_topics' = [local_topics EXCEPT ![p][t] = v]
      BY <2>1 DEF Noted
    <3>2. v \in 0..MaxSubs
      BY <2>6, <3>1 DEF TypeOK
    <3> QED
      BY <3>1, <3>2 DEF TypeOK
  <2> QED
    BY <2>1, <2>4, <2>5, <2>7 DEF Noted, TypeOK, master
<1>8. ASSUME NEW c \in Conns, ProxyReceive(c) PROVE TypeOK'
  <2>1. owner[c] \in Procs /\ down[c] # <<>> /\ down[c] \in Seq(Message)
    BY <1>8 DEF ProxyReceive, TypeOK, Links
  <2>2. Tail(down[c]) \in Seq(Message) /\ Head(down[c]) \in Message
    BY <2>1, HeadTailProperties
  <2>3. remote_topics' \in [Procs -> [Topics -> Nat]]
    <3>1. PICK m \in Message : m = Head(down[c])
      BY <2>2
    <3>2. PICK t \in Topics : t = m.topic
      BY MessageForms
    <3>3. PICK r \in Nat : r = remote_topics[owner[c]][t]
      BY <2>1 DEF TypeOK
    <3>4. PICK v \in Nat : v = IF m.type = "subscribe" THEN r + 1 ELSE IF r = 0 THEN 0 ELSE r - 1
      OBVIOUS
    <3>5. remote_topics' = [remote_topics EXCEPT ![owner[c]][t] = v]
      BY <1>8, <3>1, <3>2, <3>3, <3>4 DEF ProxyReceive, OnRemote
    <3> QED
      BY <2>1, <3>5 DEF TypeOK
  <2>4. down' \in [Conns -> Seq(Message)]
    BY <1>8, <2>2 DEF ProxyReceive, TypeOK
  <2> QED
    BY <1>8, <2>3, <2>4 DEF ProxyReceive, TypeOK, bus, master
<1>9. ASSUME NEW c \in Conns, ProxyError(c) PROVE TypeOK'
  <2>1. PICK p \in Procs : p = owner[c]
    BY <1>9 DEF ProxyError, TypeOK, Links
  <2>2. peer[p] \in Conns \union {None}
    BY DEF TypeOK
  <2> QED
    BY <1>9, <2>1, <2>2 DEF ProxyError, TypeOK, bus, proxy, net, master
<1>10. ASSUME NEW c \in Conns, Accept(c) PROVE TypeOK'
  <2>1. down' \in [Conns -> Seq(Message)]
    <3>1. \A d \in Conns : down[d] \o Known \in Seq(Message)
      <4>1. Known \in Seq(Message)
        BY ListTypes DEF TypeOK, Links
      <4> QED
        BY <4>1, UptoConcat DEF TypeOK
    <3> QED
      BY <1>10, <3>1 DEF Accept, SendAll, TypeOK
  <2> QED
    BY <1>10, <2>1 DEF Accept, TypeOK, bus, proxy, net, master
<1>11. ASSUME NEW c \in Conns, MasterReceive(c) PROVE TypeOK'
  <2>1. PICK t \in Topics : Received(c, t)
    BY <1>11, Receipt
  <2>2. up' \in [Conns -> Seq(Message)]
    <3>1. Tail(up[c]) \in Seq(Message)
      BY <2>1, HeadTailProperties DEF Received, TypeOK
    <3> QED
      BY <2>1, <3>1 DEF Received, TypeOK
  <2> QED
    BY <2>1, <2>2 DEF Received, TypeOK, bus, proxy
<1>12. ASSUME NEW c \in Conns, MasterError(c) PROVE TypeOK'
  <2>1. down' \in [Conns -> Seq(Message)]
    <3>1. \A d \in Conns : down[d] \o Withdrawal(topics[c]) \in Seq(Message)
      <4>1. Withdrawal(topics[c]) \in Seq(Message)
        BY ListTypes DEF TypeOK, Links
      <4> QED
        BY <4>1, UptoConcat DEF TypeOK
    <3> QED
      BY <1>12, <3>1 DEF MasterError, SendAll, Withdrawal, TypeOK
  <2> QED
    BY <1>12, <2>1 DEF MasterError, TypeOK, bus, proxy, net, master
<1>13. ASSUME NEW c \in Conns, Break(c) PROVE TypeOK'
  BY <1>13 DEF Break, TypeOK, bus, proxy, net, master
<1> QED
  BY <1>1, <1>2, <1>3, <1>4, <1>5, <1>6, <1>7,
     <1>8, <1>9, <1>10, <1>11, <1>12, <1>13 DEF Next

-----------------------------------------------------------------------------
(* What the proxies are told of the other sessions. *)

\* The sessions of ss that are subscribed to t, c apart.
Interested(ss, known, c, t) == {d \in ss \ {c} : t \in known[d]}

\* What r counts, and q is about to tell, is n.
Balanced(q, t, r, n) == r + Copies(q, Subscribe(t)) = Copies(q, Cancel(t)) + n

Told ==
  \A p \in Procs, t \in Topics :
    First(p) =>
      /\ peer[p] \notin accepted => remote_topics[p][t] = 0
      /\ peer[p] \in sessions =>
           /\ Below(down[peer[p]], t, remote_topics[p][t])
           /\ Balanced(down[peer[p]], t, remote_topics[p][t],
                       Cardinality(Interested(sessions, topics, peer[p], t)))

LEMMA ToldIs == NeverBelow /\ CountExact <=> Told
BY DEF NeverBelow, CountExact, Told, Balanced, Interested

\* The master tells of what changes the number of the others.
LEMMA TellSend ==
  ASSUME NEW q \in Seq(Message), NEW ms \in Seq(Message), NEW t \in Topics,
         NEW r \in Nat, NEW n \in Nat, NEW k \in Nat,
         Below(q, t, r), Balanced(q, t, r, n),
         k + Copies(ms, Cancel(t)) = n + Copies(ms, Subscribe(t)),
         Copies(ms, Subscribe(t)) = 0 \/ Copies(ms, Cancel(t)) = 0
  PROVE  Below(q \o ms, t, r) /\ Balanced(q \o ms, t, r, k)
<1> DEFINE s == Subscribe(t)
           c == Cancel(t)
<1>1. PICK a \in Nat, b \in Nat : a = Copies(q, s) /\ b = Copies(q, c)
  BY UptoType
<1>2. PICK x \in Nat, y \in Nat : x = Copies(ms, s) /\ y = Copies(ms, c)
  BY UptoType
<1>3. PICK g \in Nat, h \in Nat : g = Len(q) /\ h = Len(ms)
  BY QueueShape
<1>4. q \o ms \in Seq(Message) /\ Len(q \o ms) = g + h
  BY <1>3, UptoConcat
<1>5. Copies(q \o ms, s) = a + x
  <2>1. Copies(q \o ms, s) = Copies(q, s) + Copies(ms, s)
    BY UptoConcat
  <2> QED
    BY <1>1, <1>2, <2>1
<1>6. Copies(q \o ms, c) = b + y
  <2>1. Copies(q \o ms, c) = Copies(q, c) + Copies(ms, c)
    BY UptoConcat
  <2> QED
    BY <1>1, <1>2, <2>1
<1>7. r + a = b + n /\ k + y = n + x /\ (x = 0 \/ y = 0)
  BY <1>1, <1>2 DEF Balanced
<1>8. Balanced(q \o ms, t, r, k)
  <2>1. r + (a + x) = (b + y) + k
    BY <1>7
  <2> QED
    BY <2>1, <1>5, <1>6 DEF Balanced
<1>9. ASSUME NEW j \in 0..(g + h) PROVE Upto(q \o ms, c, j) <= r + Upto(q \o ms, s, j)
  <2>1. CASE j <= g
    <3>1. j \in 0..Len(q)
      BY <1>3, <2>1
    <3>2. Upto(q \o ms, c, j) = Upto(q, c, j) /\ Upto(q \o ms, s, j) = Upto(q, s, j)
      BY <3>1, UptoPrefix
    <3> QED
      BY <3>1, <3>2 DEF Below
  <2>2. CASE j > g
    <3>1. PICK i \in 0..h : j = g + i
      <4>1. j - g \in 0..h /\ j = g + (j - g)
        BY <2>2
      <4> QED
        BY <4>1
    <3>2. PICK u \in Nat, v \in Nat : u = Upto(ms, s, i) /\ v = Upto(ms, c, i) /\ v <= y
      <4>1. i \in Nat
        OBVIOUS
      <4> QED
        BY <1>2, <4>1, UptoType
    <3>3. Upto(q \o ms, c, g + i) = b + v
      <4>1. \A e \in 0..Len(ms) : Upto(q \o ms, c, Len(q) + e) = Copies(q, c) + Upto(ms, c, e)
        BY UptoConcat
      <4> QED
        BY <1>1, <1>3, <3>2, <4>1
    <3>4. Upto(q \o ms, s, g + i) = a + u
      <4>1. \A e \in 0..Len(ms) : Upto(q \o ms, s, Len(q) + e) = Copies(q, s) + Upto(ms, s, e)
        BY UptoConcat
      <4> QED
        BY <1>1, <1>3, <3>2, <4>1
    <3>5. v <= n + u
      <4>1. CASE y = 0
        BY <3>2, <4>1
      <4>2. CASE x = 0
        BY <1>7, <3>2, <4>2
      <4> QED
        BY <1>7, <4>1, <4>2
    <3>6. b + v <= r + (a + u)
      BY <1>7, <3>5
    <3> QED
      BY <3>1, <3>3, <3>4, <3>6
  <2> QED
    BY <1>3, <2>1, <2>2
<1> QED
  BY <1>4, <1>8, <1>9 DEF Below

\* The proxy counts what it is told.
LEMMA TellReceive ==
  ASSUME NEW q \in Seq(Message), q # <<>>, NEW t \in Topics,
         NEW r \in Nat, NEW n \in Nat, NEW l \in Nat,
         Below(q, t, r), Balanced(q, t, r, n),
         l = IF Head(q) = Subscribe(t) THEN r + 1
             ELSE IF Head(q) = Cancel(t) /\ r # 0 THEN r - 1 ELSE r
  PROVE  Below(Tail(q), t, l) /\ Balanced(Tail(q), t, l, n)
<1> DEFINE s == Subscribe(t)
           c == Cancel(t)
<1>1. PICK x \in Seq(Message) : x = Tail(q)
  BY TailShape
<1>2. PICK h \in Nat : h = Len(x) /\ Len(q) = h + 1
  BY <1>1, TailShape
<1>3. PICK a \in 0..1 : a = IF s = Head(q) THEN 1 ELSE 0
  OBVIOUS
<1>4. PICK b \in 0..1 : b = IF c = Head(q) THEN 1 ELSE 0
  OBVIOUS
<1>5. PICK u \in Nat, v \in Nat : u = Copies(x, s) /\ v = Copies(x, c)
  BY UptoType
<1>6. Copies(q, s) = u + a /\ Copies(q, c) = v + b
  BY <1>1, <1>3, <1>4, <1>5, UptoTail
<1>7. \A k \in 0..h : Upto(q, s, k + 1) = Upto(x, s, k) + a
  BY <1>1, <1>2, <1>3, UptoTail
<1>8. \A k \in 0..h : Upto(q, c, k + 1) = Upto(x, c, k) + b
  BY <1>1, <1>2, <1>4, UptoTail
<1>9. s # c
  BY MessageForms
<1>10. \A k \in 0..h : Upto(x, s, k) \in Nat /\ Upto(x, c, k) \in Nat
  <2>1. \A k \in 0..h : k \in Nat
    OBVIOUS
  <2> QED
    BY <2>1, UptoType
<1>11. \A k \in 0..h : Upto(x, c, k) + b <= r + (Upto(x, s, k) + a)
  <2>1. \A k \in 0..(h + 1) : Upto(q, c, k) <= r + Upto(q, s, k)
    BY <1>2 DEF Below
  <2>2. \A k \in 0..h : k + 1 \in 0..(h + 1)
    OBVIOUS
  <2> QED
    BY <1>7, <1>8, <2>1, <2>2
<1>12. b = 1 => r # 0
  <2>1. Upto(x, s, 0) = 0 /\ Upto(x, c, 0) = 0 /\ 0 \in 0..h
    BY UptoEnds
  <2>2. b <= r + a
    BY <2>1, <1>11
  <2>3. b = 1 => a = 0
    BY <1>3, <1>4, <1>9
  <2> QED
    BY <2>2, <2>3
<1>13. l = (r + a) - b
  BY <1>3, <1>4, <1>9, <1>12
<1>14. Balanced(x, t, l, n)
  <2>1. r + (u + a) = (v + b) + n
    BY <1>6 DEF Balanced
  <2>2. l + u = v + n
    BY <1>13, <2>1
  <2> QED
    BY <1>5, <2>2 DEF Balanced
<1>15. ASSUME NEW k \in 0..h PROVE Upto(x, c, k) <= l + Upto(x, s, k)
  <2>1. PICK d \in Nat, e \in Nat : d = Upto(x, s, k) /\ e = Upto(x, c, k)
    BY <1>10
  <2>2. e + b <= r + (d + a)
    BY <1>11, <2>1
  <2>3. e <= l + d
    BY <1>13, <2>2
  <2> QED
    BY <2>1, <2>3
<1> QED
  BY <1>1, <1>2, <1>14, <1>15 DEF Below

\* Nothing sent, nothing changes.
LEMMA TellNothing ==
  ASSUME NEW t \in Topics, NEW n \in Nat
  PROVE  Below(<<>>, t, 0) /\ Balanced(<<>>, t, 0, n) <=> n = 0
<1>1. <<>> \in Seq(Message) /\ Len(<<>>) = 0
  OBVIOUS
<1>2. \A x : Copies(<<>>, x) = 0
  <2>1. \A x : {i \in DOMAIN <<>> : <<>>[i] = x} = {}
    OBVIOUS
  <2> QED
    BY <2>1, FS_EmptySet DEF Copies
<1>3. \A x : Upto(<<>>, x, 0) = 0
  BY <1>1, UptoEnds
<1>4. Balanced(<<>>, t, 0, n) <=> n = 0
  BY <1>2 DEF Balanced
<1>5. Below(<<>>, t, 0)
  BY <1>1, <1>3 DEF Below
<1> QED
  BY <1>4, <1>5

\* How many others there are is a number.
LEMMA InterestedType ==
  ASSUME NEW ss, IsFiniteSet(ss), NEW known, NEW c, NEW t
  PROVE  /\ IsFiniteSet(Interested(ss, known, c, t))
         /\ Cardinality(Interested(ss, known, c, t)) \in Nat
<1>1. Interested(ss, known, c, t) \subseteq ss
  BY DEF Interested
<1>2. IsFiniteSet(Interested(ss, known, c, t))
  BY <1>1, FS_Subset
<1> QED
  BY <1>2, FS_CardinalityType

\* What a proxy that has been on one connection since it started is told.
ToldAt(p, t) ==
  /\ peer[p] \notin accepted => remote_topics[p][t] = 0
  /\ peer[p] \in sessions =>
       /\ Below(down[peer[p]], t, remote_topics[p][t])
       /\ Balanced(down[peer[p]], t, remote_topics[p][t],
                   Cardinality(Interested(sessions, topics, peer[p], t)))

LEMMA ToldIsAt == Told <=> \A p \in Procs, t \in Topics : First(p) => ToldAt(p, t)
BY DEF Told, ToldAt

\* A message from the master is counted.
LEMMA ReceiveTold ==
  ASSUME ClusterAssumption, TypeOK, Links, Told, NEW c \in Conns, ProxyReceive(c)
  PROVE  Told'
<1>1. PICK p \in Procs : p = owner[c]
  BY DEF ProxyReceive, TypeOK, Links
<1>2. c \in accepted /\ down[c] # <<>> /\ down' = [down EXCEPT ![c] = Tail(@)]
      /\ down[c] \in Seq(Message)
  BY DEF ProxyReceive, Links, TypeOK
<1>3. PICK m \in Message : m = Head(down[c])
  BY <1>2, HeadTailProperties
<1>4. PICK v \in Topics : v = m.topic /\ (m.type = "subscribe" <=> m = Subscribe(v))
                          /\ m \in {Subscribe(v), Cancel(v)}
  BY MessageForms
<1>5. remote_topics' = [remote_topics EXCEPT ![p][v] =
                         IF m = Subscribe(v) THEN @ + 1 ELSE IF @ = 0 THEN 0 ELSE @ - 1]
  BY <1>1, <1>3, <1>4 DEF ProxyReceive, OnRemote
<1>6. peer' = peer /\ owner' = owner /\ broken' = broken /\ sessions' = sessions
      /\ accepted' = accepted /\ topics' = topics
  BY DEF ProxyReceive, master
<1>7. ASSUME NEW q \in Procs, NEW t \in Topics, First(q)' PROVE ToldAt(q, t)'
  <2>1. First(q) /\ Made(q) = {peer[q]} /\ peer[q] \in Conns /\ owner[peer[q]] = q
    BY <1>6, <1>7 DEF First, Linked, Made, TypeOK, Links
  <2>2. ToldAt(q, t)
    BY <2>1, ToldIsAt
  <2>3. Interested(sessions', topics', peer[q], t) = Interested(sessions, topics, peer[q], t)
    BY <1>6 DEF Interested
  <2>4. CASE q # p
    <3>1. peer[q] # c /\ down'[peer[q]] = down[peer[q]]
      BY <1>1, <1>2, <2>1, <2>4 DEF TypeOK
    <3>2. remote_topics'[q] = remote_topics[q]
      BY <1>5, <2>4 DEF TypeOK
    <3>3. Interested(sessions', topics', peer'[q], t) = Interested(sessions, topics, peer[q], t)
      BY <1>6, <2>3
    <3> QED
      BY <1>6, <2>2, <3>1, <3>2, <3>3 DEF ToldAt
  <2>5. CASE q = p
    <3>1. peer[q] = c
      BY <1>1, <2>1, <2>5 DEF Made
    <3>2. PICK r \in Nat : r = remote_topics[p][t]
      BY DEF TypeOK
    <3>3. PICK x \in Seq(Message) : x = down[c]
      BY <1>2
    <3>4. PICK l \in Nat : l = IF m = Subscribe(t) THEN r + 1
                               ELSE IF m = Cancel(t) /\ r # 0 THEN r - 1 ELSE r
      OBVIOUS
    <3>5. remote_topics'[p][t] = l
      <4>1. CASE t = v
        BY <1>4, <1>5, <3>2, <3>4, <4>1, MessageForms DEF TypeOK
      <4>2. CASE t # v
        <5>1. m # Subscribe(t) /\ m # Cancel(t)
          BY <1>4, <4>2, MessageForms
        <5> QED
          BY <1>5, <3>2, <3>4, <4>2, <5>1 DEF TypeOK
      <4> QED
        BY <4>1, <4>2
    <3>6. down'[c] = Tail(x)
      BY <1>2, <3>3 DEF TypeOK
    <3>7. ASSUME c \in sessions
          PROVE  /\ Below(Tail(x), t, l)
                 /\ Balanced(Tail(x), t, l, Cardinality(Interested(sessions, topics, c, t)))
      <4>1. PICK n \in Nat : n = Cardinality(Interested(sessions, topics, c, t))
        BY InterestedType DEF Links
      <4>2. Below(x, t, r) /\ Balanced(x, t, r, n)
        BY <2>2, <2>5, <3>1, <3>2, <3>3, <3>7, <4>1 DEF ToldAt
      <4>3. x # <<>> /\ Head(x) = m
        BY <1>2, <1>3, <3>3
      <4> QED
        BY <3>4, <4>1, <4>2, <4>3, TellReceive
    <3>8. peer'[p] = c /\ Interested(sessions', topics', c, t) = Interested(sessions, topics, c, t) /\ c \in accepted'
      BY <1>2, <1>6, <2>3, <2>5, <3>1
    <3> QED
      BY <1>6, <2>5, <3>5, <3>6, <3>7, <3>8 DEF ToldAt
  <2> QED
    BY <2>4, <2>5
<1> QED
  BY <1>7 DEF Told, ToldAt

\* What a new session is told makes up for what it was not told before.
LEMMA AcceptTold ==
  ASSUME ClusterAssumption, TypeOK, Links, Told, NEW c \in Conns, Accept(c)
  PROVE  Told'
<1>1. c \notin accepted /\ c \notin sessions /\ topics[c] = {} /\ down[c] = <<>>
      /\ accepted' = accepted \union {c} /\ sessions' = sessions \union {c}
  BY DEF Accept, Links
<1>2. \A d \in Conns : down'[d] = IF d = c /\ c \notin broken THEN down[d] \o Known ELSE down[d]
  BY DEF Accept, SendAll
<1>3. peer' = peer /\ owner' = owner /\ broken' = broken /\ remote_topics' = remote_topics
      /\ topics' = topics
  BY DEF Accept, proxy
<1>4. ASSUME NEW q \in Procs, NEW t \in Topics, First(q)' PROVE ToldAt(q, t)'
  <2>1. First(q) /\ Linked(q) /\ peer[q] \in Conns
    BY <1>3, <1>4 DEF First, Linked, Made, TypeOK
  <2>2. ToldAt(q, t)
    BY <2>1, ToldIsAt
  <2>3. PICK d \in Conns : d = peer[q]
    BY <2>1
  <2>4. CASE d # c
    <3>1. Interested(sessions', topics', d, t) = Interested(sessions, topics, d, t)
      BY <1>1, <1>3 DEF Interested
    <3>2. down'[d] = down[d] /\ (d \in sessions' => d \in sessions)
          /\ (d \notin accepted' => d \notin accepted)
      BY <1>1, <1>2, <2>4
    <3>3. Interested(sessions', topics', peer'[q], t) = Interested(sessions, topics, peer[q], t)
      BY <1>3, <2>3, <3>1
    <3> QED
      BY <1>3, <2>2, <2>3, <3>2, <3>3 DEF ToldAt
  <2>5. CASE d = c
    <3>1. remote_topics[q][t] = 0
      BY <1>1, <2>2, <2>3, <2>5 DEF ToldAt
    <3>2. Interested(sessions', topics', c, t) = {e \in sessions : t \in topics[e]}
      BY <1>1, <1>3 DEF Interested
    <3>3. /\ Known \in Seq(Message) /\ Copies(Known, Cancel(t)) = 0
          /\ Copies(Known, Subscribe(t)) = Cardinality({e \in sessions : t \in topics[e]})
      BY KnownList DEF TypeOK, Links
    <3>4. PICK k \in Nat : k = Cardinality({e \in sessions : t \in topics[e]})
      BY <3>3, UptoType
    <3>5. PICK ms \in Seq(Message) : ms = Known
      BY <3>3
    <3>6. PICK z \in Seq(Message) : z = <<>>
      BY EmptySeq
    <3>7. Below(z, t, 0) /\ Balanced(z, t, 0, 0)
      BY <3>6, TellNothing
    <3>8. Below(z \o ms, t, 0) /\ Balanced(z \o ms, t, 0, k)
      BY <3>3, <3>4, <3>5, <3>7, TellSend
    <3>9. down'[c] = z \o ms
      <4>1. c \notin broken
        BY <2>1, <2>3, <2>5 DEF Linked
      <4> QED
        BY <1>1, <1>2, <3>5, <3>6, <4>1
    <3>10. peer'[q] = c /\ remote_topics'[q][t] = 0 /\ c \in accepted'
           /\ Cardinality(Interested(sessions', topics', c, t)) = k
      BY <1>1, <1>3, <2>3, <2>5, <3>1, <3>2, <3>4
    <3> QED
      BY <3>8, <3>9, <3>10 DEF ToldAt
  <2> QED
    BY <2>4, <2>5
<1> QED
  BY <1>4 DEF Told, ToldAt

\* What changes in the other sessions is told.
LEMMA SendTold ==
  ASSUME TypeOK, Links, NEW p \in Procs, NEW t \in Topics, ToldAt(p, t), peer[p] \in Conns,
         peer'[p] = peer[p], remote_topics' = remote_topics, accepted' = accepted,
         sessions' \subseteq sessions, IsFiniteSet(sessions'),
         NEW ms \in Seq(Message),
         down'[peer[p]] = down[peer[p]] \o ms,
         Cardinality(Interested(sessions', topics', peer[p], t)) + Copies(ms, Cancel(t))
           = Cardinality(Interested(sessions, topics, peer[p], t)) + Copies(ms, Subscribe(t)),
         Copies(ms, Subscribe(t)) = 0 \/ Copies(ms, Cancel(t)) = 0
  PROVE  ToldAt(p, t)'
<1>1. PICK c \in Conns : c = peer[p]
  OBVIOUS
<1>2. PICK r \in Nat : r = remote_topics[p][t]
  BY DEF TypeOK
<1>3. PICK q \in Seq(Message) : q = down[c]
  BY DEF TypeOK
<1>4. ASSUME c \in sessions'
      PROVE  /\ Below(q \o ms, t, r)
             /\ Balanced(q \o ms, t, r, Cardinality(Interested(sessions', topics', c, t)))
  <2>1. PICK n \in Nat : n = Cardinality(Interested(sessions, topics, c, t))
    BY InterestedType DEF Links
  <2>2. PICK k \in Nat : k = Cardinality(Interested(sessions', topics', c, t))
    BY InterestedType
  <2>3. Below(q, t, r) /\ Balanced(q, t, r, n)
    BY <1>1, <1>2, <1>3, <1>4, <2>1 DEF ToldAt
  <2>4. k + Copies(ms, Cancel(t)) = n + Copies(ms, Subscribe(t))
    BY <1>1, <2>1, <2>2
  <2> QED
    BY <2>2, <2>3, <2>4, TellSend
<1>5. peer'[p] = c /\ remote_topics'[p][t] = r /\ down'[c] = q \o ms
  BY <1>1, <1>2, <1>3
<1>6. Interested(sessions', topics', peer'[p], t) = Interested(sessions', topics', c, t)
  BY <1>5 DEF Interested
<1> QED
  BY <1>1, <1>2, <1>4, <1>5, <1>6 DEF ToldAt

\* What is not told changes nothing that a proxy is told of.
LEMMA KeepTold ==
  ASSUME NEW p \in Procs, NEW t \in Topics, ToldAt(p, t),
         peer'[p] = peer[p], remote_topics' = remote_topics, accepted' = accepted,
         sessions' \subseteq sessions, down'[peer[p]] = down[peer[p]],
         Interested(sessions', topics', peer[p], t) = Interested(sessions, topics, peer[p], t)
           \/ peer[p] \notin sessions'
  PROVE  ToldAt(p, t)'
BY DEF ToldAt

\* Session d is told of m, a message about t that the master has of c.
Hears(d, c, m, t) ==
  d \in sessions \ broken /\ d # c /\ (m = Cancel(t) => t \in topics[c])

\* A session tells the master, and the master the others.
LEMMA MasterTold ==
  ASSUME ClusterAssumption, TypeOK, Links, Announced, Told, NEW c \in Conns, MasterReceive(c)
  PROVE  Told'
<1>1. PICK t \in Topics : Received(c, t)
  BY Receipt
<1>2. PICK m \in {Subscribe(t), Cancel(t)} : m = Head(up[c])
  BY <1>1 DEF Received
<1>3. m \in Message /\ m.topic = t /\ Subscribe(t) # Cancel(t)
  BY <1>2, MessageForms
<1>4. c \in sessions /\ topics'[c] = IF m = Cancel(t) THEN topics[c] \ {t} ELSE topics[c] \union {t}
  BY <1>1, <1>2 DEF Received, TypeOK
<1>5. \A d \in Conns : d # c => topics'[d] = topics[d]
  BY <1>1 DEF Received, TypeOK
<1>6. \A d \in Conns : down'[d] = IF Hears(d, c, m, t) THEN down[d] \o <<m>> ELSE down[d]
  <2>1. \A d \in Conns : down'[d] = IF Hears(d, c, Head(up[c]), t)
                                    THEN down[d] \o <<Head(up[c])>> ELSE down[d]
    BY <1>1 DEF Received, Hears
  <2> QED
    BY <1>2, <2>1
<1>7. peer' = peer /\ owner' = owner /\ broken' = broken /\ remote_topics' = remote_topics
      /\ sessions' = sessions /\ accepted' = accepted /\ sessions \subseteq Conns
      /\ IsFiniteSet(sessions)
  BY <1>1 DEF Received, proxy, TypeOK, Links
<1>8. m = Subscribe(t) => t \notin topics[c]
  <2>1. up[c] # <<>> /\ up[c] \in Seq(Message)
    BY <1>1 DEF Received, TypeOK
  <2>2. 1 \in DOMAIN up[c] /\ m = up[c][1] /\ \A j \in DOMAIN up[c] : ~(j < 1)
    BY <1>2, <2>1, TailShape
  <2>3. Alternates(up[c], t, topics[c])
    BY DEF Announced
  <2> QED
    BY <2>2, <2>3 DEF Alternates
<1>9. ASSUME NEW q \in Procs, NEW u \in Topics, First(q)' PROVE ToldAt(q, u)'
  <2>1. First(q) /\ peer[q] \in Conns /\ peer[q] \notin broken
    BY <1>7, <1>9 DEF First, Linked, Made, TypeOK
  <2>2. ToldAt(q, u)
    BY <2>1, ToldIsAt
  <2>3. PICK d \in Conns : d = peer[q]
    BY <2>1
  <2> DEFINE I == Interested(sessions, topics, d, u)
             J == Interested(sessions', topics', d, u)
  <2>4. CASE d \notin sessions
    <3>1. down'[d] = down[d]
      BY <1>6, <2>4 DEF Hears
    <3> QED
      BY <1>7, <2>2, <2>3, <2>4, <3>1, KeepTold
  <2>5. CASE d = c
    <3>1. down'[d] = down[d]
      BY <1>6, <2>5 DEF Hears
    <3>2. J = I
      BY <1>5, <1>7, <2>5 DEF Interested
    <3> QED
      BY <1>7, <2>2, <2>3, <3>1, <3>2, KeepTold
  <2>6. CASE d \in sessions /\ d # c /\ m = Cancel(t) /\ t \notin topics[c]
    <3>1. down'[d] = down[d]
      BY <1>6, <2>6 DEF Hears
    <3>2. J = I
      BY <1>4, <1>5, <1>7, <2>6 DEF Interested
    <3> QED
      BY <1>7, <2>2, <2>3, <3>1, <3>2, KeepTold
  <2>7. CASE d \in sessions /\ d # c /\ (m = Cancel(t) => t \in topics[c])
    <3>1. PICK ms \in Seq(Message) : ms = <<m>>
      BY <1>3, CopiesOfOne
    <3>2. down'[d] = down[d] \o ms
      BY <1>6, <2>1, <2>3, <2>7, <3>1 DEF Hears
    <3>3. Copies(ms, Subscribe(u)) = IF Subscribe(u) = m THEN 1 ELSE 0
      BY <1>3, <3>1, CopiesOfOne
    <3>4. Copies(ms, Cancel(u)) = IF Cancel(u) = m THEN 1 ELSE 0
      BY <1>3, <3>1, CopiesOfOne
    <3>5. IsFiniteSet(I) /\ Cardinality(I) \in Nat
      BY <1>7, InterestedType
    <3>6. Copies(ms, Subscribe(u)) = 0 \/ Copies(ms, Cancel(u)) = 0
      BY <3>3, <3>4, MessageForms
    <3>7. Cardinality(J) + Copies(ms, Cancel(u)) = Cardinality(I) + Copies(ms, Subscribe(u))
      <4>1. CASE u # t
        <5>1. Subscribe(u) # m /\ Cancel(u) # m
          BY <1>2, <4>1, MessageForms
        <5>2. J = I
          BY <1>4, <1>5, <1>7, <4>1 DEF Interested
        <5> QED
          BY <3>3, <3>4, <5>1, <5>2
      <4>2. CASE u = t /\ m = Subscribe(t)
        <5>1. c \notin I
          BY <1>8, <4>2 DEF Interested
        <5>2. J = I \union {c}
          BY <1>3, <1>4, <1>5, <1>7, <2>7, <4>2 DEF Interested
        <5>3. Cardinality(I \union {c}) = Cardinality(I) + 1
          <6> HIDE DEF I
          <6> QED
            BY <3>5, <5>1, FS_AddElement
        <5>4. Copies(ms, Cancel(u)) = 0 /\ Copies(ms, Subscribe(u)) = 1
          BY <1>3, <3>3, <3>4, <4>2
        <5> HIDE DEF I, J
        <5> QED
          BY <3>5, <5>2, <5>3, <5>4
      <4>3. CASE u = t /\ m = Cancel(t)
        <5>1. c \in I
          BY <1>4, <2>7, <4>3 DEF Interested
        <5>2. J = I \ {c}
          BY <1>3, <1>4, <1>5, <1>7, <2>7, <4>3 DEF Interested
        <5>3. Cardinality(I \ {c}) = Cardinality(I) - 1
          <6> HIDE DEF I
          <6> QED
            BY <3>5, <5>1, FS_RemoveElement
        <5>4. Copies(ms, Cancel(u)) = 1 /\ Copies(ms, Subscribe(u)) = 0
          BY <1>3, <3>3, <3>4, <4>3
        <5> HIDE DEF I, J
        <5> QED
          BY <3>5, <5>2, <5>3, <5>4
      <4> QED
        BY <1>2, <4>1, <4>2, <4>3
    <3>8. sessions' \subseteq sessions /\ IsFiniteSet(sessions')
      BY <1>7
    <3> QED
      BY <1>7, <2>1, <2>2, <2>3, <3>2, <3>6, <3>7, <3>8, SendTold
  <2> QED
    BY <1>2, <2>4, <2>5, <2>6, <2>7
<1> QED
  BY <1>9 DEF Told, ToldAt

\* The end of a session is told.
LEMMA ErrorTold ==
  ASSUME ClusterAssumption, TypeOK, Links, Told, NEW c \in Conns, MasterError(c)
  PROVE  Told'
<1>1. c \in sessions /\ c \in broken /\ sessions' = sessions \ {c}
  BY DEF MasterError
<1>2. peer' = peer /\ owner' = owner /\ broken' = broken /\ remote_topics' = remote_topics
      /\ topics' = topics /\ accepted' = accepted /\ IsFiniteSet(sessions)
  BY DEF MasterError, proxy, Links
<1>3. topics[c] \in SUBSET Topics /\ IsFiniteSet(topics[c]) /\ Withdrawal(topics[c]) \in Seq(Message)
  BY ListTypes DEF TypeOK, Links
<1>4. PICK ms \in Seq(Message) : ms = Withdrawal(topics[c])
  BY <1>3
<1>5. \A d \in Conns : down'[d] = IF d \in sessions \ {c} /\ d \notin broken
                                 THEN down[d] \o ms ELSE down[d]
  BY <1>4 DEF MasterError, SendAll, Withdrawal
<1>6. ASSUME NEW q \in Procs, NEW t \in Topics, First(q)' PROVE ToldAt(q, t)'
  <2>1. First(q) /\ peer[q] \in Conns /\ peer[q] \notin broken
    BY <1>2, <1>6 DEF First, Linked, Made, TypeOK
  <2>2. ToldAt(q, t)
    BY <2>1, ToldIsAt
  <2>3. PICK d \in Conns : d = peer[q]
    BY <2>1
  <2>4. CASE d \notin sessions
    <3>1. down'[d] = down[d]
      BY <1>5, <2>4
    <3>2. d \notin sessions' /\ sessions' \subseteq sessions
      BY <1>1, <2>4
    <3> QED
      BY <1>2, <2>2, <2>3, <3>1, <3>2, KeepTold
  <2>5. CASE d \in sessions
    <3> DEFINE I == Interested(sessions, topics, d, t)
               J == Interested(sessions', topics', d, t)
    <3>1. d # c /\ down'[d] = down[d] \o ms
      BY <1>1, <1>5, <2>1, <2>3, <2>5
    <3>2. /\ Copies(ms, Subscribe(t)) = 0
          /\ Copies(ms, Cancel(t)) = IF t \in topics[c] THEN 1 ELSE 0
      BY <1>3, <1>4, WithdrawalList
    <3>3. IsFiniteSet(I) /\ Cardinality(I) \in Nat
      BY <1>2, InterestedType
    <3>4. J = I \ {c} /\ (c \in I <=> t \in topics[c])
      BY <1>1, <1>2, <3>1 DEF Interested
    <3>5. Cardinality(I \ {c}) = IF c \in I THEN Cardinality(I) - 1 ELSE Cardinality(I)
      <4> HIDE DEF I
      <4> QED
        BY <3>3, FS_RemoveElement
    <3>6. Cardinality(J) + Copies(ms, Cancel(t)) = Cardinality(I) + Copies(ms, Subscribe(t))
      <4> HIDE DEF I, J
      <4> QED
        BY <3>2, <3>3, <3>4, <3>5
    <3>7. sessions' \subseteq sessions /\ IsFiniteSet(sessions')
      <4>1. sessions' \subseteq sessions
        BY <1>1
      <4> QED
        BY <1>2, <4>1, FS_Subset
    <3> QED
      BY <1>2, <2>1, <2>2, <2>3, <3>1, <3>2, <3>6, <3>7, SendTold
  <2> QED
    BY <2>4, <2>5
<1> QED
  BY <1>6 DEF Told, ToldAt

\* Every proxy on its first connection has counted, or is about to, all others.
LEMMA ToldNext == ASSUME ClusterAssumption, TypeOK, Links, Unstarted, Announced, Told, [Next]_vars PROVE Told'
<1> USE DEF ClusterAssumption
<1>1. CASE UNCHANGED vars
  <2>1. down' = down /\ remote_topics' = remote_topics /\ accepted' = accepted /\ peer' = peer
        /\ sessions' = sessions /\ topics' = topics /\ owner' = owner /\ broken' = broken
    BY <1>1 DEF vars, bus, proxy, net, master
  <2> QED
    BY <2>1 DEF Told, First, Linked, Made
<1>2. ASSUME NEW p \in Procs, NEW t \in Topics, LocalSubscribe(p, t) PROVE Told'
  <2>1. down' = down /\ remote_topics' = remote_topics /\ accepted' = accepted
        /\ sessions' = sessions /\ topics' = topics /\ owner' = owner /\ broken \subseteq broken'
        /\ \A q \in Procs : peer'[q] = peer[q] \/ peer'[q] = None
    BY <1>2 DEF LocalSubscribe, TypeOK, Links, bus, proxy, net, master
  <2>2. ASSUME NEW q \in Procs, NEW u \in Topics, First(q)' PROVE ToldAt(q, u)'
    <3>1. First(q) /\ peer'[q] = peer[q]
      BY <2>1, <2>2 DEF First, Linked, Made
    <3>2. ToldAt(q, u)
      BY <3>1, ToldIsAt
    <3> QED
      BY <2>1, <3>1, <3>2 DEF ToldAt
  <2> QED
    BY <2>2 DEF Told, ToldAt
<1>3. ASSUME NEW p \in Procs, NEW t \in Topics, LocalCancel(p, t) PROVE Told'
  <2>1. down' = down /\ remote_topics' = remote_topics /\ accepted' = accepted
        /\ sessions' = sessions /\ topics' = topics /\ owner' = owner /\ broken \subseteq broken'
        /\ \A q \in Procs : peer'[q] = peer[q] \/ peer'[q] = None
    BY <1>3 DEF LocalCancel, TypeOK, Links, bus, proxy, net, master
  <2>2. ASSUME NEW q \in Procs, NEW u \in Topics, First(q)' PROVE ToldAt(q, u)'
    <3>1. First(q) /\ peer'[q] = peer[q]
      BY <2>1, <2>2 DEF First, Linked, Made
    <3>2. ToldAt(q, u)
      BY <3>1, ToldIsAt
    <3> QED
      BY <2>1, <3>1, <3>2 DEF ToldAt
  <2> QED
    BY <2>2 DEF Told, ToldAt
<1>4. ASSUME NEW p \in Procs, NEW t \in Topics, Watch(p, t) PROVE Told'
  <2>1. down' = down /\ remote_topics' = remote_topics /\ accepted' = accepted
        /\ sessions' = sessions /\ topics' = topics /\ owner' = owner /\ broken \subseteq broken'
        /\ \A q \in Procs : peer'[q] = peer[q] \/ peer'[q] = None
    BY <1>4 DEF Watch, TypeOK, Links, bus, proxy, net, master
  <2>2. ASSUME NEW q \in Procs, NEW u \in Topics, First(q)' PROVE ToldAt(q, u)'
    <3>1. First(q) /\ peer'[q] = peer[q]
      BY <2>1, <2>2 DEF First, Linked, Made
    <3>2. ToldAt(q, u)
      BY <3>1, ToldIsAt
    <3> QED
      BY <2>1, <3>1, <3>2 DEF ToldAt
  <2> QED
    BY <2>2 DEF Told, ToldAt
<1>5. ASSUME NEW p \in Procs, Start(p) PROVE Told'
  <2>1. ASSUME NEW q \in Procs, NEW t \in Topics, First(q)' PROVE ToldAt(q, t)'
    <3>1. CASE q = p
      <4>1. remote_topics'[p][t] = 0 /\ peer'[p] \notin sessions'
        BY <1>5, <2>1, <3>1, Starting
      <4> QED
        BY <3>1, <4>1 DEF ToldAt
    <3>2. CASE q # p
      <4>1. peer'[q] = peer[q] /\ First(q) /\ down' = down /\ topics' = topics
            /\ remote_topics' = remote_topics /\ sessions' = sessions /\ accepted' = accepted
        BY <1>5, <2>1, <3>2, Starting
      <4>2. ToldAt(q, t)
        BY <4>1, ToldIsAt
      <4> QED
        BY <4>1, <4>2 DEF ToldAt
    <3> QED
      BY <3>1, <3>2
  <2> QED
    BY <2>1 DEF Told, ToldAt
<1>6. ASSUME NEW p \in Procs, Stop(p) PROVE Told'
  <2>1. down' = down /\ remote_topics' = remote_topics /\ accepted' = accepted
        /\ sessions' = sessions /\ topics' = topics /\ owner' = owner /\ broken \subseteq broken'
        /\ \A q \in Procs : peer'[q] = peer[q] \/ peer'[q] = None
    BY <1>6 DEF Stop, TypeOK, Links, bus, proxy, net, master
  <2>2. ASSUME NEW q \in Procs, NEW u \in Topics, First(q)' PROVE ToldAt(q, u)'
    <3>1. First(q) /\ peer'[q] = peer[q]
      BY <2>1, <2>2 DEF First, Linked, Made
    <3>2. ToldAt(q, u)
      BY <3>1, ToldIsAt
    <3> QED
      BY <2>1, <3>1, <3>2 DEF ToldAt
  <2> QED
    BY <2>2 DEF Told, ToldAt
<1>7. ASSUME NEW p \in Procs, OnLocalWatch(p) PROVE Told'
  <2>1. down' = down /\ remote_topics' = remote_topics /\ accepted' = accepted
        /\ sessions' = sessions /\ topics' = topics /\ owner' = owner /\ broken \subseteq broken'
        /\ \A q \in Procs : peer'[q] = peer[q] \/ peer'[q] = None
    BY <1>7 DEF OnLocalWatch, TypeOK, Links, bus, proxy, net, master
  <2>2. ASSUME NEW q \in Procs, NEW u \in Topics, First(q)' PROVE ToldAt(q, u)'
    <3>1. First(q) /\ peer'[q] = peer[q]
      BY <2>1, <2>2 DEF First, Linked, Made
    <3>2. ToldAt(q, u)
      BY <3>1, ToldIsAt
    <3> QED
      BY <2>1, <3>1, <3>2 DEF ToldAt
  <2> QED
    BY <2>2 DEF Told, ToldAt
<1>8. ASSUME NEW c \in Conns, ProxyReceive(c) PROVE Told'
  BY <1>8, ReceiveTold
<1>9. ASSUME NEW c \in Conns, ProxyError(c) PROVE Told'
  <2>1. down' = down /\ remote_topics' = remote_topics /\ accepted' = accepted
        /\ sessions' = sessions /\ topics' = topics /\ owner' = owner /\ broken \subseteq broken'
        /\ \A q \in Procs : peer'[q] = peer[q] \/ peer'[q] = None
    BY <1>9 DEF ProxyError, TypeOK, Links, bus, proxy, net, master
  <2>2. ASSUME NEW q \in Procs, NEW u \in Topics, First(q)' PROVE ToldAt(q, u)'
    <3>1. First(q) /\ peer'[q] = peer[q]
      BY <2>1, <2>2 DEF First, Linked, Made
    <3>2. ToldAt(q, u)
      BY <3>1, ToldIsAt
    <3> QED
      BY <2>1, <3>1, <3>2 DEF ToldAt
  <2> QED
    BY <2>2 DEF Told, ToldAt
<1>10. ASSUME NEW c \in Conns, Accept(c) PROVE Told'
  BY <1>10, AcceptTold
<1>11. ASSUME NEW c \in Conns, MasterReceive(c) PROVE Told'
  BY <1>11, MasterTold
<1>12. ASSUME NEW c \in Conns, MasterError(c) PROVE Told'
  BY <1>12, ErrorTold
<1>13. ASSUME NEW c \in Conns, Break(c) PROVE Told'
  <2>1. down' = down /\ remote_topics' = remote_topics /\ accepted' = accepted
        /\ sessions' = sessions /\ topics' = topics /\ owner' = owner /\ broken \subseteq broken'
        /\ \A q \in Procs : peer'[q] = peer[q] \/ peer'[q] = None
    BY <1>13 DEF Break, TypeOK, Links, bus, proxy, net, master
  <2>2. ASSUME NEW q \in Procs, NEW u \in Topics, First(q)' PROVE ToldAt(q, u)'
    <3>1. First(q) /\ peer'[q] = peer[q]
      BY <2>1, <2>2 DEF First, Linked, Made
    <3>2. ToldAt(q, u)
      BY <3>1, ToldIsAt
    <3> QED
      BY <2>1, <3>1, <3>2 DEF ToldAt
  <2> QED
    BY <2>2 DEF Told, ToldAt
<1> QED
  BY <1>1, <1>2, <1>3, <1>4, <1>5, <1>6, <1>7,
     <1>8, <1>9, <1>10, <1>11, <1>12, <1>13 DEF Next

-----------------------------------------------------------------------------
(* The theorems. *)

LEMMA InitIInv == ASSUME ClusterAssumption, Init PROVE IInv
<1>1. TypeOK
  <2>1. <<>> \in Seq(Message)
    BY EmptySeq
  <2> QED
    BY <2>1 DEF ClusterAssumption, Init, TypeOK
<1>2. \A p \in Procs : notes[p] = <<>> /\ watched[p] = {} /\ ~Linked(p) /\ ~First(p)
  BY DEF Init, Linked, First
<1>3. \A c \in Conns : up[c] = <<>> /\ down[c] = <<>> /\ topics[c] = {}
  BY DEF Init
<1>4. \A t \in Topics : Silent(<<>>, t)
  BY DEF Silent
<1>5. Links
  <2>1. UNION {topics[c] : c \in Conns} = {} /\ sessions = {}
    BY DEF Init
  <2>2. IsFiniteSet({})
    BY FS_EmptySet
  <2> QED
    BY <2>1, <2>2 DEF Init, Links
<1>6. Unstarted
  BY <1>2, <1>4 DEF Init, Unstarted
<1>7. Counted
  <2>1. ASSUME NEW p \in Procs, NEW t \in Topics
        PROVE  WithinCount(subs[p][t], notes[p], t, local_topics[p][t])
    <3>1. PICK q \in Seq(Message) : q = <<>>
      BY EmptySeq
    <3>2. WithinCount(0, q, t, 0)
      <4>1. Silent(q, t) /\ 0 \in 0..MaxSubs
        BY <1>4, <3>1 DEF ClusterAssumption
      <4> QED
        BY <4>1, WithinSilent
    <3> QED
      BY <3>1, <3>2 DEF Init
  <2> QED
    BY <2>1 DEF Counted
<1>8. Announced
  <2>1. \A t \in Topics : Alternates(<<>>, t, {})
    BY DEF Alternates
  <2> QED
    BY <1>2, <1>3, <2>1 DEF Announced
<1>9. SessionExact /\ NeverBelow /\ CountExact
  BY <1>2 DEF SessionExact, NeverBelow, CountExact
<1> QED
  BY <1>1, <1>5, <1>6, <1>7, <1>8, <1>9 DEF IInv

LEMMA NextIInv == ASSUME ClusterAssumption, IInv, [Next]_vars PROVE IInv'
<1>1. TypeOK /\ Links /\ Unstarted /\ Counted /\ Announced /\ Agreed /\ Told
  BY AgreedIs, ToldIs DEF IInv
<1>2. TypeOK' /\ Links' /\ Unstarted' /\ Counted' /\ Announced'
  BY <1>1, TypesNext, LinksNext, UnstartedNext, CountedNext, AnnouncedNext
<1>3. Agreed' /\ Told'
  BY <1>1, AgreedNext, ToldNext
<1>4. SessionExact' /\ NeverBelow' /\ CountExact'
  BY <1>3 DEF SessionExact, Agreed, Exact, NeverBelow, CountExact, Told, Balanced, Interested
<1> QED
  BY <1>2, <1>4 DEF IInv

THEOREM Invariance == Spec => []IInv
<1>1. Init => IInv
  BY ClusterAssumption, InitIInv
<1>2. IInv /\ [Next]_vars => IInv'
  BY ClusterAssumption, NextIInv
<1> QED
  BY <1>1, <1>2, PTL DEF Spec

\* Type correctness: no table of a proxy counts more services than there are, and
\* none falls below 0.
THEOREM TypeCorrect == Spec => []TypeOK
<1>1. IInv => TypeOK
  BY DEF IInv
<1> QED
  BY <1>1, Invariance, PTL

\* What a proxy sends over its first connection leaves the session at the master
\* subscribed to the topics that the proxy counts (on_local_subscribe and
\* on_local_cancel of proxy.lua), for any number of services and topics.
THEOREM SessionExactAlways == Spec => []SessionExact
<1>1. IInv => SessionExact
  BY DEF IInv
<1> QED
  BY <1>1, Invariance, PTL

\* What the master tells a proxy on its first connection adds up to the other
\* sessions that are subscribed (send_to_others, on_socket_accept and
\* on_socket_error of master.lua), however many processes come and go.
THEOREM CountExactAlways == Spec => []CountExact
<1>1. IInv => CountExact
  BY DEF IInv
<1> QED
  BY <1>1, Invariance, PTL
-----------------------------------------------------------------------------
(* What a quiet cluster agrees on. *)

\* A connection that works is the one its proxy is on.
OnePeer == \A c \in Conns : owner[c] # None /\ c \notin broken => peer[owner[c]] = c

LEMMA OnePeerNext ==
  ASSUME ClusterAssumption, TypeOK, Links, OnePeer, [Next]_vars
  PROVE  OnePeer'
<1> USE DEF OnePeer
<1>1. ASSUME UNCHANGED <<owner, peer, broken>> PROVE OnePeer'
  BY <1>1
<1>2. ASSUME NEW p \in Procs, Start(p) PROVE OnePeer'
  <2>1. PICK d \in Conns : /\ owner[d] = None /\ owner' = [owner EXCEPT ![d] = p]
                           /\ peer' = [peer EXCEPT ![p] = d]
    BY <1>2 DEF Start
  <2>2. peer[p] = None /\ broken' = broken
    BY <1>2 DEF Start
  <2>3. ASSUME NEW c \in Conns, owner'[c] # None, c \notin broken
        PROVE  peer'[owner'[c]] = c
    <3>1. CASE c = d
      BY <2>1, <3>1 DEF TypeOK
    <3>2. CASE c # d
      <4>1. owner'[c] = owner[c] /\ owner[c] \in Procs /\ peer[owner[c]] = c
        BY <2>1, <2>3, <3>2 DEF TypeOK
      <4>2. owner[c] # p
        BY <2>2, <4>1 DEF ClusterAssumption
      <4> QED
        BY <2>1, <4>1, <4>2 DEF TypeOK
    <3> QED
      BY <3>1, <3>2
  <2> QED
    BY <2>2, <2>3
<1>3. ASSUME NEW p \in Procs, Stop(p) PROVE OnePeer'
  <2>1. /\ peer[p] # None /\ peer' = [peer EXCEPT ![p] = None]
        /\ broken' = broken \union {peer[p]} /\ owner' = owner
    BY <1>3 DEF Stop
  <2>2. ASSUME NEW c \in Conns, owner[c] # None, c \notin broken'
        PROVE  peer'[owner[c]] = c
    <3>1. owner[c] \in Procs /\ peer[owner[c]] = c /\ c # peer[p]
      BY <2>1, <2>2 DEF TypeOK
    <3>2. owner[c] # p
      BY <3>1
    <3> QED
      BY <2>1, <3>1, <3>2 DEF TypeOK
  <2> QED
    BY <2>1, <2>2
<1>4. ASSUME NEW d \in Conns, ProxyError(d) PROVE OnePeer'
  <2>1. /\ peer' = [peer EXCEPT ![owner[d]] = None] /\ owner' = owner
        /\ broken' = broken \union ({peer[owner[d]]} \ {None})
    BY <1>4 DEF ProxyError
  <2>2. ASSUME NEW c \in Conns, owner[c] # None, c \notin broken'
        PROVE  peer'[owner[c]] = c
    <3>1. owner[c] \in Procs /\ peer[owner[c]] = c
      BY <2>1, <2>2 DEF TypeOK
    <3>2. owner[c] # owner[d]
      BY <2>1, <2>2, <3>1 DEF ClusterAssumption
    <3> QED
      BY <2>1, <3>1, <3>2 DEF TypeOK
  <2> QED
    BY <2>1, <2>2
<1>5. ASSUME NEW c \in Conns, Break(c) PROVE OnePeer'
  BY <1>5 DEF Break, proxy
<1>6. ASSUME NEW p \in Procs, NEW t \in Topics,
             LocalSubscribe(p, t) \/ LocalCancel(p, t) \/ Watch(p, t)
      PROVE  OnePeer'
  BY <1>1, <1>6 DEF LocalSubscribe, LocalCancel, Watch, proxy, net
<1>7. ASSUME NEW p \in Procs, OnLocalWatch(p) PROVE OnePeer'
  BY <1>1, <1>7 DEF OnLocalWatch
<1>8. ASSUME NEW c \in Conns,
             ProxyReceive(c) \/ Accept(c) \/ MasterReceive(c) \/ MasterError(c)
      PROVE  OnePeer'
  BY <1>1, <1>8 DEF ProxyReceive, Accept, MasterReceive, MasterError, proxy
<1>9. CASE UNCHANGED vars
  BY <1>1, <1>9 DEF vars, proxy, net
<1> QED
  BY <1>2, <1>3, <1>4, <1>5, <1>6, <1>7, <1>8, <1>9 DEF Next

\* When nothing is under way, a proxy on its first connection has t in remote_topics
\* if another one on its first connection counts it, and has not if no other counts it.
QuietAgrees ==
  Quiet => \A p \in Procs, t \in Topics :
    First(p) =>
      /\ \A q \in Procs \ {p} :
           First(q) /\ local_topics[q][t] > 0 => remote_topics[p][t] > 0
      /\ Others(p, t) = {} => remote_topics[p][t] = 0

\* The sessions other than that of p that are subscribed to t.
OtherSessions(p, t) == {c \in sessions \ {peer[p]} : t \in topics[c]}

\* In a quiet cluster a connection that works is a session with empty queues.
LEMMA QuietLink ==
  ASSUME ClusterAssumption, TypeOK, Links, Quiet, NEW p \in Procs, Linked(p)
  PROVE  /\ peer[p] \in Conns /\ owner[peer[p]] = p /\ peer[p] \in sessions
         /\ up[peer[p]] = <<>> /\ down[peer[p]] = <<>>
<1>1. peer[p] \in Conns /\ owner[peer[p]] = p /\ peer[p] \notin broken
  BY DEF TypeOK, Links, Linked
<1>2. p # None
  BY DEF ClusterAssumption
<1> QED
  BY <1>1, <1>2 DEF Quiet, Links

\* Its count is that of the other sessions.
LEMMA QuietCount ==
  ASSUME ClusterAssumption, TypeOK, Links, CountExact, Quiet,
         NEW p \in Procs, NEW t \in Topics, First(p)
  PROVE  /\ IsFiniteSet(OtherSessions(p, t))
         /\ remote_topics[p][t] = Cardinality(OtherSessions(p, t))
<1>1. peer[p] \in sessions /\ down[peer[p]] = <<>>
  BY QuietLink DEF First
<1>2. \A m : Copies(<<>>, m) = 0
  <2>1. \A m : {i \in DOMAIN <<>> : <<>>[i] = m} = {}
    OBVIOUS
  <2> QED
    BY <2>1, FS_EmptySet DEF Copies
<1>3. IsFiniteSet(OtherSessions(p, t))
  <2>1. OtherSessions(p, t) \subseteq sessions
    BY DEF OtherSessions
  <2> QED
    BY <2>1, FS_Subset DEF Links
<1>4. Cardinality(OtherSessions(p, t)) \in Nat /\ remote_topics[p][t] \in Nat
  BY <1>3, FS_CardinalityType DEF TypeOK
<1>5. remote_topics[p][t] + Copies(<<>>, Subscribe(t))
        = Copies(<<>>, Cancel(t)) + Cardinality(OtherSessions(p, t))
  BY <1>1 DEF CountExact, OtherSessions
<1> QED
  BY <1>2, <1>3, <1>4, <1>5

\* The session of another proxy that counts t is among them.
LEMMA QuietSubscribed ==
  ASSUME ClusterAssumption, TypeOK, Links, SessionExact, Quiet,
         NEW p \in Procs, NEW t \in Topics, First(p),
         NEW q \in Procs \ {p}, First(q), local_topics[q][t] > 0
  PROVE  peer[q] \in OtherSessions(p, t)
<1>1. /\ owner[peer[p]] = p /\ owner[peer[q]] = q
      /\ peer[q] \in sessions /\ up[peer[q]] = <<>>
  BY QuietLink DEF First
<1>2. Silent(<<>>, t)
  BY DEF Silent
<1>3. t \in topics[peer[q]]
  BY <1>1, <1>2 DEF SessionExact
<1> QED
  BY <1>1, <1>3 DEF OtherSessions

\* Each of them is that of another proxy that counts t.
LEMMA QuietOthers ==
  ASSUME ClusterAssumption, TypeOK, Links, Announced, OnePeer, Quiet,
         NEW p \in Procs, NEW t \in Topics, NEW c \in OtherSessions(p, t)
  PROVE  owner[c] \in Others(p, t)
<1>1. c \in Conns /\ c \in sessions /\ c # peer[p] /\ t \in topics[c]
  BY DEF OtherSessions, TypeOK
<1>2. owner[c] # None /\ owner[c] \in Procs
  BY <1>1 DEF Links, TypeOK
<1>3. c \notin broken /\ up[c] = <<>>
  BY <1>1, <1>2 DEF Quiet
<1>4. peer[owner[c]] = c /\ c # None
  BY <1>1, <1>2, <1>3 DEF OnePeer, ClusterAssumption
<1>5. owner[c] # p
  BY <1>1, <1>4
<1>6. ~Ready(<<>>, t, topics[c])
  BY <1>1 DEF Ready, Ends
<1>7. local_topics[owner[c]][t] # 0
  BY <1>2, <1>3, <1>4, <1>6 DEF Announced, Linked
<1>8. local_topics[owner[c]][t] \in Nat
  BY <1>2 DEF TypeOK, ClusterAssumption
<1> QED
  BY <1>2, <1>4, <1>5, <1>7, <1>8 DEF Others

\* When nothing is under way any more, the proxies on their first connection agree:
\* one publishes to the master what another subscribes to, and nothing that no
\* other proxy counts (on_local_publish of proxy.lua looks at remote_topics).  This is
\* what InterestFollows waits for; that the queues run empty is left to TLC.
THEOREM QuietAgreesAlways == Spec => []QuietAgrees
<1>1. Init => OnePeer
  BY DEF Init, OnePeer
<1>2. IInv /\ OnePeer /\ [Next]_vars => OnePeer'
  BY ClusterAssumption, OnePeerNext DEF IInv
<1>3. IInv /\ OnePeer => QuietAgrees
  <2> SUFFICES ASSUME IInv, OnePeer, Quiet, NEW p \in Procs, NEW t \in Topics, First(p)
               PROVE  /\ \A q \in Procs \ {p} :
                           First(q) /\ local_topics[q][t] > 0 => remote_topics[p][t] > 0
                      /\ Others(p, t) = {} => remote_topics[p][t] = 0
    BY DEF QuietAgrees
  <2>1. /\ IsFiniteSet(OtherSessions(p, t))
        /\ remote_topics[p][t] = Cardinality(OtherSessions(p, t))
    BY ClusterAssumption, QuietCount DEF IInv
  <2>2. ASSUME NEW q \in Procs \ {p}, First(q), local_topics[q][t] > 0
        PROVE  remote_topics[p][t] > 0
    <3>1. OtherSessions(p, t) # {}
      BY <2>2, ClusterAssumption, QuietSubscribed DEF IInv
    <3> QED
      BY <2>1, <3>1, FS_EmptySet, FS_CardinalityType
  <2>3. ASSUME Others(p, t) = {} PROVE remote_topics[p][t] = 0
    <3>1. OtherSessions(p, t) = {}
      BY <2>3, ClusterAssumption, QuietOthers DEF IInv
    <3> QED
      BY <2>1, <3>1, FS_EmptySet
  <2> QED
    BY <2>2, <2>3
<1> QED
  BY <1>1, <1>2, <1>3, Invariance, PTL DEF Spec
=============================================================================
