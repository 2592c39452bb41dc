------------------------- MODULE SocketEventsProofs -------------------------
(***************************************************************************)
(* The handlers of sockets keep their slots, and give them back, for any   *)
(* number of sockets and slots.                                            *)
(*                                                                         *)
(* The invariant has two layers.  Whatever happens, a socket has at most   *)
(* one completion of its operation in the queue, of the kind that belongs  *)
(* to it (Lined), and its state says what it may have under way (Stages).  *)
(* As long as no socket was handed data after it was closed, that          *)
(* operation knows a slot that holds the handler of the socket, every slot *)
(* that is held is known so or was left behind (Owned), and the free slots *)
(* are a list without a slot that is held (FreeChain): a slot is then      *)
(* released once.                                                          *)
(*                                                                         *)
(* The last part is about what has completed and was not handed over yet:  *)
(* it is in the queue (Answered), so that a socket that ends is told so    *)
(* (ErrorComes).                                                           *)
(***************************************************************************)
EXTENDS SocketEvents, FiniteSetTheorems, FunctionTheorems, SequenceTheorems, TLAPS

-----------------------------------------------------------------------------
(* The inductive invariant. *)

Operations == {"connect", "accept", "read"}

\* The operation of k, if A are the sockets that are selected.
KindOf(k, A) == IF k \in Acceptors THEN "accept" ELSE IF k \in A THEN "read" ELSE "connect"

\* The state of a socket says what it may have under way.
Stages ==
  \A k \in Socks :
    /\ state[k] = "new" => op[k] = "none" /\ k \notin asyned
    /\ state[k] = "connecting" => k \in Streams \ asyned /\ op[k] # "none"
    /\ k \in Streams \ asyned /\ state[k] \in {"open", "closed"} => op[k] = "none"
    /\ state[k] = "closed" => k \in asyned
    /\ op[k] = "pending" => state[k] # "shut"
    /\ sending[k] # "idle" => k \in Streams
    /\ op[k] # "none" => index[k] \in Refs

\* e is the only completion of its kind for its socket, while o are the operations, s
\* the sends and A the sockets that are selected.
Fits(e, o, s, A) ==
  /\ e.kind \in Operations => e.kind = KindOf(e.sock, A) /\ o[e.sock] = "queued"
  /\ e.kind = "send" => s[e.sock] = "queued"
  /\ e.kind = "shutdown" => e.sock \in A

Same(e, f) ==
  /\ e.sock = f.sock
  /\ \/ e.kind \in Operations /\ f.kind \in Operations
     \/ e.kind = "send" /\ f.kind = "send"

Sound(q, o, s, A) ==
  /\ q \in Seq(Event)
  /\ \A i \in DOMAIN q : Fits(q[i], o, s, A)
  /\ \A i, j \in DOMAIN q : Same(q[i], q[j]) => i = j

Lined == Sound(queue, op, sending, asyned)

\* The free slots point to each other, each to another one and none to one that is held.
FreeChain ==
  /\ free \notin Handler /\ (free \in Refs => ~Holds(free))
  /\ \A r \in Refs : ~Holds(r) /\ registry[r] \in Refs =>
       /\ ~Holds(registry[r]) /\ registry[r] # free
       /\ \A q \in Refs : ~Holds(q) /\ registry[q] = registry[r] => q = r

\* What is under way knows its slots, and every slot that is held is known or left behind.
Owned ==
  /\ \A k \in Socks : op[k] # "none" =>
       index[k] \in Refs /\ registry[index[k]] = Does(KindOf(k, asyned), k)
  /\ \A k \in Socks : context[k] # None => registry[context[k]] = Does("write", k)
  /\ \A k \in Socks \ told : notify[k] \in {None, context[k]}
  /\ \A k \in asyned \ told : op[k] # "none"
  /\ \A r \in Refs : Holds(r) =>
       LET k == registry[r].sock
       IN  r \in left \/ r = context[k] \/ (op[k] # "none" /\ r = index[k])

IInv ==
  /\ TypeOK /\ Stages /\ Lined
  /\ late = {} => FreeChain /\ Owned /\ astray \subseteq told

-----------------------------------------------------------------------------
(* The queue. *)

\* An event is in the queue once at most, with a socket and a kind.
LEMMA EventFields ==
  ASSUME NEW q \in Seq(Event), NEW i \in DOMAIN q
  PROVE  /\ q[i] \in Event /\ q[i].sock \in Socks
         /\ q[i].kind \in Operations \union {"send", "shutdown"} /\ q[i].ec \in BOOLEAN
<1>1. q[i] \in Event
  BY ElementOfSeq
<1> QED
  BY <1>1 DEF Event, Operations

\* Nothing in q is the same as e.
Fresh(q, e) == \A i \in DOMAIN q : ~Same(q[i], e)

LEMMA SoundAppend ==
  ASSUME NEW o, NEW s, NEW A, NEW q, Sound(q, o, s, A), NEW e \in Event,
         Fits(e, o, s, A), Fresh(q, e)
  PROVE  Sound(Append(q, e), o, s, A)
<1> DEFINE z == Append(q, e)
<1>1. q \in Seq(Event) /\ Len(q) \in Nat
  BY LenProperties DEF Sound
<1>2. /\ z \in Seq(Event) /\ DOMAIN z = 1..Len(q) + 1 /\ DOMAIN q = 1..Len(q)
      /\ \A i \in 1..Len(q) : z[i] = q[i]
      /\ z[Len(q) + 1] = e
  BY <1>1, AppendProperties, LenProperties
<1> HIDE DEF z
<1>3. \A i \in DOMAIN z : (i \in DOMAIN q /\ z[i] = q[i]) \/ (i = Len(q) + 1 /\ z[i] = e)
  BY <1>1, <1>2
<1>4. \A i \in DOMAIN z : Fits(z[i], o, s, A)
  BY <1>3 DEF Sound
<1>5. ASSUME NEW i \in DOMAIN z, NEW j \in DOMAIN z, Same(z[i], z[j]) PROVE i = j
  <2>1. CASE i \in DOMAIN q /\ j \in DOMAIN q
    BY <1>2, <1>5, <2>1 DEF Sound
  <2>2. CASE i \in DOMAIN q /\ j \notin DOMAIN q
    BY <1>2, <1>3, <1>5, <2>2 DEF Fresh
  <2>3. CASE i \notin DOMAIN q /\ j \in DOMAIN q
    <3>1. Same(z[j], z[i])
      BY <1>5 DEF Same
    <3> QED
      BY <1>2, <1>3, <3>1, <2>3 DEF Fresh
  <2> QED
    BY <1>3, <2>1, <2>2, <2>3
<1> QED
  BY <1>2, <1>4, <1>5 DEF Sound, z

\* What runs is the only one of its kind.
LEMMA SoundTail ==
  ASSUME NEW o, NEW s, NEW A, NEW q, Sound(q, o, s, A), q # <<>>
  PROVE  /\ Head(q) \in Event /\ Fits(Head(q), o, s, A)
         /\ Sound(Tail(q), o, s, A) /\ Fresh(Tail(q), Head(q))
<1>1. q \in Seq(Event) /\ Len(q) \in Nat /\ Len(q) # 0
  BY LenProperties, EmptySeq DEF Sound
<1>2. /\ Tail(q) \in Seq(Event) /\ DOMAIN Tail(q) = 1..Len(q) - 1 /\ DOMAIN q = 1..Len(q)
      /\ \A i \in 1..Len(q) - 1 : Tail(q)[i] = q[i + 1]
      /\ Head(q) = q[1] /\ 1 \in DOMAIN q
  BY <1>1, HeadTailProperties, LenProperties
<1>3. \A i \in DOMAIN Tail(q) : i + 1 \in DOMAIN q /\ i + 1 # 1 /\ Tail(q)[i] = q[i + 1]
  BY <1>1, <1>2
<1>4. Head(q) \in Event
  BY <1>2, EventFields, <1>1
<1>5. \A i \in DOMAIN Tail(q) : Fits(Tail(q)[i], o, s, A)
  BY <1>3 DEF Sound
<1>6. ASSUME NEW i \in DOMAIN Tail(q), NEW j \in DOMAIN Tail(q), Same(Tail(q)[i], Tail(q)[j])
      PROVE  i = j
  <2>1. i + 1 = j + 1
    BY <1>3, <1>6 DEF Sound
  <2> QED
    BY <1>1, <1>2, <2>1
<1>7. Fresh(Tail(q), Head(q))
  BY <1>2, <1>3 DEF Sound, Fresh
<1> QED
  BY <1>2, <1>4, <1>5, <1>6, <1>7 DEF Sound

\* An operation that has no completion in the queue may change, and so may the
\* selection of its socket.
Idle(q, k) == \A i \in DOMAIN q : ~(q[i].sock = k /\ q[i].kind \in Operations)

LEMMA SoundIdle ==
  ASSUME NEW o, NEW s, NEW A, NEW q, Sound(q, o, s, A), NEW k, o[k] # "queued"
  PROVE  Idle(q, k)
BY DEF Sound, Fits, Idle

LEMMA SoundTurn ==
  ASSUME NEW o, DOMAIN o = Socks, NEW s, NEW A, NEW q, Sound(q, o, s, A), NEW k \in Socks, Idle(q, k),
         NEW x, NEW B, A \subseteq B, B \subseteq A \union {k}
  PROVE  Sound(q, [o EXCEPT ![k] = x], s, B)
<1>1. ASSUME NEW i \in DOMAIN q PROVE Fits(q[i], [o EXCEPT ![k] = x], s, B)
  <2>1. q[i].sock \in Socks /\ Fits(q[i], o, s, A)
    BY EventFields DEF Sound
  <2>2. q[i].kind \in Operations => q[i].sock # k
    BY DEF Idle
  <2>3. q[i].kind \in Operations =>
          q[i].kind = KindOf(q[i].sock, B) /\ [o EXCEPT ![k] = x][q[i].sock] = "queued"
    BY <2>1, <2>2 DEF Fits, KindOf
  <2> QED
    BY <2>1, <2>3 DEF Fits
<1> QED
  BY <1>1 DEF Sound

\* A send that has no completion in the queue may change.
LEMMA SoundSend ==
  ASSUME NEW o, NEW s, DOMAIN s = Socks, NEW A, NEW q, Sound(q, o, s, A), NEW k \in Socks,
         \A i \in DOMAIN q : ~(q[i].sock = k /\ q[i].kind = "send"), NEW x
  PROVE  Sound(q, o, [s EXCEPT ![k] = x], A)
<1>1. ASSUME NEW i \in DOMAIN q PROVE Fits(q[i], o, [s EXCEPT ![k] = x], A)
  <2>1. q[i].sock \in Socks /\ Fits(q[i], o, s, A)
    BY EventFields DEF Sound
  <2>2. q[i].kind = "send" => [s EXCEPT ![k] = x][q[i].sock] = "queued"
    BY <2>1 DEF Fits
  <2> QED
    BY <2>1, <2>2 DEF Fits
<1> QED
  BY <1>1 DEF Sound

\* A pending operation completes.
LEMMA SoundCompletes ==
  ASSUME NEW o, DOMAIN o = Socks, NEW s, NEW A, NEW q, Sound(q, o, s, A),
         NEW k \in Socks, Idle(q, k), NEW ec \in BOOLEAN
  PROVE  Sound(Append(q, Completion(KindOf(k, A), k, ec)), [o EXCEPT ![k] = "queued"], s, A)
<1> DEFINE e == Completion(KindOf(k, A), k, ec)
           z == [o EXCEPT ![k] = "queued"]
<1>1. e \in Event /\ e.sock = k /\ e.kind = KindOf(k, A) /\ e.kind \in Operations
  BY DEF Completion, Event, KindOf, Operations
<1>2. Sound(q, z, s, A)
  BY SoundTurn
<1>3. Fits(e, z, s, A)
  BY <1>1 DEF Fits, Operations
<1>4. Fresh(q, e)
  BY <1>1 DEF Fresh, Same, Idle, Operations
<1> HIDE DEF e, z
<1> QED
  BY <1>1, <1>2, <1>3, <1>4, SoundAppend DEF e, z

\* So does a send.
LEMMA SoundSent ==
  ASSUME NEW o, NEW s, DOMAIN s = Socks, NEW A, NEW q, Sound(q, o, s, A),
         NEW k \in Socks, s[k] # "queued", NEW ec \in BOOLEAN
  PROVE  Sound(Append(q, Completion("send", k, ec)), o, [s EXCEPT ![k] = "queued"], A)
<1> DEFINE e == Completion("send", k, ec)
           z == [s EXCEPT ![k] = "queued"]
<1>1. e \in Event /\ e.sock = k /\ e.kind = "send" /\ e.kind \notin Operations
  BY DEF Completion, Event, Operations
<1>2. \A i \in DOMAIN q : ~(q[i].sock = k /\ q[i].kind = "send")
  BY DEF Sound, Fits
<1>3. Sound(q, o, z, A)
  BY <1>2, SoundSend
<1>4. Fits(e, o, z, A)
  BY <1>1 DEF Fits
<1>5. Fresh(q, e)
  BY <1>1, <1>2 DEF Fresh, Same
<1> HIDE DEF e, z
<1> QED
  BY <1>1, <1>3, <1>4, <1>5, SoundAppend DEF e, z

\* A shutdown is posted for a socket that is selected.
LEMMA SoundPosts ==
  ASSUME NEW o, NEW s, NEW A, NEW q, Sound(q, o, s, A), NEW k \in Socks, k \in A
  PROVE  Sound(Append(q, Completion("shutdown", k, FALSE)), o, s, A)
<1> DEFINE e == Completion("shutdown", k, FALSE)
<1>1. e \in Event /\ e.sock = k /\ e.kind = "shutdown" /\ e.kind \notin Operations
  BY DEF Completion, Event, Operations
<1>2. Fits(e, o, s, A) /\ Fresh(q, e)
  BY <1>1 DEF Fits, Fresh, Same
<1> HIDE DEF e
<1> QED
  BY <1>1, <1>2, SoundAppend DEF e

\* A queue behind which nothing, or one event, is put.
LEMMA Behind ==
  ASSUME NEW q \in Seq(Event), NEW e \in Event
  PROVE  /\ q \o <<>> = q /\ q \o <<e>> = Append(q, e)
         /\ <<e>> \in Seq(Event) /\ <<>> \in Seq(Event)
<1>1. q \o <<>> = q /\ q \o <<e>> = Append(q, e)
  BY ConcatEmptySeq, AppendIsConcat
<1>2. <<e>> \in Seq(Event)
  OBVIOUS
<1> QED
  BY <1>1, <1>2, EmptySeq

\* What a socket is shut down with: a completion of each thing under way.
LEMMA ShutdownSound ==
  ASSUME EventsAssumption, TypeOK, Stages, NEW k \in Socks, NEW linger, NEW q,
         Sound(q, op, sending, asyned), Shutdown(k, linger, q)
  PROVE  Sound(queue', op', sending', asyned)
<1>0. DOMAIN op = Socks /\ DOMAIN sending = Socks /\ q \in Seq(Event)
  BY DEF TypeOK, Sound
<1>1. CASE linger /\ sending[k] # "idle" /\ state[k] # "shut"
  BY <1>1 DEF Shutdown
<1>2. CASE ~(linger /\ sending[k] # "idle" /\ state[k] # "shut")
  <2>1. /\ queue' = q \o Aborted(k)
        /\ op' = IF op[k] = "pending" THEN [op EXCEPT ![k] = "queued"] ELSE op
        /\ sending' = IF sending[k] = "pending" THEN [sending EXCEPT ![k] = "queued"] ELSE sending
    BY <1>2 DEF Shutdown, TypeOK
  <2> DEFINE e == Completion(KindOf(k, asyned), k, TRUE)
             f == Completion("send", k, TRUE)
             x == IF op[k] = "pending" THEN <<e>> ELSE <<>>
             y == IF sending[k] = "pending" THEN <<f>> ELSE <<>>
  <2>2. e \in Event /\ f \in Event /\ TRUE \in BOOLEAN
    BY DEF Completion, Event, KindOf
  <2>3. Aborted(k) = x \o y
    <3>1. op[k] = "pending" =>
            KindOf(k, asyned) = IF k \in Acceptors THEN "accept"
                                ELSE IF state[k] = "connecting" THEN "connect" ELSE "read"
      BY DEF EventsAssumption, TypeOK, Stages, KindOf, Socks
    <3> QED
      BY <3>1 DEF Aborted
  <2>4. x \in Seq(Event) /\ y \in Seq(Event)
    <3>1. <<e>> \in Seq(Event) /\ <<f>> \in Seq(Event) /\ <<>> \in Seq(Event)
      BY <1>0, <2>2, Behind
    <3> HIDE DEF e, f
    <3> QED
      BY <3>1
  <2>5. queue' = (q \o x) \o y
    <3> HIDE DEF x, y
    <3>1. (q \o x) \o y = q \o (x \o y)
      BY <1>0, <2>4, ConcatAssociative
    <3> QED
      BY <2>1, <2>3, <3>1
  <2>6. Sound(q \o x, op', sending, asyned)
    <3>1. CASE op[k] = "pending"
      <4>1. Idle(q, k)
        BY <3>1, SoundIdle
      <4>2. Sound(Append(q, e), [op EXCEPT ![k] = "queued"], sending, asyned)
        BY <1>0, <4>1, SoundCompletes
      <4>3. q \o x = Append(q, e)
        BY <1>0, <2>2, <3>1, Behind
      <4> QED
        BY <2>1, <3>1, <4>2, <4>3
    <3>2. CASE op[k] # "pending"
      BY <1>0, <2>1, <2>2, <3>2, Behind
    <3> QED
      BY <3>1, <3>2
  <2>7. PICK z : z = q \o x
    OBVIOUS
  <2>8. Sound(z, op', sending, asyned) /\ z \in Seq(Event)
    BY <2>6, <2>7 DEF Sound
  <2>9. Sound(z \o y, op', sending', asyned)
    <3>1. CASE sending[k] = "pending"
      <4>1. Sound(Append(z, f), op', [sending EXCEPT ![k] = "queued"], asyned)
        BY <1>0, <2>8, <3>1, SoundSent
      <4>2. z \o y = Append(z, f)
        BY <2>2, <2>8, <3>1, Behind
      <4> QED
        BY <2>1, <3>1, <4>1, <4>2
    <3>2. CASE sending[k] # "pending"
      BY <2>1, <2>2, <2>8, <3>2, Behind
    <3> QED
      BY <3>1, <3>2
  <2> QED
    BY <2>5, <2>7, <2>9
<1> QED
  BY <1>1, <1>2

\* What runs is of the socket it names.
LEMMA RunsHead ==
  ASSUME EventsAssumption, TypeOK, Lined, queue # <<>>
  PROVE  /\ Head(queue).sock \in Socks /\ Head(queue).ec \in BOOLEAN
         /\ Head(queue).kind \in Operations \union {"send", "shutdown"}
         /\ Fits(Head(queue), op, sending, asyned)
         /\ Sound(Rest, op, sending, asyned) /\ Fresh(Rest, Head(queue))
<1>1. Head(queue) \in Event
  BY SoundTail DEF Lined
<1> QED
  BY <1>1, SoundTail DEF Lined, Rest, Event, Operations

\* An operation that has run is no longer in the queue.
LEMMA RunIdle ==
  ASSUME NEW q, NEW e, Fresh(q, e), e.kind \in Operations
  PROVE  Idle(q, e.sock)
BY DEF Fresh, Same, Idle

-----------------------------------------------------------------------------
(* The slots. *)

\* A function takes the first slot that is free.
LEMMA RefTakes ==
  ASSUME EventsAssumption, TypeOK, NEW h \in Handler, Ref(h)
  PROVE  /\ free \in Refs /\ registry'[free] = h
         /\ \A r \in Refs \ {free} : registry'[r] = registry[r]
         /\ registry' \in [Refs -> Handler \union Refs \union {None}]
         /\ free' \in Handler \union Refs \union {None}
         /\ FreeChain => FreeChain' /\ ~Holds(free)
<1>1. free \in Refs /\ free' = registry[free] /\ registry' = [registry EXCEPT ![free] = h]
  BY DEF Ref
<1>2. /\ registry' \in [Refs -> Handler \union Refs \union {None}]
      /\ free' \in Handler \union Refs \union {None}
      /\ registry'[free] = h
      /\ \A r \in Refs \ {free} : registry'[r] = registry[r]
  BY <1>1 DEF TypeOK
<1>3. ASSUME FreeChain PROVE FreeChain' /\ ~Holds(free)
  <2>1. ~Holds(free) /\ free' \notin Handler
    BY <1>1, <1>3 DEF FreeChain, Holds
  <2>2. \A r \in Refs : registry'[r] \notin Handler => r # free /\ registry[r] \notin Handler /\ registry'[r] = registry[r]
    BY <1>2
  <2>3. free' \in Refs => registry'[free'] \notin Handler
    BY <1>1, <1>2, <1>3, <2>1 DEF FreeChain, Holds
  <2>4. ASSUME NEW r \in Refs, registry'[r] \notin Handler, registry'[r] \in Refs
        PROVE  /\ registry'[registry'[r]] \notin Handler /\ registry'[r] # free'
               /\ \A q \in Refs : registry'[q] \notin Handler /\ registry'[q] = registry'[r] => q = r
    <3>1. r # free /\ registry[r] \notin Handler /\ registry'[r] = registry[r]
      BY <2>2, <2>4
    <3>2. registry[registry[r]] \notin Handler /\ registry[r] # free
      BY <1>3, <2>4, <3>1 DEF FreeChain, Holds
    <3>3. registry[r] # registry[free]
      BY <1>1, <1>3, <2>1, <2>4, <3>1 DEF FreeChain, Holds
    <3>4. \A q \in Refs : registry'[q] \notin Handler /\ registry'[q] = registry'[r] => q = r
      BY <1>3, <2>2, <2>4, <3>1 DEF FreeChain, Holds
    <3> QED
      BY <1>1, <1>2, <2>4, <3>1, <3>2, <3>3, <3>4
  <2> QED
    BY <2>1, <2>3, <2>4 DEF FreeChain, Holds
<1> QED
  BY <1>1, <1>2, <1>3

\* The chain, of a registry whose first free slot is fr.
Chain(reg, fr) ==
  /\ fr \notin Handler /\ (fr \in Refs => reg[fr] \notin Handler)
  /\ \A r \in Refs : reg[r] \notin Handler /\ reg[r] \in Refs =>
       /\ reg[reg[r]] \notin Handler /\ reg[r] # fr
       /\ \A q \in Refs : reg[q] \notin Handler /\ reg[q] = reg[r] => q = r

\* A slot that is held is put in front of the free ones.
LEMMA ReleasedChain ==
  ASSUME EventsAssumption, NEW reg \in [Refs -> Handler \union Refs \union {None}],
         NEW fr, Chain(reg, fr), NEW r \in Refs, reg[r] \in Handler
  PROVE  Chain([reg EXCEPT ![r] = fr], r)
<1> DEFINE z == [reg EXCEPT ![r] = fr]
<1>1. z[r] = fr /\ \A q \in Refs : q # r => z[q] = reg[q]
  OBVIOUS
<1>2. fr \notin Handler /\ fr # r
  BY DEF Chain
<1> HIDE DEF z
<1>3. ASSUME NEW q \in Refs, z[q] \notin Handler, z[q] \in Refs
      PROVE  /\ z[z[q]] \notin Handler /\ z[q] # r
             /\ \A p \in Refs : z[p] \notin Handler /\ z[p] = z[q] => p = q
  <2>1. CASE q = r
    <3>1. z[q] = fr /\ fr \in Refs /\ reg[fr] \notin Handler /\ z[fr] = reg[fr]
      BY <1>1, <1>2, <1>3, <2>1 DEF Chain
    <3>2. \A p \in Refs : p # r /\ reg[p] \notin Handler /\ reg[p] \in Refs => reg[p] # fr
      BY DEF Chain
    <3> QED
      BY <1>1, <1>2, <2>1, <3>1, <3>2
  <2>2. CASE q # r
    <3>1. z[q] = reg[q] /\ reg[reg[q]] \notin Handler /\ reg[q] # fr /\ reg[q] # r
      BY <1>1, <1>3, <2>2 DEF Chain
    <3>2. z[reg[q]] = reg[reg[q]]
      BY <1>1, <1>3, <3>1
    <3>3. \A p \in Refs : z[p] \notin Handler /\ z[p] = z[q] => p = q
      BY <1>1, <1>3, <2>2, <3>1 DEF Chain
    <3> QED
      BY <3>1, <3>2, <3>3
  <2> QED
    BY <2>1, <2>2
<1>4. r \notin Handler /\ z[r] \notin Handler
  BY <1>1, <1>2 DEF EventsAssumption
<1> QED
  BY <1>3, <1>4 DEF Chain, z

LEMMA ChainIs == FreeChain <=> Chain(registry, free)
BY DEF FreeChain, Chain, Holds

\* Two slots that are held, or less, are given back.
LEMMA UnrefGives ==
  ASSUME EventsAssumption, TypeOK, NEW r1 \in Refs \union {None}, NEW r2 \in Refs \union {None},
         Unref(r1, r2)
  PROVE  /\ registry' \in [Refs -> Handler \union Refs \union {None}]
         /\ free' \in Handler \union Refs \union {None}
         /\ \A r \in Refs \ {r1, r2} : registry'[r] = registry[r]
         /\ (/\ FreeChain
             /\ r1 # None => Holds(r1)
             /\ r2 # None => Holds(r2)
             /\ r1 = r2 => r1 = None)
            => FreeChain' /\ \A r \in {r1, r2} \ {None} : ~Holds(r)'
<1> DEFINE x == [registry |-> registry, free |-> free]
           y == Released(x, r1)
           z == Released(y, r2)
<1>0. None \notin Refs
  BY DEF EventsAssumption
<1>1. registry' = z.registry /\ free' = z.free
  BY DEF Unref
<1>2. x.registry = registry /\ x.free = free
  OBVIOUS
<1>3. /\ y.registry = IF r1 = None THEN registry ELSE [registry EXCEPT ![r1] = free]
      /\ y.free = IF r1 = None THEN free ELSE r1
  BY <1>2 DEF Released
<1> HIDE DEF x, y
<1>4. /\ z.registry = IF r2 = None THEN y.registry ELSE [y.registry EXCEPT ![r2] = y.free]
      /\ z.free = IF r2 = None THEN y.free ELSE r2
  BY DEF Released
<1> HIDE DEF z
<1>5. PICK g, f : g = y.registry /\ f = y.free
  OBVIOUS
<1>6. /\ g \in [Refs -> Handler \union Refs \union {None}]
      /\ f \in Handler \union Refs \union {None}
      /\ \A r \in Refs \ {r1} : g[r] = registry[r]
      /\ r1 # None => g[r1] = free
  BY <1>3, <1>5 DEF TypeOK
<1>7. /\ registry' = IF r2 = None THEN g ELSE [g EXCEPT ![r2] = f]
      /\ free' = IF r2 = None THEN f ELSE r2
  BY <1>1, <1>4, <1>5
<1>8. /\ registry' \in [Refs -> Handler \union Refs \union {None}]
      /\ free' \in Handler \union Refs \union {None}
      /\ \A r \in Refs \ {r1, r2} : registry'[r] = registry[r]
      /\ r2 # None => registry'[r2] = f
      /\ r1 # r2 /\ r1 # None => registry'[r1] = free
  BY <1>0, <1>6, <1>7
<1>9. ASSUME FreeChain, r1 # None => Holds(r1), r2 # None => Holds(r2), r1 = r2 => r1 = None
      PROVE  FreeChain' /\ \A r \in {r1, r2} \ {None} : ~Holds(r)'
  <2>1. Chain(registry, free) /\ registry \in [Refs -> Handler \union Refs \union {None}]
    BY <1>9, ChainIs DEF TypeOK
  <2>2. Chain(g, f)
    <3>1. CASE r1 = None
      BY <1>3, <1>5, <2>1, <3>1
    <3>2. CASE r1 # None
      <4>1. r1 \in Refs /\ registry[r1] \in Handler
        BY <1>9, <3>2 DEF Holds
      <4>2. g = [registry EXCEPT ![r1] = free] /\ f = r1
        BY <1>3, <1>5, <3>2
      <4> QED
        BY <2>1, <4>1, <4>2, ReleasedChain
    <3> QED
      BY <3>1, <3>2
  <2>3. Chain(registry', free')
    <3>1. CASE r2 = None
      BY <1>7, <2>2, <3>1
    <3>2. CASE r2 # None
      <4>1. r2 \in Refs /\ g[r2] \in Handler
        BY <1>6, <1>9, <3>2 DEF Holds
      <4> QED
        BY <1>6, <1>7, <2>2, <3>2, <4>1, ReleasedChain
    <3> QED
      BY <3>1, <3>2
  <2>4. f \notin Handler /\ free \notin Handler
    BY <2>1, <2>2 DEF Chain
  <2> QED
    BY <1>8, <1>9, <2>3, <2>4 DEF Chain, FreeChain, Holds
<1> QED
  BY <1>8, <1>9

-----------------------------------------------------------------------------
(* The steps. *)

\* A completion of k is the first in the queue.
Heads(k, kind) == queue # <<>> /\ Head(queue).sock = k /\ Head(queue).kind = kind

Runs(k) ==
  \/ Heads(k, "connect") /\ \E ec \in BOOLEAN : RunConnect(k, ec)
  \/ Heads(k, "accept") /\ \E ec \in BOOLEAN : RunAccept(k, ec)
  \/ Heads(k, "send") /\ \E ec \in BOOLEAN : RunSend(k, ec)
  \/ Heads(k, "shutdown") /\ RunShutdown(k)
  \/ Heads(k, "read") /\ RunError(k)
  \/ Heads(k, "read") /\ RunData(k)

Act(k) == Script(k) \/ System(k) \/ Runs(k)

LEMMA NextIs ==
  ASSUME EventsAssumption, TypeOK, Lined, [Next]_vars
  PROVE  UNCHANGED vars \/ \E k \in Socks : Act(k)
<1>1. ASSUME Run PROVE \E k \in Socks : Runs(k)
  <2>1. queue # <<>> /\ Head(queue).sock \in Socks /\ Head(queue).ec \in BOOLEAN
    BY <1>1, RunsHead DEF Run
  <2> QED
    BY <1>1, <2>1 DEF Run, Runs, Heads
<1> QED
  BY <1>1 DEF Next, Act

\* What runs leaves the rest of the queue, without another one of its kind.
LEMMA Headed ==
  ASSUME EventsAssumption, TypeOK, Lined, NEW k \in Socks, NEW kind, Heads(k, kind)
  PROVE  /\ Sound(Rest, op, sending, asyned) /\ Rest \in Seq(Event)
         /\ kind \in Operations => /\ Idle(Rest, k) /\ kind = KindOf(k, asyned)
                                   /\ op[k] = "queued"
         /\ kind = "send" => /\ sending[k] = "queued" /\ k \in Socks
                             /\ \A i \in DOMAIN Rest : ~(Rest[i].sock = k /\ Rest[i].kind = "send")
         /\ kind = "shutdown" => k \in asyned
<1>1. /\ Fits(Head(queue), op, sending, asyned)
      /\ Sound(Rest, op, sending, asyned) /\ Fresh(Rest, Head(queue))
  BY RunsHead DEF Heads
<1>2. Head(queue).sock = k /\ Head(queue).kind = kind
  BY DEF Heads
<1>3. kind \in Operations => Idle(Rest, k)
  BY <1>1, <1>2, RunIdle
<1>4. kind = "send" => \A i \in DOMAIN Rest : ~(Rest[i].sock = k /\ Rest[i].kind = "send")
  BY <1>1, <1>2 DEF Fresh, Same
<1> QED
  BY <1>1, <1>2, <1>3, <1>4 DEF Fits, Sound

\* The kind of the operation of a socket that is pending.
LEMMA PendingKind ==
  ASSUME EventsAssumption, TypeOK, Stages, NEW k \in Socks, op[k] = "pending"
  PROVE  KindOf(k, asyned) = IF k \in Acceptors THEN "accept"
                             ELSE IF state[k] = "connecting" THEN "connect" ELSE "read"
BY DEF EventsAssumption, TypeOK, Stages, KindOf, Socks

\* Every socket has one completion of its operation in the queue at most.
LEMMA LinedNext ==
  ASSUME EventsAssumption, TypeOK, Stages, Lined, [Next]_vars
  PROVE  Lined'
<1>d. DOMAIN op = Socks /\ DOMAIN sending = Socks
  BY DEF TypeOK
<1>1. CASE UNCHANGED vars
  BY <1>1 DEF vars, net, Lined
<1>2. ASSUME NEW k \in Socks, Open(k) PROVE Lined'
  <2>1. state[k] = "new" /\ op' = [op EXCEPT ![k] = "pending"]
        /\ UNCHANGED <<sending, asyned, queue>>
    BY <1>2 DEF Open
  <2>2. Idle(queue, k)
    BY <2>1, SoundIdle DEF Lined, Stages
  <2> QED
    BY <1>d, <2>1, <2>2, SoundTurn DEF Lined
<1>3. ASSUME NEW k \in Socks, SelectRead(k) PROVE Lined'
  <2>1. k \in Streams \ asyned /\ IsOpen(k) /\ op' = [op EXCEPT ![k] = "pending"]
        /\ asyned' = asyned \union {k} /\ UNCHANGED <<sending, queue>>
    BY <1>3 DEF SelectRead
  <2>2. Idle(queue, k)
    BY <2>1, SoundIdle DEF Lined, Stages, IsOpen
  <2>3. PICK B : B = asyned \union {k}
    OBVIOUS
  <2>4. Sound(queue, [op EXCEPT ![k] = "pending"], sending, B)
    BY <1>d, <2>2, <2>3, SoundTurn DEF Lined
  <2> QED
    BY <2>1, <2>3, <2>4 DEF Lined
<1>4. ASSUME NEW k \in Socks, SelectWrite(k) \/ ListenFails(k) PROVE Lined'
  BY <1>4 DEF SelectWrite, ListenFails, Lined, net
<1>5. ASSUME NEW k \in Socks, Send(k) PROVE Lined'
  <2>1. sending[k] = "idle" /\ sending' = [sending EXCEPT ![k] = "pending"]
        /\ UNCHANGED <<op, asyned, queue>>
    BY <1>5 DEF Send
  <2>2. \A i \in DOMAIN queue : ~(queue[i].sock = k /\ queue[i].kind = "send")
    BY <2>1 DEF Lined, Sound, Fits
  <2> QED
    BY <1>d, <2>1, <2>2, SoundSend DEF Lined
<1>6. ASSUME NEW k \in Socks, Close(k) PROVE Lined'
  <2>1. CASE k \in asyned
    BY <1>6, <2>1, SoundPosts DEF Close, Lined, net
  <2>2. CASE k \notin asyned
    <3>1. PICK q : q = queue
      OBVIOUS
    <3>2. Shutdown(k, FALSE, q) /\ asyned' = asyned
      BY <1>6, <2>2, <3>1 DEF Close
    <3> QED
      BY <3>1, <3>2, ShutdownSound DEF Lined
  <2> QED
    BY <2>1, <2>2
<1>7. ASSUME NEW k \in Socks, Arrive(k) PROVE Lined'
  <2>1. PICK b \in BOOLEAN : queue' = Append(queue, Completion("read", k, b))
    BY <1>7 DEF Arrive, Complete
  <2>2. op[k] = "pending" /\ op' = [op EXCEPT ![k] = "queued"]
        /\ sending' = sending /\ asyned' = asyned
    BY <1>7 DEF Arrive, Complete
  <2>3. KindOf(k, asyned) = "read"
    BY <1>7 DEF Arrive, KindOf, TypeOK, EventsAssumption
  <2>4. Idle(queue, k)
    BY <2>2, SoundIdle DEF Lined
  <2>5. Sound(Append(queue, Completion("read", k, b)), [op EXCEPT ![k] = "queued"], sending, asyned)
    BY <1>d, <2>3, <2>4, SoundCompletes DEF Lined
  <2> QED
    BY <2>1, <2>2, <2>5 DEF Lined
<1>8. ASSUME NEW k \in Socks, Eof(k) PROVE Lined'
  <2>1. PICK b \in BOOLEAN : queue' = Append(queue, Completion("read", k, b))
    BY <1>8 DEF Eof, Complete
  <2>2. op[k] = "pending" /\ op' = [op EXCEPT ![k] = "queued"]
        /\ sending' = sending /\ asyned' = asyned
    BY <1>8 DEF Eof, Complete
  <2>3. KindOf(k, asyned) = "read"
    BY <1>8 DEF Eof, KindOf, TypeOK, EventsAssumption
  <2>4. Idle(queue, k)
    BY <2>2, SoundIdle DEF Lined
  <2>5. Sound(Append(queue, Completion("read", k, b)), [op EXCEPT ![k] = "queued"], sending, asyned)
    BY <1>d, <2>3, <2>4, SoundCompletes DEF Lined
  <2> QED
    BY <2>1, <2>2, <2>5 DEF Lined
<1>9. ASSUME NEW k \in Socks, Expire(k) PROVE Lined'
  <2>1. PICK q : q = queue
    OBVIOUS
  <2>2. Shutdown(k, FALSE, q) /\ asyned' = asyned
    BY <1>9, <2>1 DEF Expire
  <2> QED
    BY <2>1, <2>2, ShutdownSound DEF Lined
<1>10. ASSUME NEW k \in Socks, NEW ec \in BOOLEAN, Connected(k, ec) PROVE Lined'
  <2>1. PICK b \in BOOLEAN : queue' = Append(queue, Completion("connect", k, b))
    BY <1>10 DEF Connected, Complete
  <2>2. op[k] = "pending" /\ op' = [op EXCEPT ![k] = "queued"]
        /\ sending' = sending /\ asyned' = asyned
    BY <1>10 DEF Connected, Complete
  <2>3. KindOf(k, asyned) = "connect"
    BY <1>10, <2>2, PendingKind DEF Connected, EventsAssumption, Stages, KindOf, Socks
  <2>4. Idle(queue, k)
    BY <2>2, SoundIdle DEF Lined
  <2>5. Sound(Append(queue, Completion("connect", k, b)), [op EXCEPT ![k] = "queued"], sending, asyned)
    BY <1>d, <2>3, <2>4, SoundCompletes DEF Lined
  <2> QED
    BY <2>1, <2>2, <2>5 DEF Lined
<1>11. ASSUME NEW k \in Socks, NEW ec \in BOOLEAN, Accepted(k, ec) PROVE Lined'
  <2>1. PICK b \in BOOLEAN : queue' = Append(queue, Completion("accept", k, b))
    BY <1>11 DEF Accepted, Complete
  <2>2. op[k] = "pending" /\ op' = [op EXCEPT ![k] = "queued"]
        /\ sending' = sending /\ asyned' = asyned
    BY <1>11 DEF Accepted, Complete
  <2>3. KindOf(k, asyned) = "accept"
    BY <1>11, <2>2, PendingKind DEF Accepted, EventsAssumption, Stages, KindOf, Socks
  <2>4. Idle(queue, k)
    BY <2>2, SoundIdle DEF Lined
  <2>5. Sound(Append(queue, Completion("accept", k, b)), [op EXCEPT ![k] = "queued"], sending, asyned)
    BY <1>d, <2>3, <2>4, SoundCompletes DEF Lined
  <2> QED
    BY <2>1, <2>2, <2>5 DEF Lined
<1>12. ASSUME NEW k \in Socks, NEW ec \in BOOLEAN, SendEnds(k, ec) PROVE Lined'
  <2>1. sending[k] = "pending" /\ sending' = [sending EXCEPT ![k] = "queued"]
        /\ queue' = Append(queue, Completion("send", k, ec)) /\ op' = op /\ asyned' = asyned
    BY <1>12 DEF SendEnds
  <2> QED
    BY <1>d, <2>1, SoundSent DEF Lined
<1>13. ASSUME NEW k \in Socks, NEW ec \in BOOLEAN, RunConnect(k, ec), Heads(k, "connect") PROVE Lined'
  <2>1. op' = [op EXCEPT ![k] = "none"] /\ queue' = Rest /\ UNCHANGED <<sending, asyned>>
    BY <1>13 DEF RunConnect
  <2>2. Sound(Rest, op, sending, asyned) /\ Idle(Rest, k)
    BY <1>13, Headed DEF Operations
  <2>3. Sound(Rest, op', sending, asyned)
    BY <1>d, <2>1, <2>2, SoundTurn
  <2> QED
    BY <2>1, <2>3 DEF Lined
<1>14. ASSUME NEW k \in Socks, NEW ec \in BOOLEAN, RunAccept(k, ec), Heads(k, "accept") PROVE Lined'
  <2>1. queue' = Rest /\ UNCHANGED <<sending, asyned>>
    BY <1>14 DEF RunAccept
  <2>x. PICK x : op' = [op EXCEPT ![k] = x]
    BY <1>14 DEF RunAccept
  <2>2. Sound(Rest, op, sending, asyned) /\ Idle(Rest, k)
    BY <1>14, Headed DEF Operations
  <2>3. Sound(Rest, op', sending, asyned)
    BY <1>d, <2>x, <2>2, SoundTurn
  <2> QED
    BY <2>1, <2>3 DEF Lined
<1>15. ASSUME NEW k \in Socks, NEW ec \in BOOLEAN, RunSend(k, ec), Heads(k, "send") PROVE Lined'
  <2>1. PICK q : q = Rest
    OBVIOUS
  <2>2. /\ Sound(q, op, sending, asyned) /\ q \in Seq(Event)
        /\ \A i \in DOMAIN q : ~(q[i].sock = k /\ q[i].kind = "send")
    BY <1>15, <2>1, Headed
  <2>3. PICK x \in {"stuck", "idle"} : sending' = [sending EXCEPT ![k] = x]
    BY <1>15 DEF RunSend
  <2>4. Sound(q, op, sending', asyned)
    BY <1>d, <2>2, <2>3, SoundSend
  <2>5. CASE ~ec /\ state[k] = "closed" /\ op[k] = "pending"
    <3>1. queue' = q \o <<Completion("read", k, TRUE)>> /\ op' = [op EXCEPT ![k] = "queued"]
          /\ asyned' = asyned
      BY <1>15, <1>d, <2>1, <2>5 DEF RunSend
    <3>2. k \in asyned /\ KindOf(k, asyned) = "read"
      BY <2>5 DEF Stages, KindOf, TypeOK, EventsAssumption
    <3>3. Completion("read", k, TRUE) \in Event
      BY DEF Completion, Event
    <3>4. queue' = Append(q, Completion("read", k, TRUE))
      BY <2>2, <3>1, <3>3, Behind
    <3>5. Idle(q, k)
      BY <2>4, <2>5, SoundIdle
    <3>6. Sound(Append(q, Completion("read", k, TRUE)), [op EXCEPT ![k] = "queued"], sending', asyned)
      BY <1>d, <2>4, <3>2, <3>5, SoundCompletes
    <3> QED
      BY <3>1, <3>4, <3>6 DEF Lined
  <2>6. CASE ~(~ec /\ state[k] = "closed" /\ op[k] = "pending")
    <3>1. op' = op /\ asyned' = asyned
      BY <1>15, <2>6 DEF RunSend, TypeOK
    <3>2. queue' = q \/ queue' = q \o <<>>
      BY <1>15, <2>1, <2>6 DEF RunSend
    <3>3. q \o <<>> = q
      BY <2>2, ConcatEmptySeq
    <3> QED
      BY <2>4, <3>1, <3>2, <3>3 DEF Lined
  <2> QED
    BY <2>5, <2>6
<1>16. ASSUME NEW k \in Socks, RunShutdown(k), Heads(k, "shutdown") PROVE Lined'
  <2>1. PICK q : q = Rest
    OBVIOUS
  <2>2. Sound(q, op, sending, asyned)
    BY <1>16, <2>1, Headed
  <2>3. Shutdown(k, TRUE, q) /\ asyned' = asyned
    BY <1>16, <2>1 DEF RunShutdown
  <2> QED
    BY <2>2, <2>3, ShutdownSound DEF Lined
<1>17. ASSUME NEW k \in Socks, RunError(k), Heads(k, "read") PROVE Lined'
  <2>1. PICK q : q = Rest
    OBVIOUS
  <2>2. Sound(q, op, sending, asyned) /\ Idle(q, k) /\ k \in asyned
    BY <1>17, <2>1, Headed DEF Operations, KindOf
  <2>3. op' = [op EXCEPT ![k] = "none"] /\ UNCHANGED <<sending, asyned>>
        /\ queue' \in {q, Append(q, Completion("shutdown", k, FALSE))}
    BY <1>17, <2>1 DEF RunError, OnError
  <2>4. Sound(q, [op EXCEPT ![k] = "none"], sending, asyned)
    BY <1>d, <2>2, SoundTurn
  <2>5. Sound(Append(q, Completion("shutdown", k, FALSE)), [op EXCEPT ![k] = "none"], sending, asyned)
    BY <2>2, <2>4, SoundPosts
  <2> QED
    BY <2>3, <2>4, <2>5 DEF Lined
<1>18. ASSUME NEW k \in Socks, RunData(k), Heads(k, "read") PROVE Lined'
  <2>1. PICK q : q = Rest
    OBVIOUS
  <2>2. Sound(q, op, sending, asyned) /\ Idle(q, k) /\ k \in asyned /\ q \in Seq(Event)
        /\ KindOf(k, asyned) = "read"
    BY <1>18, <2>1, Headed DEF Operations, KindOf
  <2>3. UNCHANGED <<sending, asyned>>
    BY <1>18 DEF RunData
  <2>4. PICK z \in Seq(Event) : /\ Sound(z, op', sending, asyned)
                                /\ queue' \in {z, Append(z, Completion("shutdown", k, FALSE))}
    <3>1. CASE state[k] = "shut"
      <4>1. Completion("read", k, TRUE) \in Event
        BY DEF Completion, Event
      <4>2. q \o <<Completion("read", k, TRUE)>> = Append(q, Completion("read", k, TRUE))
        BY <2>2, <4>1, Behind
      <4>3. op' = [op EXCEPT ![k] = "queued"]
            /\ queue' \in {q \o <<Completion("read", k, TRUE)>>,
                           Append(q \o <<Completion("read", k, TRUE)>>, Completion("shutdown", k, FALSE))}
        BY <1>18, <2>1, <3>1 DEF RunData, OnError
      <4>4. Sound(Append(q, Completion("read", k, TRUE)), op', sending, asyned)
        BY <1>d, <2>2, <4>3, SoundCompletes
      <4> QED
        BY <4>2, <4>3, <4>4 DEF Sound
    <3>2. CASE state[k] # "shut"
      <4>1. q \o <<>> = q
        BY <2>2, ConcatEmptySeq
      <4>2. op' = [op EXCEPT ![k] = "pending"]
            /\ queue' \in {q \o <<>>, Append(q \o <<>>, Completion("shutdown", k, FALSE))}
        BY <1>18, <2>1, <3>2 DEF RunData, OnError
      <4>3. Sound(q, op', sending, asyned)
        BY <1>d, <2>2, <4>2, SoundTurn
      <4> QED
        BY <2>2, <4>1, <4>2, <4>3
    <3> QED
      BY <3>1, <3>2
  <2>5. Sound(Append(z, Completion("shutdown", k, FALSE)), op', sending, asyned)
    BY <2>2, <2>4, SoundPosts
  <2> QED
    BY <2>3, <2>4, <2>5 DEF Lined
<1> QED
  BY <1>1, <1>2, <1>3, <1>4, <1>5, <1>6, <1>7, <1>8,
     <1>9, <1>10, <1>11, <1>12, <1>13, <1>14, <1>15, <1>16, <1>17, <1>18, NextIs
     DEF Act, Script, System, Runs

\* What a shutdown makes of the socket.
LEMMA ShutdownEffect ==
  ASSUME TypeOK, NEW k \in Socks, NEW linger \in BOOLEAN, NEW q, Shutdown(k, linger, q)
  PROVE  \E s \in {"closed", "shut"} :
           /\ state' = [state EXCEPT ![k] = s]
           /\ s = "closed" => linger
           /\ s = "shut" => op'[k] # "pending"
           /\ op' \in [Socks -> {"none", "pending", "queued"}]
           /\ sending' \in [Socks -> {"idle", "pending", "queued", "stuck"}]
           /\ \A j \in Socks : op'[j] = op[j] \/ (op[j] = "pending" /\ op'[j] = "queued")
           /\ \A j \in Socks : sending'[j] # "idle" => sending[j] # "idle"
           /\ lingers' = lingers \/ (sending[k] # "idle" /\ lingers' = lingers \union {k})
<1>1. lingers' = lingers \/ (sending[k] # "idle" /\ lingers' = lingers \union {k})
  BY DEF Shutdown
<1>2. CASE linger /\ sending[k] # "idle" /\ state[k] # "shut"
  <2>1. state' = [state EXCEPT ![k] = "closed"] /\ UNCHANGED <<op, sending>>
    BY <1>2 DEF Shutdown
  <2> QED
    BY <1>1, <1>2, <2>1 DEF TypeOK
<1>3. CASE ~(linger /\ sending[k] # "idle" /\ state[k] # "shut")
  <2>1. /\ state' = [state EXCEPT ![k] = "shut"]
        /\ op' = [op EXCEPT ![k] = IF @ = "pending" THEN "queued" ELSE @]
        /\ sending' = [sending EXCEPT ![k] = IF @ = "pending" THEN "queued" ELSE @]
    BY <1>3 DEF Shutdown
  <2> QED
    BY <1>1, <2>1 DEF TypeOK
<1> QED
  BY <1>2, <1>3

\* The state of a socket goes with what it has under way.
LEMMA StagesNext ==
  ASSUME EventsAssumption, TypeOK, Stages, Lined, [Next]_vars
  PROVE  Stages'
<1>n. None \notin Refs
  BY DEF EventsAssumption
<1>t. /\ Streams \cap Acceptors = {} /\ Socks = Streams \union Acceptors
      /\ state \in [Socks -> {"new", "connecting", "open", "closed", "shut"}]
      /\ index \in [Socks -> Refs \union {None}]
      /\ op \in [Socks -> {"none", "pending", "queued"}]
      /\ sending \in [Socks -> {"idle", "pending", "queued", "stuck"}]
      /\ asyned \subseteq Streams
  BY DEF EventsAssumption, Socks, TypeOK
<1>1. CASE UNCHANGED vars
  BY <1>1 DEF vars, net, refs, Stages
<1>2. ASSUME NEW k \in Socks, Open(k) PROVE Stages'
  <2>1. free \in Refs
    BY <1>2 DEF Open, Ref
  <2> QED
    BY <1>t, <1>2, <2>1 DEF Open, Stages
<1>3. ASSUME NEW k \in Socks, SelectRead(k) PROVE Stages'
  <2>1. free \in Refs
    BY <1>3 DEF SelectRead, Ref
  <2> QED
    BY <1>t, <1>3, <2>1 DEF SelectRead, Stages, IsOpen
<1>4. ASSUME NEW k \in Socks, SelectWrite(k) PROVE Stages'
  BY <1>t, <1>4 DEF SelectWrite, Stages, net
<1>19. ASSUME NEW k \in Socks, ListenFails(k) PROVE Stages'
  <2>1. PICK s \in {"new", "open", "shut"} : state' = [state EXCEPT ![k] = s]
    BY <1>19 DEF ListenFails
  <2>2. /\ k \in Acceptors /\ state[k] = "new"
        /\ UNCHANGED <<index, op, sending, asyned>>
    BY <1>19 DEF ListenFails, refs
  <2> QED
    BY <1>t, <2>1, <2>2 DEF Stages
<1>5. ASSUME NEW k \in Socks, Send(k) PROVE Stages'
  BY <1>t, <1>5 DEF Send, Complete, Stages, net, refs, IsOpen
<1>6. ASSUME NEW k \in Socks, Close(k) PROVE Stages'
  <2>1. CASE k \in asyned
    BY <1>6, <2>1 DEF Close, net, refs, Stages
  <2>2. CASE k \notin asyned
    <3>1. PICK q : q = queue
      OBVIOUS
    <3>2. Shutdown(k, FALSE, q) /\ UNCHANGED <<asyned, index>> /\ state[k] # "new"
      BY <1>6, <2>2, <3>1 DEF Close, refs
    <3>3. PICK s \in {"closed", "shut"} :
             /\ state' = [state EXCEPT ![k] = s] /\ s # "closed"
             /\ (s = "shut" => op'[k] # "pending")
             /\ \A j \in Socks : op'[j] = op[j] \/ (op[j] = "pending" /\ op'[j] = "queued")
             /\ \A j \in Socks : sending'[j] # "idle" => sending[j] # "idle"
      BY <3>2, ShutdownEffect
    <3> QED
      BY <1>t, <3>2, <3>3 DEF Stages
  <2> QED
    BY <2>1, <2>2
<1>7. ASSUME NEW k \in Socks, Arrive(k) PROVE Stages'
  BY <1>t, <1>7 DEF Arrive, Complete, Stages, net, refs, IsOpen
<1>8. ASSUME NEW k \in Socks, Eof(k) PROVE Stages'
  BY <1>t, <1>8 DEF Eof, Complete, Stages, net, refs, IsOpen
<1>9. ASSUME NEW k \in Socks, Expire(k) PROVE Stages'
  <2>1. PICK q : q = queue
    OBVIOUS
  <2>2. Shutdown(k, FALSE, q) /\ UNCHANGED <<asyned, index>> /\ state[k] # "new"
    BY <1>9, <2>1 DEF Expire, refs
  <2>3. PICK s \in {"closed", "shut"} :
           /\ state' = [state EXCEPT ![k] = s] /\ s # "closed"
           /\ (s = "shut" => op'[k] # "pending")
           /\ \A j \in Socks : op'[j] = op[j] \/ (op[j] = "pending" /\ op'[j] = "queued")
           /\ \A j \in Socks : sending'[j] # "idle" => sending[j] # "idle"
    BY <2>2, ShutdownEffect
  <2> QED
    BY <1>t, <2>2, <2>3 DEF Stages
<1>10. ASSUME NEW k \in Socks, NEW ec \in BOOLEAN, Connected(k, ec) PROVE Stages'
  BY <1>t, <1>10 DEF Connected, Complete, Stages, net, refs, IsOpen
<1>11. ASSUME NEW k \in Socks, NEW ec \in BOOLEAN, Accepted(k, ec) PROVE Stages'
  BY <1>t, <1>11 DEF Accepted, Complete, Stages, net, refs, IsOpen
<1>12. ASSUME NEW k \in Socks, NEW ec \in BOOLEAN, SendEnds(k, ec) PROVE Stages'
  BY <1>t, <1>12 DEF SendEnds, Complete, Stages, net, refs, IsOpen
<1>13. ASSUME NEW k \in Socks, NEW ec \in BOOLEAN, RunConnect(k, ec), Heads(k, "connect") PROVE Stages'
  <2>1. op[k] = "queued" /\ KindOf(k, asyned) = "connect"
    BY <1>13, Headed DEF Operations
  <2>2. k \in Streams \ asyned
    BY <2>1 DEF KindOf, Socks
  <2>3. state[k] \in {"connecting", "shut"}
    BY <1>t, <2>1, <2>2 DEF Stages
  <2>4. PICK s \in {"open", "shut"} :
          state' = [state EXCEPT ![k] = IF @ = "connecting" THEN s ELSE @]
    BY <1>13 DEF RunConnect
  <2>5. /\ index' = [index EXCEPT ![k] = None] /\ op' = [op EXCEPT ![k] = "none"]
        /\ UNCHANGED <<sending, asyned>>
    BY <1>13 DEF RunConnect
  <2> QED
    BY <1>t, <2>2, <2>3, <2>4, <2>5 DEF Stages
<1>14. ASSUME NEW k \in Socks, NEW ec \in BOOLEAN, RunAccept(k, ec), Heads(k, "accept") PROVE Stages'
  <2>1. op[k] = "queued" /\ KindOf(k, asyned) = "accept"
    BY <1>14, Headed DEF Operations
  <2>2. k \in Acceptors /\ k \notin Streams /\ k \notin asyned
    BY <1>t, <2>1 DEF KindOf, EventsAssumption
  <2>3. state[k] \notin {"new", "connecting", "closed"}
    BY <1>t, <2>1, <2>2 DEF Stages
  <2>4. PICK x \in {"pending", "none"} : op' = [op EXCEPT ![k] = x] /\ (x = "pending" <=> state[k] = "open")
    BY <1>14 DEF RunAccept, IsOpen
  <2>5. state' = state \/ \E p \in Streams : state[p] = "new" /\ state' = [state EXCEPT ![p] = "open"]
    BY <1>14 DEF RunAccept, Spare
  <2>6. /\ index' = IF x = "pending" THEN index ELSE [index EXCEPT ![k] = None]
        /\ UNCHANGED <<sending, asyned>>
    BY <1>14, <2>4 DEF RunAccept, IsOpen
  <2>9. \A j \in Socks : op'[j] # "none" => index'[j] \in Refs
    BY <1>t, <2>1, <2>4, <2>6 DEF Stages
  <2>7. CASE state' = state
    BY <1>t, <2>2, <2>3, <2>4, <2>6, <2>7, <2>9 DEF Stages
  <2>8. ASSUME NEW p \in Streams, state[p] = "new", state' = [state EXCEPT ![p] = "open"] PROVE Stages'
    BY <1>t, <2>2, <2>3, <2>4, <2>6, <2>8, <2>9 DEF Stages
  <2> QED
    BY <2>5, <2>7, <2>8
<1>15. ASSUME NEW k \in Socks, NEW ec \in BOOLEAN, RunSend(k, ec), Heads(k, "send") PROVE Stages'
  <2>1. sending[k] = "queued"
    BY <1>15, Headed
  <2>2. k \in Streams
    BY <1>t, <2>1 DEF Stages
  <2>3. CASE ~ec /\ state[k] = "closed"
    <3>1. /\ state' = [state EXCEPT ![k] = "shut"] /\ sending' = [sending EXCEPT ![k] = "idle"]
          /\ op' = [op EXCEPT ![k] = IF @ = "pending" THEN "queued" ELSE @]
          /\ UNCHANGED <<index, asyned>>
      BY <1>15, <2>3 DEF RunSend, refs
    <3> QED
      BY <1>t, <2>3, <3>1 DEF Stages
  <2>4. CASE ~(~ec /\ state[k] = "closed")
    <3>1. state' = state /\ op' = op /\ (\E x : sending' = [sending EXCEPT ![k] = x])
          /\ UNCHANGED <<index, asyned>>
      BY <1>15, <2>4 DEF RunSend, refs
    <3> QED
      BY <1>t, <2>2, <3>1 DEF Stages
  <2> QED
    BY <2>3, <2>4
<1>16. ASSUME NEW k \in Socks, RunShutdown(k), Heads(k, "shutdown") PROVE Stages'
  <2>1. PICK q : q = Rest
    OBVIOUS
  <2>2. Shutdown(k, TRUE, q) /\ UNCHANGED <<asyned, index>> /\ k \in asyned
    BY <1>16, <2>1, Headed DEF RunShutdown, refs
  <2>3. PICK s \in {"closed", "shut"} :
           /\ state' = [state EXCEPT ![k] = s]
           /\ (s = "shut" => op'[k] # "pending")
           /\ \A j \in Socks : op'[j] = op[j] \/ (op[j] = "pending" /\ op'[j] = "queued")
           /\ \A j \in Socks : sending'[j] # "idle" => sending[j] # "idle"
    BY <2>2, ShutdownEffect
  <2> QED
    BY <1>t, <2>2, <2>3 DEF Stages
<1>17. ASSUME NEW k \in Socks, RunError(k), Heads(k, "read") PROVE Stages'
  <2>1. k \in asyned
    BY <1>17, Headed DEF Operations, KindOf
  <2>2. op' = [op EXCEPT ![k] = "none"] /\ UNCHANGED <<state, sending, asyned>>
        /\ index' = [index EXCEPT ![k] = None]
    BY <1>17 DEF RunError
  <2>3. k \in Streams
    BY <1>t, <2>1
  <2>4. state[k] # "connecting"
    BY <1>t, <2>1 DEF Stages
  <2> QED
    BY <1>t, <2>1, <2>2, <2>3, <2>4 DEF Stages
<1>18. ASSUME NEW k \in Socks, RunData(k), Heads(k, "read") PROVE Stages'
  <2>1. k \in asyned
    BY <1>18, Headed DEF Operations, KindOf
  <2>2. PICK x \in {"queued", "pending"} :
          op' = [op EXCEPT ![k] = x] /\ (x = "pending" => state[k] # "shut")
    BY <1>18 DEF RunData
  <2>3. UNCHANGED <<index, state, sending, asyned>>
    BY <1>18 DEF RunData
  <2>4. state[k] # "connecting" /\ state[k] # "new" /\ index[k] \in Refs
    <3>1. op[k] = "queued"
      BY <1>18, Headed DEF Operations
    <3> QED
      BY <1>t, <2>1, <3>1 DEF Stages
  <2> QED
    BY <1>t, <2>1, <2>2, <2>3, <2>4 DEF Stages
<1> QED
  BY <1>1, <1>2, <1>3, <1>4, <1>5, <1>6, <1>7, <1>8,
     <1>9, <1>10, <1>11, <1>12, <1>13, <1>14, <1>15, <1>16, <1>17, <1>18, <1>19, NextIs
     DEF Act, Script, System, Runs

\* An error keeps the slots in their types.
LEMMA ErrorTypes ==
  ASSUME EventsAssumption, TypeOK, NEW k \in Streams, NEW q, OnError(k, q)
  PROVE  /\ registry' \in [Refs -> Handler \union Refs \union {None}]
         /\ free' \in Handler \union Refs \union {None}
         /\ context' \in [Socks -> Refs \union {None}] /\ told' \subseteq Streams
<1>1. /\ index \in [Socks -> Refs \union {None}] /\ context \in [Socks -> Refs \union {None}]
      /\ k \in Socks /\ told \subseteq Streams
  BY DEF TypeOK, Socks
<1>2. PICK r \in Refs \union {None} : Unref(context[k], r) /\ context[k] \in Refs \union {None}
  BY <1>1 DEF OnError
<1>3. /\ registry' \in [Refs -> Handler \union Refs \union {None}]
      /\ free' \in Handler \union Refs \union {None}
  BY <1>2, UnrefGives
<1>4. context' \in [Socks -> Refs \union {None}] /\ told' \subseteq Streams
  BY <1>1 DEF OnError
<1> QED
  BY <1>3, <1>4

\* Every step keeps the types.
LEMMA TypesNext ==
  ASSUME EventsAssumption, TypeOK, Stages, Lined, [Next]_vars
  PROVE  TypeOK'
<1>t. /\ Streams \cap Acceptors = {} /\ Socks = Streams \union Acceptors
      /\ registry \in [Refs -> Handler \union Refs \union {None}]
      /\ free \in Handler \union Refs \union {None}
      /\ state \in [Socks -> {"new", "connecting", "open", "closed", "shut"}]
      /\ index \in [Socks -> Refs \union {None}] /\ context \in [Socks -> Refs \union {None}]
      /\ notify \in [Socks -> Refs \union {None}]
      /\ op \in [Socks -> {"none", "pending", "queued"}]
      /\ sending \in [Socks -> {"idle", "pending", "queued", "stuck"}]
      /\ asyned \subseteq Streams /\ told \subseteq Streams /\ late \subseteq Streams
      /\ lingers \subseteq Streams /\ astray \subseteq Streams /\ left \subseteq Refs
      /\ closes \in 0..MaxCloses /\ sends \in 0..MaxSends
      /\ MaxCloses \in Nat /\ MaxSends \in Nat
  BY DEF EventsAssumption, Socks, TypeOK
<1>q. queue' \in Seq(Event)
  BY LinedNext DEF Lined, Sound
<1>1. CASE UNCHANGED vars
  BY <1>1 DEF vars, net, refs, slots, notes, bounds, TypeOK
<1>2. ASSUME NEW k \in Socks, Open(k) PROVE TypeOK'
  <2>1. PICK h \in Handler : Ref(h)
    BY <1>2 DEF Open, Does, Handler
  <2>3. free \in Refs /\ registry' \in [Refs -> Handler \union Refs \union {None}]
        /\ free' \in Handler \union Refs \union {None}
    BY <2>1, RefTakes
  <2> QED
    BY <1>t, <1>q, <2>3, <1>2 DEF Open, TypeOK, net, refs, notes, bounds
<1>3. ASSUME NEW k \in Socks, SelectRead(k) PROVE TypeOK'
  <2>1. Does("read", k) \in Handler
    BY DEF Does, Handler
  <2>2. Ref(Does("read", k))
    BY <1>3 DEF SelectRead
  <2>3. free \in Refs /\ registry' \in [Refs -> Handler \union Refs \union {None}]
        /\ free' \in Handler \union Refs \union {None}
    BY <2>1, <2>2, RefTakes
  <2> QED
    BY <1>t, <1>q, <2>3, <1>3 DEF SelectRead, TypeOK, net, refs, notes, bounds
<1>4. ASSUME NEW k \in Socks, SelectWrite(k) PROVE TypeOK'
  <2>1. Does("write", k) \in Handler
    BY DEF Does, Handler
  <2>2. Ref(Does("write", k))
    BY <1>4 DEF SelectWrite
  <2>3. free \in Refs /\ registry' \in [Refs -> Handler \union Refs \union {None}]
        /\ free' \in Handler \union Refs \union {None}
    BY <2>1, <2>2, RefTakes
  <2> QED
    BY <1>t, <1>q, <2>3, <1>4 DEF SelectWrite, TypeOK, net, refs, notes, bounds
<1>19. ASSUME NEW k \in Socks, ListenFails(k) PROVE TypeOK'
  <2>1. Does("accept", k) \in Handler
    BY DEF Does, Handler
  <2>2. Ref(Does("accept", k))
    BY <1>19 DEF ListenFails
  <2>3. free \in Refs /\ registry' \in [Refs -> Handler \union Refs \union {None}]
        /\ free' \in Handler \union Refs \union {None}
    BY <2>1, <2>2, RefTakes
  <2>4. state' \in [Socks -> {"new", "connecting", "open", "closed", "shut"}]
    BY <1>t, <1>19 DEF ListenFails
  <2>5. left' \subseteq Refs
    BY <1>t, <2>3, <1>19 DEF ListenFails
  <2> QED
    BY <1>t, <1>q, <2>3, <2>4, <2>5, <1>19 DEF ListenFails, TypeOK, refs, bounds
<1>5. ASSUME NEW k \in Socks, Send(k) PROVE TypeOK'
  BY <1>t, <1>q, <1>5 DEF Send, Complete, TypeOK, net, refs, slots, notes, bounds
<1>6. ASSUME NEW k \in Socks, Close(k) PROVE TypeOK'
  <2>1. /\ state' \in [Socks -> {"new", "connecting", "open", "closed", "shut"}]
        /\ op' \in [Socks -> {"none", "pending", "queued"}]
        /\ sending' \in [Socks -> {"idle", "pending", "queued", "stuck"}]
        /\ lingers' \subseteq Streams
    <3>1. CASE k \in asyned
      BY <1>t, <1>6, <3>1 DEF Close, net
    <3>2. CASE k \notin asyned
      <4>1. Shutdown(k, FALSE, queue)
        BY <1>6, <3>2 DEF Close
      <4>2. PICK q : q = queue
        OBVIOUS
      <4>3. Shutdown(k, FALSE, q)
        BY <4>1, <4>2
      <4>4. /\ \E s \in {"closed", "shut"} : state' = [state EXCEPT ![k] = s]
            /\ op' \in [Socks -> {"none", "pending", "queued"}]
            /\ sending' \in [Socks -> {"idle", "pending", "queued", "stuck"}]
            /\ lingers' = lingers \/ (sending[k] # "idle" /\ lingers' = lingers \union {k})
        BY <4>3, ShutdownEffect
      <4> QED
        BY <1>t, <4>4 DEF Stages
    <3> QED
      BY <3>1, <3>2
  <2>2. closes' \in 0..MaxCloses /\ UNCHANGED <<slots, refs, asyned, notes, sends>>
    BY <1>t, <1>6 DEF Close
  <2> QED
    BY <1>t, <1>q, <2>1, <2>2 DEF TypeOK, refs, slots, notes
<1>7. ASSUME NEW k \in Socks, Arrive(k) PROVE TypeOK'
  BY <1>t, <1>q, <1>7 DEF Arrive, Complete, TypeOK, net, refs, slots, notes, bounds
<1>8. ASSUME NEW k \in Socks, Eof(k) PROVE TypeOK'
  BY <1>t, <1>q, <1>8 DEF Eof, Complete, TypeOK, net, refs, slots, notes, bounds
<1>9. ASSUME NEW k \in Socks, Expire(k) PROVE TypeOK'
  <2>0. PICK l \in BOOLEAN : \E x : Shutdown(k, l, x)
    BY <1>9 DEF Expire
  <2>1. PICK q : Shutdown(k, l, q)
    BY <2>0
  <2>2. /\ \E s \in {"closed", "shut"} : state' = [state EXCEPT ![k] = s]
        /\ op' \in [Socks -> {"none", "pending", "queued"}]
        /\ sending' \in [Socks -> {"idle", "pending", "queued", "stuck"}]
        /\ lingers' = lingers \/ (sending[k] # "idle" /\ lingers' = lingers \union {k})
    BY <2>1, ShutdownEffect
  <2>3. lingers' \subseteq Streams
    BY <1>t, <2>2 DEF Stages
  <2> QED
    BY <1>t, <1>q, <2>2, <2>3, <1>9 DEF Expire, TypeOK, refs, slots, notes, bounds
<1>10. ASSUME NEW k \in Socks, NEW ec \in BOOLEAN, Connected(k, ec) PROVE TypeOK'
  BY <1>t, <1>q, <1>10 DEF Connected, Complete, TypeOK, net, refs, slots, notes, bounds
<1>11. ASSUME NEW k \in Socks, NEW ec \in BOOLEAN, Accepted(k, ec) PROVE TypeOK'
  BY <1>t, <1>q, <1>11 DEF Accepted, Complete, TypeOK, net, refs, slots, notes, bounds
<1>12. ASSUME NEW k \in Socks, NEW ec \in BOOLEAN, SendEnds(k, ec) PROVE TypeOK'
  BY <1>t, <1>q, <1>12 DEF SendEnds, Complete, TypeOK, net, refs, slots, notes, bounds
<1>13. ASSUME NEW k \in Socks, NEW ec \in BOOLEAN, RunConnect(k, ec), Heads(k, "connect") PROVE TypeOK'
  <2>1. Unref(index[k], None) /\ index[k] \in Refs \union {None}
    BY <1>t, <1>13 DEF RunConnect
  <2>2. registry' \in [Refs -> Handler \union Refs \union {None}]
        /\ free' \in Handler \union Refs \union {None}
    BY <2>1, UnrefGives
  <2>3. state' \in [Socks -> {"new", "connecting", "open", "closed", "shut"}]
    BY <1>t, <1>13 DEF RunConnect
  <2> QED
    BY <1>t, <1>q, <2>2, <2>3, <1>13 DEF RunConnect, TypeOK, notes, bounds
<1>14. ASSUME NEW k \in Socks, NEW ec \in BOOLEAN, RunAccept(k, ec), Heads(k, "accept") PROVE TypeOK'
  <2>1. PICK r \in Refs \union {None} : Unref(r, None)
    BY <1>t, <1>14 DEF RunAccept
  <2>2. registry' \in [Refs -> Handler \union Refs \union {None}]
        /\ free' \in Handler \union Refs \union {None}
    BY <2>1, UnrefGives
  <2>3. state' \in [Socks -> {"new", "connecting", "open", "closed", "shut"}]
    BY <1>t, <1>14 DEF RunAccept, Spare
  <2>4. index' \in [Socks -> Refs \union {None}] /\ op' \in [Socks -> {"none", "pending", "queued"}]
    BY <1>t, <1>14 DEF RunAccept
  <2>5. UNCHANGED <<context, notify, sending, lingers, asyned, told, late, astray, closes, sends>>
    BY <1>14 DEF RunAccept, bounds
  <2>6. left' \subseteq Refs
    <3>1. op[k] = "queued"
      BY <1>14, Headed DEF Operations
    <3>2. index[k] \in Refs
      BY <3>1 DEF Stages
    <3> QED
      BY <1>t, <1>14, <3>2 DEF RunAccept
  <2> QED
    BY <1>t, <1>q, <2>2, <2>3, <2>4, <2>5, <2>6 DEF TypeOK
<1>15. ASSUME NEW k \in Socks, NEW ec \in BOOLEAN, RunSend(k, ec), Heads(k, "send") PROVE TypeOK'
  <2>1. /\ state' \in [Socks -> {"new", "connecting", "open", "closed", "shut"}]
        /\ op' \in [Socks -> {"none", "pending", "queued"}]
        /\ sending' \in [Socks -> {"idle", "pending", "queued", "stuck"}]
    <3>1. CASE ec \/ state[k] # "closed"
      BY <1>t, <1>15, <3>1 DEF RunSend
    <3>2. CASE ~ec /\ state[k] = "closed"
      BY <1>t, <1>15, <3>2 DEF RunSend
    <3> QED
      BY <3>1, <3>2
  <2>2. /\ UNCHANGED <<registry, free, index, context, notify, lingers, asyned, told, late>>
        /\ UNCHANGED <<left, closes, sends>>
    BY <1>15 DEF RunSend, slots, refs, bounds
  <2>3. astray' \subseteq Streams
    <3>1. sending[k] = "queued"
      BY <1>15, Headed
    <3>2. k \in Streams
      BY <3>1 DEF Stages
    <3>3. astray' \in {astray, astray \union {k}}
      BY <1>15 DEF RunSend, OnSend
    <3> QED
      BY <1>t, <3>2, <3>3
  <2> QED
    BY <1>t, <1>q, <2>1, <2>2, <2>3 DEF TypeOK
<1>16. ASSUME NEW k \in Socks, RunShutdown(k), Heads(k, "shutdown") PROVE TypeOK'
  <2>0. PICK l \in BOOLEAN : \E x : Shutdown(k, l, x)
    BY <1>16 DEF RunShutdown
  <2>1. PICK q : Shutdown(k, l, q)
    BY <2>0
  <2>2. /\ \E s \in {"closed", "shut"} : state' = [state EXCEPT ![k] = s]
        /\ op' \in [Socks -> {"none", "pending", "queued"}]
        /\ sending' \in [Socks -> {"idle", "pending", "queued", "stuck"}]
        /\ lingers' = lingers \/ (sending[k] # "idle" /\ lingers' = lingers \union {k})
    BY <2>1, ShutdownEffect
  <2>3. lingers' \subseteq Streams
    BY <1>t, <2>2 DEF Stages
  <2> QED
    BY <1>t, <1>q, <2>2, <2>3, <1>16 DEF RunShutdown, TypeOK, refs, slots, notes, bounds
<1>17. ASSUME NEW k \in Socks, RunError(k), Heads(k, "read") PROVE TypeOK'
  <2>1. k \in asyned
    BY <1>17, Headed DEF Operations, KindOf
  <2>2. OnError(k, Rest)
    BY <1>17 DEF RunError
  <2>3. /\ registry' \in [Refs -> Handler \union Refs \union {None}]
        /\ free' \in Handler \union Refs \union {None}
        /\ context' \in [Socks -> Refs \union {None}] /\ told' \subseteq Streams
    BY <1>t, <2>1, <2>2, ErrorTypes
  <2> QED
    BY <1>t, <1>q, <2>3, <1>17 DEF RunError, TypeOK, bounds
<1>18. ASSUME NEW k \in Socks, RunData(k), Heads(k, "read") PROVE TypeOK'
  <2>1. k \in asyned
    BY <1>18, Headed DEF Operations, KindOf
  <2>2. (\E q : OnError(k, q)) \/ UNCHANGED <<slots, context, told>>
    BY <1>18 DEF RunData
  <2>3. /\ registry' \in [Refs -> Handler \union Refs \union {None}]
        /\ free' \in Handler \union Refs \union {None}
        /\ context' \in [Socks -> Refs \union {None}] /\ told' \subseteq Streams
    BY <1>t, <2>1, <2>2, ErrorTypes DEF slots
  <2>4. late' \subseteq Streams
    BY <1>t, <2>1, <1>18 DEF RunData
  <2>5. op' \in [Socks -> {"none", "pending", "queued"}]
        /\ UNCHANGED <<index, notify, state, sending, lingers, asyned, astray, left, closes, sends>>
    BY <1>t, <1>18 DEF RunData, bounds
  <2> QED
    BY <1>t, <1>q, <2>3, <2>4, <2>5 DEF TypeOK
<1> QED
  BY <1>1, <1>2, <1>3, <1>4, <1>5, <1>6, <1>7, <1>8,
     <1>9, <1>10, <1>11, <1>12, <1>13, <1>14, <1>15, <1>16, <1>17, <1>18, <1>19, NextIs
     DEF Act, Script, System, Runs

-----------------------------------------------------------------------------
(* Who knows which slot. *)

\* A handler, and the slot of it.
LEMMA DoesIs ==
  ASSUME NEW kind \in {"connect", "accept", "read", "write"}, NEW k \in Socks
  PROVE  Does(kind, k) \in Handler /\ Does(kind, k).sock = k /\ Does(kind, k).kind = kind
BY DEF Does, Handler

LEMMA KindIs ==
  ASSUME NEW k, NEW A
  PROVE  KindOf(k, A) \in {"connect", "accept", "read"}
BY DEF KindOf

\* Two sockets, or the operation of a socket and _notify, know two slots.
LEMMA SlotsDiffer ==
  ASSUME EventsAssumption, TypeOK, Owned
  PROVE  /\ \A k \in Socks : op[k] # "none" =>
              /\ index[k] \in Refs /\ Holds(index[k]) /\ registry[index[k]].sock = k
              /\ registry[index[k]].kind # "write"
         /\ \A k \in Socks : context[k] # None =>
              /\ context[k] \in Refs /\ Holds(context[k]) /\ registry[context[k]].sock = k
              /\ registry[context[k]].kind = "write"
         /\ \A r \in Refs : Holds(r) => registry[r].sock \in Socks
<1>3. \A r \in Refs : Holds(r) => registry[r].sock \in Socks
  BY DEF Holds, Handler
<1>1. ASSUME NEW k \in Socks, op[k] # "none"
      PROVE  /\ index[k] \in Refs /\ Holds(index[k]) /\ registry[index[k]].sock = k
             /\ registry[index[k]].kind # "write"
  <2>1. index[k] \in Refs /\ registry[index[k]] = Does(KindOf(k, asyned), k)
    BY <1>1 DEF Owned
  <2>2. PICK d : d = KindOf(k, asyned)
    OBVIOUS
  <2>3. d \in {"connect", "accept", "read"}
    BY <2>2, KindIs
  <2>4. Does(d, k) \in Handler /\ Does(d, k).sock = k /\ Does(d, k).kind = d
    BY <2>3, DoesIs
  <2> QED
    BY <2>1, <2>2, <2>3, <2>4 DEF Holds
<1>2. ASSUME NEW k \in Socks, context[k] # None
      PROVE  /\ context[k] \in Refs /\ Holds(context[k]) /\ registry[context[k]].sock = k
             /\ registry[context[k]].kind = "write"
  <2>1. registry[context[k]] = Does("write", k) /\ context[k] \in Refs
    BY <1>2 DEF Owned, TypeOK
  <2>2. Does("write", k) \in Handler /\ Does("write", k).sock = k /\ Does("write", k).kind = "write"
    BY DoesIs
  <2> QED
    BY <2>1, <2>2 DEF Holds
<1> QED
  BY <1>1, <1>2, <1>3

\* A step that neither starts nor ends an operation, and leaves the slots alone.
Steady ==
  /\ UNCHANGED <<registry, free, index, context, notify, asyned, told, left>>
  /\ \A k \in Socks : op'[k] = "none" <=> op[k] = "none"

LEMMA SteadyKeeps ==
  ASSUME EventsAssumption, TypeOK, FreeChain, Owned, Steady
  PROVE  FreeChain' /\ Owned'
<1>1. FreeChain'
  BY DEF FreeChain, Holds, Steady
<1>2. asyned \subseteq Socks
  BY DEF TypeOK, Socks
<1>3. ASSUME NEW r \in Refs, Holds(r)
      PROVE  LET k == registry[r].sock
             IN  r \in left \/ r = context[k] \/ (op'[k] # "none" /\ r = index[k])
  <2>1. registry[r].sock \in Socks
    BY <1>3, SlotsDiffer
  <2> QED
    BY <1>3, <2>1 DEF Owned, Steady
<1>4. /\ \A k \in Socks : op'[k] # "none" =>
           index[k] \in Refs /\ registry[index[k]] = Does(KindOf(k, asyned), k)
      /\ \A k \in Socks : context[k] # None => registry[context[k]] = Does("write", k)
      /\ \A k \in Socks \ told : notify[k] \in {None, context[k]}
      /\ \A k \in asyned \ told : op'[k] # "none"
  BY <1>2 DEF Owned, Steady
<1> QED
  BY <1>1, <1>3, <1>4 DEF Owned, Holds, Steady

\* A shutdown is such a step.
LEMMA ShutdownSteady ==
  ASSUME EventsAssumption, TypeOK, NEW k \in Socks, NEW linger \in BOOLEAN, NEW q,
         Shutdown(k, linger, q), UNCHANGED <<slots, refs, asyned, told, left>>
  PROVE  Steady
<1>1. \A j \in Socks : op'[j] = op[j] \/ (op[j] = "pending" /\ op'[j] = "queued")
  BY ShutdownEffect
<1> QED
  BY <1>1 DEF Steady, slots, refs

\* A socket starts an operation: its handler takes a slot.
LEMMA OpenKeeps ==
  ASSUME EventsAssumption, TypeOK, FreeChain, Owned, NEW k \in Socks,
         op[k] = "none", NEW A, A = asyned \/ A = asyned \union {k},
         Ref(Does(KindOf(k, A), k)), index' = [index EXCEPT ![k] = free],
         op' = [op EXCEPT ![k] = "pending"], asyned' = A, UNCHANGED <<context, notify, told, left>>
  PROVE  FreeChain' /\ Owned'
<1>k. \A j \in Socks : j # k => KindOf(j, A) = KindOf(j, asyned)
  BY DEF KindOf
<1>t. /\ index \in [Socks -> Refs \union {None}] /\ context \in [Socks -> Refs \union {None}]
      /\ op \in [Socks -> {"none", "pending", "queued"}] /\ asyned \subseteq Socks
      /\ None \notin Refs /\ Streams \subseteq Socks
  BY DEF TypeOK, EventsAssumption, Socks
<1>1. PICK h : h = Does(KindOf(k, A), k)
  OBVIOUS
<1>2. h \in Handler /\ h.sock = k
  <2>1. PICK d : d = KindOf(k, A)
    OBVIOUS
  <2>2. d \in {"connect", "accept", "read", "write"}
    BY <2>1, KindIs
  <2> QED
    BY <1>1, <2>1, <2>2, DoesIs
<1>3. Ref(h)
  BY <1>1
<1>4. /\ free \in Refs /\ registry'[free] = h
      /\ \A r \in Refs \ {free} : registry'[r] = registry[r]
      /\ FreeChain' /\ ~Holds(free)
  BY <1>2, <1>3, RefTakes
<1>5. \A j \in Socks : j # k => index'[j] = index[j] /\ op'[j] = op[j]
  BY <1>t
<1>6. index'[k] = free /\ op'[k] = "pending"
  BY <1>t
<1>7. ASSUME NEW j \in Socks, op'[j] # "none"
      PROVE  index'[j] \in Refs /\ registry'[index'[j]] = Does(KindOf(j, A), j)
  <2>1. CASE j = k
    BY <1>1, <1>4, <1>6, <2>1
  <2>2. CASE j # k
    <3>1. index'[j] = index[j] /\ op[j] # "none"
      BY <1>5, <1>7, <2>2
    <3>2. index[j] \in Refs /\ index[j] # free
      BY <1>4, <3>1, SlotsDiffer
    <3>3. registry[index[j]] = Does(KindOf(j, asyned), j)
      BY <3>1 DEF Owned
    <3> QED
      BY <1>k, <1>4, <2>2, <3>1, <3>2, <3>3
  <2> QED
    BY <2>1, <2>2
<1>8. ASSUME NEW j \in Socks, context[j] # None
      PROVE  registry'[context[j]] = Does("write", j)
  <2>1. context[j] \in Refs /\ context[j] # free
    BY <1>4, <1>8, SlotsDiffer
  <2>2. registry[context[j]] = Does("write", j)
    BY <1>8 DEF Owned
  <2> QED
    BY <1>4, <2>1, <2>2
<1>9. \A j \in A \ told : op'[j] # "none"
  <2>1. \A j \in asyned \ told : op[j] # "none"
    BY DEF Owned
  <2> QED
    BY <1>t, <1>5, <1>6, <2>1
<1>10. ASSUME NEW r \in Refs, registry'[r] \in Handler
       PROVE  LET j == registry'[r].sock
              IN  r \in left \/ r = context[j] \/ (op'[j] # "none" /\ r = index'[j])
  <2>1. CASE r = free
    BY <1>2, <1>4, <1>6, <2>1
  <2>2. CASE r # free
    <3>1. registry'[r] = registry[r] /\ Holds(r)
      BY <1>4, <1>10, <2>2 DEF Holds
    <3>2. PICK j \in Socks : j = registry[r].sock
      BY <3>1, SlotsDiffer
    <3>3. r \in left \/ r = context[j] \/ (op[j] # "none" /\ r = index[j])
      BY <3>1, <3>2 DEF Owned
    <3>4. r \in left \/ r = context[j] \/ (op'[j] # "none" /\ r = index'[j])
      BY <1>5, <3>3
    <3> QED
      BY <3>1, <3>2, <3>4
  <2> QED
    BY <2>1, <2>2
<1>11. \A j \in Socks \ told : notify[j] \in {None, context[j]}
  BY DEF Owned
<1> QED
  BY <1>4, <1>7, <1>8, <1>9, <1>10, <1>11 DEF Owned, Holds

\* A listen that fails takes a slot too, which is left behind.
LEMMA ListenKeeps ==
  ASSUME EventsAssumption, TypeOK, FreeChain, Owned, NEW k \in Socks, ListenFails(k)
  PROVE  FreeChain' /\ Owned'
<1>1. PICK h : h = Does("accept", k)
  OBVIOUS
<1>2. h \in Handler /\ Ref(h)
  BY <1>1, DoesIs DEF ListenFails
<1>3. /\ free \in Refs /\ registry'[free] = h
      /\ \A r \in Refs \ {free} : registry'[r] = registry[r]
      /\ FreeChain' /\ ~Holds(free)
  BY <1>2, RefTakes
<1>4. left' = left \union {free} /\ UNCHANGED <<index, context, notify, op, asyned, told>>
  BY DEF ListenFails, refs
<1>5. ASSUME NEW j \in Socks, op[j] # "none"
      PROVE  index[j] \in Refs /\ registry'[index[j]] = Does(KindOf(j, asyned), j)
  <2>1. index[j] \in Refs /\ index[j] # free
    BY <1>3, <1>5, SlotsDiffer
  <2>2. registry[index[j]] = Does(KindOf(j, asyned), j)
    BY <1>5 DEF Owned
  <2> QED
    BY <1>3, <2>1, <2>2
<1>6. ASSUME NEW j \in Socks, context[j] # None PROVE registry'[context[j]] = Does("write", j)
  <2>1. context[j] \in Refs /\ context[j] # free
    BY <1>3, <1>6, SlotsDiffer
  <2>2. registry[context[j]] = Does("write", j)
    BY <1>6 DEF Owned
  <2> QED
    BY <1>3, <2>1, <2>2
<1>7. ASSUME NEW r \in Refs, registry'[r] \in Handler
      PROVE  LET j == registry'[r].sock
             IN  r \in left' \/ r = context[j] \/ (op[j] # "none" /\ r = index[j])
  <2>1. CASE r = free
    BY <1>4, <2>1
  <2>2. CASE r # free
    <3>1. registry'[r] = registry[r] /\ Holds(r)
      BY <1>3, <1>7, <2>2 DEF Holds
    <3> QED
      BY <1>4, <3>1 DEF Owned
  <2> QED
    BY <2>1, <2>2
<1>8. /\ \A j \in Socks \ told : notify[j] \in {None, context[j]}
      /\ \A j \in asyned \ told : op[j] # "none"
  BY DEF Owned
<1> QED
  BY <1>3, <1>4, <1>5, <1>6, <1>7, <1>8 DEF Owned, Holds

\* select of type 2: so does the handler of _notify.
LEMMA NotifyKeeps ==
  ASSUME EventsAssumption, TypeOK, FreeChain, Owned, NEW k \in Socks, SelectWrite(k)
  PROVE  FreeChain' /\ Owned'
<1>t. /\ context \in [Socks -> Refs \union {None}] /\ notify \in [Socks -> Refs \union {None}]
      /\ None \notin Refs
  BY DEF TypeOK, EventsAssumption
<1>1. PICK h : h = Does("write", k)
  OBVIOUS
<1>2. h \in Handler /\ h.sock = k
  BY <1>1, DoesIs
<1>3. /\ Ref(h) /\ context' = [context EXCEPT ![k] = free]
      /\ notify' = [notify EXCEPT ![k] = free] /\ left' = left \union ({context[k]} \ {None})
      /\ UNCHANGED <<index, op, asyned, told>>
  BY <1>1 DEF SelectWrite, net
<1>4. /\ free \in Refs /\ registry'[free] = h
      /\ \A r \in Refs \ {free} : registry'[r] = registry[r]
      /\ FreeChain' /\ ~Holds(free)
  BY <1>2, <1>3, RefTakes
<1>6. /\ context'[k] = free /\ \A j \in Socks : j # k => context'[j] = context[j]
      /\ notify'[k] = free /\ \A j \in Socks : j # k => notify'[j] = notify[j]
  BY <1>t, <1>3
<1>7. ASSUME NEW j \in Socks, op[j] # "none"
      PROVE  index[j] \in Refs /\ registry'[index[j]] = Does(KindOf(j, asyned), j)
  <2>1. index[j] \in Refs /\ index[j] # free
    BY <1>4, <1>7, SlotsDiffer
  <2>2. registry[index[j]] = Does(KindOf(j, asyned), j)
    BY <1>7 DEF Owned
  <2> QED
    BY <1>4, <2>1, <2>2
<1>8. ASSUME NEW j \in Socks, context'[j] # None
      PROVE  registry'[context'[j]] = Does("write", j)
  <2>1. CASE j = k
    BY <1>1, <1>4, <1>6, <2>1
  <2>2. CASE j # k
    <3>1. context'[j] = context[j] /\ context[j] # None
      BY <1>6, <1>8, <2>2
    <3>2. context[j] \in Refs /\ context[j] # free
      BY <1>4, <3>1, SlotsDiffer
    <3>3. registry[context[j]] = Does("write", j)
      BY <3>1 DEF Owned
    <3> QED
      BY <1>4, <3>1, <3>2, <3>3
  <2> QED
    BY <2>1, <2>2
<1>9. ASSUME NEW r \in Refs, registry'[r] \in Handler
      PROVE  LET j == registry'[r].sock
             IN  r \in left' \/ r = context'[j] \/ (op[j] # "none" /\ r = index[j])
  <2>1. CASE r = free
    BY <1>2, <1>4, <1>6, <2>1
  <2>2. CASE r # free
    <3>1. registry'[r] = registry[r] /\ Holds(r)
      BY <1>4, <1>9, <2>2 DEF Holds
    <3>2. PICK j \in Socks : j = registry[r].sock
      BY <3>1, SlotsDiffer
    <3>3. r \in left \/ r = context[j] \/ (op[j] # "none" /\ r = index[j])
      BY <3>1, <3>2 DEF Owned
    <3>4. r = context[j] => r \in left' \/ r = context'[j]
      BY <1>t, <1>3, <1>6
    <3>5. r \in left' \/ r = context'[j] \/ (op[j] # "none" /\ r = index[j])
      BY <1>3, <3>3, <3>4
    <3> QED
      BY <3>1, <3>2, <3>5
  <2> QED
    BY <2>1, <2>2
<1>10. /\ \A j \in asyned \ told : op[j] # "none"
       /\ \A j \in Socks \ told : notify'[j] \in {None, context'[j]}
  BY <1>6 DEF Owned
<1> QED
  BY <1>3, <1>4, <1>7, <1>8, <1>9, <1>10 DEF Owned, Holds

\* The operation of a socket ends: the slots of its handlers, D, are released, that of its
\* operation or it is left behind, and that of context() or it is still known.
LEMMA EndKeeps ==
  ASSUME EventsAssumption, TypeOK, Owned, NEW k \in Socks, NEW D \in SUBSET Refs,
         \A r \in Refs \ D : registry'[r] = registry[r],
         \A r \in D : ~Holds(r)' /\ Holds(r) /\ registry[r].sock = k,
         op' = [op EXCEPT ![k] = "none"],
         context'[k] \in {None, context[k]}, context'[k] \notin D,
         context[k] \in D \union {context'[k]},
         \A j \in Socks \ {k} : context'[j] = context[j],
         \A j \in Socks \ {k} : index'[j] = index[j],
         notify' = notify, asyned' = asyned, told \subseteq told', left \subseteq left',
         k \in asyned \/ context'[k] # context[k] => k \in told',
         index[k] \in D \union left'
  PROVE  Owned'
<1>t. /\ op \in [Socks -> {"none", "pending", "queued"}] /\ asyned \subseteq Socks
      /\ None \notin Refs
  BY DEF TypeOK, EventsAssumption, Socks
<1>1. op'[k] = "none" /\ \A j \in Socks \ {k} : op'[j] = op[j]
  BY <1>t
<1>2. ASSUME NEW j \in Socks, op'[j] # "none"
      PROVE  index'[j] \in Refs /\ registry'[index'[j]] = Does(KindOf(j, asyned), j)
  <2>1. j # k /\ op[j] # "none" /\ index'[j] = index[j]
    BY <1>1, <1>2
  <2>2. index[j] \in Refs /\ registry[index[j]].sock = j
    BY <2>1, SlotsDiffer
  <2>3. registry[index[j]] = Does(KindOf(j, asyned), j)
    BY <2>1 DEF Owned
  <2>4. index[j] \notin D
    BY <2>1, <2>2
  <2> QED
    BY <2>1, <2>2, <2>3, <2>4
<1>3. ASSUME NEW j \in Socks, context'[j] # None
      PROVE  registry'[context'[j]] = Does("write", j)
  <2>1. context[j] # None /\ context'[j] = context[j]
    BY <1>3
  <2>2. context[j] \in Refs /\ registry[context[j]].sock = j
    BY <2>1, SlotsDiffer
  <2>3. registry[context[j]] = Does("write", j)
    BY <2>1 DEF Owned
  <2>4. context[j] \notin D
    BY <2>1, <2>2
  <2> QED
    BY <2>1, <2>2, <2>3, <2>4
<1>4. \A j \in asyned \ told' : op'[j] # "none"
  <2>1. \A j \in asyned \ told : op[j] # "none"
    BY DEF Owned
  <2> QED
    BY <1>t, <1>1, <2>1
<1>5. ASSUME NEW r \in Refs, registry'[r] \in Handler
      PROVE  LET j == registry'[r].sock
             IN  r \in left' \/ r = context'[j] \/ (op'[j] # "none" /\ r = index'[j])
  <2>1. r \notin D /\ registry'[r] = registry[r] /\ Holds(r)
    BY <1>5 DEF Holds
  <2>2. PICK j \in Socks : j = registry[r].sock
    BY <2>1, SlotsDiffer
  <2>3. r \in left \/ r = context[j] \/ (op[j] # "none" /\ r = index[j])
    BY <2>1, <2>2 DEF Owned
  <2>4. r \in left' \/ r = context'[j] \/ (op'[j] # "none" /\ r = index'[j])
    BY <1>1, <2>1, <2>3
  <2> QED
    BY <2>1, <2>2, <2>4
<1>6. \A j \in Socks \ told' : notify[j] \in {None, context'[j]}
  <2>1. \A j \in Socks \ told : notify[j] \in {None, context[j]}
    BY DEF Owned
  <2> QED
    BY <2>1
<1> QED
  BY <1>2, <1>3, <1>4, <1>5, <1>6 DEF Owned, Holds

\* No step forgets a socket that was handed data late.
LEMMA LateGrows ==
  ASSUME [Next]_vars
  PROVE  late' = {} => late = {}
BY DEF Next, vars, notes, Script, System, Run, Open, ListenFails, SelectRead, SelectWrite, Send, Close,
       Arrive, Eof, Expire, Connected, Accepted, SendEnds, Complete, RunConnect, RunAccept,
       RunSend, RunShutdown, RunError, RunData

\* As long as no socket is handed data after it was closed, every step leaves the free
\* slots a list and the slots with those who know them.
LEMMA OwnedNext ==
  ASSUME EventsAssumption, TypeOK, Stages, Lined, FreeChain, Owned, [Next]_vars, late' = {}
  PROVE  FreeChain' /\ Owned'
<1>t. /\ index \in [Socks -> Refs \union {None}] /\ context \in [Socks -> Refs \union {None}]
      /\ op \in [Socks -> {"none", "pending", "queued"}] /\ asyned \subseteq Streams
      /\ Streams \cap Acceptors = {} /\ Socks = Streams \union Acceptors /\ None \notin Refs
      /\ DOMAIN index = Socks
  BY DEF TypeOK, EventsAssumption, Socks
<1>1. CASE UNCHANGED vars
  BY <1>1, SteadyKeeps DEF vars, net, refs, slots, notes, Steady
<1>19. ASSUME NEW k \in Socks, ListenFails(k) PROVE FreeChain' /\ Owned'
  BY <1>19, ListenKeeps
<1>2. ASSUME NEW k \in Socks, Open(k) PROVE FreeChain' /\ Owned'
  <2>1. op[k] = "none" /\ k \notin asyned
    BY <1>2 DEF Open, Stages
  <2>2. PICK A : A = asyned
    OBVIOUS
  <2>3. KindOf(k, A) = IF k \in Acceptors THEN "accept" ELSE "connect"
    BY <2>1, <2>2 DEF KindOf
  <2>4. /\ Ref(Does(KindOf(k, A), k)) /\ index' = [index EXCEPT ![k] = free]
        /\ op' = [op EXCEPT ![k] = "pending"] /\ asyned' = A
        /\ UNCHANGED <<context, notify, told, left>>
    BY <1>2, <2>2, <2>3 DEF Open, notes
  <2> QED
    BY <2>1, <2>2, <2>4, OpenKeeps
<1>3. ASSUME NEW k \in Socks, SelectRead(k) PROVE FreeChain' /\ Owned'
  <2>1. op[k] = "none" /\ k \in Streams \ asyned
    BY <1>3 DEF SelectRead, Stages, IsOpen
  <2>2. PICK A : A = asyned \union {k}
    OBVIOUS
  <2>3. KindOf(k, A) = "read"
    BY <1>t, <2>1, <2>2 DEF KindOf
  <2>4. /\ Ref(Does(KindOf(k, A), k)) /\ index' = [index EXCEPT ![k] = free]
        /\ op' = [op EXCEPT ![k] = "pending"] /\ asyned' = A
        /\ UNCHANGED <<context, notify, told, left>>
    BY <1>3, <2>2, <2>3 DEF SelectRead, notes
  <2> QED
    BY <2>1, <2>2, <2>4, OpenKeeps
<1>4. ASSUME NEW k \in Socks, SelectWrite(k) PROVE FreeChain' /\ Owned'
  BY <1>4, NotifyKeeps
<1>5. ASSUME NEW k \in Socks, Send(k) PROVE FreeChain' /\ Owned'
  <2>1. Steady
    BY <1>t, <1>5 DEF Send, Complete, Steady, slots, refs, net, notes
  <2> QED
    BY <2>1, SteadyKeeps
<1>6. ASSUME NEW k \in Socks, Close(k) PROVE FreeChain' /\ Owned'
  <2>1. CASE k \in asyned
    <3>1. Steady
      BY <1>6, <2>1 DEF Close, Steady, slots, refs, net, notes
    <3> QED
      BY <3>1, SteadyKeeps
  <2>2. CASE k \notin asyned
    <3>1. Shutdown(k, FALSE, queue)
      BY <1>6, <2>2 DEF Close
    <3>2. PICK q : q = queue
      OBVIOUS
    <3>3. Shutdown(k, FALSE, q)
      BY <3>1, <3>2
    <3>4. UNCHANGED <<slots, refs, asyned, told, left>>
      BY <1>6 DEF Close, notes
    <3> QED
      BY <3>3, <3>4, ShutdownSteady, SteadyKeeps
  <2> QED
    BY <2>1, <2>2
<1>7. ASSUME NEW k \in Socks, Arrive(k) PROVE FreeChain' /\ Owned'
  <2>1. Steady
    BY <1>t, <1>7 DEF Arrive, Complete, Steady, slots, refs, net, notes
  <2> QED
    BY <2>1, SteadyKeeps
<1>8. ASSUME NEW k \in Socks, Eof(k) PROVE FreeChain' /\ Owned'
  <2>1. Steady
    BY <1>t, <1>8 DEF Eof, Complete, Steady, slots, refs, net, notes
  <2> QED
    BY <2>1, SteadyKeeps
<1>9. ASSUME NEW k \in Socks, Expire(k) PROVE FreeChain' /\ Owned'
  <2>0. PICK l \in BOOLEAN : \E x : Shutdown(k, l, x)
    BY <1>9 DEF Expire
  <2>1. PICK q : Shutdown(k, l, q)
    BY <2>0
  <2>2. UNCHANGED <<slots, refs, asyned, told, left>>
    BY <1>9 DEF Expire, notes
  <2> QED
    BY <2>1, <2>2, ShutdownSteady, SteadyKeeps
<1>10. ASSUME NEW k \in Socks, NEW ec \in BOOLEAN, Connected(k, ec) PROVE FreeChain' /\ Owned'
  <2>1. Steady
    BY <1>t, <1>10 DEF Connected, Complete, Steady, slots, refs, net, notes
  <2> QED
    BY <2>1, SteadyKeeps
<1>11. ASSUME NEW k \in Socks, NEW ec \in BOOLEAN, Accepted(k, ec) PROVE FreeChain' /\ Owned'
  <2>1. Steady
    BY <1>t, <1>11 DEF Accepted, Complete, Steady, slots, refs, net, notes
  <2> QED
    BY <2>1, SteadyKeeps
<1>12. ASSUME NEW k \in Socks, NEW ec \in BOOLEAN, SendEnds(k, ec) PROVE FreeChain' /\ Owned'
  <2>1. Steady
    BY <1>t, <1>12 DEF SendEnds, Complete, Steady, slots, refs, net, notes
  <2> QED
    BY <2>1, SteadyKeeps
<1>13. ASSUME NEW k \in Socks, NEW ec \in BOOLEAN, RunConnect(k, ec), Heads(k, "connect") PROVE FreeChain' /\ Owned'
  <2>1. op[k] = "queued" /\ KindOf(k, asyned) = "connect"
    BY <1>13, Headed DEF Operations
  <2>2. k \notin asyned
    BY <1>t, <2>1 DEF KindOf
  <2>3. index[k] \in Refs /\ Holds(index[k]) /\ registry[index[k]].sock = k
    BY <2>1, SlotsDiffer
  <2>4. /\ Unref(index[k], None) /\ index' = [index EXCEPT ![k] = None]
        /\ op' = [op EXCEPT ![k] = "none"] /\ UNCHANGED <<context, notify, asyned, told, left>>
    BY <1>13 DEF RunConnect, notes
  <2>5. PICK r \in Refs : r = index[k]
    BY <2>3
  <2>6. Unref(r, None) /\ Holds(r) /\ r # None
    BY <1>t, <2>3, <2>4, <2>5
  <2>7. FreeChain' /\ ~Holds(r)' /\ \A q \in Refs \ {r} : registry'[q] = registry[q]
    BY <1>t, <2>6, UnrefGives
  <2>8. PICK D \in SUBSET Refs : D = {r}
    BY <2>5
  <2>9. \A q \in D : ~Holds(q)' /\ Holds(q) /\ registry[q].sock = k
    BY <2>3, <2>5, <2>6, <2>7, <2>8
  <2>12. index[k] # context[k]
    BY <1>t, <2>1, SlotsDiffer
  <2>10. /\ \A q \in Refs \ D : registry'[q] = registry[q]
         /\ context' = context /\ context[k] \notin D /\ index[k] \in D
         /\ \A j \in Socks \ {k} : index'[j] = index[j]
    BY <1>t, <2>4, <2>5, <2>7, <2>8, <2>12
  <2>11. Owned'
    BY <2>2, <2>4, <2>9, <2>10, EndKeeps
  <2> QED
    BY <2>7, <2>11
<1>14. ASSUME NEW k \in Socks, NEW ec \in BOOLEAN, RunAccept(k, ec), Heads(k, "accept") PROVE FreeChain' /\ Owned'
  <2>1. op[k] = "queued" /\ KindOf(k, asyned) = "accept"
    BY <1>14, Headed DEF Operations
  <2>2. k \notin asyned
    BY <1>t, <2>1 DEF KindOf
  <2>3. index[k] \in Refs /\ Holds(index[k]) /\ registry[index[k]].sock = k
    BY <2>1, SlotsDiffer
  <2>4. UNCHANGED <<context, notify, asyned, told>> /\ index[k] # context[k]
    BY <1>t, <1>14, <2>1, SlotsDiffer DEF RunAccept
  <2>5. CASE ec /\ ~IsOpen(k)
    <3>1. PICK r \in Refs : r = index[k]
      BY <2>3
    <3>2. Unref(r, None) /\ Holds(r) /\ r # None
      BY <1>t, <1>14, <2>3, <2>5, <3>1 DEF RunAccept
    <3>3. FreeChain' /\ ~Holds(r)' /\ \A q \in Refs \ {r} : registry'[q] = registry[q]
      BY <1>t, <3>2, UnrefGives
    <3>4. PICK D \in SUBSET Refs : D = {r}
      BY <3>1
    <3>5. op' = [op EXCEPT ![k] = "none"] /\ \A j \in Socks \ {k} : index'[j] = index[j]
      BY <1>t, <1>14, <2>5 DEF RunAccept
    <3>6. \A q \in D : ~Holds(q)' /\ Holds(q) /\ registry[q].sock = k
      BY <2>3, <3>1, <3>2, <3>3, <3>4
    <3>7. /\ \A q \in Refs \ D : registry'[q] = registry[q]
          /\ context' = context /\ context[k] \notin D /\ index[k] \in D
          /\ left' = left
      BY <1>14, <2>4, <2>5, <3>1, <3>3, <3>4 DEF RunAccept
    <3>8. Owned'
      BY <2>2, <2>4, <3>5, <3>6, <3>7, EndKeeps
    <3> QED
      BY <3>3, <3>8
  <2>6. CASE ~(ec /\ ~IsOpen(k))
    <3>1. Unref(None, None)
      BY <1>14, <2>6 DEF RunAccept
    <3>2. FreeChain' /\ \A q \in Refs : registry'[q] = registry[q]
      BY <1>t, <3>1, UnrefGives
    <3>3. CASE IsOpen(k)
      <4>1. index' = index /\ op' = [op EXCEPT ![k] = "pending"] /\ left' = left
        BY <1>14, <3>3 DEF RunAccept
      <4>2. op'[k] = "pending" /\ \A j \in Socks : op'[j] = "none" <=> op[j] = "none"
        BY <1>t, <2>1, <4>1
      <4>3. registry' = registry
        <5>1. registry' \in [Refs -> Handler \union Refs \union {None}]
              /\ registry \in [Refs -> Handler \union Refs \union {None}]
          BY <3>1, UnrefGives DEF TypeOK
        <5> QED
          BY <3>2, <5>1
      <4>4. free' = free
        BY <3>1 DEF Unref, Released
      <4> QED
        BY <2>4, <4>1, <4>2, <4>3, <4>4, SteadyKeeps DEF Steady
    <3>4. CASE ~IsOpen(k)
      <4>1. /\ op' = [op EXCEPT ![k] = "none"] /\ \A j \in Socks \ {k} : index'[j] = index[j]
            /\ left \subseteq left' /\ index[k] \in left'
        BY <1>t, <1>14, <2>6, <3>4 DEF RunAccept
      <4>2. PICK D \in SUBSET Refs : D = {}
        OBVIOUS
      <4>3. Owned'
        BY <2>2, <2>4, <3>2, <4>1, <4>2, EndKeeps
      <4> QED
        BY <3>2, <4>3
    <3> QED
      BY <3>3, <3>4
  <2> QED
    BY <2>5, <2>6
<1>15. ASSUME NEW k \in Socks, NEW ec \in BOOLEAN, RunSend(k, ec), Heads(k, "send") PROVE FreeChain' /\ Owned'
  <2>1. \A j \in Socks : op'[j] = "none" <=> op[j] = "none"
    <3>1. CASE ec \/ state[k] # "closed"
      BY <1>15, <3>1 DEF RunSend
    <3>2. CASE ~ec /\ state[k] = "closed"
      BY <1>t, <1>15, <3>2 DEF RunSend
    <3> QED
      BY <3>1, <3>2
  <2>2. Steady
    BY <1>15, <2>1 DEF RunSend, Steady, slots, refs, notes
  <2> QED
    BY <2>2, SteadyKeeps
<1>16. ASSUME NEW k \in Socks, RunShutdown(k), Heads(k, "shutdown") PROVE FreeChain' /\ Owned'
  <2>0. PICK l \in BOOLEAN : \E x : Shutdown(k, l, x)
    BY <1>16 DEF RunShutdown
  <2>1. PICK q : Shutdown(k, l, q)
    BY <2>0
  <2>2. UNCHANGED <<slots, refs, asyned, told, left>>
    BY <1>16 DEF RunShutdown, notes
  <2> QED
    BY <2>1, <2>2, ShutdownSteady, SteadyKeeps
<1>17. ASSUME NEW k \in Socks, RunError(k), Heads(k, "read") PROVE FreeChain' /\ Owned'
  <2>1. op[k] = "queued" /\ k \in asyned
    BY <1>17, Headed DEF Operations, KindOf
  <2>2. index[k] \in Refs /\ Holds(index[k]) /\ registry[index[k]].sock = k
        /\ registry[index[k]].kind # "write"
    BY <2>1, SlotsDiffer
  <2>3. context[k] # None => /\ context[k] \in Refs /\ Holds(context[k])
                             /\ registry[context[k]].sock = k
                             /\ registry[context[k]].kind = "write"
    BY SlotsDiffer
  <2>4. index[k] # context[k]
    BY <1>t, <2>2, <2>3
  <2>5. registry[index[k]] = Does("read", k)
    BY <1>t, <2>1 DEF Owned, KindOf
  <2>6. /\ Unref(context[k], index[k]) /\ context' = [context EXCEPT ![k] = None]
        /\ told' = told \union {k}
    BY <1>17, <2>2, <2>4, <2>5 DEF RunError, OnError
  <2>7. /\ index' = [index EXCEPT ![k] = None] /\ op' = [op EXCEPT ![k] = "none"]
        /\ UNCHANGED <<notify, asyned, left>>
    BY <1>17 DEF RunError
  <2>8. PICK r1 \in Refs \union {None}, r2 \in Refs : r1 = context[k] /\ r2 = index[k]
    BY <1>t, <2>2
  <2>9. Unref(r1, r2) /\ (r1 # None => Holds(r1)) /\ Holds(r2) /\ r1 # r2
    BY <2>2, <2>3, <2>4, <2>6, <2>8
  <2>10. /\ FreeChain' /\ \A q \in Refs \ {r1, r2} : registry'[q] = registry[q]
         /\ \A r \in {r1, r2} \ {None} : ~Holds(r)'
    <3>1. /\ \A q \in Refs \ {r1, r2} : registry'[q] = registry[q]
          /\ (/\ FreeChain
              /\ r1 # None => Holds(r1)
              /\ r2 # None => Holds(r2)
              /\ r1 = r2 => r1 = None)
             => FreeChain' /\ \A r \in {r1, r2} \ {None} : ~Holds(r)'
      BY <2>8, <2>9, UnrefGives
    <3> QED
      BY <2>9, <3>1
  <2>11. PICK D \in SUBSET Refs : D = {r1, r2} \ {None}
    BY <2>8
  <2>12. \A r \in D : ~Holds(r)' /\ Holds(r) /\ registry[r].sock = k
    BY <2>2, <2>3, <2>8, <2>10, <2>11
  <2>13. /\ \A r \in Refs \ D : registry'[r] = registry[r]
         /\ context'[k] = None /\ None \notin D /\ context[k] \in D \union {None}
         /\ \A j \in Socks \ {k} : context'[j] = context[j] /\ index'[j] = index[j]
         /\ told \subseteq told' /\ k \in told' /\ index[k] \in D
    BY <1>t, <2>6, <2>7, <2>8, <2>10, <2>11
  <2>14. Owned'
    BY <2>7, <2>12, <2>13, EndKeeps
  <2> QED
    BY <2>10, <2>14
<1>18. ASSUME NEW k \in Socks, RunData(k), Heads(k, "read") PROVE FreeChain' /\ Owned'
  <2>1. op[k] = "queued" /\ k \in asyned
    BY <1>18, Headed DEF Operations, KindOf
  <2>2. Holds(index[k])
    BY <2>1, SlotsDiffer
  <2>3. IsOpen(k)
    BY <1>18, <2>2 DEF RunData
  <2>4. UNCHANGED <<registry, free, index, context, notify, asyned, told, left>>
    BY <1>18, <2>2, <2>3 DEF RunData, slots
  <2>5. PICK x \in {"queued", "pending"} : op' = [op EXCEPT ![k] = x]
    BY <1>18 DEF RunData
  <2>6. Steady
    BY <1>t, <2>1, <2>4, <2>5 DEF Steady
  <2> QED
    BY <2>6, SteadyKeeps
<1> QED
  BY <1>1, <1>2, <1>3, <1>4, <1>5, <1>6, <1>7, <1>8,
     <1>9, <1>10, <1>11, <1>12, <1>13, <1>14, <1>15, <1>16, <1>17, <1>18, <1>19, NextIs
     DEF Act, Script, System, Runs

\* A socket stays told.
LEMMA ToldGrows ==
  ASSUME [Next]_vars
  PROVE  told \subseteq told'
BY DEF Next, vars, notes, Script, System, Run, Open, ListenFails, SelectRead, SelectWrite, Send,
       Close, Arrive, Eof, Expire, Connected, Accepted, SendEnds, Complete, RunConnect, RunAccept,
       RunSend, RunShutdown, RunError, RunData, OnError

\* A send that completes runs the function selected for it, until the socket was told of
\* an error.
LEMMA AstrayNext ==
  ASSUME EventsAssumption, TypeOK, Lined, Owned, astray \subseteq told, [Next]_vars
  PROVE  astray' \subseteq told'
<1>1. told \subseteq told'
  BY ToldGrows
<1>2. ASSUME NEW k \in Socks, NEW ec \in BOOLEAN, RunSend(k, ec) PROVE astray' \subseteq told
  <2>1. astray' = astray \/ OnSend(k)
    BY <1>2 DEF RunSend
  <2>2. ASSUME k \notin told, notify[k] # None PROVE registry[notify[k]] = Does("write", k)
    BY <2>2 DEF Owned
  <2>3. OnSend(k) => astray' = astray \/ (astray' = astray \union {k} /\ k \in told)
    BY <2>2 DEF OnSend
  <2> QED
    BY <2>1, <2>3
<1>3. ASSUME NEW k \in Socks, Act(k), ~\E ec \in BOOLEAN : RunSend(k, ec) PROVE astray' = astray
  BY <1>3 DEF Act, Script, System, Runs, notes, Open, ListenFails, SelectRead, SelectWrite, Send,
       Close, Arrive, Eof, Expire, Connected, Accepted, SendEnds, Complete, RunConnect, RunAccept,
       RunShutdown, RunError, RunData
<1>4. UNCHANGED vars => astray' = astray
  BY DEF vars, notes
<1> QED
  BY <1>1, <1>2, <1>3, <1>4, NextIs

-----------------------------------------------------------------------------
(* The theorems. *)

\* SetToSeq lists every element of a finite set once.
LEMMA SlotList ==
  ASSUME NEW S, IsFiniteSet(S)
  PROVE  /\ Cardinality(S) \in Nat
         /\ SetToSeq(S) \in [1..Cardinality(S) -> S]
         /\ \A i, j \in 1..Cardinality(S) : SetToSeq(S)[i] = SetToSeq(S)[j] => i = j
         /\ \A s \in S : \E i \in 1..Cardinality(S) : SetToSeq(S)[i] = s
<1>1. PICK n \in Nat : n = Cardinality(S)
  BY FS_CardinalityType
<1>2. PICK f : f \in [1..n -> S] /\ IsInjective(f)
  BY <1>1, FS_CardinalityType DEF ExistsBijection, Bijection, Injection
<1>3. PICK g : g = SetToSeq(S)
  OBVIOUS
<1>4. g \in [1..n -> S] /\ IsInjective(g)
  BY <1>1, <1>2, <1>3 DEF SetToSeq
<1>5. g \in Injection(1..n, S)
  BY <1>4 DEF Injection
<1>6. Cardinality(1..n) = n
  BY FS_Interval
<1>7. g \in Surjection(1..n, S)
  BY <1>1, <1>5, <1>6, FS_Injection
<1>8. \A s \in S : \E i \in 1..n : g[i] = s
  BY <1>7 DEF Surjection
<1> QED
  BY <1>1, <1>3, <1>4, <1>8 DEF IsInjective

\* At first every slot is free, and the list of them ends.
LEMMA InitChain ==
  ASSUME EventsAssumption, Init
  PROVE  /\ registry \in [Refs -> Refs \union {None}] /\ free \in Refs \union {None}
         /\ FreeChain /\ \A r \in Refs : ~Holds(r)
<1>1. PICK n \in Nat : n = Cardinality(Refs)
  BY SlotList DEF EventsAssumption
<1>2. PICK g : g = SetToSeq(Refs)
  OBVIOUS
<1>3. /\ g \in [1..n -> Refs]
      /\ \A i, j \in 1..n : g[i] = g[j] => i = j
      /\ \A s \in Refs : \E i \in 1..n : g[i] = s
  BY <1>1, <1>2, SlotList DEF EventsAssumption
<1>4. PICK s : s = Append(g, None)
  OBVIOUS
<1>5. g \in Seq(Refs) /\ Len(g) = n
  BY <1>3, LenProperties
<1>6. s[n + 1] = None /\ \A i \in 1..n : s[i] = g[i]
  <2>1. g \in Seq(Refs \union {None}) /\ None \in Refs \union {None}
    BY <1>3, <1>5
  <2> QED
    BY <1>4, <1>5, <2>1, AppendProperties
<1>7. /\ registry = [r \in Refs |-> s[(CHOOSE i \in 1..n : s[i] = r) + 1]]
      /\ free = s[1]
  BY <1>1, <1>2, <1>4 DEF Init
<1>8. \A r \in Refs : \E i \in 1..n : s[i] = r /\ registry[r] = s[i + 1]
  <2>1. ASSUME NEW r \in Refs PROVE \E i \in 1..n : s[i] = r /\ registry[r] = s[i + 1]
    <3>1. \E i \in 1..n : s[i] = r
      BY <1>3, <1>6
    <3>2. PICK i : i = CHOOSE j \in 1..n : s[j] = r
      OBVIOUS
    <3>3. i \in 1..n /\ s[i] = r
      BY <3>1, <3>2
    <3> QED
      BY <1>7, <3>2, <3>3
  <2> QED
    BY <2>1
<1>9. /\ None \notin Refs /\ None \notin Handler /\ Refs \cap Handler = {}
  BY DEF EventsAssumption
<1>10. \A i, j \in 1..n + 1 : s[i] = s[j] => i = j
  BY <1>3, <1>6, <1>9
<1>11. \A i \in 1..n + 1 : s[i] \in Refs \union {None}
  BY <1>3, <1>6
<1>12. registry \in [Refs -> Refs \union {None}] /\ free \in Refs \union {None}
  <2>1. \A r \in Refs : registry[r] \in Refs \union {None}
    BY <1>8, <1>11
  <2> QED
    BY <1>7, <1>11, <2>1
<1>13. \A r \in Refs : ~Holds(r)
  BY <1>9, <1>12 DEF Holds
<1>14. ASSUME NEW r \in Refs, registry[r] \in Refs
       PROVE  registry[r] # free /\ \A q \in Refs : registry[q] = registry[r] => q = r
  <2>1. PICK i \in 1..n : s[i] = r /\ registry[r] = s[i + 1]
    BY <1>8
  <2>2. i + 1 \in 1..n + 1 /\ 1 \in 1..n + 1 /\ i + 1 # 1
    BY <2>1
  <2>3. registry[r] # free
    BY <1>7, <1>10, <2>1, <2>2
  <2>4. ASSUME NEW q \in Refs, registry[q] = registry[r] PROVE q = r
    <3>1. PICK j \in 1..n : s[j] = q /\ registry[q] = s[j + 1]
      BY <1>8
    <3>2. j + 1 \in 1..n + 1 /\ s[j + 1] = s[i + 1]
      BY <2>1, <2>4, <3>1
    <3>3. j + 1 = i + 1
      BY <1>10, <2>2, <3>2
    <3> QED
      BY <2>1, <3>1, <3>3
  <2> QED
    BY <2>3, <2>4
<1>15. FreeChain
  BY <1>9, <1>12, <1>13, <1>14 DEF FreeChain
<1> QED
  BY <1>12, <1>13, <1>15

LEMMA InitIInv == ASSUME EventsAssumption, Init PROVE IInv
<1>1. TypeOK
  <2>1. <<>> \in Seq(Event)
    BY EmptySeq
  <2>2. registry \in [Refs -> Handler \union Refs \union {None}]
        /\ free \in Handler \union Refs \union {None}
    BY InitChain
  <2>3. /\ state = [k \in Socks |-> "new"]
        /\ index = [k \in Socks |-> None] /\ context = [k \in Socks |-> None]
        /\ op = [k \in Socks |-> "none"] /\ sending = [k \in Socks |-> "idle"]
        /\ notify = [k \in Socks |-> None] /\ lingers = {} /\ astray = {} /\ left = {}
        /\ asyned = {} /\ queue = <<>> /\ told = {} /\ late = {} /\ closes = 0 /\ sends = 0
    BY DEF Init
  <2>4. 0 \in 0..MaxCloses /\ 0 \in 0..MaxSends
    BY DEF EventsAssumption
  <2> QED
    BY <2>1, <2>2, <2>3, <2>4 DEF TypeOK
<1>2. Stages
  BY DEF Init, Stages
<1>3. Lined
  <2>1. queue = <<>> /\ queue \in Seq(Event) /\ DOMAIN queue = {}
    <3>1. queue = <<>> /\ <<>> \in Seq(Event) /\ Len(<<>>) = 0
      BY EmptySeq DEF Init
    <3> QED
      BY <3>1, LenProperties
  <2> QED
    BY <2>1 DEF Lined, Sound
<1>4. Owned
  <2>1. \A r \in Refs : ~Holds(r)
    BY InitChain
  <2> QED
    BY <2>1 DEF Init, Owned
<1>5. astray \subseteq told
  BY DEF Init
<1> QED
  BY <1>1, <1>2, <1>3, <1>4, <1>5, InitChain DEF IInv

LEMMA NextIInv == ASSUME EventsAssumption, IInv, [Next]_vars PROVE IInv'
<1>1. TypeOK /\ Stages /\ Lined
  BY DEF IInv
<1>2. TypeOK' /\ Stages' /\ Lined'
  BY <1>1, TypesNext, StagesNext, LinedNext
<1>3. ASSUME late' = {} PROVE FreeChain' /\ Owned' /\ astray' \subseteq told'
  <2>1. FreeChain /\ Owned /\ astray \subseteq told
    BY <1>3, LateGrows DEF IInv
  <2>2. FreeChain' /\ Owned'
    BY <1>1, <1>3, <2>1, OwnedNext
  <2> QED
    BY <1>1, <2>1, <2>2, AstrayNext
<1> QED
  BY <1>2, <1>3 DEF IInv

THEOREM Invariance == Spec => []IInv
<1>1. Init => IInv
  BY EventsAssumption, InitIInv
<1>2. IInv /\ [Next]_vars => IInv'
  BY EventsAssumption, NextIInv
<1> QED
  BY <1>1, <1>2, PTL DEF Spec

\* Type correctness: slots, sockets and events are what they are declared to be.
THEOREM TypeCorrect == Spec => []TypeOK
<1>1. IInv => TypeOK
  BY DEF IInv
<1> QED
  BY <1>1, Invariance, PTL

\* As long as no socket was handed data after it was closed, the slot that a read knows
\* holds the handler of its own socket, and so do the one of context() and, until the
\* handler was told of an error, the one of _notify: a send that completes before runs no
\* other function (on_read, on_error, on_send and lua_os_socket_select), for any number
\* of sockets and slots.
THEOREM SlotsOwnedAlways == Spec => []SlotsOwned
<1>1. IInv => SlotsOwned
  <2>1. ASSUME IInv, late = {} PROVE Owned /\ astray \subseteq told
    BY <2>1 DEF IInv
  <2>2. ASSUME IInv, late = {}, NEW k \in asyned, op[k] # "none"
        PROVE  registry[index[k]] = Does("read", k)
    <3>1. Owned /\ k \in Socks /\ KindOf(k, asyned) = "read"
      BY <2>2, EventsAssumption DEF EventsAssumption, IInv, TypeOK, Socks, KindOf
    <3> QED
      BY <2>2, <3>1 DEF Owned
  <2>3. ASSUME Owned
        PROVE  /\ \A k \in Socks : context[k] # None => registry[context[k]] = Does("write", k)
               /\ \A k \in Socks \ told : notify[k] # None => registry[notify[k]] = Does("write", k)
    BY <2>3 DEF Owned
  <2> QED
    BY <2>1, <2>2, <2>3 DEF SlotsOwned
<1> QED
  BY <1>1, Invariance, PTL

\* As long as no socket was handed data after it was closed, on_connect, on_accept and
\* on_error release the handlers of a socket with its last completion, and the slots that
\* stay taken are those the code forgets: the write handler of a socket without a read
\* handler that could still fail, a replaced one, that of a listen that failed and of an
\* acceptor closed before it was given what it had accepted.
THEOREM SlotsReturnedAlways == Spec => []SlotsReturned
<1>1. IInv => SlotsReturned
  <2>1. ASSUME IInv, late = {}, NEW k \in Socks, op[k] = "none",
               NEW r \in Refs, Holds(r), registry[r].sock = k
        PROVE  r \in left \/ (r = context[k] /\ k \notin asyned \ told)
    BY <2>1 DEF IInv, Owned
  <2> QED
    BY <2>1 DEF SlotsReturned
<1> QED
  BY <1>1, Invariance, PTL

-----------------------------------------------------------------------------
(* What is queued is in the queue. *)

Waits(q, k, K) == \E i \in DOMAIN q : q[i].sock = k /\ q[i].kind \in K

\* A completion is in the queue for every operation in o and every send in s that is
\* said to have one.
Answers(q, o, s) ==
  \A k \in Socks :
    /\ o[k] = "queued" => Waits(q, k, Operations)
    /\ s[k] = "queued" => Waits(q, k, {"send"})

Answered == Answers(queue, op, sending)

LEMMA WaitsAppend ==
  ASSUME NEW q \in Seq(Event), NEW e \in Event, NEW k, NEW K,
         Waits(q, k, K) \/ (e.sock = k /\ e.kind \in K)
  PROVE  Waits(Append(q, e), k, K)
<1> DEFINE z == Append(q, e)
<1>1. /\ DOMAIN z = 1..Len(q) + 1 /\ DOMAIN q = 1..Len(q) /\ Len(q) \in Nat
      /\ \A i \in 1..Len(q) : z[i] = q[i]
      /\ z[Len(q) + 1] = e
  BY AppendProperties, LenProperties
<1> HIDE DEF z
<1>2. CASE Waits(q, k, K)
  <2>1. PICK i \in DOMAIN q : q[i].sock = k /\ q[i].kind \in K
    BY <1>2 DEF Waits
  <2>2. i \in DOMAIN z /\ z[i] = q[i]
    BY <1>1
  <2> QED
    BY <2>1, <2>2 DEF Waits, z
<1>3. CASE e.sock = k /\ e.kind \in K
  <2>1. Len(q) + 1 \in DOMAIN z
    BY <1>1
  <2> QED
    BY <1>1, <1>3, <2>1 DEF Waits, z
<1> QED
  BY <1>2, <1>3

LEMMA WaitsTail ==
  ASSUME NEW q \in Seq(Event), q # <<>>, NEW k, NEW K, Waits(q, k, K),
         ~(Head(q).sock = k /\ Head(q).kind \in K)
  PROVE  Waits(Tail(q), k, K)
<1>1. Len(q) \in Nat /\ Len(q) # 0
  BY LenProperties, EmptySeq
<1>2. /\ DOMAIN Tail(q) = 1..Len(q) - 1 /\ DOMAIN q = 1..Len(q)
      /\ \A i \in 1..Len(q) - 1 : Tail(q)[i] = q[i + 1]
      /\ Head(q) = q[1]
  BY <1>1, HeadTailProperties, LenProperties
<1>3. PICK i \in DOMAIN q : q[i].sock = k /\ q[i].kind \in K
  BY DEF Waits
<1>4. i # 1
  BY <1>2, <1>3
<1>5. i - 1 \in DOMAIN Tail(q) /\ (i - 1) + 1 = i
  BY <1>1, <1>2, <1>4
<1>6. Tail(q)[i - 1] = q[i]
  BY <1>2, <1>5
<1> QED
  BY <1>3, <1>5, <1>6 DEF Waits

LEMMA AnswersMore ==
  ASSUME NEW o, NEW s, NEW q \in Seq(Event), Answers(q, o, s), NEW e \in Event
  PROVE  Answers(Append(q, e), o, s)
BY WaitsAppend DEF Answers

\* An operation completes, a send does.
LEMMA AnswersCompletes ==
  ASSUME NEW o, NEW s, NEW q \in Seq(Event), Answers(q, o, s), DOMAIN o = Socks,
         NEW e \in Event, e.kind \in Operations
  PROVE  Answers(Append(q, e), [o EXCEPT ![e.sock] = "queued"], s)
<1>1. ASSUME NEW j \in Socks, j # e.sock, o[j] = "queued" PROVE Waits(Append(q, e), j, Operations)
  BY <1>1, WaitsAppend DEF Answers
<1>2. Waits(Append(q, e), e.sock, Operations)
  BY WaitsAppend
<1>3. ASSUME NEW j \in Socks, s[j] = "queued" PROVE Waits(Append(q, e), j, {"send"})
  BY <1>3, WaitsAppend DEF Answers
<1> QED
  BY <1>1, <1>2, <1>3 DEF Answers

LEMMA AnswersSent ==
  ASSUME NEW o, NEW s, NEW q \in Seq(Event), Answers(q, o, s), DOMAIN s = Socks,
         NEW e \in Event, e.kind = "send"
  PROVE  Answers(Append(q, e), o, [s EXCEPT ![e.sock] = "queued"])
<1>1. ASSUME NEW j \in Socks, j # e.sock, s[j] = "queued" PROVE Waits(Append(q, e), j, {"send"})
  BY <1>1, WaitsAppend DEF Answers
<1>2. Waits(Append(q, e), e.sock, {"send"})
  BY WaitsAppend
<1>3. ASSUME NEW j \in Socks, o[j] = "queued" PROVE Waits(Append(q, e), j, Operations)
  BY <1>3, WaitsAppend DEF Answers
<1> QED
  BY <1>1, <1>2, <1>3 DEF Answers

\* An operation, or a send, that is no longer queued.
LEMMA AnswersTurn ==
  ASSUME NEW o, NEW s, NEW q, Answers(q, o, s), DOMAIN o = Socks, DOMAIN s = Socks,
         NEW k \in Socks, NEW x, x # "queued"
  PROVE  Answers(q, [o EXCEPT ![k] = x], s) /\ Answers(q, o, [s EXCEPT ![k] = x])
BY DEF Answers

\* The first of the queue runs: its operation, or its send, is not queued any more.
LEMMA AnswersRun ==
  ASSUME NEW o, NEW s, NEW q \in Seq(Event), Answers(q, o, s), DOMAIN o = Socks, DOMAIN s = Socks,
         q # <<>>, NEW x, x # "queued"
  PROVE  LET k == Head(q).sock
         IN  /\ Head(q).kind \in Operations => Answers(Tail(q), [o EXCEPT ![k] = x], s)
             /\ Head(q).kind = "send" => Answers(Tail(q), o, [s EXCEPT ![k] = x])
<1>1. PICK k : k = Head(q).sock
  OBVIOUS
<1>2. ASSUME NEW j \in Socks, o[j] = "queued", j # k \/ Head(q).kind \notin Operations
      PROVE  Waits(Tail(q), j, Operations)
  BY <1>1, <1>2, WaitsTail DEF Answers
<1>3. ASSUME NEW j \in Socks, s[j] = "queued", j # k \/ Head(q).kind # "send"
      PROVE  Waits(Tail(q), j, {"send"})
  BY <1>1, <1>3, WaitsTail DEF Answers
<1>4. "send" \notin Operations
  BY DEF Operations
<1>5. CASE Head(q).kind \in Operations
  <2>1. \A j \in Socks : [o EXCEPT ![k] = x][j] = "queued" => j # k /\ o[j] = "queued"
    OBVIOUS
  <2> QED
    BY <1>1, <1>2, <1>3, <1>4, <1>5, <2>1 DEF Answers
<1>6. CASE Head(q).kind = "send"
  <2>1. \A j \in Socks : [s EXCEPT ![k] = x][j] = "queued" => j # k /\ s[j] = "queued"
    OBVIOUS
  <2> QED
    BY <1>1, <1>2, <1>3, <1>4, <1>6, <2>1 DEF Answers
<1> QED
  BY <1>1, <1>4, <1>5, <1>6

\* The first of the queue runs, seen from the step of its kind.
LEMMA HeadAnswers ==
  ASSUME EventsAssumption, TypeOK, Lined, Answered, NEW k \in Socks, NEW kind, Heads(k, kind),
         NEW x, x # "queued"
  PROVE  /\ Rest \in Seq(Event)
         /\ kind \in Operations => Answers(Rest, [op EXCEPT ![k] = x], sending)
         /\ kind = "send" => Answers(Rest, op, [sending EXCEPT ![k] = x])
<1>1. queue \in Seq(Event) /\ DOMAIN op = Socks /\ DOMAIN sending = Socks
  BY DEF TypeOK
<1>2. queue # <<>> /\ Head(queue).sock = k /\ Head(queue).kind = kind
  BY DEF Heads
<1>3. Rest \in Seq(Event)
  BY Headed
<1> QED
  BY <1>1, <1>2, <1>3, AnswersRun DEF Answered, Rest

\* What a shutdown ends is put in the queue.
LEMMA ShutdownAnswers ==
  ASSUME TypeOK, NEW k \in Socks, NEW linger, NEW q \in Seq(Event),
         Answers(q, op, sending), Shutdown(k, linger, q)
  PROVE  Answers(queue', op', sending')
<1>0. DOMAIN op = Socks /\ DOMAIN sending = Socks
  BY DEF TypeOK
<1>1. CASE linger /\ sending[k] # "idle" /\ state[k] # "shut"
  BY <1>1 DEF Shutdown
<1>2. CASE ~(linger /\ sending[k] # "idle" /\ state[k] # "shut")
  <2>1. /\ queue' = q \o Aborted(k)
        /\ op' = IF op[k] = "pending" THEN [op EXCEPT ![k] = "queued"] ELSE op
        /\ sending' = IF sending[k] = "pending" THEN [sending EXCEPT ![k] = "queued"] ELSE sending
    BY <1>2 DEF Shutdown, TypeOK
  <2>2. PICK e \in Event :
           /\ e.sock = k /\ e.kind \in Operations
           /\ Aborted(k) = (IF op[k] = "pending" THEN <<e>> ELSE <<>>)
                             \o (IF sending[k] = "pending" THEN <<Completion("send", k, TRUE)>>
                                 ELSE <<>>)
    <3>1. PICK kind \in Operations :
            kind = IF k \in Acceptors THEN "accept"
                   ELSE IF state[k] = "connecting" THEN "connect" ELSE "read"
      BY DEF Operations
    <3>2. Completion(kind, k, TRUE) \in Event /\ Completion(kind, k, TRUE).sock = k
          /\ Completion(kind, k, TRUE).kind = kind
      BY DEF Completion, Event, Operations
    <3> QED
      BY <3>1, <3>2 DEF Aborted
  <2>3. PICK f \in Event : f.sock = k /\ f.kind = "send" /\ f = Completion("send", k, TRUE)
    BY DEF Completion, Event
  <2> DEFINE x == IF op[k] = "pending" THEN <<e>> ELSE <<>>
             y == IF sending[k] = "pending" THEN <<f>> ELSE <<>>
  <2>4. Aborted(k) = x \o y
    BY <2>2, <2>3
  <2>5. x \in Seq(Event) /\ y \in Seq(Event)
    BY <2>3, Behind
  <2>6. queue' = (q \o x) \o y
    <3> HIDE DEF x, y
    <3>1. (q \o x) \o y = q \o (x \o y)
      BY <2>5, ConcatAssociative
    <3> QED
      BY <2>1, <2>4, <3>1
  <2>7. q \o x \in Seq(Event) /\ Answers(q \o x, op', sending)
    <3>1. CASE op[k] = "pending"
      <4>1. q \o x = Append(q, e)
        BY <3>1, Behind
      <4>2. op' = [op EXCEPT ![e.sock] = "queued"]
        BY <2>1, <2>2, <3>1
      <4>3. Answers(Append(q, e), [op EXCEPT ![e.sock] = "queued"], sending)
        BY <1>0, <2>2, AnswersCompletes
      <4>4. Append(q, e) \in Seq(Event)
        BY AppendProperties
      <4> HIDE DEF x
      <4> QED
        BY <4>1, <4>2, <4>3, <4>4
    <3>2. CASE op[k] # "pending"
      BY <2>1, <2>3, <3>2, Behind
    <3> QED
      BY <3>1, <3>2
  <2>8. PICK z : z = q \o x
    OBVIOUS
  <2>9. Answers(z \o y, op', sending')
    <3>1. CASE sending[k] = "pending"
      <4>1. z \o y = Append(z, f)
        BY <2>7, <2>8, <3>1, Behind
      <4>2. sending' = [sending EXCEPT ![f.sock] = "queued"]
        BY <2>1, <2>3, <3>1
      <4>3. Answers(Append(z, f), op', [sending EXCEPT ![f.sock] = "queued"])
        BY <1>0, <2>3, <2>7, <2>8, AnswersSent
      <4> QED
        BY <4>1, <4>2, <4>3
    <3>2. CASE sending[k] # "pending"
      BY <2>1, <2>3, <2>7, <2>8, <3>2, Behind
    <3> QED
      BY <3>1, <3>2
  <2> QED
    BY <2>6, <2>8, <2>9
<1> QED
  BY <1>1, <1>2

\* An operation completes outside.
LEMMA CompleteAnswers ==
  ASSUME TypeOK, Answered, NEW k \in Socks, NEW kind \in Operations, NEW ec \in BOOLEAN,
         Complete(k, kind, ec)
  PROVE  Answered'
<1>1. PICK e : e = Completion(kind, k, ec)
  OBVIOUS
<1>2. e \in Event /\ e.sock = k /\ e.kind = kind
  BY <1>1 DEF Completion, Event, Operations
<1>3. op' = [op EXCEPT ![e.sock] = "queued"] /\ sending' = sending /\ queue' = Append(queue, e)
  BY <1>1, <1>2 DEF Complete
<1>4. queue \in Seq(Event) /\ DOMAIN op = Socks
  BY DEF TypeOK
<1>5. Answers(Append(queue, e), [op EXCEPT ![e.sock] = "queued"], sending)
  BY <1>2, <1>4, AnswersCompletes DEF Answered
<1> QED
  BY <1>3, <1>5 DEF Answered

\* Whatever happens, what is queued stays in the queue until it runs.
LEMMA AnsweredNext ==
  ASSUME EventsAssumption, TypeOK, Stages, Lined, Answered, [Next]_vars
  PROVE  Answered'
<1>d. DOMAIN op = Socks /\ DOMAIN sending = Socks /\ queue \in Seq(Event)
  BY DEF TypeOK
<1>1. CASE UNCHANGED vars
  BY <1>1 DEF vars, net, Answered
<1>2. ASSUME NEW k \in Socks, Open(k) \/ SelectRead(k) PROVE Answered'
  <2>1. op' = [op EXCEPT ![k] = "pending"] /\ UNCHANGED <<sending, queue>>
    BY <1>2 DEF Open, SelectRead
  <2> QED
    BY <1>d, <2>1, AnswersTurn DEF Answered
<1>3. ASSUME NEW k \in Socks, SelectWrite(k) \/ ListenFails(k) PROVE Answered'
  BY <1>3 DEF SelectWrite, ListenFails, Answered, net
<1>4. ASSUME NEW k \in Socks, Send(k) PROVE Answered'
  <2>1. sending' = [sending EXCEPT ![k] = "pending"] /\ UNCHANGED <<op, queue>>
    BY <1>4 DEF Send
  <2> QED
    BY <1>d, <2>1, AnswersTurn DEF Answered
<1>5. ASSUME NEW k \in Socks, Close(k) PROVE Answered'
  <2>1. CASE k \in asyned
    <3>1. Completion("shutdown", k, FALSE) \in Event
      BY DEF Completion, Event
    <3>2. queue' = Append(queue, Completion("shutdown", k, FALSE)) /\ UNCHANGED <<op, sending>>
      BY <1>5, <2>1 DEF Close, net
    <3> QED
      BY <1>d, <3>1, <3>2, AnswersMore DEF Answered
  <2>2. CASE k \notin asyned
    <3>1. PICK q : q = queue
      OBVIOUS
    <3>2. Shutdown(k, FALSE, q)
      BY <1>5, <2>2, <3>1 DEF Close
    <3> QED
      BY <1>d, <3>1, <3>2, ShutdownAnswers DEF Answered
  <2> QED
    BY <2>1, <2>2
<1>6. ASSUME NEW k \in Socks, Expire(k) PROVE Answered'
  <2>1. PICK q : q = queue
    OBVIOUS
  <2>2. Shutdown(k, FALSE, q)
    BY <1>6, <2>1 DEF Expire
  <2> QED
    BY <1>d, <2>1, <2>2, ShutdownAnswers DEF Answered
<1>7. ASSUME NEW k \in Socks,
             Arrive(k) \/ Eof(k) \/ \E ec \in BOOLEAN : Connected(k, ec) \/ Accepted(k, ec)
      PROVE  Answered'
  <2>1. PICK kind \in Operations, ec \in BOOLEAN : Complete(k, kind, ec)
    BY <1>7 DEF Arrive, Eof, Connected, Accepted, Operations
  <2> QED
    BY <2>1, CompleteAnswers
<1>8. ASSUME NEW k \in Socks, NEW ec \in BOOLEAN, SendEnds(k, ec) PROVE Answered'
  <2>1. PICK e : e = Completion("send", k, ec)
    OBVIOUS
  <2>2. e \in Event /\ e.sock = k /\ e.kind = "send"
    BY <2>1 DEF Completion, Event
  <2>3. sending' = [sending EXCEPT ![e.sock] = "queued"] /\ op' = op /\ queue' = Append(queue, e)
    BY <1>8, <2>1, <2>2 DEF SendEnds
  <2>4. Answers(Append(queue, e), op, [sending EXCEPT ![e.sock] = "queued"])
    BY <1>d, <2>2, AnswersSent DEF Answered
  <2> QED
    BY <2>3, <2>4 DEF Answered
<1>9. ASSUME NEW k \in Socks, NEW ec \in BOOLEAN, RunConnect(k, ec), Heads(k, "connect") PROVE Answered'
  <2>1. op' = [op EXCEPT ![k] = "none"] /\ queue' = Rest /\ sending' = sending
    BY <1>9 DEF RunConnect
  <2>2. Answers(Rest, [op EXCEPT ![k] = "none"], sending)
    BY <1>9, HeadAnswers DEF Operations
  <2> QED
    BY <2>1, <2>2 DEF Answered
<1>10. ASSUME NEW k \in Socks, NEW ec \in BOOLEAN, RunAccept(k, ec), Heads(k, "accept") PROVE Answered'
  <2>1. PICK x \in {"pending", "none"} : op' = [op EXCEPT ![k] = x]
    BY <1>10 DEF RunAccept
  <2>2. queue' = Rest /\ sending' = sending
    BY <1>10 DEF RunAccept
  <2>3. Answers(Rest, [op EXCEPT ![k] = x], sending)
    BY <1>10, HeadAnswers DEF Operations
  <2> QED
    BY <2>1, <2>2, <2>3 DEF Answered
<1>11. ASSUME NEW k \in Socks, NEW ec \in BOOLEAN, RunSend(k, ec), Heads(k, "send") PROVE Answered'
  <2>1. PICK x \in {"stuck", "idle"} : sending' = [sending EXCEPT ![k] = x]
    BY <1>11 DEF RunSend
  <2>2. PICK q : q = Rest
    OBVIOUS
  <2>3. q \in Seq(Event) /\ Answers(q, op, sending')
    BY <1>11, <2>1, <2>2, HeadAnswers
  <2>4. CASE ~ec /\ state[k] = "closed" /\ op[k] = "pending"
    <3>1. PICK e : e = Completion("read", k, TRUE)
      OBVIOUS
    <3>2. e \in Event /\ e.sock = k /\ e.kind \in Operations
      BY <3>1 DEF Completion, Event, Operations
    <3>3. queue' = q \o <<e>> /\ op' = [op EXCEPT ![e.sock] = "queued"]
      BY <1>11, <1>d, <2>2, <2>4, <3>1, <3>2 DEF RunSend
    <3>4. queue' = Append(q, e)
      BY <2>3, <3>2, <3>3, Behind
    <3>5. Answers(Append(q, e), [op EXCEPT ![e.sock] = "queued"], sending')
      BY <1>d, <2>3, <3>2, AnswersCompletes
    <3> QED
      BY <3>3, <3>4, <3>5 DEF Answered
  <2>5. CASE ~(~ec /\ state[k] = "closed" /\ op[k] = "pending")
    <3>1. op' = op
      BY <1>11, <2>5 DEF RunSend, TypeOK
    <3>2. queue' = q \/ queue' = q \o <<>>
      BY <1>11, <2>2, <2>5 DEF RunSend
    <3>3. q \o <<>> = q
      BY <2>3, ConcatEmptySeq
    <3> QED
      BY <2>3, <3>1, <3>2, <3>3 DEF Answered
  <2> QED
    BY <2>4, <2>5
<1>12. ASSUME NEW k \in Socks, RunShutdown(k), Heads(k, "shutdown") PROVE Answered'
  <2>1. PICK q : q = Rest
    OBVIOUS
  <2>2. Answers(Rest, op, sending)
    <3>1. queue # <<>> /\ Head(queue).kind \notin Operations /\ Head(queue).kind \notin {"send"}
      BY <1>12 DEF Heads, Operations
    <3> QED
      BY <1>d, <3>1, WaitsTail DEF Answered, Answers, Rest
  <2>3. Rest \in Seq(Event) /\ Shutdown(k, TRUE, q)
    BY <1>12, <2>1, Headed DEF RunShutdown
  <2> QED
    BY <2>1, <2>2, <2>3, ShutdownAnswers DEF Answered
<1>13. ASSUME NEW k \in Socks, RunError(k), Heads(k, "read") PROVE Answered'
  <2>1. PICK q : q = Rest
    OBVIOUS
  <2>2. q \in Seq(Event) /\ Answers(q, [op EXCEPT ![k] = "none"], sending)
    <3>1. Answers(Rest, [op EXCEPT ![k] = "none"], sending)
      BY <1>13, HeadAnswers DEF Operations
    <3>2. Rest \in Seq(Event)
      BY <1>13, Headed
    <3> QED
      BY <2>1, <3>1, <3>2
  <2>3. op' = [op EXCEPT ![k] = "none"] /\ sending' = sending
        /\ queue' \in {q, Append(q, Completion("shutdown", k, FALSE))}
    BY <1>13, <2>1 DEF RunError, OnError
  <2>4. Completion("shutdown", k, FALSE) \in Event
    BY DEF Completion, Event
  <2>5. Answers(Append(q, Completion("shutdown", k, FALSE)), [op EXCEPT ![k] = "none"], sending)
    BY <2>2, <2>4, AnswersMore
  <2> QED
    BY <2>2, <2>3, <2>5 DEF Answered
<1>14. ASSUME NEW k \in Socks, RunData(k), Heads(k, "read") PROVE Answered'
  <2>1. PICK q : q = Rest
    OBVIOUS
  <2>2. q \in Seq(Event) /\ Answers(q, [op EXCEPT ![k] = "none"], sending)
        /\ Answers(q, [op EXCEPT ![k] = "pending"], sending)
    <3>1. Answers(Rest, [op EXCEPT ![k] = "none"], sending)
      BY <1>14, HeadAnswers DEF Operations
    <3>2. Answers(Rest, [op EXCEPT ![k] = "pending"], sending)
      BY <1>14, HeadAnswers DEF Operations
    <3>3. Rest \in Seq(Event)
      BY <1>14, Headed
    <3> QED
      BY <2>1, <3>1, <3>2, <3>3
  <2>3. sending' = sending
    BY <1>14 DEF RunData
  <2>4. PICK z \in Seq(Event) : /\ Answers(z, op', sending)
                                /\ queue' \in {z, Append(z, Completion("shutdown", k, FALSE))}
    <3>1. CASE state[k] = "shut"
      <4>1. PICK e : e = Completion("read", k, TRUE)
        OBVIOUS
      <4>2. e \in Event /\ e.sock = k /\ e.kind \in Operations
        BY <4>1 DEF Completion, Event, Operations
      <4>3. q \o <<e>> = Append(q, e) /\ Append(q, e) \in Seq(Event)
        BY <2>2, <4>2, Behind, AppendProperties
      <4>4. op' = [op EXCEPT ![k] = "queued"]
            /\ queue' \in {q \o <<e>>, Append(q \o <<e>>, Completion("shutdown", k, FALSE))}
        BY <1>14, <2>1, <3>1, <4>1 DEF RunData, OnError
      <4>5. PICK o : o = [op EXCEPT ![k] = "none"]
        OBVIOUS
      <4>6. DOMAIN o = Socks /\ [o EXCEPT ![e.sock] = "queued"] = op'
        BY <1>d, <4>2, <4>4, <4>5
      <4>7. Answers(Append(q, e), [o EXCEPT ![e.sock] = "queued"], sending)
        BY <2>2, <4>2, <4>5, <4>6, AnswersCompletes
      <4> QED
        BY <4>3, <4>4, <4>6, <4>7
    <3>2. CASE state[k] # "shut"
      <4>1. q \o <<>> = q
        BY <2>2, ConcatEmptySeq
      <4>2. op' = [op EXCEPT ![k] = "pending"]
            /\ queue' \in {q \o <<>>, Append(q \o <<>>, Completion("shutdown", k, FALSE))}
        BY <1>14, <2>1, <3>2 DEF RunData, OnError
      <4> QED
        BY <2>2, <4>1, <4>2
    <3> QED
      BY <3>1, <3>2
  <2>5. Completion("shutdown", k, FALSE) \in Event
    BY DEF Completion, Event
  <2>6. Answers(Append(z, Completion("shutdown", k, FALSE)), op', sending)
    BY <2>4, <2>5, AnswersMore
  <2> QED
    BY <2>3, <2>4, <2>6 DEF Answered
<1> QED
  BY <1>1, <1>2, <1>3, <1>4, <1>5, <1>6, <1>7, <1>8, <1>9, <1>10, <1>11, <1>12, <1>13, <1>14, NextIs
     DEF Act, Script, System, Runs

THEOREM AnsweredAlways == Spec => []Answered
<1>1. Init => Answered
  BY DEF Init, Answered, Answers
<1>2. IInv /\ Answered /\ [Next]_vars => Answered'
  BY EventsAssumption, AnsweredNext DEF IInv
<1> QED
  BY <1>1, <1>2, Invariance, PTL DEF Spec

\* As long as no socket was handed data after it was closed, a socket that is selected,
\* that is not open and whose handler has not been told so is never left alone: its read
\* has completed and is in the queue, or the rest of its data is being sent and its read
\* is pending, which shutdown_receive ends.  ClosedTold adds that the queue is run.
ErrorComes ==
  late = {} =>
    \A k \in asyned \ told :
      ~IsOpen(k) => \/ Waits(queue, k, {"read"})
                    \/ state[k] = "closed" /\ op[k] = "pending"

\* ErrorComes holds for any number of sockets, slots and handlers that close sockets
\* (luaos_socket.cpp, socket.hpp): no order of select, close and data loses the error.
THEOREM ErrorComesAlways == Spec => []ErrorComes
<1>1. IInv /\ Answered => ErrorComes
  <2>1. ASSUME IInv, Answered, late = {}, NEW k \in asyned \ told, ~IsOpen(k),
               ~(state[k] = "closed" /\ op[k] = "pending")
        PROVE  Waits(queue, k, {"read"})
    <3>1. k \in Socks /\ k \in Streams /\ KindOf(k, asyned) = "read" /\ op[k] # "none"
          /\ state[k] \in {"new", "connecting", "closed", "shut"}
          /\ op[k] \in {"none", "pending", "queued"}
      BY <2>1, EventsAssumption DEF IInv, Owned, TypeOK, EventsAssumption, Socks, KindOf, IsOpen
    <3>2. state[k] \in {"closed", "shut"}
      BY <2>1, <3>1 DEF IInv, Stages
    <3>3. op[k] = "queued"
      BY <2>1, <3>1, <3>2 DEF IInv, Stages
    <3>4. PICK i \in DOMAIN queue : queue[i].sock = k /\ queue[i].kind \in Operations
      BY <2>1, <3>1, <3>3 DEF Answered, Answers, Waits
    <3>5. queue[i].kind = "read"
      BY <2>1, <3>1, <3>4 DEF IInv, Lined, Sound, Fits
    <3> QED
      BY <3>4, <3>5 DEF Waits
  <2> QED
    BY <2>1 DEF ErrorComes
<1> QED
  BY <1>1, Invariance, AnsweredAlways, PTL
=============================================================================
