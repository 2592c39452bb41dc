------------------------- MODULE ClusterRouteProofs -------------------------
(***************************************************************************)
(* Ids in use differ, for any number of ids and of owners, and whatever    *)
(* the order in which owners come and go; and the messages of a cluster    *)
(* find their way by them, for any number of processes, services, sends    *)
(* and connections that break and come back.                               *)
(*                                                                         *)
(* A message on its way is told by the place where it is.  What a place    *)
(* may hold is said of each message alone (Fits): which address the parts  *)
(* of its publisher spell, and that a session id it carries belongs to     *)
(* the session it was taken from until that one ends.  What two places may *)
(* hold at once is said of two messages of the same send (Beside).         *)
(*                                                                         *)
(* The last part puts the bus and the routes together: what the run checks *)
(* implements both of them (SumImplementsParts).                           *)
(***************************************************************************)
EXTENDS MCRuntimeSafe, TopicBusProofs, SequenceTheorems, FiniteSetTheorems, TLAPS

-----------------------------------------------------------------------------
(* The ids. *)

\* No id is in use and free, or free twice, and none has not been handed out yet.
Apart ==
  /\ \A o \in Owners : held[o] < next
  /\ \A i \in DOMAIN free : free[i] < next
  /\ \A o \in Owners, i \in DOMAIN free : held[o] # free[i]
  /\ \A i, j \in DOMAIN free : free[i] = free[j] => i = j

\* The inductive invariant.
IdsInv == PoolTypeOK /\ Apart /\ IdsDiffer

LEMMA InitIds == IdentifiersAssumption /\ PoolInit => IdsInv
<1> SUFFICES ASSUME IdentifiersAssumption, PoolInit PROVE IdsInv
  OBVIOUS
<1>1. free = <<>> /\ free \in Seq(1..MaxId) /\ DOMAIN free = {}
  BY EmptySeq DEF PoolInit
<1>2. QED
  BY <1>1 DEF PoolInit, IdsInv, PoolTypeOK, Apart, IdsDiffer, IdentifiersAssumption

\* The first branch of next(): an id that nobody has seen.
LEMMA FreshKeeps ==
  ASSUME IdentifiersAssumption, IdsInv, NEW o \in Owners, held[o] = 0,
         next < MaxId + 1, held' = [held EXCEPT ![o] = next],
         next' = next + 1, UNCHANGED free
  PROVE  IdsInv'
<1>1. /\ MaxId \in Nat /\ next \in 1..MaxId /\ next' \in 1..MaxId + 1
      /\ held \in [Owners -> 0..MaxId] /\ free \in Seq(1..MaxId)
  BY DEF IdentifiersAssumption, IdsInv, PoolTypeOK
<1>2. PoolTypeOK'
  BY <1>1 DEF PoolTypeOK
<1>3. \A q \in Owners : held'[q] = IF q = o THEN next ELSE held[q]
  BY <1>1
<1>4. \A i \in DOMAIN free : free[i] \in 1..MaxId /\ free[i] < next
  BY <1>1, ElementOfSeq, LenProperties DEF IdsInv, Apart
<1>5. Apart'
  BY <1>1, <1>3, <1>4 DEF IdsInv, Apart
<1>6. IdsDiffer'
  BY <1>1, <1>3 DEF IdsInv, Apart, IdsDiffer
<1>7. QED
  BY <1>2, <1>5, <1>6 DEF IdsInv

\* The second branch: the id that has been free for the longest time.
LEMMA ReusedKeeps ==
  ASSUME IdentifiersAssumption, IdsInv, NEW o \in Owners, held[o] = 0, free # <<>>,
         held' = [held EXCEPT ![o] = Head(free)],
         free' = Tail(free), UNCHANGED next
  PROVE  IdsInv'
<1>1. /\ MaxId \in Nat /\ next \in 1..MaxId + 1
      /\ held \in [Owners -> 0..MaxId] /\ free \in Seq(1..MaxId)
  BY DEF IdentifiersAssumption, IdsInv, PoolTypeOK
<1>2. /\ free' \in Seq(1..MaxId) /\ Head(free) = free[1] /\ 1 \in DOMAIN free
      /\ \A i \in DOMAIN free' : i + 1 \in DOMAIN free /\ free'[i] = free[i + 1]
      /\ \A i \in DOMAIN free' : i \in Nat \ {0}
      /\ \A i \in DOMAIN free : free[i] \in 1..MaxId
  BY <1>1, HeadTailProperties, ElementOfSeq, LenProperties, EmptySeq
<1>3. PoolTypeOK'
  BY <1>1, <1>2 DEF PoolTypeOK
<1>4. \A q \in Owners : held'[q] = IF q = o THEN free[1] ELSE held[q]
  BY <1>1, <1>2
<1>5. Apart'
  <2>1. /\ \A q \in Owners : held'[q] < next'
        /\ \A i \in DOMAIN free' : free'[i] < next'
    BY <1>2, <1>4 DEF IdsInv, Apart
  <2>2. \A q \in Owners, i \in DOMAIN free' : held'[q] # free'[i]
    BY <1>2, <1>4 DEF IdsInv, Apart
  <2>3. \A i, j \in DOMAIN free' : free'[i] = free'[j] => i = j
    BY <1>2 DEF IdsInv, Apart
  <2>4. QED
    BY <2>1, <2>2, <2>3 DEF Apart
<1>6. IdsDiffer'
  BY <1>2, <1>4 DEF IdsInv, Apart, IdsDiffer
<1>7. QED
  BY <1>3, <1>5, <1>6 DEF IdsInv

LEMMA GiveKeeps ==
  ASSUME IdentifiersAssumption, IdsInv, NEW o \in Owners, Give(o)
  PROVE  IdsInv'
<1>1. /\ MaxId \in Nat /\ next \in 1..MaxId + 1 /\ next' = next
      /\ held \in [Owners -> 0..MaxId] /\ free \in Seq(1..MaxId)
      /\ held[o] \in 1..MaxId
  BY DEF IdentifiersAssumption, IdsInv, PoolTypeOK, Give
<1>2. /\ free' \in Seq(1..MaxId) /\ Len(free) \in Nat
      /\ DOMAIN free = 1..Len(free) /\ DOMAIN free' = 1..Len(free) + 1
      /\ \A i \in DOMAIN free : free'[i] = free[i] /\ free[i] \in 1..MaxId
      /\ free'[Len(free) + 1] = held[o]
  BY <1>1, AppendProperties, LenProperties, ElementOfSeq DEF Give
<1>3. \A q \in Owners : held'[q] = IF q = o THEN 0 ELSE held[q]
  BY <1>1 DEF Give
<1>4. PoolTypeOK'
  BY <1>1, <1>2 DEF PoolTypeOK, Give
<1>5. Apart'
  <2>1. \A i \in DOMAIN free' : i \in DOMAIN free \/ i = Len(free) + 1
    BY <1>2
  <2>a. /\ \A q \in Owners : held[q] < next
        /\ \A i \in DOMAIN free : free[i] < next
        /\ \A q \in Owners, i \in DOMAIN free : held[q] # free[i]
        /\ \A q \in Owners : held[q] = held[o] => q = o
    BY <1>1 DEF IdsInv, Apart, IdsDiffer
  <2>2. /\ \A q \in Owners : held'[q] < next'
        /\ \A i \in DOMAIN free' : free'[i] < next'
    <3>1. \A q \in Owners : held'[q] < next'
      BY <1>1, <1>3, <2>a
    <3>2. \A i \in DOMAIN free' : free'[i] < next'
      BY <1>1, <1>2, <2>1, <2>a
    <3>3. QED
      BY <3>1, <3>2
  <2>3. ASSUME NEW q \in Owners, NEW i \in DOMAIN free' PROVE held'[q] # free'[i]
    <3>1. CASE i \in DOMAIN free
      <4>1. free'[i] = free[i] /\ free[i] # 0
        BY <1>1, <1>2, <3>1
      <4>2. QED
        BY <1>3, <2>a, <3>1, <4>1
    <3>2. CASE i = Len(free) + 1
      <4>1. free'[i] = held[o] /\ held[o] # 0
        BY <1>1, <1>2, <3>2
      <4>2. QED
        BY <1>3, <2>a, <4>1
    <3>3. QED
      BY <2>1, <3>1, <3>2
  <2>4. ASSUME NEW i \in DOMAIN free', NEW j \in DOMAIN free', free'[i] = free'[j]
        PROVE i = j
    <3>1. \A k, l \in DOMAIN free : free[k] = free[l] => k = l
      BY DEF IdsInv, Apart
    <3>2. \A k \in DOMAIN free : free[k] # held[o]
      BY DEF IdsInv, Apart
    <3>3. CASE i \in DOMAIN free /\ j \in DOMAIN free
      BY <1>2, <2>4, <3>1, <3>3
    <3>4. CASE i = Len(free) + 1 \/ j = Len(free) + 1
      BY <1>2, <2>1, <2>4, <3>2, <3>4
    <3>5. QED
      BY <2>1, <3>3, <3>4
  <2>5. QED
    BY <2>2, <2>3, <2>4 DEF Apart
<1>6. IdsDiffer'
  BY <1>1, <1>3 DEF IdsInv, IdsDiffer
<1>7. QED
  BY <1>4, <1>5, <1>6 DEF IdsInv

LEMMA NextIds == IdentifiersAssumption /\ IdsInv /\ [PoolNext]_idVars => IdsInv'
<1> SUFFICES ASSUME IdentifiersAssumption, IdsInv, [PoolNext]_idVars PROVE IdsInv'
  OBVIOUS
<1>1. CASE UNCHANGED idVars
  BY <1>1 DEF idVars, IdsInv, PoolTypeOK, Apart, IdsDiffer
<1>2. ASSUME NEW o \in Owners, Take(o) PROVE IdsInv'
  BY <1>2, FreshKeeps, ReusedKeeps DEF Take
<1>3. ASSUME NEW o \in Owners, Give(o) PROVE IdsInv'
  BY <1>3, GiveKeeps
<1>4. QED
  BY <1>1, <1>2, <1>3 DEF PoolNext

\* Two owners that live at the same time have different ids: the pool never hands
\* out an id that somebody has (identifier::generator).
THEOREM IdsDifferAlways ==
  ASSUME IdentifiersAssumption
  PROVE  PoolSpec => []IdsDiffer
<1>1. IdsInv => IdsDiffer
  BY DEF IdsInv
<1>2. QED
  BY <1>1, InitIds, NextIds, PTL DEF PoolSpec

-----------------------------------------------------------------------------
(* The inductive invariant of the routes. *)

\* The places where messages are, and the process of each.
Places == ({"posted"} \X Procs) \union ({"up", "down"} \X Conns) \union ({"got"} \X Subscribers)

Box(x) ==
  IF x[1] = "posted" THEN posted[x[2]]
  ELSE IF x[1] = "up" THEN up[x[2]]
  ELSE IF x[1] = "down" THEN down[x[2]]
  ELSE got[x[2]]

Site(x) == IF x[1] = "posted" THEN x[2] ELSE x[2][1]

\* A connection is made once, a session is one of them and has an id.
Links ==
  /\ IsFiniteSet(made)
  /\ \A d \in made : d[2] <= Cardinality({e \in made : e[1] = d[1]})
  /\ \A p \in Procs : peer[p] # None => peer[p] \in made /\ peer[p][1] = p
  /\ sessions \subseteq made
  /\ \A c \in Conns : c \in sessions <=> held[c] # 0
  /\ \A c \in Conns : down[c] # <<>> => peer[c[1]] = c

\* A connection that had a session has none any more, and gets none again.
Ended(c) == c \in made \ sessions /\ peer[c[1]] # c

\* fd is the id of the session of c, while that lasts.
Names(fd, c) == Ended(c) \/ (c \in sessions /\ held[c] = fd)

\* An integer of three parts.
Parts(a, b, c) == (a * Base + b) * Base + c

\* What the publisher of a message spells, at a place on the way to the master.
Outward(x, m) ==
  /\ m.from.via = None /\ m.from.proc = Site(x)
  /\ m.to = None => m.publisher = m.from.id
  /\ m.to # None =>
       /\ m.to.via # None
       /\ \E fd \in 1..MaxId : Names(fd, m.to.via) /\ m.publisher = Parts(m.to.id, fd, m.from.id)

\* From the master: it came from another process, or goes to the one it replies to.
Inward(x, m) ==
  /\ m.from.via # None
  /\ \E fd \in 1..MaxId :
       /\ Names(fd, m.from.via)
       /\ m.publisher = IF m.to = None THEN m.from.id * Base + fd
                        ELSE Parts(m.to.id, fd, m.from.id)
  /\ m.to = None /\ Current(m) => Site(x) # m.from.proc
  /\ m.to # None => m.to.via # None /\ (m.to.proc = Site(x) \/ Ended(m.to.via))

\* Where it was received, from a service of the process or of another one.
Received(x, m) ==
  IF m.from.via = None
  THEN /\ m.from.proc = Site(x) /\ m.from.id # x[2][2] /\ m.publisher = m.from.id
       /\ m.to # None => m.to.proc = Site(x) /\ m.to.id = x[2][2]
  ELSE /\ \E fd \in 1..MaxId :
            Names(fd, m.from.via) /\ m.publisher = Parts(m.from.id, fd, Proxy)
       /\ m.to = None /\ Current(m) => Site(x) # m.from.proc
       /\ m.to # None => /\ m.to.via # None /\ m.to.id = x[2][2]
                         /\ m.to.proc = Site(x) \/ Ended(m.to.via)

\* The way back of an address.
Sound(a) == a.id # Proxy /\ (a.via # None => a.via[1] = a.proc)

Fits(x, m) ==
  /\ m \in RouteMessage /\ m.n <= sends
  /\ Sound(m.from) /\ (m.to # None => Sound(m.to))
  /\ x[1] \in {"posted", "up"} => Outward(x, m)
  /\ x[1] = "down" => Inward(x, m)
  /\ x[1] = "got" => Received(x, m)

\* A message that goes to one service of the cluster.
Single(m) == m.mask > 0 \/ m.to # None

\* Before the master has seen it, a message is at one place on the way there, beside
\* the services of the process; after that it is, once, in every other one.
Beside(x, m, y, o) ==
  /\ ~Single(m) /\ ~Single(o)
  /\ m.from.proc = o.from.proc
  /\ x[1] \in {"posted", "up"} => y[1] = "got" /\ o.from.via = None
  /\ y[1] \in {"posted", "up"} => x[1] = "got" /\ m.from.via = None
  /\ x[1] = "down" /\ y[1] = "down" => Site(x) # Site(y)
  /\ x[1] = "down" /\ y[1] = "got" /\ Site(x) = Site(y) => o.from.via = None
  /\ y[1] = "down" /\ x[1] = "got" /\ Site(x) = Site(y) => m.from.via = None
  /\ x[1] = "got" /\ y[1] = "got" /\ Site(x) = Site(y) /\ x = y =>
       (m.from.via = None <=> o.from.via # None)

Boxes == [x \in Places |-> Box(x)]

Each(Q) == \A x \in Places : \A i \in DOMAIN Q[x] : Fits(x, Q[x][i])

Two(Q) ==
  \A x, y \in Places : \A i \in DOMAIN Q[x], j \in DOMAIN Q[y] :
    Q[x][i].n = Q[y][j].n => (x = y /\ i = j) \/ Beside(x, Q[x][i], y, Q[y][j])

RouteInv ==
  /\ RouteTypeOK /\ IdsInv /\ Links
  /\ Each(Boxes) /\ Two(Boxes)

-----------------------------------------------------------------------------
(* Publishers: what is put together of parts is taken apart again. *)

LEMMA AtLeast == ASSUME NEW b \in Nat, NEW k \in Nat, k >= 1 PROVE k * b >= b
<1>1. k - 1 \in Nat /\ (k - 1) * b >= 0 /\ k * b = (k - 1) * b + b
  OBVIOUS
<1>2. QED
  BY <1>1

\* Quotient and remainder are unique.
LEMMA Unique ==
  ASSUME NEW b \in Nat \ {0}, NEW q \in Nat, NEW r \in 0..b - 1,
         NEW u \in Nat, NEW v \in 0..b - 1, q * b + r = u * b + v
  PROVE  q = u /\ r = v
<1>1. ASSUME q > u PROVE FALSE
  <2>1. (q - u) * b >= b /\ (q - u) * b = q * b - u * b
    BY <1>1, AtLeast
  <2>2. QED
    BY <2>1
<1>2. ASSUME q < u PROVE FALSE
  <2>1. (u - q) * b >= b /\ (u - q) * b = u * b - q * b
    BY <1>2, AtLeast
  <2>2. QED
    BY <2>1
<1>3. q = u
  BY <1>1, <1>2
<1>4. QED
  BY <1>3

LEMMA Quotient ==
  ASSUME NEW b \in Nat \ {0}, NEW q \in Nat, NEW r \in 0..b - 1
  PROVE  (q * b + r) \div b = q /\ (q * b + r) % b = r
<1> DEFINE x == q * b + r
<1>1. x \in Nat
  OBVIOUS
<1>2. /\ x \div b \in Nat /\ x % b \in 0..b - 1
      /\ x = (x \div b) * b + (x % b)
  BY <1>1
<1>3. QED
  BY <1>2, Unique

LEMMA BaseFact == ASSUME RouteAssumption PROVE Base \in Nat \ {0} /\ Base > 1 /\ Base * Base \in Nat \ {0}
<1>1. Base \in Nat \ {0} /\ Base > 1
  BY DEF RouteAssumption
<1>2. Base * Base \in Nat /\ Base * Base >= Base
  BY <1>1, AtLeast
<1>3. QED
  BY <1>1, <1>2

LEMMA OnePart ==
  ASSUME RouteAssumption, NEW r \in 0..Base - 1
  PROVE  r \div Base = 0 /\ r % Base = r
<1>1. Base \in Nat \ {0}
  BY BaseFact
<1>2. (0 * Base + r) \div Base = 0 /\ (0 * Base + r) % Base = r
  BY <1>1, Quotient
<1>3. 0 * Base + r = r
  BY <1>1
<1>4. QED
  BY <1>2, <1>3

LEMMA Squared ==
  ASSUME RouteAssumption, NEW q \in Nat, NEW r \in 0..Base * Base - 1
  PROVE  (q * (Base * Base) + r) \div (Base * Base) = q
<1> DEFINE S == Base * Base
<1>1. S \in Nat \ {0} /\ r \in 0..S - 1
  BY BaseFact
<1>2. HIDE DEF S
<1>3. (q * S + r) \div S = q
  BY <1>1, Quotient
<1>4. QED
  BY <1>3 DEF S

\* Two parts: what a publish is above the master.
LEMMA TwoParts ==
  ASSUME RouteAssumption, NEW a \in Nat, NEW b \in 0..Base - 1
  PROVE  /\ a * Base + b \in Nat
         /\ (a * Base + b) \div Base = a /\ (a * Base + b) % Base = b
         /\ a < Base => (a * Base + b) \div (Base * Base) = 0
<1>1. Base \in Nat \ {0} /\ Base * Base \in Nat \ {0} /\ a * Base + b \in Nat
  BY BaseFact
<1>2. (a * Base + b) \div Base = a /\ (a * Base + b) % Base = b
  BY <1>1, Quotient
<1>3. ASSUME a < Base PROVE (a * Base + b) \div (Base * Base) = 0
  <2>1. (Base - a) * Base >= Base /\ (Base - a) * Base = Base * Base - a * Base
    BY <1>1, <1>3, AtLeast
  <2>2. a * Base + b \in 0..Base * Base - 1
    BY <1>1, <2>1
  <2>3. (0 * (Base * Base) + (a * Base + b)) \div (Base * Base) = 0
    BY <1>1, <2>2, Squared
  <2>4. 0 * (Base * Base) + (a * Base + b) = a * Base + b
    BY <1>1
  <2>5. QED
    BY <2>3, <2>4
<1>4. QED
  BY <1>1, <1>2, <1>3

\* Three parts: what an address is where it was received, and a reply on its way.
LEMMA ThreeParts ==
  ASSUME RouteAssumption, NEW a \in Nat, NEW b \in 0..Base - 1, NEW c \in 0..Base - 1
  PROVE  /\ Parts(a, b, c) \in Nat
         /\ Parts(a, b, c) \div Base = a * Base + b /\ Parts(a, b, c) % Base = c
         /\ Parts(a, b, c) \div (Base * Base) = a
         /\ (Parts(a, b, c) \div Base) % Base = b
         /\ Parts(a, b, c) = a * Base * Base + b * Base + c
         /\ a # 0 => a * Base + b # 0
<1>1. Base \in Nat \ {0} /\ Base * Base \in Nat \ {0}
  BY BaseFact
<1>2. /\ a * Base + b \in Nat
      /\ (a * Base + b) % Base = b /\ (a * Base + b) \div Base = a
  BY <1>1, TwoParts
<1>b. b * Base + c \in Nat
  BY <1>1
<1>3. /\ Parts(a, b, c) \in Nat
      /\ Parts(a, b, c) \div Base = a * Base + b /\ Parts(a, b, c) % Base = c
  BY <1>1, <1>2, Quotient DEF Parts
<1>4. b * Base + c \in 0..Base * Base - 1
  <2>1. (Base - b) * Base >= Base /\ (Base - b) * Base = Base * Base - b * Base
    BY <1>1, AtLeast
  <2>2. QED
    BY <1>1, <1>b, <2>1
<1>5. (a * Base + b) * Base = a * (Base * Base) + b * Base
  BY <1>1
<1>6. Parts(a, b, c) = a * (Base * Base) + (b * Base + c)
  BY <1>1, <1>2, <1>b, <1>5 DEF Parts
<1>7. Parts(a, b, c) \div (Base * Base) = a
  BY <1>4, <1>6, Squared
<1>8. a * Base * Base = a * (Base * Base)
  BY <1>1
<1>9. Parts(a, b, c) = a * Base * Base + b * Base + c
  BY <1>1, <1>b, <1>6, <1>8
<1>10. a # 0 => a * Base + b # 0
  <2>1. a # 0 => a * Base >= Base
    BY <1>1, AtLeast
  <2>2. QED
    BY <1>1, <2>1
<1>11. QED
  BY <1>2, <1>3, <1>7, <1>9, <1>10

-----------------------------------------------------------------------------
(* Places and queues. *)

LEMMA PlaceCases ==
  ASSUME NEW x \in Places
  PROVE  \/ \E p \in Procs : x = <<"posted", p>>
         \/ \E c \in Conns : x = <<"up", c>> \/ x = <<"down", c>>
         \/ \E s \in Subscribers : x = <<"got", s>>
BY DEF Places

LEMMA PlaceFacts ==
  /\ \A p \in Procs : <<"posted", p>> \in Places /\ Site(<<"posted", p>>) = p
                      /\ Box(<<"posted", p>>) = posted[p] /\ Box(<<"posted", p>>)' = posted'[p]
  /\ \A c \in Conns : <<"up", c>> \in Places /\ Site(<<"up", c>>) = c[1]
                      /\ Box(<<"up", c>>) = up[c] /\ Box(<<"up", c>>)' = up'[c]
  /\ \A c \in Conns : <<"down", c>> \in Places /\ Site(<<"down", c>>) = c[1]
                      /\ Box(<<"down", c>>) = down[c] /\ Box(<<"down", c>>)' = down'[c]
  /\ \A s \in Subscribers : <<"got", s>> \in Places /\ Site(<<"got", s>>) = s[1]
                      /\ Box(<<"got", s>>) = got[s] /\ Box(<<"got", s>>)' = got'[s]
BY DEF Places, Site, Box

\* What the places hold is messages.
LEMMA BoxTypes ==
  ASSUME RouteTypeOK
  PROVE  \A x \in Places : Boxes[x] = Box(x) /\ Boxes[x] \in Seq(RouteMessage)
<1>1. ASSUME NEW x \in Places PROVE Box(x) \in Seq(RouteMessage)
  <2>1. CASE \E p \in Procs : x = <<"posted", p>>
    BY <2>1, PlaceFacts DEF RouteTypeOK
  <2>2. CASE \E c \in Conns : x = <<"up", c>> \/ x = <<"down", c>>
    BY <2>2, PlaceFacts DEF RouteTypeOK
  <2>3. CASE \E s \in Subscribers : x = <<"got", s>>
    BY <2>3, PlaceFacts DEF RouteTypeOK
  <2>4. QED
    BY <2>1, <2>2, <2>3, PlaceCases
<1>2. QED
  BY <1>1 DEF Boxes

LEMMA BesideSymmetric ==
  ASSUME NEW x, NEW y, NEW m, NEW o, Beside(x, m, y, o)
  PROVE  Beside(y, o, x, m)
BY DEF Beside

\* How a queue changes: it stays, it loses its first message or all, it gains one.
Shift(q, r) == IF r = q THEN 0 ELSE 1

Shorter(q, r) == r = q \/ (q # <<>> /\ r = Tail(q)) \/ r = <<>>

LEMMA ShorterQueue ==
  ASSUME NEW S, NEW q \in Seq(S), NEW r, Shorter(q, r)
  PROVE  /\ r \in Seq(S)
         /\ \A i \in DOMAIN r : i + Shift(q, r) \in DOMAIN q /\ r[i] = q[i + Shift(q, r)]
<1>1. CASE r = q
  BY <1>1, LenProperties DEF Shift
<1>2. CASE r # q /\ q # <<>> /\ r = Tail(q)
  <2>1. /\ r \in Seq(S)
        /\ \A i \in DOMAIN r : i + 1 \in DOMAIN q /\ r[i] = q[i + 1]
    BY <1>2, HeadTailProperties, LenProperties
  <2>2. QED
    BY <1>2, <2>1 DEF Shift
<1>3. CASE r = <<>>
  BY <1>3, EmptySeq
<1>4. QED
  BY <1>1, <1>2, <1>3 DEF Shorter

\* The head and what is left behind it are two messages.
LEMMA Behind ==
  ASSUME NEW S, NEW q \in Seq(S), q # <<>>
  PROVE  /\ 1 \in DOMAIN q /\ Head(q) = q[1] /\ Head(q) \in S
         /\ Tail(q) # q /\ Shift(q, Tail(q)) = 1
         /\ \A i \in DOMAIN Tail(q) : i + 1 # 1
<1>1. /\ 1 \in DOMAIN q /\ Head(q) = q[1] /\ Head(q) \in S
      /\ Len(Tail(q)) = Len(q) - 1 /\ Len(q) \in Nat /\ Tail(q) \in Seq(S)
  BY HeadTailProperties, LenProperties, EmptySeq, ElementOfSeq
<1>2. Tail(q) # q
  <2>1. ASSUME Tail(q) = q PROVE FALSE
    <3>1. Len(q) = Len(q) - 1
      BY <1>1, <2>1, Zenon
    <3>2. QED
      BY <1>1, <3>1
  <2>2. QED
    BY <2>1
<1>3. \A i \in DOMAIN Tail(q) : i + 1 # 1
  BY <1>1, LenProperties
<1>4. QED
  BY <1>1, <1>2, <1>3 DEF Shift

\* Messages that leave take nothing away from those that stay.
LEMMA Drop ==
  ASSUME NEW Q, NEW R, Two(Q),
         \A x \in Places : Q[x] \in Seq(RouteMessage) /\ Shorter(Q[x], R[x])
  PROVE  Two(R)
<1> SUFFICES ASSUME NEW x \in Places, NEW y \in Places,
                    NEW i \in DOMAIN R[x], NEW j \in DOMAIN R[y], R[x][i].n = R[y][j].n
             PROVE  (x = y /\ i = j) \/ Beside(x, R[x][i], y, R[y][j])
  BY DEF Two
<1>1. PICK k : /\ k = Shift(Q[x], R[x])
               /\ i + k \in DOMAIN Q[x] /\ R[x][i] = Q[x][i + k]
  BY ShorterQueue
<1>2. PICK l : /\ l = Shift(Q[y], R[y])
               /\ j + l \in DOMAIN Q[y] /\ R[y][j] = Q[y][j + l]
  BY ShorterQueue
<1>3. (x = y /\ i + k = j + l) \/ Beside(x, R[x][i], y, R[y][j])
  BY <1>1, <1>2 DEF Two
<1>4. x = y => k = l
  BY <1>1, <1>2
<1>5. k \in {0, 1} /\ l \in {0, 1}
  BY <1>1, <1>2 DEF Shift
<1>6. i \in Nat /\ j \in Nat
  <2>1. R[x] \in Seq(RouteMessage) /\ R[y] \in Seq(RouteMessage)
    BY ShorterQueue
  <2>2. QED
    BY <2>1, LenProperties
<1>7. QED
  BY <1>3, <1>4, <1>5, <1>6

\* The one that leaves is beside those that stay.
LEMMA Left ==
  ASSUME NEW Q, NEW R, Two(Q), NEW x \in Places,
         \A y \in Places : Q[y] \in Seq(RouteMessage),
         Q[x] # <<>>, R[x] = Tail(Q[x]), \A y \in Places \ {x} : Shorter(Q[y], R[y]),
         NEW y \in Places, NEW j \in DOMAIN R[y], R[y][j].n = Head(Q[x]).n
  PROVE  Beside(x, Head(Q[x]), y, R[y][j])
<1>1. /\ 1 \in DOMAIN Q[x] /\ Head(Q[x]) = Q[x][1]
      /\ Shift(Q[x], R[x]) = 1 /\ \A i \in DOMAIN R[x] : i + 1 # 1
  BY Behind
<1>2. Shorter(Q[y], R[y])
  BY DEF Shorter
<1>3. PICK l : /\ l = Shift(Q[y], R[y])
               /\ j + l \in DOMAIN Q[y] /\ R[y][j] = Q[y][j + l]
  BY <1>2, ShorterQueue
<1>4. (x = y /\ 1 = j + l) \/ Beside(x, Q[x][1], y, Q[y][j + l])
  BY <1>1, <1>3 DEF Two
<1>5. QED
  BY <1>1, <1>3, <1>4

\* A message is put into some places.
Grown(Q, R, X, m) ==
  \A x \in Places : R[x] = IF x \in X THEN Append(Q[x], m) ELSE Q[x]

\* It may be there, beside what there is of its send and what becomes of itself.
Room(Q, X, m) ==
  /\ \A x \in Places \intersect X, y \in Places : \A j \in DOMAIN Q[y] :
       Q[y][j].n = m.n => Beside(x, m, y, Q[y][j])
  /\ \A x, y \in Places \intersect X : x # y => Beside(x, m, y, m)

LEMMA Put ==
  ASSUME NEW Q, NEW R, NEW X, NEW m, Two(Q), m \in RouteMessage,
         \A x \in Places : Q[x] \in Seq(RouteMessage),
         Grown(Q, R, X, m), Room(Q, X, m)
  PROVE  Two(R)
<1> SUFFICES ASSUME NEW x \in Places, NEW y \in Places,
                    NEW i \in DOMAIN R[x], NEW j \in DOMAIN R[y], R[x][i].n = R[y][j].n
             PROVE  (x = y /\ i = j) \/ Beside(x, R[x][i], y, R[y][j])
  BY DEF Two
<1>1. ASSUME NEW z \in Places, NEW k \in DOMAIN R[z]
      PROVE  \/ k \in DOMAIN Q[z] /\ R[z][k] = Q[z][k]
             \/ z \in X /\ k = Len(Q[z]) + 1 /\ R[z][k] = m
  <2>1. Q[z] \in Seq(RouteMessage)
    OBVIOUS
  <2>2. CASE z \notin X
    BY <1>1, <2>2 DEF Grown
  <2>3. CASE z \in X
    <3>1. R[z] = Append(Q[z], m)
      BY <2>3 DEF Grown
    <3>2. /\ DOMAIN Q[z] = 1..Len(Q[z]) /\ Len(Q[z]) \in Nat
          /\ DOMAIN R[z] = 1..Len(Q[z]) + 1
          /\ R[z][Len(Q[z]) + 1] = m
          /\ \A h \in 1..Len(Q[z]) : R[z][h] = Q[z][h]
      BY <2>1, <3>1, AppendProperties, LenProperties
    <3>3. QED
      BY <1>1, <2>3, <3>2
  <2>4. QED
    BY <2>2, <2>3
<1>2. CASE i \in DOMAIN Q[x] /\ R[x][i] = Q[x][i] /\ j \in DOMAIN Q[y] /\ R[y][j] = Q[y][j]
  BY <1>2 DEF Two
<1>3. CASE x \in X /\ R[x][i] = m /\ j \in DOMAIN Q[y] /\ R[y][j] = Q[y][j]
  BY <1>3 DEF Room
<1>4. CASE y \in X /\ R[y][j] = m /\ i \in DOMAIN Q[x] /\ R[x][i] = Q[x][i]
  <2>1. Beside(y, m, x, R[x][i])
    BY <1>4 DEF Room
  <2>2. QED
    BY <1>4, <2>1, BesideSymmetric
<1>5. CASE /\ x \in X /\ i = Len(Q[x]) + 1 /\ R[x][i] = m
           /\ y \in X /\ j = Len(Q[y]) + 1 /\ R[y][j] = m
  BY <1>5 DEF Room
<1>6. QED
  BY <1>1, <1>2, <1>3, <1>4, <1>5

\* What every message of a queue is, and the new one too.
LEMMA EachPut ==
  ASSUME NEW q \in Seq(RouteMessage), NEW m \in RouteMessage, NEW i \in DOMAIN Append(q, m)
  PROVE  (i \in DOMAIN q /\ Append(q, m)[i] = q[i]) \/ Append(q, m)[i] = m
BY AppendProperties, LenProperties

-----------------------------------------------------------------------------
(* What a step leaves true of the messages that stay where they are. *)

\* Connections are made and end, and none comes back; a session keeps its id.
Forward ==
  /\ made \subseteq made' /\ sends <= sends'
  /\ \A c \in Conns : Ended(c) => Ended(c)'
  /\ \A c \in sessions : Ended(c)' \/ (c \in sessions' /\ held'[c] = held[c])
  /\ \A p \in Procs : peer'[p] = peer[p] \/ peer'[p] = None \/ peer'[p] \notin made

LEMMA ForwardFits ==
  ASSUME RouteAssumption, RouteTypeOK, RouteTypeOK', sessions \subseteq made, Forward,
         NEW x \in Places, NEW m, Fits(x, m)
  PROVE  Fits(x, m)'
<1>t. /\ m \in RouteMessage /\ m.n \in Nat /\ m.from \in Address
      /\ m.from.proc \in Procs /\ m.from.via \in Conns \union {None}
      /\ m.to # None => m.to \in Address /\ m.to.via \in Conns \union {None}
      /\ sends \in Nat /\ sends' \in Nat
      /\ made \subseteq Conns /\ None \notin Conns
  <2>1. m \in RouteMessage
    BY DEF Fits
  <2>2. /\ m.n \in 1..MaxSends /\ m.from \in Address /\ m.to \in Address \union {None}
    BY <2>1 DEF RouteMessage
  <2>3. /\ m.n \in Nat /\ m.from.proc \in Procs /\ m.from.via \in Conns \union {None}
        /\ m.to # None => m.to \in Address /\ m.to.via \in Conns \union {None}
    BY <2>2 DEF Address
  <2>4. sends \in Nat /\ sends' \in Nat /\ made \subseteq Conns /\ None \notin Conns
    BY DEF RouteAssumption, RouteTypeOK
  <2>5. QED
    BY <2>1, <2>2, <2>3, <2>4
<1>1. \A c \in Conns : Ended(c) => Ended(c)'
  BY DEF Forward
<1>2. \A c \in Conns, fd \in 1..MaxId : Names(fd, c) => Names(fd, c)'
  BY <1>1 DEF Forward, Names
<1>3. \A c, fd : Names(fd, c) => c \in made
  BY DEF Names, Ended
<1>4. m.from.via \in made /\ Current(m)' => Current(m)
  BY <1>t DEF Forward, Current
<1>5. m \in RouteMessage /\ m.n <= sends' /\ Sound(m.from) /\ (m.to # None => Sound(m.to))
  BY <1>t DEF Fits, Forward
<1>6. Site(x)' = Site(x)
  BY DEF Site
<1>7. Outward(x, m) => Outward(x, m)'
  BY <1>t, <1>2, <1>6 DEF Outward
<1>8. Inward(x, m) => Inward(x, m)'
  <2> SUFFICES ASSUME Inward(x, m) PROVE Inward(x, m)'
    OBVIOUS
  <2>1. m.from.via # None
    BY DEF Inward
  <2>2. PICK fd \in 1..MaxId :
          /\ Names(fd, m.from.via)
          /\ m.publisher = IF m.to = None THEN m.from.id * Base + fd
                           ELSE Parts(m.to.id, fd, m.from.id)
    BY DEF Inward
  <2>3. Names(fd, m.from.via)' /\ m.from.via \in made
    BY <1>t, <1>2, <1>3, <2>1, <2>2
  <2>4. m.to = None /\ Current(m)' => Site(x) # m.from.proc
    BY <1>4, <2>3 DEF Inward
  <2>5. m.to # None => m.to.via # None /\ (m.to.proc = Site(x) \/ Ended(m.to.via)')
    BY <1>t, <1>1 DEF Inward
  <2>6. QED
    BY <1>6, <2>1, <2>2, <2>3, <2>4, <2>5 DEF Inward
<1>9. Received(x, m) => Received(x, m)'
  <2> SUFFICES ASSUME Received(x, m) PROVE Received(x, m)'
    OBVIOUS
  <2>1. CASE m.from.via = None
    BY <1>6, <2>1 DEF Received
  <2>2. CASE m.from.via # None
    <3>1. PICK fd \in 1..MaxId :
            Names(fd, m.from.via) /\ m.publisher = Parts(m.from.id, fd, Proxy)
      BY <2>2 DEF Received
    <3>2. Names(fd, m.from.via)' /\ m.from.via \in made
      BY <1>t, <1>2, <1>3, <2>2, <3>1
    <3>3. m.to = None /\ Current(m)' => Site(x) # m.from.proc
      BY <1>4, <2>2, <3>2 DEF Received
    <3>4. m.to # None => /\ m.to.via # None /\ m.to.id = x[2][2]
                         /\ m.to.proc = Site(x) \/ Ended(m.to.via)'
      BY <1>t, <1>1, <2>2 DEF Received
    <3>5. QED
      BY <1>6, <2>2, <3>1, <3>2, <3>3, <3>4 DEF Received
  <2>3. QED
    BY <2>1, <2>2
<1>10. QED
  BY <1>5, <1>7, <1>8, <1>9 DEF Fits

\* Messages leave and nothing else happens to the places.
LEMMA Leaving ==
  ASSUME RouteAssumption, RouteInv, RouteTypeOK', Forward,
         \A x \in Places : Shorter(Boxes[x], Boxes'[x])
  PROVE  Each(Boxes)' /\ Two(Boxes)'
<1>1. PICK Q : Q = Boxes
  OBVIOUS
<1>2. PICK R : R = Boxes'
  OBVIOUS
<1>3. /\ \A x \in Places : Q[x] \in Seq(RouteMessage) /\ Shorter(Q[x], R[x])
      /\ Each(Q) /\ Two(Q) /\ RouteTypeOK /\ sessions \subseteq made
  BY <1>1, <1>2, BoxTypes DEF RouteInv, Links
<1>4. Two(R)
  BY <1>3, Drop
<1>5. ASSUME NEW x \in Places, NEW i \in DOMAIN R[x] PROVE Fits(x, R[x][i])'
  <2>1. PICK j : j \in DOMAIN Q[x] /\ R[x][i] = Q[x][j]
    BY <1>3, ShorterQueue
  <2>2. PICK m : m = R[x][i]
    OBVIOUS
  <2>3. Fits(x, m)
    BY <1>3, <2>1, <2>2 DEF Each
  <2>4. Fits(x, m)'
    BY <1>3, <2>3, ForwardFits
  <2>5. QED
    BY <2>2, <2>4
<1>6. Each(R)'
  BY <1>5 DEF Each
<1>7. QED
  BY <1>2, <1>4, <1>6

\* Messages leave and one comes, to the places of X.
LEMMA Coming ==
  ASSUME RouteAssumption, RouteInv, RouteTypeOK', Forward,
         NEW Q, NEW X, NEW m, m \in RouteMessage,
         \A x \in Places : Shorter(Boxes[x], Q[x]),
         NEW R, R = Boxes', Grown(Q, R, X, m), Room(Q, X, m),
         \A x \in Places \intersect X : Fits(x, m)'
  PROVE  Each(Boxes)' /\ Two(Boxes)'
<1>1. PICK P : P = Boxes
  OBVIOUS
<1>3. /\ \A x \in Places : P[x] \in Seq(RouteMessage) /\ Shorter(P[x], Q[x])
      /\ \A x \in Places : R[x] = IF x \in X THEN Append(Q[x], m) ELSE Q[x]
      /\ Each(P) /\ Two(P) /\ RouteTypeOK /\ sessions \subseteq made
  BY <1>1, BoxTypes DEF RouteInv, Links, Grown
<1>4. Two(Q)
  <2>1. Two(P) /\ \A x \in Places : P[x] \in Seq(RouteMessage) /\ Shorter(P[x], Q[x])
    BY <1>3
  <2>2. QED
    BY <2>1, Drop
<1>5. \A x \in Places : Q[x] \in Seq(RouteMessage)
  BY <1>3, ShorterQueue
<1>6. Two(R)
  BY <1>4, <1>5, Put
<1>7. ASSUME NEW x \in Places, NEW i \in DOMAIN R[x] PROVE Fits(x, R[x][i])'
  <2>1. PICK o : o = R[x][i]
    OBVIOUS
  <2>2. (i \in DOMAIN Q[x] /\ o = Q[x][i]) \/ (x \in X /\ o = m)
    <3>1. Q[x] \in Seq(RouteMessage) /\ R[x] = IF x \in X THEN Append(Q[x], m) ELSE Q[x]
      BY <1>3, <1>5
    <3>2. CASE x \in X
      <4>1. i \in DOMAIN Append(Q[x], m) /\ R[x] = Append(Q[x], m)
        BY <1>7, <3>1, <3>2
      <4>2. QED
        BY <2>1, <3>1, <3>2, <4>1, EachPut
    <3>3. CASE x \notin X
      BY <1>7, <2>1, <3>1, <3>3
    <3>4. QED
      BY <3>2, <3>3
  <2>3. CASE x \in X /\ o = m
    BY <2>1, <2>3
  <2>4. CASE i \in DOMAIN Q[x] /\ o = Q[x][i]
    <3>1. PICK j : j \in DOMAIN P[x] /\ o = P[x][j]
      BY <1>3, <2>4, ShorterQueue
    <3>2. Fits(x, o)
      BY <1>3, <3>1 DEF Each
    <3>3. Fits(x, o)'
      BY <1>3, <3>2, ForwardFits
    <3>4. QED
      BY <2>1, <3>3
  <2>5. QED
    BY <2>2, <2>3, <2>4
<1>8. Each(R)'
  BY <1>7 DEF Each
<1>9. QED
  BY <1>6, <1>8

-----------------------------------------------------------------------------
(* Publishing in a process: who hears it and what it becomes. *)

LEMMA MessageTypes ==
  ASSUME RouteAssumption, NEW m \in RouteMessage
  PROVE  /\ m.publisher \in Nat /\ m.mask \in SendMasks /\ m.mask \in Nat
         /\ m.n \in 1..MaxSends /\ m.n \in Nat
         /\ m.from \in Address /\ m.from.proc \in Procs /\ m.from.id \in 1..Base - 1
         /\ m.from.via \in Conns \union {None}
         /\ m.to \in Address \union {None}
         /\ m.to # None => /\ m.to \in Address /\ m.to.proc \in Procs
                           /\ m.to.id \in 1..Base - 1
                           /\ m.to.via \in Conns \union {None}
<1>1. /\ m.publisher \in Nat /\ m.mask \in SendMasks /\ m.n \in 1..MaxSends
      /\ m.from \in Address /\ m.to \in Address \union {None}
  BY DEF RouteMessage
<1>2. m.mask \in Nat /\ m.n \in Nat
  <2>1. SendMasks \subseteq Nat /\ MaxSends \in Nat
    BY DEF RouteAssumption
  <2>2. m.mask \in Nat
    BY <1>1, <2>1
  <2>3. m.n \in Nat
    BY <1>1, <2>1
  <2>4. QED
    BY <2>2, <2>3
<1>3. ASSUME NEW a \in Address
      PROVE a.proc \in Procs /\ a.id \in 1..Base - 1 /\ a.via \in Conns \union {None}
  BY DEF Address
<1>4. QED
  BY <1>1, <1>2, <1>3

Stamp(m, a, c) == [m EXCEPT !.publisher = a, !.from.via = c]

StampedBy(c, r, m) ==
  /\ r.mask = m.mask /\ r.n = m.n /\ r.to = m.to
  /\ r.from.proc = m.from.proc /\ r.from.id = m.from.id /\ r.from.via = c

LEMMA Stamped ==
  ASSUME NEW m \in RouteMessage, NEW a \in Nat, NEW c \in Conns,
         NEW r, r = Stamp(m, a, c)
  PROVE  r \in RouteMessage /\ r.publisher = a /\ StampedBy(c, r, m)
<1>1. m.from \in Address /\ [m.from EXCEPT !.via = c] \in Address
  BY DEF RouteMessage, Address
<1>2. /\ [m.from EXCEPT !.via = c].proc = m.from.proc
      /\ [m.from EXCEPT !.via = c].id = m.from.id
      /\ [m.from EXCEPT !.via = c].via = c
  BY <1>1 DEF Address
<1> DEFINE f == [m.from EXCEPT !.via = c]
<1>3. r = [m EXCEPT !.publisher = a, !.from = f]
  BY DEF Stamp
<1>4. HIDE DEF f
<1>5. r.publisher = a /\ r.mask = m.mask /\ r.n = m.n /\ r.to = m.to /\ r.from = f
  BY <1>3 DEF RouteMessage
<1>6. r \in RouteMessage
  BY <1>1, <1>3 DEF RouteMessage, f
<1>7. QED
  BY <1>2, <1>5, <1>6 DEF f, StampedBy

\* What os.publish hands over.
Handed(self, m, receiver) ==
  [m EXCEPT !.publisher = (receiver \div Base) * Base + self,
            !.mask = IF receiver % Base # 0 THEN 0 ELSE m.mask]

Addressed(sent, self, receiver) == sent.publisher = (receiver \div Base) * Base + self

SameSend(sent, m) == sent.n = m.n /\ sent.from = m.from /\ sent.to = m.to

Masked(sent, m, receiver) == sent.mask > 0 => m.mask > 0 /\ receiver = 0

LEMMA HandedTypes ==
  ASSUME RouteAssumption, NEW m \in RouteMessage, NEW self \in Nat, NEW receiver \in Nat,
         NEW sent, sent = Handed(self, m, receiver)
  PROVE  /\ sent \in RouteMessage /\ Addressed(sent, self, receiver)
         /\ SameSend(sent, m) /\ Masked(sent, m, receiver % Base)
<1> DEFINE a == (receiver \div Base) * Base + self
           k == IF receiver % Base # 0 THEN 0 ELSE m.mask
<1>1. a \in Nat
  <2>1. receiver \div Base \in Nat /\ Base \in Nat
    BY BaseFact
  <2>2. QED
    BY <2>1
<1>2. k \in SendMasks /\ (k > 0 => m.mask > 0 /\ receiver % Base = 0)
  BY MessageTypes DEF RouteAssumption
<1>3. Handed(self, m, receiver) = [m EXCEPT !.publisher = a, !.mask = k]
  BY DEF Handed
<1>4. HIDE DEF a, k
<1>5. LET r == [m EXCEPT !.publisher = a, !.mask = k]
      IN  /\ r \in RouteMessage /\ r.publisher = a /\ r.mask = k
          /\ r.n = m.n /\ r.from = m.from /\ r.to = m.to
  BY <1>1, <1>2 DEF RouteMessage
<1>6. /\ Handed(self, m, receiver) \in RouteMessage
      /\ Handed(self, m, receiver).publisher = a /\ Handed(self, m, receiver).mask = k
      /\ Handed(self, m, receiver).n = m.n /\ Handed(self, m, receiver).from = m.from
      /\ Handed(self, m, receiver).to = m.to
  BY <1>3, <1>5
<1>7. QED
  BY <1>2, <1>6 DEF a, Addressed, SameSend, Masked

\* Nobody hears himself, a receiver hears alone, and so does one with a mask.
LEMMA Audience ==
  ASSUME RouteAssumption, NEW p, NEW self, NEW mask \in Nat, NEW receiver,
         NEW R \in Audiences(p, self, mask, receiver)
  PROVE  /\ \A i \in R : i \in Local(p) /\ i # self /\ (receiver # 0 => i = receiver)
         /\ receiver # 0 \/ mask > 0 => \A i, j \in R : i = j
<1> DEFINE others == Local(p) \ {self}
<1>1. CASE receiver # 0
  <2>1. R = others \intersect {receiver}
    BY <1>1 DEF Audiences
  <2>2. QED
    BY <1>1, <2>1
<1>2. CASE receiver = 0 /\ mask > 0 /\ others # {}
  <2>1. R \in {{i} : i \in others}
    BY <1>2 DEF Audiences
  <2>2. QED
    BY <1>2, <2>1
<1>3. CASE receiver = 0 /\ ~(mask > 0 /\ others # {})
  <2>1. R = others
    BY <1>3 DEF Audiences
  <2>2. QED
    BY <1>3, <2>1
<1>4. QED
  BY <1>1, <1>2, <1>3

\* The places that hear it.
Hearers(p, R) ==
  {x \in Places : \/ x[1] = "got" /\ x[2][1] = p /\ x[2][2] \in R
                  \/ x = <<"posted", p>> /\ Proxy \in R}

Heard(p, R, sent) ==
  \A x \in Places : x[1] \in {"got", "posted"} =>
    Box(x)' = IF x \in Hearers(p, R) THEN Append(Box(x), sent) ELSE Box(x)

LEMMA HearerCases ==
  ASSUME NEW p, NEW R, NEW x \in Hearers(p, R)
  PROVE  /\ x \in Places
         /\ \/ \E s \in Subscribers : x = <<"got", s>> /\ s[1] = p /\ s[2] \in R
            \/ x = <<"posted", p>> /\ Proxy \in R
<1>1. x \in Places
  BY DEF Hearers
<1>2. QED
  BY <1>1, PlaceCases DEF Hearers

LEMMA PublishBoxes ==
  ASSUME RouteAssumption, RouteTypeOK, NEW p \in Procs, NEW self \in Nat,
         NEW m \in RouteMessage, NEW receiver \in Nat,
         NEW sent, sent = Handed(self, m, receiver), NEW mask, mask = m.mask,
         PublishIn(p, self, m, receiver)
  PROVE  /\ got' \in [Subscribers -> Seq(RouteMessage)]
         /\ posted' \in [Procs -> Seq(RouteMessage)]
         /\ \E R \in Audiences(p, self, mask, receiver % Base) : Heard(p, R, sent)
<1>1. PICK R \in Audiences(p, self, mask, receiver % Base) :
        /\ got' = [s \in Subscribers |-> IF s[1] = p /\ s[2] \in R
                                         THEN Append(got[s], sent) ELSE got[s]]
        /\ posted' = [posted EXCEPT ![p] = IF Proxy \in R THEN Append(@, sent) ELSE @]
  BY DEF PublishIn, Handed
<1>2. sent \in RouteMessage
  BY HandedTypes
<1>4. /\ got \in [Subscribers -> Seq(RouteMessage)]
      /\ posted \in [Procs -> Seq(RouteMessage)]
  BY DEF RouteTypeOK
<1>5. got' \in [Subscribers -> Seq(RouteMessage)]
  BY <1>1, <1>2, <1>4, AppendProperties
<1>6. posted' \in [Procs -> Seq(RouteMessage)]
  BY <1>1, <1>2, <1>4, AppendProperties
<1>7. ASSUME NEW x \in Places, x[1] \in {"got", "posted"}
      PROVE  Box(x)' = IF x \in Hearers(p, R) THEN Append(Box(x), sent) ELSE Box(x)
  <2>1. CASE \E q \in Procs : x = <<"posted", q>>
    <3>1. PICK q \in Procs : x = <<"posted", q>>
      BY <2>1
    <3>2. Box(x) = posted[q] /\ Box(x)' = posted'[q]
      BY <3>1, PlaceFacts
    <3>3. x \in Hearers(p, R) <=> q = p /\ Proxy \in R
      BY <3>1 DEF Hearers
    <3>4. posted'[q] = IF q = p /\ Proxy \in R THEN Append(posted[q], sent) ELSE posted[q]
      BY <1>1, <1>4
    <3>5. QED
      BY <3>2, <3>3, <3>4
  <2>2. CASE \E s \in Subscribers : x = <<"got", s>>
    <3>1. PICK s \in Subscribers : x = <<"got", s>>
      BY <2>2
    <3>2. Box(x) = got[s] /\ Box(x)' = got'[s]
      BY <3>1, PlaceFacts
    <3>3. x \in Hearers(p, R) <=> s[1] = p /\ s[2] \in R
      BY <3>1 DEF Hearers
    <3>4. QED
      BY <1>1, <3>2, <3>3
  <2>3. QED
    BY <1>7, <2>1, <2>2, PlaceCases
<1>8. QED
  BY <1>1, <1>5, <1>6, <1>7 DEF Heard

-----------------------------------------------------------------------------
(* Steps that leave the connections alone. *)

LEMMA StillForward ==
  ASSUME UNCHANGED <<peer, made, sessions, held>>, sends <= sends'
  PROVE  Forward
BY DEF Forward, Ended

LEMMA StillIds == ASSUME IdsInv, UNCHANGED idVars PROVE IdsInv'
BY DEF IdsInv, idVars, PoolTypeOK, Apart, IdsDiffer

LEMMA StillLinks ==
  ASSUME Links, UNCHANGED <<peer, made, sessions, held>>,
         \A c \in Conns : down'[c] # <<>> => peer[c[1]] = c
  PROVE  Links'
BY DEF Links

\* Whoever may hear sent reads it as he should.
Understood(s, sent, receiver) ==
  /\ \A t \in Subscribers :
       t[1] = s[1] /\ t[2] # s[2] /\ (receiver # 0 => t[2] = receiver)
       => Received(<<"got", t>>, sent)
  /\ receiver \in {0, Proxy} => Outward(<<"posted", s[1]>>, sent)

\* What s sends next.
Spoken(s, m, receiver) ==
  /\ m \in RouteMessage
  /\ m.n = sends + 1 /\ sends < MaxSends
  /\ m.from = [proc |-> s[1], id |-> s[2], via |-> None]
  /\ m.to # None => Sound(m.to) /\ receiver # 0

\* A service speaks: the number is new, so nothing is beside the message but itself.
LEMMA Speaks ==
  ASSUME RouteAssumption, RouteInv, NEW s \in Subscribers,
         NEW m, NEW receiver \in Nat, NEW sent,
         Spoken(s, m, receiver % Base), sends' = sends + 1,
         sent = Handed(s[2], m, receiver),
         PublishIn(s[1], s[2], m, receiver), UNCHANGED <<linkVars, idVars>>,
         Understood(s, sent, receiver % Base)
  PROVE  RouteInv'
<1>p. PICK p : p = s[1]
  OBVIOUS
<1>q. PICK self : self = s[2]
  OBVIOUS
<1>r. /\ sent = Handed(self, m, receiver) /\ PublishIn(p, self, m, receiver)
      /\ m \in RouteMessage
  BY <1>p, <1>q DEF Spoken
<1>w. /\ m.n = sends + 1 /\ sends < MaxSends
      /\ m.from = [proc |-> p, id |-> self, via |-> None]
      /\ m.to # None => Sound(m.to) /\ receiver % Base # 0
  BY <1>p, <1>q DEF Spoken
<1>s. p \in Procs /\ self \in Nat /\ self # Proxy /\ Proxy \in Nat
  BY <1>p, <1>q DEF RouteAssumption
<1>v. \A t \in Subscribers : t = <<t[1], t[2]>> /\ t[2] # Proxy
  BY DEF RouteAssumption
<1>t. /\ RouteTypeOK /\ IdsInv /\ Links /\ Each(Boxes) /\ Two(Boxes)
      /\ sends \in Nat /\ MaxSends \in Nat
  BY DEF RouteInv, RouteTypeOK, RouteAssumption
<1>u. UNCHANGED <<peer, made, sessions, interest, up, down, idVars, next, free, held>>
  BY DEF linkVars, idVars
<1>1. /\ sent \in RouteMessage /\ sent.n = sends + 1 /\ sent.from = m.from /\ sent.to = m.to
      /\ sent.mask > 0 => m.mask > 0 /\ receiver % Base = 0
      /\ sent.from.proc = p /\ sent.from.id = self /\ sent.from.via = None
  <2>1. sent \in RouteMessage /\ SameSend(sent, m) /\ Masked(sent, m, receiver % Base)
    BY <1>r, <1>s, HandedTypes
  <2>2. QED
    BY <1>w, <2>1 DEF SameSend, Masked
<1>m. PICK mask : mask = m.mask
  OBVIOUS
<1>2. /\ got' \in [Subscribers -> Seq(RouteMessage)]
      /\ posted' \in [Procs -> Seq(RouteMessage)]
      /\ \E R \in Audiences(p, self, mask, receiver % Base) : Heard(p, R, sent)
  BY <1>m, <1>r, <1>s, <1>t, PublishBoxes
<1>3. PICK R \in Audiences(p, self, mask, receiver % Base) : Heard(p, R, sent)
  BY <1>2
<1>4. /\ \A i \in R : i # self /\ (receiver % Base # 0 => i = receiver % Base)
      /\ receiver % Base # 0 \/ m.mask > 0 => \A i, j \in R : i = j
  BY <1>m, <1>r, MessageTypes, Audience
<1>5. RouteTypeOK'
  <2>1. PoolTypeOK'
    BY <1>t, <1>u DEF RouteTypeOK, PoolTypeOK
  <2>2. sends' \in 0..MaxSends
    BY <1>t, <1>w
  <2>3. QED
    BY <1>t, <1>u, <1>2, <2>1, <2>2 DEF RouteTypeOK
<1>6. IdsInv'
  BY <1>t, <1>u, StillIds
<1>7. Links'
  BY <1>t, <1>u, StillLinks DEF Links
<1>8. Forward
  BY <1>t, <1>u, StillForward
<1>9. PICK Q : Q = Boxes
  OBVIOUS
<1>10. PICK B : B = Boxes'
  OBVIOUS
<1>11. \A x \in Places : Q[x] = Box(x) /\ B[x] = Box(x)' /\ Q[x] \in Seq(RouteMessage)
  BY <1>t, <1>9, <1>10, BoxTypes DEF Boxes
<1>12. Grown(Q, B, Hearers(p, R), sent)
  <2>1. ASSUME NEW x \in Places, x[1] \notin {"got", "posted"}
        PROVE  B[x] = Q[x] /\ x \notin Hearers(p, R)
    <3>1. \E c \in Conns : x = <<"up", c>> \/ x = <<"down", c>>
      BY <2>1, PlaceCases
    <3>2. Box(x)' = Box(x)
      BY <1>u, <3>1, PlaceFacts
    <3>3. QED
      BY <1>11, <2>1, <3>1, <3>2 DEF Hearers
  <2>2. QED
    BY <1>3, <1>11, <2>1 DEF Grown, Heard
<1>13. Room(Q, Hearers(p, R), sent)
  <2>1. ASSUME NEW y \in Places, NEW j \in DOMAIN Q[y] PROVE Q[y][j].n # sent.n
    <3>1. Fits(y, Q[y][j])
      BY <1>t, <1>9 DEF Each
    <3>2. Q[y][j].n \in Nat /\ Q[y][j].n <= sends
      BY <3>1, MessageTypes DEF Fits
    <3>3. QED
      BY <1>1, <1>t, <3>2
  <2>2. ASSUME NEW x \in Places \intersect Hearers(p, R),
               NEW y \in Places \intersect Hearers(p, R), x # y
        PROVE  Beside(x, sent, y, sent)
    <3>1. /\ \/ \E t \in Subscribers : x = <<"got", t>> /\ t[1] = p /\ t[2] \in R
             \/ x = <<"posted", p>> /\ Proxy \in R
          /\ \/ \E t \in Subscribers : y = <<"got", t>> /\ t[1] = p /\ t[2] \in R
             \/ y = <<"posted", p>> /\ Proxy \in R
      BY HearerCases
    <3>2. \E i, j \in R : i # j
      BY <1>v, <2>2, <3>1
    <3>3. ~Single(sent)
      BY <1>1, <1>4, <1>r, <1>w, <3>2, MessageTypes DEF Single
    <3>4. QED
      BY <1>1, <2>2, <3>1, <3>3 DEF Beside
  <2>3. QED
    BY <2>1, <2>2 DEF Room
<1>14. ASSUME NEW x \in Places \intersect Hearers(p, R) PROVE Fits(x, sent)'
  <2>1. \/ \E t \in Subscribers : x = <<"got", t>> /\ t[1] = p /\ t[2] \in R
        \/ x = <<"posted", p>> /\ Proxy \in R
    BY HearerCases
  <2>2. sent \in RouteMessage /\ sent.n <= sends' /\ Sound(sent.from)
        /\ (sent.to # None => Sound(sent.to))
    BY <1>1, <1>s, <1>t, <1>w DEF Sound
  <2>3. CASE \E t \in Subscribers : x = <<"got", t>> /\ t[1] = p /\ t[2] \in R
    <3>1. Received(x, sent)
      BY <1>p, <1>q, <1>4, <2>3 DEF Understood
    <3>2. Received(x, sent)'
      BY <1>1, <3>1 DEF Received, Site
    <3>3. QED
      BY <2>2, <2>3, <3>2 DEF Fits
  <2>4. CASE x = <<"posted", p>> /\ Proxy \in R
    <3>1. Outward(x, sent)
      BY <1>p, <1>4, <2>4 DEF Understood
    <3>2. Outward(x, sent)'
      BY <1>u, <3>1 DEF Outward, Site, Names, Ended
    <3>3. QED
      BY <2>2, <2>4, <3>2 DEF Fits
  <2>5. QED
    BY <2>1, <2>3, <2>4
<1>15. \A x \in Places : Shorter(Boxes[x], Q[x])
  BY <1>9 DEF Shorter
<1>16. Each(Boxes)' /\ Two(Boxes)'
  BY <1>1, <1>5, <1>8, <1>10, <1>12, <1>13, <1>14, <1>15, Coming
<1>17. QED
  BY <1>5, <1>6, <1>7, <1>16 DEF RouteInv

LEMMA Named ==
  ASSUME RouteAssumption, RouteTypeOK, NEW s \in Subscribers, sends < MaxSends,
         NEW a, a = [proc |-> s[1], id |-> s[2], via |-> None],
         NEW k \in SendMasks, NEW to \in Address \union {None}, NEW n, n = sends + 1
  PROVE  [publisher |-> 0, mask |-> k, n |-> n, from |-> a, to |-> to] \in RouteMessage
<1>1. s[1] \in Procs /\ s[2] \in 1..Base - 1
  BY DEF RouteAssumption
<1>2. a \in Address
  BY <1>1 DEF Address
<1>3. n \in 1..MaxSends
  BY DEF RouteTypeOK, RouteAssumption
<1>4. QED
  BY <1>2, <1>3 DEF RouteMessage

LEMMA SendKeeps ==
  ASSUME RouteAssumption, RouteInv, NEW s \in Subscribers, NEW mask \in SendMasks,
         Send(s, mask)
  PROVE  RouteInv'
<1>1. PICK a : a = [proc |-> s[1], id |-> s[2], via |-> None]
  OBVIOUS
<1>2. PICK n : n = sends + 1
  OBVIOUS
<1>3. PICK m : m = [publisher |-> 0, mask |-> mask, n |-> n, from |-> a, to |-> None]
  OBVIOUS
<1>4. /\ sends < MaxSends /\ sends' = sends + 1
      /\ PublishIn(s[1], s[2], m, 0)
      /\ UNCHANGED <<linkVars, idVars>>
  <2>1. /\ sends < MaxPublishes /\ sends' = sends + 1
        /\ PublishIn(s[1], s[2], m, 0)
        /\ UNCHANGED <<linkVars, idVars>>
    BY <1>1, <1>2, <1>3 DEF Send
  <2>2. MaxPublishes <= MaxSends /\ MaxPublishes \in Nat /\ MaxSends \in Nat /\ sends \in Nat
    BY DEF RouteInv, RouteTypeOK, RouteAssumption
  <2>3. QED
    BY <2>1, <2>2
<1>5. 0 % Base = 0 /\ 0 \div Base = 0 /\ Base \in Nat
  <2>1. Base \in Nat /\ 0 \in 0..Base - 1
    BY BaseFact
  <2>2. QED
    BY <2>1, OnePart
<1>6. /\ m \in RouteMessage
      /\ m.n = n /\ m.from = a /\ m.to = None
  BY <1>1, <1>2, <1>3, <1>4, Named DEF RouteInv
<1>7. /\ Spoken(s, m, 0)
  BY <1>1, <1>2, <1>4, <1>6 DEF Spoken
<1>8. PICK sent : sent = Handed(s[2], m, 0)
  OBVIOUS
<1>9. s[2] \in Nat /\ s[1] \in Procs /\ \A t \in Subscribers : t[2] # Proxy
  BY DEF RouteAssumption
<1>10. sent.publisher = s[2] /\ SameSend(sent, m)
  <2>1. Addressed(sent, s[2], 0) /\ SameSend(sent, m)
    BY <1>6, <1>8, <1>9, HandedTypes
  <2>2. QED
    BY <1>5, <1>9, <2>1 DEF Addressed
<1>11. /\ sent.from.proc = s[1] /\ sent.from.id = s[2] /\ sent.from.via = None
       /\ sent.to = None /\ sent.publisher = s[2]
  BY <1>1, <1>6, <1>10 DEF SameSend
<1>12. Understood(s, sent, 0)
  BY <1>11 DEF Understood, Received, Outward, Site
<1>13. QED
  BY <1>4, <1>5, <1>7, <1>8, <1>12, Speaks

LEMMA ReplyKeeps ==
  ASSUME RouteAssumption, RouteInv, NEW s \in Subscribers, NEW i \in DOMAIN got[s],
         Reply(s, got[s][i])
  PROVE  RouteInv'
<1>0. PICK o : o = got[s][i]
  OBVIOUS
<1>1. PICK a : a = [proc |-> s[1], id |-> s[2], via |-> None]
  OBVIOUS
<1>2. PICK n : n = sends + 1
  OBVIOUS
<1>3. PICK m : m = [publisher |-> 0, mask |-> 0, n |-> n, from |-> a, to |-> o.from]
  OBVIOUS
<1>4. /\ sends < MaxSends /\ sends' = sends + 1
      /\ PublishIn(s[1], s[2], m, o.publisher)
      /\ UNCHANGED <<linkVars, idVars>>
  BY <1>0, <1>1, <1>2, <1>3 DEF Reply
<1>5. Fits(<<"got", s>>, o)
  <2>1. PICK B : B = Boxes
    OBVIOUS
  <2>2. B[<<"got", s>>] = got[s] /\ <<"got", s>> \in Places
    BY <2>1, PlaceFacts DEF Boxes
  <2>3. Each(B)
    BY <2>1 DEF RouteInv
  <2>4. QED
    BY <1>0, <2>2, <2>3 DEF Each
<1>6. /\ o \in RouteMessage /\ Received(<<"got", s>>, o) /\ Sound(o.from)
  BY <1>5 DEF Fits
<1>7. /\ o.publisher \in Nat /\ o.from \in Address /\ o.from # None
      /\ o.from.id \in 1..Base - 1 /\ o.from.via \in Conns \union {None}
  <2>1. None \notin Address
    BY DEF RouteAssumption
  <2>2. QED
    BY <1>6, <2>1, MessageTypes
<1>8. m \in RouteMessage /\ m.n = n /\ m.from = a /\ m.to = o.from
  <2>1. 0 \in SendMasks /\ o.from \in Address \union {None} /\ RouteTypeOK
    BY <1>7 DEF RouteAssumption, RouteInv
  <2>2. m \in RouteMessage
    BY <1>1, <1>2, <1>3, <1>4, <2>1, Named
  <2>3. QED
    BY <1>3, <2>2
<1>9. PICK receiver \in Nat : receiver = o.publisher
  BY <1>7
<1>10. PICK sent : sent = Handed(s[2], m, receiver)
  OBVIOUS
<1>11. s[2] \in Nat /\ s[1] \in Procs /\ \A t \in Subscribers : t[2] # Proxy
  BY DEF RouteAssumption
<1>12. Proxy \in 1..Base - 1 /\ Base \in Nat /\ MaxId < Base /\ MaxId \in Nat
  BY DEF RouteAssumption
<1>13. Addressed(sent, s[2], receiver) /\ SameSend(sent, m)
  BY <1>8, <1>10, <1>11, HandedTypes
<1>14. /\ sent.from.proc = s[1] /\ sent.from.id = s[2] /\ sent.from.via = None
       /\ sent.to = o.from
  BY <1>1, <1>8, <1>13 DEF SameSend
<1>15. CASE o.from.via = None
  <2>1. /\ o.from.proc = s[1] /\ receiver = o.from.id
    BY <1>6, <1>9, <1>15 DEF Received, Site
  <2>2. receiver \in 1..Base - 1 /\ receiver # Proxy
    BY <1>6, <1>7, <2>1 DEF Sound
  <2>3. receiver % Base = receiver /\ receiver \div Base = 0
    <3>1. receiver \in 0..Base - 1
      BY <2>2
    <3>2. QED
      BY <3>1, OnePart
  <2>4. sent.publisher = s[2]
    BY <1>11, <1>12, <1>13, <2>3 DEF Addressed
  <2>5. Understood(s, sent, receiver % Base)
    <3>1. ASSUME NEW t \in Subscribers, t[1] = s[1], t[2] # s[2], t[2] = receiver
          PROVE  Received(<<"got", t>>, sent)
      BY <1>14, <2>1, <2>4, <3>1 DEF Received, Site
    <3>2. receiver # 0
      BY <2>2
    <3>3. QED
      BY <2>2, <2>3, <3>1, <3>2 DEF Understood
  <2>6. Spoken(s, m, receiver % Base)
    BY <1>1, <1>2, <1>4, <1>6, <1>8, <2>2, <2>3 DEF Spoken
  <2>7. QED
    BY <1>4, <1>9, <1>10, <2>5, <2>6, Speaks
<1>16. CASE o.from.via # None
  <2>1. PICK fd \in 1..MaxId :
          Names(fd, o.from.via) /\ receiver = Parts(o.from.id, fd, Proxy)
    BY <1>6, <1>9, <1>16 DEF Received
  <2>2. PICK id \in 1..Base - 1 : id = o.from.id
    BY <1>7
  <2>3. fd \in 0..Base - 1 /\ id \in Nat /\ Proxy \in 0..Base - 1
    BY <1>12, <2>2
  <2>4. receiver % Base = Proxy /\ receiver \div Base = id * Base + fd
    <3>1. receiver = Parts(id, fd, Proxy)
      BY <2>1, <2>2
    <3>2. QED
      BY <2>3, <3>1, ThreeParts
  <2>5. sent.publisher = Parts(id, fd, s[2])
    BY <1>13, <2>4 DEF Parts, Addressed
  <2>6. Outward(<<"posted", s[1]>>, sent)
    <3>1. sent.to # None /\ sent.to.via # None /\ sent.to.id = id
          /\ Names(fd, sent.to.via)
      BY <1>7, <1>14, <1>16, <2>1, <2>2
    <3>2. QED
      BY <1>14, <2>5, <3>1 DEF Outward, Site
  <2>7. Understood(s, sent, receiver % Base)
    BY <1>11, <1>12, <2>4, <2>6 DEF Understood
  <2>8. Spoken(s, m, receiver % Base)
    BY <1>1, <1>2, <1>4, <1>6, <1>8, <1>12, <2>4 DEF Spoken
  <2>9. QED
    BY <1>4, <1>9, <1>10, <2>7, <2>8, Speaks
<1>17. QED
  BY <1>15, <1>16

-----------------------------------------------------------------------------
(* A message goes from one place to others. *)

\* h, which was at x, is beside what there is of its send in Q.
Clear(x, h, Q) ==
  \A y \in Places : \A j \in DOMAIN Q[y] : Q[y][j].n = h.n => Beside(x, h, y, Q[y][j])

LEMMA TakenOut ==
  ASSUME RouteInv, NEW x \in Places, Box(x) # <<>>, NEW h, h = Head(Box(x)),
         NEW Q, Q = [y \in Places |-> IF y = x THEN Tail(Box(y)) ELSE Box(y)]
  PROVE  /\ Fits(x, h) /\ Clear(x, h, Q)
         /\ \A y \in Places : Shorter(Boxes[y], Q[y])
<1>1. PICK B : B = Boxes
  OBVIOUS
<1>2. /\ \A y \in Places : B[y] = Box(y) /\ B[y] \in Seq(RouteMessage)
      /\ Each(B) /\ Two(B)
  BY <1>1, BoxTypes DEF RouteInv
<1>3. B[x] # <<>> /\ h = Head(B[x]) /\ Q[x] = Tail(B[x])
  BY <1>2
<1>4. Fits(x, h)
  <2>1. 1 \in DOMAIN B[x] /\ h = B[x][1]
    BY <1>2, <1>3, Behind
  <2>2. QED
    BY <1>2, <2>1 DEF Each
<1>5. \A y \in Places : Shorter(B[y], Q[y])
  BY <1>2, <1>3 DEF Shorter
<1>6. ASSUME NEW y \in Places, NEW j \in DOMAIN Q[y], Q[y][j].n = h.n
      PROVE  Beside(x, h, y, Q[y][j])
  <2>1. \A z \in Places \ {x} : Shorter(B[z], Q[z])
    BY <1>5
  <2>2. \A z \in Places : B[z] \in Seq(RouteMessage)
    BY <1>2
  <2>3. Two(B)
    BY <1>2
  <2>4. QED
    BY <1>3, <1>6, <2>1, <2>2, <2>3, Left
<1>7. QED
  BY <1>1, <1>4, <1>5, <1>6 DEF Clear

\* The proxy hands what it has heard to its connection, or drops it.
LEMMA OnLocalPublishKeeps ==
  ASSUME RouteAssumption, RouteInv, NEW p \in Procs, OnLocalPublish(p)
  PROVE  RouteInv'
<1>t. /\ RouteTypeOK /\ IdsInv /\ Links
      /\ posted \in [Procs -> Seq(RouteMessage)] /\ up \in [Conns -> Seq(RouteMessage)]
      /\ sends \in Nat
  BY DEF RouteInv, RouteTypeOK, RouteAssumption
<1>u. /\ posted[p] # <<>> /\ posted' = [posted EXCEPT ![p] = Tail(@)]
      /\ up' = IF peer[p] = None THEN up
               ELSE [up EXCEPT ![peer[p]] = Append(@, Head(posted[p]))]
      /\ UNCHANGED <<peer, made, sessions, interest, down, idVars, next, free, held, got, sends>>
  BY DEF OnLocalPublish, idVars
<1>1. PICK x : x = <<"posted", p>>
  OBVIOUS
<1>2. x \in Places /\ Box(x) = posted[p] /\ Box(x)' = Tail(posted[p])
  BY <1>t, <1>u, <1>1, PlaceFacts
<1>3. PICK h : h = Head(Box(x))
  OBVIOUS
<1>4. PICK Q : Q = [y \in Places |-> IF y = x THEN Tail(Box(y)) ELSE Box(y)]
  OBVIOUS
<1>5. /\ Fits(x, h) /\ Clear(x, h, Q)
      /\ \A y \in Places : Shorter(Boxes[y], Q[y])
  BY <1>2, <1>3, <1>4, <1>u, TakenOut
<1>6. h \in RouteMessage
  BY <1>5 DEF Fits
<1>7. RouteTypeOK'
  <2>1. Tail(posted[p]) \in Seq(RouteMessage)
    BY <1>t, <1>u, HeadTailProperties
  <2>2. posted' \in [Procs -> Seq(RouteMessage)]
    BY <1>t, <1>u, <2>1
  <2>3. up' \in [Conns -> Seq(RouteMessage)]
    BY <1>t, <1>u, <1>2, <1>3, <1>6, AppendProperties
  <2>4. QED
    BY <1>t, <1>u, <2>2, <2>3 DEF RouteTypeOK, PoolTypeOK
<1>8. IdsInv' /\ Links' /\ Forward
  <2>1. Forward
    BY <1>t, <1>u, StillForward
  <2>2. IdsInv'
    BY <1>t, <1>u, StillIds
  <2>3. Links'
    BY <1>t, <1>u, StillLinks DEF Links
  <2>4. QED
    BY <2>1, <2>2, <2>3
<1>9. \A y \in Places : y[1] # "up" => Box(y)' = Q[y]
  <2>1. ASSUME NEW y \in Places, y[1] # "up" PROVE Box(y)' = Q[y]
    <3>1. CASE \E q \in Procs : y = <<"posted", q>>
      BY <1>t, <1>u, <1>1, <1>4, <3>1, PlaceFacts
    <3>2. CASE \E c \in Conns : y = <<"down", c>>
      BY <1>u, <1>1, <1>4, <3>2, PlaceFacts
    <3>3. CASE \E s \in Subscribers : y = <<"got", s>>
      BY <1>u, <1>1, <1>4, <3>3, PlaceFacts
    <3>4. QED
      BY <2>1, <3>1, <3>2, <3>3, PlaceCases
  <2>2. QED
    BY <2>1
<1>10. PICK B : B = Boxes'
  OBVIOUS
<1>11. \A y \in Places : B[y] = Box(y)'
  BY <1>10 DEF Boxes
<1>12. CASE peer[p] = None
  <2>1. \A y \in Places : B[y] = Q[y]
    <3>1. ASSUME NEW y \in Places, y[1] = "up" PROVE Box(y)' = Q[y]
      <4>1. PICK c \in Conns : y = <<"up", c>>
        BY <3>1, PlaceCases
      <4>2. QED
        BY <1>u, <1>1, <1>4, <1>12, <4>1, PlaceFacts
    <3>2. QED
      BY <1>9, <1>11, <3>1
  <2>2. \A y \in Places : Shorter(Boxes[y], Boxes'[y])
    BY <1>5, <1>10, <2>1
  <2>3. QED
    BY <1>7, <1>8, <2>2, Leaving DEF RouteInv
<1>13. CASE peer[p] # None
  <2>1. PICK d : d = peer[p]
    OBVIOUS
  <2>2. d \in Conns /\ d[1] = p
    BY <1>t, <1>13, <2>1 DEF Links, RouteTypeOK
  <2>3. PICK z : z = <<"up", d>>
    OBVIOUS
  <2>4. z \in Places /\ Site(z) = p
    BY <2>2, <2>3, PlaceFacts
  <2>5. Grown(Q, B, {z}, h)
    <3>1. ASSUME NEW y \in Places, y[1] = "up"
          PROVE Box(y)' = IF y = z THEN Append(Q[y], h) ELSE Q[y]
      <4>1. PICK c \in Conns : y = <<"up", c>>
        BY <3>1, PlaceCases
      <4>2. Box(y) = up[c] /\ Box(y)' = up'[c] /\ Q[y] = up[c]
        BY <1>1, <1>4, <4>1, PlaceFacts
      <4>3. up' = [up EXCEPT ![d] = Append(@, h)]
        BY <1>u, <1>2, <1>3, <1>13, <2>1
      <4>4. up'[c] = IF c = d THEN Append(up[c], h) ELSE up[c]
        BY <1>t, <4>3
      <4>5. y = z <=> c = d
        BY <2>3, <4>1
      <4>6. QED
        BY <4>2, <4>4, <4>5
    <3>2. ASSUME NEW y \in Places, y[1] # "up" PROVE y # z
      BY <2>3, <3>2
    <3>3. QED
      BY <1>9, <1>11, <3>1, <3>2 DEF Grown
  <2>6. Room(Q, {z}, h)
    <3>1. ASSUME NEW y \in Places, NEW j \in DOMAIN Q[y], Q[y][j].n = h.n
          PROVE  Beside(z, h, y, Q[y][j])
      <4>1. Beside(x, h, y, Q[y][j])
        BY <1>5, <3>1 DEF Clear
      <4>2. QED
        BY <1>1, <2>3, <4>1 DEF Beside
    <3>2. QED
      BY <3>1 DEF Room
  <2>7. Fits(z, h)'
    <3>1. Fits(z, h)
      <4>1. Outward(x, h)
        BY <1>1, <1>5 DEF Fits
      <4>2. Outward(z, h)
        BY <1>1, <2>3, <2>4, <4>1 DEF Outward, Site
      <4>3. QED
        BY <1>5, <2>3, <4>2 DEF Fits
    <3>2. sessions \subseteq made
      BY <1>t DEF Links
    <3>3. QED
      BY <1>t, <1>7, <1>8, <2>4, <3>1, <3>2, ForwardFits
  <2>8. Each(Boxes)' /\ Two(Boxes)'
    BY <1>5, <1>6, <1>7, <1>8, <1>10, <2>5, <2>6, <2>7, Coming
  <2>9. QED
    BY <1>7, <1>8, <2>8 DEF RouteInv
<1>14. QED
  BY <1>12, <1>13

\* The master: a publish goes to other sessions, a reply to the one it names.
LEMMA IdOwner ==
  ASSUME RouteAssumption, RouteTypeOK, IdsInv, Links,
         NEW c \in sessions, NEW d \in sessions, held[c] = held[d]
  PROVE  c = d
<1>1. c \in Owners /\ d \in Owners /\ held[c] # 0
  BY DEF RouteAssumption, RouteTypeOK, Links
<1>2. QED
  BY <1>1 DEF IdsInv, IdsDiffer

LEMMA TargetFacts ==
  ASSUME RouteAssumption, RouteTypeOK, Links, NEW c, NEW mask \in Nat, NEW S \in Targets(c, mask)
  PROVE  /\ S \subseteq sessions \ {c}
         /\ mask > 0 => \A d, e \in S : d = e
<1> DEFINE others == interest \ {c}
<1>1. others \subseteq sessions /\ IsFiniteSet(others)
  BY FS_Subset DEF RouteTypeOK, Links
<1>2. CASE mask > 0 /\ Cardinality(others) > 1
  <2>1. S \in {{d} : d \in others}
    BY <1>2 DEF Targets
  <2>2. QED
    BY <1>1, <2>1
<1>3. CASE ~(mask > 0 /\ Cardinality(others) > 1)
  <2>1. S = others
    BY <1>3 DEF Targets
  <2>2. ASSUME mask > 0, NEW d \in S, NEW e \in S, d # e PROVE FALSE
    <3>1. {d, e} \subseteq others /\ IsFiniteSet({d, e})
      BY <1>1, <2>1, FS_Subset
    <3>2. Cardinality({d, e}) <= Cardinality(others)
      BY <1>1, <3>1, FS_Subset
    <3>3. Cardinality({d, e}) = 2
      <4>1. Cardinality({d}) = 1 /\ IsFiniteSet({d})
        BY FS_Singleton
      <4>2. Cardinality({d} \union {e}) = 2
        <5>1. e \notin {d}
          BY <2>2
        <5>2. Cardinality({d} \union {e}) = Cardinality({d}) + 1
          BY <4>1, <5>1, FS_AddElement
        <5>3. 1 + 1 = 2
          OBVIOUS
        <5>4. QED
          BY <4>1, <5>2, <5>3, Zenon
      <4>3. {d, e} = {d} \union {e}
        OBVIOUS
      <4>4. QED
        BY <4>2, <4>3
    <3>4. Cardinality(others) \in Nat
      BY <1>1, FS_CardinalityType
    <3>5. QED
      BY <1>3, <2>2, <3>2, <3>3, <3>4
  <2>3. QED
    BY <1>1, <2>1, <2>2
<1>4. QED
  BY <1>2, <1>3

\* What the master sends, to whom, and that it leads where it should.
Sent(c, h, S, sent) ==
  /\ sent \in RouteMessage
  /\ sent.n = h.n /\ sent.mask = h.mask /\ sent.to = h.to
  /\ sent.from.proc = h.from.proc /\ sent.from.id = h.from.id /\ sent.from.via = c
  /\ S \subseteq sessions
  /\ Single(h) => \A d, e \in S : d = e
  /\ \A d \in S : peer[d[1]] = d => Inward(<<"down", d>>, sent)

LEMMA MasterSends ==
  ASSUME RouteAssumption, RouteInv, NEW c \in sessions, up[c] # <<>>,
         NEW h, h = Head(up[c]), Fits(<<"up", c>>, h), MasterReceive(c)
  PROVE  \E S, sent : SendTo(S, sent) /\ Sent(c, h, S, sent)
<1>t. /\ RouteTypeOK /\ IdsInv /\ Links /\ c \in Conns
      /\ Base \in Nat /\ MaxId \in Nat /\ MaxId < Base
      /\ None \notin Conns /\ None \notin Address
  BY DEF RouteInv, RouteTypeOK, RouteAssumption
<1>1. PICK k \in 1..MaxId : k = held[c]
  BY <1>t DEF RouteTypeOK, PoolTypeOK, Links, RouteAssumption
<1>2. /\ h \in RouteMessage /\ Outward(<<"up", c>>, h)
      /\ Sound(h.from) /\ (h.to # None => Sound(h.to))
  BY DEF Fits
<1>3. /\ h.publisher \in Nat /\ h.mask \in Nat
      /\ h.from \in Address /\ h.from.id \in 1..Base - 1 /\ h.from.proc = c[1]
      /\ h.to # None => h.to \in Address /\ h.to.id \in 1..Base - 1
                        /\ h.to.via \in Conns \union {None}
  BY <1>2, MessageTypes DEF Outward, Site
<1>4. PICK id \in 1..Base - 1 : id = h.from.id
  BY <1>3
<1>5. Names(k, c)
  BY <1>1 DEF Names
<1>6. PICK x : x = h.publisher
  OBVIOUS
<1>7. k \in 0..Base - 1 /\ id \in Nat /\ id \in 0..Base - 1
  BY <1>1, <1>t, <1>4
<1>m. \/ x \div Base = 0
         /\ \E S \in Targets(c, h.mask) :
              SendTo(S, Stamp(h, x * Base + k, c))
      \/ x \div Base # 0
         /\ SendTo({d \in sessions : held[d] = (x \div Base) % Base},
                   Stamp(h, WithSession(x, k), c))
  BY <1>1, <1>6 DEF MasterReceive, Stamp
<1>8. CASE h.to = None
  <2>1. x = id
    BY <1>2, <1>4, <1>6, <1>8 DEF Outward
  <2>2. x \div Base = 0
    BY <1>7, <2>1, OnePart
  <2>3. PICK y \in Nat : y = x * Base + k
    BY <1>7, <1>t, <2>1, TwoParts
  <2>4. PICK sent : sent = Stamp(h, y, c)
    OBVIOUS
  <2>5. PICK S \in Targets(c, h.mask) : SendTo(S, sent)
    BY <1>m, <2>2, <2>3, <2>4
  <2>6. /\ sent \in RouteMessage /\ sent.publisher = y
        /\ sent.n = h.n /\ sent.mask = h.mask /\ sent.to = h.to
        /\ sent.from.proc = h.from.proc /\ sent.from.id = h.from.id /\ sent.from.via = c
    <3>1. sent \in RouteMessage /\ sent.publisher = y /\ StampedBy(c, sent, h)
      BY <1>2, <1>t, <2>4, Stamped
    <3>2. QED
      BY <3>1 DEF StampedBy
  <2>7. /\ S \subseteq sessions \ {c}
        /\ h.mask > 0 => \A d, e \in S : d = e
    BY <1>3, <1>t, TargetFacts
  <2>8. ASSUME NEW d \in S, peer[d[1]] = d PROVE Inward(<<"down", d>>, sent)
    <3>1. Current(sent) => peer[c[1]] = c
      BY <1>3, <2>6 DEF Current
    <3>2. Current(sent) => d[1] # c[1]
      BY <2>7, <2>8, <3>1
    <3>3. sent.publisher = sent.from.id * Base + k
      BY <1>4, <2>1, <2>3, <2>6
    <3>4. c # None /\ sent.to = None
      BY <1>8, <1>t, <2>6
    <3>5. QED
      BY <1>1, <1>3, <1>5, <2>6, <3>2, <3>3, <3>4 DEF Inward, Site
  <2>9. Single(h) => h.mask > 0
    BY <1>8 DEF Single
  <2>10. Sent(c, h, S, sent)
    BY <2>6, <2>7, <2>8, <2>9 DEF Sent
  <2>11. QED
    BY <2>5, <2>10
<1>9. CASE h.to # None
  <2>1. PICK fd \in 1..MaxId :
          Names(fd, h.to.via) /\ h.publisher = Parts(h.to.id, fd, h.from.id)
    BY <1>2, <1>9 DEF Outward
  <2>2. PICK a \in 1..Base - 1 : a = h.to.id
    BY <1>3, <1>9
  <2>3. x = Parts(a, fd, id)
    BY <1>4, <1>6, <2>1, <2>2
  <2>4. fd \in 0..Base - 1 /\ a \in Nat /\ a # 0
    BY <1>t, <2>2
  <2>5. /\ x \div Base # 0 /\ (x \div Base) % Base = fd
        /\ x % Base = id /\ x \div (Base * Base) = a
    <3>1. /\ Parts(a, fd, id) \div Base = a * Base + fd
          /\ a * Base + fd # 0
          /\ (Parts(a, fd, id) \div Base) % Base = fd
          /\ Parts(a, fd, id) % Base = id
          /\ Parts(a, fd, id) \div (Base * Base) = a
      BY <1>7, <2>4, ThreeParts
    <3>2. QED
      BY <2>3, <3>1
  <2>6. WithSession(x, k) = Parts(a, k, id) /\ WithSession(x, k) \in Nat
    <3>1. /\ Parts(a, k, id) = a * Base * Base + k * Base + id
          /\ Parts(a, k, id) \in Nat
      BY <1>7, <2>4, ThreeParts
    <3>2. QED
      BY <2>5, <3>1 DEF WithSession
  <2>7. PICK y \in Nat : y = WithSession(x, k)
    BY <2>6
  <2>8. PICK sent : sent = Stamp(h, y, c)
    OBVIOUS
  <2>9. PICK S : S = {d \in sessions : held[d] = fd}
    OBVIOUS
  <2>10. SendTo(S, sent)
    BY <1>m, <2>5, <2>7, <2>8, <2>9
  <2>11. /\ sent \in RouteMessage /\ sent.publisher = y
         /\ sent.n = h.n /\ sent.mask = h.mask /\ sent.to = h.to
         /\ sent.from.proc = h.from.proc /\ sent.from.id = h.from.id /\ sent.from.via = c
    <3>1. sent \in RouteMessage /\ sent.publisher = y /\ StampedBy(c, sent, h)
      BY <1>2, <1>t, <2>8, Stamped
    <3>2. QED
      BY <3>1 DEF StampedBy
  <2>12. S \subseteq sessions /\ \A d, e \in S : d = e
    BY <1>t, <2>9, IdOwner
  <2>13. ASSUME NEW d \in S PROVE Inward(<<"down", d>>, sent)
    <3>1. sent.to # None /\ sent.to.via # None /\ sent.to.id = a
      BY <1>2, <1>9, <2>2, <2>11 DEF Outward
    <3>2. sent.to.proc = d[1] \/ Ended(sent.to.via)
      <4>1. CASE Ended(h.to.via)
        BY <2>11, <4>1
      <4>2. CASE h.to.via \in sessions /\ held[h.to.via] = fd
        <5>1. d = h.to.via
          BY <1>t, <2>9, <4>2, IdOwner
        <5>2. QED
          BY <1>2, <1>9, <2>11, <3>1, <5>1 DEF Sound
      <4>3. QED
        BY <2>1, <4>1, <4>2 DEF Names
    <3>3. sent.publisher = Parts(sent.to.id, k, sent.from.id)
      BY <1>4, <2>6, <2>7, <2>11, <3>1
    <3>4. QED
      BY <1>1, <1>5, <1>t, <2>11, <3>1, <3>2, <3>3 DEF Inward, Site
  <2>14. Sent(c, h, S, sent)
    BY <2>11, <2>12, <2>13 DEF Sent
  <2>15. QED
    BY <2>10, <2>14
<1>10. QED
  BY <1>8, <1>9

LEMMA MasterReceiveKeeps ==
  ASSUME RouteAssumption, RouteInv, NEW c \in Conns, MasterReceive(c)
  PROVE  RouteInv'
<1>t. /\ RouteTypeOK /\ IdsInv /\ Links
      /\ up \in [Conns -> Seq(RouteMessage)] /\ down \in [Conns -> Seq(RouteMessage)]
      /\ sessions \subseteq Conns /\ sends \in Nat /\ None \notin Conns
  BY DEF RouteInv, RouteTypeOK, RouteAssumption
<1>u. /\ c \in sessions /\ up[c] # <<>> /\ up' = [up EXCEPT ![c] = Tail(@)]
      /\ UNCHANGED <<peer, made, sessions, interest, idVars, next, free, held, posted, got, sends>>
  BY DEF MasterReceive, idVars
<1>1. PICK x : x = <<"up", c>>
  OBVIOUS
<1>2. x \in Places /\ Box(x) = up[c] /\ Box(x)' = Tail(up[c]) /\ Site(x) = c[1]
  BY <1>t, <1>u, <1>1, PlaceFacts
<1>3. PICK h : h = Head(up[c])
  OBVIOUS
<1>4. PICK Q : Q = [y \in Places |-> IF y = x THEN Tail(Box(y)) ELSE Box(y)]
  OBVIOUS
<1>5. /\ Fits(x, h) /\ Clear(x, h, Q)
      /\ \A y \in Places : Shorter(Boxes[y], Q[y])
  BY <1>2, <1>3, <1>4, <1>u, TakenOut
<1>6. PICK S, sent : SendTo(S, sent) /\ Sent(c, h, S, sent)
  BY <1>1, <1>3, <1>5, <1>u, MasterSends
<1>7. PICK D : D = {d \in S : peer[d[1]] = d}
  OBVIOUS
<1>8. /\ sent \in RouteMessage /\ D \subseteq Conns
      /\ \A d \in Conns : down'[d] = IF d \in D THEN Append(down[d], sent) ELSE down[d]
      /\ down' = [d \in Conns |-> IF d \in D THEN Append(down[d], sent) ELSE down[d]]
  BY <1>6, <1>7, <1>t DEF SendTo, Sent
<1>9. RouteTypeOK'
  <2>1. Tail(up[c]) \in Seq(RouteMessage)
    BY <1>t, <1>u, HeadTailProperties
  <2>2. up' \in [Conns -> Seq(RouteMessage)]
    BY <1>t, <1>u, <2>1
  <2>3. down' \in [Conns -> Seq(RouteMessage)]
    BY <1>t, <1>8, AppendProperties
  <2>4. QED
    BY <1>t, <1>u, <2>2, <2>3 DEF RouteTypeOK, PoolTypeOK
<1>10. IdsInv' /\ Links' /\ Forward
  <2>1. Forward
    BY <1>t, <1>u, StillForward
  <2>2. IdsInv'
    BY <1>t, <1>u, StillIds
  <2>3. \A d \in Conns : down'[d] # <<>> => peer[d[1]] = d
    BY <1>t, <1>7, <1>8 DEF Links
  <2>4. Links'
    BY <1>t, <1>u, <2>3, StillLinks
  <2>5. QED
    BY <2>1, <2>2, <2>4
<1>11. PICK X : X = {"down"} \X D
  OBVIOUS
<1>12. PICK B : B = Boxes'
  OBVIOUS
<1>13. \A y \in Places : B[y] = Box(y)'
  BY <1>12 DEF Boxes
<1>14. Grown(Q, B, X, sent)
  <2>1. ASSUME NEW y \in Places
        PROVE  Box(y)' = IF y \in X THEN Append(Q[y], sent) ELSE Q[y]
    <3>1. CASE \E q \in Procs : y = <<"posted", q>>
      BY <1>u, <1>1, <1>4, <1>11, <3>1, PlaceFacts
    <3>2. CASE \E d \in Conns : y = <<"up", d>>
      <4>1. PICK d \in Conns : y = <<"up", d>>
        BY <3>2
      <4>2. Box(y) = up[d] /\ Box(y)' = up'[d] /\ y \notin X
        BY <1>11, <4>1, PlaceFacts
      <4>3. up'[d] = IF d = c THEN Tail(up[d]) ELSE up[d]
        BY <1>t, <1>u
      <4>4. y = x <=> d = c
        BY <1>1, <4>1
      <4>5. QED
        BY <1>4, <4>2, <4>3, <4>4
    <3>3. CASE \E d \in Conns : y = <<"down", d>>
      <4>1. PICK d \in Conns : y = <<"down", d>>
        BY <3>3
      <4>2. Box(y) = down[d] /\ Box(y)' = down'[d] /\ y # x /\ Q[y] = down[d]
        BY <1>1, <1>4, <4>1, PlaceFacts
      <4>3. y \in X <=> d \in D
        BY <1>11, <4>1
      <4>4. QED
        BY <1>8, <4>2, <4>3
    <3>4. CASE \E s \in Subscribers : y = <<"got", s>>
      BY <1>u, <1>1, <1>4, <1>11, <3>4, PlaceFacts
    <3>5. QED
      BY <3>1, <3>2, <3>3, <3>4, PlaceCases
  <2>2. QED
    BY <1>13, <2>1 DEF Grown
<1>15. /\ h \in RouteMessage /\ h.from.via = None
       /\ Sound(h.from) /\ (h.to # None => Sound(h.to))
       /\ h.n <= sends /\ h.from.proc = c[1]
  BY <1>1, <1>2, <1>5 DEF Fits, Outward
<1>16. /\ sent.n = h.n /\ sent.mask = h.mask /\ sent.to = h.to
       /\ sent.from.proc = h.from.proc /\ sent.from.id = h.from.id /\ sent.from.via = c
       /\ Single(h) => \A d, e \in S : d = e
       /\ \A d \in D : Inward(<<"down", d>>, sent)
  BY <1>6, <1>7 DEF Sent
<1>17. Single(sent) <=> Single(h)
  BY <1>16 DEF Single
<1>18. Room(Q, X, sent)
  <2>1. ASSUME NEW d \in D, NEW y \in Places, NEW j \in DOMAIN Q[y], Q[y][j].n = sent.n
        PROVE  Beside(<<"down", d>>, sent, y, Q[y][j])
    <3>1. PICK o : o = Q[y][j]
      OBVIOUS
    <3>2. Beside(x, h, y, o)
      BY <1>5, <1>16, <2>1, <3>1 DEF Clear
    <3>3. /\ ~Single(h) /\ ~Single(o) /\ h.from.proc = o.from.proc
          /\ y[1] = "got" /\ o.from.via = None
      BY <1>1, <3>2 DEF Beside
    <3>4. Beside(<<"down", d>>, sent, y, o)
      BY <1>16, <1>17, <3>3 DEF Beside
    <3>5. QED
      BY <3>1, <3>4
  <2>2. ASSUME NEW d \in D, NEW e \in D, d # e
        PROVE  Beside(<<"down", d>>, sent, <<"down", e>>, sent)
    <3>1. Site(<<"down", d>>) # Site(<<"down", e>>)
      BY <1>7, <2>2 DEF Site
    <3>2. ~Single(sent)
      BY <1>7, <1>16, <1>17, <2>2
    <3>3. QED
      BY <3>1, <3>2 DEF Beside
  <2>3. \A y \in X : \E d \in D : y = <<"down", d>>
    BY <1>11
  <2>4. QED
    BY <2>1, <2>2, <2>3 DEF Room
<1>19. ASSUME NEW y \in Places \intersect X PROVE Fits(y, sent)'
  <2>1. PICK d \in D : y = <<"down", d>>
    BY <1>11
  <2>2. Inward(y, sent)
    BY <1>16, <2>1
  <2>3. Sound(sent.from) /\ (sent.to # None => Sound(sent.to))
    BY <1>15, <1>16 DEF Sound
  <2>4. Fits(y, sent)
    BY <1>8, <1>15, <1>16, <2>1, <2>2, <2>3 DEF Fits
  <2>5. sessions \subseteq made
    BY <1>t DEF Links
  <2>6. QED
    BY <1>t, <1>9, <1>10, <2>4, <2>5, ForwardFits
<1>20. Each(Boxes)' /\ Two(Boxes)'
  BY <1>5, <1>8, <1>9, <1>10, <1>12, <1>14, <1>18, <1>19, Coming
<1>21. QED
  BY <1>9, <1>10, <1>20 DEF RouteInv

\* The proxy hands to its process what has come: an address to reply to has the
\* proxy below, a reply has the one it is for.
LEMMA ArrivingPublish ==
  ASSUME RouteAssumption, NEW id \in 1..Base - 1, NEW fd \in 0..Base - 1
  PROVE  Arriving(id * Base + fd) = Parts(id, fd, 0)
<1>1. id \in Nat /\ id < Base /\ Base \in Nat
  BY BaseFact
<1>2. (id * Base + fd) \div (Base * Base) = 0
  BY <1>1, TwoParts
<1>3. Arriving(id * Base + fd) = (id * Base + fd) * Base
  BY <1>2 DEF Arriving
<1>4. id * Base + fd \in Nat /\ (id * Base + fd) * Base \in Nat
  BY <1>1
<1>5. (id * Base + fd) * Base + 0 = (id * Base + fd) * Base
  BY <1>4
<1>6. QED
  BY <1>3, <1>5 DEF Parts

LEMMA ArrivingReply ==
  ASSUME RouteAssumption, NEW a \in 1..Base - 1, NEW fd \in 0..Base - 1,
         NEW id \in 1..Base - 1
  PROVE  Arriving(Parts(a, fd, id)) = Parts(id, fd, a)
<1>1. /\ a \in Nat /\ a > 0 /\ id \in Nat /\ id \in 0..Base - 1 /\ a \in 0..Base - 1
  BY BaseFact
<1>2. /\ Parts(a, fd, id) \div (Base * Base) = a
      /\ (Parts(a, fd, id) \div Base) % Base = fd
      /\ Parts(a, fd, id) % Base = id
  <2>1. a \in Nat /\ id \in 0..Base - 1
    BY <1>1
  <2>2. Parts(a, fd, id) \div Base = a * Base + fd
    BY <2>1, ThreeParts
  <2>a. (a * Base + fd) % Base = fd
    BY <2>1, TwoParts
  <2>b. Parts(a, fd, id) \div (Base * Base) = a
    BY <2>1, ThreeParts
  <2>3. Parts(a, fd, id) % Base = id
    BY <2>1, ThreeParts
  <2>4. QED
    BY <2>2, <2>a, <2>b, <2>3
<1>3. Parts(id, fd, a) = id * Base * Base + fd * Base + a
  BY <1>1, ThreeParts
<1>4. QED
  BY <1>1, <1>2, <1>3 DEF Arriving

LEMMA OnRemotePublishKeeps ==
  ASSUME RouteAssumption, RouteInv, NEW p \in Procs, OnRemotePublish(p)
  PROVE  RouteInv'
<1>t. /\ RouteTypeOK /\ IdsInv /\ Links
      /\ down \in [Conns -> Seq(RouteMessage)]
      /\ sends \in Nat /\ None \notin Conns
      /\ Base \in Nat /\ MaxId \in Nat /\ MaxId < Base /\ Proxy \in 1..Base - 1
      /\ \A s \in Subscribers : s[2] # Proxy
  BY DEF RouteInv, RouteTypeOK, RouteAssumption
<1>c. PICK c : c = peer[p]
  OBVIOUS
<1>h. PICK h : h = Head(down[c])
  OBVIOUS
<1>u. /\ c # None /\ down[c] # <<>> /\ down' = [down EXCEPT ![c] = Tail(@)]
      /\ PublishIn(p, Proxy, h, Arriving(h.publisher))
      /\ UNCHANGED <<peer, made, sessions, interest, up, idVars, next, free, held, sends>>
  BY <1>c, <1>h DEF OnRemotePublish, idVars
<1>d. c \in Conns /\ c[1] = p
  BY <1>c, <1>t, <1>u DEF Links, RouteTypeOK
<1>1. PICK x : x = <<"down", c>>
  OBVIOUS
<1>2. x \in Places /\ Box(x) = down[c] /\ Site(x) = p
  BY <1>d, <1>1, PlaceFacts
<1>4. PICK Q : Q = [y \in Places |-> IF y = x THEN Tail(Box(y)) ELSE Box(y)]
  OBVIOUS
<1>5. /\ Fits(x, h) /\ Clear(x, h, Q)
      /\ \A y \in Places : Shorter(Boxes[y], Q[y])
  BY <1>2, <1>4, <1>h, <1>u, TakenOut
<1>6. /\ h \in RouteMessage /\ h.n <= sends /\ Inward(x, h)
      /\ Sound(h.from) /\ (h.to # None => Sound(h.to))
  BY <1>1, <1>5 DEF Fits
<1>7. /\ h.publisher \in Nat /\ h.mask \in Nat
      /\ h.from.id \in 1..Base - 1 /\ h.from.via # None
      /\ h.to # None => h.to.id \in 1..Base - 1
  BY <1>6, MessageTypes DEF Inward
<1>8. PICK id \in 1..Base - 1 : id = h.from.id
  BY <1>7
<1>9. PICK fd \in 1..MaxId :
        /\ Names(fd, h.from.via)
        /\ h.publisher = IF h.to = None THEN h.from.id * Base + fd
                         ELSE Parts(h.to.id, fd, h.from.id)
  BY <1>6 DEF Inward
<1>10. PICK a \in 0..Base - 1 : a = IF h.to = None THEN 0 ELSE h.to.id
  BY <1>7, <1>t
<1>11. fd \in 0..Base - 1 /\ id \in Nat
  BY <1>t
<1>12. Arriving(h.publisher) = Parts(id, fd, a)
  <2>1. CASE h.to = None
    <3>1. h.publisher = id * Base + fd /\ a = 0
      BY <1>8, <1>9, <1>10, <2>1
    <3>2. QED
      BY <1>11, <3>1, ArrivingPublish
  <2>2. CASE h.to # None
    <3>1. h.publisher = Parts(a, fd, id) /\ a \in 1..Base - 1
      BY <1>7, <1>8, <1>9, <1>10, <2>2
    <3>2. QED
      BY <1>11, <3>1, ArrivingReply
  <2>3. QED
    BY <2>1, <2>2
<1>13. PICK receiver : receiver = Parts(id, fd, a)
  OBVIOUS
<1>14. /\ receiver \in Nat /\ receiver % Base = a
       /\ receiver \div Base = id * Base + fd
  BY <1>11, <1>13, ThreeParts
<1>15. PICK sent : sent = Handed(Proxy, h, receiver)
  OBVIOUS
<1>16. /\ sent \in RouteMessage /\ Addressed(sent, Proxy, receiver)
       /\ SameSend(sent, h) /\ Masked(sent, h, receiver % Base)
  BY <1>6, <1>14, <1>15, <1>t, HandedTypes
<1>17. /\ sent.publisher = Parts(id, fd, Proxy)
       /\ sent.n = h.n /\ sent.from = h.from /\ sent.to = h.to
       /\ sent.mask > 0 => h.mask > 0 /\ a = 0
  BY <1>14, <1>16 DEF Addressed, SameSend, Masked, Parts
<1>18. PICK mask : mask = h.mask
  OBVIOUS
<1>19. PublishIn(p, Proxy, h, receiver)
  BY <1>u, <1>12, <1>13
<1>20. /\ got' \in [Subscribers -> Seq(RouteMessage)]
       /\ posted' \in [Procs -> Seq(RouteMessage)]
       /\ \E R \in Audiences(p, Proxy, mask, receiver % Base) : Heard(p, R, sent)
  <2>1. Proxy \in Nat
    BY <1>t
  <2>2. QED
    BY <1>t, <1>6, <1>14, <1>15, <1>18, <1>19, <2>1, PublishBoxes
<1>21. PICK R \in Audiences(p, Proxy, mask, receiver % Base) : Heard(p, R, sent)
  BY <1>20
<1>22. /\ \A i \in R : i # Proxy /\ (a # 0 => i = a)
       /\ a # 0 \/ mask > 0 => \A i, j \in R : i = j
  BY <1>7, <1>14, <1>18, Audience
<1>23. RouteTypeOK'
  <2>1. down' \in [Conns -> Seq(RouteMessage)]
    BY <1>t, <1>u, HeadTailProperties
  <2>2. QED
    BY <1>t, <1>u, <1>20, <2>1 DEF RouteTypeOK, PoolTypeOK
<1>24. IdsInv' /\ Links' /\ Forward
  <2>1. Forward
    BY <1>t, <1>u, StillForward
  <2>2. IdsInv'
    BY <1>t, <1>u, StillIds
  <2>3. \A d \in Conns : down'[d] # <<>> => peer[d[1]] = d
    BY <1>t, <1>c, <1>d, <1>u DEF Links
  <2>4. Links'
    BY <1>t, <1>u, <2>3, StillLinks
  <2>5. QED
    BY <2>1, <2>2, <2>4
<1>25. PICK B : B = Boxes'
  OBVIOUS
<1>26. PICK X : X = Hearers(p, R)
  OBVIOUS
<1>27. \A y \in X : \E s \in Subscribers : y = <<"got", s>> /\ s[1] = p /\ s[2] \in R
  BY <1>22, <1>26, HearerCases
<1>28. Grown(Q, B, X, sent)
  <2>1. ASSUME NEW y \in Places
        PROVE  Box(y)' = IF y \in X THEN Append(Q[y], sent) ELSE Q[y]
    <3>1. CASE y[1] \in {"got", "posted"}
      <4>1. Q[y] = Box(y)
        BY <1>1, <1>4, <3>1
      <4>2. QED
        BY <1>21, <1>26, <3>1, <4>1 DEF Heard
    <3>2. CASE \E d \in Conns : y = <<"up", d>>
      <4>1. Box(y)' = Box(y) /\ Q[y] = Box(y)
        BY <1>u, <1>1, <1>4, <3>2, PlaceFacts
      <4>2. y \notin X
        BY <1>27, <3>2
      <4>3. QED
        BY <4>1, <4>2
    <3>3. CASE \E d \in Conns : y = <<"down", d>>
      <4>1. PICK d \in Conns : y = <<"down", d>>
        BY <3>3
      <4>2. Box(y) = down[d] /\ Box(y)' = down'[d] /\ y \notin X
        BY <1>27, <4>1, PlaceFacts
      <4>3. down'[d] = IF d = c THEN Tail(down[d]) ELSE down[d]
        BY <1>t, <1>u
      <4>4. y = x <=> d = c
        BY <1>1, <4>1
      <4>5. QED
        BY <1>4, <4>2, <4>3, <4>4
    <3>4. QED
      BY <3>1, <3>2, <3>3, PlaceCases
  <2>2. \A y \in Places : B[y] = Box(y)'
    BY <1>25 DEF Boxes
  <2>3. QED
    BY <2>1, <2>2 DEF Grown
<1>29. Single(sent) => Single(h) /\ (a # 0 \/ mask > 0)
  BY <1>7, <1>10, <1>17, <1>18 DEF Single
<1>30. Room(Q, X, sent)
  <2>1. ASSUME NEW s \in Subscribers, s[1] = p,
               NEW y \in Places, NEW j \in DOMAIN Q[y], Q[y][j].n = sent.n
        PROVE  Beside(<<"got", s>>, sent, y, Q[y][j])
    <3>1. PICK o : o = Q[y][j]
      OBVIOUS
    <3>2. Beside(x, h, y, o)
      BY <1>5, <1>17, <2>1, <3>1 DEF Clear
    <3>3. /\ ~Single(h) /\ ~Single(o) /\ h.from.proc = o.from.proc
          /\ y[1] \notin {"posted", "up"}
          /\ y[1] = "down" => Site(y) # p
          /\ y[1] = "got" /\ Site(y) = p => o.from.via = None
      BY <1>1, <1>2, <3>2 DEF Beside
    <3>4. Site(<<"got", s>>) = p /\ ~Single(sent)
      BY <1>29, <2>1, <3>3 DEF Site
    <3>5. Beside(<<"got", s>>, sent, y, o)
      BY <1>7, <1>17, <3>3, <3>4 DEF Beside
    <3>6. QED
      BY <3>1, <3>5
  <2>2. ASSUME NEW s \in Subscribers, NEW t \in Subscribers, s # t,
               s[1] = p, t[1] = p, s[2] \in R, t[2] \in R
        PROVE  Beside(<<"got", s>>, sent, <<"got", t>>, sent)
    <3>1. s[2] # t[2]
      BY <2>2 DEF RouteAssumption
    <3>2. ~Single(sent)
      BY <1>22, <1>29, <2>2, <3>1
    <3>3. QED
      BY <2>2, <3>2 DEF Beside
  <2>3. QED
    BY <1>27, <2>1, <2>2 DEF Room
<1>31. ASSUME NEW y \in Places \intersect X PROVE Fits(y, sent)'
  <2>1. PICK s \in Subscribers : y = <<"got", s>> /\ s[1] = p /\ s[2] \in R
    BY <1>27
  <2>2. Names(fd, sent.from.via) /\ sent.publisher = Parts(sent.from.id, fd, Proxy)
    BY <1>8, <1>9, <1>17
  <2>3. Site(y) = p /\ y[2][2] = s[2]
    BY <2>1 DEF Site
  <2>4. sent.to = None /\ Current(sent) => Site(y) # sent.from.proc
    BY <1>2, <1>6, <1>17, <2>3 DEF Inward, Current
  <2>5. sent.to # None => /\ sent.to.via # None /\ sent.to.id = s[2]
                          /\ sent.to.proc = Site(y) \/ Ended(sent.to.via)
    <3>1. ASSUME sent.to # None PROVE sent.to.id = s[2]
      <4>1. a # 0 /\ a = sent.to.id
        BY <1>7, <1>10, <1>17, <3>1
      <4>2. QED
        BY <1>22, <2>1, <4>1
    <3>2. QED
      BY <1>2, <1>6, <1>17, <2>3, <3>1 DEF Inward
  <2>6. Received(y, sent)
    BY <1>7, <1>17, <2>2, <2>3, <2>4, <2>5 DEF Received
  <2>7. Fits(y, sent)
    BY <1>6, <1>16, <1>17, <2>1, <2>6 DEF Fits
  <2>8. sessions \subseteq made
    BY <1>t DEF Links
  <2>9. QED
    BY <1>t, <1>23, <1>24, <2>7, <2>8, ForwardFits
<1>32. Each(Boxes)' /\ Two(Boxes)'
  BY <1>5, <1>16, <1>23, <1>24, <1>25, <1>28, <1>30, <1>31, Coming
<1>33. QED
  BY <1>23, <1>24, <1>32 DEF RouteInv

-----------------------------------------------------------------------------
(* Connections come and go. *)

LEMMA LinkParts ==
  ASSUME RouteAssumption, RouteInv
  PROVE  /\ RouteTypeOK /\ IdsInv /\ Links /\ sends \in Nat
         /\ IdentifiersAssumption /\ None \notin Conns /\ Owners = Conns
         /\ peer \in [Procs -> Conns \union {None}] /\ made \subseteq Conns
         /\ held \in [Conns -> 0..MaxId]
         /\ down \in [Conns -> Seq(RouteMessage)]
         /\ \A c \in Conns : c[1] \in Procs /\ c[2] \in Nat /\ c = <<c[1], c[2]>>
<1>1. /\ RouteTypeOK /\ IdsInv /\ Links /\ sends \in Nat
      /\ IdentifiersAssumption /\ None \notin Conns /\ Owners = Conns
      /\ peer \in [Procs -> Conns \union {None}] /\ made \subseteq Conns
      /\ held \in [Conns -> 0..MaxId]
      /\ down \in [Conns -> Seq(RouteMessage)]
  BY DEF RouteInv, RouteTypeOK, PoolTypeOK, RouteAssumption, IdentifiersAssumption
<1>2. \A c \in Conns : c[1] \in Procs /\ c[2] \in Nat /\ c = <<c[1], c[2]>>
  BY DEF Conns, RouteAssumption
<1>3. QED
  BY <1>1, <1>2

\* The places stay as they are.
LEMMA StillBoxes ==
  ASSUME UNCHANGED <<up, down, posted, got>>
  PROVE  \A x \in Places : Shorter(Boxes[x], Boxes'[x])
<1>1. ASSUME NEW x \in Places PROVE Box(x)' = Box(x)
  <2>1. CASE \E p \in Procs : x = <<"posted", p>>
    BY <2>1, PlaceFacts
  <2>2. CASE \E c \in Conns : x = <<"up", c>> \/ x = <<"down", c>>
    BY <2>2, PlaceFacts
  <2>3. CASE \E s \in Subscribers : x = <<"got", s>>
    BY <2>3, PlaceFacts
  <2>4. QED
    BY <2>1, <2>2, <2>3, PlaceCases
<1>2. QED
  BY <1>1 DEF Boxes, Shorter

\* The connection is a new one.
LEMMA ConnectKeeps ==
  ASSUME RouteAssumption, RouteInv, NEW p \in Procs, Connect(p)
  PROVE  RouteInv'
<1>o. PICK O : O = {d \in made : d[1] = p}
  OBVIOUS
<1>n. PICK n : n = Cardinality(O)
  OBVIOUS
<1>c. PICK c : c = <<p, n + 1>>
  OBVIOUS
<1>u. /\ peer[p] = None /\ c \in Conns
      /\ peer' = [peer EXCEPT ![p] = c] /\ made' = made \union {c}
      /\ UNCHANGED <<sessions, interest, up, down, idVars, next, free, held, posted, got, sends>>
  BY <1>c, <1>n, <1>o DEF Connect, idVars
<1>t. /\ RouteTypeOK /\ IdsInv /\ Links /\ sends \in Nat /\ None \notin Conns
      /\ peer \in [Procs -> Conns \union {None}] /\ made \subseteq Conns
      /\ \A d \in Conns : d[1] \in Procs /\ d[2] \in Nat
  BY LinkParts
<1>1. /\ IsFiniteSet(made) /\ sessions \subseteq made
      /\ \A d \in made : d[2] <= Cardinality({e \in made : e[1] = d[1]})
      /\ \A q \in Procs : peer[q] # None => peer[q] \in made /\ peer[q][1] = q
      /\ \A d \in Conns : d \in sessions <=> held[d] # 0
      /\ \A d \in Conns : down[d] # <<>> => peer[d[1]] = d
  BY <1>t DEF Links
<1>2. IsFiniteSet(O) /\ n \in Nat
  <2>1. O \subseteq made
    BY <1>o
  <2>2. IsFiniteSet(O)
    BY <1>1, <2>1, FS_Subset
  <2>3. QED
    BY <1>n, <2>2, FS_CardinalityType
<1>3. c[1] = p /\ c[2] = n + 1
  BY <1>c
<1>a. \A d \in made : d[1] = p => d[2] <= n
  <2>1. ASSUME NEW d \in made, d[1] = p PROVE d[2] <= n
    <3>1. {e \in made : e[1] = d[1]} = O
      BY <1>o, <2>1
    <3>2. QED
      BY <1>1, <1>n, <3>1
  <2>2. QED
    BY <2>1
<1>4. c \notin made
  BY <1>2, <1>3, <1>a
<1>5. RouteTypeOK'
  BY <1>t, <1>u DEF RouteTypeOK, PoolTypeOK
<1>6. IdsInv'
  BY <1>t, <1>u, StillIds
<1>7. Links'
  <2>1. IsFiniteSet(made')
    BY <1>1, <1>u, FS_AddElement
  <2>2. ASSUME NEW d \in made' PROVE d[2] <= Cardinality({e \in made' : e[1] = d[1]})
    <3>1. CASE d[1] = p
      <4>1. {e \in made' : e[1] = d[1]} = O \union {c} /\ c \notin O
        BY <1>3, <1>4, <1>o, <1>u, <3>1
      <4>2. Cardinality(O \union {c}) = n + 1
        <5>1. Cardinality(O \union {c}) = Cardinality(O) + 1
          BY <1>2, <4>1, FS_AddElement
        <5>2. QED
          BY <1>n, <5>1, Zenon
      <4>3. d[2] <= n + 1
        <5>1. CASE d = c
          BY <1>2, <1>3, <5>1
        <5>2. CASE d # c
          <6>1. d[2] <= n /\ d[2] \in Nat
            BY <1>a, <1>t, <1>u, <3>1, <5>2
          <6>2. QED
            BY <1>2, <6>1
        <5>3. QED
          BY <5>1, <5>2
      <4>4. QED
        BY <4>1, <4>2, <4>3, Zenon
    <3>2. CASE d[1] # p
      <4>1. {e \in made' : e[1] = d[1]} = {e \in made : e[1] = d[1]} /\ d \in made
        BY <1>3, <1>u, <3>2
      <4>2. QED
        BY <1>1, <4>1
    <3>3. QED
      BY <3>1, <3>2
  <2>3. \A q \in Procs : peer'[q] # None => peer'[q] \in made' /\ peer'[q][1] = q
    BY <1>1, <1>3, <1>t, <1>u
  <2>4. \A d \in Conns : down'[d] # <<>> => peer'[d[1]] = d
    BY <1>1, <1>t, <1>u
  <2>5. sessions' \subseteq made' /\ \A d \in Conns : d \in sessions' <=> held'[d] # 0
    BY <1>1, <1>u
  <2>6. QED
    BY <2>1, <2>2, <2>3, <2>4, <2>5 DEF Links
<1>8. Forward
  <2>1. \A q \in Procs : peer'[q] = IF q = p THEN c ELSE peer[q]
    BY <1>t, <1>u
  <2>2. \A d \in Conns : Ended(d) => Ended(d)'
    BY <1>4, <1>t, <1>u, <2>1 DEF Ended
  <2>3. QED
    BY <1>4, <1>t, <1>u, <2>1, <2>2 DEF Forward
<1>9. Each(Boxes)' /\ Two(Boxes)'
  BY <1>5, <1>8, <1>u, StillBoxes, Leaving
<1>10. QED
  BY <1>5, <1>6, <1>7, <1>9 DEF RouteInv

\* The session gets an id that is nobody's.
LEMMA AcceptKeeps ==
  ASSUME RouteAssumption, RouteInv, NEW c \in Conns, Accept(c)
  PROVE  RouteInv'
<1>t. /\ RouteTypeOK /\ IdsInv /\ Links /\ sends \in Nat /\ None \notin Conns
      /\ IdentifiersAssumption /\ Owners = Conns
      /\ peer \in [Procs -> Conns \union {None}] /\ made \subseteq Conns
      /\ held \in [Conns -> 0..MaxId]
      /\ \A d \in Conns : d[1] \in Procs
  BY LinkParts
<1>u. /\ c \notin sessions /\ held[c] = 0 /\ peer[c[1]] = c /\ Take(c)
      /\ sessions' = sessions \union {c}
      /\ interest' \subseteq interest \union {c}
      /\ UNCHANGED <<peer, made, up, down, posted, got, sends>>
  BY DEF Accept
<1>1. IdsInv'
  BY <1>t, <1>u, FreshKeeps, ReusedKeeps DEF Take
<1>2. held'[c] # 0 /\ \A d \in Conns \ {c} : held'[d] = held[d]
  <2>1. /\ next \in 1..MaxId + 1 /\ MaxId \in Nat /\ free \in Seq(1..MaxId)
    BY <1>t DEF RouteTypeOK, PoolTypeOK, IdentifiersAssumption
  <2>2. CASE held' = [held EXCEPT ![c] = next]
    BY <1>t, <2>1, <2>2
  <2>3. CASE free # <<>> /\ held' = [held EXCEPT ![c] = Head(free)]
    <3>1. Head(free) \in 1..MaxId
      BY <2>1, <2>3, HeadTailProperties
    <3>2. QED
      BY <1>t, <2>3, <3>1
  <2>4. QED
    BY <1>u, <2>2, <2>3 DEF Take
<1>3. RouteTypeOK'
  BY <1>1, <1>t, <1>u DEF RouteTypeOK, IdsInv
<1>4. c \in made
  BY <1>t, <1>u DEF Links
<1>5. Links'
  <2>1. sessions' \subseteq made' /\ \A d \in Conns : d \in sessions' <=> held'[d] # 0
    BY <1>2, <1>4, <1>t, <1>u DEF Links
  <2>2. QED
    BY <1>t, <1>u, <2>1 DEF Links
<1>6. Forward
  BY <1>2, <1>t, <1>u DEF Forward, Ended, RouteTypeOK
<1>7. Each(Boxes)' /\ Two(Boxes)'
  BY <1>3, <1>6, <1>u, StillBoxes, Leaving
<1>8. QED
  BY <1>1, <1>3, <1>5, <1>7 DEF RouteInv

\* What is under way to the proxy is lost.
LEMMA BreakKeeps ==
  ASSUME RouteAssumption, RouteInv, NEW p \in Procs, Break(p)
  PROVE  RouteInv'
<1>t. /\ RouteTypeOK /\ IdsInv /\ Links /\ sends \in Nat /\ None \notin Conns
      /\ peer \in [Procs -> Conns \union {None}] /\ made \subseteq Conns
      /\ down \in [Conns -> Seq(RouteMessage)]
      /\ \A d \in Conns : d[1] \in Procs
  BY LinkParts
<1>c. PICK c : c = peer[p]
  OBVIOUS
<1>u. /\ c # None /\ peer' = [peer EXCEPT ![p] = None]
      /\ down' = [down EXCEPT ![c] = <<>>]
      /\ UNCHANGED <<made, sessions, interest, up, idVars, next, free, held, posted, got, sends>>
  BY <1>c DEF Break, idVars
<1>1. c \in Conns /\ c[1] = p
  BY <1>c, <1>t, <1>u DEF Links
<1>2. <<>> \in Seq(RouteMessage)
  BY EmptySeq
<1>3. \A d \in Conns : down'[d] = IF d = c THEN <<>> ELSE down[d]
  BY <1>t, <1>u
<1>4. \A q \in Procs : peer'[q] = IF q = p THEN None ELSE peer[q]
  BY <1>t, <1>u
<1>5. RouteTypeOK'
  <2>1. down' \in [Conns -> Seq(RouteMessage)] /\ peer' \in [Procs -> Conns \union {None}]
    BY <1>2, <1>t, <1>u
  <2>2. QED
    BY <1>t, <1>u, <2>1 DEF RouteTypeOK, PoolTypeOK
<1>6. IdsInv'
  BY <1>t, <1>u, StillIds
<1>7. Links'
  <2>1. \A d \in Conns : down'[d] # <<>> => peer'[d[1]] = d
    BY <1>c, <1>1, <1>3, <1>4, <1>t DEF Links
  <2>2. \A q \in Procs : peer'[q] # None => peer'[q] \in made' /\ peer'[q][1] = q
    BY <1>4, <1>t, <1>u DEF Links
  <2>3. QED
    BY <1>t, <1>u, <2>1, <2>2 DEF Links
<1>8. Forward
  BY <1>4, <1>t, <1>u DEF Forward, Ended
<1>9. \A x \in Places : Shorter(Boxes[x], Boxes'[x])
  <2>1. ASSUME NEW x \in Places PROVE Box(x)' = Box(x) \/ Box(x)' = <<>>
    <3>1. CASE \E q \in Procs : x = <<"posted", q>>
      BY <1>u, <3>1, PlaceFacts
    <3>2. CASE \E d \in Conns : x = <<"up", d>>
      BY <1>u, <3>2, PlaceFacts
    <3>3. CASE \E d \in Conns : x = <<"down", d>>
      BY <1>3, <3>3, PlaceFacts
    <3>4. CASE \E s \in Subscribers : x = <<"got", s>>
      BY <1>u, <3>4, PlaceFacts
    <3>5. QED
      BY <3>1, <3>2, <3>3, <3>4, PlaceCases
  <2>2. QED
    BY <2>1 DEF Boxes, Shorter
<1>10. Each(Boxes)' /\ Two(Boxes)'
  BY <1>5, <1>8, <1>9, Leaving
<1>11. QED
  BY <1>5, <1>6, <1>7, <1>10 DEF RouteInv

\* A session ends, and what was said of it is said of one that has ended.
LEMMA MasterErrorKeeps ==
  ASSUME RouteAssumption, RouteInv, NEW c \in Conns, MasterError(c)
  PROVE  RouteInv'
<1>t. /\ RouteTypeOK /\ IdsInv /\ Links /\ sends \in Nat
      /\ IdentifiersAssumption /\ Owners = Conns
      /\ held \in [Conns -> 0..MaxId]
  BY LinkParts
<1>u. /\ c \in sessions /\ peer[c[1]] # c /\ Give(c)
      /\ sessions' = sessions \ {c} /\ interest' = interest \ {c}
      /\ UNCHANGED <<peer, made, up, down, posted, got, sends>>
  BY DEF MasterError
<1>1. IdsInv'
  BY <1>t, <1>u, GiveKeeps
<1>2. held'[c] = 0 /\ \A d \in Conns \ {c} : held'[d] = held[d]
  BY <1>t, <1>u DEF Give
<1>3. RouteTypeOK'
  BY <1>1, <1>t, <1>u DEF RouteTypeOK, IdsInv
<1>4. Links'
  BY <1>2, <1>t, <1>u DEF Links
<1>5. Forward
  BY <1>2, <1>t, <1>u DEF Forward, Ended, Links, RouteTypeOK
<1>6. Each(Boxes)' /\ Two(Boxes)'
  BY <1>3, <1>5, <1>u, StillBoxes, Leaving
<1>7. QED
  BY <1>1, <1>3, <1>4, <1>6 DEF RouteInv

-----------------------------------------------------------------------------
(* The invariant holds. *)

LEMMA InitRoute == RouteAssumption /\ RouteInit => RouteInv
<1> SUFFICES ASSUME RouteAssumption, RouteInit PROVE RouteInv
  OBVIOUS
<1>1. IdsInv
  BY InitIds DEF RouteInit, RouteAssumption, IdentifiersAssumption
<1>2. RouteTypeOK
  <2>1. <<>> \in Seq(RouteMessage)
    BY EmptySeq
  <2>2. 0 \in 0..MaxSends
    BY DEF RouteAssumption
  <2>3. QED
    BY <1>1, <2>1, <2>2 DEF RouteInit, RouteTypeOK, IdsInv
<1>3. Links
  <2>1. IsFiniteSet({})
    BY FS_EmptySet
  <2>2. \A c \in Conns : held[c] = 0
    BY DEF RouteInit, PoolInit, RouteAssumption
  <2>3. QED
    BY <2>1, <2>2 DEF RouteInit, Links
<1>4. \A x \in Places : Boxes[x] = <<>> /\ DOMAIN Boxes[x] = {}
  <2>1. ASSUME NEW x \in Places PROVE Box(x) = <<>>
    <3>1. CASE \E p \in Procs : x = <<"posted", p>>
      BY <3>1, PlaceFacts DEF RouteInit
    <3>2. CASE \E c \in Conns : x = <<"up", c>> \/ x = <<"down", c>>
      BY <3>2, PlaceFacts DEF RouteInit
    <3>3. CASE \E s \in Subscribers : x = <<"got", s>>
      BY <3>3, PlaceFacts DEF RouteInit
    <3>4. QED
      BY <3>1, <3>2, <3>3, PlaceCases
  <2>2. QED
    BY <2>1 DEF Boxes
<1>5. Each(Boxes) /\ Two(Boxes)
  BY <1>4 DEF Each, Two
<1>6. QED
  BY <1>1, <1>2, <1>3, <1>5 DEF RouteInv

LEMMA StutterRoute == ASSUME RouteAssumption, RouteInv, UNCHANGED routeVars PROVE RouteInv'
<1>1. /\ UNCHANGED <<peer, made, sessions, interest, up, down, idVars, next, free, held,
                     posted, got, sends>>
      /\ RouteTypeOK /\ IdsInv /\ Links /\ sends \in Nat
  BY DEF routeVars, linkVars, idVars, RouteInv, RouteTypeOK
<1>2. RouteTypeOK'
  BY <1>1 DEF RouteTypeOK, PoolTypeOK
<1>3. IdsInv'
  BY <1>1, StillIds
<1>4. Links' /\ Forward
  BY <1>1, StillLinks, StillForward DEF Links
<1>5. Each(Boxes)' /\ Two(Boxes)'
  BY <1>1, <1>2, <1>4, StillBoxes, Leaving
<1>6. QED
  BY <1>2, <1>3, <1>4, <1>5 DEF RouteInv

LEMMA NextRoute == RouteAssumption /\ RouteInv /\ [RouteNext]_routeVars => RouteInv'
<1> SUFFICES ASSUME RouteAssumption, RouteInv, [RouteNext]_routeVars PROVE RouteInv'
  OBVIOUS
<1>1. CASE UNCHANGED routeVars
  BY <1>1, StutterRoute
<1>2. CASE RouteNext
  <2>1. ASSUME NEW s \in Subscribers, NEW mask \in SendMasks, Send(s, mask) PROVE RouteInv'
    BY <2>1, SendKeeps
  <2>2. ASSUME NEW s \in Subscribers, NEW i \in DOMAIN got[s], Reply(s, got[s][i])
        PROVE RouteInv'
    BY <2>2, ReplyKeeps
  <2>3. ASSUME NEW p \in Procs, OnLocalPublish(p) PROVE RouteInv'
    BY <2>3, OnLocalPublishKeeps
  <2>4. ASSUME NEW p \in Procs, Connect(p) PROVE RouteInv'
    BY <2>4, ConnectKeeps
  <2>5. ASSUME NEW p \in Procs, Break(p) PROVE RouteInv'
    BY <2>5, BreakKeeps
  <2>6. ASSUME NEW p \in Procs, OnRemotePublish(p) PROVE RouteInv'
    BY <2>6, OnRemotePublishKeeps
  <2>7. ASSUME NEW c \in Conns, Accept(c) PROVE RouteInv'
    BY <2>7, AcceptKeeps
  <2>8. ASSUME NEW c \in Conns, MasterError(c) PROVE RouteInv'
    BY <2>8, MasterErrorKeeps
  <2>9. ASSUME NEW c \in Conns, MasterReceive(c) PROVE RouteInv'
    BY <2>9, MasterReceiveKeeps
  <2>10. QED
    BY <1>2, <2>1, <2>2, <2>3, <2>4, <2>5, <2>6, <2>7, <2>8, <2>9 DEF RouteNext
<1>3. QED
  BY <1>1, <1>2

THEOREM RouteInvariance ==
  ASSUME RouteAssumption
  PROVE  RouteSpec => []RouteInv
BY InitRoute, NextRoute, PTL DEF RouteSpec

\* What s has received is as it should be, each and two by two.
LEMMA GotFacts ==
  ASSUME RouteInv, NEW s \in Subscribers, NEW i \in DOMAIN got[s], NEW m, m = got[s][i]
  PROVE  /\ Received(<<"got", s>>, m)
         /\ \A t \in Subscribers : \A j \in DOMAIN got[t] :
              got[t][j].n = m.n =>
                (s = t /\ i = j) \/ Beside(<<"got", s>>, m, <<"got", t>>, got[t][j])
<1>1. PICK B : B = Boxes
  OBVIOUS
<1>2. \A t \in Subscribers : <<"got", t>> \in Places /\ B[<<"got", t>>] = got[t]
  BY <1>1, PlaceFacts DEF Boxes
<1>3. Each(B) /\ Two(B)
  BY <1>1 DEF RouteInv
<1>4. Fits(<<"got", s>>, m)
  BY <1>2, <1>3 DEF Each
<1>5. ASSUME NEW t \in Subscribers, NEW j \in DOMAIN got[t], got[t][j].n = m.n
      PROVE  (s = t /\ i = j) \/ Beside(<<"got", s>>, m, <<"got", t>>, got[t][j])
  <2>1. \/ <<"got", s>> = <<"got", t>> /\ i = j
        \/ Beside(<<"got", s>>, m, <<"got", t>>, got[t][j])
    BY <1>2, <1>3, <1>5 DEF Two
  <2>2. QED
    BY <2>1
<1>6. QED
  BY <1>4, <1>5 DEF Fits

\* The state of the cluster is of its types (master.lua, proxy.lua).
THEOREM RouteTypesAlways ==
  ASSUME RouteAssumption
  PROVE  RouteSpec => []RouteTypeOK
<1>1. RouteInv => RouteTypeOK
  BY DEF RouteInv
<1>2. QED
  BY <1>1, RouteInvariance, PTL

\* A reply goes to the service that it answers, however many replies to replies there
\* were and whichever connections ended (master.on_publish_request, on_socket_dispatch;
\* proxy.on_remote_publish).
THEOREM RepliesReturnAlways ==
  ASSUME RouteAssumption
  PROVE  RouteSpec => []RepliesReturn
<1>1. RouteInv => RepliesReturn
  <2> SUFFICES ASSUME RouteInv, NEW s \in Subscribers, NEW i \in DOMAIN got[s],
                      got[s][i].to # None
               PROVE  \/ got[s][i].to.proc = s[1] /\ got[s][i].to.id = s[2]
                      \/ got[s][i].to.via # None /\ got[s][i].to.via \notin sessions
    BY DEF RepliesReturn
  <2>1. PICK m : m = got[s][i]
    OBVIOUS
  <2>2. Received(<<"got", s>>, m)
    BY <2>1, GotFacts
  <2>3. QED
    BY <2>1, <2>2 DEF Received, Site, Ended
<1>2. QED
  BY <1>1, RouteInvariance, PTL

\* A publish reaches a service once, and one of the whole cluster if it has a mask or
\* is a reply; it does not come back to its process by the connection it left by, and
\* a service has it twice only when it came back by a later one (master.on_publish_request, proxy.on_remote_publish).
THEOREM DeliveredOnceAlways ==
  ASSUME RouteAssumption
  PROVE  RouteSpec => []DeliveredOnce
<1>1. RouteInv => DeliveredOnce
  <2> SUFFICES ASSUME RouteInv, NEW s \in Subscribers, NEW i \in DOMAIN got[s]
               PROVE  LET m == got[s][i]
                      IN  /\ \A j \in Copies(s, m) \ {i} :
                               /\ m.from.proc = s[1]
                               /\ m.from.via = None <=> got[s][j].from.via # None
                          /\ m.mask > 0 \/ m.to # None =>
                               Copies(s, m) = {i} /\ \A r \in Subscribers \ {s} : Copies(r, m) = {}
                          /\ m.to = None /\ m.from.proc = s[1] =>
                               IF m.from.via = None THEN m.from.id # s[2] ELSE ~Current(m)
    BY DEF DeliveredOnce
  <2>m. PICK m : m = got[s][i]
    OBVIOUS
  <2>1. Received(<<"got", s>>, m)
    BY <2>m, GotFacts
  <2>2. \A t \in Subscribers : \A j \in DOMAIN got[t] :
          got[t][j].n = m.n =>
            (s = t /\ i = j) \/ Beside(<<"got", s>>, m, <<"got", t>>, got[t][j])
    BY <2>m, GotFacts
  <2>3. ASSUME NEW j \in Copies(s, m) \ {i}
        PROVE  m.from.proc = s[1] /\ (m.from.via = None <=> got[s][j].from.via # None)
    <3>1. PICK o : o = got[s][j]
      OBVIOUS
    <3>2. Received(<<"got", s>>, o)
      BY <3>1, GotFacts DEF Copies
    <3>3. Beside(<<"got", s>>, m, <<"got", s>>, o)
      BY <2>2, <3>1 DEF Copies
    <3>4. m.from.proc = o.from.proc /\ (m.from.via = None <=> o.from.via # None)
      BY <3>3 DEF Beside, Site
    <3>5. m.from.proc = s[1]
      BY <2>1, <3>2, <3>4 DEF Received, Site
    <3>6. QED
      BY <3>1, <3>4, <3>5
  <2>4. ASSUME m.mask > 0 \/ m.to # None
        PROVE  Copies(s, m) = {i} /\ \A r \in Subscribers \ {s} : Copies(r, m) = {}
    <3>1. Single(m)
      BY <2>4 DEF Single
    <3>2. ASSUME NEW t \in Subscribers, NEW j \in DOMAIN got[t], got[t][j].n = m.n
          PROVE  s = t /\ i = j
      <4>1. (s = t /\ i = j) \/ Beside(<<"got", s>>, m, <<"got", t>>, got[t][j])
        BY <2>2, <3>2
      <4>2. ~Beside(<<"got", s>>, m, <<"got", t>>, got[t][j])
        BY <3>1 DEF Beside
      <4>3. QED
        BY <4>1, <4>2
    <3>3. QED
      BY <2>m, <3>2 DEF Copies
  <2>5. m.to = None /\ m.from.proc = s[1] =>
          IF m.from.via = None THEN m.from.id # s[2] ELSE ~Current(m)
    BY <2>1 DEF Received, Site
  <2>6. QED
    BY <2>m, <2>3, <2>4, <2>5
<1>2. QED
  BY <1>1, RouteInvariance, PTL

-----------------------------------------------------------------------------
(* The sum that the run of the safety of the runtime explores (MCRuntimeSafe). *)

\* A step of the sum is a step of one part, while the other stutters.
LEMMA SumSteps ==
  ASSUME [MCNext]_<<unit, vars, routeVars>>
  PROVE  [Next]_vars /\ [RouteNext]_routeVars /\ unit' = unit
<1>1. CASE UNCHANGED <<unit, vars, routeVars>>
  BY <1>1
<1>2. CASE unit = "bus" /\ MCNext
  BY <1>2 DEF MCNext, OfBus, OfRoute, Next
<1>3. CASE unit = "route" /\ MCNext
  BY <1>3 DEF MCNext, OfBus, OfRoute, RouteNext
<1>4. MCNext => unit \in {"bus", "route"}
  BY DEF MCNext, OfBus, OfRoute
<1>5. QED
  BY <1>1, <1>2, <1>3, <1>4

\* A behaviour of the sum is a behaviour of the bus and one of the routes, so that what
\* is proved of either holds in it.
THEOREM SumImplementsParts == MCSpec => Spec /\ RouteSpec
<1>1. MCInit => Init /\ RouteInit
  BY DEF MCInit
<1>2. [MCNext]_<<unit, vars, routeVars>> => [Next]_vars /\ [RouteNext]_routeVars
  BY SumSteps
<1>3. QED
  BY <1>1, <1>2, PTL DEF MCSpec, Spec, RouteSpec

\* Type correctness of what the run explores: the tables and queues of the bus
\* (luaos_subscriber.cpp), the connections and ids of a cluster (master.lua, proxy.lua).
THEOREM TypesOKAlways ==
  ASSUME RouteAssumption
  PROVE  MCSpec => []TypesOK
<1>1. TypeOK /\ RouteTypeOK => TypesOK
  BY DEF TypesOK
<1>2. QED
  BY <1>1, SumImplementsParts, TypeCorrect, RouteTypesAlways, PTL
=============================================================================
