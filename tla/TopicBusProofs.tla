--------------------------- MODULE TopicBusProofs ---------------------------
(***************************************************************************)
(* Proofs about the topic bus, for any sets of services, topics, masks and *)
(* registry slots.                                                         *)
(***************************************************************************)
EXTENDS TopicBus, SequenceTheorems, TLAPS

-----------------------------------------------------------------------------
(* Lists: what removing an entry and looking one up give. *)

LEMMA RemoveAtProperties ==
  ASSUME NEW S, NEW q \in Seq(S), NEW i \in 1..Len(q)
  PROVE  /\ RemoveAt(q, i) \in Seq(S)
         /\ Len(RemoveAt(q, i)) = Len(q) - 1
         /\ \A j \in 1..Len(q) - 1 :
              RemoveAt(q, i)[j] = IF j < i THEN q[j] ELSE q[j + 1]
<1> DEFINE a == SubSeq(q, 1, i - 1)
           b == SubSeq(q, i + 1, Len(q))
<1>1. /\ a \in Seq(S) /\ Len(a) = i - 1
      /\ \A j \in 1..i - 1 : a[j] = q[j]
  BY SubSeqProperties
<1>2. /\ b \in Seq(S) /\ Len(b) = Len(q) - i
      /\ \A j \in 1..Len(q) - i : b[j] = q[i + j]
  BY SubSeqProperties
<1>3. RemoveAt(q, i) = a \o b
  BY DEF RemoveAt
<1> HIDE DEF a, b
<1>4. /\ a \o b \in Seq(S) /\ Len(a \o b) = Len(q) - 1
      /\ \A j \in 1..Len(q) - 1 :
           (a \o b)[j] = IF j <= i - 1 THEN a[j] ELSE b[j - (i - 1)]
  <2>1. Len(q) \in Nat /\ i \in Nat /\ i >= 1 /\ i <= Len(q)
    BY LenProperties
  <2>2. /\ a \o b \in Seq(S) /\ Len(a \o b) = Len(a) + Len(b)
        /\ \A j \in 1..Len(a) + Len(b) :
             (a \o b)[j] = IF j <= Len(a) THEN a[j] ELSE b[j - Len(a)]
    BY <1>1, <1>2, ConcatProperties
  <2>3. Len(a) + Len(b) = Len(q) - 1
    BY <1>1, <1>2, <2>1
  <2>4. QED
    BY <1>1, <2>2, <2>3
<1>5. ASSUME NEW j \in 1..Len(q) - 1
      PROVE  (a \o b)[j] = IF j < i THEN q[j] ELSE q[j + 1]
  <2>1. CASE j < i
    BY <2>1, <1>1, <1>4
  <2>2. CASE ~(j < i)
    <3>1. j - (i - 1) \in 1..Len(q) - i /\ i + (j - (i - 1)) = j + 1
      BY <2>2
    <3>2. QED
      BY <2>2, <3>1, <1>2, <1>4
  <2>3. QED
    BY <2>1, <2>2
<1>6. QED
  BY <1>3, <1>4, <1>5

LEMMA AtProperties ==
  ASSUME NEW items \in Seq(Item), NEW s \in Members(items)
  PROVE  /\ At(items, s) \in 1..Len(items)
         /\ items[At(items, s)].ios = s
         /\ IndexOf(items, s) \in Refs
         /\ items[At(items, s)] = [ios |-> s, index |-> IndexOf(items, s)]
<1>1. \E i \in DOMAIN items : items[i].ios = s
  BY DEF Members
<1>2. At(items, s) \in DOMAIN items /\ items[At(items, s)].ios = s
  BY <1>1 DEF At
<1>3. items[At(items, s)] \in Item
  BY <1>2, ElementOfSeq, LenProperties
<1>4. QED
  BY <1>2, <1>3, LenProperties DEF IndexOf, Item

LEMMA AppendEntry ==
  ASSUME NEW q \in Seq(Item), NEW e \in Item, Once(q), ~Has(q, e.ios)
  PROVE  Once(Append(q, e))
<1>1. /\ Append(q, e) \in Seq(Item)
      /\ Len(Append(q, e)) = Len(q) + 1
      /\ \A i \in 1..Len(q) : Append(q, e)[i] = q[i]
      /\ Append(q, e)[Len(q) + 1] = e
  BY AppendProperties
<1>2. DOMAIN q = 1..Len(q) /\ DOMAIN Append(q, e) = 1..Len(q) + 1 /\ Len(q) \in Nat
  BY <1>1, LenProperties
<1>3. \A i \in 1..Len(q) : q[i].ios # e.ios
  BY <1>2 DEF Has
<1>4. QED
  BY <1>1, <1>2, <1>3 DEF Once

LEMMA RemoveEntry ==
  ASSUME NEW q \in Seq(Item), NEW s \in Members(q), Once(q)
  PROVE  LET p == RemoveAt(q, At(q, s))
         IN  /\ p \in Seq(Item)
             /\ Once(p)
             /\ \A i \in DOMAIN p : \E j \in DOMAIN q : p[i] = q[j] /\ q[j].ios # s
             /\ \A j \in DOMAIN q : q[j].ios # s => \E i \in DOMAIN p : p[i] = q[j]
<1> DEFINE k == At(q, s)
           p == RemoveAt(q, k)
<1>1. k \in 1..Len(q) /\ q[k].ios = s
  BY AtProperties
<1>2. /\ p \in Seq(Item)
      /\ Len(p) = Len(q) - 1
      /\ \A j \in 1..Len(q) - 1 : p[j] = IF j < k THEN q[j] ELSE q[j + 1]
  BY <1>1, RemoveAtProperties
<1>3. DOMAIN q = 1..Len(q) /\ DOMAIN p = 1..Len(q) - 1 /\ Len(q) \in Nat
  BY <1>2, LenProperties
<1> HIDE DEF k, p
<1>4. \A j \in DOMAIN q : q[j].ios = s => j = k
  BY <1>1, <1>3 DEF Once
<1>5. Once(p)
  <2> SUFFICES ASSUME NEW i \in DOMAIN p, NEW j \in DOMAIN p, p[i].ios = p[j].ios
               PROVE  i = j
    BY DEF Once
  <2> DEFINE up(n) == IF n < k THEN n ELSE n + 1
  <2>1. up(i) \in DOMAIN q /\ up(j) \in DOMAIN q /\ p[i] = q[up(i)] /\ p[j] = q[up(j)]
    BY <1>1, <1>2, <1>3
  <2>2. up(i) = up(j)
    BY <2>1 DEF Once
  <2>3. QED
    BY <2>2, <1>1, <1>3
<1>6. ASSUME NEW i \in DOMAIN p
      PROVE  \E j \in DOMAIN q : p[i] = q[j] /\ q[j].ios # s
  <2>1. CASE i < k
    BY <2>1, <1>1, <1>2, <1>3, <1>4
  <2>2. CASE ~(i < k)
    <3>1. i + 1 \in DOMAIN q /\ i + 1 # k /\ p[i] = q[i + 1]
      BY <2>2, <1>1, <1>2, <1>3
    <3>2. QED
      BY <3>1, <1>4
  <2>3. QED
    BY <2>1, <2>2
<1>7. ASSUME NEW j \in DOMAIN q, q[j].ios # s
      PROVE  \E i \in DOMAIN p : p[i] = q[j]
  <2>1. CASE j < k
    BY <2>1, <1>1, <1>2, <1>3
  <2>2. CASE j > k
    <3>1. j - 1 \in DOMAIN p /\ p[j - 1] = q[j]
      BY <2>2, <1>1, <1>2, <1>3
    <3>2. QED
      BY <3>1
  <2>3. QED
    BY <2>1, <2>2, <1>1, <1>3, <1>7
<1>8. QED
  BY <1>2, <1>5, <1>6, <1>7 DEF k, p

-----------------------------------------------------------------------------
(* The tables and the registries: what taking and releasing a slot keep. *)

Tables == ListedOnce /\ RefsOwned

LEMMA EntriesType ==
  ASSUME TypeOK, NEW h \in Handler
  PROVE  Entries(h) \in Seq(Item) /\ DOMAIN Entries(h) = 1..Len(Entries(h))
BY LenProperties DEF TypeOK, Entries, Handler

LEMMA TakeSlot ==
  ASSUME TypeOK, Tables, NEW h \in Handler, NEW s \in Services, NEW r \in Refs,
         ~Has(Entries(h), s),
         Ref(s, h, r),
         \A g \in Handler : Entries(g)' =
           IF g = h THEN Append(Entries(g), [ios |-> s, index |-> r]) ELSE Entries(g)
  PROVE  Tables'
<1> DEFINE e == [ios |-> s, index |-> r]
<1>1. e \in Item /\ h # Free
  BY DEF Item, Handler, Free
<1>2. /\ registry \in [Services -> [Refs -> Handler \union {Free}]]
      /\ registry[s][r] = Free
      /\ registry' = [registry EXCEPT ![s][r] = h]
  BY DEF Ref, TypeOK
<1>3. /\ Entries(h)' = Append(Entries(h), e)
      /\ \A g \in Handler : g # h => Entries(g)' = Entries(g)
  OBVIOUS
<1>4. /\ DOMAIN Entries(h)' = 1..Len(Entries(h)) + 1
      /\ \A i \in 1..Len(Entries(h)) : Entries(h)'[i] = Entries(h)[i]
      /\ Entries(h)'[Len(Entries(h)) + 1] = e
      /\ Len(Entries(h)) \in Nat
      /\ DOMAIN Entries(h) = 1..Len(Entries(h))
  BY <1>1, <1>3, EntriesType, AppendProperties, LenProperties
<1> HIDE DEF e
<1>5. ListedOnce'
  <2> SUFFICES ASSUME NEW g \in Handler
               PROVE  Once(Entries(g)')
    BY DEF ListedOnce, Once
  <2>1. Once(Entries(g)) /\ Entries(g) \in Seq(Item)
    BY EntriesType DEF Tables, ListedOnce
  <2>2. e.ios = s
    BY DEF e
  <2>3. QED
    BY <1>1, <1>3, <2>1, <2>2, AppendEntry
<1>6. ASSUME NEW g \in Handler, NEW i \in DOMAIN Entries(g)'
      PROVE  registry'[Entries(g)'[i].ios][Entries(g)'[i].index] = g
  <2>1. CASE g = h /\ i = Len(Entries(h)) + 1
    BY <2>1, <1>2, <1>4 DEF e
  <2>2. CASE ~(g = h /\ i = Len(Entries(h)) + 1)
    <3>1. i \in DOMAIN Entries(g) /\ Entries(g)'[i] = Entries(g)[i]
      BY <2>2, <1>3, <1>4
    <3>2. Entries(g)[i] \in Item
      BY <3>1, EntriesType, ElementOfSeq
    <3>3. registry[Entries(g)[i].ios][Entries(g)[i].index] = g /\ g # Free
      BY <3>1 DEF Tables, RefsOwned, Handler, Free
    <3>4. QED
      BY <3>1, <3>2, <3>3, <1>2 DEF Item
  <2>3. QED
    BY <2>1, <2>2
<1>7. ASSUME NEW g \in Handler, NEW s1 \in Services, NEW r1 \in Refs,
             registry'[s1][r1] = g
      PROVE  \E i \in DOMAIN Entries(g)' : Entries(g)'[i] = [ios |-> s1, index |-> r1]
  <2>1. CASE s1 = s /\ r1 = r
    <3>1. g = h
      BY <2>1, <1>2, <1>7
    <3>2. Entries(h)'[Len(Entries(h)) + 1] = [ios |-> s1, index |-> r1]
      BY <2>1, <1>4 DEF e
    <3>3. QED
      BY <3>1, <3>2, <1>4
  <2>2. CASE ~(s1 = s /\ r1 = r)
    <3>1. registry[s1][r1] = g
      BY <2>2, <1>2, <1>7
    <3>2. PICK i \in DOMAIN Entries(g) : Entries(g)[i] = [ios |-> s1, index |-> r1]
      BY <3>1 DEF Tables, RefsOwned
    <3>3. i \in DOMAIN Entries(g)' /\ Entries(g)'[i] = [ios |-> s1, index |-> r1]
      BY <3>2, <1>3, <1>4
    <3>4. QED
      BY <3>3
  <2>3. QED
    BY <2>1, <2>2
<1>8. QED
  BY <1>5, <1>6, <1>7 DEF Tables, RefsOwned

LEMMA ReleaseSlot ==
  ASSUME TypeOK, Tables, NEW h \in Handler, NEW s \in Services,
         s \in Members(Entries(h)),
         Unref(s, IndexOf(Entries(h), s)),
         \A g \in Handler : Entries(g)' =
           IF g = h THEN RemoveAt(Entries(g), At(Entries(g), s)) ELSE Entries(g)
  PROVE  Tables'
<1> DEFINE r == IndexOf(Entries(h), s)
<1>1. /\ r \in Refs
      /\ At(Entries(h), s) \in DOMAIN Entries(h)
      /\ Entries(h)[At(Entries(h), s)] = [ios |-> s, index |-> r]
  BY EntriesType, AtProperties
<1>2. /\ registry \in [Services -> [Refs -> Handler \union {Free}]]
      /\ registry[s][r] = h
      /\ registry' = [registry EXCEPT ![s][r] = Free]
  BY <1>1 DEF Unref, TypeOK, Tables, RefsOwned
<1>3. /\ Entries(h)' = RemoveAt(Entries(h), At(Entries(h), s))
      /\ \A g \in Handler : g # h => Entries(g)' = Entries(g)
  OBVIOUS
<1>4. /\ Entries(h) \in Seq(Item)
      /\ Once(Entries(h))
      /\ Once(Entries(h)')
      /\ \A i \in DOMAIN Entries(h)' : \E j \in DOMAIN Entries(h) :
           Entries(h)'[i] = Entries(h)[j] /\ Entries(h)[j].ios # s
      /\ \A j \in DOMAIN Entries(h) : Entries(h)[j].ios # s =>
           \E i \in DOMAIN Entries(h)' : Entries(h)'[i] = Entries(h)[j]
  BY <1>3, EntriesType, RemoveEntry DEF Tables, ListedOnce
<1> HIDE DEF r
<1>5. ListedOnce'
  BY <1>3, <1>4 DEF Tables, ListedOnce, Once
<1>6. ASSUME NEW g \in Handler, NEW i \in DOMAIN Entries(g)'
      PROVE  registry'[Entries(g)'[i].ios][Entries(g)'[i].index] = g
  <2>1. PICK j \in DOMAIN Entries(g) :
          /\ Entries(g)'[i] = Entries(g)[j]
          /\ g = h => Entries(g)[j].ios # s
    BY <1>3, <1>4
  <2>2. Entries(g)[j] \in Item
    BY EntriesType, ElementOfSeq
  <2>3. registry[Entries(g)[j].ios][Entries(g)[j].index] = g
    BY DEF Tables, RefsOwned
  <2>4. ~(Entries(g)[j].ios = s /\ Entries(g)[j].index = r)
    BY <2>1, <2>3, <1>2
  <2>5. QED
    BY <2>1, <2>2, <2>3, <2>4, <1>1, <1>2 DEF Item
<1>7. ASSUME NEW g \in Handler, NEW s1 \in Services, NEW r1 \in Refs,
             registry'[s1][r1] = g
      PROVE  \E i \in DOMAIN Entries(g)' : Entries(g)'[i] = [ios |-> s1, index |-> r1]
  <2>1. registry[s1][r1] = g /\ ~(s1 = s /\ r1 = r)
    BY <1>1, <1>2, <1>7 DEF Handler, Free
  <2>2. PICK j \in DOMAIN Entries(g) : Entries(g)[j] = [ios |-> s1, index |-> r1]
    BY <2>1 DEF Tables, RefsOwned
  <2>3. g = h => Entries(g)[j].ios # s
    BY <2>1, <2>2, <1>1, <1>4 DEF Once
  <2>4. \E i \in DOMAIN Entries(g)' : Entries(g)'[i] = Entries(g)[j]
    BY <2>3, <1>3, <1>4
  <2>5. QED
    BY <2>2, <2>4
<1>8. QED
  BY <1>5, <1>6, <1>7 DEF Tables, RefsOwned

-----------------------------------------------------------------------------
(* Whom an operation posts to: never to the service itself. *)

(* The mask selects another subscriber: the position is within the list and is *)
(* not the publisher's own.                                                    *)
LEMMA SelectedIsAnother ==
  ASSUME NEW items \in Seq(Item), Once(items), NEW s, NEW mask \in Nat,
         Members(items) \ {s} # {}
  PROVE  Selected(items, s, mask) \in Members(items) \ {s}
<1> DEFINE count == Len(items) - (IF Has(items, s) THEN 1 ELSE 0)
           i == (mask % count) + 1
           k == IF Has(items, s) /\ i >= At(items, s) THEN i + 1 ELSE i
<1>1. DOMAIN items = 1..Len(items) /\ Len(items) \in Nat
  BY LenProperties
<1>2. Has(items, s) => /\ At(items, s) \in 1..Len(items)
                       /\ items[At(items, s)].ios = s
  <2>1. Has(items, s) => s \in Members(items)
    BY DEF Has, Members
  <2>2. QED
    BY <2>1, AtProperties
<1>3. PICK j \in 1..Len(items) : items[j].ios # s
  BY <1>1 DEF Members
<1>4. count \in Nat /\ count > 0
  BY <1>1, <1>2, <1>3
<1> HIDE DEF count
<1>5. mask % count \in 0..count - 1
  BY <1>4
<1> USE DEF count
<1>6. k \in 1..Len(items)
  <2>1. CASE Has(items, s)
    <3>1. i \in 1..Len(items) - 1
      BY <2>1, <1>1, <1>4, <1>5
    <3>2. QED
      BY <2>1, <3>1, <1>1, <1>2
  <2>2. CASE ~Has(items, s)
    BY <2>2, <1>1, <1>4, <1>5
  <2>3. QED
    BY <2>1, <2>2
<1>7. Has(items, s) => k # At(items, s)
  BY <1>2, <1>4, <1>5
<1>8. items[k].ios # s
  BY <1>1, <1>2, <1>6, <1>7 DEF Once, Has
<1>9. QED
  BY <1>1, <1>6, <1>8 DEF Selected, Members

LEMMA ReceiversAreOthers ==
  ASSUME TypeOK, ListedOnce, NEW t \in Topics, NEW s \in Services, NEW mask \in Masks, NEW receiver
  PROVE  Receivers(topics[t], s, mask, receiver) \subseteq Members(topics[t]) \ {s}
<1> DEFINE h == [kind |-> "subscriber", topic |-> t]
<1>1. h \in Handler /\ Entries(h) = topics[t]
  BY DEF Handler, Entries
<1>2. topics[t] \in Seq(Item) /\ Once(topics[t])
  BY <1>1 DEF TypeOK, ListedOnce
<1>3. mask \in Nat
  BY BusAssumption
<1>4. QED
  BY <1>2, <1>3, SelectedIsAnother DEF Receivers

-----------------------------------------------------------------------------
(* Posting: every queue is unchanged or has one new message at its end, stamped *)
(* after all others, from another service, for a handler that is in place.      *)

\* s posts to some of the other services listed for the handler of the message.
Posting(s, t) ==
  \E kind \in {"publish", "subscribe", "cancel"}, items \in Seq(Item), R \in SUBSET Services :
    /\ items = IF kind = "publish" THEN topics[t] ELSE watchs[t]
    /\ R \subseteq Members(items) \ {s}
    /\ Post(R, items, kind, t, s)

\* What a new message of r is when s posts it.
Fresh(r, s, m) ==
  /\ m \in Message
  /\ m.from = s /\ s # r
  /\ m.stamp = posts + 1
  /\ registry[r][m.index] = Target(m)

LEMMA MembersAreServices ==
  ASSUME NEW items \in Seq(Item)
  PROVE  Members(items) \subseteq Services
<1>1. ASSUME NEW i \in DOMAIN items
      PROVE  items[i].ios \in Services
  <2>1. items[i] \in Item
    BY ElementOfSeq, LenProperties
  <2>2. QED
    BY <2>1 DEF Item
<1>2. QED
  BY <1>1 DEF Members

LEMMA NotifyIsPosting ==
  ASSUME TypeOK, NEW s \in Services, NEW t \in Topics,
         NEW kind \in {"subscribe", "cancel"}, Notify(t, kind, s)
  PROVE  Posting(s, t)
<1>1. watchs[t] \in Seq(Item) /\ Members(watchs[t]) \ {s} \in SUBSET Services
  BY MembersAreServices DEF TypeOK
<1>2. kind \in {"publish", "subscribe", "cancel"} /\ kind # "publish"
  OBVIOUS
<1> SUFFICES \E k \in {"publish", "subscribe", "cancel"}, items \in Seq(Item), R \in SUBSET Services :
               /\ items = IF k = "publish" THEN topics[t] ELSE watchs[t]
               /\ R \subseteq Members(items) \ {s}
               /\ Post(R, items, k, t, s)
  BY DEF Posting
<1> USE <1>1, <1>2
<1> WITNESS kind \in {"publish", "subscribe", "cancel"}, watchs[t] \in Seq(Item),
            Members(watchs[t]) \ {s} \in SUBSET Services
<1>3. QED
  BY <1>2 DEF Notify

LEMMA PublishIsPosting ==
  ASSUME TypeOK, ListedOnce, NEW s \in Services, NEW t \in Topics, NEW mask \in Masks,
         NEW receiver, Publish(s, t, mask, receiver)
  PROVE  Posting(s, t)
<1>1. topics[t] \in Seq(Item)
  BY DEF TypeOK
<1>2. Receivers(topics[t], s, mask, receiver) \subseteq Members(topics[t]) \ {s}
  BY ReceiversAreOthers
<1>3. Receivers(topics[t], s, mask, receiver) \in SUBSET Services
  BY <1>1, <1>2, MembersAreServices
<1> SUFFICES \E k \in {"publish", "subscribe", "cancel"}, items \in Seq(Item), R \in SUBSET Services :
               /\ items = IF k = "publish" THEN topics[t] ELSE watchs[t]
               /\ R \subseteq Members(items) \ {s}
               /\ Post(R, items, k, t, s)
  BY DEF Posting
<1> USE <1>1, <1>3
<1> WITNESS "publish" \in {"publish", "subscribe", "cancel"}, topics[t] \in Seq(Item),
            Receivers(topics[t], s, mask, receiver) \in SUBSET Services
<1>4. QED
  BY <1>2 DEF Publish

LEMMA PostingProperties ==
  ASSUME TypeOK, Tables, NEW s \in Services, NEW t \in Topics, Posting(s, t)
  PROVE  /\ posts' \in 1..MaxPosts /\ posts' = posts + 1
         /\ queue' \in [Services -> Seq(Message)]
         /\ \A r \in Services :
              \/ queue'[r] = queue[r]
              \/ \E m \in Message : Fresh(r, s, m) /\ queue'[r] = Append(queue[r], m)
<1>1. PICK kind \in {"publish", "subscribe", "cancel"}, items \in Seq(Item), R \in SUBSET Services :
        /\ items = IF kind = "publish" THEN topics[t] ELSE watchs[t]
        /\ R \subseteq Members(items) \ {s}
        /\ Post(R, items, kind, t, s)
  BY DEF Posting
<1> DEFINE msg(r) == [kind |-> kind, topic |-> t, index |-> IndexOf(items, r),
                      from |-> s, stamp |-> posts + 1]
           h == [kind |-> IF kind = "publish" THEN "subscriber" ELSE "watcher", topic |-> t]
<1>2. posts' \in 1..MaxPosts /\ posts' = posts + 1
  BY <1>1, BusAssumption DEF Post, TypeOK
<1>3. /\ queue' = [r \in Services |-> queue'[r]]
      /\ \A r \in Services :
           queue'[r] = IF r \in R \intersect alive THEN Append(queue[r], msg(r)) ELSE queue[r]
  BY <1>1 DEF Post
<1>4. h \in Handler /\ items = Entries(h)
  BY <1>1 DEF Handler, Entries
<1>5. ASSUME NEW r \in R
      PROVE  msg(r) \in Message /\ Fresh(r, s, msg(r))
  <2>1. r \in Members(items) /\ r # s
    BY <1>1
  <2>2. /\ IndexOf(items, r) \in Refs
        /\ At(items, r) \in DOMAIN Entries(h)
        /\ Entries(h)[At(items, r)] = [ios |-> r, index |-> IndexOf(items, r)]
    BY <2>1, <1>4, AtProperties, LenProperties
  <2>3. registry[r][IndexOf(items, r)] = h
    BY <2>2, <1>4 DEF Tables, RefsOwned
  <2>4. msg(r) \in Message
    BY <2>2, <1>2 DEF Message
  <2>5. Target(msg(r)) = h
    BY DEF Target
  <2>6. QED
    BY <2>1, <2>3, <2>4, <2>5 DEF Fresh
<1> HIDE DEF msg
<1>6. ASSUME NEW r \in Services
      PROVE  /\ queue'[r] \in Seq(Message)
             /\ \/ queue'[r] = queue[r]
                \/ \E m \in Message : Fresh(r, s, m) /\ queue'[r] = Append(queue[r], m)
  <2>1. queue[r] \in Seq(Message)
    BY DEF TypeOK
  <2>2. CASE r \in R \intersect alive
    <3>1. queue'[r] = Append(queue[r], msg(r)) /\ msg(r) \in Message /\ Fresh(r, s, msg(r))
      BY <2>2, <1>3, <1>5
    <3>2. QED
      BY <2>1, <3>1, AppendProperties
  <2>3. CASE r \notin R \intersect alive
    BY <2>1, <2>3, <1>3
  <2>4. QED
    BY <2>2, <2>3
<1>7. QED
  BY <1>2, <1>3, <1>6

-----------------------------------------------------------------------------
(* The inductive invariant.  LockOrder needs to know that no stamp is ahead of *)
(* the count of posting operations.                                            *)

\* The three properties of the queues, for one service.
PendingAt(r) ==
  /\ seen[r] <= posts
  /\ \A i \in DOMAIN queue[r] :
       /\ queue[r][i].from # r
       /\ queue[r][i].stamp <= posts
       /\ seen[r] < queue[r][i].stamp
       /\ r \notin cancelled => registry[r][queue[r][i].index] = Target(queue[r][i])
       /\ \A j \in DOMAIN queue[r] : i < j => queue[r][i].stamp < queue[r][j].stamp

Pending == \A r \in Services : PendingAt(r)

IInv == TypeOK /\ Tables /\ Pending

\* The slots that hold handlers keep them, except in services that cancel.
SlotsKept ==
  /\ cancelled \subseteq cancelled'
  /\ \A r \in Services \ cancelled', x \in Refs :
       registry[r][x] # Free => registry'[r][x] = registry[r][x]

LEMMA PendingImplies == Pending => NoEcho /\ LockOrder /\ SteadyTargets
BY DEF Pending, PendingAt, NoEcho, LockOrder, SteadyTargets

LEMMA TargetNotFree == ASSUME NEW m PROVE Target(m) # Free
BY DEF Target, Free

LEMMA PostingKeepsPending ==
  ASSUME IInv, NEW s \in Services, NEW t \in Topics, Posting(s, t),
         SlotsKept, UNCHANGED seen
  PROVE  Pending'
<1>1. /\ posts' \in 1..MaxPosts /\ posts' = posts + 1
      /\ \A r \in Services :
           \/ queue'[r] = queue[r]
           \/ \E m \in Message : Fresh(r, s, m) /\ queue'[r] = Append(queue[r], m)
  BY PostingProperties DEF IInv
<1>2. \A r \in Services : queue[r] \in Seq(Message) /\ seen[r] \in Nat /\ posts \in Nat
  BY BusAssumption DEF IInv, TypeOK
<1> SUFFICES ASSUME NEW r \in Services
             PROVE  PendingAt(r)'
  BY DEF Pending
<1>3. /\ seen[r] <= posts
      /\ \A i \in DOMAIN queue[r] :
           /\ queue[r][i] \in Message
           /\ queue[r][i].stamp \in Nat
           /\ queue[r][i].from # r
           /\ queue[r][i].stamp <= posts
           /\ seen[r] < queue[r][i].stamp
           /\ \A j \in DOMAIN queue[r] : i < j => queue[r][i].stamp < queue[r][j].stamp
           /\ r \notin cancelled => registry[r][queue[r][i].index] = Target(queue[r][i])
  <2>1. \A i \in DOMAIN queue[r] : queue[r][i] \in Message
    BY <1>2, ElementOfSeq, LenProperties
  <2>2. QED
    BY <2>1, BusAssumption DEF Message, IInv, Pending, PendingAt
<1>4. ASSUME NEW m \in Message, registry[r][m.index] = Target(m), r \notin cancelled'
      PROVE  registry'[r][m.index] = Target(m)
  BY <1>4, TargetNotFree DEF SlotsKept, Message
<1>5. CASE queue'[r] = queue[r]
  BY <1>1, <1>2, <1>3, <1>4, <1>5 DEF SlotsKept, PendingAt
<1>6. ASSUME NEW m \in Message, Fresh(r, s, m), queue'[r] = Append(queue[r], m)
      PROVE  PendingAt(r)'
  <2>1. /\ DOMAIN queue[r] = 1..Len(queue[r]) /\ Len(queue[r]) \in Nat
        /\ DOMAIN queue'[r] = 1..Len(queue[r]) + 1
        /\ \A i \in 1..Len(queue[r]) : queue'[r][i] = queue[r][i]
        /\ queue'[r][Len(queue[r]) + 1] = m
    BY <1>2, <1>6, AppendProperties, LenProperties
  <2>2. m.from # r /\ m.stamp = posts + 1 /\ registry[r][m.index] = Target(m)
    BY <1>6 DEF Fresh
  <2>3. ASSUME NEW i \in DOMAIN queue'[r]
        PROVE  /\ queue'[r][i].from # r
               /\ queue'[r][i].stamp <= posts'
               /\ seen[r] < queue'[r][i].stamp
               /\ r \notin cancelled' =>
                    registry'[r][queue'[r][i].index] = Target(queue'[r][i])
    <3>1. CASE i \in DOMAIN queue[r]
      <4>1. queue'[r][i] = queue[r][i] /\ queue[r][i] \in Message
        BY <3>1, <2>1, <1>3
      <4>2. r \notin cancelled' => registry'[r][queue[r][i].index] = Target(queue[r][i])
        BY <3>1, <4>1, <1>3, <1>4 DEF SlotsKept
      <4>3. QED
        BY <3>1, <4>1, <4>2, <1>1, <1>2, <1>3
    <3>2. CASE i = Len(queue[r]) + 1
      BY <3>2, <2>1, <2>2, <1>1, <1>2, <1>3, <1>4
    <3>3. QED
      BY <3>1, <3>2, <2>1
  <2>4. ASSUME NEW i \in DOMAIN queue'[r], NEW j \in DOMAIN queue'[r], i < j
        PROVE  queue'[r][i].stamp < queue'[r][j].stamp
    <3>1. i \in DOMAIN queue[r] /\ queue'[r][i] = queue[r][i]
      BY <2>1, <2>4
    <3>2. CASE j \in DOMAIN queue[r]
      BY <3>1, <3>2, <2>1, <2>4, <1>3
    <3>3. CASE j = Len(queue[r]) + 1
      BY <3>1, <3>3, <2>1, <2>2, <1>2, <1>3
    <3>4. QED
      BY <3>2, <3>3, <2>1
  <2>5. QED
    BY <2>3, <2>4, <1>1, <1>2, <1>3 DEF PendingAt
<1>7. QED
  BY <1>1, <1>5, <1>6

LEMMA QuietKeepsPending ==
  ASSUME IInv, SlotsKept, UNCHANGED <<queue, posts, seen>>
  PROVE  Pending'
<1> SUFFICES ASSUME NEW r \in Services
             PROVE  PendingAt(r)'
  BY DEF Pending
<1>1. PendingAt(r)
  BY DEF IInv, Pending
<1>2. ASSUME NEW i \in DOMAIN queue[r], r \notin cancelled'
      PROVE  registry'[r][queue[r][i].index] = Target(queue[r][i])
  <2>1. queue[r][i] \in Message
    BY ElementOfSeq, LenProperties DEF IInv, TypeOK
  <2>2. registry[r][queue[r][i].index] = Target(queue[r][i])
    BY <1>1, <1>2 DEF SlotsKept, PendingAt
  <2>3. QED
    BY <2>1, <2>2, <1>2, TargetNotFree DEF SlotsKept, Message
<1>3. QED
  BY <1>1, <1>2 DEF PendingAt

LEMMA DispatchKeepsPending ==
  ASSUME IInv, NEW s \in Services, Dispatch(s)
  PROVE  Pending'
<1>1. /\ queue[s] \in Seq(Message) /\ queue[s] # <<>>
      /\ queue' = [queue EXCEPT ![s] = Tail(queue[s])]
      /\ seen' = [seen EXCEPT ![s] = Head(queue[s]).stamp]
      /\ UNCHANGED <<registry, posts, cancelled>>
  BY DEF Dispatch, IInv, TypeOK
<1> SUFFICES ASSUME NEW r \in Services
             PROVE  PendingAt(r)'
  BY DEF Pending
<1>2. PendingAt(r)
  BY DEF IInv, Pending
<1>3. CASE r # s
  <2>1. queue'[r] = queue[r] /\ seen'[r] = seen[r]
    BY <1>1, <1>3 DEF IInv, TypeOK
  <2>2. QED
    BY <1>1, <1>2, <2>1 DEF PendingAt
<1>4. CASE r = s
  <2> DEFINE q == queue[s]
  <2>1. /\ Len(q) \in Nat /\ Len(q) > 0
        /\ DOMAIN q = 1..Len(q)
        /\ Head(q) = q[1]
        /\ DOMAIN Tail(q) = 1..Len(q) - 1
        /\ \A i \in 1..Len(q) - 1 : Tail(q)[i] = q[i + 1]
    BY <1>1, HeadTailProperties, LenProperties, EmptySeq
  <2>2. queue'[r] = Tail(q) /\ seen'[r] = q[1].stamp
    BY <1>1, <1>4, <2>1 DEF IInv, TypeOK
  <2>3. /\ q[1].stamp <= posts
        /\ \A i \in 1..Len(q) :
             /\ q[i].from # r
             /\ q[i].stamp <= posts
             /\ r \notin cancelled => registry[r][q[i].index] = Target(q[i])
             /\ \A j \in 1..Len(q) : i < j => q[i].stamp < q[j].stamp
    BY <1>2, <1>4, <2>1 DEF PendingAt
  <2> HIDE DEF q
  <2>4. ASSUME NEW i \in 1..Len(q) - 1
        PROVE  i + 1 \in 1..Len(q) /\ 1 \in 1..Len(q) /\ 1 < i + 1 /\ Tail(q)[i] = q[i + 1]
    BY <2>1
  <2>5. ASSUME NEW i \in 1..Len(q) - 1, NEW j \in 1..Len(q) - 1, i < j
        PROVE  q[i + 1].stamp < q[j + 1].stamp
    BY <2>1, <2>3, <2>4, <2>5
  <2>6. ASSUME NEW i \in DOMAIN queue'[r]
        PROVE  /\ queue'[r][i].from # r
               /\ queue'[r][i].stamp <= posts'
               /\ seen'[r] < queue'[r][i].stamp
               /\ r \notin cancelled' =>
                    registry'[r][queue'[r][i].index] = Target(queue'[r][i])
    <3>1. i \in 1..Len(q) - 1 /\ queue'[r][i] = q[i + 1]
      BY <2>1, <2>2
    <3>2. QED
      BY <3>1, <1>1, <2>2, <2>3, <2>4
  <2>7. ASSUME NEW i \in DOMAIN queue'[r], NEW j \in DOMAIN queue'[r], i < j
        PROVE  queue'[r][i].stamp < queue'[r][j].stamp
    <3>1. i \in 1..Len(q) - 1 /\ queue'[r][i] = q[i + 1]
      BY <2>1, <2>2
    <3>2. j \in 1..Len(q) - 1 /\ queue'[r][j] = q[j + 1]
      BY <2>1, <2>2
    <3>3. QED
      BY <3>1, <3>2, <2>5, <2>7
  <2>8. seen'[r] <= posts'
    BY <1>1, <2>2, <2>3
  <2>9. QED
    BY <2>6, <2>7, <2>8 DEF PendingAt
<1>5. QED
  BY <1>3, <1>4

-----------------------------------------------------------------------------
(* Every operation preserves the invariant. *)

SubscriberOf(t) == [kind |-> "subscriber", topic |-> t]
WatcherOf(t) == [kind |-> "watcher", topic |-> t]

LEMMA HandlersOfTopic ==
  ASSUME NEW t \in Topics
  PROVE  /\ SubscriberOf(t) \in Handler /\ Entries(SubscriberOf(t)) = topics[t]
         /\ WatcherOf(t) \in Handler /\ Entries(WatcherOf(t)) = watchs[t]
BY DEF SubscriberOf, WatcherOf, Handler, Entries

LEMMA SubscribeKeeps ==
  ASSUME IInv, NEW s \in Services, NEW t \in Topics, Subscribe(s, t)
  PROVE  IInv'
<1>1. PICK r \in Refs :
        /\ Ref(s, SubscriberOf(t), r)
        /\ topics' = [topics EXCEPT ![t] = Append(@, [ios |-> s, index |-> r])]
  BY DEF Subscribe, SubscriberOf
<1>2. /\ ~Has(topics[t], s)
      /\ Notify(t, "subscribe", s)
      /\ UNCHANGED <<watchs, alive, seen, view, cancelled>>
  BY DEF Subscribe
<1>3. TypeOK /\ Tables
  BY DEF IInv
<1>4. Posting(s, t)
  BY <1>2, <1>3, NotifyIsPosting
<1>5. registry' = [registry EXCEPT ![s][r] = SubscriberOf(t)] /\ registry[s][r] = Free
  BY <1>1 DEF Ref
<1>6. \A g \in Handler : Entries(g)' =
        IF g = SubscriberOf(t) THEN Append(Entries(g), [ios |-> s, index |-> r]) ELSE Entries(g)
  BY <1>1, <1>2, <1>3 DEF TypeOK, Entries, Handler, SubscriberOf
<1>7. Tables'
  BY <1>1, <1>2, <1>3, <1>6, TakeSlot, HandlersOfTopic DEF Ref
<1>8. SlotsKept
  BY <1>2, <1>3, <1>5 DEF SlotsKept, TypeOK
<1>9. Pending'
  BY <1>2, <1>4, <1>8, PostingKeepsPending
<1>10. TypeOK'
  <2>1. queue' \in [Services -> Seq(Message)] /\ posts' \in 0..MaxPosts
    BY <1>3, <1>4, PostingProperties
  <2>2. topics' \in [Topics -> Seq(Item)]
    BY <1>1, <1>3, AppendProperties DEF TypeOK, Item
  <2>3. registry' \in [Services -> [Refs -> Handler \union {Free}]]
    BY <1>3, <1>5, HandlersOfTopic DEF TypeOK
  <2>4. QED
    BY <2>1, <2>2, <2>3, <1>2, <1>3 DEF TypeOK
<1>11. QED
  BY <1>7, <1>9, <1>10 DEF IInv

LEMMA WatchKeeps ==
  ASSUME IInv, NEW s \in Services, NEW t \in Topics, Watch(s, t)
  PROVE  IInv'
<1>1. PICK r \in Refs :
        /\ Ref(s, WatcherOf(t), r)
        /\ watchs' = [watchs EXCEPT ![t] = Append(@, [ios |-> s, index |-> r])]
  BY DEF Watch, WatcherOf
<1>2. /\ ~Has(watchs[t], s)
      /\ view' = [view EXCEPT ![s][t] = Members(topics[t]) \ {s}]
      /\ UNCHANGED <<topics, queue, alive, posts, seen, cancelled>>
  BY DEF Watch
<1>3. TypeOK /\ Tables
  BY DEF IInv
<1>4. registry' = [registry EXCEPT ![s][r] = WatcherOf(t)] /\ registry[s][r] = Free
  BY <1>1 DEF Ref
<1>5. \A g \in Handler : Entries(g)' =
        IF g = WatcherOf(t) THEN Append(Entries(g), [ios |-> s, index |-> r]) ELSE Entries(g)
  BY <1>1, <1>2, <1>3 DEF TypeOK, Entries, Handler, WatcherOf
<1>6. Tables'
  BY <1>1, <1>2, <1>3, <1>5, TakeSlot, HandlersOfTopic DEF Ref
<1>7. SlotsKept
  BY <1>2, <1>3, <1>4 DEF SlotsKept, TypeOK
<1>8. Pending'
  BY <1>2, <1>7, QuietKeepsPending
<1>9. TypeOK'
  <2>1. watchs' \in [Topics -> Seq(Item)]
    BY <1>1, <1>3, AppendProperties DEF TypeOK, Item
  <2>2. registry' \in [Services -> [Refs -> Handler \union {Free}]]
    BY <1>3, <1>4, HandlersOfTopic DEF TypeOK
  <2>3. view' \in [Services -> [Topics -> SUBSET Services]]
    BY <1>2, <1>3, MembersAreServices DEF TypeOK
  <2>4. QED
    BY <2>1, <2>2, <2>3, <1>2, <1>3 DEF TypeOK
<1>10. QED
  BY <1>6, <1>8, <1>9 DEF IInv

LEMMA HasIsMember == ASSUME NEW q, NEW s, Has(q, s) PROVE s \in Members(q)
BY DEF Has, Members

LEMMA CancelKeeps ==
  ASSUME IInv, NEW s \in Services, NEW t \in Topics, Cancel(s, t)
  PROVE  IInv'
<1>1. /\ Has(topics[t], s)
      /\ Unref(s, IndexOf(topics[t], s))
      /\ topics' = [topics EXCEPT ![t] = RemoveAt(topics[t], At(topics[t], s))]
      /\ Notify(t, "cancel", s)
      /\ cancelled' = cancelled \union {s}
      /\ UNCHANGED <<watchs, alive, seen, view>>
  BY DEF Cancel
<1>2. TypeOK /\ Tables /\ topics[t] \in Seq(Item) /\ s \in Members(topics[t])
  BY <1>1, HasIsMember DEF IInv, TypeOK
<1>3. Posting(s, t)
  BY <1>1, <1>2, NotifyIsPosting
<1>4. IndexOf(topics[t], s) \in Refs
  BY <1>2, AtProperties
<1>5. registry' = [registry EXCEPT ![s][IndexOf(topics[t], s)] = Free]
  BY <1>1 DEF Unref
<1>6. \A g \in Handler : Entries(g)' =
        IF g = SubscriberOf(t) THEN RemoveAt(Entries(g), At(Entries(g), s)) ELSE Entries(g)
  BY <1>1, <1>2 DEF TypeOK, Entries, Handler, SubscriberOf
<1>7. Tables'
  BY <1>1, <1>2, <1>6, ReleaseSlot, HandlersOfTopic DEF Unref
<1>8. SlotsKept
  BY <1>1, <1>2, <1>5 DEF SlotsKept, TypeOK
<1>9. Pending'
  BY <1>1, <1>3, <1>8, PostingKeepsPending
<1>10. TypeOK'
  <2>1. queue' \in [Services -> Seq(Message)] /\ posts' \in 0..MaxPosts
    BY <1>2, <1>3, PostingProperties
  <2>2. topics' \in [Topics -> Seq(Item)]
    BY <1>1, <1>2, AtProperties, RemoveAtProperties DEF TypeOK
  <2>3. registry' \in [Services -> [Refs -> Handler \union {Free}]]
    BY <1>2, <1>4, <1>5 DEF TypeOK
  <2>4. QED
    BY <2>1, <2>2, <2>3, <1>1, <1>2 DEF TypeOK
<1>11. QED
  BY <1>7, <1>9, <1>10 DEF IInv

LEMMA CancelWatchKeeps ==
  ASSUME IInv, NEW s \in Services, NEW t \in Topics, CancelWatch(s, t)
  PROVE  IInv'
<1>1. /\ Has(watchs[t], s)
      /\ Unref(s, IndexOf(watchs[t], s))
      /\ watchs' = [watchs EXCEPT ![t] = RemoveAt(watchs[t], At(watchs[t], s))]
      /\ cancelled' = cancelled \union {s}
      /\ UNCHANGED <<topics, queue, alive, posts, seen, view>>
  BY DEF CancelWatch
<1>2. TypeOK /\ Tables /\ watchs[t] \in Seq(Item) /\ s \in Members(watchs[t])
  BY <1>1, HasIsMember DEF IInv, TypeOK
<1>3. IndexOf(watchs[t], s) \in Refs
  BY <1>2, AtProperties
<1>4. registry' = [registry EXCEPT ![s][IndexOf(watchs[t], s)] = Free]
  BY <1>1 DEF Unref
<1>5. \A g \in Handler : Entries(g)' =
        IF g = WatcherOf(t) THEN RemoveAt(Entries(g), At(Entries(g), s)) ELSE Entries(g)
  BY <1>1, <1>2 DEF TypeOK, Entries, Handler, WatcherOf
<1>6. Tables'
  BY <1>1, <1>2, <1>5, ReleaseSlot, HandlersOfTopic DEF Unref
<1>7. SlotsKept
  BY <1>1, <1>2, <1>4 DEF SlotsKept, TypeOK
<1>8. Pending'
  BY <1>1, <1>7, QuietKeepsPending
<1>9. TypeOK'
  <2>1. watchs' \in [Topics -> Seq(Item)]
    BY <1>1, <1>2, AtProperties, RemoveAtProperties DEF TypeOK
  <2>2. registry' \in [Services -> [Refs -> Handler \union {Free}]]
    BY <1>2, <1>3, <1>4 DEF TypeOK
  <2>3. QED
    BY <2>1, <2>2, <1>1, <1>2 DEF TypeOK
<1>10. QED
  BY <1>6, <1>8, <1>9 DEF IInv

LEMMA SameTables ==
  ASSUME Tables, UNCHANGED <<topics, watchs, registry>>
  PROVE  Tables'
<1>1. \A h \in Handler : Entries(h)' = Entries(h)
  BY DEF Entries
<1>2. ListedOnce'
  BY <1>1, SMTT(40) DEF Tables, ListedOnce, Once
<1>3. RefsOwned'
  BY <1>1 DEF Tables, RefsOwned
<1>4. QED
  BY <1>1, <1>2, <1>3 DEF Tables

LEMMA PublishKeeps ==
  ASSUME IInv, NEW s \in Services, NEW t \in Topics, NEW mask \in Masks, NEW receiver,
         Publish(s, t, mask, receiver)
  PROVE  IInv'
<1>1. UNCHANGED <<topics, watchs, registry, alive, seen, view, cancelled>>
  BY DEF Publish
<1>2. TypeOK /\ Tables /\ ListedOnce
  BY DEF IInv, Tables
<1>3. Posting(s, t)
  BY <1>2, PublishIsPosting DEF Publish
<1>4. Tables'
  BY <1>1, <1>2, SameTables
<1>5. Pending'
  <2>1. SlotsKept
    BY <1>1 DEF SlotsKept
  <2>2. QED
    BY <1>1, <1>3, <2>1, PostingKeepsPending
<1>6. TypeOK'
  BY <1>1, <1>2, <1>3, PostingProperties DEF TypeOK
<1>7. QED
  BY <1>4, <1>5, <1>6 DEF IInv

LEMMA DispatchKeeps ==
  ASSUME IInv, NEW s \in Services, Dispatch(s)
  PROVE  IInv'
<1>1. /\ queue[s] \in Seq(Message) /\ queue[s] # <<>>
      /\ queue' = [queue EXCEPT ![s] = Tail(queue[s])]
      /\ seen' = [seen EXCEPT ![s] = Head(queue[s]).stamp]
      /\ \/ Failed(s, registry[s][Head(queue[s]).index])
         \/ Handled(s, registry[s][Head(queue[s]).index], Head(queue[s]))
      /\ UNCHANGED <<topics, watchs, registry, posts, cancelled>>
  BY DEF Dispatch, IInv, TypeOK
<1>2. TypeOK /\ Tables
  BY DEF IInv
<1>3. Head(queue[s]) \in Message /\ Tail(queue[s]) \in Seq(Message)
  BY <1>1, HeadTailProperties
<1>4. registry[s][Head(queue[s]).index] \in Handler \union {Free}
  BY <1>2, <1>3 DEF TypeOK, Message
<1>5. alive' \subseteq Services /\ view' \in [Services -> [Topics -> SUBSET Services]]
  <2>1. CASE Failed(s, registry[s][Head(queue[s]).index])
    BY <2>1, <1>2 DEF Failed, TypeOK
  <2>2. CASE Handled(s, registry[s][Head(queue[s]).index], Head(queue[s]))
    <3>1. registry[s][Head(queue[s]).index].topic \in Topics
      BY <2>2, <1>4 DEF Handled, Handler
    <3>2. Head(queue[s]).from \in Services
      BY <1>3 DEF Message
    <3>3. \A S \in SUBSET Services :
             [view EXCEPT ![s][registry[s][Head(queue[s]).index].topic] = S]
               \in [Services -> [Topics -> SUBSET Services]]
      BY <3>1, <1>2, SMTT(40) DEF TypeOK
    <3>4. view[s][registry[s][Head(queue[s]).index].topic] \in SUBSET Services
      BY <3>1, <1>2 DEF TypeOK
    <3>5. /\ view[s][registry[s][Head(queue[s]).index].topic]
                \union {Head(queue[s]).from} \in SUBSET Services
          /\ view[s][registry[s][Head(queue[s]).index].topic]
                \ {Head(queue[s]).from} \in SUBSET Services
      BY <3>2, <3>4
    <3>6. alive' = alive /\ view' \in [Services -> [Topics -> SUBSET Services]]
      BY <2>2, <3>3, <3>5, <1>2, ZenonT(60) DEF Handled, TypeOK
    <3>7. QED
      BY <3>6, <1>2 DEF TypeOK
  <2>3. QED
    BY <2>1, <2>2, <1>1
<1>6. TypeOK'
  <2>1. queue' \in [Services -> Seq(Message)]
    BY <1>1, <1>2, <1>3 DEF TypeOK
  <2>2. Head(queue[s]).stamp \in 0..MaxPosts
    BY <1>3, BusAssumption DEF Message
  <2>3. seen' \in [Services -> 0..MaxPosts]
    BY <1>1, <1>2, <2>2 DEF TypeOK
  <2>4. QED
    BY <1>1, <1>2, <1>5, <2>1, <2>3 DEF TypeOK
<1>7. Tables' /\ Pending'
  BY <1>1, <1>2, SameTables, DispatchKeepsPending
<1>8. QED
  BY <1>6, <1>7 DEF IInv

LEMMA ExitKeeps ==
  ASSUME IInv, NEW s \in Services, Exit(s)
  PROVE  IInv'
<1>1. TypeOK /\ Tables
  BY DEF IInv
<1>2. TypeOK'
  BY <1>1 DEF Exit, TypeOK
<1>3. Tables'
  BY <1>1, SameTables DEF Exit
<1>4. Pending'
  BY QuietKeepsPending DEF Exit, SlotsKept
<1>5. QED
  BY <1>2, <1>3, <1>4 DEF IInv

LEMMA InitIInv == Init => IInv
<1> SUFFICES ASSUME Init PROVE IInv
  OBVIOUS
<1>1. TypeOK
  BY BusAssumption DEF Init, TypeOK, Handler
<1>2. Tables
  BY DEF Init, Tables, ListedOnce, RefsOwned, Entries, Once, Handler, Free
<1>3. Pending
  BY DEF Init, Pending, PendingAt
<1>4. QED
  BY <1>1, <1>2, <1>3 DEF IInv

LEMMA NextIInv == IInv /\ [Next]_vars => IInv'
<1> SUFFICES ASSUME IInv, [Next]_vars PROVE IInv'
  OBVIOUS
<1>1. CASE UNCHANGED vars
  <2>1. TypeOK' /\ Tables'
    BY <1>1, SameTables DEF vars, IInv, TypeOK
  <2>2. Pending'
    BY <1>1, QuietKeepsPending DEF vars, SlotsKept
  <2>3. QED
    BY <2>1, <2>2 DEF IInv
<1>2. CASE Next
  <2>1. PICK s \in Services :
          \/ \E t \in Topics :
               \/ Subscribe(s, t) \/ Cancel(s, t) \/ Watch(s, t) \/ CancelWatch(s, t)
               \/ \E mask \in Masks, receiver \in Services \union {Nobody} :
                    Publish(s, t, mask, receiver)
          \/ Dispatch(s)
          \/ Exit(s)
    BY <1>2 DEF Next
  <2>2. QED
    BY <2>1, SubscribeKeeps, CancelKeeps, WatchKeeps, CancelWatchKeeps, PublishKeeps,
       DispatchKeeps, ExitKeeps
<1>3. QED
  BY <1>1, <1>2

-----------------------------------------------------------------------------
(* The theorems: what the runs check on small instances, for all constants. *)

THEOREM Invariance == Spec => []IInv
<1>1. QED
  BY InitIInv, NextIInv, PTL DEF Spec

\* Type correctness.
THEOREM TypeCorrect == Spec => []TypeOK
<1>1. IInv => TypeOK
  BY DEF IInv
<1>2. QED
  BY <1>1, Invariance, PTL

\* A service is listed at most once per topic, as subscriber and as watcher
\* (the duplicate check of os.subscribe and os.watch).
THEOREM ListedOnceAlways == Spec => []ListedOnce
<1>1. IInv => ListedOnce
  BY DEF IInv, Tables
<1>2. QED
  BY <1>1, Invariance, PTL

\* Table entries and occupied registry slots correspond: os.cancel and
\* os.cancel_watch release exactly the reference os.subscribe or os.watch took.
THEOREM RefsOwnedAlways == Spec => []RefsOwned
<1>1. IInv => RefsOwned
  BY DEF IInv, Tables
<1>2. QED
  BY <1>1, Invariance, PTL

\* No service is posted its own publish or notification, whatever the mask.
THEOREM NoEchoAlways == Spec => []NoEcho
<1>1. IInv => NoEcho
  BY PendingImplies DEF IInv
<1>2. QED
  BY <1>1, Invariance, PTL

\* All services handle what is posted in the one order of the lock.
THEOREM LockOrderAlways == Spec => []LockOrder
<1>1. IInv => LockOrder
  BY PendingImplies DEF IInv
<1>2. QED
  BY <1>1, Invariance, PTL

\* Messages pending at a service that never cancelled reach their handler.
THEOREM SteadyTargetsAlways == Spec => []SteadyTargets
<1>1. IInv => SteadyTargets
  BY PendingImplies DEF IInv
<1>2. QED
  BY <1>1, Invariance, PTL

-----------------------------------------------------------------------------
(* What a watcher knows.  The last notification about a service that is still  *)
(* to be handled says whether it is listed; without one, the view does.        *)

About(m, t, u) == m.kind # "publish" /\ m.topic = t /\ m.from = u

\* The queue q and the view, in which u is or is not (now), tell of u what holds (in).
Settled(q, t, u, in, now) ==
  /\ \A i \in DOMAIN q :
       About(q[i], t, u) /\ (\A j \in DOMAIN q : i < j => ~About(q[j], t, u))
         => (q[i].kind = "subscribe" <=> in)
  /\ (\A i \in DOMAIN q : ~About(q[i], t, u)) => (now <=> in)

\* The watchers of the topic that never cancelled.
Steady(t) == (Members(watchs[t]) \intersect alive) \ cancelled

Told ==
  \A t \in Topics : \A w \in Steady(t) : \A u \in Services \ {w} :
    Settled(queue[w], t, u, u \in Members(topics[t]), u \in view[w][t])

NotSelf == \A t \in Topics, w \in Services : w \notin view[w][t]

LEMMA AppendSettled ==
  ASSUME NEW q \in Seq(Message), NEW m \in Message, NEW t, NEW u,
         NEW in \in BOOLEAN, NEW now \in BOOLEAN,
         \/ About(m, t, u) /\ (m.kind = "subscribe" <=> in)
         \/ ~About(m, t, u) /\ Settled(q, t, u, in, now)
  PROVE  Settled(Append(q, m), t, u, in, now)
<1> PICK p : p = Append(q, m)
  OBVIOUS
<1> PICK n \in Nat : n = Len(q)
  BY LenProperties
<1>1. /\ DOMAIN q = 1..n /\ DOMAIN p = 1..n + 1 /\ p[n + 1] = m
      /\ \A i \in 1..n : p[i] = q[i]
  BY AppendProperties, LenProperties
<1>2. CASE About(m, t, u) /\ (m.kind = "subscribe" <=> in)
  <2>1. ASSUME NEW i \in DOMAIN p, \A j \in DOMAIN p : i < j => ~About(p[j], t, u)
        PROVE  i = n + 1
    <3>1. n + 1 \in DOMAIN p /\ ~(i < n + 1)
      BY <1>1, <1>2, <2>1
    <3>2. QED
      BY <1>1, <3>1
  <2>2. n + 1 \in DOMAIN p /\ About(p[n + 1], t, u)
    BY <1>1, <1>2
  <2>3. QED
    BY <1>1, <1>2, <2>1, <2>2 DEF Settled
<1>3. CASE ~About(m, t, u) /\ Settled(q, t, u, in, now)
  <2>1. ASSUME NEW i \in DOMAIN p, About(p[i], t, u),
               \A j \in DOMAIN p : i < j => ~About(p[j], t, u)
        PROVE  p[i].kind = "subscribe" <=> in
    <3>1. i \in DOMAIN q /\ p[i] = q[i]
      BY <1>1, <1>3, <2>1
    <3>2. \A j \in DOMAIN q : i < j => ~About(q[j], t, u)
      BY <1>1, <2>1
    <3>3. QED
      BY <1>3, <2>1, <3>1, <3>2 DEF Settled
  <2>2. (\A i \in DOMAIN p : ~About(p[i], t, u)) => (\A i \in DOMAIN q : ~About(q[i], t, u))
    BY <1>1
  <2>3. QED
    BY <1>3, <2>1, <2>2 DEF Settled
<1>4. QED
  BY <1>2, <1>3

LEMMA TailSettled ==
  ASSUME NEW q \in Seq(Message), q # <<>>, NEW t, NEW u,
         NEW in \in BOOLEAN, NEW now \in BOOLEAN, NEW then \in BOOLEAN,
         Settled(q, t, u, in, now),
         then <=> IF About(Head(q), t, u) THEN Head(q).kind = "subscribe" ELSE now
  PROVE  Settled(Tail(q), t, u, in, then)
<1> PICK p : p = Tail(q)
  OBVIOUS
<1>1. Len(q) \in Nat \ {0}
  BY LenProperties, EmptySeq
<1> PICK n \in Nat : n + 1 = Len(q)
  <2>1. Len(q) - 1 \in Nat /\ Len(q) - 1 + 1 = Len(q)
    BY <1>1
  <2>2. QED
    BY <2>1
<1>2. /\ DOMAIN q = 1..n + 1 /\ DOMAIN p = 1..n /\ Head(q) = q[1]
      /\ \A i \in 1..n : p[i] = q[i + 1]
  BY HeadTailProperties, LenProperties
<1>3. ASSUME NEW i \in DOMAIN p, About(p[i], t, u),
             \A j \in DOMAIN p : i < j => ~About(p[j], t, u)
      PROVE  p[i].kind = "subscribe" <=> in
  <2>1. i + 1 \in DOMAIN q /\ p[i] = q[i + 1]
    BY <1>2
  <2>2. ASSUME NEW j \in DOMAIN q, i + 1 < j PROVE ~About(q[j], t, u)
    <3>1. j - 1 \in 1..n /\ i < j - 1 /\ (j - 1) + 1 = j
      BY <1>2, <2>2
    <3>2. p[j - 1] = q[j]
      BY <1>2, <3>1
    <3>3. QED
      BY <1>2, <1>3, <3>1, <3>2
  <2>3. QED
    BY <1>3, <2>1, <2>2 DEF Settled
<1>4. ASSUME \A i \in DOMAIN p : ~About(p[i], t, u) PROVE then <=> in
  <2>1. ASSUME NEW j \in DOMAIN q, 1 < j PROVE ~About(q[j], t, u)
    <3>1. j - 1 \in 1..n /\ (j - 1) + 1 = j
      BY <1>2, <2>1
    <3>2. p[j - 1] = q[j]
      BY <1>2, <3>1
    <3>3. QED
      BY <1>2, <1>4, <3>1, <3>2
  <2>2. 1 \in DOMAIN q
    BY <1>2
  <2>3. CASE About(q[1], t, u)
    BY <1>2, <2>1, <2>2, <2>3 DEF Settled
  <2>4. CASE ~About(q[1], t, u)
    <3>1. \A j \in DOMAIN q : ~About(q[j], t, u)
      <4>1. \A j \in DOMAIN q : j = 1 \/ 1 < j
        BY <1>2
      <4>2. QED
        BY <2>1, <2>4, <4>1
    <3>2. QED
      BY <1>2, <2>4, <3>1 DEF Settled
  <2>5. QED
    BY <2>3, <2>4
<1>5. QED
  BY <1>3, <1>4 DEF Settled

\* Who is listed after an entry is added or removed.
LEMMA MembersAppend ==
  ASSUME NEW q \in Seq(Item), NEW e \in Item
  PROVE  Members(Append(q, e)) = Members(q) \union {e.ios}
<1> PICK n \in Nat : n = Len(q)
  BY LenProperties
<1> PICK p : p = Append(q, e)
  OBVIOUS
<1>1. /\ DOMAIN q = 1..n /\ DOMAIN p = 1..n + 1 /\ p[n + 1] = e
      /\ \A i \in 1..n : p[i] = q[i]
  BY AppendProperties, LenProperties
<1>2. QED
  BY <1>1 DEF Members

LEMMA MembersRemove ==
  ASSUME NEW q \in Seq(Item), NEW s \in Members(q), Once(q)
  PROVE  Members(RemoveAt(q, At(q, s))) = Members(q) \ {s}
<1> PICK p : p = RemoveAt(q, At(q, s))
  OBVIOUS
<1>1. /\ \A i \in DOMAIN p : \E j \in DOMAIN q : p[i] = q[j] /\ q[j].ios # s
      /\ \A j \in DOMAIN q : q[j].ios # s => \E i \in DOMAIN p : p[i] = q[j]
  BY RemoveEntry
<1>2. QED
  BY <1>1 DEF Members

\* The queue of w and its view tell of u what holds, for the topic t.
ToldOf(w, t, u) == Settled(queue[w], t, u, u \in Members(topics[t]), u \in view[w][t])

\* A change of the subscribers of a topic, with its notification.
LEMMA NotifyTold ==
  ASSUME IInv, Told, NEW s \in Services, NEW t \in Topics,
         NEW kind \in {"subscribe", "cancel"}, Notify(t, kind, s),
         \A t1 \in Topics : t1 # t => topics'[t1] = topics[t1],
         Members(topics'[t]) = IF kind = "subscribe" THEN Members(topics[t]) \union {s}
                                                     ELSE Members(topics[t]) \ {s},
         UNCHANGED <<watchs, alive, view>>, cancelled \subseteq cancelled'
  PROVE  Told'
<1> SUFFICES ASSUME NEW t1 \in Topics, NEW w \in Steady(t1)', NEW u \in Services \ {w}
             PROVE  ToldOf(w, t1, u)'
  BY DEF Told, ToldOf
<1>1. w \in Steady(t1) /\ w \in Services /\ w \in Members(watchs[t1]) /\ w \in alive
  BY DEF Steady, IInv, TypeOK
<1> PICK in \in BOOLEAN : in <=> u \in Members(topics'[t1])
  OBVIOUS
<1> PICK now \in BOOLEAN : now <=> u \in view[w][t1]
  OBVIOUS
<1>2. Settled(queue[w], t1, u, u \in Members(topics[t1]), u \in view[w][t1])
  BY <1>1 DEF Told
<1>3. ~(t1 = t /\ u = s) => Settled(queue[w], t1, u, in, now)
  <2>1. ~(t1 = t /\ u = s) => (u \in Members(topics[t1]) <=> in)
    OBVIOUS
  <2>2. QED
    BY <1>2, <2>1 DEF Settled
<1>4. t1 = t /\ u = s => (kind = "subscribe" <=> in)
  OBVIOUS
<1>5. CASE w \in Members(watchs[t]) /\ w # s
  <2> PICK m : m = [kind |-> kind, topic |-> t, index |-> IndexOf(watchs[t], w),
                    from |-> s, stamp |-> posts + 1]
    OBVIOUS
  <2>1. queue'[w] = Append(queue[w], m) /\ posts + 1 \in 1..MaxPosts
    BY <1>1, <1>5, BusAssumption DEF Notify, Post, IInv, TypeOK
  <2>2. m \in Message /\ queue[w] \in Seq(Message)
    <3>1. IndexOf(watchs[t], w) \in Refs
      BY <1>5, AtProperties DEF IInv, TypeOK
    <3>2. QED
      BY <1>1, <2>1, <3>1 DEF Message, IInv, TypeOK
  <2>3. About(m, t1, u) <=> t1 = t /\ u = s
    BY DEF About
  <2>4. m.kind = kind
    OBVIOUS
  <2>5. Settled(queue'[w], t1, u, in, now)
    BY <1>3, <1>4, <2>1, <2>2, <2>3, <2>4, AppendSettled
  <2>6. QED
    BY <2>5 DEF Settled, ToldOf
<1>6. CASE ~(w \in Members(watchs[t]) /\ w # s)
  <2>1. queue'[w] = queue[w]
    BY <1>1, <1>6 DEF Notify, Post
  <2>2. ~(t1 = t /\ u = s)
    BY <1>1, <1>6
  <2>3. QED
    BY <1>3, <2>1, <2>2 DEF Settled, ToldOf
<1>7. QED
  BY <1>5, <1>6

\* What is known stays known when no watcher is added and no subscriber changes.
LEMMA QuietTold ==
  ASSUME Told, \A t \in Topics : Steady(t)' \subseteq Steady(t),
         UNCHANGED <<topics, queue, view>>
  PROVE  Told'
BY DEF Told, Settled

\* A notification that waits at a service that never cancelled is for a watcher.
LEMMA NotesAreWatched ==
  ASSUME IInv, NEW w \in Services \ cancelled, NEW i \in DOMAIN queue[w],
         queue[w][i].kind # "publish"
  PROVE  w \in Members(watchs[queue[w][i].topic])
<1>1. queue[w][i] \in Message
  BY ElementOfSeq, LenProperties DEF IInv, TypeOK
<1> PICK h : h = Target(queue[w][i])
  OBVIOUS
<1>2. h \in Handler /\ h = WatcherOf(queue[w][i].topic) /\ queue[w][i].index \in Refs
      /\ queue[w][i].topic \in Topics
  BY <1>1 DEF Target, Handler, Message, WatcherOf
<1>3. registry[w][queue[w][i].index] = h
  BY DEF IInv, Pending, PendingAt
<1>4. PICK j \in DOMAIN Entries(h) : Entries(h)[j] = [ios |-> w, index |-> queue[w][i].index]
  BY <1>2, <1>3 DEF IInv, Tables, RefsOwned
<1>5. Entries(h) = watchs[queue[w][i].topic]
  BY <1>2, HandlersOfTopic
<1>6. watchs[queue[w][i].topic][j].ios = w
  BY <1>4, <1>5
<1>7. QED
  BY <1>4, <1>5, <1>6 DEF Members

LEMMA SubscribeTold ==
  ASSUME IInv, Told, NEW s \in Services, NEW t \in Topics, Subscribe(s, t)
  PROVE  Told'
<1>1. PICK r \in Refs : topics' = [topics EXCEPT ![t] = Append(@, [ios |-> s, index |-> r])]
  BY DEF Subscribe
<1> PICK e : e = [ios |-> s, index |-> r]
  OBVIOUS
<1>2. e \in Item /\ topics[t] \in Seq(Item) /\ e.ios = s
  BY DEF Item, IInv, TypeOK
<1>3. /\ Members(topics'[t]) = Members(topics[t]) \union {s}
      /\ \A t1 \in Topics : t1 # t => topics'[t1] = topics[t1]
  <2>1. topics'[t] = Append(topics[t], e)
    BY <1>1 DEF IInv, TypeOK
  <2>2. QED
    BY <1>1, <1>2, <2>1, MembersAppend DEF IInv, TypeOK
<1>4. /\ Notify(t, "subscribe", s)
      /\ UNCHANGED <<watchs, alive, view>> /\ cancelled \subseteq cancelled'
  BY DEF Subscribe
<1>5. QED
  BY <1>3, <1>4, NotifyTold

LEMMA CancelTold ==
  ASSUME IInv, Told, NEW s \in Services, NEW t \in Topics, Cancel(s, t)
  PROVE  Told'
<1>1. /\ Has(topics[t], s)
      /\ topics' = [topics EXCEPT ![t] = RemoveAt(topics[t], At(topics[t], s))]
      /\ Notify(t, "cancel", s)
      /\ UNCHANGED <<watchs, alive, view>> /\ cancelled \subseteq cancelled'
  BY DEF Cancel
<1>2. topics[t] \in Seq(Item) /\ s \in Members(topics[t]) /\ Once(topics[t])
  <2>1. SubscriberOf(t) \in Handler /\ Entries(SubscriberOf(t)) = topics[t]
    BY HandlersOfTopic
  <2>2. QED
    BY <1>1, <2>1, HasIsMember DEF IInv, TypeOK, Tables, ListedOnce
<1>3. /\ Members(topics'[t]) = Members(topics[t]) \ {s}
      /\ \A t1 \in Topics : t1 # t => topics'[t1] = topics[t1]
  <2>1. topics'[t] = RemoveAt(topics[t], At(topics[t], s))
    BY <1>1 DEF IInv, TypeOK
  <2>2. QED
    BY <1>1, <1>2, <2>1, MembersRemove DEF IInv, TypeOK
<1>4. QED
  BY <1>1, <1>3, NotifyTold

LEMMA WatchTold ==
  ASSUME IInv, Told, NEW s \in Services, NEW t \in Topics, Watch(s, t)
  PROVE  Told'
<1>1. PICK r \in Refs : watchs' = [watchs EXCEPT ![t] = Append(@, [ios |-> s, index |-> r])]
  BY DEF Watch
<1>2. /\ ~Has(watchs[t], s) /\ view' = [view EXCEPT ![s][t] = Members(topics[t]) \ {s}]
      /\ UNCHANGED <<topics, queue, alive, cancelled>>
  BY DEF Watch
<1> PICK e : e = [ios |-> s, index |-> r]
  OBVIOUS
<1>3. /\ Members(watchs'[t]) = Members(watchs[t]) \union {s}
      /\ \A t1 \in Topics : t1 # t => watchs'[t1] = watchs[t1]
  <2>1. e \in Item /\ watchs[t] \in Seq(Item) /\ e.ios = s
    BY DEF Item, IInv, TypeOK
  <2>2. watchs'[t] = Append(watchs[t], e)
    BY <1>1 DEF IInv, TypeOK
  <2>3. QED
    BY <1>1, <2>1, <2>2, MembersAppend DEF IInv, TypeOK
<1> SUFFICES ASSUME NEW t1 \in Topics, NEW w \in Steady(t1)', NEW u \in Services \ {w}
             PROVE  ToldOf(w, t1, u)'
  BY DEF Told, ToldOf
<1>4. w \in Services /\ w \in alive /\ w \notin cancelled
  BY <1>2 DEF Steady, IInv, TypeOK
<1>5. CASE w = s /\ t1 = t
  <2>1. \A i \in DOMAIN queue[w] : ~About(queue[w][i], t, u)
    <3> SUFFICES ASSUME NEW i \in DOMAIN queue[w], About(queue[w][i], t, u)
                 PROVE  FALSE
      OBVIOUS
    <3>1. w \in Members(watchs[t])
      BY <1>4, NotesAreWatched DEF About
    <3>2. QED
      BY <1>2, <1>5, <3>1 DEF Has, Members
  <2>2. u \in view'[w][t] <=> u \in Members(topics[t])
    BY <1>2, <1>5 DEF IInv, TypeOK
  <2>3. QED
    BY <1>2, <1>5, <2>1, <2>2 DEF ToldOf, Settled
<1>6. CASE ~(w = s /\ t1 = t)
  <2>1. w \in Members(watchs[t1])
    BY <1>3, <1>6 DEF Steady
  <2>2. ToldOf(w, t1, u)
    BY <1>4, <2>1 DEF Told, ToldOf, Steady
  <2>3. view'[w][t1] = view[w][t1]
    BY <1>2, <1>4, <1>6 DEF IInv, TypeOK
  <2>4. QED
    BY <1>2, <2>2, <2>3 DEF ToldOf, Settled
<1>7. QED
  BY <1>5, <1>6

LEMMA CancelWatchTold ==
  ASSUME IInv, Told, NEW s \in Services, NEW t \in Topics, CancelWatch(s, t)
  PROVE  Told'
<1>1. /\ Has(watchs[t], s)
      /\ watchs' = [watchs EXCEPT ![t] = RemoveAt(watchs[t], At(watchs[t], s))]
      /\ UNCHANGED <<topics, queue, alive, view>> /\ cancelled \subseteq cancelled'
  BY DEF CancelWatch
<1>2. watchs[t] \in Seq(Item) /\ s \in Members(watchs[t]) /\ Once(watchs[t])
  <2>1. WatcherOf(t) \in Handler /\ Entries(WatcherOf(t)) = watchs[t]
    BY HandlersOfTopic
  <2>2. QED
    BY <1>1, <2>1, HasIsMember DEF IInv, TypeOK, Tables, ListedOnce
<1>3. \A t1 \in Topics : Members(watchs'[t1]) \subseteq Members(watchs[t1])
  <2>1. watchs'[t] = RemoveAt(watchs[t], At(watchs[t], s))
    BY <1>1 DEF IInv, TypeOK
  <2>2. Members(watchs'[t]) = Members(watchs[t]) \ {s}
    BY <1>2, <2>1, MembersRemove
  <2>3. \A t1 \in Topics : t1 # t => watchs'[t1] = watchs[t1]
    BY <1>1 DEF IInv, TypeOK
  <2>4. QED
    BY <2>2, <2>3
<1>4. \A t1 \in Topics : Steady(t1)' \subseteq Steady(t1)
  BY <1>1, <1>3 DEF Steady
<1>5. QED
  BY <1>1, <1>4, QuietTold

LEMMA PublishTold ==
  ASSUME IInv, Told, NEW s \in Services, NEW t \in Topics, NEW mask \in Masks, NEW receiver,
         Publish(s, t, mask, receiver)
  PROVE  Told'
<1> PICK R : R = Receivers(topics[t], s, mask, receiver)
  OBVIOUS
<1>1. /\ Post(R, topics[t], "publish", t, s)
      /\ UNCHANGED <<topics, watchs, alive, view, cancelled>>
  BY DEF Publish
<1>2. R \subseteq Members(topics[t]) \ {s}
  BY ReceiversAreOthers DEF IInv, Tables
<1> SUFFICES ASSUME NEW t1 \in Topics, NEW w \in Steady(t1)', NEW u \in Services \ {w}
             PROVE  ToldOf(w, t1, u)'
  BY DEF Told, ToldOf
<1>3. w \in Steady(t1) /\ w \in Services
  BY <1>1 DEF Steady, IInv, TypeOK
<1>4. ToldOf(w, t1, u)
  BY <1>3 DEF Told, ToldOf
<1>5. CASE queue'[w] = queue[w]
  BY <1>1, <1>4, <1>5 DEF ToldOf, Settled
<1>6. CASE queue'[w] # queue[w]
  <2> PICK m : m = [kind |-> "publish", topic |-> t, index |-> IndexOf(topics[t], w),
                    from |-> s, stamp |-> posts + 1]
    OBVIOUS
  <2>1. w \in R /\ queue'[w] = Append(queue[w], m) /\ posts + 1 \in 1..MaxPosts
    BY <1>1, <1>3, <1>6, BusAssumption DEF Post, IInv, TypeOK
  <2>2. m \in Message /\ queue[w] \in Seq(Message)
    <3>1. IndexOf(topics[t], w) \in Refs
      BY <1>2, <2>1, AtProperties DEF IInv, TypeOK
    <3>2. QED
      BY <1>3, <2>1, <3>1 DEF Message, IInv, TypeOK
  <2>3. ~About(m, t1, u)
    BY DEF About
  <2> PICK in \in BOOLEAN : in <=> u \in Members(topics[t1])
    OBVIOUS
  <2> PICK now \in BOOLEAN : now <=> u \in view[w][t1]
    OBVIOUS
  <2>4. Settled(queue[w], t1, u, in, now)
    BY <1>4 DEF ToldOf, Settled
  <2>5. Settled(queue'[w], t1, u, in, now)
    BY <2>1, <2>2, <2>3, <2>4, AppendSettled
  <2>6. QED
    BY <1>1, <2>5 DEF ToldOf, Settled
<1>7. QED
  BY <1>5, <1>6

LEMMA DispatchTold ==
  ASSUME IInv, Told, NEW s \in Services, Dispatch(s)
  PROVE  Told'
<1> PICK m : m = Head(queue[s])
  OBVIOUS
<1> PICK h : h = registry[s][m.index]
  OBVIOUS
<1>1. /\ queue[s] \in Seq(Message) /\ queue[s] # <<>>
      /\ queue' = [queue EXCEPT ![s] = Tail(queue[s])]
      /\ Failed(s, h) \/ Handled(s, h, m)
      /\ UNCHANGED <<topics, watchs, cancelled>> /\ alive' \subseteq alive
  BY DEF Dispatch, Failed, Handled, IInv, TypeOK
<1>2. m \in Message /\ 1 \in DOMAIN queue[s] /\ m = queue[s][1]
  <2>1. Len(queue[s]) \in Nat \ {0} /\ DOMAIN queue[s] = 1..Len(queue[s])
    BY <1>1, LenProperties, EmptySeq
  <2>2. QED
    BY <1>1, <2>1, HeadTailProperties
<1> SUFFICES ASSUME NEW t \in Topics, NEW w \in Steady(t)', NEW u \in Services \ {w}
             PROVE  ToldOf(w, t, u)'
  BY DEF Told, ToldOf
<1>3. w \in Steady(t) /\ w \in Services /\ w \notin cancelled
  BY <1>1 DEF Steady, IInv, TypeOK
<1>4. ToldOf(w, t, u)
  BY <1>3 DEF Told, ToldOf
<1>5. CASE w # s
  <2>1. queue'[w] = queue[w]
    BY <1>1, <1>3, <1>5 DEF IInv, TypeOK
  <2>2. view'[w] = view[w]
    BY <1>1, <1>3, <1>5 DEF Failed, Handled, IInv, TypeOK
  <2>3. QED
    BY <1>1, <1>4, <2>1, <2>2 DEF ToldOf, Settled
<1>6. CASE w = s
  <2>1. h = Target(m) /\ h # Free
    BY <1>2, <1>3, <1>6, TargetNotFree DEF IInv, Pending, PendingAt
  <2>2. view' = IF m.kind # "publish"
                THEN [view EXCEPT ![s][m.topic] = IF m.kind = "subscribe"
                                                  THEN @ \union {m.from} ELSE @ \ {m.from}]
                ELSE view
    BY <1>1, <2>1 DEF Failed, Handled, Target
  <2> PICK in \in BOOLEAN : in <=> u \in Members(topics[t])
    OBVIOUS
  <2> PICK now \in BOOLEAN : now <=> u \in view[w][t]
    OBVIOUS
  <2> PICK then \in BOOLEAN : then <=> u \in view'[w][t]
    OBVIOUS
  <2>3. Settled(queue[s], t, u, in, now)
    BY <1>4, <1>6 DEF ToldOf, Settled
  <2>4. view[s] \in [Topics -> SUBSET Services] /\ m.topic \in Topics
    BY <1>2 DEF IInv, TypeOK, Message
  <2>5. view'[s][t] = IF m.kind # "publish" /\ m.topic = t
                      THEN IF m.kind = "subscribe" THEN view[s][t] \union {m.from}
                                                   ELSE view[s][t] \ {m.from}
                      ELSE view[s][t]
    BY <2>2, <2>4 DEF IInv, TypeOK
  <2>6. then <=> IF About(m, t, u) THEN m.kind = "subscribe" ELSE now
    BY <1>6, <2>5 DEF About
  <2>7. Settled(Tail(queue[s]), t, u, in, then)
    BY <1>1, <2>3, <2>6, TailSettled
  <2>8. queue'[w] = Tail(queue[s])
    BY <1>1, <1>6 DEF IInv, TypeOK
  <2>9. QED
    BY <1>1, <1>6, <2>7, <2>8 DEF ToldOf, Settled
<1>7. QED
  BY <1>5, <1>6

LEMMA NextTold == IInv /\ Told /\ [Next]_vars => Told'
<1> SUFFICES ASSUME IInv, Told, [Next]_vars PROVE Told'
  OBVIOUS
<1>1. CASE UNCHANGED vars
  <2>1. \A t \in Topics : Steady(t)' \subseteq Steady(t)
    BY <1>1 DEF vars, Steady
  <2>2. QED
    BY <1>1, <2>1, QuietTold DEF vars
<1>2. CASE Next
  <2>1. PICK s \in Services :
          \/ \E t \in Topics :
               \/ Subscribe(s, t) \/ Cancel(s, t) \/ Watch(s, t) \/ CancelWatch(s, t)
               \/ \E mask \in Masks, receiver \in Services \union {Nobody} :
                    Publish(s, t, mask, receiver)
          \/ Dispatch(s)
          \/ Exit(s)
    BY <1>2 DEF Next
  <2>2. CASE Exit(s)
    <3>1. \A t \in Topics : Steady(t)' \subseteq Steady(t)
      BY <2>2 DEF Exit, Steady
    <3>2. QED
      BY <2>2, <3>1, QuietTold DEF Exit
  <2>3. QED
    BY <2>1, <2>2, SubscribeTold, CancelTold, WatchTold, CancelWatchTold, PublishTold,
       DispatchTold
<1>3. QED
  BY <1>1, <1>2

\* A watcher never notes itself.
LEMMA NextNotSelf == IInv /\ NotSelf /\ [Next]_vars => NotSelf'
<1> SUFFICES ASSUME IInv, NotSelf, [Next]_vars, NEW t1 \in Topics, NEW w \in Services
             PROVE  w \notin view'[w][t1]
  BY DEF NotSelf
<1>1. w \notin view[w][t1] /\ view \in [Services -> [Topics -> SUBSET Services]]
  BY DEF NotSelf, IInv, TypeOK
<1>2. ASSUME NEW s \in Services, NEW t \in Topics, Watch(s, t)
      PROVE  w \notin view'[w][t1]
  <2>1. view' = [view EXCEPT ![s][t] = Members(topics[t]) \ {s}]
    BY <1>2 DEF Watch
  <2>2. QED
    BY <1>1, <2>1
<1>3. ASSUME NEW s \in Services, Dispatch(s)
      PROVE  w \notin view'[w][t1]
  <2> PICK m : m = Head(queue[s])
    OBVIOUS
  <2> PICK h : h = registry[s][m.index]
    OBVIOUS
  <2>1. /\ queue[s] \in Seq(Message) /\ queue[s] # <<>>
        /\ Failed(s, h) \/ Handled(s, h, m)
    BY <1>3 DEF Dispatch, IInv, TypeOK
  <2>2. 1 \in DOMAIN queue[s] /\ m = queue[s][1]
    <3>1. Len(queue[s]) \in Nat \ {0} /\ DOMAIN queue[s] = 1..Len(queue[s])
      BY <2>1, LenProperties, EmptySeq
    <3>2. QED
      BY <2>1, <3>1, HeadTailProperties
  <2>3. m.from # s
    BY <2>2 DEF IInv, Pending, PendingAt
  <2>4. CASE view' = view
    BY <1>1, <2>4
  <2>5. CASE view' = [view EXCEPT ![s][h.topic] = IF m.kind = "subscribe"
                                                  THEN @ \union {m.from} ELSE @ \ {m.from}]
    <3>1. CASE w = s /\ t1 = h.topic
      BY <1>1, <2>3, <2>5, <3>1
    <3>2. CASE ~(w = s /\ t1 = h.topic)
      BY <1>1, <2>5, <3>2
    <3>3. QED
      BY <3>1, <3>2
  <2>6. QED
    BY <2>1, <2>4, <2>5 DEF Failed, Handled
<1>4. CASE view' = view
  BY <1>1, <1>4
<1>5. view' = view \/ (\E s \in Services : Dispatch(s) \/ \E t \in Topics : Watch(s, t))
  <2>1. CASE UNCHANGED vars
    BY <2>1 DEF vars
  <2>2. CASE Next
    <3>1. PICK s \in Services :
            \/ \E t \in Topics :
                 \/ Subscribe(s, t) \/ Cancel(s, t) \/ Watch(s, t) \/ CancelWatch(s, t)
                 \/ \E mask \in Masks, receiver \in Services \union {Nobody} :
                      Publish(s, t, mask, receiver)
            \/ Dispatch(s)
            \/ Exit(s)
      BY <2>2 DEF Next
    <3>2. QED
      BY <3>1 DEF Subscribe, Cancel, CancelWatch, Publish, Exit
  <2>3. QED
    BY <2>1, <2>2
<1>6. QED
  BY <1>2, <1>3, <1>4, <1>5

LEMMA InitTold == Init => Told /\ NotSelf
<1> SUFFICES ASSUME Init PROVE Told /\ NotSelf
  OBVIOUS
<1>1. ASSUME NEW t \in Topics PROVE Members(watchs[t]) = {}
  BY EmptySeq DEF Init, Members
<1>2. QED
  BY <1>1 DEF Init, Told, NotSelf, Steady

LEMMA ToldIsExact == IInv /\ Told /\ NotSelf => ViewExact
<1> SUFFICES ASSUME IInv, Told, NotSelf, NEW t \in Topics, NEW w \in Steady(t),
                    \A i \in DOMAIN queue[w] :
                      queue[w][i].kind = "publish" \/ queue[w][i].topic # t
             PROVE  view[w][t] = Members(topics[t]) \ {w}
  BY DEF ViewExact, Steady
<1>1. w \in Services
  BY DEF Steady, IInv, TypeOK
<1>2. view[w][t] \subseteq Services \ {w} /\ Members(topics[t]) \subseteq Services
  BY <1>1, MembersAreServices DEF NotSelf, IInv, TypeOK
<1>3. ASSUME NEW u \in Services \ {w} PROVE u \in view[w][t] <=> u \in Members(topics[t])
  BY DEF Told, Settled, About
<1>4. QED
  BY <1>2, <1>3

\* A watcher that never cancelled and has handled all it was notified of knows
\* exactly the other subscribers of the topic: os.watch starts from the
\* subscribers there are, and on_notify tells it of every change since, in order
\* (src/src/luaos_subscriber.cpp).
THEOREM ViewExactAlways == Spec => []ViewExact
<1>1. Spec => [](Told /\ NotSelf)
  BY Invariance, InitTold, NextTold, NextNotSelf, PTL DEF Spec
<1>2. QED
  BY <1>1, Invariance, ToldIsExact, PTL

-----------------------------------------------------------------------------
(* How masks spread a topic. *)

LEMMA ModOnce ==
  ASSUME NEW n \in Nat \ {0}, NEW a \in 0..n - 1
  PROVE  a % n = a /\ (a + n) % n = a
<1>1. a % n = a
  OBVIOUS
<1>2. (a + n) % n = a
  OBVIOUS
<1>3. QED
  BY <1>1, <1>2

\* One of n consecutive masks selects the position i.
Hits(k, n, i) == \E mask \in k..k + n - 1 : (mask % n) + 1 = i

LEMMA RoundHitsAll ==
  ASSUME NEW n \in Nat \ {0}, NEW k \in 1..n, NEW i \in 1..n
  PROVE  Hits(k, n, i)
<1> USE DEF Hits
<1> PICK a \in 0..n - 1 : a + 1 = i
  <2>1. i - 1 \in 0..n - 1 /\ (i - 1) + 1 = i
    OBVIOUS
  <2>2. QED
    BY <2>1
<1>1. CASE k <= a
  <2>1. a \in k..k + n - 1 /\ a % n = a
    BY <1>1, ModOnce
  <2>2. QED
    BY <2>1
<1>2. CASE a < k
  <2>1. a + n \in k..k + n - 1 /\ (a + n) % n = a
    BY <1>2, ModOnce
  <2>2. QED
    BY <2>1
<1>3. QED
  BY <1>1, <1>2

\* The subscribers a publisher chooses among.
Count(items, s) == Len(items) - (IF Has(items, s) THEN 1 ELSE 0)

Reached(items, s, k, n, u) == \E mask \in k..k + n - 1 : Selected(items, s, mask) = u

LEMMA OthersAreSelected ==
  ASSUME NEW items \in Seq(Item), Once(items), NEW s, NEW n \in Nat \ {0}, NEW k \in 1..n,
         n = Count(items, s),
         NEW u \in Members(items) \ {s}
  PROVE  Reached(items, s, k, n, u)
<1> USE DEF Reached
<1>1. DOMAIN items = 1..Len(items) /\ Len(items) \in Nat
  BY LenProperties
<1>2. PICK p \in 1..Len(items) : items[p].ios = u
  BY <1>1 DEF Members
<1>3. CASE Has(items, s)
  <2> PICK q : q = At(items, s)
    OBVIOUS
  <2>1. q \in 1..Len(items) /\ items[q].ios = s
    BY <1>3, HasIsMember, AtProperties
  <2>2. p # q
    BY <1>2, <2>1
  <2> PICK i : i = IF p < q THEN p ELSE p - 1
    OBVIOUS
  <2>3. i \in 1..n /\ (IF i >= q THEN i + 1 ELSE i) = p
    BY <1>1, <1>3, <2>1, <2>2 DEF Count
  <2> Hits(k, n, i)
    BY <2>3, RoundHitsAll
  <2>4. PICK mask \in k..k + n - 1 : (mask % n) + 1 = i
    BY DEF Hits
  <2>5. Selected(items, s, mask) = items[IF i >= q THEN i + 1 ELSE i].ios
    BY <1>3, <2>4 DEF Selected, Count
  <2>6. QED
    BY <1>2, <2>3, <2>5
<1>4. CASE ~Has(items, s)
  <2>1. p \in 1..n
    BY <1>1, <1>4 DEF Count
  <2> Hits(k, n, p)
    BY <2>1, RoundHitsAll
  <2>2. PICK mask \in k..k + n - 1 : (mask % n) + 1 = p
    BY DEF Hits
  <2>3. Selected(items, s, mask) = items[p].ios
    BY <1>4, <2>2 DEF Selected, Count
  <2>4. QED
    BY <1>2, <2>3
<1>5. QED
  BY <1>3, <1>4

LEMMA ListsSpread == IInv => MasksSpread
<1> SUFFICES ASSUME IInv, NEW t \in Topics, NEW s \in Services,
                    NEW n, n = Count(topics[t], s),
                    Members(topics[t]) \ {s} # {}, NEW k \in 1..n
             PROVE  {Selected(topics[t], s, mask) : mask \in k..k + n - 1}
                      = Members(topics[t]) \ {s}
  BY DEF MasksSpread, Count
<1>1. topics[t] \in Seq(Item) /\ Once(topics[t])
  <2>1. SubscriberOf(t) \in Handler /\ Entries(SubscriberOf(t)) = topics[t]
    BY HandlersOfTopic
  <2>2. QED
    BY <2>1 DEF IInv, TypeOK, Tables, ListedOnce
<1>2. Len(topics[t]) \in Nat
  BY <1>1, LenProperties
<1>3. n \in Nat \ {0} /\ k \in Nat
  BY <1>2 DEF Count
<1>4. \A mask \in k..k + n - 1 : Selected(topics[t], s, mask) \in Members(topics[t]) \ {s}
  BY <1>1, <1>3, SelectedIsAnother
<1>5. \A u \in Members(topics[t]) \ {s} :
        \E mask \in k..k + n - 1 : Selected(topics[t], s, mask) = u
  <2> SUFFICES ASSUME NEW u \in Members(topics[t]) \ {s}
               PROVE  Reached(topics[t], s, k, n, u)
    BY DEF Reached
  <2> PICK items : items = topics[t]
    OBVIOUS
  <2>1. /\ items \in Seq(Item) /\ Once(items) /\ u \in Members(items) \ {s}
        /\ n = Count(items, s)
    BY <1>1
  <2>2. Reached(items, s, k, n, u)
    BY <1>3, <2>1, OthersAreSelected
  <2>3. QED
    BY <2>2
<1>6. QED
  BY <1>4, <1>5

\* Any round of consecutive masks selects every other subscriber of a topic once:
\* the arithmetic of os.publish, which leaves the publisher out of the list that
\* mask % count indexes, is right for every list and every publisher.
THEOREM MasksSpreadAlways == Spec => []MasksSpread
<1>1. QED
  BY Invariance, ListsSpread, PTL
=============================================================================
