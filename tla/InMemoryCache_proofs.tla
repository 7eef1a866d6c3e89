----------------------- MODULE InMemoryCache_proofs -----------------------
(***************************************************************************)
(* The bookkeeping of the in-memory cache is right for every set of users, *)
(* conversations and messages and every capacity.                          *)
(*                                                                         *)
(* No part of the bookkeeping is inductive alone: an eviction finds a      *)
(* message only because the deque holds exactly the cached keys, the       *)
(* capacity holds only because the counter is exact and was within it      *)
(* before.  `Consistent' collects the parts, as a predicate on values, so  *)
(* that it can also be stated of the state between the insertion and the   *)
(* eviction of one insert_or_append.                                       *)
(*                                                                         *)
(* With threads the deque orders nothing any more, and what is left is     *)
(* weaker: ThreadInv says by which message the counter and the metadata    *)
(* may lag behind, and that only the holder of _lock makes them.           *)
(***************************************************************************)
EXTENDS InMemoryCacheThreads, FiniteSetTheorems, SequenceTheorems, WellFoundedInduction, TLAPS

\* The deque d orders exactly the conversations of c, each once.
Orders(d, c) ==
    /\ \A i, j \in 1..Len(d) : d[i] = d[j] => i = j
    /\ \A k \in Key : c[k] # <<>> <=> \E i \in 1..Len(d) : d[i] = k

\* The metadata m counts at least the messages of c, and none where c has none.
Counts(m, c) ==
    \A k \in Key :
        /\ c[k] # <<>> <=> m[k] # NoConversation /\ m[k].message_count > 0
        /\ c[k] # <<>> => m[k].message_count >= Len(c[k])

Typed(c, d, m) ==
    /\ c \in [Key -> Seq(Entry)]
    /\ d \in Seq(Key)
    /\ m \in [Key -> ConversationData \cup {NoConversation}]

\* n is the number of messages of c.
Total(n, c) ==
    /\ IsFiniteSet(Slots(c))
    /\ n = Cardinality(Slots(c))

Consistent(c, d, n, m) ==
    /\ Typed(c, d, m)
    /\ Orders(d, c)
    /\ Total(n, c)
    /\ Counts(m, c)

IInv ==
    /\ Consistent(cache, deque, total_entries, conversations)
    /\ WithinCapacity

-----------------------------------------------------------------------------
(* The deque *)

\* deque.remove of a key that occurs once closes the gap it leaves.
LEMMA RemoveFirstAt ==
    ASSUME NEW S, NEW d \in Seq(S), NEW p \in 1..Len(d),
           \A i \in 1..Len(d) : d[i] = d[p] => i = p
    PROVE  /\ RemoveFirst(d, d[p]) \in Seq(S)
           /\ Len(RemoveFirst(d, d[p])) = Len(d) - 1
           /\ \A i \in 1..(Len(d) - 1) :
                RemoveFirst(d, d[p])[i] = IF i < p THEN d[i] ELSE d[i + 1]
<1> DEFINE I == {i \in 1..Len(d) : d[i] = d[p]}
<1>1. I = {p}
  OBVIOUS
<1>2. Min(I) = p
  BY <1>1, SMT DEF Min
<1>3. SelectInSeq(d, LAMBDA v : v = d[p]) = p
  BY <1>1, <1>2 DEF SelectInSeq
<1>4. RemoveFirst(d, d[p]) = SubSeq(d, 1, p - 1) \o SubSeq(d, p + 1, Len(d))
  BY <1>3 DEF RemoveFirst, RemoveAt
<1> DEFINE a == SubSeq(d, 1, p - 1)
           b == SubSeq(d, p + 1, Len(d))
<1>5. /\ a \in Seq(S) /\ Len(a) = p - 1
      /\ \A i \in 1..(p - 1) : a[i] = d[i]
  <2>1. \A i \in 1..(p - 1) : d[i] \in S
    BY ElementOfSeq
  <2>2. QED
    BY <2>1, SubSeqProperties, SMT
<1>6. /\ b \in Seq(S) /\ Len(b) = Len(d) - p
      /\ \A i \in 1..(Len(d) - p) : b[i] = d[p + i]
  <2>1. \A i \in (p + 1)..Len(d) : d[i] \in S
    BY ElementOfSeq
  <2>2. QED
    BY <2>1, SubSeqProperties, SMT
<1> HIDE DEF a, b
<1>7. /\ a \o b \in Seq(S)
      /\ Len(a \o b) = Len(d) - 1
      /\ \A i \in 1..(Len(d) - 1) :
            (a \o b)[i] = IF i <= p - 1 THEN a[i] ELSE b[i - (p - 1)]
  <2>1. /\ a \o b \in Seq(S)
        /\ Len(a \o b) = Len(a) + Len(b)
        /\ \A i \in 1..(Len(a) + Len(b)) :
              (a \o b)[i] = IF i <= Len(a) THEN a[i] ELSE b[i - Len(a)]
    BY <1>5, <1>6, ConcatProperties, Zenon
  <2>2. Len(a) + Len(b) = Len(d) - 1
    BY <1>5, <1>6
  <2>3. QED
    BY <1>5, <2>1, <2>2
<1>8. \A i \in 1..(Len(d) - 1) : (a \o b)[i] = IF i < p THEN d[i] ELSE d[i + 1]
  BY <1>5, <1>6, <1>7
<1>9. QED
  BY <1>4, <1>7, <1>8 DEF a, b

\* deque.pop drops the last key.
LEMMA FrontAt ==
    ASSUME NEW S, NEW d \in Seq(S), Len(d) # 0
    PROVE  /\ Front(d) \in Seq(S)
           /\ Len(Front(d)) = Len(d) - 1
           /\ \A i \in 1..(Len(d) - 1) : Front(d)[i] = d[i]
<1>1. \A i \in 1..(Len(d) - 1) : d[i] \in S
  BY ElementOfSeq
<1> DEFINE l == Len(d) - 1
<1>2. l \in Nat
  BY LenProperties
<1> HIDE DEF l
<1>3. \A i \in 1..l : d[i] \in S
  BY <1>1 DEF l
<1>4. /\ SubSeq(d, 1, l) \in Seq(S)
      /\ Len(SubSeq(d, 1, l)) = l
      /\ \A i \in 1..l : SubSeq(d, 1, l)[i] = d[i]
  BY <1>2, <1>3, SubSeqProperties, SMT
<1>5. QED
  BY <1>4 DEF Front, l

\* A new key goes to the front of the deque.
LEMMA PushFront ==
    ASSUME NEW S, NEW d \in Seq(S), NEW k \in S
    PROVE  /\ <<k>> \o d \in Seq(S)
           /\ Len(<<k>> \o d) = Len(d) + 1
           /\ \A i \in 1..(Len(d) + 1) :
                (<<k>> \o d)[i] = IF i = 1 THEN k ELSE d[i - 1]
<1>1. <<k>> \in Seq(S) /\ Len(<<k>>) = 1 /\ <<k>>[1] = k
  OBVIOUS
<1>2. QED
  BY <1>1, ConcatProperties

\* Using a cached conversation reorders the deque and nothing else.
LEMMA MoveToFrontOrders ==
    ASSUME NEW c, NEW d \in Seq(Key), NEW k \in Key, Orders(d, c), c[k] # <<>>
    PROVE  MoveToFront(d, k) \in Seq(Key) /\ Orders(MoveToFront(d, k), c)
<1>1. PICK p \in 1..Len(d) : d[p] = k
  BY DEF Orders
<1> DEFINE r == RemoveFirst(d, k)
           f == MoveToFront(d, k)
<1>2. /\ r \in Seq(Key)
      /\ Len(r) = Len(d) - 1
      /\ \A i \in 1..(Len(d) - 1) : r[i] = IF i < p THEN d[i] ELSE d[i + 1]
  BY <1>1, RemoveFirstAt, SMTT(30) DEF Orders
<1> HIDE DEF r
<1>3. /\ f \in Seq(Key)
      /\ Len(f) = Len(d)
      /\ \A i \in 1..Len(d) : f[i] = IF i = 1 THEN k ELSE r[i - 1]
  BY <1>2, PushFront DEF MoveToFront, r
<1> HIDE DEF f
<1>4. \A i \in 1..Len(d) :
        f[i] = IF i = 1 THEN d[p] ELSE IF i <= p THEN d[i - 1] ELSE d[i]
  BY <1>1, <1>2, <1>3
<1>5. ASSUME NEW i \in 1..Len(f), NEW j \in 1..Len(f), f[i] = f[j]
      PROVE  i = j
  <2>1. \A n, m \in 1..Len(d) : d[n] = d[m] => n = m
    BY DEF Orders
  <2>2. \A n \in 1..Len(f) : \E m \in 1..Len(d) :
           f[n] = d[m] /\ m = IF n = 1 THEN p ELSE IF n <= p THEN n - 1 ELSE n
    BY <1>3, <1>4
  <2>3. PICK m \in 1..Len(d) : f[i] = d[m] /\ m = IF i = 1 THEN p ELSE IF i <= p THEN i - 1 ELSE i
    BY <2>2
  <2>4. PICK n \in 1..Len(d) : f[j] = d[n] /\ n = IF j = 1 THEN p ELSE IF j <= p THEN j - 1 ELSE j
    BY <2>2
  <2>5. m = n
    BY <2>1, <2>3, <2>4, <1>5, Zenon
  <2>6. QED
    BY <2>3, <2>4, <2>5, <1>3
<1>6. \A i \in 1..Len(d) : \E j \in 1..Len(f) : f[j] = d[i]
  <2> TAKE i \in 1..Len(d)
  <2>1. CASE i = p
    BY <2>1, <1>3, <1>4
  <2>2. CASE i < p
    <3>1. i + 1 \in 1..Len(f) /\ f[i + 1] = d[i]
      BY <2>2, <1>3, <1>4
    <3>2. QED
      BY <3>1
  <2>3. CASE i > p
    BY <2>3, <1>3, <1>4
  <2>4. QED
    BY <2>1, <2>2, <2>3
<1>7. \A j \in 1..Len(f) : \E i \in 1..Len(d) : f[j] = d[i]
  <2> TAKE j \in 1..Len(f)
  <2>1. CASE j = 1
    BY <2>1, <1>3, <1>4
  <2>2. CASE j > 1 /\ j <= p
    <3>1. j - 1 \in 1..Len(d) /\ f[j] = d[j - 1]
      BY <2>2, <1>3, <1>4
    <3>2. QED
      BY <3>1
  <2>3. CASE j > p
    BY <2>3, <1>3, <1>4
  <2>4. QED
    BY <2>1, <2>2, <2>3
<1>8. ASSUME NEW q \in Key
      PROVE  c[q] # <<>> <=> \E i \in 1..Len(f) : f[i] = q
  <2>1. c[q] # <<>> <=> \E i \in 1..Len(d) : d[i] = q
    BY DEF Orders
  <2>2. QED
    BY <1>6, <1>7, <2>1, ZenonT(30)
<1>9. QED
  BY <1>3, <1>5, <1>8 DEF Orders, f

\* A conversation that leaves the cache leaves the deque.
LEMMA RemoveOrders ==
    ASSUME NEW c, NEW d \in Seq(Key), NEW k \in Key, Orders(d, c), c[k] # <<>>,
           NEW e, \A q \in Key : e[q] # <<>> <=> q # k /\ c[q] # <<>>
    PROVE  /\ RemoveFirst(d, k) \in Seq(Key)
           /\ Orders(RemoveFirst(d, k), e)
<1>1. PICK p \in 1..Len(d) : d[p] = k
  BY DEF Orders
<1> DEFINE r == RemoveFirst(d, k)
<1>2. /\ r \in Seq(Key)
      /\ Len(r) = Len(d) - 1
      /\ \A i \in 1..(Len(d) - 1) : r[i] = IF i < p THEN d[i] ELSE d[i + 1]
  BY <1>1, RemoveFirstAt DEF Orders
<1> HIDE DEF r
<1>3. Len(d) \in Nat /\ Len(r) \in Nat
  BY <1>2, LenProperties
<1>4. ASSUME NEW i \in 1..Len(r), NEW j \in 1..Len(r), r[i] = r[j]
      PROVE  i = j
  <2>1. \A n, m \in 1..Len(d) : d[n] = d[m] => n = m
    BY DEF Orders
  <2>2. \A n \in 1..Len(r) : \E m \in 1..Len(d) :
           r[n] = d[m] /\ m = IF n < p THEN n ELSE n + 1
    BY <1>3, <1>2, SMTT(30)
  <2>3. PICK m \in 1..Len(d) : r[i] = d[m] /\ m = IF i < p THEN i ELSE i + 1
    BY <2>2
  <2>4. PICK n \in 1..Len(d) : r[j] = d[n] /\ n = IF j < p THEN j ELSE j + 1
    BY <2>2
  <2>5. m = n
    BY <2>1, <2>3, <2>4, <1>4, Zenon
  <2>6. QED
    BY <2>3, <2>4, <2>5, <1>3, <1>2
<1>5. \A i \in 1..Len(d) : i # p => \E j \in 1..Len(r) : r[j] = d[i]
  <2> TAKE i \in 1..Len(d)
  <2>1. CASE i < p
    BY <2>1, <1>2
  <2>2. CASE i > p
    <3>1. i - 1 \in 1..Len(r) /\ r[i - 1] = d[i]
      BY <2>2, <1>2
    <3>2. QED
      BY <3>1
  <2>3. QED
    BY <2>1, <2>2
<1>6. \A j \in 1..Len(r) : r[j] # k /\ \E i \in 1..Len(d) : r[j] = d[i]
  <2> TAKE j \in 1..Len(r)
  <2>1. CASE j < p
    BY <2>1, <1>1, <1>2 DEF Orders
  <2>2. CASE j >= p
    <3>1. j + 1 \in 1..Len(d) /\ r[j] = d[j + 1] /\ j + 1 # p
      BY <2>2, <1>2
    <3>2. QED
      BY <3>1, <1>1 DEF Orders
  <2>3. QED
    BY <2>1, <2>2
<1>7. ASSUME NEW q \in Key
      PROVE  e[q] # <<>> <=> \E i \in 1..Len(r) : r[i] = q
  <2>1. c[q] # <<>> <=> \E i \in 1..Len(d) : d[i] = q
    BY DEF Orders
  <2>2. ASSUME e[q] # <<>>
        PROVE  \E i \in 1..Len(r) : r[i] = q
    <3>1. PICK i \in 1..Len(d) : d[i] = q
      BY <2>1, <2>2
    <3>2. i # p
      BY <3>1, <1>1, <2>2
    <3>3. QED
      BY <3>1, <3>2, <1>5
  <2>3. ASSUME NEW j \in 1..Len(r), r[j] = q
        PROVE  e[q] # <<>>
    <3>1. q # k /\ \E i \in 1..Len(d) : d[i] = q
      BY <2>3, <1>6
    <3>2. QED
      BY <3>1, <2>1
  <2>4. QED
    BY <2>2, <2>3
<1>8. QED
  BY <1>2, <1>4, <1>7 DEF Orders, r

-----------------------------------------------------------------------------
(* The counter *)

LEMMA SlotsMember ==
    ASSUME NEW c
    PROVE  \A x : x \in Slots(c) <=> \E k \in Key : \E i \in 1..Len(c[k]) : x = <<k, i>>
BY DEF Slots

\* A message more is a slot more.
LEMMA SlotsAppend ==
    ASSUME NEW c \in [Key -> Seq(Entry)], NEW k \in Key, NEW e \in Entry,
           NEW n, Total(n, c)
    PROVE  Total(n + 1, [c EXCEPT ![k] = Append(@, e)])
<1> DEFINE b == [c EXCEPT ![k] = Append(@, e)]
           x == <<k, Len(c[k]) + 1>>
<1>1. /\ Len(c[k]) \in Nat
      /\ Len(b[k]) = Len(c[k]) + 1
      /\ \A q \in Key \ {k} : b[q] = c[q]
  BY LenProperties, AppendProperties
<1> HIDE DEF b
<1>2. Slots(b) = Slots(c) \cup {x}
  BY <1>1, SlotsMember
<1>3. x \notin Slots(c)
  BY <1>1, SlotsMember
<1>4. QED
  BY <1>2, <1>3, FS_AddElement DEF Total, b

\* A message less is a slot less: the last one, since the others shift.
LEMMA SlotsTail ==
    ASSUME NEW c \in [Key -> Seq(Entry)], NEW k \in Key, c[k] # <<>>,
           NEW n, Total(n, c)
    PROVE  Total(n - 1, [c EXCEPT ![k] = Tail(@)])
<1> DEFINE b == [c EXCEPT ![k] = Tail(@)]
           x == <<k, Len(c[k])>>
<1>1. /\ Len(c[k]) \in Nat \ {0}
      /\ Len(b[k]) = Len(c[k]) - 1
      /\ \A q \in Key \ {k} : b[q] = c[q]
  BY EmptySeq, HeadTailProperties
<1> HIDE DEF b
<1>2. Slots(b) = Slots(c) \ {x}
  BY <1>1, SlotsMember
<1>3. x \in Slots(c)
  BY <1>1, SlotsMember
<1>4. QED
  BY <1>2, <1>3, FS_RemoveElement DEF Total, b

\* Without a conversation, its slots go: as many as it has messages.
LEMMA SlotsClear ==
    ASSUME NEW c \in [Key -> Seq(Entry)], NEW k \in Key, NEW n, Total(n, c)
    PROVE  /\ Total(n - Len(c[k]), [c EXCEPT ![k] = <<>>])
           /\ n \in Nat /\ n - Len(c[k]) \in Nat
<1> DEFINE L == Len(c[k])
           b == [c EXCEPT ![k] = <<>>]
           B == {<<k, i>> : i \in 1..L}
           f == [i \in 1..L |-> <<k, i>>]
<1>1. /\ L \in Nat
      /\ Len(b[k]) = 0
      /\ \A q \in Key \ {k} : b[q] = c[q]
  BY LenProperties
<1>2. IsFiniteSet(B) /\ Cardinality(B) = L
  <2>1. f \in Bijection(1..L, B)
    BY DEF Bijection, Injection, Surjection, IsInjective
  <2>2. ExistsBijection(1..L, B)
    BY <2>1 DEF ExistsBijection
  <2> HIDE DEF L, B
  <2>3. QED
    BY <1>1, <2>2, FS_CountingElements, FS_NatBijection
<1>3. B \subseteq Slots(c) /\ Slots(b) \subseteq Slots(c) /\ Slots(b) \cap B = {}
  <2> HIDE DEF b
  <2> QED
    BY <1>1, SlotsMember
<1>4. Slots(c) = Slots(b) \cup B
  <2> HIDE DEF b
  <2> QED
    BY <1>1, <1>3, SlotsMember
<1>5. IsFiniteSet(Slots(b))
  BY <1>3, FS_Subset DEF Total
<1> HIDE DEF b, B, L
<1>6. Cardinality(Slots(c)) = Cardinality(Slots(b)) + L - 0
  BY <1>2, <1>3, <1>4, <1>5, FS_Union, FS_EmptySet
<1>7. Cardinality(Slots(b)) \in Nat
  BY <1>5, FS_CardinalityType
<1>8. QED
  BY <1>1, <1>5, <1>6, <1>7 DEF Total, b, L

LEMMA TotalIsNat ==
    ASSUME NEW c, NEW n, Total(n, c)
    PROVE  n \in Nat
BY FS_CardinalityType DEF Total

-----------------------------------------------------------------------------
(* The operations *)

LEMMA InitConsistent == initialize_cache => IInv
<1> SUFFICES ASSUME initialize_cache PROVE IInv
  OBVIOUS
<1> USE DEF initialize_cache
<1>1. Typed(cache, deque, conversations)
  BY DEF Typed
<1>2. Orders(deque, cache)
  BY DEF Orders
<1>3. Slots(cache) = {}
  BY SlotsMember
<1>4. Total(total_entries, cache)
  BY <1>3, FS_EmptySet DEF Total
<1>5. Counts(conversations, cache)
  BY DEF Counts
<1>6. QED
  BY <1>1, <1>2, <1>4, <1>5, CapacityAssumption DEF IInv, Consistent, WithinCapacity

LEMMA GetConsistent ==
    ASSUME IInv, NEW k \in Key, get(k)
    PROVE  IInv'
<1>1. deque' \in Seq(Key) /\ Orders(deque', cache)
  BY MoveToFrontOrders DEF IInv, Consistent, Typed, get, InCache
<1>2. QED
  BY <1>1 DEF IInv, Consistent, Typed, get, WithinCapacity

LEMMA DeleteConsistent ==
    ASSUME IInv, NEW k \in Key, delete(k)
    PROVE  IInv'
<1> USE DEF IInv, Consistent
<1>1. /\ cache' = [cache EXCEPT ![k] = <<>>]
      /\ cache' \in [Key -> Seq(Entry)]
      /\ \A q \in Key : cache'[q] # <<>> <=> q # k /\ cache[q] # <<>>
      /\ \A q \in Key \ {k} : cache'[q] = cache[q]
  BY DEF delete, Typed
<1>2. deque' \in Seq(Key) /\ Orders(deque', cache')
  BY <1>1, RemoveOrders DEF delete, InCache, Typed
<1>3. Total(total_entries', cache') /\ total_entries' <= capacity
  <2>1. /\ Total(total_entries - Len(cache[k]), cache')
        /\ total_entries \in Nat
        /\ Len(cache[k]) \in Nat
    BY <1>1, SlotsClear, LenProperties DEF Typed
  <2>2. QED
    BY <2>1, CapacityAssumption DEF delete, WithinCapacity
<1>4. /\ conversations' \in [Key -> ConversationData \cup {NoConversation}]
      /\ conversations'[k] = NoConversation
      /\ \A q \in Key \ {k} : conversations'[q] = conversations[q]
  BY DEF delete, Typed
<1>5. Counts(conversations', cache')
  BY <1>1, <1>4 DEF Counts
<1>6. QED
  BY <1>1, <1>2, <1>3, <1>4, <1>5 DEF Typed, WithinCapacity

LEMMA SetTopicSummaryConsistent ==
    ASSUME IInv, NEW k \in Key, NEW t \in Topic, set_topic_summary(k, t)
    PROVE  IInv'
<1> USE DEF IInv, Consistent
<1>1. UNCHANGED <<cache, deque, total_entries>>
  BY DEF set_topic_summary
<1>2. /\ \A q \in Key \ {k} : conversations'[q] = conversations[q]
      /\ conversations' \in [Key -> ConversationData \cup {NoConversation}]
      /\ conversations'[k] # NoConversation
      /\ conversations[k] = NoConversation => conversations'[k].message_count = 0
      /\ conversations[k] # NoConversation =>
            conversations'[k].message_count = conversations[k].message_count
  BY NoConversationAssumption DEF set_topic_summary, Typed, ConversationData
<1>3. Counts(conversations', cache')
  BY <1>1, <1>2 DEF Counts
<1>4. QED
  BY <1>1, <1>2, <1>3 DEF Typed, Orders, Total, WithinCapacity, Slots

\* The insertion alone keeps the cache consistent, with one message more.
LEMMA InsertedConsistent ==
    ASSUME IInv, NEW k \in Key, NEW e \in Entry
    PROVE  LET s == Inserted(k, e)
           IN  /\ Consistent(s.cache, s.deque, total_entries + 1, s.conversations)
               /\ s.cache[k] = Append(cache[k], e)
               /\ s.deque # <<>>
<1> USE DEF IInv, Consistent
<1> DEFINE c == [cache EXCEPT ![k] = Append(@, e)]
           d == IF InCache(k) THEN MoveToFront(deque, k) ELSE <<k>> \o deque
           m == [conversations EXCEPT ![k] = Counted(k)]
<1>1. /\ c \in [Key -> Seq(Entry)]
      /\ c[k] = Append(cache[k], e) /\ c[k] # <<>> /\ Len(c[k]) = Len(cache[k]) + 1
      /\ Len(cache[k]) \in Nat
      /\ \A q \in Key \ {k} : c[q] = cache[q]
  BY AppendProperties, LenProperties DEF Typed
<1>2. Total(total_entries + 1, c)
  BY SlotsAppend DEF Typed
<1>3. /\ \A q \in Key \ {k} : m[q] = conversations[q]
      /\ m \in [Key -> ConversationData \cup {NoConversation}]
      /\ m[k] # NoConversation
      /\ conversations[k] = NoConversation => m[k].message_count = 1
      /\ conversations[k] # NoConversation =>
            /\ conversations[k].message_count \in Nat
            /\ m[k].message_count = conversations[k].message_count + 1
  <2>1. conversations \in [Key -> ConversationData \cup {NoConversation}]
    BY DEF Typed
  <2>2. CASE conversations[k] = NoConversation
    <3>1. Counted(k) = [topic_summary |-> NoTopic, message_count |-> 1]
      BY <2>2 DEF Counted
    <3>2. Counted(k) \in ConversationData /\ Counted(k).message_count = 1
      BY <3>1, TopicAssumption DEF ConversationData
    <3>3. QED
      BY <2>1, <2>2, <3>2, NoConversationAssumption, Zenon
  <2>3. CASE conversations[k] # NoConversation
    <3>1. conversations[k] \in ConversationData
      BY <2>1, <2>3
    <3>2. Counted(k) = [topic_summary |-> conversations[k].topic_summary,
                        message_count |-> conversations[k].message_count + 1]
      BY <2>3 DEF Counted
    <3>3. /\ Counted(k) \in ConversationData
          /\ conversations[k].message_count \in Nat
          /\ Counted(k).message_count = conversations[k].message_count + 1
      BY <3>1, <3>2 DEF ConversationData
    <3>4. QED
      BY <2>1, <2>3, <3>3, NoConversationAssumption, Zenon
  <2>4. QED
    BY <2>2, <2>3
<1> HIDE DEF c, m
<1>4. Counts(m, c)
  <2>1. \A q \in Key \ {k} :
          /\ c[q] # <<>> <=> m[q] # NoConversation /\ m[q].message_count > 0
          /\ c[q] # <<>> => m[q].message_count >= Len(c[q])
    BY <1>1, <1>3 DEF Counts
  <2>2. m[k].message_count > 0 /\ m[k].message_count >= Len(c[k])
    <3>1. CASE conversations[k] = NoConversation
      <4>1. cache[k] = <<>>
        BY <3>1 DEF Counts
      <4>2. QED
        BY <3>1, <4>1, <1>1, <1>3
    <3>2. CASE conversations[k] # NoConversation
      <4>1. cache[k] # <<>> => conversations[k].message_count >= Len(cache[k])
        BY DEF Counts
      <4>2. cache[k] = <<>> => Len(cache[k]) = 0
        OBVIOUS
      <4>3. QED
        BY <3>2, <4>1, <4>2, <1>1, <1>3
    <3>3. QED
      BY <3>1, <3>2
  <2>3. QED
    BY <2>1, <2>2, <1>1, <1>3 DEF Counts
<1>5. d \in Seq(Key) /\ Orders(d, c) /\ d # <<>>
  <2>1. CASE InCache(k)
    <3>1. d \in Seq(Key) /\ Orders(d, cache)
      BY <2>1, MoveToFrontOrders DEF InCache, Typed
    <3>2. \A q \in Key : c[q] # <<>> <=> cache[q] # <<>>
      BY <2>1, <1>1 DEF InCache
    <3> HIDE DEF d
    <3>3. Orders(d, c)
      BY <3>1, <3>2 DEF Orders
    <3>4. d # <<>>
      BY <3>1, <2>1 DEF Orders, InCache
    <3>5. QED
      BY <3>1, <3>3, <3>4
  <2>2. CASE ~InCache(k)
    <3>1. /\ d \in Seq(Key)
          /\ Len(d) = Len(deque) + 1
          /\ \A i \in 1..(Len(deque) + 1) : d[i] = IF i = 1 THEN k ELSE deque[i - 1]
      BY <2>2, PushFront DEF Typed
    <3> HIDE DEF d
    <3>2. /\ Len(deque) \in Nat
          /\ \A i \in 1..Len(deque) : deque[i] # k
          /\ \A i, j \in 1..Len(deque) : deque[i] = deque[j] => i = j
      BY <2>2, LenProperties DEF Typed, Orders, InCache
    <3>3. ASSUME NEW i \in 1..Len(d), NEW j \in 1..Len(d), d[i] = d[j]
          PROVE  i = j
      <4>1. CASE i = 1 \/ j = 1
        BY <3>1, <3>2, <3>3, <4>1
      <4>2. CASE i # 1 /\ j # 1
        <5>1. /\ i - 1 \in 1..Len(deque) /\ d[i] = deque[i - 1]
              /\ j - 1 \in 1..Len(deque) /\ d[j] = deque[j - 1]
          BY <3>1, <3>2, <4>2
        <5>2. i - 1 = j - 1
          BY <3>2, <3>3, <5>1
        <5>3. QED
          BY <3>1, <3>2, <5>2
      <4>3. QED
        BY <4>1, <4>2
    <3>4. ASSUME NEW q \in Key
          PROVE  c[q] # <<>> <=> \E i \in 1..Len(d) : d[i] = q
      <4>1. CASE q = k
        BY <4>1, <3>1, <3>2, <1>1, SMTT(30)
      <4>2. CASE q # k
        <5>1. c[q] # <<>> <=> \E i \in 1..Len(deque) : deque[i] = q
          BY <4>2, <1>1 DEF Orders
        <5>2. ASSUME NEW i \in 1..Len(deque)
              PROVE  \E j \in 1..Len(d) : d[j] = deque[i]
          <6>1. i + 1 \in 1..Len(d) /\ d[i + 1] = deque[i]
            BY <3>1, <3>2
          <6>2. QED
            BY <6>1
        <5>3. ASSUME NEW j \in 1..Len(d), d[j] = q
              PROVE  \E i \in 1..Len(deque) : deque[i] = q
          <6>1. j - 1 \in 1..Len(deque) /\ deque[j - 1] = q
            BY <3>1, <3>2, <4>2, <5>3
          <6>2. QED
            BY <6>1
        <5>4. QED
          BY <5>1, <5>2, <5>3
      <4>3. QED
        BY <4>1, <4>2
    <3>5. QED
      BY <3>1, <3>2, <3>3, <3>4 DEF Orders
  <2>3. QED
    BY <2>1, <2>2
<1>6. Inserted(k, e) = [cache |-> c, deque |-> d, conversations |-> m]
  BY DEF Inserted, c, m
<1> HIDE DEF d
<1>7. QED
  BY <1>1, <1>2, <1>3, <1>4, <1>5, <1>6 DEF Typed

\* One eviction from a consistent cache leaves it consistent, with one message
\* less.
LEMMA EvictedConsistent ==
    ASSUME NEW s, NEW n, Consistent(s.cache, s.deque, n, s.conversations),
           s.deque # <<>>
    PROVE  LET t == Evicted(s)
           IN  Consistent(t.cache, t.deque, n - 1, t.conversations)
<1> DEFINE c == s.cache
           d == s.deque
           m == s.conversations
           v == d[Len(d)]
           rest == Tail(c[v])
           c2 == [c EXCEPT ![v] = rest]
<1>1. Typed(c, d, m) /\ Orders(d, c) /\ Total(n, c) /\ Counts(m, c) /\ d # <<>>
  BY DEF Consistent
<1> HIDE DEF c, d, m
<1>2. Len(d) \in Nat \ {0} /\ v \in Key
  BY <1>1, EmptySeq, ElementOfSeq DEF Typed
<1>3. c[v] # <<>>
  BY <1>1, <1>2 DEF Orders
<1> HIDE DEF v
<1>4. /\ rest \in Seq(Entry)
      /\ Len(rest) = Len(c[v]) - 1
      /\ Len(c[v]) \in Nat
      /\ rest = <<>> <=> Len(rest) = 0
  BY <1>1, <1>2, <1>3, HeadTailProperties, LenProperties, EmptySeq DEF Typed
<1> HIDE DEF rest
<1>5. /\ c2 \in [Key -> Seq(Entry)]
      /\ c2[v] = rest
      /\ \A q \in Key \ {v} : c2[q] = c[q]
  BY <1>1, <1>2, <1>4 DEF Typed
<1>6. Total(n - 1, c2)
  BY <1>1, <1>2, <1>3, SlotsTail DEF Typed, rest
<1> HIDE DEF c2
<1>7. CASE rest # <<>>
  <2>1. Orders(d, c2)
    <3>1. \A q \in Key : c2[q] # <<>> <=> c[q] # <<>>
      BY <1>3, <1>5, <1>7
    <3>2. QED
      BY <3>1, <1>1 DEF Orders
  <2>2. Counts(m, c2)
    <3>1. m[v] # NoConversation /\ m[v].message_count >= Len(c[v]) /\ m[v].message_count > 0
      BY <1>1, <1>2, <1>3 DEF Counts
    <3>2. m[v].message_count \in Nat
      BY <3>1, <1>1, <1>2 DEF Typed, ConversationData
    <3>3. m[v].message_count >= Len(c2[v])
      BY <3>1, <3>2, <1>4, <1>5
    <3>4. QED
      BY <1>1, <3>1, <3>3, <1>5, <1>7 DEF Counts
  <2>3. Evicted(s) = [cache |-> c2, deque |-> d, conversations |-> m]
    BY <1>7 DEF Evicted, c, d, m, v, rest, c2
  <2>4. QED
    BY <2>1, <2>2, <2>3, <1>1, <1>5, <1>6, SMTT(30) DEF Consistent, Typed
<1>8. CASE rest = <<>>
  <2> DEFINE d2 == Front(d)
             m2 == [m EXCEPT ![v] = NoConversation]
  <2>1. \A q \in Key : c2[q] # <<>> <=> q # v /\ c[q] # <<>>
    BY <1>5, <1>8
  <2>2. d2 \in Seq(Key) /\ Orders(d2, c2)
    <3>1. /\ d2 \in Seq(Key)
          /\ Len(d2) = Len(d) - 1
          /\ \A i \in 1..(Len(d) - 1) : d2[i] = d[i]
      BY <1>1, <1>2, FrontAt DEF Typed
    <3> HIDE DEF d2
    <3>2. /\ \A i, j \in 1..Len(d) : d[i] = d[j] => i = j
          /\ d[Len(d)] = v
      BY <1>1 DEF Orders, v
    <3>3. ASSUME NEW q \in Key
          PROVE  c2[q] # <<>> <=> \E i \in 1..Len(d2) : d2[i] = q
      <4>1. c[q] # <<>> <=> \E i \in 1..Len(d) : d[i] = q
        BY <1>1 DEF Orders
      <4>2. ASSUME NEW i \in 1..Len(d), d[i] = q, q # v
            PROVE  \E j \in 1..Len(d2) : d2[j] = q
        <5>1. i # Len(d)
          BY <3>2, <4>2
        <5>2. i \in 1..Len(d2) /\ d2[i] = q
          BY <5>1, <3>1, <1>2, <4>2
        <5>3. QED
          BY <5>2
      <4>3. ASSUME NEW j \in 1..Len(d2), d2[j] = q
            PROVE  q # v /\ \E i \in 1..Len(d) : d[i] = q
        <5>1. j \in 1..Len(d) /\ j # Len(d) /\ d[j] = q /\ Len(d) \in 1..Len(d)
          BY <3>1, <1>2, <4>3
        <5>2. QED
          BY <5>1, <3>2
      <4>4. QED
        BY <2>1, <4>1, <4>2, <4>3
    <3>4. \A i, j \in 1..Len(d2) : d2[i] = d2[j] => i = j
      <4>1. \A i \in 1..Len(d2) : i \in 1..Len(d) /\ d2[i] = d[i]
        BY <3>1, <1>2
      <4>2. QED
        BY <4>1, <3>2, Zenon
    <3>5. QED
      BY <3>1, <3>3, <3>4 DEF Orders
  <2>3. /\ m2 \in [Key -> ConversationData \cup {NoConversation}]
        /\ m2[v] = NoConversation
        /\ \A q \in Key \ {v} : m2[q] = m[q]
    BY <1>1, <1>2 DEF Typed
  <2> HIDE DEF m2, d2
  <2>4. Counts(m2, c2)
    BY <1>1, <1>5, <2>1, <2>3 DEF Counts
  <2>5. Evicted(s) = [cache |-> c2, deque |-> d2, conversations |-> m2]
    BY <1>8 DEF Evicted, c, d, m, v, rest, c2, d2, m2
  <2>6. QED
    BY <2>2, <2>3, <2>4, <2>5, <1>5, <1>6 DEF Consistent, Typed
<1>9. QED
  BY <1>7, <1>8

LEMMA InsertOrAppendConsistent ==
    ASSUME IInv, NEW k \in Key, NEW e \in Entry, insert_or_append(k, e)
    PROVE  IInv'
<1> DEFINE s == Inserted(k, e)
           t == Evicted(s)
<1>1. Consistent(s.cache, s.deque, total_entries + 1, s.conversations) /\ s.deque # <<>>
  BY InsertedConsistent
<1>2. total_entries \in Nat /\ total_entries <= capacity
  BY TotalIsNat DEF IInv, Consistent, WithinCapacity
<1> HIDE DEF s
<1>3. CASE total_entries + 1 > capacity
  <2>1. Consistent(t.cache, t.deque, (total_entries + 1) - 1, t.conversations)
    BY <1>1, EvictedConsistent
  <2>2. (total_entries + 1) - 1 = total_entries
    BY <1>2
  <2>3. /\ cache' = t.cache /\ deque' = t.deque /\ conversations' = t.conversations
        /\ total_entries' = total_entries
    BY <1>3 DEF insert_or_append, s
  <2> HIDE DEF t
  <2>4. QED
    BY <2>1, <2>2, <2>3, <1>2 DEF IInv, WithinCapacity
<1>4. CASE ~(total_entries + 1 > capacity)
  <2>1. /\ cache' = s.cache /\ deque' = s.deque /\ conversations' = s.conversations
        /\ total_entries' = total_entries + 1
    BY <1>4 DEF insert_or_append, s
  <2>2. total_entries' <= capacity
    BY <2>1, <1>2, <1>4, CapacityAssumption
  <2>3. QED
    BY <2>1, <2>2, <1>1 DEF IInv, WithinCapacity
<1>5. QED
  BY <1>3, <1>4

-----------------------------------------------------------------------------
(* The theorems *)

\* The inductive invariant: the bookkeeping is consistent in every reachable state.
THEOREM CacheIsConsistent == Spec => []IInv
<1>1. Init => IInv
  BY InitConsistent DEF Init
<1>2. IInv /\ [Next]_vars => IInv'
  <2> SUFFICES ASSUME IInv, [Next]_vars PROVE IInv'
    OBVIOUS
  <2>1. ASSUME NEW k \in Key, get(k) PROVE IInv'
    BY <2>1, GetConsistent
  <2>2. ASSUME NEW k \in Key, delete(k) PROVE IInv'
    BY <2>2, DeleteConsistent
  <2>3. ASSUME NEW k \in Key, NEW e \in Entry, insert_or_append(k, e) PROVE IInv'
    BY <2>3, InsertOrAppendConsistent
  <2>4. ASSUME NEW k \in Key, NEW t \in Topic, set_topic_summary(k, t) PROVE IInv'
    BY <2>4, SetTopicSummaryConsistent
  <2>5. CASE UNCHANGED vars
    BY <2>5 DEF vars, IInv, Consistent, Typed, Orders, Total, Counts, Slots, WithinCapacity
  <2>6. QED
    BY <2>1, <2>2, <2>3, <2>4, <2>5 DEF Next
<1>3. QED
  BY <1>1, <1>2, PTL DEF Spec

\* The fields keep their types; above all the counter never goes negative.
THEOREM TypeCorrect == Spec => []TypeOK
<1>1. IInv => TypeOK
  BY TotalIsNat DEF IInv, Consistent, Typed, TypeOK
<1>2. QED
  BY <1>1, CacheIsConsistent, PTL

\* The deque, which get, insert_or_append and delete all edit, always orders
\* exactly the cached conversations.
THEOREM DequeCorrect == Spec => []DequeMatchesCache
<1>1. IInv => DequeMatchesCache
  BY DEF IInv, Consistent, Orders, DequeMatchesCache, InCache
<1>2. QED
  BY <1>1, CacheIsConsistent, PTL

\* The running total is the number of stored messages, for any number of them.
THEOREM TotalCorrect == Spec => []TotalIsExact
<1>1. IInv => TotalIsExact
  BY DEF IInv, Consistent, Total, TotalIsExact
<1>2. QED
  BY <1>1, CacheIsConsistent, PTL

\* One eviction per insertion keeps the cache within its capacity, whatever it is.
THEOREM CapacityCorrect == Spec => []WithinCapacity
<1>1. IInv => WithinCapacity
  BY DEF IInv
<1>2. QED
  BY <1>1, CacheIsConsistent, PTL

\* Metadata and history agree on which conversations have messages.
THEOREM MetadataCorrect == Spec => []MetadataMatchesHistory
<1>1. IInv => MetadataMatchesHistory
  BY DEF IInv, Consistent, Counts, MetadataMatchesHistory, InCache
<1>2. QED
  BY <1>1, CacheIsConsistent, PTL

-----------------------------------------------------------------------------
(* The same with threads *)

\* The statements that are executed under _lock.
Holding ==
    {"insert_remove", "insert_push", "insert_check", "insert_evict", "insert_pop", "delete_remove"}

Operation ==
    [at : {"idle", "get_remove", "get_push"} \cup Holding,
     key : Key \cup {None}, entry : Entry \cup {None}, oldest : Key \cup {None}]

\* What the locals of an operation o promise of the messages c: a conversation
\* whose metadata is about to go has none left.
Prepared(o, c) ==
    /\ o.at # "idle" => o.key \in Key
    /\ o.at = "insert_remove" => o.entry \in Entry
    /\ o.at = "insert_pop" => o.oldest \in Key /\ c[o.oldest] = <<>>
    /\ o.at = "delete_remove" => c[o.key] = <<>>

Operations ==
    /\ op \in [Thread -> Operation]
    /\ \A t \in Thread : Prepared(op[t], cache)

Locked ==
    /\ lock \in Thread \cup {None}
    /\ \A t \in Thread : op[t].at \in Holding <=> lock = t

\* The conversation with a message that is stored and not counted yet.
Pushed == {op[t].key : t \in {s \in Thread : op[s].at = "insert_push"}}

\* The counter n lags behind the messages c by the message of K.
CountedBut(n, c, K) ==
    /\ n \in Int
    /\ K = {} => Total(n, c)
    /\ K # {} => Total(n + 1, c)

\* The metadata m covers the messages c, but for the message of K.
ListedBut(m, c, K) ==
    \A k \in Key : c[k] # <<>> =>
        /\ k \notin K => m[k] # NoConversation /\ m[k].message_count >= Len(c[k])
        /\ k \in K => \/ m[k] = NoConversation /\ Len(c[k]) <= 1
                      \/ m[k] # NoConversation /\ Len(c[k]) <= m[k].message_count + 1

ThreadInv ==
    /\ Typed(cache, deque, conversations)
    /\ Operations
    /\ Locked
    /\ CountedBut(total_entries, cache, Pushed)
    /\ ListedBut(conversations, cache, Pushed)

\* The first of several occurrences can be removed as well.
LEMMA LeastNumber ==
    ASSUME NEW T, T \subseteq Nat, T # {}
    PROVE  \E x \in T : \A y \in T : x <= y
<1>1. PICK x \in T : \A y \in T : ~ (<<y, x>> \in OpToRel(<, Nat))
  BY NatLessThanWellFounded, WFMin, Zenon
<1>2. \A y \in T : ~(y < x)
  BY <1>1 DEF OpToRel
<1>3. QED
  BY <1>2

LEMMA RemoveFirstType ==
    ASSUME NEW S, NEW d \in Seq(S), NEW k
    PROVE  RemoveFirst(d, k) \in Seq(S)
<1> DEFINE I == {i \in 1..Len(d) : d[i] = k}
           p == SelectInSeq(d, LAMBDA v : v = k)
<1>1. CASE I = {}
  BY <1>1 DEF RemoveFirst
<1>2. CASE I # {}
  <2>1. \E x \in I : \A y \in I : x <= y
    <3>1. I \subseteq Nat
      OBVIOUS
    <3> HIDE DEF I
    <3>2. QED
      BY <1>2, <3>1, LeastNumber
  <2>2. Min(I) \in I
    BY <2>1 DEF Min
  <2>3. p \in 1..Len(d)
    BY <1>2, <2>2 DEF SelectInSeq
  <2>4. RemoveFirst(d, k) = SubSeq(d, 1, p - 1) \o SubSeq(d, p + 1, Len(d))
    BY <1>2 DEF RemoveFirst, RemoveAt
  <2> HIDE DEF p
  <2>5. SubSeq(d, 1, p - 1) \in Seq(S)
    <3>1. \A i \in 1..(p - 1) : d[i] \in S
      BY <2>3, ElementOfSeq
    <3>2. QED
      BY <2>3, <3>1, SubSeqProperties, SMT
  <2>6. SubSeq(d, p + 1, Len(d)) \in Seq(S)
    <3>1. \A i \in (p + 1)..Len(d) : d[i] \in S
      BY <2>3, ElementOfSeq
    <3>2. QED
      BY <2>3, <3>1, SubSeqProperties, SMT
  <2>7. QED
    BY <2>4, <2>5, <2>6, ConcatProperties
<1>3. QED
  BY <1>1, <1>2

\* The writer goes on, or a thread becomes the writer, or is it no longer: what
\* is uncounted from now on is what the new locals o say.
LEMMA WriterMoves ==
    ASSUME ThreadInv, NEW t \in Thread, lock \in {None, t}, NEW o \in Operation,
           op' = [op EXCEPT ![t] = o], Prepared(o, cache'),
           lock' = IF o.at \in Holding THEN t ELSE None
    PROVE  /\ Operations' /\ Locked'
           /\ Pushed = IF op[t].at = "insert_push" THEN {op[t].key} ELSE {}
           /\ Pushed' = IF o.at = "insert_push" THEN {o.key} ELSE {}
<1>1. /\ op \in [Thread -> Operation] /\ op' \in [Thread -> Operation] /\ op'[t] = o
      /\ \A s \in Thread \ {t} : op'[s] = op[s] /\ op[s].at \notin Holding
  BY ThreadAssumption DEF ThreadInv, Operations, Locked
<1>2. Operations'
  BY <1>1 DEF ThreadInv, Operations, Prepared, Holding
<1>3. Locked'
  BY <1>1, ThreadAssumption DEF ThreadInv, Locked
<1>4. Pushed = IF op[t].at = "insert_push" THEN {op[t].key} ELSE {}
  BY <1>1 DEF Pushed, Holding
<1>5. Pushed' = IF o.at = "insert_push" THEN {o.key} ELSE {}
  BY <1>1 DEF Pushed, Holding
<1>6. QED
  BY <1>2, <1>3, <1>4, <1>5

\* A reader moves: only the deque changes.
LEMMA ReaderMoves ==
    ASSUME ThreadInv, NEW t \in Thread, op[t].at \notin Holding, NEW o \in Operation,
           o.at \notin Holding, op' = [op EXCEPT ![t] = o], Prepared(o, cache),
           deque' \in Seq(Key), UNCHANGED <<cache, total_entries, conversations, lock>>
    PROVE  ThreadInv'
<1>1. /\ op \in [Thread -> Operation] /\ op' \in [Thread -> Operation] /\ op'[t] = o
      /\ \A s \in Thread \ {t} : op'[s] = op[s]
  BY DEF ThreadInv, Operations
<1>2. Operations'
  BY <1>1 DEF ThreadInv, Operations, Prepared
<1>3. Locked'
  BY <1>1, ThreadAssumption DEF ThreadInv, Locked
<1>4. Pushed' = Pushed
  BY <1>1 DEF Pushed, Holding
<1>5. QED
  BY <1>2, <1>3, <1>4 DEF ThreadInv, Typed, CountedBut, ListedBut, Total, Slots

\* What WriterMoves leaves to show.
LEMMA WriterKeeps ==
    ASSUME ThreadInv, NEW t \in Thread, lock \in {None, t}, NEW o \in Operation,
           op' = [op EXCEPT ![t] = o], Prepared(o, cache'),
           lock' = IF o.at \in Holding THEN t ELSE None,
           Typed(cache', deque', conversations'),
           CountedBut(total_entries', cache', IF o.at = "insert_push" THEN {o.key} ELSE {}),
           ListedBut(conversations', cache', IF o.at = "insert_push" THEN {o.key} ELSE {})
    PROVE  ThreadInv'
<1>1. Operations' /\ Locked' /\ Pushed' = IF o.at = "insert_push" THEN {o.key} ELSE {}
  BY WriterMoves
<1>2. QED
  BY <1>1 DEF ThreadInv

\* What the writer finds.
LEMMA WriterFinds ==
    ASSUME ThreadInv, NEW t \in Thread, lock \in {None, t}
    PROVE  /\ op[t] \in Operation /\ Prepared(op[t], cache)
           /\ Typed(cache, deque, conversations)
           /\ CountedBut(total_entries, cache, IF op[t].at = "insert_push" THEN {op[t].key} ELSE {})
           /\ ListedBut(conversations, cache, IF op[t].at = "insert_push" THEN {op[t].key} ELSE {})
<1>1. \A s \in Thread \ {t} : op[s].at \notin Holding
  BY ThreadAssumption DEF ThreadInv, Locked
<1>2. Pushed = IF op[t].at = "insert_push" THEN {op[t].key} ELSE {}
  BY <1>1 DEF Pushed, Holding
<1>3. QED
  BY <1>2 DEF ThreadInv, Operations

LEMMA IdleOperation == Idle \in Operation /\ Idle.at = "idle" /\ \A c : Prepared(Idle, c)
  BY DEF Idle, Operation, Prepared

LEMMA ReadersKeep ==
    ASSUME ThreadInv, NEW t \in Thread,
           (\E k \in Key : get_check(t, k)) \/ get_remove(t) \/ get_push(t)
    PROVE  ThreadInv'
<1>1. op[t] \in Operation /\ Prepared(op[t], cache) /\ deque \in Seq(Key)
  BY DEF ThreadInv, Operations, Typed
<1>2. ASSUME NEW k \in Key, get_check(t, k) PROVE ThreadInv'
  <2> DEFINE o == [Idle EXCEPT !.at = "get_remove", !.key = k]
  <2>1. /\ op[t].at = "idle" /\ op' = [op EXCEPT ![t] = o]
        /\ UNCHANGED <<cache, deque, total_entries, conversations, lock>>
    BY <1>2 DEF get_check, At, vars
  <2>2. o \in Operation /\ o.at = "get_remove" /\ Prepared(o, cache)
    BY DEF Idle, Operation, Prepared
  <2>3. op[t].at \notin Holding /\ o.at \notin Holding
    BY <2>1, <2>2 DEF Holding
  <2> HIDE DEF o
  <2>4. QED
    BY <1>1, <2>1, <2>2, <2>3, ReaderMoves
<1>3. CASE get_remove(t)
  <2>1. op[t].at = "get_remove" /\ UNCHANGED <<cache, total_entries, conversations>>
    BY <1>3 DEF get_remove, At
  <2>2. op[t].at \notin Holding /\ lock # t
    BY <2>1 DEF Holding, ThreadInv, Locked
  <2>3. CASE InDeque(op[t].key)
    <3> DEFINE o == [op[t] EXCEPT !.at = "get_push"]
    <3>1. /\ deque' = RemoveFirst(deque, op[t].key) /\ UNCHANGED lock
          /\ op' = [op EXCEPT ![t].at = "get_push"]
      BY <1>3, <2>3 DEF get_remove, Goto
    <3>2. deque' \in Seq(Key)
      BY <1>1, <3>1, RemoveFirstType
    <3>3. op' = [op EXCEPT ![t] = o]
      BY <3>1
    <3>4. o \in Operation /\ o.at = "get_push" /\ Prepared(o, cache)
      BY <1>1, <2>1 DEF Operation, Prepared
    <3>5. o.at \notin Holding
      BY <3>4 DEF Holding
    <3> HIDE DEF o
    <3>6. QED
      BY <2>1, <2>2, <3>1, <3>2, <3>3, <3>4, <3>5, ReaderMoves
  <2>4. CASE ~InDeque(op[t].key)
    <3>1. deque' = deque /\ op' = [op EXCEPT ![t] = Idle] /\ lock' = lock
      BY <1>3, <2>2, <2>4 DEF get_remove, Finish
    <3>2. Idle.at \notin Holding
      BY IdleOperation DEF Holding
    <3>3. QED
      BY <1>1, <2>1, <2>2, <3>1, <3>2, IdleOperation, ReaderMoves
  <2>5. QED
    BY <2>3, <2>4
<1>4. CASE get_push(t)
  <2>1. /\ op[t].at = "get_push" /\ UNCHANGED <<cache, total_entries, conversations>>
        /\ deque' = <<op[t].key>> \o deque /\ op' = [op EXCEPT ![t] = Idle]
    BY <1>4 DEF get_push, At, Finish
  <2>2. op[t].at \notin Holding /\ lock # t /\ op[t].key \in Key
    BY <1>1, <2>1 DEF Holding, ThreadInv, Locked, Prepared
  <2>3. lock' = lock
    BY <1>4, <2>2 DEF get_push, Finish
  <2>4. deque' \in Seq(Key)
    BY <1>1, <2>1, <2>2, PushFront
  <2>5. Idle.at \notin Holding
    BY IdleOperation DEF Holding
  <2>6. QED
    BY <2>1, <2>2, <2>3, <2>4, <2>5, IdleOperation, ReaderMoves
<1>5. QED
  BY <1>2, <1>3, <1>4

\* A new message, stored under its key, and not counted yet.
LEMMA OneUncounted ==
    ASSUME NEW c \in [Key -> Seq(Entry)], NEW n, NEW k \in Key, NEW e \in Entry,
           NEW m \in [Key -> ConversationData \cup {NoConversation}],
           CountedBut(n, c, {}), ListedBut(m, c, {})
    PROVE  LET b == [c EXCEPT ![k] = Append(@, e)]
           IN  b \in [Key -> Seq(Entry)] /\ CountedBut(n, b, {k}) /\ ListedBut(m, b, {k})
<1> DEFINE b == [c EXCEPT ![k] = Append(@, e)]
<1>1. /\ b \in [Key -> Seq(Entry)] /\ Len(c[k]) \in Nat /\ Len(b[k]) = Len(c[k]) + 1
      /\ \A q \in Key \ {k} : b[q] = c[q]
  BY LenProperties, AppendProperties
<1>2. Total(n + 1, b)
  BY SlotsAppend DEF CountedBut
<1>3. CountedBut(n, b, {k})
  BY <1>2 DEF CountedBut
<1> HIDE DEF b
<1>4. ListedBut(m, b, {k})
  <2>1. CASE m[k] = NoConversation
    <3>1. c[k] = <<>>
      BY <2>1 DEF ListedBut
    <3>2. Len(b[k]) <= 1
      BY <1>1, <3>1
    <3>3. QED
      BY <1>1, <2>1, <3>2 DEF ListedBut
  <2>2. CASE m[k] # NoConversation
    <3>1. m[k].message_count \in Nat
      BY <2>2 DEF ConversationData
    <3>2. Len(c[k]) <= m[k].message_count
      <4>1. CASE c[k] = <<>>
        BY <3>1, <4>1
      <4>2. CASE c[k] # <<>>
        <5>1. m[k].message_count >= Len(c[k])
          BY <4>2 DEF ListedBut
        <5>2. QED
          BY <1>1, <3>1, <5>1
      <4>3. QED
        BY <4>1, <4>2
    <3>3. Len(b[k]) <= m[k].message_count + 1
      BY <1>1, <3>1, <3>2
    <3>4. QED
      BY <1>1, <2>2, <3>3 DEF ListedBut
  <2>3. QED
    BY <2>1, <2>2
<1>5. QED
  BY <1>1, <1>3, <1>4 DEF b

LEMMA InsertStartKeeps ==
    ASSUME ThreadInv, NEW t \in Thread, NEW k \in Key, NEW e \in Entry, insert_start(t, k, e)
    PROVE  ThreadInv'
<1>1. /\ op[t].at = "idle" /\ lock = None /\ lock' = t
      /\ UNCHANGED <<deque, total_entries, conversations>>
  BY DEF insert_start, At
<1>2. /\ Typed(cache, deque, conversations)
      /\ CountedBut(total_entries, cache, {}) /\ ListedBut(conversations, cache, {})
  BY <1>1, WriterFinds
<1>3. CASE InCache(k)
  <2> DEFINE o == [Idle EXCEPT !.at = "insert_remove", !.key = k, !.entry = e]
  <2>1. op' = [op EXCEPT ![t] = o] /\ UNCHANGED cache
    BY <1>3 DEF insert_start
  <2>2. o \in Operation /\ o.at = "insert_remove" /\ Prepared(o, cache)
    BY DEF Idle, Operation, Holding, Prepared
  <2>3. o.at \in Holding
    BY <2>2 DEF Holding
  <2> HIDE DEF o
  <2>4. QED
    BY <1>1, <1>2, <2>1, <2>2, <2>3, WriterKeeps
<1>4. CASE ~InCache(k)
  <2> DEFINE o == [Idle EXCEPT !.at = "insert_push", !.key = k]
  <2>1. op' = [op EXCEPT ![t] = o] /\ cache' = [cache EXCEPT ![k] = <<e>>]
    BY <1>4 DEF insert_start
  <2>2. o \in Operation /\ o.at = "insert_push" /\ o.key = k /\ Prepared(o, cache')
    BY DEF Idle, Operation, Holding, Prepared
  <2>3. o.at \in Holding
    BY <2>2 DEF Holding
  <2> HIDE DEF o
  <2>4. cache' = [cache EXCEPT ![k] = Append(@, e)]
    <3>1. cache[k] = <<>> /\ Append(<<>>, e) = <<e>>
      BY <1>4 DEF InCache
    <3>2. QED
      BY <2>1, <3>1, Zenon
  <2>5. /\ cache' \in [Key -> Seq(Entry)]
        /\ CountedBut(total_entries, cache', {k}) /\ ListedBut(conversations, cache', {k})
    BY <1>2, <2>4, OneUncounted DEF Typed
  <2>6. Typed(cache', deque', conversations')
    BY <1>1, <1>2, <2>5 DEF Typed
  <2>7. QED
    BY <1>1, <2>1, <2>2, <2>3, <2>5, <2>6, WriterKeeps
<1>5. QED
  BY <1>3, <1>4

LEMMA InsertRemoveKeeps ==
    ASSUME ThreadInv, NEW t \in Thread, insert_remove(t)
    PROVE  ThreadInv'
<1> DEFINE k == op[t].key
           e == op[t].entry
<1>1. op[t].at = "insert_remove" /\ UNCHANGED <<total_entries, conversations>>
  BY DEF insert_remove, At
<1>2. lock = t /\ lock # None
  BY <1>1, ThreadAssumption DEF ThreadInv, Locked, Holding
<1>3. /\ Typed(cache, deque, conversations) /\ op[t] \in Operation
      /\ CountedBut(total_entries, cache, {}) /\ ListedBut(conversations, cache, {})
      /\ k \in Key /\ e \in Entry
  BY <1>1, <1>2, WriterFinds DEF Prepared
<1> HIDE DEF k, e
<1>4. CASE InDeque(k)
  <2> DEFINE o == [op[t] EXCEPT !.at = "insert_push", !.entry = None]
  <2>1. /\ deque' = RemoveFirst(deque, k) /\ UNCHANGED lock
        /\ cache' = [cache EXCEPT ![k] = Append(@, e)]
        /\ op' = [op EXCEPT ![t].at = "insert_push", ![t].entry = None]
    BY <1>4 DEF insert_remove, k, e
  <2>2. op' = [op EXCEPT ![t] = o]
    BY <2>1 DEF ThreadInv, Operations
  <2>3. o \in Operation /\ o.at = "insert_push" /\ o.key = k /\ Prepared(o, cache')
    BY <1>3 DEF Operation, Holding, Prepared, k
  <2>4. o.at \in Holding
    BY <2>3 DEF Holding
  <2> HIDE DEF o
  <2>5. /\ cache' \in [Key -> Seq(Entry)]
        /\ CountedBut(total_entries, cache', {k}) /\ ListedBut(conversations, cache', {k})
    BY <1>3, <2>1, OneUncounted DEF Typed
  <2>6. Typed(cache', deque', conversations')
    BY <1>1, <1>3, <2>1, <2>5, RemoveFirstType DEF Typed
  <2>7. QED
    BY <1>1, <1>2, <2>1, <2>2, <2>3, <2>4, <2>5, <2>6, WriterKeeps
<1>5. CASE ~InDeque(k)
  <2>1. op' = [op EXCEPT ![t] = Idle] /\ lock' = None /\ UNCHANGED <<cache, deque>>
    BY <1>2, <1>5 DEF insert_remove, Finish, k
  <2>2. Idle.at \notin Holding /\ Idle.at # "insert_push"
    BY IdleOperation DEF Holding
  <2>3. QED
    BY <1>1, <1>2, <1>3, <2>1, <2>2, IdleOperation, WriterKeeps
<1>6. QED
  BY <1>4, <1>5

LEMMA InsertPushKeeps ==
    ASSUME ThreadInv, NEW t \in Thread, insert_push(t)
    PROVE  ThreadInv'
<1> DEFINE k == op[t].key
           o == [op[t] EXCEPT !.at = "insert_check"]
<1>1. /\ op[t].at = "insert_push" /\ UNCHANGED <<cache, lock>>
      /\ deque' = <<k>> \o deque /\ total_entries' = total_entries + 1
      /\ conversations' = [conversations EXCEPT ![k] = Counted(k)]
      /\ op' = [op EXCEPT ![t].at = "insert_check"]
  BY DEF insert_push, At, Goto
<1>2. lock = t
  BY <1>1 DEF ThreadInv, Locked, Holding
<1>3. /\ Typed(cache, deque, conversations) /\ op[t] \in Operation /\ k \in Key
      /\ CountedBut(total_entries, cache, {k}) /\ ListedBut(conversations, cache, {k})
  BY <1>1, <1>2, WriterFinds DEF Prepared
<1>4. op' = [op EXCEPT ![t] = o]
  BY <1>1 DEF ThreadInv, Operations
<1>5. o \in Operation /\ o.at = "insert_check" /\ Prepared(o, cache')
  BY <1>3 DEF Operation, Holding, Prepared
<1>6. o.at \in Holding
  BY <1>5 DEF Holding
<1> HIDE DEF k, o
<1>7. CountedBut(total_entries', cache', {})
  BY <1>1, <1>3 DEF CountedBut
<1>8. /\ Counted(k) \in ConversationData /\ Counted(k) # NoConversation
      /\ conversations[k] = NoConversation => Counted(k).message_count = 1
      /\ conversations[k] # NoConversation =>
            Counted(k).message_count = conversations[k].message_count + 1
  BY <1>3, TopicAssumption, NoConversationAssumption DEF Typed, Counted, ConversationData
<1>9. /\ conversations' \in [Key -> ConversationData \cup {NoConversation}]
      /\ conversations'[k] = Counted(k)
      /\ \A q \in Key \ {k} : conversations'[q] = conversations[q]
  BY <1>1, <1>3, <1>8 DEF Typed
<1>10. cache[k] # <<>> => Counted(k).message_count >= Len(cache[k])
  <2>1. Len(cache[k]) \in Nat /\ Counted(k).message_count \in Nat
    BY <1>3, <1>8, LenProperties DEF Typed, ConversationData
  <2>2. QED
    BY <1>3, <1>8, <2>1 DEF ListedBut
<1>11. ListedBut(conversations', cache', {})
  BY <1>1, <1>3, <1>8, <1>9, <1>10 DEF ListedBut
<1>12. Typed(cache', deque', conversations')
  BY <1>1, <1>3, <1>9, PushFront DEF Typed
<1>13. QED
  BY <1>1, <1>2, <1>4, <1>5, <1>6, <1>7, <1>11, <1>12, WriterKeeps

LEMMA InsertCheckKeeps ==
    ASSUME ThreadInv, NEW t \in Thread, insert_check(t)
    PROVE  ThreadInv'
<1>1. op[t].at = "insert_check" /\ UNCHANGED <<cache, deque, total_entries, conversations>>
  BY DEF insert_check, At, vars
<1>2. lock = t
  BY <1>1 DEF ThreadInv, Locked, Holding
<1>3. /\ Typed(cache, deque, conversations) /\ op[t] \in Operation /\ op[t].key \in Key
      /\ CountedBut(total_entries, cache, {}) /\ ListedBut(conversations, cache, {})
  BY <1>1, <1>2, WriterFinds DEF Prepared
<1>4. CASE op' = [op EXCEPT ![t].at = "insert_evict"] /\ UNCHANGED lock
  <2> DEFINE o == [op[t] EXCEPT !.at = "insert_evict"]
  <2>1. op' = [op EXCEPT ![t] = o]
    BY <1>4 DEF ThreadInv, Operations
  <2>2. o \in Operation /\ o.at = "insert_evict" /\ Prepared(o, cache')
    BY <1>3 DEF Operation, Holding, Prepared
  <2>3. o.at \in Holding
    BY <2>2 DEF Holding
  <2> HIDE DEF o
  <2>4. QED
    BY <1>1, <1>2, <1>3, <1>4, <2>1, <2>2, <2>3, WriterKeeps
<1>5. CASE op' = [op EXCEPT ![t] = Idle] /\ lock' = None
  <2>1. Idle.at \notin Holding /\ Idle.at # "insert_push"
    BY IdleOperation DEF Holding
  <2>2. QED
    BY <1>1, <1>2, <1>3, <1>5, <2>1, IdleOperation, WriterKeeps
<1>6. QED
  BY <1>2, <1>4, <1>5 DEF insert_check, Goto, Finish

\* A message less leaves less to count and to list.
LEMMA OneLess ==
    ASSUME NEW c \in [Key -> Seq(Entry)], NEW n, NEW k \in Key, c[k] # <<>>,
           NEW m \in [Key -> ConversationData \cup {NoConversation}],
           CountedBut(n, c, {}), ListedBut(m, c, {})
    PROVE  LET b == [c EXCEPT ![k] = Tail(@)]
           IN  /\ b \in [Key -> Seq(Entry)] /\ b[k] = Tail(c[k])
               /\ CountedBut(n - 1, b, {}) /\ ListedBut(m, b, {})
<1> DEFINE b == [c EXCEPT ![k] = Tail(@)]
<1>1. /\ b \in [Key -> Seq(Entry)] /\ b[k] = Tail(c[k])
      /\ Len(c[k]) \in Nat /\ Len(b[k]) = Len(c[k]) - 1
      /\ \A q \in Key \ {k} : b[q] = c[q]
  BY EmptySeq, HeadTailProperties, LenProperties
<1>2. Total(n - 1, b)
  BY SlotsTail DEF CountedBut
<1>3. CountedBut(n - 1, b, {})
  BY <1>2 DEF CountedBut
<1> HIDE DEF b
<1>4. m[k] # NoConversation /\ m[k].message_count >= Len(c[k])
  BY DEF ListedBut
<1>5. m[k].message_count \in Nat
  BY <1>4 DEF ConversationData
<1>6. m[k].message_count >= Len(b[k])
  BY <1>1, <1>4, <1>5
<1>7. ListedBut(m, b, {})
  BY <1>1, <1>4, <1>6 DEF ListedBut
<1>8. QED
  BY <1>1, <1>3, <1>7 DEF b

LEMMA InsertEvictKeeps ==
    ASSUME ThreadInv, NEW t \in Thread, insert_evict(t)
    PROVE  ThreadInv'
<1>1. op[t].at = "insert_evict" /\ UNCHANGED <<deque, conversations>>
  BY DEF insert_evict, At
<1>2. lock = t
  BY <1>1 DEF ThreadInv, Locked, Holding
<1>3. /\ Typed(cache, deque, conversations) /\ op[t] \in Operation /\ op[t].key \in Key
      /\ CountedBut(total_entries, cache, {}) /\ ListedBut(conversations, cache, {})
  BY <1>1, <1>2, WriterFinds DEF Prepared
<1>4. Idle.at \notin Holding /\ Idle.at # "insert_push"
  BY IdleOperation DEF Holding
<1>5. CASE deque = <<>> \/ ~InCache(Last(deque))
  <2>1. op' = [op EXCEPT ![t] = Idle] /\ lock' = None /\ UNCHANGED <<cache, total_entries>>
    BY <1>2, <1>5 DEF insert_evict, Finish
  <2>2. QED
    BY <1>1, <1>2, <1>3, <1>4, <2>1, IdleOperation, WriterKeeps
<1>6. CASE deque # <<>> /\ InCache(Last(deque))
  <2> DEFINE k == Last(deque)
             rest == Tail(cache[k])
             o == [op[t] EXCEPT !.at = "insert_pop", !.oldest = k]
  <2>1. k \in Key /\ cache[k] # <<>>
    <3>1. Len(deque) \in 1..Len(deque)
      BY <1>3, <1>6, EmptySeq, LenProperties DEF Typed
    <3>2. deque[Len(deque)] \in Key
      BY <1>3, <3>1, ElementOfSeq DEF Typed
    <3>3. QED
      BY <1>6, <3>2 DEF Last, InCache
  <2> HIDE DEF k
  <2>2. /\ cache' = [cache EXCEPT ![k] = Tail(@)] /\ total_entries' = total_entries - 1
        /\ IF rest = <<>>
             THEN op' = [op EXCEPT ![t].at = "insert_pop", ![t].oldest = k] /\ lock' = lock
             ELSE op' = [op EXCEPT ![t] = Idle] /\ lock' = None
    BY <1>2, <1>6 DEF insert_evict, Finish, k
  <2>3. /\ cache' \in [Key -> Seq(Entry)] /\ cache'[k] = rest
        /\ CountedBut(total_entries', cache', {}) /\ ListedBut(conversations', cache', {})
    BY <1>1, <1>3, <2>1, <2>2, OneLess DEF Typed
  <2>4. Typed(cache', deque', conversations')
    BY <1>1, <1>3, <2>3 DEF Typed
  <2> HIDE DEF rest
  <2>5. CASE rest = <<>>
    <3>1. op' = [op EXCEPT ![t] = o]
      BY <2>2, <2>5 DEF ThreadInv, Operations
    <3>2. o \in Operation /\ o.at = "insert_pop" /\ Prepared(o, cache')
      BY <1>3, <2>1, <2>3, <2>5 DEF Operation, Holding, Prepared
    <3>3. o.at \in Holding
      BY <3>2 DEF Holding
    <3> HIDE DEF o
    <3>4. QED
      BY <1>2, <2>2, <2>3, <2>4, <2>5, <3>1, <3>2, <3>3, WriterKeeps
  <2>6. CASE rest # <<>>
    BY <1>2, <1>4, <2>2, <2>3, <2>4, <2>6, IdleOperation, WriterKeeps
  <2>7. QED
    BY <2>5, <2>6
<1>7. QED
  BY <1>5, <1>6

\* Metadata may go where there are no messages.
LEMMA MetadataGoes ==
    ASSUME NEW c, NEW m \in [Key -> ConversationData \cup {NoConversation}], NEW k \in Key,
           c[k] = <<>>, ListedBut(m, c, {})
    PROVE  LET w == [m EXCEPT ![k] = NoConversation]
           IN  w \in [Key -> ConversationData \cup {NoConversation}] /\ ListedBut(w, c, {})
  BY DEF ListedBut

LEMMA InsertPopKeeps ==
    ASSUME ThreadInv, NEW t \in Thread, insert_pop(t)
    PROVE  ThreadInv'
<1> DEFINE k == op[t].oldest
<1>1. op[t].at = "insert_pop" /\ op' = [op EXCEPT ![t] = Idle] /\ UNCHANGED <<cache, total_entries>>
  BY DEF insert_pop, At, Finish
<1>2. lock = t
  BY <1>1 DEF ThreadInv, Locked, Holding
<1>3. lock' = None
  BY <1>2 DEF insert_pop, Finish
<1>4. /\ Typed(cache, deque, conversations) /\ k \in Key /\ cache[k] = <<>>
      /\ CountedBut(total_entries, cache, {}) /\ ListedBut(conversations, cache, {})
  BY <1>1, <1>2, WriterFinds DEF Prepared
<1> HIDE DEF k
<1>5. Idle.at \notin Holding /\ Idle.at # "insert_push"
  BY IdleOperation DEF Holding
<1>6. CASE deque = <<>>
  <2>1. UNCHANGED <<deque, conversations>>
    BY <1>6 DEF insert_pop
  <2>2. QED
    BY <1>1, <1>2, <1>3, <1>4, <1>5, <2>1, IdleOperation, WriterKeeps
<1>7. CASE deque # <<>>
  <2>1. /\ deque' = Front(deque)
        /\ conversations' = [conversations EXCEPT ![k] = NoConversation]
    BY <1>7 DEF insert_pop, k
  <2>2. deque' \in Seq(Key)
    BY <1>4, <1>7, <2>1, FrontAt, EmptySeq, LenProperties DEF Typed
  <2>3. /\ conversations' \in [Key -> ConversationData \cup {NoConversation}]
        /\ ListedBut(conversations', cache, {})
    BY <1>4, <2>1, MetadataGoes DEF Typed
  <2>4. Typed(cache', deque', conversations')
    BY <1>1, <1>4, <2>2, <2>3 DEF Typed
  <2>5. QED
    BY <1>1, <1>2, <1>3, <1>4, <1>5, <2>3, <2>4, IdleOperation, WriterKeeps
<1>8. QED
  BY <1>6, <1>7

LEMMA DeleteStartKeeps ==
    ASSUME ThreadInv, NEW t \in Thread, NEW k \in Key, delete_start(t, k)
    PROVE  ThreadInv'
<1> DEFINE o == [Idle EXCEPT !.at = "delete_remove", !.key = k]
<1>1. /\ op[t].at = "idle" /\ lock = None /\ lock' = t /\ UNCHANGED <<deque, conversations>>
      /\ total_entries' = total_entries - Len(cache[k])
      /\ cache' = [cache EXCEPT ![k] = <<>>] /\ op' = [op EXCEPT ![t] = o]
  BY DEF delete_start, At
<1>2. /\ Typed(cache, deque, conversations)
      /\ CountedBut(total_entries, cache, {}) /\ ListedBut(conversations, cache, {})
  BY <1>1, WriterFinds
<1>3. /\ cache' \in [Key -> Seq(Entry)] /\ cache'[k] = <<>>
      /\ \A q \in Key \ {k} : cache'[q] = cache[q]
  BY <1>1, <1>2 DEF Typed
<1>4. /\ Total(total_entries - Len(cache[k]), cache')
      /\ total_entries - Len(cache[k]) \in Nat
  BY <1>1, <1>2, SlotsClear DEF Typed, CountedBut
<1>5. CountedBut(total_entries', cache', {})
  BY <1>1, <1>4 DEF CountedBut
<1>6. ListedBut(conversations', cache', {})
  BY <1>1, <1>2, <1>3 DEF ListedBut
<1>7. o \in Operation /\ o.at = "delete_remove" /\ Prepared(o, cache')
  BY <1>3 DEF Idle, Operation, Holding, Prepared
<1>8. o.at \in Holding
  BY <1>7 DEF Holding
<1> HIDE DEF o
<1>9. Typed(cache', deque', conversations')
  BY <1>1, <1>2, <1>3 DEF Typed
<1>10. QED
  BY <1>1, <1>5, <1>6, <1>7, <1>8, <1>9, WriterKeeps

LEMMA DeleteRemoveKeeps ==
    ASSUME ThreadInv, NEW t \in Thread, delete_remove(t)
    PROVE  ThreadInv'
<1> DEFINE k == op[t].key
<1>1. op[t].at = "delete_remove" /\ op' = [op EXCEPT ![t] = Idle] /\ UNCHANGED <<cache, total_entries>>
  BY DEF delete_remove, At, Finish
<1>2. lock = t
  BY <1>1 DEF ThreadInv, Locked, Holding
<1>3. lock' = None
  BY <1>2 DEF delete_remove, Finish
<1>4. /\ Typed(cache, deque, conversations) /\ k \in Key /\ cache[k] = <<>>
      /\ CountedBut(total_entries, cache, {}) /\ ListedBut(conversations, cache, {})
  BY <1>1, <1>2, WriterFinds DEF Prepared
<1> HIDE DEF k
<1>5. Idle.at \notin Holding /\ Idle.at # "insert_push"
  BY IdleOperation DEF Holding
<1>6. CASE ~InDeque(k)
  <2>1. UNCHANGED <<deque, conversations>>
    BY <1>6 DEF delete_remove, k
  <2>2. QED
    BY <1>1, <1>2, <1>3, <1>4, <1>5, <2>1, IdleOperation, WriterKeeps
<1>7. CASE InDeque(k)
  <2>1. /\ deque' = RemoveFirst(deque, k)
        /\ conversations' = [conversations EXCEPT ![k] = NoConversation]
    BY <1>7 DEF delete_remove, k
  <2>2. deque' \in Seq(Key)
    BY <1>4, <2>1, RemoveFirstType DEF Typed
  <2>3. /\ conversations' \in [Key -> ConversationData \cup {NoConversation}]
        /\ ListedBut(conversations', cache, {})
    BY <1>4, <2>1, MetadataGoes DEF Typed
  <2>4. Typed(cache', deque', conversations')
    BY <1>1, <1>4, <2>2, <2>3 DEF Typed
  <2>5. QED
    BY <1>1, <1>2, <1>3, <1>4, <1>5, <2>3, <2>4, IdleOperation, WriterKeeps
<1>8. QED
  BY <1>6, <1>7

LEMMA SetTopicKeeps ==
    ASSUME ThreadInv, NEW t \in Thread, NEW k \in Key, NEW topic \in Topic, set_topic(t, k, topic)
    PROVE  ThreadInv'
<1>1. /\ lock = None /\ op[t].at = "idle" /\ set_topic_summary(k, topic)
      /\ UNCHANGED <<cache, deque, total_entries, lock, op>>
  BY DEF set_topic, At, set_topic_summary
<1>2. /\ Typed(cache, deque, conversations)
      /\ CountedBut(total_entries, cache, {}) /\ ListedBut(conversations, cache, {})
  BY <1>1, WriterFinds
<1>3. /\ \A q \in Key \ {k} : conversations'[q] = conversations[q]
      /\ conversations' \in [Key -> ConversationData \cup {NoConversation}]
      /\ conversations'[k] # NoConversation
      /\ conversations[k] # NoConversation =>
            conversations'[k].message_count = conversations[k].message_count
  BY <1>1, <1>2, NoConversationAssumption DEF set_topic_summary, Typed, ConversationData
<1>4. ListedBut(conversations', cache', {})
  BY <1>1, <1>2, <1>3 DEF ListedBut
<1>5. \A s \in Thread : op[s].at \notin Holding
  BY <1>1, ThreadAssumption DEF ThreadInv, Locked
<1>6. Pushed' = {} /\ Pushed = {}
  BY <1>1, <1>5 DEF Pushed, Holding
<1>7. Operations' /\ Locked'
  BY <1>1 DEF ThreadInv, Operations, Locked
<1>8. CountedBut(total_entries', cache', {})
  BY <1>1, <1>2
<1>9. Typed(cache', deque', conversations')
  BY <1>1, <1>2, <1>3 DEF Typed
<1>10. QED
  BY <1>4, <1>6, <1>7, <1>8, <1>9 DEF ThreadInv

LEMMA ThreadInitial == ThreadInit => ThreadInv
<1> SUFFICES ASSUME ThreadInit PROVE ThreadInv
  OBVIOUS
<1>1. /\ IInv /\ cache = [k \in Key |-> <<>>] /\ lock = None /\ op = [t \in Thread |-> Idle]
      /\ total_entries = 0
  BY InitConsistent DEF ThreadInit, Init, initialize_cache
<1>2. Operations
  BY <1>1, IdleOperation DEF Operations
<1>3. \A t \in Thread : op[t].at = "idle"
  BY <1>1, IdleOperation
<1>4. Locked /\ Pushed = {}
  BY <1>1, <1>3, ThreadAssumption DEF Locked, Pushed, Holding
<1>5. Total(total_entries, cache) /\ Typed(cache, deque, conversations)
  BY <1>1 DEF IInv, Consistent
<1>6. CountedBut(total_entries, cache, {})
  BY <1>1, <1>5 DEF CountedBut
<1>7. ListedBut(conversations, cache, {})
  BY <1>1 DEF ListedBut
<1>8. QED
  BY <1>2, <1>4, <1>5, <1>6, <1>7 DEF ThreadInv

LEMMA ThreadStep == ThreadInv /\ [ThreadNext]_threadVars => ThreadInv'
<1> SUFFICES ASSUME ThreadInv, [ThreadNext]_threadVars PROVE ThreadInv'
  OBVIOUS
<1>1. ASSUME NEW t \in Thread, Begin(t) PROVE ThreadInv'
  BY <1>1, ReadersKeep, DeleteStartKeeps, InsertStartKeeps, SetTopicKeeps DEF Begin
<1>2. ASSUME NEW t \in Thread, Step(t) PROVE ThreadInv'
  BY <1>2, ReadersKeep, InsertRemoveKeeps, InsertPushKeeps, InsertCheckKeeps, InsertEvictKeeps,
     InsertPopKeeps, DeleteRemoveKeeps DEF Step
<1>3. CASE UNCHANGED threadVars
  <2>1. UNCHANGED <<cache, deque, total_entries, conversations, lock, op>>
    BY <1>3 DEF threadVars, vars
  <2>2. Pushed' = Pushed /\ Operations' /\ Locked'
    BY <2>1 DEF ThreadInv, Pushed, Operations, Locked
  <2>3. QED
    BY <2>1, <2>2 DEF ThreadInv
<1>4. QED
  BY <1>1, <1>2, <1>3 DEF ThreadNext

LEMMA ThreadInvariant == ThreadSpec => []ThreadInv
  BY ThreadInitial, ThreadStep, PTL DEF ThreadSpec

\* For any number of threads: the reads without _lock can make the operations
\* under it fail at their deque.remove or deque.pop, and still total_entries is
\* the number of stored messages whenever the lock is free.
THEOREM TotalWithThreads == ThreadSpec => []TotalSurvivesRaces
<1>1. ThreadInv => TotalSurvivesRaces
  <2> SUFFICES ASSUME ThreadInv, lock = None PROVE TotalIsExact
    BY DEF TotalSurvivesRaces
  <2>1. Pushed = {}
    BY ThreadAssumption DEF ThreadInv, Locked, Pushed, Holding
  <2>2. QED
    BY <2>1 DEF ThreadInv, CountedBut, Total, TotalIsExact
<1>2. QED
  BY <1>1, ThreadInvariant, PTL

\* For any number of threads: whichever statement of insert_or_append or delete
\* raises, a conversation that get returns is one that list shows, with a count
\* that covers its messages.
THEOREM ListedWithThreads == ThreadSpec => []ReadableIsListed
<1>1. ThreadInv => ReadableIsListed
  <2> SUFFICES ASSUME ThreadInv, lock = None, NEW u \in User, NEW c \in Conversation,
                      InCache(construct_key(u, c))
               PROVE  /\ c \in Listed(u)
                      /\ conversations[construct_key(u, c)].message_count
                            >= Len(cache[construct_key(u, c)])
    BY DEF ReadableIsListed
  <2>1. Pushed = {}
    BY ThreadAssumption DEF ThreadInv, Locked, Pushed, Holding
  <2>2. construct_key(u, c) \in Key
    BY DEF Key
  <2>3. QED
    BY <2>1, <2>2 DEF ThreadInv, ListedBut, Listed, InCache
<1>2. QED
  BY <1>1, ThreadInvariant, PTL

-----------------------------------------------------------------------------
(* The abstract store *)

\* The recency relation of a deque d, and what the abstract store makes of a
\* relation when conversation k is used, or goes.
OlderIn(d) == {p \in Key \X Key : \E i, j \in 1..Len(d) : i > j /\ p = <<d[i], d[j]>>}
Without(o, k) == {p \in o : p[1] # k /\ p[2] # k}
Stored(c) == {k \in Key : c[k] # <<>>}
Used(o, k, L) == Without(o, k) \cup {<<j, k>> : j \in L \ {k}}

\* A key that leaves the deque leaves the relation.
LEMMA OlderWithout ==
    ASSUME NEW d \in Seq(Key), NEW p \in 1..Len(d),
           \A i, j \in 1..Len(d) : d[i] = d[j] => i = j,
           NEW r \in Seq(Key), Len(r) = Len(d) - 1,
           \A i \in 1..(Len(d) - 1) : r[i] = IF i < p THEN d[i] ELSE d[i + 1]
    PROVE  OlderIn(r) = Without(OlderIn(d), d[p])
<1>1. Len(d) \in Nat /\ \A i \in 1..Len(d) : d[i] \in Key
  BY LenProperties, ElementOfSeq
<1>2. ASSUME NEW q \in OlderIn(r) PROVE q \in Without(OlderIn(d), d[p])
  <2>1. PICK i \in 1..Len(r), j \in 1..Len(r) : i > j /\ q = <<r[i], r[j]>>
    BY <1>2 DEF OlderIn
  <2>2. PICK m \in 1..Len(d) : m = IF i < p THEN i ELSE i + 1
    BY <1>1
  <2>3. PICK n \in 1..Len(d) : n = IF j < p THEN j ELSE j + 1
    BY <1>1
  <2>4. r[i] = d[m] /\ r[j] = d[n]
    BY <1>1, <2>2, <2>3
  <2>5. m > n /\ m # p /\ n # p
    BY <2>1, <2>2, <2>3
  <2>6. d[m] # d[p] /\ d[n] # d[p]
    BY <2>5
  <2>7. q = <<d[m], d[n]>>
    BY <2>1, <2>4
  <2>8. q \in OlderIn(d)
    BY <1>1, <2>5, <2>7 DEF OlderIn
  <2>9. QED
    BY <2>6, <2>7, <2>8 DEF Without
<1>3. ASSUME NEW q \in Without(OlderIn(d), d[p]) PROVE q \in OlderIn(r)
  <2>1. q \in OlderIn(d) /\ q[1] # d[p] /\ q[2] # d[p]
    BY <1>3 DEF Without
  <2>2. PICK m \in 1..Len(d), n \in 1..Len(d) : m > n /\ q = <<d[m], d[n]>>
    BY <2>1 DEF OlderIn
  <2>3. m # p /\ n # p
    BY <2>1, <2>2
  <2>4. PICK i \in 1..Len(r) : i = IF m < p THEN m ELSE m - 1
    BY <1>1, <2>3
  <2>5. PICK j \in 1..Len(r) : j = IF n < p THEN n ELSE n - 1
    BY <1>1, <2>3
  <2>6. r[i] = d[m] /\ r[j] = d[n]
    BY <1>1, <2>3, <2>4, <2>5
  <2>7. i > j
    BY <2>2, <2>3, <2>4, <2>5
  <2>8. q = <<r[i], r[j]>>
    BY <2>2, <2>6
  <2>9. QED
    BY <1>1, <2>2, <2>7, <2>8 DEF OlderIn
<1>4. QED
  BY <1>2, <1>3

\* A key that is pushed was used after all the others.
LEMMA OlderPushed ==
    ASSUME NEW r \in Seq(Key), NEW k \in Key
    PROVE  OlderIn(<<k>> \o r) = OlderIn(r) \cup {<<r[i], k>> : i \in 1..Len(r)}
<1> DEFINE f == <<k>> \o r
<1>1. /\ Len(r) \in Nat /\ \A i \in 1..Len(r) : r[i] \in Key
      /\ Len(f) = Len(r) + 1
      /\ \A i \in 1..(Len(r) + 1) : f[i] = IF i = 1 THEN k ELSE r[i - 1]
  BY PushFront, LenProperties, ElementOfSeq
<1> HIDE DEF f
<1>2. \A i \in 1..Len(r) : i + 1 \in 1..Len(f) /\ f[i + 1] = r[i]
  BY <1>1
<1>3. 1 \in 1..Len(f) /\ f[1] = k
  BY <1>1
<1>4. ASSUME NEW q \in OlderIn(f) PROVE q \in OlderIn(r) \cup {<<r[i], k>> : i \in 1..Len(r)}
  <2>1. PICK i \in 1..Len(f), j \in 1..Len(f) : i > j /\ q = <<f[i], f[j]>>
    BY <1>4 DEF OlderIn
  <2>2. i - 1 \in 1..Len(r) /\ f[i] = r[i - 1]
    BY <1>1, <2>1
  <2>3. CASE j = 1
    BY <1>3, <2>1, <2>2, <2>3
  <2>4. CASE j # 1
    <3>1. j - 1 \in 1..Len(r) /\ f[j] = r[j - 1] /\ i - 1 > j - 1
      BY <1>1, <2>1, <2>4
    <3>2. q = <<r[i - 1], r[j - 1]>>
      BY <2>1, <2>2, <3>1
    <3>3. QED
      BY <1>1, <2>2, <3>1, <3>2 DEF OlderIn
  <2>5. QED
    BY <2>3, <2>4
<1>5. ASSUME NEW q \in OlderIn(r) PROVE q \in OlderIn(f)
  <2>1. PICK i \in 1..Len(r), j \in 1..Len(r) : i > j /\ q = <<r[i], r[j]>>
    BY <1>5 DEF OlderIn
  <2>2. q = <<f[i + 1], f[j + 1]>> /\ i + 1 > j + 1
    BY <1>2, <2>1
  <2>3. QED
    BY <1>2, <2>2, <1>5 DEF OlderIn
<1>6. ASSUME NEW i \in 1..Len(r) PROVE <<r[i], k>> \in OlderIn(f)
  <2>1. <<r[i], k>> = <<f[i + 1], f[1]>> /\ i + 1 > 1
    BY <1>2, <1>3
  <2>2. QED
    BY <1>1, <1>2, <1>3, <2>1 DEF OlderIn
<1>7. QED
  BY <1>4, <1>5, <1>6 DEF f

\* deque.remove and deque.appendleft of a cached conversation: it was used last.
LEMMA OlderMoved ==
    ASSUME NEW c, NEW d \in Seq(Key), NEW k \in Key, Orders(d, c), c[k] # <<>>
    PROVE  /\ OlderIn(RemoveFirst(d, k)) = Without(OlderIn(d), k)
           /\ OlderIn(MoveToFront(d, k)) = Used(OlderIn(d), k, Stored(c))
<1>1. PICK p \in 1..Len(d) : d[p] = k
  BY DEF Orders
<1> DEFINE r == RemoveFirst(d, k)
<1>2. \A i, j \in 1..Len(d) : d[i] = d[j] => i = j
  BY DEF Orders
<1>3. /\ r \in Seq(Key) /\ Len(r) = Len(d) - 1
      /\ \A i \in 1..(Len(d) - 1) : r[i] = IF i < p THEN d[i] ELSE d[i + 1]
  BY <1>1, <1>2, RemoveFirstAt
<1> HIDE DEF r
<1>4. OlderIn(r) = Without(OlderIn(d), k)
  BY <1>1, <1>2, <1>3, OlderWithout
<1>5. Len(d) \in Nat /\ \A i \in 1..Len(d) : d[i] \in Key
  BY LenProperties, ElementOfSeq
<1>6. \A j \in Key : (j \in Stored(c) /\ j # k) <=> \E i \in 1..Len(r) : r[i] = j
  <2> TAKE j \in Key
  <2>1. ASSUME j \in Stored(c), j # k PROVE \E i \in 1..Len(r) : r[i] = j
    <3>1. PICK m \in 1..Len(d) : d[m] = j
      BY <2>1 DEF Orders, Stored
    <3>2. m # p
      BY <1>1, <2>1, <3>1
    <3>3. PICK i \in 1..Len(r) : i = IF m < p THEN m ELSE m - 1
      BY <1>3, <1>5, <3>2
    <3>4. r[i] = d[m]
      BY <1>3, <1>5, <3>2, <3>3
    <3>5. QED
      BY <3>1, <3>4
  <2>2. ASSUME NEW i \in 1..Len(r), r[i] = j PROVE j \in Stored(c) /\ j # k
    <3>1. PICK m \in 1..Len(d) : m = IF i < p THEN i ELSE i + 1
      BY <1>3, <1>5
    <3>2. r[i] = d[m] /\ m # p
      BY <1>3, <1>5, <3>1
    <3>3. QED
      BY <1>1, <1>2, <2>2, <3>2 DEF Orders, Stored
  <2>3. QED
    BY <2>1, <2>2
<1>7. \A i \in 1..Len(r) : r[i] \in Key
  BY <1>3, ElementOfSeq
<1>8. {<<r[i], k>> : i \in 1..Len(r)} = {<<j, k>> : j \in Stored(c) \ {k}}
  <2>1. Stored(c) \subseteq Key
    BY DEF Stored
  <2>2. ASSUME NEW i \in 1..Len(r) PROVE r[i] \in Stored(c) \ {k}
    BY <1>6, <1>7
  <2>3. ASSUME NEW j \in Stored(c) \ {k} PROVE \E i \in 1..Len(r) : r[i] = j
    BY <1>6, <2>1
  <2>4. QED
    BY <2>2, <2>3
<1>9. OlderIn(<<k>> \o r) = Used(OlderIn(d), k, Stored(c))
  BY <1>3, <1>4, <1>8, OlderPushed, Zenon DEF Used
<1>10. QED
  BY <1>4, <1>9, Zenon DEF r, MoveToFront

\* deque.appendleft of a new one, too.
LEMMA OlderNew ==
    ASSUME NEW c, NEW d \in Seq(Key), NEW k \in Key, Orders(d, c), c[k] = <<>>
    PROVE  OlderIn(<<k>> \o d) = Used(OlderIn(d), k, Stored(c))
<1>1. \A i \in 1..Len(d) : d[i] \in Key /\ d[i] # k
  BY ElementOfSeq DEF Orders
<1>2. Without(OlderIn(d), k) = OlderIn(d)
  BY <1>1 DEF Without, OlderIn
<1>3. \A i \in 1..Len(d) : d[i] \in Stored(c) \ {k}
  BY <1>1 DEF Orders, Stored
<1>4. \A j \in Stored(c) \ {k} : \E i \in 1..Len(d) : d[i] = j
  BY DEF Orders, Stored
<1>5. {<<d[i], k>> : i \in 1..Len(d)} = {<<j, k>> : j \in Stored(c) \ {k}}
  BY <1>3, <1>4
<1>6. QED
  BY <1>2, <1>5, OlderPushed, Zenon DEF Used

\* The last key of the deque is the one that was used least recently.
LEMMA OldestLast ==
    ASSUME NEW c, NEW d \in Seq(Key), Orders(d, c), Len(d) # 0
    PROVE  LET v == d[Len(d)]
           IN  /\ v \in Stored(c)
               /\ \A j \in Stored(c) \ {v} : <<v, j>> \in OlderIn(d)
               /\ OlderIn(Front(d)) = Without(OlderIn(d), v)
<1> DEFINE v == d[Len(d)]
<1>1. Len(d) \in 1..Len(d) /\ Len(d) \in Nat
  BY LenProperties
<1>2. \A i \in 1..Len(d) : d[i] \in Key
  BY ElementOfSeq
<1>3. v \in Stored(c)
  BY <1>1, <1>2 DEF Orders, Stored
<1>4. ASSUME NEW j \in Stored(c) \ {v} PROVE <<v, j>> \in OlderIn(d)
  <2>1. PICK i \in 1..Len(d) : d[i] = j
    BY DEF Orders, Stored
  <2>2. i # Len(d)
    BY <2>1
  <2>3. Len(d) > i
    BY <1>1, <2>2
  <2>4. QED
    BY <1>1, <1>2, <2>1, <2>3 DEF OlderIn
<1>5. OlderIn(Front(d)) = Without(OlderIn(d), v)
  <2>1. /\ Front(d) \in Seq(Key) /\ Len(Front(d)) = Len(d) - 1
        /\ \A i \in 1..(Len(d) - 1) : Front(d)[i] = d[i]
    BY FrontAt
  <2>2. \A i \in 1..(Len(d) - 1) : Front(d)[i] = IF i < Len(d) THEN d[i] ELSE d[i + 1]
    BY <1>1, <2>1
  <2>3. \A i, j \in 1..Len(d) : d[i] = d[j] => i = j
    BY DEF Orders
  <2>4. QED
    BY <1>1, <2>1, <2>2, <2>3, OlderWithout
<1>6. QED
  BY <1>3, <1>4, <1>5

\* The terms of the abstract specification, in those of the proofs.
LEMMA StoreTerms ==
    /\ Older = OlderIn(deque)
    /\ Older' = OlderIn(deque')
    /\ \A c : Store!Slots(c) = Slots(c) /\ Store!LiveKeys(c) = Stored(c)
    /\ \A k, L : Store!UsedLast(k, L) = Used(OlderIn(deque), k, L)
<1>1. Older = OlderIn(deque) /\ Older' = OlderIn(deque')
  BY DEF Older, OlderIn
<1>2. \A c : Store!Slots(c) = Slots(c) /\ Store!LiveKeys(c) = Stored(c)
  BY DEF Store!Slots, Slots, Store!LiveKeys, Stored
<1>3. \A k, L : Store!UsedLast(k, L) = Used(Older, k, L)
  BY DEF Store!UsedLast, Used, Without
<1>4. QED
  BY <1>1, <1>2, <1>3

LEMMA SameCardinality == ASSUME NEW S PROVE Store!Cardinality(S) = Cardinality(S)
  BY DEF Store!Cardinality, Cardinality

LEMMA GetReads ==
    ASSUME IInv, NEW k \in Key, get(k)
    PROVE  Store!Read(k)
<1>1. OlderIn(MoveToFront(deque, k)) = Used(OlderIn(deque), k, Stored(cache))
  BY OlderMoved DEF get, InCache, IInv, Consistent, Typed
<1>2. QED
  BY <1>1, StoreTerms DEF get, InCache, Store!Read

LEMMA DeleteRemoves ==
    ASSUME IInv, NEW k \in Key, delete(k)
    PROVE  Store!Remove(k)
<1>1. OlderIn(RemoveFirst(deque, k)) = Without(OlderIn(deque), k)
  BY OlderMoved DEF delete, InCache, IInv, Consistent, Typed
<1>2. QED
  BY <1>1, StoreTerms DEF delete, InCache, Store!Remove, Without

LEMMA InsertStores ==
    ASSUME IInv, NEW k \in Key, NEW e \in Entry, insert_or_append(k, e)
    PROVE  Store!Store(k, e)
<1> DEFINE h == [cache EXCEPT ![k] = Append(@, e)]
           d == IF InCache(k) THEN MoveToFront(deque, k) ELSE <<k>> \o deque
           o == Used(OlderIn(deque), k, Stored(cache))
           v == d[Len(d)]
           rest == Tail(h[v])
<1>1. /\ h \in [Key -> Seq(Entry)] /\ d \in Seq(Key) /\ Orders(d, h) /\ d # <<>>
      /\ Total(total_entries + 1, h)
  BY InsertedConsistent DEF Inserted, Consistent, Typed
<1>2. OlderIn(d) = o
  BY OlderMoved, OlderNew DEF IInv, Consistent, Typed, InCache
<1>3. Cardinality(Slots(h)) = total_entries + 1
  BY <1>1 DEF Total
<1>4. Len(d) # 0
  BY <1>1, EmptySeq
<1>5. /\ v \in Stored(h)
      /\ \A j \in Stored(h) \ {v} : <<v, j>> \in o
      /\ OlderIn(Front(d)) = Without(o, v)
  <2> HIDE DEF d, h, o
  <2>1. QED
    BY <1>1, <1>2, <1>4, OldestLast
<1>6. /\ Store!Slots(h) = Slots(h) /\ Store!LiveKeys(h) = Stored(h)
      /\ Store!UsedLast(k, Store!LiveKeys(cache)) = o
  BY StoreTerms
<1> DEFINE used == Store!UsedLast(k, Store!LiveKeys(cache))
<1>7. CASE ~(total_entries + 1 > capacity)
  <2>1. cache' = h /\ deque' = d
    BY <1>7 DEF insert_or_append, Inserted
  <2>2. Older' = o
    BY <1>2, <2>1, StoreTerms
  <2>3. Cardinality(Slots(h)) <= capacity
    BY <1>3, <1>7, TotalIsNat, CapacityAssumption DEF IInv, Consistent
  <2>4. QED
    <3>1. Store!Cardinality(Store!Slots(h)) <= capacity /\ cache' = h /\ Older' = used
      BY <1>6, <2>1, <2>2, <2>3, SameCardinality, Zenon
    <3>2. QED
      BY <3>1, Zenon DEF Store!Store
<1>8. CASE total_entries + 1 > capacity
  <2>1. /\ cache' = [h EXCEPT ![v] = rest]
        /\ deque' = IF rest = <<>> THEN Front(d) ELSE d
    BY <1>8 DEF insert_or_append, Inserted, Evicted
  <2>2. Older' = IF rest = <<>> THEN Without(o, v) ELSE o
    <3> HIDE DEF d, o, rest, v
    <3>1. QED
      BY <1>2, <1>5, <2>1, StoreTerms
  <2>3. cache' = [h EXCEPT ![v] = Tail(@)]
    BY <1>1, <1>5, <2>1 DEF Stored
  <2>4. Cardinality(Slots(h)) > capacity
    BY <1>3, <1>8
  <2>5. Store!Cardinality(Store!Slots(h)) > capacity
    BY <1>6, <2>4, SameCardinality, Zenon
  <2>6. /\ v \in Store!LiveKeys(h)
        /\ \A j \in Store!LiveKeys(h) \ {v} : <<v, j>> \in used
        /\ cache' = [h EXCEPT ![v] = Tail(@)]
        /\ Older' = IF Tail(h[v]) = <<>>
                     THEN {p \in used : p[1] # v /\ p[2] # v}
                     ELSE used
    <3> HIDE DEF h, o, v
    <3>1. QED
      BY <1>5, <1>6, <2>2, <2>3 DEF rest, Without
  <2> HIDE DEF v
  <2>7. QED
    BY <2>5, <2>6, Zenon DEF Store!Store
<1>9. QED
  BY <1>7, <1>8

\* The in-memory cache implements the conversation store: recency, which the
\* class keeps as a deque, is the relation of the abstract store, and the one
\* message that insert_or_append gives up is the oldest of the conversation that
\* was used least recently.  Metadata is invisible to the store.
THEOREM CacheImplementsStore == Spec => ImplementsStore
<1>1. Init => Store!Init
  <2>1. ASSUME Init PROVE OlderIn(deque) = {}
    BY <2>1 DEF Init, initialize_cache, OlderIn
  <2>2. QED
    BY <2>1, StoreTerms DEF Init, initialize_cache, Store!Init
<1>2. IInv /\ [Next]_vars => [Store!Next]_(Store!vars)
  <2> SUFFICES ASSUME IInv, [Next]_vars PROVE Store!Next \/ UNCHANGED Store!vars
    OBVIOUS
  <2>1. ASSUME NEW k \in Key, get(k) PROVE Store!Next
    BY <2>1, GetReads DEF Store!Next
  <2>2. ASSUME NEW k \in Key, delete(k) PROVE Store!Next
    BY <2>2, DeleteRemoves DEF Store!Next
  <2>3. ASSUME NEW k \in Key, NEW e \in Entry, insert_or_append(k, e) PROVE Store!Next
    BY <2>3, InsertStores DEF Store!Next
  <2>4. ASSUME NEW k \in Key, NEW t \in Topic, set_topic_summary(k, t) PROVE UNCHANGED Store!vars
    BY <2>4 DEF set_topic_summary, Store!vars, Older
  <2>5. CASE UNCHANGED vars
    BY <2>5 DEF vars, Store!vars, Older
  <2>6. QED
    BY <2>1, <2>2, <2>3, <2>4, <2>5 DEF Next
<1>3. QED
  BY <1>1, <1>2, CacheIsConsistent, PTL DEF Spec, ImplementsStore, Store!Spec
=============================================================================
