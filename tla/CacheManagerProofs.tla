------------------------- MODULE CacheManagerProofs -------------------------
(***************************************************************************)
(* Proofs about the response cache: CacheInv is an inductive invariant of  *)
(* CacheManager for every capacity, every set of keys and every set of     *)
(* node addresses.                                                         *)
(***************************************************************************)
EXTENDS CacheManager, SequenceTheorems, TLAPS

-----------------------------------------------------------------------------
(* The list operations, entry by entry. *)

(* pop_back keeps every node but the last, at its place. *)
LEMMA FrontFacts ==
  ASSUME NEW S, NEW s \in Seq(S), s # <<>>
  PROVE  /\ Front(s) \in Seq(S)
         /\ Len(Front(s)) = Len(s) - 1
         /\ \A i \in 1 .. Len(s) - 1 : Front(s)[i] = s[i]
         /\ Last(s) \in S
         /\ Last(s) = s[Len(s)]
<1>1. Len(s) \in Nat \ {0}
  BY EmptySeq, LenProperties
<1> DEFINE m == Len(s) - 1
<1>2. m \in Nat /\ \A i \in 1 .. m : s[i] \in S
  BY <1>1, ElementOfSeq
<1> HIDE DEF m
<1>3. /\ SubSeq(s, 1, m) \in Seq(S)
      /\ Len(SubSeq(s, 1, m)) = m
      /\ \A i \in 1 .. m : SubSeq(s, 1, m)[i] = s[i]
  BY <1>2, SubSeqProperties
<1>4. s[Len(s)] \in S
  BY <1>1, ElementOfSeq
<1> QED
  BY <1>3, <1>4 DEF Front, Last, m

(* emplace_front shifts every node by one. *)
LEMMA ConsFacts ==
  ASSUME NEW S, NEW s \in Seq(S), NEW e \in S
  PROVE  /\ Cons(e, s) \in Seq(S)
         /\ Len(Cons(e, s)) = Len(s) + 1
         /\ Cons(e, s)[1] = e
         /\ \A i \in 2 .. Len(s) + 1 : Cons(e, s)[i] = s[i - 1]
<1>1. /\ <<e>> \in Seq(S)
      /\ Len(<<e>>) = 1
      /\ <<e>>[1] = e
  OBVIOUS
<1>2. Len(s) \in Nat
  BY LenProperties
<1>3. /\ <<e>> \o s \in Seq(S)
      /\ Len(<<e>> \o s) = 1 + Len(s)
      /\ \A i \in 1 .. 1 + Len(s) :
           (<<e>> \o s)[i] = IF i <= 1 THEN <<e>>[i] ELSE s[i - 1]
  BY <1>1, ConcatProperties
<1> QED
  BY <1>1, <1>2, <1>3 DEF Cons

(* splice to the front: nodes before the moved one shift by one, nodes     *)
(* after it stay.                                                          *)
LEMMA MoveToFrontFacts ==
  ASSUME NEW S, NEW s \in Seq(S), NEW n \in 1 .. Len(s)
  PROVE  /\ MoveToFront(s, n) \in Seq(S)
         /\ Len(MoveToFront(s, n)) = Len(s)
         /\ MoveToFront(s, n)[1] = s[n]
         /\ \A i \in 2 .. n : MoveToFront(s, n)[i] = s[i - 1]
         /\ \A i \in n + 1 .. Len(s) : MoveToFront(s, n)[i] = s[i]
<1> DEFINE a == SubSeq(s, 1, n - 1)
           b == SubSeq(s, n + 1, Len(s))
<1>0. Len(s) \in Nat /\ s[n] \in S
  BY LenProperties, ElementOfSeq
<1>1. /\ a \in Seq(S)
      /\ Len(a) = n - 1
      /\ \A i \in 1 .. n - 1 : a[i] = s[i]
  <2>1. \A i \in 1 .. n - 1 : s[i] \in S
    BY <1>0, ElementOfSeq
  <2> QED
    BY <1>0, <2>1, SubSeqProperties
<1>2. /\ b \in Seq(S)
      /\ Len(b) = Len(s) - n
      /\ \A i \in 1 .. Len(s) - n : b[i] = s[n + i]
  <2>1. \A i \in n + 1 .. Len(s) : s[i] \in S
    BY <1>0, ElementOfSeq
  <2>2. \A i \in 1 .. Len(s) - (n + 1) + 1 : b[i] = s[n + 1 + i - 1]
    BY <1>0, <2>1, SubSeqProperties
  <2>3. b \in Seq(S) /\ Len(b) = IF n + 1 <= Len(s) THEN Len(s) - (n + 1) + 1 ELSE 0
    BY <1>0, <2>1, SubSeqProperties
  <2> QED
    BY <1>0, <2>2, <2>3
<1> HIDE DEF a, b
<1>3. /\ a \o b \in Seq(S)
      /\ Len(a \o b) = Len(s) - 1
      /\ \A i \in 1 .. Len(s) - 1 :
           (a \o b)[i] = IF i <= n - 1 THEN a[i] ELSE b[i - (n - 1)]
  BY <1>0, <1>1, <1>2, ConcatProperties
<1>4. \A i \in 1 .. n - 1 : (a \o b)[i] = s[i]
  BY <1>0, <1>1, <1>3
<1>5. \A i \in n .. Len(s) - 1 : (a \o b)[i] = s[i + 1]
  BY <1>0, <1>2, <1>3
<1>6. RemoveAt(s, n) = a \o b
  BY DEF RemoveAt, a, b
<1> DEFINE t == a \o b
<1> HIDE DEF t
<1>7. MoveToFront(s, n) = Cons(s[n], t)
  BY <1>6 DEF MoveToFront, t
<1>8. /\ t \in Seq(S)
      /\ Len(t) = Len(s) - 1
      /\ \A i \in 1 .. n - 1 : t[i] = s[i]
      /\ \A i \in n .. Len(s) - 1 : t[i] = s[i + 1]
  BY <1>3, <1>4, <1>5 DEF t
<1> DEFINE e == s[n]
<1> HIDE DEF e
<1>9. /\ Cons(e, t) \in Seq(S)
      /\ Len(Cons(e, t)) = Len(t) + 1
      /\ Cons(e, t)[1] = e
      /\ \A i \in 2 .. Len(t) + 1 : Cons(e, t)[i] = t[i - 1]
  <2>1. e \in S /\ t \in Seq(S)
    BY <1>0, <1>8 DEF e
  <2>2. \A s1 \in Seq(S), e1 \in S :
          /\ Cons(e1, s1) \in Seq(S)
          /\ Len(Cons(e1, s1)) = Len(s1) + 1
          /\ Cons(e1, s1)[1] = e1
          /\ \A i \in 2 .. Len(s1) + 1 : Cons(e1, s1)[i] = s1[i - 1]
    BY ConsFacts
  <2> QED
    BY <2>1, <2>2, Zenon
<1> QED
  BY <1>0, <1>7, <1>8, <1>9 DEF e

-----------------------------------------------------------------------------
(* What the helpers of CacheManager return. *)

(* The expiry instant is a number whichever headers are present. *)
LEMMA ExpiryTimeType ==
  ASSUME NEW r \in HttpResponse, now \in Nat
  PROVE  get_expiry_time(r) \in Int
<1>1. /\ r.max_age \in Int
      /\ r.expires \in Int \cup {NoHeader, BadDate}
  BY DEF HttpResponse
<1>2. Day \in Nat
  BY CacheAssumption
<1> DEFINE a == IF r.cache_control = {} THEN now + Day
                ELSE IF "max-age" \in r.cache_control THEN now + r.max_age
                ELSE now
<1>3. a \in Int
  BY <1>1, <1>2
<1> HIDE DEF a
<1>4. get_expiry_time(r) = CASE r.expires = NoHeader -> a + Day
                             [] r.expires = BadDate  -> a
                             [] OTHER -> IF r.expires > a THEN r.expires ELSE a
  BY DEF get_expiry_time, a
<1>5. CASE r.expires = NoHeader
  <2>1. r.expires # BadDate \/ BadDate = NoHeader
    BY <1>5
  <2>2. r.expires \notin Int
    BY <1>5, CacheAssumption DEF HeaderAssumption
  <2>3. get_expiry_time(r) \in {a + Day, a}
    BY <1>4, <1>5
  <2> QED
    BY <1>2, <1>3, <2>3
<1>6. CASE r.expires = BadDate /\ r.expires # NoHeader
  BY <1>3, <1>4, <1>6
<1>7. CASE r.expires # NoHeader /\ r.expires # BadDate
  <2>1. r.expires \in Int
    BY <1>1, <1>7
  <2>2. get_expiry_time(r) = IF r.expires > a THEN r.expires ELSE a
    BY <1>4, <1>7
  <2> QED
    BY <1>3, <2>1, <2>2
<1> QED
  BY <1>5, <1>6, <1>7

(* A response is stored under a key of the cache. *)
LEMMA CacheKeyType ==
  ASSUME NEW url \in Url, NEW r \in HttpResponse
  PROVE  CacheKey(url, r) \in Key
<1>1. r.vary \in VaryValue \cup {NoHeader}
  BY DEF HttpResponse
<1> QED
  BY <1>1 DEF CacheKey, Key

(* An iterator in cache_map has exactly one node, and a lookup finds it.   *)
LEMMA PositionFacts ==
  ASSUME CacheInv, NEW k \in DOMAIN cache_map
  PROVE  /\ Position(cache_map[k]) \in 1 .. Len(cache_list)
         /\ cache_list[Position(cache_map[k])].it = cache_map[k]
         /\ cache_list[Position(cache_map[k])].key = k
<1>1. DOMAIN cache_list = 1 .. Len(cache_list)
  BY DEF CacheInv, TypeOK
<1>2. PICK i \in 1 .. Len(cache_list) :
        cache_list[i].it = cache_map[k] /\ cache_list[i].key = k
  BY <1>1 DEF CacheInv, NoDanglingIterator
<1>3. \A j \in 1 .. Len(cache_list) : cache_list[j].it = cache_map[k] => j = i
  BY <1>1, <1>2 DEF CacheInv, DistinctNodes
<1>4. Position(cache_map[k]) = i
  BY <1>1, <1>2, <1>3 DEF Position
<1> QED
  BY <1>2, <1>4

-----------------------------------------------------------------------------
(* get_cached_response keeps the invariant: the list is only permuted, and *)
(* the node that moves to the front is one a lookup reaches.               *)
LEMMA LookupPreserves ==
  ASSUME CacheInv, NEW url \in Url, get_cached_response(url), UNCHANGED now
  PROVE  CacheInv'
<1>1. CASE ~Hit(url)
  BY <1>1 DEF get_cached_response, CacheInv, TypeOK, DistinctNodes,
              NoDanglingIterator, Bounded, MappedIsFirst
<1>2. CASE Hit(url)
  <2> DEFINE n == Position(cache_map[url])
             N == Len(cache_list)
             from(i) == IF i = 1 THEN n ELSE IF i <= n THEN i - 1 ELSE i
  <2>1. cache_list \in Seq(ListNode) /\ DOMAIN cache_list = 1 .. N /\ N \in Nat
    BY DEF CacheInv, TypeOK
  <2>2. url \in DOMAIN cache_map
    BY <1>2 DEF Hit, is_in_cache
  <2>3. /\ n \in 1 .. N
        /\ cache_list[n].it = cache_map[url]
        /\ cache_list[n].key = url
    BY <2>2, PositionFacts
  <2>4. /\ cache_list' = MoveToFront(cache_list, n)
        /\ cache_map' = cache_map
        /\ now' = now
    BY <1>2 DEF get_cached_response
  <2> HIDE DEF n
  <2>5. /\ cache_list' \in Seq(ListNode)
        /\ Len(cache_list') = N
        /\ cache_list'[1] = cache_list[n]
        /\ \A i \in 2 .. n : cache_list'[i] = cache_list[i - 1]
        /\ \A i \in n + 1 .. N : cache_list'[i] = cache_list[i]
    BY <2>1, <2>3, <2>4, MoveToFrontFacts
  <2>6. DOMAIN cache_list' = 1 .. N
    BY <2>5
  <2> HIDE DEF N
  <2>7. \A i \in 1 .. N : /\ from(i) \in 1 .. N
                          /\ cache_list'[i] = cache_list[from(i)]
    BY <2>1, <2>3, <2>5
  <2>8. \A i, j \in 1 .. N : from(i) = from(j) => i = j
    BY <2>1, <2>3
  <2>9. \A m \in 1 .. N : \E i \in 1 .. N : from(i) = m
    <3> TAKE m \in 1 .. N
    <3>1. CASE m = n
      BY <2>1, <2>3, <3>1
    <3>2. CASE m < n
      <4>1. m + 1 \in 1 .. N /\ from(m + 1) = m
        BY <2>1, <2>3, <3>2
      <4> QED
        BY <4>1
    <3>3. CASE m > n
      BY <2>1, <2>3, <3>3
    <3> QED
      BY <2>1, <2>3, <3>1, <3>2, <3>3
  <2>10. \A i, j \in 1 .. N : i # 1 /\ j # 1 /\ from(i) <= from(j) => i <= j
    BY <2>1, <2>3
  <2>11. from(1) = n
    OBVIOUS
  <2> HIDE DEF from
  <2>12. TypeOK'
    BY <2>4, <2>5 DEF CacheInv, TypeOK
  <2>13. DistinctNodes'
    BY <2>1, <2>6, <2>7, <2>8 DEF CacheInv, DistinctNodes
  <2>14. NoDanglingIterator'
    <3> SUFFICES ASSUME NEW k \in DOMAIN cache_map
                 PROVE  \E i \in 1 .. N : /\ cache_list'[i].it = cache_map[k]
                                          /\ cache_list'[i].key = k
      BY <2>4, <2>6 DEF NoDanglingIterator
    <3>1. PICK m \in 1 .. N : cache_list[m].it = cache_map[k] /\ cache_list[m].key = k
      BY <2>1 DEF CacheInv, NoDanglingIterator
    <3>2. PICK i \in 1 .. N : from(i) = m
      BY <2>9
    <3> QED
      BY <2>7, <3>1, <3>2
  <2>15. Bounded'
    BY <2>5 DEF CacheInv, Bounded, N
  <2>16. MappedIsFirst'
    <3> SUFFICES ASSUME NEW k \in DOMAIN cache_map,
                        NEW i \in 1 .. N, NEW j \in 1 .. N,
                        cache_list[from(i)].it = cache_map[k],
                        cache_list[from(j)].key = k
                 PROVE  i <= j
      BY <2>4, <2>6, <2>7 DEF MappedIsFirst
    <3>1. from(i) <= from(j)
      BY <2>1, <2>7 DEF CacheInv, MappedIsFirst
    <3>2. CASE j = 1
      <4>1. k = url
        BY <2>3, <2>11, <3>2
      <4>2. cache_list[from(i)].it = cache_list[n].it
        BY <2>3, <4>1
      <4>3. from(i) \in DOMAIN cache_list /\ n \in DOMAIN cache_list
        BY <2>1, <2>3, <2>7
      <4>4. from(i) = n
        BY <4>2, <4>3 DEF CacheInv, DistinctNodes
      <4> QED
        BY <2>3, <2>8, <2>11, <3>2, <4>4
    <3>3. CASE i = 1
      BY <3>3
    <3> QED
      BY <2>10, <3>1, <3>2, <3>3
  <2> QED
    BY <2>12, <2>13, <2>14, <2>15, <2>16 DEF CacheInv
<1> QED
  BY <1>1, <1>2

(* What evict_if_needed leaves: a prefix of the list with room for one     *)
(* node more, and for every key left in the map a node in that prefix.     *)
LEMMA EvictionFacts ==
  ASSUME CacheInv
  PROVE  /\ ListAfterEviction \in Seq(ListNode)
         /\ Len(ListAfterEviction) <= Len(cache_list)
         /\ \A i \in 1 .. Len(ListAfterEviction) :
              ListAfterEviction[i] = cache_list[i]
         /\ Len(ListAfterEviction) + 1 <= IF Capacity = 0 THEN 1 ELSE Capacity
         /\ KeysAfterEviction \subseteq DOMAIN cache_map
         /\ \A k \in KeysAfterEviction :
              \E i \in 1 .. Len(ListAfterEviction) :
                 cache_list[i].it = cache_map[k] /\ cache_list[i].key = k
<1> DEFINE N == Len(cache_list)
<1>1. cache_list \in Seq(ListNode) /\ DOMAIN cache_list = 1 .. N /\ N \in Nat
  BY DEF CacheInv, TypeOK
<1>2. Capacity \in Nat /\ N <= IF Capacity = 0 THEN 1 ELSE Capacity
  BY CacheAssumption DEF CacheInv, Bounded
<1>3. CASE Full
  <2>1. cache_list # <<>>
    BY <1>3 DEF Full
  <2>2. /\ ListAfterEviction = Front(cache_list)
        /\ KeysAfterEviction = DOMAIN cache_map \ {Last(cache_list).key}
    BY <1>3 DEF ListAfterEviction, KeysAfterEviction
  <2>3. /\ Front(cache_list) \in Seq(ListNode)
        /\ Len(Front(cache_list)) = N - 1
        /\ \A i \in 1 .. N - 1 : Front(cache_list)[i] = cache_list[i]
        /\ Last(cache_list) = cache_list[N]
    BY <1>1, <2>1, FrontFacts
  <2>4. \A k \in KeysAfterEviction :
          \E i \in 1 .. N - 1 :
             cache_list[i].it = cache_map[k] /\ cache_list[i].key = k
    <3> SUFFICES ASSUME NEW k \in DOMAIN cache_map, k # cache_list[N].key
                 PROVE  \E i \in 1 .. N - 1 : /\ cache_list[i].it = cache_map[k]
                                              /\ cache_list[i].key = k
      BY <2>2, <2>3
    <3>1. PICK i \in 1 .. N : cache_list[i].it = cache_map[k] /\ cache_list[i].key = k
      BY <1>1 DEF CacheInv, NoDanglingIterator
    <3>2. i # N
      BY <3>1
    <3> QED
      BY <1>1, <3>1, <3>2
  <2> QED
    BY <1>1, <1>2, <2>2, <2>3, <2>4
<1>4. CASE ~Full
  <2>1. ListAfterEviction = cache_list /\ KeysAfterEviction = DOMAIN cache_map
    BY <1>4 DEF ListAfterEviction, KeysAfterEviction
  <2>2. cache_list = <<>> \/ N < Capacity
    BY <1>1, <1>2, <1>4 DEF Full
  <2>3. N + 1 <= IF Capacity = 0 THEN 1 ELSE Capacity
    BY <1>1, <1>2, <2>2
  <2> QED
    BY <1>1, <2>1, <2>3 DEF CacheInv, NoDanglingIterator
<1> QED
  BY <1>3, <1>4

(* Inserting a node at the front, after the eviction, keeps the invariant. *)
LEMMA InsertPreserves ==
  ASSUME CacheInv, NEW key \in Key, NEW r \in HttpResponse, NEW it \in Node,
         Insert(key, r, it), UNCHANGED now
  PROVE  CacheInv'
<1> DEFINE L == ListAfterEviction
           K == KeysAfterEviction
           n == Len(L)
           node == [it |-> it, key |-> key,
                    entry |-> [response |-> r, expiry_time |-> get_expiry_time(r)]]
<1>1. /\ L \in Seq(ListNode)
      /\ n \in Nat
      /\ n <= Len(cache_list)
      /\ \A i \in 1 .. n : L[i] = cache_list[i]
      /\ n + 1 <= IF Capacity = 0 THEN 1 ELSE Capacity
      /\ K \subseteq DOMAIN cache_map
      /\ \A k \in K : \E i \in 1 .. n :
           cache_list[i].it = cache_map[k] /\ cache_list[i].key = k
  BY EvictionFacts, LenProperties
<1>2. /\ \A i \in 1 .. n : L[i].it # it
      /\ cache_list' = Cons(node, L)
      /\ cache_map' = [k \in K \cup {key} |-> IF k = key THEN it ELSE cache_map[k]]
  <2>1. DOMAIN L = 1 .. n
    BY <1>1
  <2> QED
    BY <2>1 DEF Insert
<1>3. node \in ListNode
  <2>1. now \in Nat
    BY DEF CacheInv, TypeOK
  <2>2. get_expiry_time(r) \in Int
    BY <2>1, ExpiryTimeType
  <2> QED
    BY <2>2 DEF ListNode, CacheEntry
<1>4. node.it = it /\ node.key = key
  OBVIOUS
<1>5. /\ cache_list \in Seq(ListNode)
      /\ DOMAIN cache_list = 1 .. Len(cache_list)
      /\ Len(cache_list) \in Nat
  BY DEF CacheInv, TypeOK
<1> HIDE DEF L, K, n, node
<1>6. /\ cache_list' \in Seq(ListNode)
      /\ Len(cache_list') = n + 1
      /\ cache_list'[1] = node
      /\ \A i \in 2 .. n + 1 : cache_list'[i] = L[i - 1]
  <2>1. \A s1 \in Seq(ListNode), e1 \in ListNode :
          /\ Cons(e1, s1) \in Seq(ListNode)
          /\ Len(Cons(e1, s1)) = Len(s1) + 1
          /\ Cons(e1, s1)[1] = e1
          /\ \A i \in 2 .. Len(s1) + 1 : Cons(e1, s1)[i] = s1[i - 1]
    BY ConsFacts
  <2>2. /\ Cons(node, L) \in Seq(ListNode)
        /\ Len(Cons(node, L)) = n + 1
        /\ Cons(node, L)[1] = node
        /\ \A i \in 2 .. n + 1 : Cons(node, L)[i] = L[i - 1]
    BY <1>1, <1>3, <2>1, Zenon DEF n
  <2> QED
    BY <1>2, <2>2, Zenon
<1>7. \A i \in 2 .. n + 1 : /\ i - 1 \in 1 .. n
                            /\ i - 1 \in DOMAIN cache_list
                            /\ cache_list'[i] = cache_list[i - 1]
                            /\ cache_list'[i].it # it
  BY <1>1, <1>2, <1>5, <1>6
<1>8. DOMAIN cache_list' = 1 .. n + 1
  BY <1>6
<1>9. TypeOK'
  <2>1. \A k \in K \cup {key} : (IF k = key THEN it ELSE cache_map[k]) \in Node
    BY <1>1 DEF CacheInv, TypeOK
  <2>2. K \cup {key} \subseteq Key
    BY <1>1 DEF CacheInv, TypeOK
  <2>3. now' \in 0 .. MaxTime
    BY DEF CacheInv, TypeOK
  <2> QED
    BY <1>2, <1>6, <2>1, <2>2, <2>3 DEF TypeOK
<1>10. DistinctNodes'
  <2> SUFFICES ASSUME NEW i \in 1 .. n + 1, NEW j \in 1 .. n + 1,
                      cache_list'[i].it = cache_list'[j].it
               PROVE  i = j
    BY <1>8 DEF DistinctNodes
  <2>1. CASE i # 1 /\ j # 1
    <3>1. i - 1 \in DOMAIN cache_list /\ j - 1 \in DOMAIN cache_list
      BY <1>1, <1>7, <2>1
    <3>2. cache_list[i - 1].it = cache_list[j - 1].it
      BY <1>1, <1>7, <2>1
    <3>3. i - 1 = j - 1
      BY <3>1, <3>2 DEF CacheInv, DistinctNodes
    <3> QED
      BY <3>3
  <2>2. CASE i = 1 \/ j = 1
    BY <1>1, <1>4, <1>6, <1>7, <2>2
  <2> QED
    BY <2>1, <2>2
<1>11. NoDanglingIterator'
  <2> SUFFICES ASSUME NEW k \in K \cup {key}
               PROVE  \E i \in 1 .. n + 1 : /\ cache_list'[i].it = cache_map'[k]
                                            /\ cache_list'[i].key = k
    BY <1>2, <1>8 DEF NoDanglingIterator
  <2>1. CASE k = key
    BY <1>1, <1>2, <1>4, <1>6, <2>1
  <2>2. CASE k # key
    <3>1. PICK m \in 1 .. n :
            cache_list[m].it = cache_map[k] /\ cache_list[m].key = k
      BY <1>1, <2>2
    <3>2. m + 1 \in 2 .. n + 1 /\ m + 1 \in 1 .. n + 1 /\ (m + 1) - 1 = m
      BY <1>1
    <3>3. cache_list'[m + 1] = cache_list[m]
      BY <1>7, <3>2
    <3>4. cache_map'[k] = cache_map[k]
      BY <1>2, <2>2
    <3> QED
      BY <3>1, <3>2, <3>3, <3>4
  <2> QED
    BY <2>1, <2>2
<1>12. Bounded'
  BY <1>1, <1>6 DEF Bounded
<1>13. MappedIsFirst'
  <2> SUFFICES ASSUME NEW k \in K \cup {key},
                      NEW i \in 1 .. n + 1, NEW j \in 1 .. n + 1,
                      cache_list'[i].it = cache_map'[k],
                      cache_list'[j].key = k
               PROVE  i <= j
    <3>1. DOMAIN cache_map' = K \cup {key}
      BY <1>2, Zenon
    <3> QED
      BY <1>8, <3>1, Zenon DEF MappedIsFirst
  <2>1. CASE i = 1
    BY <1>1, <2>1
  <2>2. CASE i # 1
    <3>1. i - 1 \in DOMAIN cache_list /\ cache_list[i - 1].it # it
          /\ cache_list[i - 1].it = cache_map'[k]
      BY <1>1, <1>7, <2>2
    <3>2. k # key /\ k \in K
      BY <1>2, <3>1
    <3>3. cache_map'[k] = cache_map[k] /\ k \in DOMAIN cache_map
      BY <1>1, <1>2, <3>2
    <3>4. j # 1
      BY <1>4, <1>6, <3>2
    <3>5. j - 1 \in DOMAIN cache_list /\ cache_list[j - 1].key = k
      BY <1>1, <1>7, <3>4
    <3>6. i - 1 <= j - 1
      BY <3>1, <3>3, <3>5 DEF CacheInv, MappedIsFirst
    <3> QED
      BY <1>1, <3>6
  <2> QED
    BY <2>1, <2>2
<1> QED
  BY <1>9, <1>10, <1>11, <1>12, <1>13 DEF CacheInv

LEMMA StorePreserves ==
  ASSUME CacheInv, NEW url \in Url, NEW r \in HttpResponse,
         store_response(url, r), UNCHANGED now
  PROVE  CacheInv'
<1>1. CASE is_cacheable(r)
  <2>1. PICK it \in Node : Insert(CacheKey(url, r), r, it)
    BY <1>1 DEF store_response
  <2>2. CacheKey(url, r) \in Key
    BY CacheKeyType
  <2> QED
    BY <2>1, <2>2, InsertPreserves
<1>2. CASE ~is_cacheable(r)
  <2>1. UNCHANGED <<cache_map, cache_list, now>>
    BY <1>2 DEF store_response, cache_vars
  <2> QED
    BY <2>1 DEF CacheInv, TypeOK, DistinctNodes, NoDanglingIterator, Bounded,
                MappedIsFirst
<1> QED
  BY <1>1, <1>2

-----------------------------------------------------------------------------
LEMMA CacheInvInit == Init => CacheInv
<1> SUFFICES ASSUME Init PROVE CacheInv
  OBVIOUS
<1>1. cache_list = <<>> /\ DOMAIN cache_map = {} /\ now = 0
  BY DEF Init
<1>2. /\ cache_list \in Seq(ListNode)
      /\ Len(cache_list) = 0
      /\ DOMAIN cache_list = {}
  BY <1>1
<1>3. TypeOK
  <2>1. cache_map \in [DOMAIN cache_map -> Node]
    BY DEF Init
  <2> QED
    BY <1>1, <1>2, <2>1, CacheAssumption DEF TypeOK
<1>4. Bounded
  BY <1>2, CacheAssumption DEF Bounded
<1>5. DistinctNodes /\ NoDanglingIterator /\ MappedIsFirst
  BY <1>1, <1>2 DEF DistinctNodes, NoDanglingIterator, MappedIsFirst
<1> QED
  BY <1>3, <1>4, <1>5 DEF CacheInv

LEMMA CacheInvStep == CacheInv /\ [Next]_vars => CacheInv'
<1> SUFFICES ASSUME CacheInv, [Next]_vars PROVE CacheInv'
  OBVIOUS
<1>1. ASSUME NEW url \in Url, get_cached_response(url), UNCHANGED now
      PROVE  CacheInv'
  BY <1>1, LookupPreserves
<1>2. ASSUME NEW url \in Url, NEW r \in Response, store_response(url, r),
             UNCHANGED now
      PROVE  CacheInv'
  BY <1>2, CacheAssumption, StorePreserves
<1>3. CASE Tick
  <2>1. now' \in 0 .. MaxTime
    BY <1>3, CacheAssumption DEF Tick, CacheInv, TypeOK
  <2>2. UNCHANGED <<cache_map, cache_list>>
    BY <1>3 DEF Tick, cache_vars
  <2> QED
    BY <2>1, <2>2 DEF CacheInv, TypeOK, DistinctNodes, NoDanglingIterator,
                      Bounded, MappedIsFirst
<1>4. CASE UNCHANGED vars
  BY <1>4 DEF vars, CacheInv, TypeOK, DistinctNodes, NoDanglingIterator,
              Bounded, MappedIsFirst
<1> QED
  BY <1>1, <1>2, <1>3, <1>4 DEF Next

(* The cache's state is sound after any sequence of lookups, stores and    *)
(* clock ticks, for every capacity, every set of urls and of responses.    *)
THEOREM CacheIsSound == Spec => []CacheInv
<1> QED
  BY CacheInvInit, CacheInvStep, PTL DEF Spec

(* The list and the map keep their types: only a cache key is ever mapped, *)
(* and only to the address of a list node.                                 *)
THEOREM CacheStateIsTyped == Spec => []TypeOK
<1>1. CacheInv => TypeOK
  BY DEF CacheInv
<1> QED
  BY <1>1, CacheIsSound, PTL

(* No iterator outlives the node it refers to: evict_if_needed erases the  *)
(* key of the node it pops, and no other key refers to that node.          *)
THEOREM IteratorsStayValid == Spec => []NoDanglingIterator
<1>1. CacheInv => NoDanglingIterator
  BY DEF CacheInv
<1> QED
  BY <1>1, CacheIsSound, PTL

(* store_response keeps the list within cache_capacity although it leaves  *)
(* superseded nodes in the list.                                           *)
THEOREM CacheIsBounded == Spec => []Bounded
<1>1. CacheInv => Bounded
  BY DEF CacheInv
<1> QED
  BY <1>1, CacheIsSound, PTL

(* A superseded node never precedes the node that replaced it.             *)
THEOREM LookupFindsFirstNode == Spec => []MappedIsFirst
<1>1. CacheInv => MappedIsFirst
  BY DEF CacheInv
<1> QED
  BY <1>1, CacheIsSound, PTL
=============================================================================
