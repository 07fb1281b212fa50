------------------------ MODULE RecencyCacheProofs ------------------------
(***************************************************************************)
(* The list and the map of CacheManager implement the cache of             *)
(* RecencyCache, for every capacity, set of keys and set of responses.     *)
(***************************************************************************)
EXTENDS CacheManagerProofs

(* Where the node is that a lookup of k finds. *)
Pos(k) == Position(cache_map[k])

Content == [k \in DOMAIN cache_map |-> Lookup(k)]

Recent == {p \in (DOMAIN cache_map) \X (DOMAIN cache_map) : Pos(p[1]) < Pos(p[2])}

(* A node is where its iterator is found. *)
LEMMA PosIs ==
  ASSUME CacheInv, NEW k \in DOMAIN cache_map, NEW i \in 1 .. Len(cache_list),
         cache_list[i].it = cache_map[k]
  PROVE  Pos(k) = i
<1>1. DOMAIN cache_list = 1 .. Len(cache_list)
  BY DEF CacheInv, TypeOK
<1>2. Pos(k) \in 1 .. Len(cache_list) /\ cache_list[Pos(k)].it = cache_map[k]
  BY PositionFacts DEF Pos
<1> QED
  BY <1>1, <1>2 DEF CacheInv, DistinctNodes

(* Positions are numbers, different keys have different ones, and a node   *)
(* is where its iterator is found.                                         *)
Positions ==
  CacheInv =>
    \A j, k \in DOMAIN cache_map :
      /\ Pos(k) \in 1 .. Len(cache_list) /\ Len(cache_list) \in Nat
      /\ Pos(j) = Pos(k) => j = k
      /\ \A i \in 1 .. Len(cache_list) : cache_list[i].it = cache_map[k] => Pos(k) = i

LEMMA PositionsDiffer == Positions
<1> SUFFICES ASSUME CacheInv, NEW j \in DOMAIN cache_map, NEW k \in DOMAIN cache_map
             PROVE  /\ Pos(k) \in 1 .. Len(cache_list) /\ Len(cache_list) \in Nat
                    /\ Pos(j) = Pos(k) => j = k
                    /\ \A i \in 1 .. Len(cache_list) :
                         cache_list[i].it = cache_map[k] => Pos(k) = i
  BY DEF Positions
<1>1. Len(cache_list) \in Nat
  BY LenProperties DEF CacheInv, TypeOK
<1>2. Pos(k) \in 1 .. Len(cache_list) /\ cache_list[Pos(k)].key = k
  BY PositionFacts DEF Pos
<1>3. cache_list[Pos(j)].key = j
  BY PositionFacts DEF Pos
<1>4. \A i \in 1 .. Len(cache_list) : cache_list[i].it = cache_map[k] => Pos(k) = i
  BY PosIs
<1> QED
  BY <1>1, <1>2, <1>3, <1>4

LEMMA PositionsDifferNext == Positions'
BY PositionsDiffer, PTL

(* When the node of k comes first and all others keep their order, k has   *)
(* become the most recent key.                                             *)
LEMMA FirstIsMostRecent ==
  ASSUME CacheInv', NEW k \in DOMAIN cache_map',
         Pos(k)' = 1,
         \A j \in DOMAIN cache_map' \ {k} : j \in DOMAIN cache_map,
         \A i, j \in DOMAIN cache_map' \ {k} :
           (Pos(i)' < Pos(j)') <=> (Pos(i) < Pos(j))
  PROVE  Recent' = {p \in Recent : /\ p[1] \in DOMAIN cache_map' \ {k}
                                   /\ p[2] \in DOMAIN cache_map' \ {k}}
                     \cup {<<k, j>> : j \in DOMAIN cache_map' \ {k}}
<1> DEFINE C == DOMAIN cache_map'
           R == {p \in Recent : p[1] \in C \ {k} /\ p[2] \in C \ {k}}
                  \cup {<<k, j>> : j \in C \ {k}}
<1>1. \A j \in C : Pos(j)' \in Nat /\ Pos(j)' >= 1 /\ (Pos(j)' = 1 => j = k)
  <2> TAKE j \in C
  <2>1. /\ Pos(j)' \in 1 .. Len(cache_list')
        /\ Len(cache_list') \in Nat
        /\ Pos(k)' = Pos(j)' => k = j
    BY PositionsDifferNext DEF Positions
  <2> QED
    BY <2>1
<1>2. \A i, j \in C : <<i, j>> \in Recent' <=> Pos(i)' < Pos(j)'
  BY DEF Recent
<1>3. \A i, j \in C \ {k} : <<i, j>> \in Recent <=> Pos(i) < Pos(j)
  BY DEF Recent
<1>4. \A i, j \in C : <<i, j>> \in Recent' <=> <<i, j>> \in R
  <2> TAKE i, j \in C
  <2>1. CASE j = k
    BY <1>1, <1>2, <2>1
  <2>2. CASE i = k /\ j # k
    BY <1>1, <1>2, <2>2
  <2>3. CASE i # k /\ j # k
    BY <1>2, <1>3, <2>3
  <2> QED
    BY <2>1, <2>2, <2>3
<1>5. Recent' \subseteq C \X C /\ R \subseteq C \X C
  BY DEF Recent
<1> QED
  BY <1>4, <1>5

(* The keys RecencyCache has are those of the map. *)
LEMMA AbsIs == Abs!Cached = DOMAIN cache_map
BY DEF Abs!Cached

(* A lookup that hits changes nothing but the order of use. *)
LEMMA LookupRefines ==
  ASSUME CacheInv, CacheInv', NEW url \in Url, get_cached_response(url), Hit(url)
  PROVE  Abs!Hit(url)
<1> DEFINE n == Pos(url)
           N == Len(cache_list)
           moved(i) == IF i = n THEN 1 ELSE IF i < n THEN i + 1 ELSE i
<1>1. url \in DOMAIN cache_map /\ cache_map' = cache_map
      /\ cache_list' = MoveToFront(cache_list, n)
  BY DEF Hit, is_in_cache, get_cached_response, Pos
<1>2. /\ cache_list \in Seq(ListNode) /\ N \in Nat /\ n \in 1 .. N
      /\ \A k \in DOMAIN cache_map : /\ Pos(k) \in 1 .. N
                                     /\ cache_list[Pos(k)].it = cache_map[k]
                                     /\ k # url => Pos(k) # n
  <2>1. cache_list \in Seq(ListNode)
    BY DEF CacheInv, TypeOK
  <2>2. \A k \in DOMAIN cache_map : cache_list[Pos(k)].it = cache_map[k]
    BY PositionFacts DEF Pos
  <2> QED
    BY <1>1, <2>1, <2>2, PositionsDiffer DEF Positions
<1> HIDE DEF n, N
<1>3. /\ Len(cache_list') = N
      /\ cache_list'[1] = cache_list[n]
      /\ \A i \in 2 .. n : cache_list'[i] = cache_list[i - 1]
      /\ \A i \in n + 1 .. N : cache_list'[i] = cache_list[i]
  <2>1. \A m \in 1 .. Len(cache_list) :
          /\ Len(MoveToFront(cache_list, m)) = Len(cache_list)
          /\ MoveToFront(cache_list, m)[1] = cache_list[m]
          /\ \A i \in 2 .. m : MoveToFront(cache_list, m)[i] = cache_list[i - 1]
          /\ \A i \in m + 1 .. Len(cache_list) : MoveToFront(cache_list, m)[i] = cache_list[i]
    BY <1>2, MoveToFrontFacts
  <2> QED
    BY <1>1, <1>2, <2>1 DEF N
<1>4. \A i \in 1 .. N : moved(i) \in 1 .. N /\ cache_list'[moved(i)] = cache_list[i]
  BY <1>2, <1>3
<1>5. \A k \in DOMAIN cache_map : Pos(k)' = moved(Pos(k))
  BY <1>1, <1>2, <1>3, <1>4, PositionsDifferNext DEF Positions
<1>6. UNCHANGED Content
  <2>1. \A k \in DOMAIN cache_map : Lookup(k)' = Lookup(k)
    BY <1>1, <1>2, <1>4, <1>5 DEF Lookup, Pos
  <2> QED
    BY <1>1, <2>1 DEF Content
<1>7. Recent' = {p \in Recent : /\ p[1] \in DOMAIN cache_map' \ {url}
                                /\ p[2] \in DOMAIN cache_map' \ {url}}
                  \cup {<<url, j>> : j \in DOMAIN cache_map' \ {url}}
  <2>1. Pos(url)' = 1
    BY <1>1, <1>5 DEF n
  <2>2. \A i, j \in DOMAIN cache_map \ {url} : (Pos(i)' < Pos(j)') <=> (Pos(i) < Pos(j))
    BY <1>2, <1>5
  <2> QED
    BY <1>1, <2>1, <2>2, FirstIsMostRecent
<1> QED
  BY <1>1, <1>6, <1>7 DEF Abs!Hit, Abs!Cached, Abs!Touched, Content, Recent, Pos

(* A store loses the key of the node that is evicted, if it is another's,  *)
(* and puts the new entry in front.                                        *)
LEMMA InsertRefines ==
  ASSUME CacheInv, CacheInv', NEW key \in Key, NEW r \in HttpResponse, NEW it \in Node,
         Insert(key, r, it)
  PROVE  Abs!Put(key)
<1> DEFINE L == ListAfterEviction
           K == KeysAfterEviction
           n == Len(L)
           entry == [response |-> r, expiry_time |-> get_expiry_time(r)]
           node == [it |-> it, key |-> key, entry |-> entry]
           V == (DOMAIN cache_map) \ K
<1>1. /\ L \in Seq(ListNode) /\ n \in Nat /\ n <= Len(cache_list)
      /\ \A i \in 1 .. n : L[i] = cache_list[i]
      /\ K \subseteq DOMAIN cache_map
      /\ \A k \in K : \E i \in 1 .. n : cache_list[i].it = cache_map[k]
  BY EvictionFacts, LenProperties
<1>2. V = {} \/ \E v \in DOMAIN cache_map : V = {v}
  BY DEF KeysAfterEviction
<1>3. /\ cache_list' = Cons(node, L)
      /\ cache_map' = [k \in K \cup {key} |-> IF k = key THEN it ELSE cache_map[k]]
  BY DEF Insert
<1>4. entry \in CacheEntry
  <2>1. now \in Nat
    BY DEF CacheInv, TypeOK
  <2> QED
    BY <2>1, ExpiryTimeType DEF CacheEntry
<1>5. node \in ListNode /\ node.it = it /\ node.entry = entry
  BY <1>4 DEF ListNode
<1> HIDE DEF L, K, n, node, entry
<1>6. DOMAIN cache_map' = K \cup {key} /\ cache_map'[key] = it
      /\ \A k \in K \ {key} : cache_map'[k] = cache_map[k]
  BY <1>3
<1>7. /\ Len(cache_list') = n + 1
      /\ cache_list'[1] = node
      /\ \A i \in 1 .. n : cache_list'[i + 1] = cache_list[i]
  <2>1. \A s1 \in Seq(ListNode), e1 \in ListNode :
          /\ Cons(e1, s1) \in Seq(ListNode)
          /\ Len(Cons(e1, s1)) = Len(s1) + 1
          /\ Cons(e1, s1)[1] = e1
          /\ \A i \in 2 .. Len(s1) + 1 : Cons(e1, s1)[i] = s1[i - 1]
    BY ConsFacts
  <2>2. /\ Len(Cons(node, L)) = n + 1
        /\ Cons(node, L)[1] = node
        /\ \A i \in 2 .. n + 1 : Cons(node, L)[i] = L[i - 1]
    BY <1>1, <1>5, <2>1, Zenon DEF n
  <2>3. \A i \in 1 .. n : i + 1 \in 2 .. n + 1 /\ (i + 1) - 1 = i
    BY <1>1
  <2> QED
    BY <1>1, <1>3, <2>2, <2>3
<1>8. Pos(key)' = 1
  BY <1>1, <1>5, <1>6, <1>7, PositionsDifferNext DEF Positions
<1>9. \A k \in K \ {key} : Pos(k) \in 1 .. n /\ Pos(k)' = Pos(k) + 1
  <2> TAKE k \in K \ {key}
  <2>1. PICK i \in 1 .. n : cache_list[i].it = cache_map[k]
    BY <1>1
  <2>2. Pos(k) = i
    BY <1>1, <2>1, PositionsDiffer DEF Positions
  <2>3. i + 1 \in 1 .. Len(cache_list') /\ cache_list'[i + 1].it = cache_map'[k]
    BY <1>1, <1>6, <1>7, <2>1
  <2>4. Pos(k)' = i + 1
    BY <1>6, <2>3, PositionsDifferNext DEF Positions
  <2> QED
    BY <2>2, <2>4
<1>10. Content'[key] = entry /\ \A k \in K \ {key} : Content'[k] = Content[k]
  <2>1. Lookup(key)' = entry
    BY <1>5, <1>7, <1>8 DEF Lookup, Pos
  <2>2. \A k \in K \ {key} : Lookup(k)' = Lookup(k)
    BY <1>1, <1>7, <1>9 DEF Lookup, Pos
  <2>3. Content' = [k \in DOMAIN cache_map' |-> Lookup(k)']
    BY DEF Content
  <2> QED
    BY <1>1, <1>6, <2>1, <2>2, <2>3 DEF Content
<1>11. Recent' = {p \in Recent : /\ p[1] \in DOMAIN cache_map' \ {key}
                                 /\ p[2] \in DOMAIN cache_map' \ {key}}
                   \cup {<<key, j>> : j \in DOMAIN cache_map' \ {key}}
  <2>1. \A j \in DOMAIN cache_map' \ {key} : j \in DOMAIN cache_map /\ j \in K \ {key}
    BY <1>1, <1>6
  <2>2. \A i, j \in DOMAIN cache_map' \ {key} : (Pos(i)' < Pos(j)') <=> (Pos(i) < Pos(j))
    BY <1>1, <1>9, <2>1
  <2> QED
    BY <1>6, <1>8, <2>1, <2>2, FirstIsMostRecent
<1>12. ((DOMAIN cache_map) \ V) \cup {key} = DOMAIN cache_map'
  BY <1>1, <1>6
<1>13. Abs!PutDropping(key, V)
  <2>1. DOMAIN Content = DOMAIN cache_map /\ DOMAIN Content' = DOMAIN cache_map'
    BY DEF Content
  <2>2. DOMAIN cache_map' \ {key} = K \ {key}
    BY <1>6
  <2> QED
    BY <1>4, <1>10, <1>11, <1>12, <2>1, <2>2, Zenon
    DEF Abs!PutDropping, Abs!Cached, Abs!Touched, Content, Recent, Pos
<1>14. Abs!Cached = DOMAIN cache_map
  BY AbsIs
<1> QED
  BY <1>2, <1>13, <1>14 DEF Abs!Put

(* The cache is the lossy one of RecencyCache: a lookup finds what was     *)
(* stored last under its key, a hit changes nothing but the order of use,  *)
(* and a store loses at most one other key.                                *)
THEOREM CacheRefinesRecencyCache == Spec => ImplementsRecencyCache
<1>1. Init => Abs!Init
  <2> SUFFICES ASSUME Init PROVE Abs!Init
    OBVIOUS
  <2>1. DOMAIN cache_map = {}
    BY DEF Init
  <2>2. Recent = {}
    BY <2>1 DEF Recent
  <2>3. Content = [k \in {} |-> {}]
    BY <2>1 DEF Content
  <2> QED
    BY <2>2, <2>3 DEF Abs!Init, Content, Recent, Pos
<1>2. CacheInv /\ CacheInv' /\ [Next]_vars => [Abs!Next]_(Abs!vars)
  <2> SUFFICES ASSUME CacheInv, CacheInv', [Next]_vars
               PROVE  Abs!Next \/ UNCHANGED Abs!vars
    OBVIOUS
  <2>1. ASSUME UNCHANGED <<cache_map, cache_list>>
        PROVE  UNCHANGED Abs!vars
    BY <2>1 DEF Abs!vars, Lookup, Position
  <2>2. ASSUME NEW url \in Url, get_cached_response(url)
        PROVE  Abs!Next \/ UNCHANGED Abs!vars
    <3>1. CASE Hit(url)
      BY <2>2, <3>1, LookupRefines DEF Abs!Next, Key
    <3>2. CASE ~Hit(url)
      BY <2>1, <2>2, <3>2 DEF get_cached_response
    <3> QED
      BY <3>1, <3>2
  <2>3. ASSUME NEW url \in Url, NEW r \in Response, store_response(url, r)
        PROVE  Abs!Next \/ UNCHANGED Abs!vars
    <3>1. r \in HttpResponse /\ CacheKey(url, r) \in Key
      BY CacheAssumption, CacheKeyType
    <3>2. CASE is_cacheable(r)
      <4>1. PICK it \in Node : Insert(CacheKey(url, r), r, it)
        BY <2>3, <3>2 DEF store_response
      <4>2. Abs!Put(CacheKey(url, r))
        BY <3>1, <4>1, InsertRefines
      <4> QED
        BY <3>1, <4>2 DEF Abs!Next
    <3>3. CASE ~is_cacheable(r)
      BY <2>1, <2>3, <3>3 DEF store_response, cache_vars
    <3> QED
      BY <3>2, <3>3
  <2> QED
    BY <2>1, <2>2, <2>3 DEF Next, Tick, vars, cache_vars
<1> QED
  BY <1>1, <1>2, CacheInvInit, CacheInvStep, PTL DEF Spec, ImplementsRecencyCache

=============================================================================
