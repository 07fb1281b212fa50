---------------------------- MODULE CacheManager ----------------------------
(***************************************************************************)
(* The response cache shared by all client threads (CacheManager.h/.cpp).  *)
(*                                                                         *)
(* cache_list is the std::list kept in LRU order, most recent first; each  *)
(* node has an address ("it"), the value of the iterators that refer to    *)
(* it.  cache_map is the unordered_map from cache keys to iterators.  A    *)
(* node's address may be used again once the node is erased, as a heap     *)
(* may.  Every public operation holds cache_mutex for the whole of its     *)
(* work on the two containers, so each is one action.                      *)
(*                                                                         *)
(* The operations are actions over the cache's variables that a caller     *)
(* can conjoin with its own: the module of the request handler does.       *)
(***************************************************************************)
EXTENDS HttpResponse, SequencesExt

CONSTANTS
  Url,        \* the request targets clients ask for
  Node,       \* the addresses of list nodes
  Response,   \* the responses callers pass to store_response
  Capacity,   \* cache_capacity
  Day,        \* the default lifetime, 86400 seconds in the code
  MaxTime     \* the last instant the clock is run to

VARIABLES cache_map, cache_list, now

cache_vars == <<cache_map, cache_list>>
vars == <<cache_map, cache_list, now>>

ASSUME CacheAssumption ==
  /\ Capacity \in Nat
  /\ Day \in Nat
  /\ MaxTime \in Nat
  /\ Response \subseteq HttpResponse
  /\ HeaderAssumption

-----------------------------------------------------------------------------
(* Seeded fault: the header replaces the url in the key. *)
CacheKeyWithoutUrl(url, r) == IF r.vary = NoHeader THEN url ELSE r.vary

(* A response with Vary is kept under the text "url|vary", here the pair;  *)
(* lookups use the url alone.  A url may itself be such a text: Url may    *)
(* hold the pair too.                                                      *)
CacheKey(url, r) == IF r.vary = NoHeader THEN url ELSE <<url, r.vary>>

Key == Url \cup (Url \X VaryValue)

CacheEntry == [response : HttpResponse, expiry_time : Int]

ListNode == [it : Node, key : Key, entry : CacheEntry]

(* The lifetime starts at the call.  The defaults for a missing            *)
(* Cache-Control and for a missing Expires add up.                         *)
get_expiry_time(r) ==
  LET by_age == IF r.cache_control = {} THEN now + Day
                ELSE IF "max-age" \in r.cache_control THEN now + r.max_age
                ELSE now
  IN  CASE r.expires = NoHeader -> by_age + Day
        [] r.expires = BadDate  -> by_age
        [] OTHER -> IF r.expires > by_age THEN r.expires ELSE by_age

Position(it) == CHOOSE i \in DOMAIN cache_list : cache_list[i].it = it

(* The entry a lookup of key k finds: it->second->second. *)
Lookup(k) == cache_list[Position(cache_map[k])].entry

is_expired(entry) == now >= entry.expiry_time

is_in_cache(url) == url \in DOMAIN cache_map

(* get_cached_response returns a response, not nullptr. *)
Hit(url) == is_in_cache(url) /\ ~is_expired(Lookup(url))

-----------------------------------------------------------------------------
Init ==
  /\ cache_map = [k \in {} |-> {}]
  /\ cache_list = <<>>
  /\ now = 0

(* Seeded fault: the two nodes trade places. *)
SwapWithFront(s, i) == [s EXCEPT ![1] = s[i], ![i] = s[1]]

(* cache_list.splice(begin, cache_list, position i) *)
MoveToFront(s, i) == Cons(s[i], RemoveAt(s, i))

(* A live entry becomes the most recent one; a missing or an expired one   *)
(* (which stays where it is) changes nothing.                              *)
get_cached_response(url) ==
  /\ cache_list' = IF Hit(url)
                   THEN MoveToFront(cache_list, Position(cache_map[url]))
                   ELSE cache_list
  /\ UNCHANGED cache_map

(* Seeded faults: the test off by one; the map entry not erased. *)
FullTooLate == cache_list # <<>> /\ Len(cache_list) > Capacity

KeysNotErased == DOMAIN cache_map

Full == cache_list # <<>> /\ Len(cache_list) >= Capacity

(* evict_if_needed: what it leaves of the list and of the map.  The map    *)
(* loses the key of the evicted node, wherever that key points.            *)
ListAfterEviction == IF Full THEN Front(cache_list) ELSE cache_list

KeysAfterEviction ==
  DOMAIN cache_map \ (IF Full THEN {Last(cache_list).key} ELSE {})

(* Seeded fault: cache_map.emplace keeps the iterator it finds. *)
InsertIfAbsent(key, r, it) ==
  /\ it \notin {ListAfterEviction[i].it : i \in DOMAIN ListAfterEviction}
  /\ cache_list' = Cons([it |-> it, key |-> key,
                         entry |-> [response |-> r,
                                    expiry_time |-> get_expiry_time(r)]],
                        ListAfterEviction)
  /\ cache_map' = [k \in KeysAfterEviction \cup {key} |->
                     IF k \in KeysAfterEviction THEN cache_map[k] ELSE it]

(* A cacheable response gets a new node at the front even when its key has *)
(* one already: the old node stays in the list with no iterator to it.     *)
Insert(key, r, it) ==
  /\ it \notin {ListAfterEviction[i].it : i \in DOMAIN ListAfterEviction}
  /\ cache_list' = Cons([it |-> it, key |-> key,
                         entry |-> [response |-> r,
                                    expiry_time |-> get_expiry_time(r)]],
                        ListAfterEviction)
  /\ cache_map' = [k \in KeysAfterEviction \cup {key} |->
                     IF k = key THEN it ELSE cache_map[k]]

store_response(url, r) ==
  IF is_cacheable(r)
  THEN \E it \in Node : Insert(CacheKey(url, r), r, it)
  ELSE UNCHANGED cache_vars

(* std::time: any call may see a later second than the one before. *)
Tick ==
  /\ now < MaxTime
  /\ now' = now + 1
  /\ UNCHANGED cache_vars

Next ==
  \/ \E url \in Url : get_cached_response(url) /\ UNCHANGED now
  \/ \E url \in Url, r \in Response : store_response(url, r) /\ UNCHANGED now
  \/ Tick

Spec == Init /\ [][Next]_vars

-----------------------------------------------------------------------------
TypeOK ==
  /\ cache_list \in Seq(ListNode)
  /\ DOMAIN cache_map \subseteq Key
  /\ cache_map \in [DOMAIN cache_map -> Node]
  /\ now \in 0 .. MaxTime

(* Every iterator in cache_map refers to a live node of cache_list, and to *)
(* one stored under the same key.  evict_if_needed and get_cached_response *)
(* dereference and splice through these iterators: one that outlives its   *)
(* node is undefined behaviour.                                            *)
NoDanglingIterator ==
  \A k \in DOMAIN cache_map :
    \E i \in DOMAIN cache_list :
      cache_list[i].it = cache_map[k] /\ cache_list[i].key = k

(* No two nodes of the list share an address. *)
DistinctNodes ==
  \A i, j \in DOMAIN cache_list : cache_list[i].it = cache_list[j].it => i = j

(* The list never outgrows the capacity, whatever nodes it keeps for       *)
(* superseded entries (a capacity of 0 still holds one entry:              *)
(* evict_if_needed evicts nothing from an empty list).                     *)
Bounded == Len(cache_list) <= IF Capacity = 0 THEN 1 ELSE Capacity

(* The node a lookup reaches is the first of its key in LRU order: a       *)
(* superseded node never comes before the one that replaced it, so it is   *)
(* always evicted first.                                                   *)
MappedIsFirst ==
  \A k \in DOMAIN cache_map : \A i, j \in DOMAIN cache_list :
    /\ cache_list[i].it = cache_map[k]
    /\ cache_list[j].key = k
    => i <= j

(* The inductive invariant the proofs use. *)
CacheInv ==
  /\ TypeOK
  /\ DistinctNodes
  /\ NoDanglingIterator
  /\ Bounded
  /\ MappedIsFirst

-----------------------------------------------------------------------------
(* The list and the map together implement the lossy recency cache: a      *)
(* lookup finds the entry stored last under its key, a hit changes nothing *)
(* but the order of use, a store loses at most one other key.              *)
Abs == INSTANCE RecencyCache WITH
         Entry   <- CacheEntry,
         content <- [k \in DOMAIN cache_map |-> Lookup(k)],
         recent  <- {p \in (DOMAIN cache_map) \X (DOMAIN cache_map) :
                       Position(cache_map[p[1]]) < Position(cache_map[p[2]])}

ImplementsRecencyCache == Abs!Init /\ [][Abs!Next]_(Abs!vars)

(* "Evict least recently used item if cache is full" (CacheManager.cpp).   *)
EvictsLeastRecent == Abs!Init /\ [][Abs!LruNext]_(Abs!vars)
=============================================================================
