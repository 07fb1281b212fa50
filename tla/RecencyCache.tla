---------------------------- MODULE RecencyCache ----------------------------
(***************************************************************************)
(* What a cache with recency-based eviction promises, without lists or     *)
(* iterators: a partial map from keys to entries and the order in which    *)
(* its keys were last used.  Spec lets a store drop any one key (the cache *)
(* is lossy); LruSpec lets it drop only the key used longest ago.          *)
(***************************************************************************)
CONSTANTS Key, Entry

VARIABLES
  content,   \* content[k]: the entry a lookup of k finds
  recent     \* <<j, k>> \in recent: j was used more recently than k

vars == <<content, recent>>

Cached == DOMAIN content

Init ==
  /\ content = [k \in {} |-> {}]
  /\ recent = {}

(* The order once key k has become the most recent of the keys of C. *)
Touched(k, C) ==
  {p \in recent : p[1] \in C \ {k} /\ p[2] \in C \ {k}}
    \cup {<<k, j>> : j \in C \ {k}}

Hit(k) ==
  /\ k \in Cached
  /\ recent' = Touched(k, Cached)
  /\ UNCHANGED content

(* Keys Victims are dropped and some entry is stored under k.  The entry   *)
(* is content'[k]: a caller of Put fixes it, nothing else is free.         *)
PutDropping(k, Victims) ==
  LET C == (Cached \ Victims) \cup {k}
  IN  /\ DOMAIN content' = C
      /\ content'[k] \in Entry
      /\ \A j \in C \ {k} : content'[j] = content[j]
      /\ recent' = Touched(k, C)

Put(k) == \E V \in {{}} \cup {{v} : v \in Cached} : PutDropping(k, V)

LeastRecent == {v \in Cached : \A j \in Cached \ {v} : <<j, v>> \in recent}

LruPut(k) == \E V \in {{}, LeastRecent} : PutDropping(k, V)

Next == \E k \in Key : Hit(k) \/ Put(k)

LruNext == \E k \in Key : Hit(k) \/ LruPut(k)

Spec == Init /\ [][Next]_vars

LruSpec == Init /\ [][LruNext]_vars
=============================================================================
