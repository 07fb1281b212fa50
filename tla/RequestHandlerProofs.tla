------------------------ MODULE RequestHandlerProofs ------------------------
(***************************************************************************)
(* Proofs about threads that handle requests over the shared cache, for    *)
(* any number of threads, hosts, urls and versions of pages, any requests  *)
(* and any capacity of the cache.                                          *)
(*                                                                         *)
(* The cache's own invariant comes from CacheManagerProofs, instantiated   *)
(* with the responses the handlers store.  The invariant of the handlers   *)
(* says, for each place a thread can be at, where what it has in hand has  *)
(* come from; a step of one thread is then a step of that thread alone.    *)
(***************************************************************************)
EXTENDS RequestHandler, Sequences, TLAPS

Stored == Pages \cup {PostPage[a] : a \in Site}

CacheProofs == INSTANCE CacheManagerProofs WITH Response <- Stored

-----------------------------------------------------------------------------
(* The cache of the handlers and the cache of its proofs are two instances *)
(* of one module: what the operators of one mean, those of the other mean. *)

LEMMA SameTypes ==
  /\ CacheProofs!HttpResponse = HttpResponse
  /\ Cache!Key = CacheProofs!Key
BY DEF CacheProofs!HttpResponse, HttpResponse, CacheProofs!Status, Status,
       CacheProofs!Directive, Directive, Cache!Key, CacheProofs!Key

LEMMA SameLookup ==
  ASSUME NEW url
  PROVE  /\ Cache!Hit(url) <=> CacheProofs!Hit(url)
         /\ Cache!Lookup(url) = CacheProofs!Lookup(url)
         /\ Cache!Position(cache_map[url]) = CacheProofs!Position(cache_map[url])
<1>1. \A it : Cache!Position(it) = CacheProofs!Position(it)
  BY DEF Cache!Position, CacheProofs!Position
<1>2. Cache!Lookup(url) = CacheProofs!Lookup(url)
  BY <1>1 DEF Cache!Lookup, CacheProofs!Lookup
<1> QED
  BY <1>1, <1>2 DEF Cache!Hit, CacheProofs!Hit, Cache!is_in_cache, CacheProofs!is_in_cache,
         Cache!is_expired, CacheProofs!is_expired

LEMMA SameGet ==
  ASSUME NEW url, Cache!get_cached_response(url)
  PROVE  CacheProofs!get_cached_response(url)
<1>1. \A s, i : Cache!MoveToFront(s, i) = CacheProofs!MoveToFront(s, i)
  BY DEF Cache!MoveToFront, CacheProofs!MoveToFront, Cache!Cons, CacheProofs!Cons,
         Cache!RemoveAt, CacheProofs!RemoveAt
<1> QED
  BY <1>1, SameLookup, Zenon DEF Cache!get_cached_response, CacheProofs!get_cached_response

LEMMA SameStore ==
  ASSUME NEW url, NEW r, Cache!store_response(url, r)
  PROVE  CacheProofs!store_response(url, r)
<1>1. Cache!Full <=> CacheProofs!Full
  BY DEF Cache!Full, CacheProofs!Full
<1>2. Cache!ListAfterEviction = CacheProofs!ListAfterEviction
  BY <1>1, Zenon DEF Cache!ListAfterEviction, CacheProofs!ListAfterEviction, Cache!Front,
               CacheProofs!Front
<1>3. Cache!KeysAfterEviction = CacheProofs!KeysAfterEviction
  BY <1>1, Zenon DEF Cache!KeysAfterEviction, CacheProofs!KeysAfterEviction, Cache!Last,
               CacheProofs!Last
<1>4. Cache!get_expiry_time(r) = CacheProofs!get_expiry_time(r)
  BY Zenon DEF Cache!get_expiry_time, CacheProofs!get_expiry_time
<1>5. \A e, s : Cache!Cons(e, s) = CacheProofs!Cons(e, s)
  BY Zenon DEF Cache!Cons, CacheProofs!Cons
<1>6. \A key, it : Cache!Insert(key, r, it) => CacheProofs!Insert(key, r, it)
  BY <1>2, <1>3, <1>4, <1>5, Zenon DEF Cache!Insert, CacheProofs!Insert
<1>7. Cache!CacheKey(url, r) = CacheProofs!CacheKey(url, r)
  BY DEF Cache!CacheKey, CacheProofs!CacheKey
<1>8. Cache!is_cacheable(r) <=> CacheProofs!is_cacheable(r)
  BY DEF Cache!is_cacheable, CacheProofs!is_cacheable
<1>10. CASE Cache!is_cacheable(r)
  BY <1>6, <1>7, <1>8, <1>10 DEF Cache!store_response, CacheProofs!store_response
<1>11. CASE ~Cache!is_cacheable(r)
  BY <1>8, <1>11 DEF Cache!store_response, CacheProofs!store_response, Cache!cache_vars,
                     CacheProofs!cache_vars
<1> QED
  BY <1>10, <1>11

LEMMA SameStep == [Cache!Next]_(Cache!vars) => [CacheProofs!Next]_(CacheProofs!vars)
<1>1. ASSUME NEW url \in Url, Cache!get_cached_response(url) /\ UNCHANGED now
      PROVE  CacheProofs!Next
  BY <1>1, SameGet DEF CacheProofs!Next
<1>2. ASSUME NEW url \in Url, NEW r \in Stored,
             Cache!store_response(url, r) /\ UNCHANGED now
      PROVE  CacheProofs!Next
  BY <1>2, SameStore DEF CacheProofs!Next
<1>3. CASE Cache!Tick
  BY <1>3 DEF CacheProofs!Next, Cache!Tick, CacheProofs!Tick, Cache!cache_vars,
              CacheProofs!cache_vars
<1>4. CASE UNCHANGED Cache!vars
  BY <1>4 DEF Cache!vars, CacheProofs!vars
<1> QED
  BY <1>1, <1>2, <1>3, <1>4 DEF Cache!Next, Stored

(* Everything that can be in a response's place is a response.             *)
LEMMA Types ==
  /\ Stored \subseteq HttpResponse
  /\ Pages \subseteq HttpResponse
  /\ \A a \in Site : PostPage[a] \in HttpResponse
  /\ \A a \in Site, v \in Version : Page[a][v] \in Pages
  /\ \A v \in Validator : NotModified(v) \in HttpResponse
  /\ {BadGateway, BadRequest, Established} \subseteq HttpResponse
  /\ NoResponse \notin HttpResponse
<1>1. \A a \in Site, v \in Version : Page[a][v] \in HttpResponse
  BY HandlerAssumption
<1>2. \A a \in Site : PostPage[a] \in HttpResponse
  BY HandlerAssumption
<1>3. \A s \in Status, v \in Validator \cup {NoHeader} : MadeUp(s, v) \in HttpResponse
  <2>1. ErrorBody \in Body
    BY HandlerAssumption
  <2> QED
    BY <2>1 DEF MadeUp, HttpResponse
<1>4. {"502 Bad Gateway", "400 Bad Request", "304 Not Modified",
       "200 Connection Established"} \subseteq Status
  BY DEF Status
<1>5. {BadGateway, BadRequest, Established} \subseteq HttpResponse
  BY <1>3, <1>4 DEF BadGateway, BadRequest, Established
<1>6. \A v \in Validator : NotModified(v) \in HttpResponse
  BY <1>3, <1>4 DEF NotModified
<1>7. Pages \subseteq HttpResponse /\ \A a \in Site, v \in Version : Page[a][v] \in Pages
  BY <1>1 DEF Pages
<1>8. Stored \subseteq HttpResponse
  BY <1>2, <1>7 DEF Stored
<1> QED
  BY <1>2, <1>5, <1>6, <1>7, <1>8, HandlerAssumption

(* A request is for a page of a host; what is asked for is one.            *)
LEMMA TargetTypes ==
  /\ \A r \in Requests : Target(r) \in Site /\ Target(r)[2] = r.url /\ r.url \in Url
  /\ \A a \in Asked : a \in Site /\ a[2] \in Url
<1>1. \A r \in Requests : Target(r) \in Site /\ Target(r)[2] = r.url /\ r.url \in Url
  BY DEF Requests, Target, Site
<1>2. Request \subseteq Requests
  BY HandlerAssumption
<1> QED
  BY <1>1, <1>2 DEF Asked

(* What the cache assumes of its constants holds of the handlers'.         *)
LEMMA CacheAssumptions == CacheProofs!CacheAssumption
BY Types, SameTypes, HandlerAssumption
   DEF CacheProofs!CacheAssumption, CacheProofs!HeaderAssumption, HeaderAssumption

(* The cache's invariant survives every operation of a handler.            *)
LEMMA CacheKeeps ==
  ASSUME CacheProofs!CacheInv, [Cache!Next]_(Cache!vars)
  PROVE  CacheProofs!CacheInv'
BY SameStep, CacheAssumptions, CacheProofs!CacheInvStep

-----------------------------------------------------------------------------
(* The inductive invariant. *)

(* The origin has worked on the request of t and x is what it said to it. *)
FromOrigin(t, x) ==
  /\ processed[t] > 0
  /\ IF request[t].method = "GET"
     THEN \/ ShownBy(Target(request[t]), x)
          \/ /\ client_validator[t] # NoHeader
             /\ \E v \in Validator : x = NotModified(v)
     ELSE x = PostPage[Target(request[t])]

(* x is a page that may be shared, stored under the key t looks up. *)
FromCache(t, x) ==
  /\ request[t].method = "GET"
  /\ x.cache_control \cap {"no-store", "private"} = {}
  /\ \E a \in Asked : ShownBy(a, x) /\ Cache!CacheKey(a[2], x) = request[t].url

HandlerTypes ==
  /\ origin \in [Site -> Version]
  /\ pc \in [Thread -> Pc]
  /\ request \in [Thread -> Requests]
  /\ client_validator \in [Thread -> Validator \cup {NoHeader}]
  /\ cached_response \in [Thread -> Pages \cup {NoResponse}]
  /\ response \in [Thread -> HttpResponse \cup {NoResponse}]
  /\ processed \in [Thread -> Nat]
  /\ upstream \in [Thread -> BOOLEAN]
  /\ answer \in [Thread -> HttpResponse \cup {NoResponse}]
  /\ result \in [Thread -> {"0", "-1", "exception"}]
  /\ alive \in BOOLEAN

(* What a thread has in hand, by the place it is at. *)
InHand(t) ==
  /\ pc[t] \in {"validate", "validating", "validated", "reply_cached"} =>
       FromCache(t, cached_response[t])
  /\ pc[t] \in {"validating", "forwarding"} =>
       response[t] = NoResponse \/ FromOrigin(t, response[t])
  /\ pc[t] \in {"validated", "reply"} =>
       response[t] = BadGateway \/ FromOrigin(t, response[t])
  /\ pc[t] = "store" => is_cacheable(response[t]) /\ ShownBy(Target(request[t]), response[t])

(* Only a GET looks at the cache, and only one with a validator of the     *)
(* client's own validates what it finds.                                   *)
MethodOfPlace(t) ==
  /\ pc[t] \in {"is_in_cache", "get_cached_response", "validate", "validating",
                "validated", "reply_cached", "store"} => request[t].method = "GET"
  /\ pc[t] = "handle_connect" => request[t].method = "CONNECT"
  /\ pc[t] # "idle" /\ client_validator[t] = NoHeader =>
       request[t].validator = NoHeader
  /\ pc[t] \in {"validate", "validating", "validated"} =>
       client_validator[t] # NoHeader

(* How often the origin can have worked on the request so far. *)
Processing(t) ==
  /\ processed[t] <= IF request[t].method = "POST" THEN 1 ELSE 2
  /\ \/ pc[t] \in {"malformed", "is_in_cache", "get_cached_response", "validate",
                   "handle_connect"}
     \/ pc[t] = "validating" /\ response[t] = NoResponse
     \/ request[t].method = "POST" /\ pc[t] = "forward"
     \/ request[t].method = "POST" /\ pc[t] = "forwarding" /\ response[t] = NoResponse
     => processed[t] = 0
  /\ \/ pc[t] \in {"validating", "validated", "forward"}
     \/ pc[t] = "forwarding" /\ response[t] = NoResponse
     => processed[t] <= 1

SocketInUse(t) ==
  upstream[t] => \/ pc[t] \in {"validating", "forwarding"}
                 \/ pc[t] = "idle" /\ result[t] = "exception"

Answered(t) ==
  \/ answer[t] = NoResponse
  \/ answer[t] \in {BadGateway, BadRequest}
  \/ answer[t] = Established /\ request[t].method = "CONNECT"
  \/ FromOrigin(t, answer[t])
  \/ FromCache(t, answer[t])

(* A request is one a client made, but for the validator. *)
Made(t) == \E r \in Request : [request[t] EXCEPT !.validator = r.validator] = r

ThreadInv(t) ==
  /\ InHand(t)
  /\ MethodOfPlace(t)
  /\ Processing(t)
  /\ SocketInUse(t)
  /\ Answered(t)
  /\ Made(t)

HandlerInv ==
  /\ HandlerTypes
  /\ CacheHoldsPagesOfItsKeys
  /\ \A t \in Thread : ThreadInv(t)

(* What a GET is for is asked for. *)
LEMMA GetIsAsked ==
  ASSUME HandlerTypes, NEW t \in Thread, Made(t), request[t].method = "GET"
  PROVE  Target(request[t]) \in Asked
<1>1. request[t] \in Requests /\ Request \subseteq Requests
  BY HandlerAssumption DEF HandlerTypes
<1>2. PICK r \in Request : [request[t] EXCEPT !.validator = r.validator] = r
  BY DEF Made
<1>3. r.method = "GET" /\ Target(r) = Target(request[t])
  BY <1>1, <1>2 DEF Requests, Target
<1> QED
  BY <1>3 DEF Asked

-----------------------------------------------------------------------------
(* What other threads do does not bear on the invariant of t.              *)

Same(t) ==
  /\ pc'[t] = pc[t]
  /\ request'[t] = request[t]
  /\ client_validator'[t] = client_validator[t]
  /\ cached_response'[t] = cached_response[t]
  /\ response'[t] = response[t]
  /\ processed'[t] = processed[t]
  /\ upstream'[t] = upstream[t]
  /\ answer'[t] = answer[t]
  /\ result'[t] = result[t]

LEMMA ShownStays ==
  ASSUME HandlerTypes, origin' \in [Site -> Version],
         \A a \in Site : origin[a] <= origin'[a],
         NEW a \in Site, NEW x, ShownBy(a, x)
  PROVE  ShownBy(a, x)'
BY DEF ShownBy, HandlerTypes, Version

LEMMA SameKeeps ==
  ASSUME HandlerTypes, origin' \in [Site -> Version],
         \A a \in Site : origin[a] <= origin'[a],
         NEW t \in Thread, ThreadInv(t), Same(t)
  PROVE  ThreadInv(t)'
<1>1. \A a \in Site : \A x : ShownBy(a, x) => ShownBy(a, x)'
  BY ShownStays
<1>2. Target(request[t]) \in Site
  BY TargetTypes DEF HandlerTypes
<1>3. \A x : FromOrigin(t, x) => FromOrigin(t, x)'
  BY <1>1, <1>2 DEF Same, FromOrigin
<1>4. \A x : FromCache(t, x) => FromCache(t, x)'
  BY <1>1, TargetTypes DEF Same, FromCache
<1>5. InHand(t)'
  BY <1>1, <1>2, <1>3, <1>4 DEF ThreadInv, Same, InHand
<1>6. MethodOfPlace(t)'
  BY DEF ThreadInv, Same, MethodOfPlace
<1>7. Processing(t)'
  BY DEF ThreadInv, Same, Processing
<1>8. SocketInUse(t)'
  BY DEF ThreadInv, Same, SocketInUse
<1>9. Answered(t)'
  BY <1>3, <1>4 DEF ThreadInv, Same, Answered
<1>10. Made(t)'
  BY DEF ThreadInv, Same, Made
<1> QED
  BY <1>5, <1>6, <1>7, <1>8, <1>9, <1>10 DEF ThreadInv

(* A step of t alone. *)
StepOf(t) ==
  /\ UNCHANGED origin
  /\ HandlerTypes'
  /\ ThreadInv(t)'
  /\ \A s \in Thread \ {t} : Same(s)

LEMMA StepKeeps ==
  ASSUME HandlerInv, NEW t \in Thread, StepOf(t)
  PROVE  HandlerTypes' /\ \A s \in Thread : ThreadInv(s)'
<1>1. /\ origin' \in [Site -> Version]
      /\ \A a \in Site : origin[a] <= origin'[a]
  BY DEF HandlerInv, HandlerTypes, StepOf, Version
<1>2. ASSUME NEW s \in Thread, s # t PROVE ThreadInv(s)'
  BY <1>1, <1>2, SameKeeps DEF HandlerInv, StepOf
<1> QED
  BY <1>2 DEF StepOf

-----------------------------------------------------------------------------
(* The steps of a thread, one by one.                                      *)

LEMMA BeginKeeps ==
  ASSUME HandlerInv, NEW t \in Thread, NEW r \in Request, Begin(t, r)
  PROVE  StepOf(t)
<1>1. /\ r \in Requests
      /\ r.validator \in Validator \cup {NoHeader}
      /\ r.url \in Url
  BY HandlerAssumption DEF Requests
<1>2. pc'[t] \in {"malformed", "is_in_cache", "handle_connect", "forward"}
  BY DEF Begin, Goes, HandlerInv, HandlerTypes
<1>3. HandlerTypes'
  BY <1>1 DEF Begin, Goes, HandlerInv, HandlerTypes, Pc
<1>4. /\ request'[t] = r /\ client_validator'[t] = r.validator
      /\ processed'[t] = 0 /\ upstream'[t] = FALSE /\ answer'[t] = NoResponse
  BY DEF Begin, HandlerInv, HandlerTypes
<1>5. InHand(t)' /\ Processing(t)' /\ SocketInUse(t)' /\ Answered(t)'
  BY <1>2, <1>4 DEF InHand, Processing, SocketInUse, Answered
<1>6. MethodOfPlace(t)'
  BY <1>1, <1>2, <1>4 DEF MethodOfPlace, Begin, Goes, HandlerInv, HandlerTypes
<1>7. Made(t)'
  BY <1>1, <1>4 DEF Made, Requests
<1> QED
  BY <1>3, <1>5, <1>6, <1>7
     DEF StepOf, ThreadInv, Same, Begin, Goes, HandlerInv, HandlerTypes

(* A step of t that leaves the request as it is, and what there is of an   *)
(* answer or of the work of an origin.                                     *)
Unasked(t) ==
  /\ UNCHANGED <<origin, alive>>
  /\ request'[t] = request[t]
  /\ client_validator'[t] = client_validator[t]
  /\ processed'[t] = processed[t]

LEMMA UnaskedKeeps ==
  ASSUME HandlerInv, NEW t \in Thread, Unasked(t)
  PROVE  /\ \A x : FromOrigin(t, x)' <=> FromOrigin(t, x)
         /\ \A x : FromCache(t, x)' <=> FromCache(t, x)
         /\ \A u, x : ShownBy(u, x)' <=> ShownBy(u, x)
         /\ Made(t)'
<1>1. \A u, x : ShownBy(u, x)' <=> ShownBy(u, x)
  BY DEF Unasked, ShownBy
<1> QED
  BY <1>1 DEF Unasked, FromOrigin, FromCache, Made, HandlerInv, ThreadInv

(* handle_request returns: what is left to show is the answer.             *)
LEMMA ReturnKeeps ==
  ASSUME HandlerInv, NEW t \in Thread, NEW from \in Pc \ {"idle"},
         NEW r \in {"0", "-1", "exception"}, Returns(t, from, r),
         UNCHANGED <<origin, request, client_validator, processed, upstream, alive>>,
         from \in {"validating", "forwarding"} => r = "exception",
         answer' \in [Thread -> HttpResponse \cup {NoResponse}],
         \A s \in Thread \ {t} : answer'[s] = answer[s],
         Answered(t)'
  PROVE  StepOf(t)
<1> USE DEF Returns, Goes, HandlerInv, HandlerTypes
<1>1. HandlerTypes'
  BY DEF Pc
<1>2. /\ pc[t] = from /\ pc'[t] = "idle" /\ result'[t] = r
      /\ request'[t] = request[t] /\ processed'[t] = processed[t]
      /\ upstream'[t] = upstream[t]
  OBVIOUS
<1>3. InHand(t)' /\ MethodOfPlace(t)'
  BY <1>2 DEF InHand, MethodOfPlace
<1>4. Processing(t)'
  BY <1>2 DEF Processing, ThreadInv
<1>5. SocketInUse(t)'
  BY <1>2 DEF SocketInUse, ThreadInv
<1>6. Made(t)'
  BY <1>2 DEF Made, ThreadInv
<1> QED
  BY <1>1, <1>3, <1>4, <1>5, <1>6 DEF StepOf, ThreadInv, Same

LEMMA RejectMalformedKeeps ==
  ASSUME HandlerInv, NEW t \in Thread, RejectMalformed(t)
  PROVE  StepOf(t)
<1>1. answer' \in [Thread -> HttpResponse \cup {NoResponse}] /\ Answered(t)'
  <2>1. CASE answer' = [answer EXCEPT ![t] = BadRequest]
    BY <2>1, Types DEF HandlerInv, HandlerTypes, Answered
  <2>2. CASE UNCHANGED answer
    <3>1. Unasked(t)
      BY DEF RejectMalformed, Unasked
    <3> QED
      BY <2>2, <3>1, UnaskedKeeps
         DEF HandlerInv, HandlerTypes, ThreadInv, Answered, Unasked
  <2> QED
    BY <2>1, <2>2 DEF RejectMalformed
<1>2. \A s \in Thread \ {t} : answer'[s] = answer[s]
  BY DEF RejectMalformed, HandlerInv, HandlerTypes
<1> QED
  BY <1>1, <1>2, ReturnKeeps DEF RejectMalformed, Pc

LEMMA HandleConnectKeeps ==
  ASSUME HandlerInv, NEW t \in Thread, HandleConnect(t)
  PROVE  StepOf(t)
<1>1. request'[t].method = "CONNECT"
  BY DEF HandleConnect, Returns, Goes, HandlerInv, ThreadInv, MethodOfPlace
<1>2. PICK r \in {BadGateway, Established, NoResponse} :
        answer' = [answer EXCEPT ![t] = r]
  BY DEF HandleConnect
<1>3. answer' \in [Thread -> HttpResponse \cup {NoResponse}] /\ Answered(t)'
  BY <1>1, <1>2, Types DEF HandlerInv, HandlerTypes, Answered
<1>4. \A s \in Thread \ {t} : answer'[s] = answer[s]
  BY <1>2 DEF HandlerInv, HandlerTypes
<1> QED
  BY <1>3, <1>4, ReturnKeeps DEF HandleConnect, Pc

LEMMA ReplyCachedKeeps ==
  ASSUME HandlerInv, NEW t \in Thread, ReplyCached(t)
  PROVE  StepOf(t)
<1>1. FromCache(t, cached_response[t])
  BY DEF ReplyCached, Returns, Goes, HandlerInv, ThreadInv, InHand
<1>3. answer' \in [Thread -> HttpResponse \cup {NoResponse}]
  BY Types DEF ReplyCached, HandlerInv, HandlerTypes
<1>4. Answered(t)'
  <2>1. Unasked(t)
    BY DEF ReplyCached, Unasked
  <2>2. answer'[t] = cached_response[t]
    BY DEF ReplyCached, HandlerInv, HandlerTypes
  <2> QED
    BY <1>1, <2>1, <2>2 DEF Answered, Unasked, FromCache, ShownBy
<1>5. \A s \in Thread \ {t} : answer'[s] = answer[s]
  BY DEF ReplyCached, HandlerInv, HandlerTypes
<1> QED
  BY <1>3, <1>4, <1>5, ReturnKeeps DEF ReplyCached, Pc

(* handle_request returns without an answer. *)
LEMMA SilentReturnKeeps ==
  ASSUME HandlerInv, NEW t \in Thread, NEW from \in Pc \ {"idle"},
         NEW r \in {"0", "-1", "exception"}, Returns(t, from, r),
         UNCHANGED <<origin, request, client_validator, processed, upstream, answer,
                     alive>>,
         from \in {"validating", "forwarding"} => r = "exception"
  PROVE  StepOf(t)
<1>1. Unasked(t)
  BY DEF Unasked
<1>2. Answered(t)'
  BY <1>1, UnaskedKeeps DEF Answered, HandlerInv, ThreadInv, Unasked
<1> QED
  BY <1>2, ReturnKeeps DEF HandlerInv, HandlerTypes

(* A step of t within handle_request, and within its calls of              *)
(* forward_request: what is left to show is where it leads.                *)
LEMMA MoveKeeps ==
  ASSUME HandlerInv, NEW t \in Thread, NEW from, NEW to \in Pc, Goes(t, from, to),
         UNCHANGED <<origin, request, client_validator, cached_response, processed,
                     answer, result, alive>>,
         response' \in [Thread -> HttpResponse \cup {NoResponse}],
         upstream' \in [Thread -> BOOLEAN],
         \A s \in Thread \ {t} : response'[s] = response[s] /\ upstream'[s] = upstream[s],
         InHand(t)', MethodOfPlace(t)', Processing(t)', SocketInUse(t)'
  PROVE  StepOf(t)
<1>1. HandlerTypes'
  BY DEF Goes, HandlerInv, HandlerTypes
<1>2. Answered(t)' /\ Made(t)'
  <2>1. Unasked(t)
    BY DEF Unasked
  <2> QED
    BY <2>1, UnaskedKeeps DEF Answered, HandlerInv, ThreadInv
<1> QED
  BY <1>1, <1>2 DEF StepOf, ThreadInv, Same, Goes, HandlerInv, HandlerTypes

(* The two calls of forward_request. *)
Calls == {<<"validate", "validating", "validated">>, <<"forward", "forwarding", "reply">>}

LEMMA ConnectsKeeps ==
  ASSUME HandlerInv, NEW t \in Thread, NEW c \in Calls, Connects(t, c[1], c[2])
  PROVE  StepOf(t)
<1> USE DEF Connects, Goes, HandlerInv, HandlerTypes, Calls
<1>1. /\ pc[t] = c[1] /\ pc'[t] = c[2]
      /\ response'[t] = NoResponse /\ upstream'[t] = TRUE
  OBVIOUS
<1>2. ThreadInv(t) /\ Unasked(t)
  BY DEF Unasked
<1>3. InHand(t)'
  BY <1>1, <1>2, UnaskedKeeps DEF InHand, ThreadInv
<1>4. MethodOfPlace(t)' /\ SocketInUse(t)'
  BY <1>1, <1>2 DEF MethodOfPlace, SocketInUse, ThreadInv
<1>5. Processing(t)'
  BY <1>1, <1>2 DEF Processing, ThreadInv
<1>6. /\ UNCHANGED <<origin, request, client_validator, cached_response, processed,
                     answer, result, alive>>
      /\ response' \in [Thread -> HttpResponse \cup {NoResponse}]
      /\ upstream' \in [Thread -> BOOLEAN]
      /\ \A s \in Thread \ {t} : response'[s] = response[s] /\ upstream'[s] = upstream[s]
  BY Types
<1>7. c[2] \in Pc /\ Goes(t, c[1], c[2])
  BY DEF Pc
<1> HIDE DEF Connects, Goes, HandlerInv, HandlerTypes
<1> QED
  BY <1>3, <1>4, <1>5, <1>6, <1>7, MoveKeeps

LEMMA ConnectFailsKeeps ==
  ASSUME HandlerInv, NEW t \in Thread, NEW c \in Calls, ConnectFails(t, c[1], c[3])
  PROVE  StepOf(t)
<1> USE DEF ConnectFails, Goes, HandlerInv, HandlerTypes, Calls
<1>1. /\ pc[t] = c[1] /\ pc'[t] = c[3]
      /\ response'[t] = BadGateway /\ UNCHANGED upstream
  OBVIOUS
<1>2. ThreadInv(t) /\ Unasked(t)
  BY DEF Unasked
<1>3. InHand(t)'
  BY <1>1, <1>2, UnaskedKeeps DEF InHand, ThreadInv
<1>4. MethodOfPlace(t)' /\ SocketInUse(t)'
  BY <1>1, <1>2 DEF MethodOfPlace, SocketInUse, ThreadInv
<1>5. Processing(t)'
  BY <1>1, <1>2 DEF Processing, ThreadInv
<1>6. /\ UNCHANGED <<origin, request, client_validator, cached_response, processed,
                     answer, result, alive>>
      /\ response' \in [Thread -> HttpResponse \cup {NoResponse}]
      /\ upstream' \in [Thread -> BOOLEAN]
      /\ \A s \in Thread \ {t} : response'[s] = response[s] /\ upstream'[s] = upstream[s]
  BY Types
<1>7. c[3] \in Pc /\ Goes(t, c[1], c[3])
  BY DEF Pc
<1> HIDE DEF ConnectFails, Goes, HandlerInv, HandlerTypes
<1> QED
  BY <1>3, <1>4, <1>5, <1>6, <1>7, MoveKeeps

LEMMA ReceivesKeeps ==
  ASSUME HandlerInv, NEW t \in Thread, NEW c \in Calls,
         Receives(t, c[2], c[3]) \/ ReceiveFails(t, c[2], c[3])
  PROVE  StepOf(t)
<1> USE DEF Receives, ReceiveFails, Goes, HandlerInv, HandlerTypes, Calls
<1>1. /\ pc[t] = c[2] /\ pc'[t] = c[3] /\ upstream'[t] = FALSE
      /\ \/ response'[t] = BadGateway
         \/ response'[t] = response[t] /\ response[t] # NoResponse
  OBVIOUS
<1>2. ThreadInv(t) /\ Unasked(t)
  BY DEF Unasked
<1>3. InHand(t)'
  BY <1>1, <1>2, UnaskedKeeps DEF InHand, ThreadInv
<1>4. MethodOfPlace(t)' /\ SocketInUse(t)'
  BY <1>1, <1>2 DEF MethodOfPlace, SocketInUse, ThreadInv
<1>5. Processing(t)'
  BY <1>1, <1>2 DEF Processing, ThreadInv
<1>6. /\ UNCHANGED <<origin, request, client_validator, cached_response, processed,
                     answer, result, alive>>
      /\ response' \in [Thread -> HttpResponse \cup {NoResponse}]
      /\ upstream' \in [Thread -> BOOLEAN]
      /\ \A s \in Thread \ {t} : response'[s] = response[s] /\ upstream'[s] = upstream[s]
  <2>1. CASE Receives(t, c[2], c[3])
    BY <2>1
  <2>2. CASE ReceiveFails(t, c[2], c[3])
    BY <2>2, Types
  <2> QED
    BY <2>1, <2>2
<1>7. c[3] \in Pc /\ Goes(t, c[2], c[3])
  BY DEF Pc
<1> HIDE DEF Receives, ReceiveFails, Goes, HandlerInv, HandlerTypes
<1> QED
  BY <1>3, <1>4, <1>5, <1>6, <1>7, MoveKeeps

LEMMA ForwardRequestKeeps ==
  ASSUME HandlerInv, NEW t \in Thread, NEW c \in Calls,
         ForwardRequest(t, c[1], c[2], c[3])
  PROVE  StepOf(t)
<1>1. CASE ParseThrows(t, c[2])
  BY <1>1, SilentReturnKeeps DEF ParseThrows, Calls, Pc
<1> QED
  BY <1>1, ConnectsKeeps, ConnectFailsKeeps, ReceivesKeeps DEF ForwardRequest

(* The two tests that only decide where to go on.                          *)
LEMMA ValidatedKeeps ==
  ASSUME HandlerInv, NEW t \in Thread, Validated(t) \/ IsInCache(t)
  PROVE  StepOf(t)
<1> USE DEF Validated, IsInCache, Goes, HandlerInv, HandlerTypes, local_vars
<1>1. /\ \/ pc[t] = "validated" /\ pc'[t] \in {"reply_cached", "forward"}
         \/ pc[t] = "is_in_cache" /\ pc'[t] \in {"get_cached_response", "forward"}
      /\ UNCHANGED <<response, upstream, cached_response, processed, request>>
  OBVIOUS
<1>2. ThreadInv(t) /\ Unasked(t)
  BY DEF Unasked
<1>3. InHand(t)'
  BY <1>1, <1>2, UnaskedKeeps DEF InHand, ThreadInv
<1>4. MethodOfPlace(t)' /\ SocketInUse(t)'
  BY <1>1, <1>2 DEF MethodOfPlace, SocketInUse, ThreadInv
<1>5. Processing(t)'
  <2>1. /\ processed[t] \in Nat /\ processed'[t] = processed[t]
        /\ request'[t] = request[t]
        /\ Processing(t) /\ MethodOfPlace(t)
    BY <1>1, <1>2 DEF ThreadInv
  <2> HIDE DEF Validated, IsInCache, Goes, HandlerInv, HandlerTypes, local_vars
  <2>2. request[t].method = "GET"
    BY <1>1, <2>1 DEF MethodOfPlace
  <2>3. CASE pc[t] = "validated"
    BY <1>1, <2>1, <2>2, <2>3 DEF Processing
  <2>4. CASE pc[t] = "is_in_cache"
    BY <1>1, <2>1, <2>2, <2>4 DEF Processing
  <2> QED
    BY <1>1, <2>3, <2>4
<1>6. /\ UNCHANGED <<origin, request, client_validator, cached_response, processed,
                     answer, result, alive>>
      /\ response' \in [Thread -> HttpResponse \cup {NoResponse}]
      /\ upstream' \in [Thread -> BOOLEAN]
      /\ \A s \in Thread \ {t} : response'[s] = response[s] /\ upstream'[s] = upstream[s]
  <2>1. CASE Validated(t)
    BY <2>1
  <2>2. CASE IsInCache(t)
    BY <2>2
  <2> QED
    BY <2>1, <2>2
<1>7. \E to \in Pc : Goes(t, pc[t], to)
  BY DEF Pc
<1> HIDE DEF Validated, IsInCache, local_vars, Goes, HandlerInv, HandlerTypes
<1> QED
  BY <1>3, <1>4, <1>5, <1>6, <1>7, MoveKeeps

(* What a lookup finds is a page stored under the key looked up.           *)
LEMMA LookupFinds ==
  ASSUME HandlerInv, CacheProofs!CacheInv, NEW url, Cache!Hit(url)
  PROVE  LET x == Cache!Lookup(url).response
         IN  /\ x \in Pages
             /\ x.cache_control \cap {"no-store", "private"} = {}
             /\ \E a \in Asked : ShownBy(a, x) /\ Cache!CacheKey(a[2], x) = url
<1> DEFINE i == Cache!Position(cache_map[url])
<1>1. url \in DOMAIN cache_map
  BY DEF Cache!Hit, Cache!is_in_cache
<1>2. /\ CacheProofs!Position(cache_map[url]) \in 1 .. Len(cache_list)
      /\ cache_list[CacheProofs!Position(cache_map[url])].key = url
  BY <1>1, CacheAssumptions, CacheProofs!PositionFacts
<1>3. DOMAIN cache_list = 1 .. Len(cache_list)
  BY DEF CacheProofs!CacheInv, CacheProofs!TypeOK
<1>4. i \in DOMAIN cache_list /\ cache_list[i].key = url
  BY <1>2, <1>3, SameLookup
<1>5. Cache!Lookup(url) = cache_list[i].entry
  BY DEF Cache!Lookup
<1> HIDE DEF i
<1>6. PICK a \in Asked : \E v \in 1 .. origin[a] :
        /\ cache_list[i].entry.response = Page[a][v]
        /\ cache_list[i].key = Cache!CacheKey(a[2], Page[a][v])
        /\ Page[a][v].cache_control \cap {"no-store", "private"} = {}
  BY <1>4 DEF HandlerInv, CacheHoldsPagesOfItsKeys
<1>7. a \in Site /\ \A v \in 1 .. origin[a] : v \in Version
  <2>1. a \in Site /\ origin[a] \in Version /\ MaxVersion \in Nat
    BY TargetTypes, HandlerAssumption DEF HandlerInv, HandlerTypes
  <2> QED
    BY <2>1 DEF Version
<1>8. PICK v \in Version :
        /\ v \in 1 .. origin[a]
        /\ Cache!Lookup(url).response = Page[a][v]
        /\ url = Cache!CacheKey(a[2], Page[a][v])
        /\ Page[a][v].cache_control \cap {"no-store", "private"} = {}
  BY <1>4, <1>5, <1>6, <1>7
<1>9. /\ ShownBy(a, Cache!Lookup(url).response)
      /\ Cache!Lookup(url).response \in Pages
      /\ Cache!CacheKey(a[2], Cache!Lookup(url).response) = url
  BY <1>7, <1>8, Types DEF ShownBy
<1>10. Cache!Lookup(url).response.cache_control \cap {"no-store", "private"} = {}
  BY <1>8
<1> QED
  BY <1>9, <1>10, Zenon

LEMMA GetCachedResponseKeeps ==
  ASSUME HandlerInv, CacheProofs!CacheInv, NEW t \in Thread, GetCachedResponse(t)
  PROVE  StepOf(t)
<1> DEFINE url == request[t].url
           copy == Cache!Lookup(url).response
           to == CASE ~Cache!Hit(url) -> "forward"
                   [] Cache!Hit(url) /\ client_validator[t] # NoHeader -> "validate"
                   [] OTHER -> "reply_cached"
<1>1. /\ pc[t] = "get_cached_response" /\ pc' = [pc EXCEPT ![t] = to] /\ alive
      /\ cached_response' =
           [cached_response EXCEPT ![t] = IF Cache!Hit(url) THEN copy ELSE NoResponse]
      /\ request' = IF Cache!Hit(url) /\ client_validator[t] # NoHeader
                    THEN [request EXCEPT ![t].validator = copy.validator]
                    ELSE request
      /\ UNCHANGED <<now, origin, client_validator, response, processed,
                     upstream, answer, result, alive>>
  BY DEF GetCachedResponse, Goes
<1>2. Cache!Hit(url) =>
        /\ copy \in Pages
        /\ copy \in HttpResponse
        /\ copy.cache_control \cap {"no-store", "private"} = {}
        /\ \E a \in Asked : ShownBy(a, copy) /\ Cache!CacheKey(a[2], copy) = url
  BY LookupFinds, Types
<1>3. /\ to \in {"forward", "validate", "reply_cached"}
      /\ to # "forward" => Cache!Hit(url)
      /\ to = "validate" => client_validator[t] # NoHeader
  OBVIOUS
<1>4. Cache!Hit(url) => copy.validator \in Validator \cup {NoHeader}
  BY <1>2 DEF HttpResponse
<1> HIDE DEF copy, to
<1>5. /\ HandlerTypes /\ ThreadInv(t)
      /\ request[t] \in Requests
  BY DEF HandlerInv, HandlerTypes
<1>6. /\ request'[t] \in Requests
      /\ request'[t].method = request[t].method
      /\ request'[t].url = request[t].url
      /\ Target(request'[t]) = Target(request[t])
      /\ client_validator[t] = NoHeader => request'[t] = request[t]
      /\ \A s \in Thread \ {t} : request'[s] = request[s]
      /\ request' \in [Thread -> Requests]
      /\ Made(t)'
  <2>1. CASE UNCHANGED request
    BY <1>5, <2>1 DEF HandlerTypes, ThreadInv, Made
  <2>2. CASE /\ Cache!Hit(url) /\ client_validator[t] # NoHeader
             /\ request' = [request EXCEPT ![t].validator = copy.validator]
    <3>1. request'[t] = [request[t] EXCEPT !.validator = copy.validator]
      BY <1>5, <2>2 DEF HandlerTypes
    <3>2. request'[t] \in Requests
      BY <1>4, <1>5, <2>2, <3>1 DEF Requests
    <3>3. \A x : [request'[t] EXCEPT !.validator = x] = [request[t] EXCEPT !.validator = x]
      BY <1>5, <3>1 DEF Requests
    <3>4. Made(t)'
      BY <1>5, <3>3 DEF ThreadInv, Made
    <3>5. /\ request'[t].method = request[t].method /\ request'[t].url = request[t].url
          /\ Target(request'[t]) = Target(request[t])
      BY <1>5, <3>1 DEF Requests, Target
    <3>6. /\ \A s \in Thread \ {t} : request'[s] = request[s]
          /\ request' \in [Thread -> Requests]
      BY <1>5, <2>2, <3>1, <3>2 DEF HandlerTypes
    <3> QED
      BY <2>2, <3>2, <3>4, <3>5, <3>6
  <2> QED
    BY <1>1, <2>1, <2>2
<1>7. /\ pc'[t] = to /\ processed'[t] = processed[t] /\ upstream'[t] = upstream[t]
      /\ answer'[t] = answer[t] /\ client_validator'[t] = client_validator[t]
      /\ processed[t] = 0 /\ processed[t] \in Nat
      /\ request[t].method = "GET"
      /\ to # "forward" => cached_response'[t] = copy
  BY <1>1, <1>3, <1>5 DEF HandlerTypes, ThreadInv, Processing, MethodOfPlace
<1>8. HandlerTypes'
  <2>1. to \in Pc
    BY <1>3 DEF Pc
  <2> QED
    BY <1>1, <1>2, <1>5, <1>6, <2>1 DEF HandlerTypes
<1>9. \A u, x : ShownBy(u, x)' <=> ShownBy(u, x)
  BY <1>1 DEF ShownBy
<1>10. InHand(t)'
  <2>1. to # "forward" => FromCache(t, cached_response[t])'
    BY <1>2, <1>3, <1>6, <1>7, <1>9 DEF FromCache
  <2>2. pc'[t] \in {"forward", "validate", "reply_cached"}
    BY <1>3, <1>7
  <2> QED
    BY <1>7, <2>1, <2>2 DEF InHand
<1>11. MethodOfPlace(t)'
  BY <1>1, <1>3, <1>5, <1>6, <1>7 DEF MethodOfPlace, ThreadInv
<1>12. Processing(t)'
  BY <1>3, <1>6, <1>7 DEF Processing
<1>13. SocketInUse(t)'
  BY <1>1, <1>3, <1>5, <1>7 DEF SocketInUse, ThreadInv
<1>14. Answered(t)'
  BY <1>5, <1>6, <1>7, <1>9 DEF Answered, ThreadInv, FromOrigin, FromCache
<1>15. \A s \in Thread \ {t} : Same(s)
  BY <1>1, <1>5, <1>6 DEF Same, HandlerTypes
<1> QED
  BY <1>1, <1>6, <1>8, <1>10, <1>11, <1>12, <1>13, <1>14, <1>15 DEF StepOf, ThreadInv

(* The one step in which the origin works on the request.                  *)
LEMMA OriginAnswersKeeps ==
  ASSUME HandlerInv, NEW t \in Thread, OriginAnswers(t)
  PROVE  StepOf(t)
<1> DEFINE r == request[t]
           a == Target(r)
           page == IF r.method = "GET" THEN Page[a][origin[a]] ELSE PostPage[a]
           said == IF /\ r.method = "GET"
                      /\ page.validator # NoHeader
                      /\ r.validator = page.validator
                   THEN NotModified(page.validator)
                   ELSE page
<1>1. /\ pc[t] \in {"validating", "forwarding"} /\ response[t] = NoResponse
      /\ response' = [response EXCEPT ![t] = said]
      /\ processed' = [processed EXCEPT ![t] = @ + 1]
      /\ UNCHANGED <<origin, pc, request, client_validator, cached_response,
                     upstream, answer, result, alive>>
  BY DEF OriginAnswers
<1>2. HandlerTypes /\ ThreadInv(t) /\ processed[t] \in Nat /\ a \in Site
  BY TargetTypes DEF HandlerInv, HandlerTypes
<1>3. /\ origin[a] \in 1 .. origin[a]
      /\ origin[a] \in Version
  <2>1. origin[a] \in Version /\ MaxVersion \in Nat
    BY <1>2, HandlerAssumption DEF HandlerTypes
  <2> QED
    BY <2>1 DEF Version
<1>4. page \in HttpResponse
  BY <1>2, <1>3, Types
<1>5. page.validator # NoHeader => page.validator \in Validator
  BY <1>4 DEF HttpResponse
<1>6. said \in HttpResponse
  BY <1>4, <1>5, Types
<1>7. /\ processed'[t] = processed[t] + 1 /\ response'[t] = said
      /\ said # NoResponse
  BY <1>1, <1>2, <1>6, Types DEF HandlerTypes
<1>8. /\ r.method = "GET" =>
           \/ ShownBy(a, said)
           \/ /\ client_validator[t] # NoHeader
              /\ \E v \in Validator : said = NotModified(v)
      /\ r.method # "GET" => said = PostPage[a]
  <2>1. r.method = "GET" => ShownBy(a, page)
    BY <1>3 DEF ShownBy
  <2>2. r.validator # NoHeader => client_validator[t] # NoHeader
    BY <1>1, <1>2 DEF ThreadInv, MethodOfPlace
  <2> QED
    BY <1>5, <2>1, <2>2
<1> HIDE DEF said, page
<1>9. HandlerTypes'
  BY <1>1, <1>2, <1>6 DEF HandlerTypes
<1>10. \A b, x : ShownBy(b, x)' <=> ShownBy(b, x)
  BY <1>1 DEF ShownBy
<1>11. FromOrigin(t, response[t])'
  BY <1>1, <1>2, <1>7, <1>8, <1>10 DEF FromOrigin
<1>12. InHand(t)'
  <2>1. FromCache(t, cached_response[t]) => FromCache(t, cached_response[t])'
    BY <1>1, <1>10 DEF FromCache
  <2> QED
    BY <1>1, <1>2, <1>11, <2>1 DEF InHand, ThreadInv
<1>13. MethodOfPlace(t)'
  BY <1>1, <1>2 DEF MethodOfPlace, ThreadInv
<1>14. Processing(t)'
  BY <1>1, <1>2, <1>7 DEF Processing, MethodOfPlace, ThreadInv
<1>15. SocketInUse(t)'
  BY <1>1, <1>2 DEF SocketInUse, ThreadInv
<1>16. Answered(t)'
  <2>1. \A x : FromCache(t, x) => FromCache(t, x)'
    BY <1>1, <1>10 DEF FromCache
  <2>2. \A x : FromOrigin(t, x) => FromOrigin(t, x)'
    BY <1>1, <1>2, <1>7, <1>10 DEF FromOrigin
  <2> QED
    BY <1>1, <1>2, <2>1, <2>2 DEF Answered, ThreadInv
<1>17. Made(t)'
  BY <1>1, <1>2 DEF Made, ThreadInv
<1>18. \A s \in Thread \ {t} : Same(s)
  BY <1>1, <1>2 DEF Same, HandlerTypes
<1> QED
  BY <1>1, <1>9, <1>12, <1>13, <1>14, <1>15, <1>16, <1>17, <1>18 DEF StepOf, ThreadInv

LEMMA MadeUpIsNotCacheable ==
  ~is_cacheable(BadGateway) /\ \A v : ~is_cacheable(NotModified(v))
<1>1. BadGateway.status = "502 Bad Gateway"
  BY DEF BadGateway, MadeUp
<1>2. \A v : NotModified(v).status = "304 Not Modified"
  BY DEF NotModified, MadeUp
<1> QED
  BY <1>1, <1>2 DEF is_cacheable

LEMMA ReplyKeeps ==
  ASSUME HandlerInv, NEW t \in Thread, Reply(t)
  PROVE  StepOf(t)
<1>1. /\ HandlerTypes /\ ThreadInv(t) /\ pc[t] = "reply"
      /\ answer' = [answer EXCEPT ![t] = response[t]]
      /\ UNCHANGED <<origin, request, client_validator, processed, upstream, alive>>
  BY DEF HandlerInv, Reply
<1>2. Unasked(t)
  BY <1>1 DEF Unasked
<1>3. /\ answer' \in [Thread -> HttpResponse \cup {NoResponse}]
      /\ \A s \in Thread \ {t} : answer'[s] = answer[s]
      /\ answer'[t] = response[t]
  BY <1>1 DEF HandlerTypes
<1>4. Answered(t)'
  <2>1. response[t] = BadGateway \/ FromOrigin(t, response[t])
    BY <1>1 DEF ThreadInv, InHand
  <2>2. BadGateway' = BadGateway
    OBVIOUS
  <2>3. CASE response[t] = BadGateway
    BY <1>3, <2>3 DEF Answered
  <2>4. CASE FromOrigin(t, response[t])
    <3>1. FromOrigin(t, answer[t])'
      BY <1>2, <1>3, <2>4 DEF Unasked, FromOrigin, ShownBy
    <3> QED
      BY <3>1 DEF Answered
  <2> QED
    BY <2>1, <2>3, <2>4
<1>5. CASE /\ request[t].method = "GET" /\ is_cacheable(response[t])
           /\ Goes(t, "reply", "store")
           /\ UNCHANGED <<cached_response, response, result>>
  <2>1. HandlerTypes'
    BY <1>1, <1>3, <1>5 DEF HandlerTypes, Goes, Pc
  <2>2. /\ pc'[t] = "store" /\ response'[t] = response[t] /\ request'[t] = request[t]
        /\ client_validator'[t] = client_validator[t]
        /\ processed'[t] = processed[t] /\ upstream'[t] = upstream[t]
        /\ \A s \in Thread \ {t} : pc'[s] = pc[s]
    BY <1>1, <1>5 DEF HandlerTypes, Goes
  <2>3. ShownBy(Target(request[t]), response[t])
    <3>1. /\ response[t] # BadGateway
          /\ \A v \in Validator : response[t] # NotModified(v)
      BY <1>5, MadeUpIsNotCacheable
    <3> QED
      BY <1>1, <1>5, <3>1 DEF ThreadInv, InHand, FromOrigin
  <2>4. InHand(t)'
    BY <1>2, <1>5, <2>2, <2>3, UnaskedKeeps DEF InHand, is_cacheable
  <2>5. MethodOfPlace(t)' /\ SocketInUse(t)'
    BY <1>1, <1>5, <2>2 DEF MethodOfPlace, SocketInUse, ThreadInv
  <2>6. Processing(t)'
    BY <1>1, <2>2 DEF Processing, ThreadInv
  <2>7. Made(t)'
    BY <1>2, UnaskedKeeps
  <2>8. \A s \in Thread \ {t} : Same(s)
    BY <1>1, <1>3, <1>5, <2>2 DEF Same
  <2> QED
    BY <1>1, <1>4, <2>1, <2>4, <2>5, <2>6, <2>7, <2>8 DEF StepOf, ThreadInv
<1>6. CASE Returns(t, "reply", "0")
  <2>1. "reply" \in Pc \ {"idle"} /\ "reply" \notin {"validating", "forwarding"}
    BY DEF Pc
  <2> QED
    BY <1>1, <1>3, <1>4, <1>6, <2>1, ReturnKeeps
<1> QED
  BY <1>5, <1>6 DEF Reply

-----------------------------------------------------------------------------
(* The contents of the cache. *)

Fits(node) ==
  \E a \in Asked : \E v \in 1 .. origin[a] :
    /\ node.entry.response = Page[a][v]
    /\ node.key = Cache!CacheKey(a[2], Page[a][v])
    /\ Page[a][v].cache_control \cap {"no-store", "private"} = {}

LEMMA ContentsAreASequence ==
  ASSUME CacheProofs!CacheInv
  PROVE  CacheHoldsPagesOfItsKeys
           <=> cache_list \in Seq({n \in CacheProofs!ListNode : Fits(n)})
<1>1. cache_list \in Seq(CacheProofs!ListNode)
  BY DEF CacheProofs!CacheInv, CacheProofs!TypeOK
<1>2. CacheHoldsPagesOfItsKeys <=> \A i \in DOMAIN cache_list : Fits(cache_list[i])
  BY DEF CacheHoldsPagesOfItsKeys, Fits
<1> QED
  BY <1>1, <1>2

LEMMA SameContents ==
  ASSUME CacheHoldsPagesOfItsKeys, UNCHANGED cache_list, HandlerTypes,
         origin' \in [Site -> Version], \A a \in Site : origin[a] <= origin'[a]
  PROVE  CacheHoldsPagesOfItsKeys'
<1>1. \A a \in Asked : 1 .. origin[a] \subseteq 1 .. origin'[a]
  BY TargetTypes DEF HandlerTypes, Version
<1>2. \A n : Fits(n) => Fits(n)'
  BY <1>1 DEF Fits
<1>3. \A i \in DOMAIN cache_list : Fits(cache_list[i])
  BY DEF CacheHoldsPagesOfItsKeys, Fits
<1>4. \A i \in DOMAIN cache_list' : Fits(cache_list[i])' 
  BY <1>2, <1>3
<1> QED
  BY <1>4 DEF CacheHoldsPagesOfItsKeys, Fits

LEMMA LookupKeepsContents ==
  ASSUME HandlerInv, CacheProofs!CacheInv, UNCHANGED origin,
         NEW url, Cache!get_cached_response(url)
  PROVE  CacheHoldsPagesOfItsKeys'
<1> DEFINE S == {n \in CacheProofs!ListNode : Fits(n)}
           p == CacheProofs!Position(cache_map[url])
<1>1. cache_list \in Seq(S)
  BY ContentsAreASequence DEF HandlerInv
<1>2. cache_list' \in Seq(S)
  <2>1. CASE Cache!Hit(url)
    <3>1. url \in DOMAIN cache_map
      BY <2>1 DEF Cache!Hit, Cache!is_in_cache
    <3>2. p \in 1 .. Len(cache_list)
      BY <3>1, CacheAssumptions, CacheProofs!PositionFacts
    <3>3. cache_list' = CacheProofs!MoveToFront(cache_list, p)
      BY <2>1, SameGet, SameLookup DEF CacheProofs!get_cached_response
    <3> HIDE DEF S, p
    <3>4. CacheProofs!MoveToFront(cache_list, p) \in Seq(S)
      BY <1>1, <3>2, CacheAssumptions, CacheProofs!MoveToFrontFacts
    <3> QED
      BY <3>3, <3>4
  <2>2. CASE ~Cache!Hit(url)
    BY <1>1, <2>2 DEF Cache!get_cached_response
  <2> QED
    BY <2>1, <2>2
<1>3. \A i \in DOMAIN cache_list' : cache_list'[i] \in S
  <2> HIDE DEF S
  <2> QED
    BY <1>2
<1>4. \A i \in DOMAIN cache_list' : Fits(cache_list'[i])
  BY <1>3
<1> QED
  BY <1>4 DEF CacheHoldsPagesOfItsKeys, Fits

LEMMA StoreKeepsContents ==
  ASSUME HandlerInv, CacheProofs!CacheInv, NEW t \in Thread, Store(t)
  PROVE  CacheHoldsPagesOfItsKeys'
<1> DEFINE url == request[t].url
           r == response[t]
<1>1. /\ pc[t] = "store" /\ UNCHANGED origin
      /\ Cache!store_response(url, r)
  BY DEF Store, Returns, Goes
<1> DEFINE a == Target(request[t])
<1>2. is_cacheable(r) /\ ShownBy(a, r) /\ a \in Asked /\ url = a[2]
  <2>1. is_cacheable(r) /\ ShownBy(a, r)
    BY <1>1 DEF HandlerInv, ThreadInv, InHand
  <2>2. a \in Asked
    BY <1>1, GetIsAsked DEF HandlerInv, ThreadInv, MethodOfPlace
  <2>3. url = a[2]
    BY DEF Target
  <2> QED
    BY <2>1, <2>2, <2>3
<1>3. PICK it \in Node : Cache!Insert(Cache!CacheKey(url, r), r, it)
  BY <1>1, <1>2 DEF Cache!store_response, Cache!is_cacheable, is_cacheable
<1> DEFINE new == [it |-> it, key |-> Cache!CacheKey(url, r),
                   entry |-> [response |-> r, expiry_time |-> Cache!get_expiry_time(r)]]
           S == {n \in CacheProofs!ListNode \cup {new} : Fits(n)}
<1>4. cache_list' = Cache!Cons(new, Cache!ListAfterEviction)
  BY <1>3 DEF Cache!Insert
<1>5. Fits(new)
  <2> HIDE DEF a, url, r
  <2>1. PICK v \in 1 .. origin[a] : r = Page[a][v]
    BY <1>2 DEF ShownBy
  <2> QED
    BY <1>2, <2>1 DEF Fits, is_cacheable
<1> HIDE DEF new
<1>6. new \in S
  BY <1>5
<1>7. cache_list \in Seq(S)
  <2>1. cache_list \in Seq(CacheProofs!ListNode)
    BY DEF CacheProofs!CacheInv, CacheProofs!TypeOK
  <2>2. \A i \in DOMAIN cache_list : Fits(cache_list[i])
    BY DEF HandlerInv, CacheHoldsPagesOfItsKeys, Fits
  <2> QED
    BY <2>1, <2>2
<1> HIDE DEF S
<1>8. Cache!ListAfterEviction \in Seq(S)
  <2>1. CASE Cache!Full
    <3>1. cache_list # <<>>
      BY <2>1 DEF Cache!Full
    <3>2. CacheProofs!Front(cache_list) \in Seq(S)
      BY <1>7, <3>1, CacheAssumptions, CacheProofs!FrontFacts
    <3> QED
      BY <2>1, <3>2 DEF Cache!ListAfterEviction, Cache!Front, CacheProofs!Front
  <2>2. CASE ~Cache!Full
    BY <1>7, <2>2 DEF Cache!ListAfterEviction
  <2> QED
    BY <2>1, <2>2
<1>9. Cache!Cons(new, Cache!ListAfterEviction) \in Seq(S)
  <2>1. CacheProofs!Cons(new, Cache!ListAfterEviction) \in Seq(S)
    BY <1>6, <1>8, CacheAssumptions, CacheProofs!ConsFacts
  <2> QED
    BY <2>1 DEF Cache!Cons, CacheProofs!Cons
<1>10. \A i \in DOMAIN cache_list' : cache_list'[i] \in S
  BY <1>4, <1>9
<1>11. \A i \in DOMAIN cache_list' : Fits(cache_list'[i])
  BY <1>10 DEF S
<1> QED
  BY <1>1, <1>11 DEF CacheHoldsPagesOfItsKeys, Fits

-----------------------------------------------------------------------------
(* Each step is one of the cache or leaves it alone. *)
LEMMA CacheStep == HandlerInv /\ [Next]_vars => [Cache!Next]_(Cache!vars)
<1> SUFFICES ASSUME HandlerInv, [Next]_vars PROVE [Cache!Next]_(Cache!vars)
  OBVIOUS
<1>1. ASSUME cache_unchanged PROVE UNCHANGED Cache!vars
  BY <1>1 DEF cache_unchanged, Cache!vars
<1>2. ASSUME NEW t \in Thread, GetCachedResponse(t) PROVE Cache!Next
  <2>1. Cache!get_cached_response(request[t].url) /\ UNCHANGED now
    BY <1>2 DEF GetCachedResponse
  <2>2. request[t].url \in Url
    BY DEF HandlerInv, HandlerTypes, Requests
  <2> QED
    BY <2>1, <2>2 DEF Cache!Next
<1>3. ASSUME NEW t \in Thread, Store(t) PROVE Cache!Next
  <2>1. Cache!store_response(request[t].url, response[t]) /\ UNCHANGED now
    BY <1>3 DEF Store
  <2>2. /\ request[t].url \in Url /\ Target(request[t]) \in Site
        /\ ShownBy(Target(request[t]), response[t])
    BY <1>3, TargetTypes
       DEF Store, Returns, Goes, HandlerInv, HandlerTypes, ThreadInv, InHand
  <2>3. response[t] \in Pages
    <3>1. origin[Target(request[t])] \in Version /\ MaxVersion \in Nat
      BY <2>2, HandlerAssumption DEF HandlerInv, HandlerTypes
    <3> QED
      BY <2>2, <3>1, Types DEF ShownBy, Version
  <2> QED
    BY <2>1, <2>2, <2>3 DEF Cache!Next
<1>4. ASSUME NEW t \in Thread, Handle(t), ~GetCachedResponse(t), ~Store(t)
      PROVE  cache_unchanged
  BY <1>4 DEF Handle, RejectMalformed, IsInCache, ForwardRequest, Connects, ConnectFails,
              Receives, ReceiveFails, ParseThrows, Validated, ReplyCached, Reply,
              ReplyFails, BrokenPipe, HandleConnect
<1>5. ASSUME NEW t \in Thread, \/ \E r \in Request : Begin(t, r)
                               \/ OriginAnswers(t)
      PROVE  cache_unchanged
  BY <1>5 DEF Begin, OriginAnswers
<1>6. ASSUME NEW a \in Changing, OriginChanges(a) PROVE cache_unchanged
  BY <1>6 DEF OriginChanges
<1>7. CASE Tick
  BY <1>7 DEF Tick, Cache!Next
<1>8. CASE Killed \/ UNCHANGED vars
  BY <1>8 DEF Killed, vars, Cache!vars
<1> QED
  BY <1>1, <1>2, <1>3, <1>4, <1>5, <1>6, <1>7, <1>8 DEF Next

LEMMA BrokenPipeKeeps ==
  ASSUME HandlerInv, NEW t \in Thread, BrokenPipe(t)
  PROVE  HandlerTypes' /\ \A s \in Thread : ThreadInv(s)'
<1>1. HandlerTypes'
  BY DEF BrokenPipe, HandlerInv, HandlerTypes, Pc
<1>2. ASSUME NEW s \in Thread PROVE ThreadInv(s)'
  <2>1. /\ pc'[s] = "idle" /\ upstream'[s] = FALSE /\ answer'[s] = answer[s]
        /\ request'[s] = request[s] /\ processed'[s] = processed[s]
        /\ client_validator'[s] = client_validator[s] /\ UNCHANGED origin
    BY DEF BrokenPipe
  <2>2. ThreadInv(s)
    BY DEF HandlerInv
  <2>3. InHand(s)' /\ MethodOfPlace(s)' /\ SocketInUse(s)'
    BY <2>1 DEF InHand, MethodOfPlace, SocketInUse
  <2>4. Processing(s)'
    BY <2>1, <2>2 DEF Processing, ThreadInv
  <2>5. Answered(s)' /\ Made(s)'
    BY <2>1, <2>2 DEF Answered, Made, ThreadInv, FromOrigin, FromCache, ShownBy
  <2> QED
    BY <2>3, <2>4, <2>5 DEF ThreadInv
<1> QED
  BY <1>1, <1>2

LEMMA HandleKeeps ==
  ASSUME HandlerInv, CacheProofs!CacheInv, NEW t \in Thread, Handle(t), ~BrokenPipe(t)
  PROVE  StepOf(t)
<1>1. <<"validate", "validating", "validated">> \in Calls
      /\ <<"forward", "forwarding", "reply">> \in Calls
  BY DEF Calls
<1>2. ASSUME ForwardRequest(t, "validate", "validating", "validated") PROVE StepOf(t)
  <2> DEFINE c == <<"validate", "validating", "validated">>
  <2>1. c \in Calls /\ ForwardRequest(t, c[1], c[2], c[3])
    BY <1>1, <1>2
  <2> HIDE DEF c
  <2> QED
    BY <2>1, ForwardRequestKeeps
<1>3. ASSUME ForwardRequest(t, "forward", "forwarding", "reply") PROVE StepOf(t)
  <2> DEFINE c == <<"forward", "forwarding", "reply">>
  <2>1. c \in Calls /\ ForwardRequest(t, c[1], c[2], c[3])
    BY <1>1, <1>3
  <2> HIDE DEF c
  <2> QED
    BY <2>1, ForwardRequestKeeps
<1>4. ASSUME ReplyFails(t) PROVE StepOf(t)
  BY <1>4, SilentReturnKeeps DEF ReplyFails, Pc
<1>5. ASSUME Store(t) PROVE StepOf(t)
  BY <1>5, SilentReturnKeeps DEF Store, Pc
<1> QED
  BY <1>2, <1>3, <1>4, <1>5, RejectMalformedKeeps, ValidatedKeeps, GetCachedResponseKeeps,
     ReplyCachedKeeps, ReplyKeeps, HandleConnectKeeps DEF Handle

LEMMA HandlerInvStep ==
  ASSUME HandlerInv, CacheProofs!CacheInv, [Next]_vars
  PROVE  HandlerInv'
<1>1. ASSUME NEW t \in Thread, StepOf(t), cache_unchanged PROVE HandlerInv'
  <2>1. /\ origin' \in [Site -> Version]
        /\ \A a \in Site : origin[a] <= origin'[a]
    BY <1>1 DEF StepOf, HandlerInv, HandlerTypes, Version
  <2> QED
    BY <1>1, <2>1, StepKeeps, SameContents DEF HandlerInv, cache_unchanged
<1>2. ASSUME NEW t \in Thread, GetCachedResponse(t) PROVE HandlerInv'
  <2>1. StepOf(t)
    BY <1>2, GetCachedResponseKeeps
  <2>2. CacheHoldsPagesOfItsKeys'
    BY <1>2, LookupKeepsContents DEF GetCachedResponse
  <2> QED
    BY <2>1, <2>2, StepKeeps DEF HandlerInv
<1>3. ASSUME NEW t \in Thread, Store(t) PROVE HandlerInv'
  <2>1. StepOf(t)
    BY <1>3, SilentReturnKeeps DEF Store, Pc
  <2>2. CacheHoldsPagesOfItsKeys'
    BY <1>3, StoreKeepsContents
  <2> QED
    BY <2>1, <2>2, StepKeeps DEF HandlerInv
<1>4. ASSUME NEW t \in Thread, BrokenPipe(t) PROVE HandlerInv'
  <2>1. /\ origin' \in [Site -> Version] /\ UNCHANGED cache_list
        /\ \A a \in Site : origin[a] <= origin'[a]
    BY <1>4 DEF BrokenPipe, cache_unchanged, HandlerInv, HandlerTypes, Version
  <2> QED
    BY <1>4, <2>1, BrokenPipeKeeps, SameContents DEF HandlerInv
<1>5. ASSUME NEW t \in Thread, Handle(t) PROVE HandlerInv'
  <2>1. CASE GetCachedResponse(t) \/ Store(t) \/ BrokenPipe(t)
    BY <1>2, <1>3, <1>4, <2>1
  <2>2. CASE ~GetCachedResponse(t) /\ ~Store(t) /\ ~BrokenPipe(t)
    <3>1. cache_unchanged
      BY <1>5, <2>2 DEF Handle, RejectMalformed, IsInCache, ForwardRequest, Connects,
                        ConnectFails, Receives, ReceiveFails, ParseThrows, Validated,
                        ReplyCached, Reply, ReplyFails, HandleConnect
    <3> QED
      BY <1>1, <1>5, <2>2, <3>1, HandleKeeps
  <2> QED
    BY <2>1, <2>2
<1>6. ASSUME NEW t \in Thread, NEW r \in Request, Begin(t, r) PROVE HandlerInv'
  BY <1>1, <1>6, BeginKeeps DEF Begin
<1>7. ASSUME NEW t \in Thread, OriginAnswers(t) PROVE HandlerInv'
  BY <1>1, <1>7, OriginAnswersKeeps DEF OriginAnswers
<1>8. ASSUME NEW a \in Changing, OriginChanges(a) PROVE HandlerInv'
  <2>1. /\ origin' \in [Site -> Version] /\ UNCHANGED cache_list
        /\ \A b \in Site : origin[b] <= origin'[b]
    <3>1. MaxVersion \in Nat /\ a \in Site
      BY HandlerAssumption
    <3> QED
      BY <1>8, <3>1 DEF OriginChanges, cache_unchanged, HandlerInv, HandlerTypes, Version
  <2>2. HandlerTypes' /\ \A t \in Thread : Same(t)
    BY <1>8, <2>1 DEF OriginChanges, HandlerInv, HandlerTypes, Same, local_vars
  <2> QED
    BY <2>1, <2>2, SameKeeps, SameContents DEF HandlerInv
<1>9. CASE Tick \/ Killed \/ UNCHANGED vars
  <2>1. UNCHANGED <<cache_list, origin, pc, local_vars, alive>>
    BY <1>9 DEF Tick, Killed, vars, Cache!Tick, Cache!cache_vars
  <2>2. /\ origin' \in [Site -> Version] /\ UNCHANGED cache_list
        /\ \A a \in Site : origin[a] <= origin'[a]
    BY <2>1 DEF HandlerInv, HandlerTypes, Version
  <2>3. HandlerTypes' /\ \A t \in Thread : Same(t)
    BY <2>1 DEF HandlerInv, HandlerTypes, Same, local_vars
  <2> QED
    BY <2>2, <2>3, SameKeeps, SameContents DEF HandlerInv
<1> QED
  BY <1>5, <1>6, <1>7, <1>8, <1>9 DEF Next

LEMMA InitInv == Init => HandlerInv /\ CacheProofs!CacheInv
<1> SUFFICES ASSUME Init PROVE HandlerInv /\ CacheProofs!CacheInv
  OBVIOUS
<1>1. CacheProofs!CacheInv
  <2>1. CacheProofs!Init
    BY DEF Init, Cache!Init, CacheProofs!Init
  <2> QED
    BY <2>1, CacheAssumptions, CacheProofs!CacheInvInit
<1> DEFINE first == CHOOSE r \in Request : TRUE
<1>2. first \in Request /\ first \in Requests
  BY HandlerAssumption
<1>3. request = [t \in Thread |-> first]
  BY DEF Init
<1> HIDE DEF first
<1>4. HandlerTypes
  <2>1. 1 \in Version
    <3>1. MaxVersion \in Nat \ {0}
      BY HandlerAssumption
    <3> QED
      BY <3>1 DEF Version
  <2> QED
    BY <1>2, <1>3, <2>1 DEF Init, HandlerTypes, Pc
<1>5. CacheHoldsPagesOfItsKeys
  <2>1. cache_list = <<>>
    BY DEF Init, Cache!Init
  <2> QED
    BY <2>1 DEF CacheHoldsPagesOfItsKeys
<1>6. ASSUME NEW t \in Thread PROVE ThreadInv(t)
  <2>1. /\ pc[t] = "idle" /\ processed[t] = 0 /\ upstream[t] = FALSE
        /\ answer[t] = NoResponse
    BY DEF Init
  <2>2. Made(t)
    BY <1>2, <1>3 DEF Made, Requests
  <2> QED
    BY <2>1, <2>2
       DEF ThreadInv, InHand, MethodOfPlace, Processing, SocketInUse, Answered
<1> QED
  BY <1>1, <1>4, <1>5, <1>6 DEF HandlerInv

(* After any interleaving of any number of handlers, origins that change   *)
(* their pages and the clock, each thread's place fits what it has in      *)
(* hand, and the cache's list and map fit each other.                      *)
THEOREM HandlerIsSound == Spec => [](HandlerInv /\ CacheProofs!CacheInv)
<1>1. HandlerInv /\ CacheProofs!CacheInv /\ [Next]_vars
        => (HandlerInv /\ CacheProofs!CacheInv)'
  BY HandlerInvStep, CacheStep, CacheKeeps
<1> QED
  BY <1>1, InitInv, PTL DEF Spec

(* Every run of the handlers is, on the cache's variables, a run of        *)
(* CacheManager: they touch it only through whole operations, with keys    *)
(* and responses it was built for.                                         *)
THEOREM HandlersUseTheCache == Spec => UsesTheCache
<1>1. Init => Cache!Init
  BY DEF Init
<1> QED
  BY <1>1, CacheStep, HandlerIsSound, PTL DEF Spec, UsesTheCache, Cache!Spec

(* The statuses and the body tell what the proxy makes up from what an     *)
(* origin sends.                                                           *)
LEMMA MadeUpFacts ==
  /\ \A x \in {BadGateway, BadRequest, Established} :
       /\ x.status \notin {"200 OK", "304 Not Modified"}
       /\ x.cache_control = {}
       /\ x.body = ErrorBody
  /\ \A v : /\ NotModified(v).status = "304 Not Modified"
            /\ NotModified(v).cache_control = {}
<1>1. /\ BadGateway.status = "502 Bad Gateway"
      /\ BadRequest.status = "400 Bad Request"
      /\ Established.status = "200 Connection Established"
  BY DEF BadGateway, BadRequest, Established, MadeUp
<1>2. \A x \in {BadGateway, BadRequest, Established} :
        x.cache_control = {} /\ x.body = ErrorBody
  <2>1. \A s, v : MadeUp(s, v).cache_control = {} /\ MadeUp(s, v).body = ErrorBody
    BY DEF MadeUp
  <2> QED
    BY <2>1 DEF BadGateway, BadRequest, Established
<1>3. \A v : /\ NotModified(v).status = "304 Not Modified"
            /\ NotModified(v).cache_control = {}
  BY DEF NotModified, MadeUp
<1> QED
  BY <1>1, <1>2, <1>3

LEMMA ShownIsAPage ==
  ASSUME HandlerInv, NEW a \in Site, NEW x, ShownBy(a, x)
  PROVE  \E v \in Version : x = Page[a][v]
<1>1. origin[a] \in Version /\ MaxVersion \in Nat
  BY HandlerAssumption DEF HandlerInv, HandlerTypes
<1> QED
  BY <1>1 DEF ShownBy, Version

(* Where an answer can have come from. *)
LEMMA AnswerComesFrom ==
  ASSUME HandlerInv, NEW t \in Thread, answer[t] # NoResponse
  PROVE  /\ request[t].url \in Url /\ Target(request[t]) \in Site
         /\ \/ answer[t] \in {BadGateway, BadRequest}
            \/ answer[t] = Established /\ request[t].method = "CONNECT"
            \/ FromOrigin(t, answer[t])
            \/ FromCache(t, answer[t])
BY TargetTypes DEF HandlerInv, HandlerTypes, ThreadInv, Answered

(* The cache holds nothing but pages an origin has shown in answer to a    *)
(* GET, under their own keys, and none that may not be shared.             *)
THEOREM CacheContentsAreRight == Spec => []CacheHoldsPagesOfItsKeys
<1>1. HandlerInv => CacheHoldsPagesOfItsKeys
  BY DEF HandlerInv
<1> QED
  BY <1>1, HandlerIsSound, PTL

(* forward_request closes its socket on every path but an exception.       *)
THEOREM UpstreamSocketsAreClosed == Spec => []UpstreamIsClosed
<1>1. HandlerInv => UpstreamIsClosed
  BY DEF HandlerInv, ThreadInv, SocketInUse, UpstreamIsClosed
<1> QED
  BY <1>1, HandlerIsSound, PTL

(* No POST reaches its origin twice, and none is answered unprocessed.     *)
THEOREM PostsAreProcessedOnce == Spec => []PostIsProcessedOnce
<1>1. ASSUME HandlerInv, NEW t \in Thread, request[t].method = "POST"
      PROVE  /\ processed[t] <= 1
             /\ answer[t] = PostPage[Target(request[t])] => processed[t] = 1
  <2>1. /\ Target(request[t]) \in Site /\ Processing(t)
        /\ processed[t] \in Nat
    BY <1>1, TargetTypes DEF HandlerInv, HandlerTypes, ThreadInv
  <2>2. processed[t] <= 1
    BY <1>1, <2>1 DEF Processing
  <2>3. ASSUME answer[t] = PostPage[Target(request[t])] PROVE processed[t] = 1
    <3>1. /\ PostPage[Target(request[t])].body # ErrorBody
          /\ PostPage[Target(request[t])] # NoResponse
      BY <2>1, Types, HandlerAssumption
    <3>2. FromOrigin(t, answer[t])
      BY <1>1, <2>3, <3>1, AnswerComesFrom, MadeUpFacts DEF FromCache
    <3> QED
      BY <2>1, <2>2, <3>2 DEF FromOrigin
  <2> QED
    BY <2>2, <2>3
<1>2. HandlerInv => PostIsProcessedOnce
  BY <1>1 DEF PostIsProcessedOnce
<1> QED
  BY <1>2, HandlerIsSound, PTL

(* A private page is only ever the answer to a request of one's own.       *)
THEOREM PrivatePagesStayPrivate == Spec => []PrivatePagesAreNotShared
<1>1. ASSUME HandlerInv, NEW t \in Thread, answer[t] # NoResponse,
             answer[t].cache_control \cap {"no-store", "private"} # {}
      PROVE  processed[t] > 0
  BY <1>1, AnswerComesFrom, MadeUpFacts DEF FromOrigin, FromCache
<1>2. HandlerInv => PrivatePagesAreNotShared
  BY <1>1 DEF PrivatePagesAreNotShared
<1> QED
  BY <1>2, HandlerIsSound, PTL

(* No client without a validator is told that its copy is still good.      *)
THEOREM NotModifiedIsAskedFor == Spec => []NotModifiedOnlyIfAsked
<1>1. ASSUME HandlerInv, NEW t \in Thread, answer[t] # NoResponse,
             answer[t].status = "304 Not Modified"
      PROVE  client_validator[t] # NoHeader
  <2>1. ASSUME NEW a \in Site, NEW x, ShownBy(a, x) PROVE x.status # "304 Not Modified"
    <3>1. PICK v \in Version : x = Page[a][v]
      BY <1>1, <2>1, ShownIsAPage
    <3> QED
      BY <3>1, HandlerAssumption
  <2>2. \A a \in Site : PostPage[a].status # "304 Not Modified"
    BY HandlerAssumption
  <2> QED
    BY <1>1, <2>1, <2>2, AnswerComesFrom, MadeUpFacts, TargetTypes DEF FromOrigin, FromCache
<1>2. HandlerInv => NotModifiedOnlyIfAsked
  BY <1>1 DEF NotModifiedOnlyIfAsked
<1> QED
  BY <1>2, HandlerIsSound, PTL

(* No url reads like the key of another: the text "url|vary" of a page     *)
(* with Vary is not itself a url that a client asks for.                   *)
NoCollision == Url \cap (Url \X VaryValue) = {}

(* Under that condition a 200 is a page of the requested url, whatever     *)
(* other threads have done to the cache; a page stored under a text that   *)
(* is also a url would be served to those who ask for that url.  Which     *)
(* host's page it is, is another matter: of a host somebody asks for it.   *)
THEOREM AnswersAreOfTheRequest ==
  ASSUME NoCollision
  PROVE  Spec => []AnswersTheRequest
<1>1. ASSUME HandlerInv, NEW t \in Thread, answer[t] # NoResponse,
             answer[t].status = "200 OK"
      PROVE  IF request[t].method = "GET"
             THEN \E a \in Asked : a[2] = request[t].url /\ ShownBy(a, answer[t])
             ELSE answer[t] = PostPage[Target(request[t])]
  <2>1. ASSUME NEW a \in Asked, ShownBy(a, answer[t]),
               Cache!CacheKey(a[2], answer[t]) = request[t].url
        PROVE  a[2] = request[t].url
    <3>1. answer[t] \in HttpResponse
      <4>0. a \in Site
        BY <2>1, TargetTypes
      <4>1. PICK v \in Version : answer[t] = Page[a][v]
        <5> DEFINE x == answer[t]
        <5>1. HandlerInv /\ ShownBy(a, x)
          BY <1>1, <2>1
        <5> HIDE DEF x
        <5>2. \E v \in Version : x = Page[a][v]
          BY <4>0, <5>1, ShownIsAPage
        <5> QED
          BY <5>2 DEF x
      <4> QED
        BY <4>0, <4>1, Types
    <3>2. answer[t].vary \in VaryValue \cup {NoHeader}
      BY <3>1 DEF HttpResponse
    <3>3. request[t].url \in Url /\ a[2] \in Url
      BY <1>1, AnswerComesFrom, TargetTypes
    <3> QED
      BY <2>1, <3>2, <3>3, NoCollision DEF Cache!CacheKey, NoCollision
  <2>2. FromCache(t, answer[t]) =>
          /\ request[t].method = "GET"
          /\ \E a \in Asked : a[2] = request[t].url /\ ShownBy(a, answer[t])
    BY <2>1 DEF FromCache
  <2>3. FromOrigin(t, answer[t]) =>
          IF request[t].method = "GET" THEN ShownBy(Target(request[t]), answer[t])
          ELSE answer[t] = PostPage[Target(request[t])]
    BY <1>1, MadeUpFacts DEF FromOrigin
  <2>4. FromOrigin(t, answer[t]) \/ FromCache(t, answer[t])
    BY <1>1, AnswerComesFrom, MadeUpFacts
  <2>5. request[t].method = "GET" =>
          Target(request[t]) \in Asked /\ Target(request[t])[2] = request[t].url
    BY <1>1, GetIsAsked DEF HandlerInv, ThreadInv, Target
  <2> QED
    BY <2>2, <2>3, <2>4, <2>5
<1>2. HandlerInv => AnswersTheRequest
  BY <1>1 DEF AnswersTheRequest
<1> QED
  BY <1>2, HandlerIsSound, PTL

(* No two hosts are asked for one url: urls are absolute and name the host *)
(* that the Host header names.                                             *)
OneHostForEachUrl == \A a, b \in Asked : a[2] = b[2] => a = b

(* Under that condition, too, a 200 is a page of the host that the request *)
(* is for.  The code does not check the condition: urls in the form        *)
(* "/path" are accepted and looked up like any other.                      *)
THEOREM AnswersAreOfTheHost ==
  ASSUME NoCollision, OneHostForEachUrl
  PROVE  Spec => []AnswersComeFromTheHost
<1>1. ASSUME HandlerInv, AnswersTheRequest, NEW t \in Thread,
             request[t].method = "GET", answer[t] # NoResponse,
             answer[t].status = "200 OK"
      PROVE  ShownBy(Target(request[t]), answer[t])
  <2>1. PICK a \in Asked : a[2] = request[t].url /\ ShownBy(a, answer[t])
    BY <1>1 DEF AnswersTheRequest
  <2>2. Target(request[t]) \in Asked /\ Target(request[t])[2] = request[t].url
    BY <1>1, GetIsAsked DEF HandlerInv, ThreadInv, Target
  <2>3. a = Target(request[t])
    BY <2>1, <2>2, OneHostForEachUrl DEF OneHostForEachUrl
  <2> QED
    BY <2>1, <2>3
<1>2. HandlerInv /\ AnswersTheRequest => AnswersComeFromTheHost
  BY <1>1 DEF AnswersComeFromTheHost
<1>3. Spec => []AnswersTheRequest
  BY NoCollision, AnswersAreOfTheRequest
<1> QED
  BY <1>2, <1>3, HandlerIsSound, PTL

(* Type correctness; an origin sees a request at most twice.               *)
THEOREM HandlerStateIsTyped == Spec => []TypeOK
<1>1. ASSUME HandlerInv, CacheProofs!CacheInv PROVE TypeOK
  <2>1. Cache!TypeOK
    <3>1. CacheProofs!ListNode = Cache!ListNode
      BY DEF CacheProofs!ListNode, Cache!ListNode, CacheProofs!Key, Cache!Key,
             CacheProofs!CacheEntry, Cache!CacheEntry, CacheProofs!HttpResponse,
             Cache!HttpResponse, CacheProofs!Status, Cache!Status,
             CacheProofs!Directive, Cache!Directive
    <3> QED
      BY <1>1, <3>1, SameTypes DEF CacheProofs!CacheInv, CacheProofs!TypeOK, Cache!TypeOK
  <2>2. ASSUME NEW t \in Thread PROVE processed[t] \in 0 .. 2
    <3>1. processed[t] \in Nat /\ Processing(t)
      BY <1>1 DEF HandlerInv, HandlerTypes, ThreadInv
    <3> QED
      BY <3>1 DEF Processing
  <2>3. ASSUME NEW t \in Thread
        PROVE  \E r \in Request : [request[t] EXCEPT !.validator = r.validator] = r
    BY <1>1 DEF HandlerInv, ThreadInv, Made
  <2> QED
    BY <1>1, <2>1, <2>2, <2>3 DEF HandlerInv, HandlerTypes, TypeOK
<1> QED
  BY <1>1, HandlerIsSound, PTL

=============================================================================
