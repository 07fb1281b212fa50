--------------------------- MODULE RequestHandler ---------------------------
(***************************************************************************)
(* Client threads handling requests side by side (RequestHandler.h/.cpp)   *)
(* over the one cache they share (CacheManager) and origin servers that    *)
(* change their pages as they like and fail when they like.                *)
(*                                                                         *)
(* A thread handles one request after another; each step below is the code *)
(* between two points where another thread, the origin or the client can   *)
(* interfere: a lock, a call on a socket, a send.  An origin's page is a   *)
(* response with the version it shows; a POST is answered by a page of its *)
(* own.  The host of a request is the one its Host header names, and that  *)
(* is where it is sent; the cache knows nothing but the url, so two hosts  *)
(* that are asked for one url share an entry.  What the bytes of a message *)
(* look like is left out: a message that cannot be parsed is a failure of  *)
(* the call that parses it.                                                *)
(***************************************************************************)
EXTENDS HttpResponse

CONSTANTS
  Thread,
  Url, Node, Capacity, Day, MaxTime,   \* CacheManager's
  Host,         \* the origins
  MaxVersion,   \* how often an origin changes a page
  Page,         \* Page[h, u][v]: the answer of h to GET u at version v
  PostPage,     \* PostPage[h, u]: the answer of h to POST u
  Changing,     \* the <<h, u>> whose page changes
  Request,      \* the requests clients make
  ErrorBody,    \* the body of what the proxy makes up itself
  NoResponse    \* the null pointer, and no answer sent

VARIABLES
  cache_map, cache_list, now,   \* CacheManager's
  origin,           \* origin[h, u]: the version that host h shows of u
  pc,               \* where each thread is
  request,          \* the request, validator rewritten when revalidating
  client_validator, \* the validator the client sent
  cached_response,  \* what get_cached_response returned
  response,         \* the response of the origin, or the one made up for it
  processed,        \* how often the origin has worked on this request
  upstream,         \* TRUE while the socket to the origin is open
  answer,           \* the response the client got
  result,           \* how handle_request ended
  alive             \* FALSE once SIGPIPE has killed the process

Version == 1 .. MaxVersion

Site == Host \X Url

Pages == {Page[a][v] : a \in Site, v \in Version}

Requests == [method : {"GET", "POST", "CONNECT"}, url : Url, host : Host,
             validator : Validator \cup {NoHeader}, client_error_code : Nat]

(* A page is complete: 304 is only ever the answer to a validator, and the *)
(* body of what the proxy makes up itself is no origin's.                  *)
ASSUME HandlerAssumption ==
  /\ Capacity \in Nat /\ Day \in Nat /\ MaxTime \in Nat
  /\ HeaderAssumption
  /\ MaxVersion \in Nat \ {0}
  /\ Page \in [Site -> [Version -> HttpResponse]]
  /\ PostPage \in [Site -> HttpResponse]
  /\ Changing \subseteq Site
  /\ \A a \in Site : \A v \in Version : Page[a][v].status # "304 Not Modified"
  /\ \A a \in Site : /\ PostPage[a].status # "304 Not Modified"
                      /\ PostPage[a].body # ErrorBody
  /\ Request \subseteq Requests /\ Request # {}
  /\ ErrorBody \in Body
  /\ NoResponse \notin HttpResponse

(* What a request is for: get_host() says where it is sent. *)
Target(r) == <<r.host, r.url>>

(* What the GETs are for. *)
Asked == {Target(r) : r \in {q \in Request : q.method = "GET"}}

Cache == INSTANCE CacheManager WITH
           Response <- Pages \cup {PostPage[a] : a \in Site}

local_vars == <<request, client_validator, cached_response, response,
                processed, upstream, answer, result>>
vars == <<cache_map, cache_list, now, origin, pc, local_vars, alive>>

cache_unchanged == UNCHANGED <<cache_map, cache_list, now>>

(* What the code puts together without an origin: HttpResponse() and the   *)
(* text sent for a malformed request.  NotModified(v) confirms validator v.*)
MadeUp(status, validator) ==
  [status |-> status, cache_control |-> {}, max_age |-> 0,
   expires |-> NoHeader, vary |-> NoHeader, validator |-> validator,
   body |-> ErrorBody]

BadGateway == MadeUp("502 Bad Gateway", NoHeader)

BadRequest == MadeUp("400 Bad Request", NoHeader)

Established == MadeUp("200 Connection Established", NoHeader)

NotModified(v) == MadeUp("304 Not Modified", v)

Pc == {"idle", "malformed", "is_in_cache", "get_cached_response", "validate",
       "validating", "validated", "reply_cached", "forward", "forwarding",
       "reply", "store", "handle_connect"}

-----------------------------------------------------------------------------
Init ==
  /\ Cache!Init
  /\ origin = [a \in Site |-> 1]
  /\ pc = [t \in Thread |-> "idle"]
  /\ request = [t \in Thread |-> CHOOSE r \in Request : TRUE]
  /\ client_validator = [t \in Thread |-> NoHeader]
  /\ cached_response = [t \in Thread |-> NoResponse]
  /\ response = [t \in Thread |-> NoResponse]
  /\ processed = [t \in Thread |-> 0]
  /\ upstream = [t \in Thread |-> FALSE]
  /\ answer = [t \in Thread |-> NoResponse]
  /\ result = [t \in Thread |-> "0"]
  /\ alive = TRUE

Goes(t, from, to) ==
  /\ alive
  /\ pc[t] = from
  /\ pc' = [pc EXCEPT ![t] = to]

(* handle_request is over with result r.  What only the next request would *)
(* overwrite is forgotten.                                                 *)
Returns(t, from, r) ==
  /\ Goes(t, from, "idle")
  /\ result' = [result EXCEPT ![t] = r]
  /\ cached_response' = [cached_response EXCEPT ![t] = NoResponse]
  /\ response' = [response EXCEPT ![t] = NoResponse]

(* handle_request up to its first look at anything shared.  A socket left  *)
(* open by an earlier request stays so; it is not this request's.          *)
Begin(t, r) ==
  /\ Goes(t, "idle", CASE r.client_error_code # 0 -> "malformed"
                       [] r.client_error_code = 0 /\ r.method = "GET"
                            -> "is_in_cache"
                       [] r.client_error_code = 0 /\ r.method = "CONNECT"
                            -> "handle_connect"
                       [] OTHER -> "forward")
  /\ request' = [request EXCEPT ![t] = r]
  /\ client_validator' = [client_validator EXCEPT ![t] = r.validator]
  /\ processed' = [processed EXCEPT ![t] = 0]
  /\ upstream' = [upstream EXCEPT ![t] = FALSE]
  /\ answer' = [answer EXCEPT ![t] = NoResponse]
  /\ UNCHANGED <<origin, cached_response, response, result, alive>>
  /\ cache_unchanged

(* The result of this send is not looked at. *)
RejectMalformed(t) ==
  /\ Returns(t, "malformed", "-1")
  /\ \/ answer' = [answer EXCEPT ![t] = BadRequest]
     \/ UNCHANGED answer
  /\ UNCHANGED <<origin, request, client_validator, processed, upstream, alive>>
  /\ cache_unchanged

(* Seeded fault: the test drops an expired entry, but from the map alone. *)
IsInCacheAndLive(t) ==
  LET url == request[t].url
      live == Cache!Hit(url)
  IN  /\ Goes(t, "is_in_cache", IF live THEN "get_cached_response" ELSE "forward")
      /\ cache_map' = [k \in DOMAIN cache_map \ (IF live THEN {} ELSE {url}) |->
                         cache_map[k]]
      /\ UNCHANGED <<cache_list, now, origin, local_vars, alive>>

(* Two calls, two critical sections: the entry can go in between. *)
IsInCache(t) ==
  /\ Goes(t, "is_in_cache", IF Cache!is_in_cache(request[t].url)
                            THEN "get_cached_response" ELSE "forward")
  /\ UNCHANGED <<origin, local_vars, alive>>
  /\ cache_unchanged

(* Seeded fault: any hit is validated, whether the client asked or not. *)
GetCachedResponseValidated(t) ==
  LET url == request[t].url
      hit == Cache!Hit(url)
      copy == Cache!Lookup(url).response
  IN  /\ Goes(t, "get_cached_response", IF hit THEN "validate" ELSE "forward")
      /\ Cache!get_cached_response(url)
      /\ cached_response' =
           [cached_response EXCEPT ![t] = IF hit THEN copy ELSE NoResponse]
      /\ request' = IF hit THEN [request EXCEPT ![t].validator = copy.validator]
                    ELSE request
      /\ UNCHANGED <<now, origin, client_validator, response, processed,
                     upstream, answer, result, alive>>

(* A conditional request goes on with the validator of the cached copy in  *)
(* the place of the client's own.                                          *)
GetCachedResponse(t) ==
  LET url == request[t].url
      hit == Cache!Hit(url)
      copy == Cache!Lookup(url).response
  IN  /\ Goes(t, "get_cached_response",
              CASE ~hit -> "forward"
                [] hit /\ client_validator[t] # NoHeader -> "validate"
                [] OTHER -> "reply_cached")
      /\ Cache!get_cached_response(url)
      /\ cached_response' =
           [cached_response EXCEPT ![t] = IF hit THEN copy ELSE NoResponse]
      /\ request' = IF hit /\ client_validator[t] # NoHeader
                    THEN [request EXCEPT ![t].validator = copy.validator]
                    ELSE request
      /\ UNCHANGED <<now, origin, client_validator, response, processed,
                     upstream, answer, result, alive>>

-----------------------------------------------------------------------------
(* forward_request, called to validate ("validate", "validating",          *)
(* "validated") or to fetch ("forward", "forwarding", "reply").            *)

Connects(t, from, to) ==
  /\ Goes(t, from, to)
  /\ upstream' = [upstream EXCEPT ![t] = TRUE]
  /\ response' = [response EXCEPT ![t] = NoResponse]
  /\ UNCHANGED <<origin, request, client_validator, cached_response, processed,
                 answer, result, alive>>
  /\ cache_unchanged

(* No address, or none that takes the connection. *)
ConnectFails(t, from, to) ==
  /\ Goes(t, from, to)
  /\ response' = [response EXCEPT ![t] = BadGateway]
  /\ UNCHANGED <<origin, request, client_validator, cached_response, processed,
                 upstream, answer, result, alive>>
  /\ cache_unchanged

(* The host gets the request and answers for the page as it is then. *)
OriginAnswers(t) ==
  LET r == request[t]
      a == Target(r)
      page == IF r.method = "GET" THEN Page[a][origin[a]] ELSE PostPage[a]
  IN  /\ alive
      /\ pc[t] \in {"validating", "forwarding"}
      /\ response[t] = NoResponse
      /\ response' = [response EXCEPT ![t] =
                        IF /\ r.method = "GET"
                           /\ page.validator # NoHeader
                           /\ r.validator = page.validator
                        THEN NotModified(page.validator)
                        ELSE page]
      /\ processed' = [processed EXCEPT ![t] = @ + 1]
      /\ UNCHANGED <<origin, pc, request, client_validator, cached_response,
                     upstream, answer, result, alive>>
      /\ cache_unchanged

(* The whole answer has arrived and could be parsed. *)
Receives(t, from, to) ==
  /\ Goes(t, from, to)
  /\ response[t] # NoResponse
  /\ upstream' = [upstream EXCEPT ![t] = FALSE]
  /\ UNCHANGED <<origin, request, client_validator, cached_response, response,
                 processed, answer, result, alive>>
  /\ cache_unchanged

(* Seeded fault: an early return without close. *)
ReceiveFailsOpen(t, from, to) ==
  /\ Goes(t, from, to)
  /\ response' = [response EXCEPT ![t] = BadGateway]
  /\ UNCHANGED <<origin, request, client_validator, cached_response, processed,
                 upstream, answer, result, alive>>
  /\ cache_unchanged

(* Seeded fault: try again. *)
ReceiveFailsAndRetries(t, from, to) ==
  /\ Goes(t, from, IF from = "forwarding" THEN "forward" ELSE "validate")
  /\ response' = [response EXCEPT ![t] = NoResponse]
  /\ upstream' = [upstream EXCEPT ![t] = FALSE]
  /\ UNCHANGED <<origin, request, client_validator, cached_response, processed,
                 answer, result, alive>>
  /\ cache_unchanged

(* A send or a recv fails, the origin closes too early, or what it sent is *)
(* malformed.                                                              *)
ReceiveFails(t, from, to) ==
  /\ Goes(t, from, to)
  /\ response' = [response EXCEPT ![t] = BadGateway]
  /\ upstream' = [upstream EXCEPT ![t] = FALSE]
  /\ UNCHANGED <<origin, request, client_validator, cached_response, processed,
                 answer, result, alive>>
  /\ cache_unchanged

(* parse_response throws on a chunk size or a max-age it cannot convert;   *)
(* the exception leaves handle_request and nothing closes the socket.      *)
ParseThrows(t, from) ==
  /\ response[t] # NoResponse
  /\ Returns(t, from, "exception")
  /\ UNCHANGED <<origin, request, client_validator, processed, upstream, answer,
                 alive>>
  /\ cache_unchanged

ForwardRequest(t, call, wait, return) ==
  \/ Connects(t, call, wait)
  \/ ConnectFails(t, call, return)
  \/ Receives(t, wait, return)
  \/ ReceiveFails(t, wait, return)
  \/ ParseThrows(t, wait)

-----------------------------------------------------------------------------
(* Seeded fault: validate again until the origin confirms the copy. *)
ValidatedOrRetried(t) ==
  /\ Goes(t, "validated", IF response[t].status = "304 Not Modified"
                          THEN "reply_cached" ELSE "validate")
  /\ UNCHANGED <<origin, local_vars, alive>>
  /\ cache_unchanged

(* Anything but 304 falls through to the general case, and a second        *)
(* forward of the request with its validator rewritten.                    *)
Validated(t) ==
  /\ Goes(t, "validated", IF response[t].status = "304 Not Modified"
                          THEN "reply_cached" ELSE "forward")
  /\ UNCHANGED <<origin, local_vars, alive>>
  /\ cache_unchanged

(* Seeded fault: the entry is taken for the front of the list, where the   *)
(* lookup has put it, instead of being held on to.                         *)
ReplyFrontOfList(t) ==
  /\ cache_list # <<>>
  /\ Returns(t, "reply_cached", "0")
  /\ answer' = [answer EXCEPT ![t] = cache_list[1].entry.response]
  /\ UNCHANGED <<origin, request, client_validator, processed, upstream, alive>>
  /\ cache_unchanged

ReplyCached(t) ==
  /\ Returns(t, "reply_cached", "0")
  /\ answer' = [answer EXCEPT ![t] = cached_response[t]]
  /\ UNCHANGED <<origin, request, client_validator, processed, upstream, alive>>
  /\ cache_unchanged

(* Seeded fault: the answer to any method is cached. *)
ReplyStoringAll(t) ==
  /\ pc[t] = "reply"
  /\ IF is_cacheable(response[t])
     THEN /\ Goes(t, "reply", "store")
          /\ UNCHANGED <<cached_response, response, result>>
     ELSE Returns(t, "reply", "0")
  /\ answer' = [answer EXCEPT ![t] = response[t]]
  /\ UNCHANGED <<origin, request, client_validator, processed, upstream, alive>>
  /\ cache_unchanged

Reply(t) ==
  /\ pc[t] = "reply"
  /\ IF request[t].method = "GET" /\ is_cacheable(response[t])
     THEN /\ Goes(t, "reply", "store")
          /\ UNCHANGED <<cached_response, response, result>>
     ELSE Returns(t, "reply", "0")
  /\ answer' = [answer EXCEPT ![t] = response[t]]
  /\ UNCHANGED <<origin, request, client_validator, processed, upstream, alive>>
  /\ cache_unchanged

(* reliable_send reports an error: the connection is to be closed. *)
ReplyFails(t) ==
  /\ Returns(t, "reply", "-1") \/ Returns(t, "reply_cached", "-1")
  /\ UNCHANGED <<origin, request, client_validator, processed, upstream, answer,
                 alive>>
  /\ cache_unchanged

(* send to a peer that has gone raises SIGPIPE, which nothing handles: the *)
(* work of every thread ends there, and the system closes the sockets.     *)
BrokenPipe(t) ==
  /\ alive
  /\ pc[t] \in {"malformed", "reply", "reply_cached", "validating", "forwarding",
               "handle_connect"}
  /\ alive' = FALSE
  /\ pc' = [u \in Thread |-> "idle"]
  /\ upstream' = [u \in Thread |-> FALSE]
  /\ cached_response' = [u \in Thread |-> NoResponse]
  /\ response' = [u \in Thread |-> NoResponse]
  /\ UNCHANGED <<origin, request, client_validator, processed, answer, result>>
  /\ cache_unchanged

(* The tunnel, from the lookup of the host to the close of its socket;     *)
(* what goes through it has no bearing on the rest.                        *)
HandleConnect(t) ==
  /\ Returns(t, "handle_connect", "0")
  /\ \E r \in {BadGateway, Established, NoResponse} :
       answer' = [answer EXCEPT ![t] = r]
  /\ UNCHANGED <<origin, request, client_validator, processed, upstream, alive>>
  /\ cache_unchanged

Store(t) ==
  /\ Returns(t, "store", "0")
  /\ Cache!store_response(request[t].url, response[t])
  /\ UNCHANGED <<now, origin, request, client_validator, processed, upstream,
                 answer, alive>>

-----------------------------------------------------------------------------
(* An origin changes one of its pages. *)
OriginChanges(a) ==
  /\ alive
  /\ origin[a] < MaxVersion
  /\ origin' = [origin EXCEPT ![a] = @ + 1]
  /\ UNCHANGED <<pc, local_vars, alive>>
  /\ cache_unchanged

Tick ==
  /\ alive
  /\ Cache!Tick
  /\ UNCHANGED <<origin, pc, local_vars, alive>>

Handle(t) ==
  \/ RejectMalformed(t) \/ IsInCache(t) \/ GetCachedResponse(t)
  \/ ForwardRequest(t, "validate", "validating", "validated")
  \/ Validated(t)
  \/ ForwardRequest(t, "forward", "forwarding", "reply")
  \/ ReplyCached(t) \/ Reply(t) \/ ReplyFails(t) \/ BrokenPipe(t) \/ Store(t)
  \/ HandleConnect(t)

Killed == ~alive /\ UNCHANGED vars

Next ==
  \/ \E t \in Thread :
       \/ \E r \in Request : Begin(t, r)
       \/ Handle(t)
       \/ OriginAnswers(t)
  \/ \E a \in Changing : OriginChanges(a)
  \/ Tick
  \/ Killed

Spec == Init /\ [][Next]_vars

-----------------------------------------------------------------------------
TypeOK ==
  /\ Cache!TypeOK
  /\ origin \in [Site -> Version]
  /\ pc \in [Thread -> Pc]
  /\ \A t \in Thread :
       /\ \E r \in Request : [request[t] EXCEPT !.validator = r.validator] = r
       /\ client_validator[t] \in Validator \cup {NoHeader}
       /\ cached_response[t] = NoResponse \/ cached_response[t] \in Pages
       /\ processed[t] \in 0 .. 2
  /\ upstream \in [Thread -> BOOLEAN]
  /\ result \in [Thread -> {"0", "-1", "exception"}]
  /\ alive \in BOOLEAN

(* What the cache holds under a key is a page that was shown in answer to  *)
(* a GET for the url of that key, by a host that is asked for this url,    *)
(* and one that may be shared: no answer to a POST, no 304, no made-up     *)
(* 502, nothing private.  (Which of the hosts the key does not tell, see   *)
(* AnswersComeFromTheHost; and what arrived in chunks is stored like the   *)
(* rest: the parser has taken the chunks apart by then.)                   *)
CacheHoldsPagesOfItsKeys ==
  \A i \in DOMAIN cache_list :
    LET node == cache_list[i]
    IN  \E a \in Asked : \E v \in 1 .. origin[a] :
          /\ node.entry.response = Page[a][v]
          /\ node.key = Cache!CacheKey(a[2], Page[a][v])
          /\ Page[a][v].cache_control \cap {"no-store", "private"} = {}

ShownBy(a, x) == \E v \in 1 .. origin[a] : x = Page[a][v]

(* A 200 is the page some version of the requested url has shown, whatever *)
(* other threads do to the cache between the steps of this one: to a POST  *)
(* that of the host it was sent to, to a GET that of a host asked for this *)
(* url, the only one if no second host is.                                 *)
AnswersTheRequest ==
  \A t \in Thread :
    answer[t] # NoResponse /\ answer[t].status = "200 OK" =>
      IF request[t].method = "GET"
      THEN \E a \in Asked : a[2] = request[t].url /\ ShownBy(a, answer[t])
      ELSE answer[t] = PostPage[Target(request[t])]

(* README.md: the proxy "intercepts HTTP requests, forwards them to origin *)
(* servers, and caches responses": what answers a GET, cached or not, is a *)
(* page of the host the request is for.                                    *)
AnswersComeFromTheHost ==
  \A t \in Thread :
    /\ request[t].method = "GET"
    /\ answer[t] # NoResponse /\ answer[t].status = "200 OK"
    => ShownBy(Target(request[t]), answer[t])

(* A page that may not be shared goes only to a client whose own request   *)
(* the origin has seen.                                                    *)
PrivatePagesAreNotShared ==
  \A t \in Thread :
    /\ answer[t] # NoResponse
    /\ answer[t].cache_control \cap {"no-store", "private"} # {}
    => processed[t] > 0

(* A client is told that its copy is still good only if it asked: although *)
(* the handler writes validators of its own into requests, and forwards    *)
(* them once more when a validation has failed.  (It may be told so of     *)
(* another validator than its own; the second request carries the one of   *)
(* the proxy's copy.)                                                      *)
NotModifiedOnlyIfAsked ==
  \A t \in Thread :
    /\ answer[t] # NoResponse
    /\ answer[t].status = "304 Not Modified"
    => client_validator[t] # NoHeader

(* A POST is not repeated, even when its answer is lost, and a client that *)
(* gets its answer has had it processed.                                   *)
PostIsProcessedOnce ==
  \A t \in Thread :
    request[t].method = "POST" =>
      /\ processed[t] <= 1
      /\ answer[t] = PostPage[Target(request[t])] => processed[t] = 1

(* Only an exception leaves the socket to the origin open. *)
UpstreamIsClosed ==
  \A t \in Thread :
    pc[t] = "idle" /\ result[t] # "exception" => ~upstream[t]

(* The handlers use the cache only through its operations, each of them    *)
(* whole: what holds of CacheManager for any caller holds here.            *)
UsesTheCache == Cache!Spec

(* danger_log.txt: "All socket fds get properly closed" when an exception  *)
(* occurs.                                                                 *)
SocketsAreClosed == \A t \in Thread : pc[t] = "idle" => ~upstream[t]

=============================================================================
