# A verification project for ProxyCacheServer

TLA+ modules of the caching HTTP proxy in `src/docker-deploy/src`, TLC runs that
check them on small instances, and TLAPS proofs, for every instance, about the cache, the
server's threads, the request handlers, the tunnels, the client loop, the call to the
origin and the two parsers. File names below are relative to `src/docker-deploy/src` unless they
begin with `src/`.

## 1. The system

| part | state | operations | what makes it correct |
|---|---|---|---|
| `CacheManager` | `cache_map` (key → list iterator), `cache_list` (LRU order), the clock; one mutex | `is_in_cache`, `get_cached_response`, `store_response`, `evict_if_needed` | iterators never outlive their node; the bound; a lookup finds what was stored last under the key; only the least recent entry is lost |
| `ProxyServer`, `proxy.cpp` | listening socket, `client_threads`, `reaper_q`, two mutexes, a condition variable, `stop_flag`, the request id counter | `start`, `handle_client`, `cleanup_threads`, the destructor | every thread is joined exactly once, no stale list iterator, no lost wakeup, every socket closed by its owner, shutdown ends |
| `ClientHandler` | per connection: the bytes received and not parsed | the recv/parse/handle loop | the requests handled are the messages sent, however they are segmented; nothing is handled after a malformed request |
| `RequestHandler` | none of its own: the cache, a socket to the origin | `handle_request`, `forward_request`, `handle_connect` | the answer belongs to the request; only shareable pages are shared; a POST is not repeated; sockets are closed |
| `HttpRequest` | the fields of a request | `parse_request` | the end of a request is found, malformed input is rejected |
| `HttpResponse` | the fields of a response | `parse_response`, `is_cacheable` | malformed input is rejected, uncacheable answers are recognised |
| `Logger` | the log file, one mutex | `log_*` | lines are not interleaved |
| `FakeCache`, `test-http`, `testing` | | | a test stub and stand-alone experiments |

How they interact. `main` constructs a `ProxyServer` and calls `start`, which
never returns but by an exception. It starts the reaper, then accepts; each
connection gets a node in `client_threads` and a thread that runs
`handle_client`, which calls `handle_client_requests` (ClientHandler), closes
the socket, pushes its own list iterator on `reaper_q` and notifies the reaper.
The reaper joins and erases. A client thread parses requests off its buffer
and gives each to a `RequestHandler`, which looks into the shared
`CacheManager`, fetches from the origin, answers and stores. The destructor
sets `stop_flag`, wakes and joins the reaper, and joins the clients. The cache
mutex, `reaper_q_lock`, `client_threads_lock` and the logger's mutex are the
only synchronisation; a client thread holds at most one of the first two at a
time, and the reaper takes `client_threads_lock` and joins clients while it
holds `reaper_q_lock`.

What is hard: the handover of thread handles between `start`, the reaper and
the destructor; wakeups; exceptions, which are caught far from where they are
thrown and answer nobody; the two containers of the cache, of which one keeps
superseded nodes; check-then-act on the cache; segmentation and pipelining.
`PROJECT.json` lists each hazard at its line with the properties that look at it.

## 2. The modules

| module | models | how |
|---|---|---|
| `RecencyCache` | no code: what a cache promises | keys, the entry of each, the order of use; a store may lose one other key (`Put`), or only the least recent (`LruPut`) |
| `HttpResponse` | `HttpResponse.h/.cpp` | a response as a record of the headers the other parts read; `is_cacheable` |
| `CacheManager` | `CacheManager.h/.cpp` | `cache_list` as a sequence of nodes with an address, `cache_map` as a function from keys to addresses; one action per operation, because each holds `cache_mutex` throughout; `Abs` maps it to `RecencyCache` |
| `CacheManagerProofs` | | theorems, section 5 |
| `RecencyCacheProofs` | | the refinement theorem, section 5 |
| `ProxyServer` | `ProxyServer.h/.cpp`, `proxy.cpp` | program counters of main, the reaper and each client thread; an action per step between two points where another thread can interfere |
| `ProxyServerProofs` | | theorems, section 5 |
| `HttpMessage` | what `HttpRequest.cpp` and `HttpResponse.cpp` have twice | a message as a sequence of pieces, a piece being a line with its CRLF or a byte of a body; header lines, `Content-Length`, chunks and trailers; lengths are kept in words that wrap (`MaxInt` is the greatest `int`) |
| `HttpGrammar` | no code: what HTTP calls a request, a response and where a body ends | predicates on sequences of pieces, stated without the parsers, which are measured against them |
| `HttpRequest` | `HttpRequest.h/.cpp` | `parse_request` as a function of what has been received: its outcome, the request and what is left |
| `ResponseParser` | `HttpResponse.h/.cpp` | `parse_response`, the same way |
| `HttpMessageProofs` | | lemmas about sequences and theorems about both parsers, section 5 |
| `ConnectTunnel` | `RequestHandler::handle_connect` | for each connection the select loop with its one buffer, both streams, ends that go away |
| `ConnectTunnelProofs` | | theorems, section 5 |
| `ClientHandler` | `ClientHandler.h/.cpp` | connections side by side, each with its stream of pieces, received in segments of any size; `handle_request` is a step with its three ways to end, or a tunnel: an instance of `ConnectTunnel` on the same streams |
| `ClientHandlerProofs` | | theorems, section 5 |
| `RequestHandler` | `RequestHandler.h/.cpp` | threads over an instance of `CacheManager`, whose actions are conjoined with the handler's own; a request is sent to its host and cached under its url; origins change pages, refuse, fail and send nonsense |
| `RequestHandlerProofs` | | theorems, section 5 |
| `ForwardRequest` | `RequestHandler::forward_request` | one call: the addresses of the host, the send, the receive loop over `ResponseParser`, every early return |
| `ForwardRequestProofs` | | theorems, section 5 |
| `MC*` | | constants for TLC |

Composition: `RequestHandler` instantiates `CacheManager` and is shown to be one
of its callers (`UsesTheCache`), so what is proved of the cache for any caller
holds in the server. `ForwardRequest` is shown to take only the steps
`RequestHandler` has of that call (`ImplementsTheCall`), so the few steps there stand
for the loop here. `ClientHandler` instantiates `ConnectTunnel`, and is shown to
be all that happens around a tunnel (`UsesTheTunnel`): the loop and the tunnel
read one stream. `ProxyServer` and `ClientHandler` meet in the loop of
`handle_client_requests`: `ProxyServer` keeps of it that a thread tests
`stop_flag`, blocks in `recv` and goes on or closes. `ClientHandler` and
`RequestHandler` meet in the return of `handle_request`: 0, -1 or an exception.

Definitions whose comment begins with "Seeded fault" are used by no
specification. Each is a plausible mistake in the code it stands for; put in
place of the definition it follows, it makes TLC report the property that
`PROJECT.json` pairs it with under "mutants".

## 3. The runs

Runs that pass:

* **cache** (`MCCacheManager`): capacity 3, two urls of which one is the text
  the other's key has with a Vary header, responses with and without Vary,
  max-age and Expires, and a private one. Three entries and four addresses are
  enough for a superseded node before, between and after live ones, for the
  eviction of each, for the reuse of an address, and for two urls that collide
  in a key. Checked: types, iterators, the
  bound, the order of superseded nodes, and the refinement of the lossy cache.
* **server** (`MCProxyServer`): two connections, two nodes. Each connection can be accepted
  again after its thread is joined, so the behaviours are infinite; two suffice
  for one thread in each of two stages, for a queue of length two and for the
  reuse of a list node. Every exception of `start` leads to the destructor in each state of
  the other threads. Checked: types, iterators, sockets, threads at the end of
  the process, and three liveness properties.
* **requests** (`MCRequestHandler`): two threads, two hosts, two urls, a cache of one
  entry, GET with and without a validator, POST, CONNECT and malformed requests. The
  first url is asked of both hosts, so an answer may be another host's page. The page of
  the first host there has two versions, one that may be shared until it expires
  and a private one; no other page changes (`Changing`). The second url's has a Vary. One
  entry makes the urls compete for the cache at every store. Symmetry is used in
  the threads and in the addresses of nodes, which the properties (all safety)
  do not distinguish. Checked: the contents of the cache and whose page an answer
  is, both as far as the code goes, which is up to the url and not to the host
  (**requests_hosts**); that private pages are not shared, that a 304 is told only to those who
  asked (the handler puts its own validators into requests), that a POST is worked on
  once, the sockets, and that the cache is used as `CacheManager` allows.
* **forward** (`MCForwardRequest`): a call of `forward_request` with up to two
  addresses (one that fails and one that does not) and twenty-four answers: bodies with
  a length, with chunks and trailers, without either, 304s, an interim
  response, each kind of malformed header, chunk and trailer, a length and a chunk size
  that wrap, the rest of
  something else before a response, and another response after it; cut into segments in
  every way and broken off anywhere. `message` is the response HTTP sees in
  each, written down apart from the parser; TLC evaluates that it is the one
  `HttpGrammar` finds there (`Delimited`, in `AnswerAssumption`). Checked, of answers that
  an `int` can count (`Countable`): what is returned is that response and no part of it, and nothing
  well-formed but a response without a header line is refused, and the call returns once a response is
  there, unless it is a 304 that states a length; of all: no socket stays open, and the call is one of
  `RequestHandler`'s. A response without a length or chunks ends where the origin
  closes; the code returns its head and drops the body (`HttpResponse.cpp:310`), so of these
  `ResponseIsWhole` only says that nothing but a beginning of the response is returned.
* **clients** (`MCClientHandler`): two connections. One has a script of
  pipelined messages (a body with a length, one whose length wraps, chunks and a trailer, a malformed
  request line, a missing Host, a forbidden trailer, a chunk without its CRLF, a
  chunk size that is no number), cut into segments in every way, while the other
  sends a request and competes for the id counter; or a CONNECT and what goes through
  the tunnel, while the other is silent. The origin of a tunnel has two bytes to say, enough for one
  in the buffer and one unread. Checked: framing, that no byte is
  lost or relayed out of order, what follows a malformed request, that no
  complete request waits in the buffer, that the tunnel has its stream to itself, and that connections
  end. `Garbage` holds 0 and 1: the values an
  uninitialised `client_error_code` can have, as far as the code tells them apart.
  What the theorems suppose of a peer's messages (`IsConversation`) is an `ASSUME`
  of the module, as is which of the messages `HttpGrammar` calls requests.

Runs that end in a counterexample, each about a sentence of the repository that
the code does not keep ("findings" in `PROJECT.json` quotes them):

* **cache_lru**: a superseded node at the end of the list is evicted and takes
  the key of its fresh successor with it.
* **server_erase**: the reaper can pass the join of a handle that `start` has
  not assigned yet and erase it when it is joinable.
* **server_destructor**: `join` on the reaper that was never started.
* **server_sockets**: when no thread can be started for a connection, the exception leaves
  `start` and nobody closes the socket that was accepted. `SocketOwnership` of the run
  **server** says that this is the only socket without an owner.
* **requests_hosts**: a page is cached under its url and found by a request of the same url
  for another host.
* **requests_sockets**: an exception of `parse_response` leaks the origin's socket.
* **clients_ids**: two requests with one id.

Where the code departs from the repository's documents or from HTTP in other ways the modules
follow the code. These have no run of their own:

* `max-age=0` without Expires gives a page a lifetime of a day (`CacheManager.cpp:42`;
  `src/test_cases.txt:99-104` expects it to have expired).
* A chunked response is cached (`src/test_cases.txt:92-96` expects "not cacheable because it is
  chunked"): the parser puts the chunks together and erases the header, and `is_cacheable`
  does not ask for it.
* `client_error_code` has no initial value (`HttpRequest.h:17`): a well-formed request is
  rejected or not by what the stack held. `Garbage` has both.
* A chunk size that is no number throws out of the parser, and the 400 of
  `src/danger_log.txt:22-24` is not sent.
* A line before a request that has none of the three methods in it, such as a PUT, is erased if a
  request follows it in the same text and refused if none does (`HttpRequest.cpp:83-98`).
* The body of a response that the close of the connection ends is dropped (`HttpResponse.cpp:310`).
* The key of a page with Vary may be the url of another request (`CacheManager.cpp:96`).

Bounds. `MaxTime`, `MaxVersion`, the sets of hosts, urls, nodes, threads, connections
and scripts bound the runs; `Day` is 1 in the runs of the handlers and 2 in those of the
cache, so that a lifetime ends within `MaxTime`. `MaxInt` is 63: no message of the runs is as
long, and a length of 129 wraps to 1.
`Node` has one address more than the list can hold, so that an insertion has a choice. No other
counter needs a bound: the id counter is bounded by the scripts.

Deadlock is checked in every run. A state in which the process is over
(`Finished`, `Killed`) steps to itself. When SIGPIPE kills the process
(`BrokenPipe`), what its threads held and their sockets are gone; what the
clients got and the origins processed stays.

## 4. Fairness

`ProxyServer!Fairness`: every thread that can run runs (weak fairness of main, the
reaper and each client), and one that waits for a mutex others take and release
again and again gets it in the end (strong fairness of the steps that lock; the
code relies on the same of `std::mutex`). Nothing is assumed of peers:
`Accept` and `PeerSends` are unfair, and `ShutdownCompletes` carries the condition that no
peer keeps a thread in `recv` for ever, without which it is false of this code.
Spurious wakeups are allowed and not required.

`ClientHandler!FairSpec`: a connection that is not closed goes on, which
includes that its peer sends its script and closes, and that one end of each
tunnel closes. It is written as the
two-sided formula weak fairness stands for, because the
step is possible exactly when the connection is not closed; TLC evaluates that
far quicker than ENABLED of the parser. `ConnectionsEnd` allows for the
exceptions after which the code promises nothing (of `recv`, of `handle_request`, and of
`parse_request` on a chunk size that is no number).

`ForwardRequest!FairSpec`: the thread goes on unless `recv` keeps it, written the same
way. Nothing is assumed of the origin; `AnswerEndsTheCall` begins when it has
sent a whole response or has closed. Without that the call need not return, as the code has no timeout.

## 5. The proofs

`CacheManagerProofs` proves, from `CacheAssumption` alone (capacity, default
lifetime and last instant are naturals, responses are responses), that every
reachable state satisfies

    CacheInv == TypeOK /\ DistinctNodes /\ NoDanglingIterator /\ Bounded /\ MappedIsFirst

and each of the invariants the run **cache** checks. None of them is inductive by itself.
That an evicted node's key is erased keeps the iterators valid only if
no other key refers to the node, which `NoDanglingIterator` says (the node
carries the key that refers to it) together with `DistinctNodes` (no two nodes
share an address). The move of a node to the front keeps `MappedIsFirst` only
because the node moved is the mapped one, and the eviction of the last node
keeps it because a superseded node of the key, if any, is not in front of it. The
argument has one lemma for the shape of each list operation (`MoveToFront`,
`ListAfterEviction`, `Cons`), one for each of `get_cached_response` and `store_response`, and
`CacheInvStep` puts them together.

`RecencyCacheProofs` adds `Spec => ImplementsRecencyCache`. The mapping speaks of
the position of a key's node, which `CHOOSE` picks: by `CacheInv` there is one,
and no two keys share it (`Positions`). A hit moves one node to the front and an
insertion shifts all of them, so the order of the other keys stays, which is all the order of
use says of them (`FirstIsMostRecent`). The key an insertion loses is that of
the evicted node, whether or not it was that node's iterator the map had.

`ProxyServerProofs` proves, from `ServerAssumption` (the two null values are no
connection and no node), each invariant the run **server** checks, for any
number of connections and nodes. The invariant `ServerInv` follows the life of
a list node: it is owed by the one thread that was given its iterator, or it is in
`reaper_q`, or in the hands of the reaper, and in only one of these places
(`NodeInv`). This is what keeps an iterator from being queued twice or erased while
somebody has it. `HandleInv` says that a thread that has not been joined has a handle, in
the list or still in main's hands: from it and the destructor's last test follows that nobody
outlives the server. It needs that the node main assigns the handle to is still there,
which holds because main keeps `client_threads_lock` from the insertion to the
assignment (`MainInv`) and the reaper erases under it. That the reaper can find
the handle joinable there and terminate the process is the run **server_erase**.
`SocketsHaveOneOwner` says that an open socket has its thread, or `start` is on the way to
start it, except for the one whose thread could not be started; that this one
stays open is the run **server_sockets**.

`ConnectTunnelProofs` proves of any number of tunnels and any streams, from
`TunnelAssumption` (streams are sequences of data), that what a tunnel has
relayed, what it has in its buffer and what is unread make up the stream as it was when the tunnel
opened. The buffer is one for both directions: the invariant says which side its
contents are of by the place the loop is at, and that the other side's are untouched
by it. Once an end is gone the
rest is nobody's, and only the beginning is claimed.

`ClientHandlerProofs` proves `Spec => Tunnel!Spec` for any connections, scripts
and garbage, with the invariant that a connection is in the tunnel's loop exactly
while it has a tunnel (`PlacesAgree`): without it nothing says that a `recv` of
the parse loop does not take bytes from a running tunnel. The theorem of the
tunnels is then instantiated, and the server relays in order. `NothingAfterRejection`
needs, beside the list of requests handled, that only the one being handled may
have been malformed and that the loop is then over or about to be (`RejectionInv`).

What a client loop hands to `handle_request` is what the parser makes of whatever
has arrived, so the rest of what the run **clients** checks rests on facts about
`parse_request` for texts of any length. `HttpMessageProofs` has them, from
`MaxIntAssumption` (the greatest `int` is a natural). Where a theorem depends on what a
stated length means it is about messages that an `int` can count, since a greater length is cut to its word,
and the message with it:

* Where chunks and trailers end is a recursive function of the position. Its value
  is found by induction over positions, as the least position at which a claim
  fails (an element of a set of naturals that has a least one), since the induction theorems
  themselves cannot be instantiated. `TrailerIsTaken` and `ChunksAreTaken` give the end of
  what `HttpGrammar` calls a trailer and a chunked body, and
  `TrailerTakenIsOne` and `ChunksTakenAreSome` say that nothing else is taken for one.
* More text changes no verdict: `RequestStays` and `ResponseStays`. The
  exception is the refusal of a text that does not begin with a method or a status
  line, which the theorems' second hypothesis leaves out because it is not final in the code.
* `RequestIsTakenWhole`: a request of `HttpGrammar` that an `int` can count is taken when its last piece
  is there, and of each shorter part the parser says that more is needed.
* `TakenAreMessages`: if requests are taken off the concatenation of messages,
  they are the first of these messages, one for one.

`StreamsAreFollowed` is the inductive invariant of loop and parser (`Follows`): the requests handled and
the one in hand are the first `k` messages of the peer, or the last of them was refused;
`curr_message` followed by what is unread is the concatenation of the others. Without the
second half a `recv` could attach a segment to the wrong rest. From it follow
`RequestsHandledAreTheMessages`, for peers whose messages begin with a method and are taken whole or refused
(`IsConversation`), `RequestsOfHttpAreHandled`, for peers that keep to HTTP and send no request, whole or
broken off, that is longer than an `int` can count (`SpeaksHttp`), and
`NoByteOfAConversationIsLost`. The invariants speak of connections without CONNECT:
what is left of a stream after a tunnel may begin in the middle of a message,
and `parse_request` drops what is before the next method, so that neither a message
nor every byte is found again. `NoRequestIsLeftBehind` needs no such condition: a loop that is back at
`recv` got there by an exception, or because the parser wanted more, and asked
again about what it left in `curr_message` it would want more again
(`NothingLeft`, `RequestWaits`). `HandlerStateIsTyped` needs of the parser that its pieces are cut out of
what it was given, and of the concatenation of a script that it is a sequence of
pieces (`FlattenTyped`).

`RequestHandlerProofs` proves all that the run **requests** checks, for any
threads, urls, versions, requests and capacity, from `HandlerAssumption`: a 304
is no page, and the body of what the proxy makes up is no origin's. The
invariant `HandlerInv` says for each place a thread can be at where what it
has in hand comes from: the copy it validates or sends is a page that may be
shared, kept under the key it asked for (`FromCache`); the response it has
received is what the origin said to this request, which it has then worked on
(`FromOrigin`); how often the origin can have worked on it so far
(`Processing`, which is why a POST is never repeated); whose validator the request
carries (`MethodOfPlace`). Each step of a thread is a step of that thread alone (`StepOf`), and the rest
of the world can only show newer pages (`SameKeeps`). That a lookup finds a page
of its key needs the cache's own invariant: `CacheInv` of `CacheManagerProofs`,
instantiated with the handlers' constants, is proved along with it, since each
step of a handler is one of `CacheManager` or leaves the cache alone (`CacheStep`).
`CacheContentsAreRight` and `AnswersAreOfTheRequest` go as far as the cache's key does: a page is
one that some host showed for a url of that key, when somebody asked that host for it. The second has a
condition, `NoCollision`: no url reads like `url|vary` of another. `CacheKey` makes a text of the
two, and a client that asks for that text as a url is served the other's page. That the
page is of the host the request names (`AnswersComeFromTheHost`) is false in the code, run
**requests_hosts**; `AnswersAreOfTheHost` proves it under the further
condition that no two hosts are asked for one url (`OneHostForEachUrl`), which is so of clients that
send absolute urls and the Host that belongs to them.

`ForwardRequestProofs` proves all the invariants the run **forward** checks and
`Spec => ImplementsTheCall`, from `AnswerAssumption`: that `message` is the response
`HttpGrammar` finds in what the origin sends, or `<<>>` if there is none. A line
before the response and anything after a 304 that states a length are excluded:
the first makes the parser's verdict depend on the segments, the second is
taken for the body that HTTP says is not there.
`CallInv` says where the call is by what it has: one socket from
`connect` to the return, no result before, and nothing to receive before the
origin has answered; it is what `CallTypes` and the refinement need. That the
response is whole needs `HeardInv`: `parse_response` erases what is before a status line, so
`curr_message` is in general not the text received; but
the parser makes the same of both (`ParsesAs`), and the text received so far followed by what is to
come is what the origin sent. A verdict is then one on a beginning of the
answer, it stays when the rest is added (`ResponseStays`), and of the
whole answer the verdict is known from the grammar (`ParsedOfAnswer`,
`MalformedOfAnswer`). So `ReturnsTheWholeResponse` and `RefusesOnlyTheMalformed` hold for any
answer that an `int` can count, cut in any way and broken off anywhere; of a response that only the
close of the connection ends, the first says no more than that a beginning of it is returned.

Only model-checked: all liveness, which is
out of the prover's reach (ENABLED), and `NothingIsLost` of connections with a tunnel, where
it is proved of the tunnel's own part only (`ServerRelaysInOrder`). The invariants
that speak of all sequences (`Follows`, `HeardInv`) cannot be evaluated by TLC;
what follows from them is checked by the runs.

## 6. Not modelled

* The characters of lines and headers: a line is of a kind. Positions are counted in pieces
  (a line counts one), so lengths wrap as in the code, but how long the headers are makes no
  difference to that.
* What follows when the position in a text passes the greatest `int` ("overrun"): a message of
  more than 2 GB, or a length just below 2^32. The parser then reads before or after the place the message
  has come to, and no step of the model does. `serialize` (with the length it gets wrong for a message that
  was chunked) is left out and listed as a hazard.
* The kernel's buffers: a `send` is complete or fails, so two ends of a tunnel
  that both only write are not seen to block each other. Numbers of descriptors (`FD_SETSIZE`) neither.
* `Logger`: it calls nothing back and takes no other lock, so it changes nothing the other
  parts do; the time of day it prints comes from `gmtime`, which is not safe to share.
  `FakeCache` and the test programs are not part of the server.
* Memory exhaustion, and addresses: resolution and connection either work or not.

## 7. Plan

1. *Done*: `RecencyCache`, `HttpResponse`, `CacheManager`, `ProxyServer`,
   `HttpMessage`, `HttpRequest`, `ResponseParser`, `ConnectTunnel`,
   `ClientHandler`, `ForwardRequest`, `RequestHandler`, the runs of section 3 and
   the proofs of section 5.
2. Theorems left: `NothingIsLost` with tunnels, under a condition on what is sent
   through one; the messages of a connection up to its CONNECT.
3. What a parser does after an overrun.
