---------------------------- MODULE HttpResponse ----------------------------
(***************************************************************************)
(* The HTTP responses the proxy stores and relays (HttpResponse.h/.cpp),   *)
(* reduced to what the cache and the request handler look at: the status,  *)
(* the Cache-Control directives, Expires, Vary, the validator (ETag or     *)
(* Last-Modified) and an opaque body.  Parsing itself is not modelled      *)
(* here: a value of this type is a response parse_response has accepted.   *)
(***************************************************************************)
EXTENDS Integers

CONSTANTS
  NoHeader,     \* the header is absent or empty: get_header returns ""
  BadDate,      \* an Expires text that strptime cannot parse
  Body,         \* the payloads an origin can send
  Validator,    \* the values of ETag / Last-Modified
  VaryValue     \* the values of Vary

Status == {"200 OK", "200 Connection Established", "304 Not Modified",
           "400 Bad Request", "404 Not Found", "502 Bad Gateway"}

Directive == {"no-store", "private", "must-revalidate", "max-age", "public"}

(* cache_control is the set of directives in the header, {} when it is     *)
(* absent; max_age is read only when "max-age" is among them.              *)
HttpResponse ==
  [status        : Status,
   cache_control : SUBSET Directive,
   max_age       : Int,
   expires       : Int \cup {NoHeader, BadDate},
   vary          : VaryValue \cup {NoHeader},
   validator     : Validator \cup {NoHeader},
   body          : Body]

HeaderAssumption ==
  /\ NoHeader \notin Int \cup VaryValue \cup Validator
  /\ BadDate \notin Int

(* Seeded fault: private is not looked for. *)
is_storable(r) ==
  /\ r.status = "200 OK"
  /\ "no-store" \notin r.cache_control

(* HttpResponse::is_cacheable.  It also sets the flag requires_validation, *)
(* which nothing reads.                                                    *)
is_cacheable(r) ==
  /\ r.status = "200 OK"
  /\ r.cache_control \cap {"no-store", "private"} = {}
=============================================================================
