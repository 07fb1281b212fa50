-------------------------- MODULE MCForwardRequest --------------------------
(* Model-checking constants of ForwardRequest: the answers of origins. *)
EXTENDS ForwardRequest

Lines(kinds) == [i \in DOMAIN kinds |-> Piece(kinds[i], 1)]

status(code) == <<Piece("status", code)>>
length(n) == <<Piece("length", n), Piece("crlf", 0)>>
body(n) == [i \in 1 .. n |-> Piece("byte", i)]
chunk(n) == <<Piece("size", n)>> \o body(n) \o Lines(<<"crlf">>)
last_chunk == <<Piece("size", 0)>>
head == Lines(<<"field", "crlf">>)

with_length == status(200) \o Lines(<<"field">>) \o length(2) \o body(2)

chunks(header, trailer) ==
  status(200) \o Lines(header) \o chunk(1) \o chunk(2) \o last_chunk \o Lines(trailer)

chunked == chunks(<<"chunked", "crlf">>, <<"field", "crlf">>)

Whole == {
  with_length,
  status(200) \o length(0),
  chunked,
  (* Transfer-Encoding overrides Content-Length. *)
  chunks(<<"length", "gzip", "chunked", "crlf">>, <<"crlf">>),
  status(304) \o head,
  (* The length is of the body a 200 would have. *)
  status(304) \o length(1),
  status(200) \o head \o body(2),
  (* An interim response without a header line. *)
  status(100) \o Lines(<<"crlf">>) }

Bad == {
  status(200) \o Lines(<<"badfield", "crlf">>),
  status(200) \o Lines(<<"length">>) \o length(1) \o body(1),
  status(200) \o Lines(<<"badlength", "crlf">>) \o body(1),
  status(200) \o Lines(<<"gzip", "crlf">>) \o body(1),
  status(200) \o Lines(<<"badage">>) \o length(1) \o body(1),
  status(200) \o Lines(<<"chunked", "crlf", "badsize", "crlf">>),
  (* No CRLF after the data of the chunk. *)
  status(200) \o Lines(<<"chunked", "crlf", "size">>) \o body(2) \o last_chunk,
  (* A length, a max-age that is no number in the trailer. *)
  chunks(<<"chunked", "crlf">>, <<"length", "crlf">>),
  chunks(<<"chunked", "crlf">>, <<"badage", "crlf">>),
  (* More than the parser can count (MaxInt is 63): it takes 1 for either. *)
  status(200) \o length(129) \o body(1),
  status(200) \o Lines(<<"chunked", "crlf">>) \o <<Piece("size", 129)>> \o body(1)
    \o Lines(<<"crlf">>) \o last_chunk \o Lines(<<"crlf">>),
  (* No response at all. *)
  Lines(<<"field", "crlf">>) }

(* Alone, after the rest of something else, and before one more. *)
MCAnswer ==
  {[sent |-> m, message |-> m] : m \in Whole}
  \cup {[sent |-> Lines(<<"junk">>) \o m, message |-> m] : m \in {with_length, chunked}}
  \cup {[sent |-> m \o with_length, message |-> m] : m \in {with_length, chunked}}
  \cup {[sent |-> m, message |-> <<>>] : m \in Bad}
=============================================================================
