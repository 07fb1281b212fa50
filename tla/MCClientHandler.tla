-------------------------- MODULE MCClientHandler --------------------------
(* Model-checking constants of ClientHandler: one peer sends messages of   *)
(* every kind, the other two requests.                                     *)
EXTENDS ClientHandler, HttpGrammar, TLC

CONSTANTS c1, c2

Message(kinds) == [i \in DOMAIN kinds |-> Piece(kinds[i], 1)]

get == Message(<<"GET", "Host", "crlf">>)
no_host == Message(<<"GET", "field", "crlf">>)
bad_line == Message(<<"badline", "Host", "crlf">>)
connect == Message(<<"CONNECT", "Host", "crlf">>)

post == <<Piece("POST", 0), Piece("length", 2), Piece("Host", 0), Piece("crlf", 0),
          Piece("byte", 0), Piece("byte", 0)>>

(* It says 129, which is kept as 1 (MaxInt is 63): one byte is its body.   *)
wrapped == <<Piece("POST", 0), Piece("length", 129), Piece("Host", 0), Piece("crlf", 0),
             Piece("byte", 0)>>

chunked_head == Message(<<"POST", "Host", "length", "chunked", "crlf">>)
last_chunk == <<Piece("size", 0)>>

chunked ==
  chunked_head \o Message(<<"size">>) \o <<Piece("byte", 0)>>
  \o Message(<<"crlf">>) \o last_chunk \o Message(<<"field", "crlf">>)

bad_trailer == chunked_head \o last_chunk \o Message(<<"Host", "crlf">>)

(* No CRLF after the data of the chunk. *)
bad_chunk ==
  chunked_head \o Message(<<"size">>) \o <<Piece("byte", 0), Piece("byte", 0)>>
  \o last_chunk \o Message(<<"crlf">>)

bad_size == chunked_head \o Message(<<"badsize", "crlf">>)

(* Two peers that compete for the id counter, and one that has a tunnel    *)
(* while the other is silent.                                              *)
MCScript ==
  {c1 :> s @@ c2 :> <<get>> :
     s \in {<<post, get>>, <<wrapped, get>>, <<chunked, get>>, <<get, bad_line, get>>,
            <<no_host, get>>, <<bad_trailer, get>>, <<bad_chunk, get>>, <<bad_size, get>>}}
  \cup {c1 :> <<connect, get>> @@ c2 :> <<>>}

(* What the theorems about the parser suppose of the peers is so here.     *)
ASSUME Conversations == \A s \in MCScript : \A c \in {c1, c2} : IsConversation(s[c])

ASSUME WellFormed == \A m \in {get, post, connect, chunked} : IsRequest(m)

ASSUME IllFormed ==
  \A m \in {no_host, bad_line, bad_trailer, bad_chunk, bad_size, wrapped} : ~IsRequest(m)

MCReplies == {<<Piece("byte", 1), Piece("byte", 2)>>}
=============================================================================
