-------------------------- MODULE MCRequestHandler --------------------------
(* Model-checking constants of RequestHandler. *)
EXTENDS RequestHandler, TLC

CONSTANTS t1, t2, h1, h2, u1, u2, n1, n2, none, nil, bad_date, vx, e1, e2, made_up,
          posted

OK == [status |-> "200 OK", cache_control |-> {"max-age"}, max_age |-> 1,
       expires |-> bad_date, vary |-> none, validator |-> none,
       body |-> posted]

(* Version 1 may be cached for an instant, version 2 is private; only the  *)
(* page of the first host and url comes to it.  The other url is there to  *)
(* fill the cache and to be mistaken for the first; its page has a Vary    *)
(* and is kept under a key nobody looks up.  Both hosts are asked for the  *)
(* first url.                                                              *)
MCPage ==
  [a \in {h1, h2} \X {u1, u2} |->
     [v \in 1 .. 2 |->
        [OK EXCEPT !.body = <<a[1], a[2], v>>,
                   !.vary = IF a[2] = u2 /\ v = 1 THEN vx ELSE none,
                   !.validator = IF v = 1 THEN e1 ELSE e2,
                   !.cache_control = IF v = 1 THEN {"max-age"} ELSE {"private", "max-age"}]]]

MCChanging == {<<h1, u1>>}

MCPostPage == [a \in {h1, h2} \X {u1, u2} |-> OK]

Plain == [method |-> "GET", url |-> u1, host |-> h1, validator |-> none,
          client_error_code |-> 0]

MCRequest ==
  {Plain,
   [Plain EXCEPT !.host = h2],
   [Plain EXCEPT !.url = u2],
   [Plain EXCEPT !.validator = e2],
   [Plain EXCEPT !.method = "POST"],
   [Plain EXCEPT !.method = "CONNECT"],
   [Plain EXCEPT !.client_error_code = 400]}

MCBody == ({h1, h2} \X {u1, u2} \X (1 .. 2)) \cup {posted, made_up}

Symmetry == Permutations({t1, t2}) \cup Permutations({n1, n2})
=============================================================================
