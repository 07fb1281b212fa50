--------------------------- MODULE MCCacheManager ---------------------------
(* Model-checking constants of CacheManager. *)
EXTENDS CacheManager

CONSTANTS none, bad_date, v1, etag, u1, u2, n1, n2, n3, n4, p, q

OK == [status |-> "200 OK", cache_control |-> {}, max_age |-> 0,
       expires |-> none, vary |-> none, validator |-> none, body |-> p]

MCResponse ==
  {OK,
   [OK EXCEPT !.cache_control = {"max-age"}, !.max_age = 1, !.body = q,
              !.expires = bad_date],
   [OK EXCEPT !.vary = v1, !.validator = etag],
   [OK EXCEPT !.cache_control = {"max-age"}, !.expires = 2],
   [OK EXCEPT !.cache_control = {"max-age"}],
   [OK EXCEPT !.cache_control = {"private"}]}

(* The second url is the text under which a response to the first is kept  *)
(* when it has Vary.                                                       *)
MCUrl == {u1, <<u1, v1>>}

Symmetry == Permutations({n1, n2, n3, n4})
=============================================================================
