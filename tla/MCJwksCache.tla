---------------------------- MODULE MCJwksCache -----------------------------
(***************************************************************************)
(* JwksCache for TLC: two keys, a life of two ticks, and every kind of     *)
(* token.  An hour is cut into two ticks so that a key can be withdrawn    *)
(* before, at and after the age at which the cache goes stale.             *)
(***************************************************************************)
EXTENDS JwksCache

CONSTANTS a, b

Token(alg, kid, good) == [alg |-> alg, kid |-> kid, good |-> good]

MCTokens ==
    {Token("asymmetric", a, TRUE), Token("asymmetric", b, TRUE),
     Token("asymmetric", a, FALSE), Token("asymmetric", NoKid, TRUE),
     Token("HS256", NoKid, TRUE), Token("HS256", a, FALSE),
     Token("other", NoKid, FALSE)}
=============================================================================
