-------------------------------- MODULE MCApp -------------------------------
(***************************************************************************)
(* App for TLC: two requests of any kind side by side, preflights and      *)
(* unknown hosts among them.  The requests share nothing but Cloudflare,   *)
(* which may refuse a call at any time.                                    *)
(***************************************************************************)
EXTENDS App, TLC

CONSTANTS r1, r2

AllKinds == DOMAIN Steps
=============================================================================
