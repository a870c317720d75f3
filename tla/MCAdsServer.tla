---------------------------- MODULE MCAdsServer -----------------------------
(***************************************************************************)
(* AdsServer for TLC: more requests than connections, some of which write  *)
(* to the same row.                                                        *)
(***************************************************************************)
EXTENDS AdsServer, TLC

CONSTANTS u1, v1, v2, s1, r1, r2, r3

MCValues == {v1, v2}

Ad(title)  == [[f \in Fields |-> v1] EXCEPT !.title = title]
MCContents == {Ad(t) : t \in MCValues}
MCSeeded   == s1 :> [owner |-> u1, cols |-> Ad(v1)]

\* Seeds' version rows sort after those that requests write.
MCRank == [a \in AdIds |-> IF a \in Requests THEN 0 ELSE 1]

\* A PUT that locks the seed's row, a DELETE that waits for it.
PoolBodies ==
    {[op |-> "update", user |-> u1, key |-> None, ad |-> s1, cols |-> "title" :> v2],
     [op |-> "delete", user |-> u1, key |-> None, ad |-> s1, cols |-> None]}
=============================================================================
