--------------------------- MODULE AdsPagination ----------------------------
(***************************************************************************)
(* list_ads of routers/ads.py: a client walks through the pages of its ads *)
(* while other requests commit new ads and delete old ones.  Each page is  *)
(* two statements, the position of the cursor and the rows after it, and   *)
(* each sees what is committed when it runs (READ COMMITTED).  created_at  *)
(* is when an ad's transaction began, so an ad may turn up behind others   *)
(* that bear a later time; two ads may bear the same.                      *)
(***************************************************************************)
EXTENDS Naturals, FiniteSets

CONSTANTS Ids,     \* ids of ads, ordered as UUIDs are
          Times,   \* values of created_at
          Users,
          Walker,  \* the user who lists its ads
          Limits,  \* page sizes that the client asks for
          None

ASSUME PaginationAssumption ==
    /\ Ids \subseteq Nat /\ IsFiniteSet(Ids) /\ Times \subseteq Nat
    /\ Walker \in Users
    /\ Limits \subseteq Nat \ {0}

Rows == [id : Ids, at : Times, owner : Users]

ASSUME NoneAssumption == None \notin Rows

VARIABLES rows,      \* public.ads
          born,      \* ids that have been given out (history)
          pc,        \* "start", "asked", "sought", "paged" or "done"
          cursor,    \* the ad whose id the client passes on, or None
          after,     \* the ad after which this request lists, or None
          page,      \* the items of the last response
          listed,    \* all items of this walk (history)
          there,     \* the client's ads when the walk began (history)
          restarted  \* a cursor of this walk was not found (history)

table == <<rows, born>>
walk  == <<cursor, after, page, listed, there, restarted>>
vars  == <<rows, born, pc, cursor, after, page, listed, there, restarted>>

TypeOK ==
    /\ rows \subseteq Rows
    /\ \A x, y \in rows : x.id = y.id => x = y
    /\ born \subseteq Ids /\ \A x \in rows \cup listed \cup there : x.id \in born
    /\ pc \in {"start", "asked", "sought", "paged", "done"}
    /\ {cursor, after} \subseteq Rows \cup {None}
    /\ page \subseteq listed /\ listed \subseteq Rows
    /\ there \subseteq Rows
    /\ pc = "paged" => cursor \in page
    /\ restarted \in BOOLEAN

Init ==
    /\ rows = {} /\ born = {}
    /\ pc = "start" /\ cursor = None /\ after = None
    /\ page = {} /\ listed = {} /\ there = {}
    /\ restarted = FALSE

-----------------------------------------------------------------------------
(* The order of a listing, and the query. *)

\* ORDER BY created_at DESC, id DESC.
Before(x, y) == x.at > y.at \/ (x.at = y.at /\ x.id > y.id)

\* The first n rows of S in that order: ORDER BY .. LIMIT n.
First(S, n) == {x \in S : Cardinality({y \in S : Before(y, x)}) < n}

\* The last of them: rows[-1].
Last(P) == CHOOSE x \in P : \A y \in P : y = x \/ Before(y, x)

Own == {x \in rows : x.owner = Walker}

\* Mutant: the condition includes the cursor's own row.
MatchingFromCursor(c) == {x \in Own : c = None \/ x.id = c.id \/ Before(c, x)}

\* The rows that the WHERE clause of the page admits.
Matching(c) == {x \in Own : c = None \/ Before(c, x)}

-----------------------------------------------------------------------------
(* Other requests of any user. *)

Insert(x) ==
    /\ x.id \notin born
    /\ rows' = rows \cup {x}
    /\ born' = born \cup {x.id}
    /\ UNCHANGED <<pc, walk>>

Delete(x) ==
    /\ x \in rows
    /\ rows' = rows \ {x}
    /\ UNCHANGED <<born, pc, walk>>

-----------------------------------------------------------------------------
(* The walk. *)

\* The client asks for the first page.
Start ==
    /\ pc = "start" /\ pc' = "asked"
    /\ there' = Own
    /\ UNCHANGED <<table, cursor, after, page, listed, restarted>>

\* The first statement, when there is a cursor: its created_at, found if the
\* ad is still there.
Seek ==
    /\ pc = "asked" /\ pc' = "sought"
    /\ after' = IF cursor \in Own THEN cursor ELSE None
    /\ restarted' = (restarted \/ (cursor # None /\ cursor \notin Own))
    /\ UNCHANGED <<table, cursor, page, listed, there>>

\* Mutant: the cursor is taken from the row that was read too many.
ListOneTooFar ==
    /\ pc = "sought"
    /\ \E limit \in Limits :
          LET found == First(Matching(after), limit + 1)
              items == First(found, limit)
              more  == Cardinality(found) > limit IN
          /\ page' = items
          /\ listed' = listed \cup items
          /\ cursor' = IF more THEN Last(found) ELSE None
          /\ pc' = IF more THEN "paged" ELSE "done"
    /\ UNCHANGED <<table, after, there, restarted>>

\* Mutant: only limit rows are read, so no page ever has a successor.
ListNoLookahead ==
    /\ pc = "sought"
    /\ \E limit \in Limits :
          LET items == First(Matching(after), limit) IN
          /\ page' = items
          /\ listed' = listed \cup items
    /\ cursor' = None
    /\ pc' = "done"
    /\ UNCHANGED <<table, after, there, restarted>>

\* The second statement reads one row more than the limit, to see whether
\* there are more; the response names its last item as the next cursor.
List ==
    /\ pc = "sought"
    /\ \E limit \in Limits :
          LET found == First(Matching(after), limit + 1)
              items == First(found, limit)
              more  == Cardinality(found) > limit IN
          /\ page' = items
          /\ listed' = listed \cup items
          /\ cursor' = IF more THEN Last(items) ELSE None
          /\ pc' = IF more THEN "paged" ELSE "done"
    /\ UNCHANGED <<table, after, there, restarted>>

\* The client asks for the page after next_cursor.
Continue ==
    /\ pc = "paged" /\ pc' = "asked"
    /\ UNCHANGED <<table, walk>>

Walk == Start \/ Seek \/ List \/ Continue

Next == Walk \/ \E x \in Rows : Insert(x) \/ Delete(x)

Spec == Init /\ [][Next]_vars

\* Statements end, and the client goes on to the last page.
FairSpec == Spec /\ WF_vars(Walk)

-----------------------------------------------------------------------------
(* Properties. *)

\* A finished walk has shown every ad that was there when it began and still
\* is, whatever was inserted or deleted meanwhile (list_ads, ads.py:134-154).
WalkComplete == pc = "done" => there \cap rows \subseteq listed

\* No ad is shown twice in one walk, unless a cursor's ad was deleted.
NothingTwice ==
    [][pc = "sought" /\ pc' # "sought" /\ ~restarted => page' \cap listed = {}]_vars

\* A page has a next_cursor exactly if there was another ad to show when it
\* was read ("null means there are no more results", schemas.py:181).
CursorIffMore ==
    [][pc = "sought" /\ pc' # "sought" =>
         (cursor' # None <=> \E x \in Matching(after) : x \notin page')]_vars

\* A walk comes to its last page.
WalkEnds == pc = "asked" ~> pc = "done"

\* "Pass it as ?cursor=... on the next request to fetch the subsequent page"
\* (schemas.py:179-181): what follows a cursor lies after it.
SubsequentPage ==
    [][pc = "sought" /\ cursor # None /\ pc' # "sought" =>
         \A x \in page' : Before(cursor, x)]_vars
=============================================================================
