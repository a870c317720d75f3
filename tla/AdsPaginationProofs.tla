------------------------ MODULE AdsPaginationProofs -------------------------
(***************************************************************************)
(* Theorems about AdsPagination, for any ads, times, users and page sizes. *)
(* The first part is about the order of a listing and the rows that LIMIT  *)
(* leaves of a finite set; the second about walks.                         *)
(***************************************************************************)
EXTENDS AdsPagination, Integers, FiniteSetTheorems, FunctionTheorems, TLAPS

-----------------------------------------------------------------------------
(* The order of a listing. *)

\* A table: finitely many rows, no two with the same id.
Table(S) == S \subseteq Rows /\ IsFiniteSet(S) /\ \A x, y \in S : x.id = y.id => x = y

LEMMA RowFields ==
  ASSUME NEW x \in Rows
  PROVE  x.id \in Nat /\ x.at \in Nat /\ x.id \in Ids
  BY PaginationAssumption DEF PaginationAssumption, Rows

LEMMA BeforeIsOrder ==
  /\ \A x \in Rows : ~Before(x, x)
  /\ \A x, y \in Rows : Before(x, y) => ~Before(y, x)
  /\ \A x, y, z \in Rows : Before(x, y) /\ Before(y, z) => Before(x, z)
  BY RowFields DEF Before

LEMMA BeforeIsTotal ==
  ASSUME NEW S, Table(S), NEW x \in S, NEW y \in S, x # y
  PROVE  Before(x, y) \/ Before(y, x)
<1>1. x.id # y.id /\ x \in Rows /\ y \in Rows
  BY DEF Table
<1> QED
  BY <1>1, RowFields DEF Before

LEMMA SubTable == ASSUME NEW S, Table(S), NEW T \in SUBSET S PROVE Table(T)
  BY FS_Subset DEF Table

\* Every set of naturals has a least element.
LEMMA Least ==
  ASSUME NEW N \in SUBSET Nat, N # {}
  PROVE  \E n \in N : \A m \in N : n <= m
<1> DEFINE R == OpToRel(<, Nat)
<1>1. IsWellFoundedOn(R, Nat)
  BY NatLessThanWellFounded
<1>2. \A m, n \in Nat : m < n => <<m, n>> \in R
  BY DEF OpToRel
<1> HIDE DEF R
<1>3. PICK n \in N : \A m \in N : ~(<<m, n>> \in R)
  BY <1>1, WFMin
<1>4. ASSUME NEW m \in N PROVE n <= m
  <2>1. m \in Nat /\ n \in Nat /\ ~(<<m, n>> \in R)
    BY <1>3
  <2>2. ~(m < n)
    BY <2>1, <1>2
  <2> QED
    BY <2>1, <2>2
<1> QED
  BY <1>4

\* Every table that is not empty has a last row ...
LEMMA LastExists ==
  ASSUME NEW P, Table(P), P # {}
  PROVE  Last(P) \in P /\ \A y \in P : y = Last(P) \/ Before(y, Last(P))
<1> DEFINE After(x) == {y \in P : Before(x, y)}
           N == {Cardinality(After(x)) : x \in P}
<1>1. \A x \in P : IsFiniteSet(After(x)) /\ Cardinality(After(x)) \in Nat
  BY FS_Subset, FS_CardinalityType DEF Table
<1>2. N \in SUBSET Nat /\ N # {}
  BY <1>1
<1>3. PICK x \in P : \A z \in P : Cardinality(After(x)) <= Cardinality(After(z))
  <2>1. PICK n \in N : \A m \in N : n <= m
    BY <1>2, Least
  <2> QED
    BY <2>1
<1>4. ASSUME NEW y \in P, y # x, ~Before(y, x)
      PROVE  FALSE
  <2>1. Before(x, y) /\ x \in Rows /\ y \in Rows
    BY <1>4, BeforeIsTotal DEF Table
  <2>2. After(y) \subseteq After(x)
    BY <2>1, BeforeIsOrder DEF Table
  <2>3. y \in After(x) /\ y \notin After(y)
    BY <2>1, BeforeIsOrder
  <2>4. Cardinality(After(y)) <= Cardinality(After(x)) /\ Cardinality(After(x)) # Cardinality(After(y))
    BY <1>1, <2>2, <2>3, FS_Subset
  <2> QED
    BY <1>1, <1>3, <2>4
<1>5. \E z \in P : \A y \in P : y = z \/ Before(y, z)
  BY <1>4
<1> QED
  BY <1>5 DEF Last

\* ... and a first one.
LEMMA FirstExists ==
  ASSUME NEW P, Table(P), P # {}
  PROVE  \E x \in P : \A y \in P : y = x \/ Before(x, y)
<1> DEFINE Pre(x) == {y \in P : Before(y, x)}
           N == {Cardinality(Pre(x)) : x \in P}
<1>1. \A x \in P : IsFiniteSet(Pre(x)) /\ Cardinality(Pre(x)) \in Nat
  BY FS_Subset, FS_CardinalityType DEF Table
<1>2. N \in SUBSET Nat /\ N # {}
  BY <1>1
<1>3. PICK x \in P : \A z \in P : Cardinality(Pre(x)) <= Cardinality(Pre(z))
  <2>1. PICK n \in N : \A m \in N : n <= m
    BY <1>2, Least
  <2> QED
    BY <2>1
<1>4. ASSUME NEW y \in P, y # x, ~Before(x, y)
      PROVE  FALSE
  <2>1. Before(y, x) /\ x \in Rows /\ y \in Rows
    BY <1>4, BeforeIsTotal DEF Table
  <2>2. Pre(y) \subseteq Pre(x)
    BY <2>1, BeforeIsOrder DEF Table
  <2>3. y \in Pre(x) /\ y \notin Pre(y)
    BY <2>1, BeforeIsOrder
  <2>4. Cardinality(Pre(y)) <= Cardinality(Pre(x)) /\ Cardinality(Pre(x)) # Cardinality(Pre(y))
    BY <1>1, <2>2, <2>3, FS_Subset
  <2> QED
    BY <1>1, <1>3, <2>4
<1> QED
  BY <1>4

-----------------------------------------------------------------------------
(* ORDER BY .. LIMIT n. *)

\* The rows of S that come before x.
Ahead(S, x) == {y \in S : Before(y, x)}

LEMMA AheadIsFinite ==
  ASSUME NEW S, Table(S), NEW x
  PROVE  IsFiniteSet(Ahead(S, x)) /\ Cardinality(Ahead(S, x)) \in Nat
<1>1. Ahead(S, x) \in SUBSET S
  BY DEF Ahead
<1> QED
  BY <1>1, FS_Subset, FS_CardinalityType DEF Table

LEMMA InFirst ==
  ASSUME NEW S, NEW n
  PROVE  \A x : x \in First(S, n) <=> x \in S /\ Cardinality(Ahead(S, x)) < n
  BY DEF First, Ahead

\* What comes before one of the first n is one of them.
LEMMA FirstIsClosed ==
  ASSUME NEW S, Table(S), NEW n \in Nat, NEW x \in First(S, n),
         NEW y \in S, Before(y, x)
  PROVE  y \in First(S, n)
<1>1. x \in S /\ Cardinality(Ahead(S, x)) < n
  BY InFirst
<1>2. Ahead(S, y) \in SUBSET Ahead(S, x)
  BY <1>1, BeforeIsOrder DEF Ahead, Table
<1>3. Cardinality(Ahead(S, y)) <= Cardinality(Ahead(S, x))
  BY <1>2, AheadIsFinite, FS_Subset
<1>4. Cardinality(Ahead(S, y)) \in Nat /\ Cardinality(Ahead(S, x)) \in Nat
  BY AheadIsFinite
<1> QED
  BY <1>1, <1>3, <1>4, InFirst

LEMMA FirstIsTable ==
  ASSUME NEW S, Table(S), NEW n
  PROVE  First(S, n) \in SUBSET S /\ Table(First(S, n))
<1>1. First(S, n) \in SUBSET S
  BY DEF First
<1> QED
  BY <1>1, SubTable

\* LIMIT n leaves at most n rows ...
LEMMA FirstIsSmall ==
  ASSUME NEW S, Table(S), NEW n \in Nat
  PROVE  Cardinality(First(S, n)) \in Nat /\ Cardinality(First(S, n)) <= n
<1> DEFINE F == First(S, n)
<1>1. F \in SUBSET S /\ Table(F)
  BY FirstIsTable
<1>2. Cardinality(F) \in Nat
  BY <1>1, FS_CardinalityType DEF Table
<1>3. CASE F = {}
  BY <1>3, FS_EmptySet
<1>4. CASE F # {}
  <2> DEFINE z == Last(F)
  <2>1. z \in F /\ \A y \in F : y = z \/ Before(y, z)
    BY <1>1, <1>4, LastExists
  <2>2. z \in S /\ Cardinality(Ahead(S, z)) < n
    BY <2>1, InFirst
  <2>3. F = Ahead(S, z) \cup {z}
    BY <1>1, <2>1, FirstIsClosed DEF Ahead
  <2>4. z \notin Ahead(S, z)
    BY <2>2, BeforeIsOrder DEF Ahead, Table
  <2>5. IsFiniteSet(Ahead(S, z)) /\ Cardinality(Ahead(S, z)) \in Nat
    BY AheadIsFinite
  <2>6. Cardinality(F) = Cardinality(Ahead(S, z)) + 1
    BY <2>3, <2>4, <2>5, FS_AddElement
  <2> QED
    BY <1>2, <2>2, <2>5, <2>6
<1> QED
  BY <1>2, <1>3, <1>4

\* ... at least one if there is any ...
LEMMA FirstIsNotEmpty ==
  ASSUME NEW S, Table(S), S # {}, NEW n \in Nat \ {0}
  PROVE  First(S, n) # {}
<1>1. PICK x \in S : \A y \in S : y = x \/ Before(x, y)
  BY FirstExists
<1>2. Ahead(S, x) = {}
  BY <1>1, BeforeIsOrder DEF Ahead, Table
<1>3. Cardinality(Ahead(S, x)) = 0
  BY <1>2, FS_EmptySet
<1> QED
  BY <1>3, InFirst

\* ... and exactly n if it leaves any out, those being the ones that come
\* after all of them.
LEMMA LeftOut ==
  ASSUME NEW S, Table(S), NEW n \in Nat, NEW x \in S, x \notin First(S, n)
  PROVE  /\ \A y \in First(S, n) : Before(y, x)
         /\ Cardinality(First(S, n + 1)) > n
<1> DEFINE F == First(S, n)
           D == S \ F
<1>1. F \in SUBSET S /\ Table(F) /\ Table(D) /\ D # {}
  BY FirstIsTable, SubTable
<1>2. \A y \in F, z \in D : Before(y, z)
  BY <1>1, BeforeIsTotal, FirstIsClosed
<1>3. PICK f \in D : \A z \in D : z = f \/ Before(f, z)
  BY <1>1, FirstExists
<1>4. Ahead(S, f) = F
  <2>1. ASSUME NEW y \in S, Before(y, f) PROVE y \in F
    BY <1>3, <2>1, BeforeIsOrder DEF Table
  <2> QED
    BY <1>1, <1>2, <2>1 DEF Ahead
<1>5. Cardinality(F) = n
  <2>1. Cardinality(F) \in Nat /\ Cardinality(F) <= n
    BY FirstIsSmall
  <2>2. ~(Cardinality(F) < n)
    BY <1>4, InFirst
  <2> QED
    BY <2>1, <2>2
<1>6. F \cup {f} \in SUBSET First(S, n + 1)
  <2>1. f \in First(S, n + 1)
    BY <1>4, <1>5, InFirst
  <2>2. \A y \in F : y \in S /\ Before(y, f)
    BY <1>1, <1>2
  <2>3. n + 1 \in Nat
    OBVIOUS
  <2> QED
    BY <2>1, <2>2, <2>3, FirstIsClosed
<1>7. Cardinality(F \cup {f}) = n + 1
  BY <1>1, <1>5, FS_AddElement DEF Table
<1>8. Cardinality(First(S, n + 1)) \in Nat /\ n + 1 <= Cardinality(First(S, n + 1))
  <2>1. IsFiniteSet(First(S, n + 1))
    BY FirstIsTable DEF Table
  <2> QED
    BY <1>6, <1>7, <2>1, FS_Subset, FS_CardinalityType
<1> QED
  BY <1>2, <1>8

\* The page of a request is what LIMIT n would have left, though n + 1 rows
\* were read; one row was read too many just if there are more to show.
LEMMA Lookahead ==
  ASSUME NEW S, Table(S), NEW n \in Nat
  PROVE  /\ First(First(S, n + 1), n) = First(S, n)
         /\ Cardinality(First(S, n + 1)) > n <=> \E x \in S : x \notin First(S, n)
<1> DEFINE G == First(S, n + 1)
<1>1. G \in SUBSET S /\ n + 1 \in Nat
  BY FirstIsTable
<1>2. \A x \in G : Ahead(G, x) = Ahead(S, x)
  BY <1>1, FirstIsClosed DEF Ahead
<1>3. First(S, n) \in SUBSET G
  <2>1. ASSUME NEW x \in First(S, n) PROVE x \in G
    BY InFirst, AheadIsFinite
  <2> QED
    BY <2>1
<1>4. First(G, n) = First(S, n)
  <2>1. \A x : x \in First(G, n) <=> x \in G /\ Cardinality(Ahead(G, x)) < n
    BY InFirst
  <2>2. \A x : x \in First(S, n) <=> x \in S /\ Cardinality(Ahead(S, x)) < n
    BY InFirst
  <2>3. \A x : x \in First(G, n) <=> x \in First(S, n)
    BY <1>1, <1>2, <1>3, <2>1, <2>2
  <2>4. First(G, n) \in SUBSET G /\ First(S, n) \in SUBSET S
    BY <2>1, <2>2
  <2> QED
    BY <2>3, <2>4
<1>5. ASSUME Cardinality(G) > n PROVE \E x \in S : x \notin First(S, n)
  <2>1. Cardinality(First(S, n)) <= n /\ Cardinality(First(S, n)) \in Nat
    BY FirstIsSmall
  <2>2. G # First(S, n)
    BY <1>5, <2>1
  <2> QED
    BY <1>1, <1>3, <2>2
<1>6. ASSUME NEW x \in S, x \notin First(S, n) PROVE Cardinality(G) > n
  BY <1>6, LeftOut
<1> QED
  BY <1>4, <1>5, <1>6

-----------------------------------------------------------------------------
(* The inductive invariant. *)

\* Where the rest of a walk begins: behind the cursor, and while a page is
\* read behind the row that its first statement found.
Edge == IF pc = "sought" THEN after ELSE cursor

\* An ad of the beginning that is still there is listed or lies ahead.
NothingLost ==
    \A x \in there \cap rows :
       \/ x \in listed
       \/ pc # "done" /\ (Edge = None \/ Before(Edge, x))

\* Unless a cursor was lost, what is listed lies at or before the cursor.
NothingAhead ==
    /\ pc = "start" => listed = {}
    /\ pc # "done" /\ ~restarted =>
          \A x \in listed : cursor # None /\ (x = cursor \/ Before(x, cursor))
    /\ pc = "sought" /\ ~restarted => after = cursor

IInv ==
    /\ TypeOK
    /\ Table(rows)
    /\ \A x \in there : x.owner = Walker
    /\ pc = "start" => there = {} /\ cursor = None
    /\ NothingLost
    /\ NothingAhead

LEMMA InitInv == Init => IInv
<1> SUFFICES ASSUME Init PROVE IInv
  OBVIOUS
<1>1. Table(rows)
  BY FS_EmptySet DEF Init, Table
<1> QED
  BY <1>1 DEF Init, IInv, TypeOK, NothingLost, NothingAhead

LEMMA MatchingIsTable ==
  ASSUME Table(rows), NEW c
  PROVE  Table(Matching(c)) /\ Matching(c) \in SUBSET rows /\ Matching(c) \in SUBSET Own
<1>1. Matching(c) \in SUBSET rows /\ Matching(c) \in SUBSET Own
  BY DEF Matching, Own
<1> QED
  BY <1>1, SubTable

\* What a page is, whatever its size: all that matches, or a part of it with
\* a last row that all the rest comes after.
LEMMA Page ==
  ASSUME Table(rows), List
  PROVE  /\ page' \in SUBSET Matching(after) /\ listed' = listed \cup page'
         /\ \/ pc' = "done" /\ cursor' = None /\ page' = Matching(after)
            \/ /\ pc' = "paged" /\ cursor' \in page'
               /\ page' # Matching(after)
               /\ \A y \in page' : y = cursor' \/ Before(y, cursor')
               /\ \A x \in Matching(after) \ page' : Before(cursor', x)
<1> DEFINE M == Matching(after)
<1>1. PICK limit \in Limits :
        /\ page' = First(First(M, limit + 1), limit)
        /\ listed' = listed \cup page'
        /\ cursor' = IF Cardinality(First(M, limit + 1)) > limit THEN Last(page') ELSE None
        /\ pc' = IF Cardinality(First(M, limit + 1)) > limit THEN "paged" ELSE "done"
  BY DEF List
<1>2. limit \in Nat \ {0} /\ Table(M)
  BY PaginationAssumption, MatchingIsTable DEF PaginationAssumption
<1>3. /\ page' = First(M, limit)
      /\ Cardinality(First(M, limit + 1)) > limit <=> \E x \in M : x \notin page'
  BY <1>1, <1>2, Lookahead
<1>4. page' \in SUBSET M /\ Table(page')
  BY <1>2, <1>3, FirstIsTable
<1>5. CASE page' = M
  BY <1>1, <1>3, <1>5
<1>6. CASE page' # M
  <2>1. cursor' = Last(page') /\ pc' = "paged" /\ M # {}
    BY <1>1, <1>3, <1>4, <1>6
  <2>2. page' # {}
    BY <1>2, <1>3, <2>1, FirstIsNotEmpty
  <2>3. cursor' \in page' /\ \A y \in page' : y = cursor' \/ Before(y, cursor')
    BY <1>4, <2>1, <2>2, LastExists
  <2>4. \A x \in M \ page' : Before(cursor', x)
    BY <1>2, <1>3, <2>3, LeftOut
  <2> QED
    BY <1>1, <1>4, <1>6, <2>1, <2>3, <2>4
<1> QED
  BY <1>5, <1>6

LEMMA InsertInv ==
  ASSUME IInv, NEW x \in Rows, Insert(x)
  PROVE  IInv'
<1> USE DEF IInv
<1>1. Table(rows')
  <2>1. IsFiniteSet(rows')
    BY FS_AddElement DEF Table, Insert
  <2> QED
    BY <2>1 DEF Table, Insert, TypeOK
<1>2. TypeOK'
  BY <1>1, RowFields DEF TypeOK, Table, Insert, walk
<1>3. there' \cap rows' = there \cap rows
  BY DEF TypeOK, Insert, walk
<1>4. UNCHANGED <<pc, cursor, after, page, listed, there, restarted>>
  BY DEF Insert, walk
<1>5. NothingLost'
  BY <1>3, <1>4 DEF NothingLost, Edge
<1>6. NothingAhead'
  BY <1>4 DEF NothingAhead
<1> QED
  BY <1>1, <1>2, <1>4, <1>5, <1>6

LEMMA DeleteInv ==
  ASSUME IInv, NEW x \in Rows, Delete(x)
  PROVE  IInv'
<1> USE DEF IInv
<1>1. rows' \in SUBSET rows /\ Table(rows')
  <2>1. rows' \in SUBSET rows
    BY DEF Delete
  <2> QED
    BY <2>1, SubTable
<1>2. UNCHANGED <<born, pc, cursor, after, page, listed, there, restarted>>
  BY DEF Delete, walk
<1>3. TypeOK'
  BY <1>1, <1>2 DEF TypeOK
<1>4. NothingLost'
  BY <1>1, <1>2 DEF NothingLost, Edge
<1>5. NothingAhead'
  BY <1>2 DEF NothingAhead
<1> QED
  BY <1>1, <1>2, <1>3, <1>4, <1>5

LEMMA StartInv == ASSUME IInv, Start PROVE IInv'
<1>1. TypeOK'
  BY DEF IInv, TypeOK, Start, table, Own
<1>2. NothingLost' /\ NothingAhead'
  BY DEF IInv, Start, table, NothingLost, NothingAhead, Edge
<1> QED
  BY <1>1, <1>2 DEF IInv, Start, table, Own, Table

LEMMA SeekInv == ASSUME IInv, Seek PROVE IInv'
<1> USE DEF IInv
<1>1. UNCHANGED <<rows, born, cursor, page, listed, there>> /\ pc = "asked" /\ pc' = "sought"
  BY DEF Seek, table
<1>2. after' = (IF cursor \in Own THEN cursor ELSE None) /\ after' \in {cursor, None}
  BY DEF Seek
<1>3. restarted' = (restarted \/ (cursor # None /\ cursor \notin Own))
  BY DEF Seek
<1>4. TypeOK'
  BY <1>1, <1>2, <1>3 DEF TypeOK
<1>5. NothingLost'
  BY <1>1, <1>2 DEF NothingLost, Edge
<1>6. NothingAhead'
  BY <1>1, <1>2, <1>3 DEF NothingAhead
<1> QED
  BY <1>1, <1>4, <1>5, <1>6 DEF Table

LEMMA ContinueInv == ASSUME IInv, Continue PROVE IInv'
<1> USE DEF IInv
<1>1. UNCHANGED <<rows, born, cursor, after, page, listed, there, restarted>>
  BY DEF Continue, table, walk
<1>2. pc = "paged" /\ pc' = "asked"
  BY DEF Continue
<1>3. TypeOK'
  BY <1>1, <1>2 DEF TypeOK
<1>4. NothingLost' /\ NothingAhead'
  BY <1>1, <1>2 DEF NothingLost, NothingAhead, Edge
<1> QED
  BY <1>1, <1>2, <1>3, <1>4 DEF Table

LEMMA ListInv == ASSUME IInv, List PROVE IInv'
<1> USE DEF IInv
<1>1. UNCHANGED <<rows, born, after, there, restarted>> /\ pc = "sought"
  BY DEF List, table
<1>2. /\ page' \in SUBSET Matching(after) /\ listed' = listed \cup page'
      /\ \/ pc' = "done" /\ cursor' = None /\ page' = Matching(after)
         \/ /\ pc' = "paged" /\ cursor' \in page'
            /\ \A y \in page' : y = cursor' \/ Before(y, cursor')
            /\ \A x \in Matching(after) \ page' : Before(cursor', x)
  BY Page
<1>3. Matching(after) \in SUBSET rows /\ Matching(after) \in SUBSET Rows
  BY MatchingIsTable DEF Table
<1>4. cursor' \in Rows \cup {None}
  BY <1>2, <1>3
<1>5. TypeOK'
  BY <1>1, <1>2, <1>3, <1>4 DEF TypeOK
<1>6. NothingLost'
  <2> SUFFICES ASSUME NEW x \in there \cap rows, x \notin listed'
               PROVE  pc' = "paged" /\ Before(cursor', x)
    BY <1>1 DEF NothingLost, Edge
  <2>1. x \in Matching(after)
    BY <1>1, <1>2 DEF NothingLost, Edge, Matching, Own
  <2> QED
    BY <1>2, <2>1
<1>7. NothingAhead'
  <2>1. CASE pc' = "done"
    BY <2>1 DEF NothingAhead
  <2>2. CASE pc' = "paged" /\ restarted
    BY <1>1, <2>2 DEF NothingAhead
  <2>3. CASE pc' = "paged" /\ ~restarted
    <3>1. cursor' \in page' /\ cursor' \in Rows /\ cursor' # None
      BY <1>2, <1>3, <2>3, NoneAssumption DEF NoneAssumption
    <3>2. after = cursor /\ cursor \in Rows \cup {None}
      BY <1>1, <2>3 DEF NothingAhead, TypeOK
    <3>3. ASSUME NEW x \in listed PROVE Before(x, cursor')
      <4>1. cursor # None /\ (x = cursor \/ Before(x, cursor)) /\ x \in Rows /\ cursor \in Rows
        BY <1>1, <2>3, <3>2 DEF NothingAhead, TypeOK
      <4>2. Before(cursor, cursor')
        BY <1>2, <3>1, <3>2, <4>1 DEF Matching
      <4> QED
        BY <3>1, <4>1, <4>2, BeforeIsOrder
    <3>4. \A x \in listed' : x = cursor' \/ Before(x, cursor')
      BY <1>2, <2>3, <3>3
    <3> QED
      BY <2>3, <3>1, <3>4 DEF NothingAhead
  <2> QED
    BY <1>2, <2>1, <2>2, <2>3
<1> QED
  BY <1>1, <1>2, <1>5, <1>6, <1>7 DEF Table

LEMMA StepInv == IInv /\ [Next]_vars => IInv'
<1> SUFFICES ASSUME IInv, [Next]_vars PROVE IInv'
  OBVIOUS
<1>1. ASSUME NEW x \in Rows, Insert(x) PROVE IInv'
  BY <1>1, InsertInv
<1>2. ASSUME NEW x \in Rows, Delete(x) PROVE IInv'
  BY <1>2, DeleteInv
<1>3. CASE Start
  BY <1>3, StartInv
<1>4. CASE Seek
  BY <1>4, SeekInv
<1>5. CASE List
  BY <1>5, ListInv
<1>6. CASE Continue
  BY <1>6, ContinueInv
<1>7. CASE UNCHANGED vars
  BY <1>7 DEF vars, IInv, TypeOK, Table, NothingLost, NothingAhead, Edge
<1> QED
  BY <1>1, <1>2, <1>3, <1>4, <1>5, <1>6, <1>7 DEF Next, Walk

\* The invariant holds in every state of every walk.
THEOREM Invariant == Spec => []IInv
  BY InitInv, StepInv, PTL DEF Spec

-----------------------------------------------------------------------------
(* The theorems. *)

\* Every reachable state has its type; in particular no two rows of the
\* table share an id, and the cursor of a page is one of its items.
THEOREM TypeCorrect == Spec => []TypeOK
<1>1. IInv => TypeOK
  BY DEF IInv
<1> QED
  BY Invariant, <1>1, PTL

\* A finished walk has shown every ad that was there when it began and still
\* is (list_ads, ads.py:134-154), for any page sizes, even if they change
\* from page to page, and any inserts and deletes in between.
THEOREM WalksAreComplete == Spec => []WalkComplete
<1>1. IInv => WalkComplete
  BY DEF IInv, NothingLost, WalkComplete
<1> QED
  BY Invariant, <1>1, PTL

\* No ad is shown twice in one walk, unless a cursor's ad was deleted.
THEOREM PagesAreDisjoint == Spec => NothingTwice
<1>1. ASSUME IInv, [Next]_vars, pc = "sought", pc' # "sought", ~restarted
      PROVE  page' \cap listed = {}
  <2>1. List
    BY <1>1 DEF Next, Walk, Insert, Delete, Start, Seek, Continue, walk, vars
  <2>2. page' \in SUBSET Matching(cursor) /\ page' \in SUBSET Rows
    <3>1. after = cursor /\ Table(rows)
      BY <1>1 DEF IInv, NothingAhead
    <3> QED
      BY <2>1, <3>1, Page, MatchingIsTable DEF Table
  <2>3. ASSUME NEW x \in page', x \in listed PROVE FALSE
    <3>1. cursor # None /\ (x = cursor \/ Before(x, cursor)) /\ cursor \in Rows
      BY <1>1, <2>3 DEF IInv, NothingAhead, TypeOK
    <3>2. Before(cursor, x) /\ x \in Rows
      BY <2>2, <2>3, <3>1 DEF Matching
    <3> QED
      BY <3>1, <3>2, BeforeIsOrder
  <2> QED
    BY <2>3
<1>2. IInv /\ [Next]_vars =>
        [pc = "sought" /\ pc' # "sought" /\ ~restarted => page' \cap listed = {}]_vars
  BY <1>1
<1> QED
  BY Invariant, <1>2, PTL DEF Spec, NothingTwice

\* A page has a next_cursor exactly if there was another ad to show when it
\* was read ("null means there are no more results", schemas.py:181): the row
\* read beyond the limit tells both.
THEOREM NullMeansNoMore == Spec => CursorIffMore
<1>1. ASSUME IInv, [Next]_vars, pc = "sought", pc' # "sought"
      PROVE  cursor' # None <=> \E x \in Matching(after) : x \notin page'
  <2>1. List
    BY <1>1 DEF Next, Walk, Insert, Delete, Start, Seek, Continue, walk, vars
  <2>2. Table(rows)
    BY <1>1 DEF IInv
  <2>3. page' \in SUBSET Rows /\ page' \in SUBSET Matching(after)
    BY <2>1, <2>2, Page, MatchingIsTable DEF Table
  <2> QED
    BY <2>1, <2>2, <2>3, Page, NoneAssumption DEF NoneAssumption
<1>2. IInv /\ [Next]_vars =>
        [pc = "sought" /\ pc' # "sought" =>
           (cursor' # None <=> \E x \in Matching(after) : x \notin page')]_vars
  BY <1>1
<1> QED
  BY Invariant, <1>2, PTL DEF Spec, CursorIffMore
-----------------------------------------------------------------------------
(* Cursors that stay, and walks that end. *)

\* The cursor's ad is still in the table: nobody deletes it between two pages.
CursorStays == cursor # None => cursor \in rows

\* The cursor is an ad of the client's that the walk has listed; a walk that has
\* none is at its beginning, or over; and only the cursor of an ad that has gone
\* is not found.
CursorFits ==
    /\ cursor # None => cursor \in listed /\ cursor.owner = Walker
    /\ cursor = None /\ pc # "done" => listed = {}
    /\ pc = "sought" => after = cursor \/ (after = None /\ cursor \notin rows)

LEMMA ListMoves ==
  ASSUME IInv, List
  PROVE  /\ rows' = rows /\ listed' = listed \cup page' /\ page' \in SUBSET Own
         /\ \/ pc' = "done" /\ cursor' = None
            \/ pc' = "paged" /\ cursor' \in page' /\ cursor' \in Matching(after)
<1>1. page' \in SUBSET Own
  BY Page, MatchingIsTable DEF IInv
<1> QED
  BY <1>1, Page DEF IInv, List, table

LEMMA CursorAlwaysFits == Spec => []CursorFits
<1>1. Init => CursorFits
  BY DEF Init, CursorFits
<1>2. ASSUME IInv, CursorFits, [Next]_vars PROVE CursorFits'
  <2>1. CASE List
    <3>1. List /\ pc' # "sought" /\ (pc' # "done" => cursor' # None)
      <4>1. page' \in SUBSET Rows
        BY <1>2, <2>1, ListMoves DEF IInv, Table, Own
      <4> QED
        BY <1>2, <2>1, <4>1, ListMoves, NoneAssumption DEF NoneAssumption
    <3> QED
      BY <1>2, <3>1, ListMoves DEF CursorFits, Own
  <2>2. CASE Seek
    <3>1. cursor # None /\ cursor \notin Own => cursor \notin rows
      BY <1>2 DEF CursorFits, Own
    <3>2. cursor = None => cursor \notin rows
      BY <1>2, NoneAssumption DEF IInv, Table, NoneAssumption
    <3> QED
      BY <1>2, <2>2, <3>1, <3>2 DEF Seek, table, CursorFits
  <2>3. CASE Start \/ Continue \/ UNCHANGED vars
    BY <1>2, <2>3 DEF Start, Continue, table, walk, vars, CursorFits
  <2>4. ASSUME NEW x \in Rows, Insert(x) \/ Delete(x) PROVE CursorFits'
    <3>1. UNCHANGED <<pc, cursor, after, listed>>
      BY <2>4 DEF Insert, Delete, walk
    <3>2. cursor \notin rows => cursor \notin rows'
      <4>1. CASE Delete(x)
        BY <4>1 DEF Delete
      <4>2. CASE Insert(x)
        <5>1. cursor \in listed => cursor # x
          BY <1>2, <4>2 DEF IInv, TypeOK, Insert
        <5>2. cursor = None => cursor # x
          BY NoneAssumption DEF NoneAssumption
        <5> QED
          BY <1>2, <4>2, <5>1, <5>2 DEF Insert, CursorFits
      <4> QED
        BY <2>4, <4>1, <4>2
    <3> QED
      BY <1>2, <3>1, <3>2 DEF CursorFits
  <2> QED
    BY <1>2, <2>1, <2>2, <2>3, <2>4 DEF Next, Walk
<1> QED
  BY <1>1, <1>2, Invariant, PTL DEF Spec

\* While the cursor's ad is in the table, every request finds it.
LEMMA NeverRestarts == Spec /\ []CursorStays => []~restarted
<1>1. Init => ~restarted
  BY DEF Init
<1>2. ASSUME CursorFits, CursorStays, ~restarted, [Next]_vars PROVE ~restarted'
  <2>1. cursor # None => cursor \in Own
    BY <1>2 DEF CursorFits, CursorStays, Own
  <2>2. CASE Seek
    BY <1>2, <2>1, <2>2 DEF Seek
  <2>3. CASE ~Seek
    BY <1>2, <2>3 DEF Next, Walk, Insert, Delete, Start, List, Continue, walk, vars
  <2> QED
    BY <2>2, <2>3
<1> QED
  BY <1>1, <1>2, CursorAlwaysFits, PTL DEF Spec

\* The page after a cursor is the one the schema promises as long as nobody
\* deletes the cursor's ad: that is the only thing that breaks the promise
\* (list_ads, ads.py:134-142; schemas.py:179-181).
THEOREM CursorsThatStayWork == Spec /\ []CursorStays => SubsequentPage
<1>1. ASSUME IInv, ~restarted, [Next]_vars, pc = "sought", cursor # None, pc' # "sought"
      PROVE  \A x \in page' : Before(cursor, x)
  <2>1. List
    BY <1>1 DEF Next, Walk, Insert, Delete, Start, Seek, Continue, walk, vars
  <2>2. after = cursor
    BY <1>1 DEF IInv, NothingAhead
  <2>3. page' \in SUBSET Matching(after)
    BY <1>1, <2>1, Page DEF IInv
  <2> QED
    BY <1>1, <2>2, <2>3 DEF Matching
<1>2. IInv /\ ~restarted /\ [Next]_vars =>
        [pc = "sought" /\ cursor # None /\ pc' # "sought" =>
           \A x \in page' : Before(cursor, x)]_vars
  BY <1>1
<1> QED
  BY <1>2, Invariant, NeverRestarts, PTL DEF Spec, SubsequentPage

\* No two ads that a walk has met, listed or in the table, share an id.
IdsAreGivenOnce == \A x, y \in rows \cup listed : x.id = y.id => x = y

LEMMA IdsGivenOnce == Spec => []IdsAreGivenOnce
<1>1. Init => IdsAreGivenOnce
  BY DEF Init, IdsAreGivenOnce
<1>2. ASSUME IInv, IdsAreGivenOnce, [Next]_vars PROVE IdsAreGivenOnce'
  <2>1. ASSUME NEW x \in Rows, Insert(x) PROVE IdsAreGivenOnce'
    <3>1. /\ rows' = rows \cup {x} /\ listed' = listed
          /\ \A y \in rows \cup listed : y.id # x.id
      BY <1>2, <2>1 DEF Insert, walk, IInv, TypeOK
    <3> QED
      BY <1>2, <3>1 DEF IdsAreGivenOnce
  <2>2. CASE List
    <3>1. rows' = rows /\ listed' = listed \cup page' /\ page' \in SUBSET rows
      BY <1>2, <2>2, Page, MatchingIsTable DEF IInv, List, table
    <3> QED
      BY <1>2, <3>1 DEF IdsAreGivenOnce
  <2>3. CASE (\E x \in Rows : Delete(x)) \/ Start \/ Seek \/ Continue \/ UNCHANGED vars
    <3>1. rows' \in SUBSET rows /\ listed' = listed
      BY <2>3 DEF Delete, Start, Seek, Continue, walk, table, vars
    <3> QED
      BY <1>2, <3>1 DEF IdsAreGivenOnce
  <2> QED
    BY <1>2, <2>1, <2>2, <2>3 DEF Next, Walk
<1> QED
  BY <1>1, <1>2, Invariant, PTL DEF Spec

\* Rows with different ids: there are not more of them than ids.
LEMMA RowsAreFew ==
  ASSUME NEW S \in SUBSET Rows, \A x, y \in S : x.id = y.id => x = y
  PROVE  IsFiniteSet(S) /\ Cardinality(S) <= Cardinality(Ids)
<1> DEFINE ident == [x \in S |-> x.id]
<1>1. ident \in Injection(S, Ids)
  <2>1. ident \in [S -> Ids]
    BY RowFields
  <2>2. \A x, y \in S : ident[x] = ident[y] => x = y
    OBVIOUS
  <2> QED
    BY <2>1, <2>2, Fun_IsInj
<1>2. IsFiniteSet(Ids)
  BY PaginationAssumption DEF PaginationAssumption
<1> QED
  BY <1>1, <1>2, FS_Injection

\* The ads that a walk has listed up to its cursor, and those it has listed that
\* have gone since, the cursor's own not counted.
Passed == {x \in listed : cursor # None /\ (x = cursor \/ Before(x, cursor))}
Lost   == (listed \ rows) \ {cursor}

Farther ==
    \/ Cardinality(Lost') > Cardinality(Lost)
    \/ Lost' = Lost /\ Cardinality(Passed') > Cardinality(Passed)

\* From one page that names a successor to the next, either more of the listed
\* ads are lost than were, or as many and the cursor has passed more of them;
\* nothing in between takes any of that back, and there are no more of either
\* than there are ids.
PagesGoOn ==
    /\ [](Cardinality(Lost) <= Cardinality(Ids) /\ Cardinality(Passed) <= Cardinality(Ids))
    /\ [][pc' # "done" =>
            IF pc = "sought" /\ pc' = "paged"
            THEN Farther ELSE Lost \subseteq Lost' /\ Passed' = Passed]_vars

LEMMA ListedAreFew ==
  ASSUME IInv, IdsAreGivenOnce, NEW S \in SUBSET listed
  PROVE  IsFiniteSet(S) /\ Cardinality(S) <= Cardinality(Ids)
<1>1. S \in SUBSET Rows /\ \A x, y \in S : x.id = y.id => x = y
  BY DEF IInv, TypeOK, IdsAreGivenOnce
<1> QED
  BY <1>1, RowsAreFew

\* A set that keeps what it has and gets more is larger.
LEMMA Grows ==
  ASSUME NEW S, NEW T, IsFiniteSet(T), S \subseteq T, S # T
  PROVE  Cardinality(T) > Cardinality(S)
<1>1. IsFiniteSet(S) /\ Cardinality(S) <= Cardinality(T) /\ Cardinality(S) # Cardinality(T)
  BY FS_Subset
<1>2. Cardinality(S) \in Nat /\ Cardinality(T) \in Nat
  BY <1>1, FS_CardinalityType
<1> QED
  BY <1>1, <1>2

\* A page that names a successor loses nothing of Lost.  If its cursor was found
\* it passes more; if not, the ad of the cursor is lost from now on.
LEMMA PageGoesOn ==
  ASSUME IInv, CursorFits, List, pc' = "paged"
  PROVE  /\ Lost \subseteq Lost'
         /\ Lost' # Lost \/ (Passed \subseteq Passed' /\ Passed' # Passed)
<1>1. /\ rows' = rows /\ listed' = listed \cup page' /\ page' \in SUBSET Own
      /\ cursor' \in page' /\ cursor' \in Matching(after)
  BY ListMoves
<1>2. cursor' \in rows /\ cursor' \in Rows /\ cursor' # None /\ listed \in SUBSET Rows
  BY <1>1, NoneAssumption DEF Own, IInv, Table, TypeOK, NoneAssumption
<1>3. Lost \subseteq Lost'
  BY <1>1, <1>2 DEF Lost
<1>4. after = cursor \/ (after = None /\ cursor \notin rows)
  BY DEF CursorFits, List
<1>5. CASE after = cursor
  <2>1. cursor # None => Before(cursor, cursor') /\ cursor \in Rows
    BY <1>1, <1>2, <1>5 DEF Matching, CursorFits
  <2>2. ASSUME NEW x \in Passed PROVE x \in Passed'
    <3>1. x \in Rows /\ x \in listed /\ (x = cursor \/ Before(x, cursor)) /\ cursor # None
      BY <1>2 DEF Passed
    <3>2. Before(x, cursor')
      BY <1>2, <2>1, <3>1, BeforeIsOrder
    <3> QED
      BY <1>1, <1>2, <3>1, <3>2 DEF Passed
  <2>3. cursor' \in Passed'
    BY <1>1, <1>2 DEF Passed
  <2>4. cursor' \notin Passed
    BY <1>2, <2>1, BeforeIsOrder DEF Passed
  <2> QED
    BY <1>3, <2>2, <2>3, <2>4
<1>6. CASE after # cursor
  <2>1. cursor \in listed /\ cursor \notin rows
    BY <1>4, <1>6 DEF CursorFits
  <2>2. cursor \in Lost' /\ cursor \notin Lost
    BY <1>1, <1>2, <2>1 DEF Lost
  <2> QED
    BY <1>3, <2>2
<1> QED
  BY <1>5, <1>6

\* A walk cannot go on for ever, whatever is inserted and deleted meanwhile: a
\* page takes it farther in an order in which it can go only so far.  Where a
\* cursor's ad has gone and the walk starts again, that ad is lost for good
\* (list_ads, ads.py:134-163).
THEOREM WalksAreBounded == Spec => PagesGoOn
<1>1. IInv /\ IdsAreGivenOnce =>
        Cardinality(Lost) <= Cardinality(Ids) /\ Cardinality(Passed) <= Cardinality(Ids)
  BY ListedAreFew DEF Lost, Passed
<1>2. ASSUME IInv, CursorFits, IdsAreGivenOnce, IdsAreGivenOnce', [Next]_vars, pc' # "done"
      PROVE  IF pc = "sought" /\ pc' = "paged"
             THEN Farther ELSE Lost \subseteq Lost' /\ Passed' = Passed
  <2>1. CASE List
    <3>1. pc = "sought" /\ pc' = "paged"
      BY <1>2, <2>1, ListMoves DEF List
    <3>2. IsFiniteSet(Lost') /\ IsFiniteSet(Passed')
      <4>1. IInv'
        BY <1>2, StepInv
      <4>2. /\ IsFiniteSet(listed')
            /\ Lost' \in SUBSET listed' /\ Passed' \in SUBSET listed'
        <5>1. listed' \in SUBSET Rows /\ \A x, y \in listed' : x.id = y.id => x = y
          BY <1>2, <4>1 DEF IInv, TypeOK, IdsAreGivenOnce
        <5>2. Lost' \in SUBSET listed' /\ Passed' \in SUBSET listed'
          BY DEF Lost, Passed
        <5> QED
          BY <5>1, <5>2, RowsAreFew
      <4> QED
        BY <4>2, FS_Subset
    <3>3. /\ Lost \subseteq Lost'
          /\ Lost' # Lost \/ (Passed \subseteq Passed' /\ Passed' # Passed)
      BY <1>2, <2>1, <3>1, PageGoesOn
    <3>4. CASE Lost' # Lost
      BY <3>1, <3>2, <3>3, <3>4, Grows DEF Farther
    <3>5. CASE Lost' = Lost
      BY <3>1, <3>2, <3>3, <3>5, Grows DEF Farther
    <3> QED
      BY <3>4, <3>5
  <2>2. CASE Start \/ Seek \/ Continue \/ UNCHANGED vars
    <3>1. /\ rows' = rows /\ listed' = listed /\ cursor' = cursor
          /\ ~(pc = "sought" /\ pc' = "paged")
      BY <2>2 DEF Start, Seek, Continue, table, walk, vars
    <3> QED
      BY <3>1 DEF Lost, Passed
  <2>3. ASSUME NEW x \in Rows, Insert(x) \/ Delete(x)
        PROVE  IF pc = "sought" /\ pc' = "paged"
               THEN Farther ELSE Lost \subseteq Lost' /\ Passed' = Passed
    <3>1. listed' = listed /\ cursor' = cursor /\ pc' = pc
      BY <2>3 DEF Insert, Delete, walk
    <3>2. ASSUME NEW y \in listed, y \notin rows PROVE y \notin rows'
      <4>1. CASE Delete(x)
        BY <3>2, <4>1 DEF Delete
      <4>2. CASE Insert(x)
        BY <1>2, <3>2, <4>2 DEF IInv, TypeOK, Insert
      <4> QED
        BY <2>3, <4>1, <4>2
    <3> QED
      BY <3>1, <3>2 DEF Lost, Passed
  <2> QED
    BY <1>2, <2>1, <2>2, <2>3 DEF Next, Walk
<1>3. IInv /\ CursorFits /\ IdsAreGivenOnce /\ IdsAreGivenOnce' /\ [Next]_vars =>
        [pc' # "done" => IF pc = "sought" /\ pc' = "paged"
                         THEN Farther ELSE Lost \subseteq Lost' /\ Passed' = Passed]_vars
  BY <1>2
<1> QED
  BY <1>1, <1>3, Invariant, CursorAlwaysFits, IdsGivenOnce, PTL DEF Spec, PagesGoOn
=============================================================================
