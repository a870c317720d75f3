---------------------------- MODULE MCAdsRouter -----------------------------
(***************************************************************************)
(* Instances of AdsRouter for TLC.  One seed ad of user u1; titles v1 and  *)
(* v2; the description may also be null.  Each workload is the set of      *)
(* requests that clients choose from, chosen so that a run's properties    *)
(* have something to break.                                                *)
(***************************************************************************)
EXTENDS AdsRouter, TLC

CONSTANTS u1, u2, v1, v2, k1, k2, s1, r1, r2, r3, r4

MCUsers  == {u1, u2}
MCValues == {v1, v2}

\* Every column but the title and the description is v1 throughout.
Ad(title, description) ==
    [[f \in Fields |-> v1] EXCEPT !.title = title, !.description = description]

MCContents == {Ad(t, d) : t \in MCValues, d \in MCValues \cup {Null}}
MCSeeded   == s1 :> [owner |-> u1, cols |-> Ad(v1, v1)]

\* Seeds' version rows sort after those that requests write.
MCRank == [a \in AdIds |-> IF a \in Requests THEN 0 ELSE 1]

Create(u, k, t)     == [op |-> "create", user |-> u, key |-> k, ad |-> None, cols |-> Ad(t, v1)]
Update(u, a, patch) == [op |-> "update", user |-> u, key |-> None, ad |-> a, cols |-> patch]
Other(op, u, a)     == [op |-> op, user |-> u, key |-> None, ad |-> a, cols |-> None]

Patches == {"title" :> v2, "title" :> v1, "description" :> v2, "title" :> Null,
            "metadata" :> Null}

\* Edits, reads and deletes of one ad, two owners' creates under one key.
OverlapBodies ==
    {Create(u1, k1, v1), Create(u2, k1, v2), Create(u1, k2, v2), Create(u1, None, v1)}
    \cup {Update(u1, s1, p) : p \in Patches}
    \cup {Update(u2, s1, "title" :> v2)}
    \cup {Update(u1, r, "title" :> v2) : r \in Requests}
    \cup {Other(op, u1, s1) : op \in {"get", "versions"}}
    \cup {Other("delete", u1, a) : a \in {s1} \cup Requests}

\* One client's work on the ads it creates under one key, and on the seed,
\* from several tabs at once.
TurnsBodies ==
    {Create(u1, k1, v1), Create(u1, k1, v2), Create(u1, None, v1)}
    \cup {Update(u1, a, p) : a \in {s1} \cup Requests,
                             p \in {"title" :> v2, "title" :> v1, "description" :> Null}}
    \cup {Other("get", u1, r) : r \in Requests}
    \cup {Other("delete", u1, a) : a \in {s1} \cup Requests}

\* Two sends of the same POST.
RetryBodies == {Create(u1, k1, v1)}

\* Edits of the seed's title and description.
EditBodies == {Update(u1, s1, p) : p \in {"title" :> v2, "title" :> v1, "description" :> v2}}

\* A POST, and a GET of what it created.
CreateGetBodies == {Create(u1, None, v1)} \cup {Other("get", u1, r) : r \in Requests}

Symmetric == Permutations(Requests)
=============================================================================
