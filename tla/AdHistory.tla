----------------------------- MODULE AdHistory ------------------------------
(***************************************************************************)
(* What the ads API promises about an ad and its version history, with no  *)
(* transactions, sessions or requests: three atomic operations on the two  *)
(* tables.  AdsRouter implements Spec.  StrictSpec is the stronger promise *)
(* of the docstring of routers/ads.py, that an edit records the state it   *)
(* replaces; the router keeps it only while PUTs of one ad take turns.     *)
(***************************************************************************)
EXTENDS AdSchema, Naturals, Sequences

CONSTANT Ids    \* names of ads and of the requests that write versions

VARIABLES ads,       \* the row of every ad, or Gone
          versions,  \* the rows of ad_versions
          past       \* every content an ad ever had, oldest first (history)

hvars == <<ads, versions, past>>

Live(a) == ads[a] # Gone

\* Some content that ad a has or had reads as snapshot s.
WasContent(a, s) == \E i \in 1 .. Len(past[a]) : s = Snap(past[a][i])

TypeOK ==
    /\ ads \in [Ids -> Rows \cup {Gone}]
    /\ versions \subseteq [ad : Ids, by : Ids, snap : Snaps]
    /\ past \in [Ids -> Seq(Contents)]

\* A database in use: every ad still has the snapshot of its creation.
Init ==
    /\ ads \in [Ids -> Rows \cup {Gone}]
    /\ past = [a \in Ids |-> IF Live(a) THEN <<ads[a].cols>> ELSE <<>>]
    /\ versions = {Version(a, a, ads[a].cols) : a \in {b \in Ids : Live(b)}}

Insert(a, row) ==
    /\ past[a] = <<>>
    /\ ads' = [ads EXCEPT ![a] = row]
    /\ versions' = versions \cup {Version(a, a, row.cols)}
    /\ past' = [past EXCEPT ![a] = <<row.cols>>]

\* An edit turns the content into cols and records old, a content the ad has had.
Edit(a, by, cols, old) ==
    /\ Live(a)
    /\ \A v \in versions : v.by # by
    /\ ads' = [ads EXCEPT ![a].cols = cols]
    /\ versions' = versions \cup {Version(a, by, old)}
    /\ past' = [past EXCEPT ![a] = Append(@, cols)]

Remove(a) ==
    /\ Live(a)
    /\ ads' = [ads EXCEPT ![a] = Gone]
    /\ versions' = {v \in versions : v.ad # a}
    /\ UNCHANGED past

Next ==
    \E a \in Ids :
        \/ \E row \in Rows : Insert(a, row)
        \/ \E by \in Ids, cols \in Contents, i \in 1 .. Len(past[a]) :
              Edit(a, by, cols, past[a][i])
        \/ Remove(a)

\* The docstring's reading: the recorded content is the one being replaced.
StrictNext ==
    \E a \in Ids :
        \/ \E row \in Rows : Insert(a, row)
        \/ \E by \in Ids, cols \in Contents : Edit(a, by, cols, ads[a].cols)
        \/ Remove(a)

Spec       == Init /\ [][Next]_hvars
StrictSpec == Init /\ [][StrictNext]_hvars

-----------------------------------------------------------------------------
\* Versions die with their ad (ad_versions.ad_id REFERENCES ads ON DELETE
\* CASCADE), and no snapshot is written for an ad that is gone.
NoOrphanVersions == \A v \in versions : Live(v.ad)

\* "callers can always rewind to as created" (ads.py:14-15): the snapshot of
\* the first content of an ad is there as long as the ad is.
AsCreatedKept ==
    \A a \in Ids : Live(a) =>
        /\ past[a] # <<>>
        /\ \E v \in versions : v.ad = a /\ v.snap = Snap(past[a][1])

\* A version never shows content its ad did not have: no snapshot of a
\* rolled-back or half-applied edit, none of another ad.
NoPhantomVersions == \A v \in versions : WasContent(v.ad, v.snap)

\* "On every successful PUT we write the prior state" (ads.py:13-14): of all
\* that an ad has been, only the current content may lack a version.
PriorStateRecorded ==
    \A a \in Ids : Live(a) =>
        \A i \in 1 .. Len(past[a]) - 1 :
            \E v \in versions : v.ad = a /\ v.snap = Snap(past[a][i])

\* A deleted ad never comes back, whatever edits of it were under way.
DeletedStaysDeleted ==
    [][\A a \in Ids : past[a] # <<>> /\ ~Live(a) => ads'[a] = Gone]_hvars
=============================================================================
