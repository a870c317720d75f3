-------------------------- MODULE AdHistoryProofs ---------------------------
(***************************************************************************)
(* Theorems about AdHistory, for any set of ids, users, values and legal   *)
(* contents.  HistoryInv is inductive under every Edit that records a      *)
(* content the ad has had; StrictInv adds what the strict edits give.      *)
(***************************************************************************)
EXTENDS AdHistory, TLAPS

\* The first content of an ad with any past is its creation; the last one is
\* what a live ad shows.
PastMatches ==
    \A a \in Ids : Live(a) =>
        past[a] # <<>> /\ past[a][Len(past[a])] = ads[a].cols

HistoryInv == /\ TypeOK /\ PastMatches
              /\ NoOrphanVersions /\ AsCreatedKept /\ NoPhantomVersions

LEMMA SnapType == ASSUME NEW c \in Contents PROVE Snap(c) \in Snaps
  BY SchemaAssumption DEF Snap, Snaps, Columns, Snapped, Fields

LEMMA VersionType ==
  ASSUME NEW a \in Ids, NEW by \in Ids, NEW c \in Contents
  PROVE  Version(a, by, c) \in [ad : Ids, by : Ids, snap : Snaps]
  BY SnapType DEF Version

LEMMA LiveRow ==
  ASSUME TypeOK, NEW a \in Ids, Live(a)
  PROVE  ads[a] \in Rows /\ ads[a].cols \in Contents
  BY DEF TypeOK, Live, Rows

LEMMA InitInv == Init => HistoryInv
<1> SUFFICES ASSUME Init PROVE HistoryInv
  OBVIOUS
<1>1. TypeOK
  <2>1. past \in [Ids -> Seq(Contents)]
    <3> SUFFICES ASSUME NEW a \in Ids
                 PROVE  (IF Live(a) THEN <<ads[a].cols>> ELSE <<>>) \in Seq(Contents)
      BY DEF Init
    <3> QED
      BY DEF Init, Live, Rows
  <2>2. versions \subseteq [ad : Ids, by : Ids, snap : Snaps]
    <3> SUFFICES ASSUME NEW a \in Ids, Live(a)
                 PROVE  Version(a, a, ads[a].cols) \in [ad : Ids, by : Ids, snap : Snaps]
      BY DEF Init
    <3> ads[a].cols \in Contents
      BY DEF Init, Live, Rows
    <3> QED
      BY VersionType
  <2> QED
    BY <2>1, <2>2 DEF Init, TypeOK
<1>2. PastMatches
  BY DEF Init, PastMatches, Live
<1>3. NoOrphanVersions
  BY DEF Init, NoOrphanVersions, Version
<1>4. AsCreatedKept
  <2> SUFFICES ASSUME NEW a \in Ids, Live(a)
               PROVE  past[a] # <<>> /\ \E v \in versions : v.ad = a /\ v.snap = Snap(past[a][1])
    BY DEF AsCreatedKept
  <2>1. past[a] = <<ads[a].cols>> /\ Version(a, a, ads[a].cols) \in versions
    BY DEF Init
  <2> QED
    BY <2>1 DEF Version
<1>5. NoPhantomVersions
  <2> SUFFICES ASSUME NEW a \in Ids, Live(a)
               PROVE  WasContent(a, Snap(ads[a].cols))
    BY DEF Init, NoPhantomVersions, Version
  <2>1. past[a] = <<ads[a].cols>>
    BY DEF Init
  <2> QED
    BY <2>1 DEF WasContent
<1> QED
  BY <1>1, <1>2, <1>3, <1>4, <1>5 DEF HistoryInv

\* Appending to a past keeps every content it had, and where it was.
LEMMA AppendKeeps ==
  ASSUME NEW S, NEW s \in Seq(S), NEW x \in S
  PROVE  /\ Append(s, x) \in Seq(S)
         /\ Len(Append(s, x)) = Len(s) + 1
         /\ Len(s) \in Nat
         /\ Append(s, x) # <<>>
         /\ Append(s, x)[Len(s) + 1] = x
         /\ \A i \in 1 .. Len(s) : i \in 1 .. Len(s) + 1 /\ Append(s, x)[i] = s[i]
  OBVIOUS

LEMMA InsertInv ==
  ASSUME HistoryInv, NEW a \in Ids, NEW row \in Rows, Insert(a, row)
  PROVE  HistoryInv'
<1>0. ~Live(a) /\ row.cols \in Contents /\ row # Gone
  BY SchemaAssumption DEF HistoryInv, Insert, PastMatches, Rows
<1>1. /\ ads' \in [Ids -> Rows \cup {Gone}] /\ Live(a)'
      /\ \A b \in Ids \ {a} : ads'[b] = ads[b]
  BY <1>0 DEF HistoryInv, TypeOK, Insert, Live
<1>2. /\ past' \in [Ids -> Seq(Contents)]
      /\ past'[a] = <<row.cols>> /\ ads'[a].cols = row.cols
      /\ \A b \in Ids \ {a} : past'[b] = past[b]
  <2>1. <<row.cols>> \in Seq(Contents)
    BY <1>0
  <2> QED
    BY <2>1 DEF HistoryInv, TypeOK, Insert
<1>3. /\ versions' = versions \cup {Version(a, a, row.cols)}
      /\ Version(a, a, row.cols) \in [ad : Ids, by : Ids, snap : Snaps]
      /\ Version(a, a, row.cols).ad = a /\ Version(a, a, row.cols).snap = Snap(row.cols)
  BY <1>0, VersionType DEF Insert, Version
<1>4. TypeOK'
  BY <1>1, <1>2, <1>3 DEF HistoryInv, TypeOK
<1>5. PastMatches'
  <2>1. past'[a] # <<>> /\ past'[a][Len(past'[a])] = ads'[a].cols
    BY <1>2
  <2> QED
    BY <1>1, <1>2, <2>1 DEF HistoryInv, PastMatches, Live
<1>6. NoOrphanVersions'
  BY <1>1, <1>3 DEF HistoryInv, TypeOK, NoOrphanVersions, Live
<1>7. AsCreatedKept'
  <2> SUFFICES ASSUME NEW b \in Ids, Live(b)'
               PROVE  past'[b] # <<>> /\ \E v \in versions' : v.ad = b /\ v.snap = Snap(past'[b][1])
    BY DEF AsCreatedKept
  <2>1. CASE b = a
    <3>1. past'[b] # <<>> /\ past'[b][1] = row.cols
      BY <1>2, <2>1
    <3> QED
      BY <1>3, <2>1, <3>1
  <2>2. CASE b # a
    BY <1>1, <1>2, <1>3, <2>2 DEF HistoryInv, AsCreatedKept, Live
  <2> QED
    BY <2>1, <2>2
<1>8. NoPhantomVersions'
  <2>1. WasContent(a, Snap(row.cols))'
    BY <1>2 DEF WasContent
  <2>2. \A v \in versions : v.ad # a /\ v.ad \in Ids
    BY <1>0 DEF HistoryInv, NoOrphanVersions, TypeOK
  <2> QED
    BY <1>2, <1>3, <2>1, <2>2, ZenonT(30) DEF HistoryInv, NoPhantomVersions, WasContent
<1> QED
  BY <1>4, <1>5, <1>6, <1>7, <1>8 DEF HistoryInv

LEMMA EditInv ==
  ASSUME HistoryInv, NEW a \in Ids, NEW by \in Ids, NEW cols \in Contents,
         NEW i \in 1 .. Len(past[a]), Edit(a, by, cols, past[a][i])
  PROVE  HistoryInv'
<1> DEFINE n == Len(past[a])
<1>0. /\ past[a] \in Seq(Contents) /\ past[a][i] \in Contents /\ Live(a)
      /\ ads[a] \in Rows
  BY DEF HistoryInv, TypeOK, Edit, Live
<1>1. /\ past'[a] = Append(past[a], cols)
      /\ \A b \in Ids \ {a} : past'[b] = past[b]
      /\ past'[a] # <<>> /\ Len(past'[a]) = n + 1 /\ past'[a][n + 1] = cols /\ n \in Nat
      /\ \A j \in 1 .. n : j \in 1 .. n + 1 /\ past'[a][j] = past[a][j]
  BY <1>0, AppendKeeps DEF HistoryInv, TypeOK, Edit
<1>2. ads' \in [Ids -> Rows \cup {Gone}] /\ \A b \in Ids : Live(b)' <=> Live(b)
  BY <1>0, SchemaAssumption DEF HistoryInv, TypeOK, Edit, Live, Rows
<1>3. \A v \in versions' : v \in versions \/ v = Version(a, by, past[a][i])
  BY DEF Edit
<1>4. TypeOK'
  <2>1. past' \in [Ids -> Seq(Contents)]
    BY <1>0, AppendKeeps DEF HistoryInv, TypeOK, Edit
  <2>2. Version(a, by, past[a][i]) \in [ad : Ids, by : Ids, snap : Snaps]
    BY <1>0, VersionType
  <2> QED
    BY <1>2, <1>3, <2>1, <2>2 DEF HistoryInv, TypeOK
<1>5. PastMatches'
  BY <1>0, <1>1, <1>2 DEF HistoryInv, PastMatches, TypeOK, Edit, Rows
<1>6. NoOrphanVersions'
  BY <1>0, <1>2, <1>3 DEF HistoryInv, NoOrphanVersions, TypeOK, Version
<1>7. AsCreatedKept'
  <2> SUFFICES ASSUME NEW b \in Ids, Live(b)'
               PROVE  past'[b] # <<>> /\ \E v \in versions' : v.ad = b /\ v.snap = Snap(past'[b][1])
    BY DEF AsCreatedKept
  <2>1. past[b] # <<>> /\ \E v \in versions : v.ad = b /\ v.snap = Snap(past[b][1])
    BY <1>2 DEF HistoryInv, AsCreatedKept
  <2>2. past'[b] # <<>> /\ past'[b][1] = past[b][1]
    BY <1>0, <1>1, <2>1
  <2>3. versions \subseteq versions'
    BY DEF Edit
  <2> QED
    BY <2>1, <2>2, <2>3
<1>8. NoPhantomVersions'
  <2>1. \A s : \A b \in Ids : WasContent(b, s) => WasContent(b, s)'
    BY <1>1 DEF WasContent
  <2>2. WasContent(a, Snap(past[a][i]))
    BY DEF WasContent
  <2> QED
    BY <1>3, <2>1, <2>2 DEF HistoryInv, NoPhantomVersions, TypeOK, Version
<1> QED
  BY <1>4, <1>5, <1>6, <1>7, <1>8 DEF HistoryInv

LEMMA RemoveInv ==
  ASSUME HistoryInv, NEW a \in Ids, Remove(a)
  PROVE  HistoryInv'
<1>1. /\ ads' = [ads EXCEPT ![a] = Gone] /\ past' = past
      /\ \A v \in versions' : v \in versions /\ v.ad # a
      /\ \A v \in versions : v.ad # a => v \in versions'
  BY DEF Remove
<1>2. TypeOK'
  BY <1>1 DEF HistoryInv, TypeOK
<1>3. PastMatches' /\ NoOrphanVersions'
  BY <1>1 DEF HistoryInv, PastMatches, NoOrphanVersions, TypeOK, Live
<1>4. AsCreatedKept'
  BY <1>1 DEF HistoryInv, AsCreatedKept, TypeOK, Live
<1>5. NoPhantomVersions'
  BY <1>1 DEF HistoryInv, NoPhantomVersions, WasContent
<1> QED
  BY <1>2, <1>3, <1>4, <1>5 DEF HistoryInv

LEMMA StutterInv ==
  ASSUME HistoryInv, UNCHANGED hvars
  PROVE  HistoryInv'
  BY DEF HistoryInv, TypeOK, PastMatches, NoOrphanVersions, AsCreatedKept,
         NoPhantomVersions, WasContent, Live, hvars

LEMMA HistoryStep == ASSUME HistoryInv, [Next]_hvars PROVE HistoryInv'
  BY InsertInv, EditInv, RemoveInv, StutterInv DEF Next

\* HistoryInv holds of every behaviour of the two tables: their types, and
\* the three facts about the version history.
THEOREM HistoryInvariant == Spec => []HistoryInv
<1>1. HistoryInv /\ [Next]_hvars => HistoryInv'
  BY HistoryStep
<1> QED
  BY InitInv, <1>1, PTL DEF Spec

\* What a reader asks of the history, one fact at a time.
THEOREM HistoryFacts ==
  Spec => [](TypeOK /\ NoOrphanVersions /\ AsCreatedKept /\ NoPhantomVersions)
  BY HistoryInvariant, PTL DEF HistoryInv

-----------------------------------------------------------------------------
\* DeletedStaysDeleted, from the invariant: an ad with a past is not inserted
\* again, and only a live one is edited (ads.py:224, 251).
THEOREM DeletionIsFinal == Spec => DeletedStaysDeleted
<1> DEFINE Stays == \A a \in Ids : past[a] # <<>> /\ ~Live(a) => ads'[a] = Gone
<1>1. HistoryInv /\ [Next]_hvars => [Stays]_hvars
  <2> SUFFICES ASSUME HistoryInv, Next, NEW b \in Ids, past[b] # <<>>, ~Live(b)
               PROVE  ads'[b] = Gone
    OBVIOUS
  <2> ads[b] = Gone /\ ads \in [Ids -> Rows \cup {Gone}]
    BY DEF HistoryInv, TypeOK, Live
  <2>1. CASE \E a \in Ids, row \in Rows : Insert(a, row)
    BY <2>1 DEF Insert
  <2>2. CASE \E a, by \in Ids, cols \in Contents : \E i \in 1 .. Len(past[a]) :
                Edit(a, by, cols, past[a][i])
    BY <2>2 DEF Edit, Live
  <2>3. CASE \E a \in Ids : Remove(a)
    BY <2>3 DEF Remove, Live
  <2> QED
    BY <2>1, <2>2, <2>3 DEF Next
<1>2. Spec => [][Stays]_hvars
  BY <1>1, HistoryInvariant, PTL DEF Spec
<1> QED
  BY <1>2 DEF DeletedStaysDeleted

\* An edit of the strict history records the content it replaces.
LEMMA StrictStep ==
  ASSUME HistoryInv, PriorStateRecorded, [StrictNext]_hvars
  PROVE  PriorStateRecorded'
<1> SUFFICES ASSUME NEW a \in Ids, Live(a)', NEW i \in 1 .. Len(past'[a]) - 1
             PROVE  \E v \in versions' : v.ad = a /\ v.snap = Snap(past'[a][i])
  BY DEF PriorStateRecorded
<1> USE DEF HistoryInv
<1>1. CASE \E b \in Ids, row \in Rows : Insert(b, row)
  <2> PICK b \in Ids, row \in Rows : Insert(b, row)
    BY <1>1
  <2>1. CASE a = b
    BY <2>1 DEF Insert, TypeOK
  <2>2. CASE a # b
    BY <2>2 DEF Insert, TypeOK, Live, PriorStateRecorded
  <2> QED
    BY <2>1, <2>2
<1>2. CASE \E b, by \in Ids, cols \in Contents : Edit(b, by, cols, ads[b].cols)
  <2> PICK b \in Ids, by \in Ids, cols \in Contents : Edit(b, by, cols, ads[b].cols)
    BY <1>2
  <2>0. versions' = versions \cup {Version(b, by, ads[b].cols)} /\ Live(a)
    BY DEF Edit, TypeOK, Live
  <2>1. CASE a # b
    <3>1. past'[a] = past[a] /\ i \in 1 .. Len(past[a]) - 1
      BY <2>1 DEF Edit, TypeOK
    <3> QED
      BY <2>0, <3>1 DEF PriorStateRecorded
  <2>2. CASE a = b
    <3>1. past[a] \in Seq(Contents) /\ past'[a] = Append(past[a], cols)
      BY <2>2 DEF Edit, TypeOK
    <3>2. i \in 1 .. Len(past[a]) /\ past'[a][i] = past[a][i]
      BY <3>1, AppendKeeps
    <3>3. CASE i = Len(past[a])
      <4>1. past'[a][i] = ads[a].cols
        BY <2>0, <3>2, <3>3 DEF PastMatches
      <4>2. /\ Version(b, by, ads[b].cols) \in versions'
            /\ Version(b, by, ads[b].cols).ad = a
            /\ Version(b, by, ads[b].cols).snap = Snap(ads[a].cols)
        BY <2>0, <2>2 DEF Version
      <4> QED
        BY <4>1, <4>2
    <3>4. CASE i # Len(past[a])
      <4>1. i \in 1 .. Len(past[a]) - 1
        BY <3>1, <3>2, <3>4, AppendKeeps
      <4> QED
        BY <2>0, <3>2, <4>1 DEF PriorStateRecorded
    <3> QED
      BY <3>3, <3>4
  <2> QED
    BY <2>1, <2>2
<1>3. CASE \E b \in Ids : Remove(b)
  <2> PICK b \in Ids : Remove(b)
    BY <1>3
  <2>1. a # b /\ Live(a) /\ past' = past
    BY DEF Remove, TypeOK, Live
  <2> QED
    BY <2>1 DEF Remove, PriorStateRecorded
<1>4. CASE UNCHANGED hvars
  BY <1>4 DEF hvars, Live, PriorStateRecorded
<1> QED
  BY <1>1, <1>2, <1>3, <1>4 DEF StrictNext

\* ads.py:13-14 as it reads: where every edit records the content it replaces,
\* nothing an ad has been is ever lost.
THEOREM StrictHistoryComplete == StrictSpec => []PriorStateRecorded
<1>1. Init => PriorStateRecorded
  <2> SUFFICES ASSUME Init, NEW a \in Ids, Live(a)
               PROVE  1 .. Len(past[a]) - 1 = {}
    BY DEF PriorStateRecorded
  <2> past[a] = <<ads[a].cols>>
    BY DEF Init
  <2> QED
    OBVIOUS
<1>2. HistoryInv /\ [StrictNext]_hvars => [Next]_hvars
  <2> SUFFICES ASSUME HistoryInv, NEW a \in Ids, NEW by \in Ids, NEW cols \in Contents,
                      Edit(a, by, cols, ads[a].cols)
               PROVE  \E i \in 1 .. Len(past[a]) : Edit(a, by, cols, past[a][i])
    BY DEF StrictNext, Next
  <2>1. Live(a) /\ past[a] \in Seq(Contents) /\ past[a] # <<>>
        /\ past[a][Len(past[a])] = ads[a].cols
    BY DEF HistoryInv, TypeOK, PastMatches, Edit
  <2>2. Len(past[a]) \in 1 .. Len(past[a])
    BY <2>1
  <2> QED
    BY <2>1, <2>2
<1>3. HistoryInv /\ [Next]_hvars => HistoryInv'
  BY HistoryStep
<1>4. HistoryInv /\ PriorStateRecorded /\ [StrictNext]_hvars => PriorStateRecorded'
  BY StrictStep
<1> QED
  BY InitInv, <1>1, <1>2, <1>3, <1>4, PTL DEF StrictSpec
=============================================================================
