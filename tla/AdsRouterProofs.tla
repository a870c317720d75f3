-------------------------- MODULE AdsRouterProofs ---------------------------
(***************************************************************************)
(* Theorems about AdsRouter, for any number of requests, users, keys and   *)
(* bodies and any degree of overlap, with faults, crashes and expiry on or *)
(* off.  The heart is Implementation: each COMMIT is one atomic operation  *)
(* of AdHistory, whose invariants (AdHistoryProofs) the tables inherit.    *)
(***************************************************************************)
EXTENDS AdsRouter, TLAPS

\* AdHistory again, with its theorems.
Facts == INSTANCE AdHistoryProofs WITH Ids <- AdIds

\* The part of TypeOK that is not about the tables.
RouterTypeOK ==
    /\ Cache!TypeOK
    /\ pc \in [Requests -> Stages]
    /\ body \in [Requests -> Bodies \cup {None}]
    /\ \A r \in Requests : body[r] = None <=> pc[r] = "idle"
    /\ seen \in [Requests -> Contents \cup {None}]
    /\ reply \in [Requests -> Replies]

\* Nothing of a request is in the tables until it commits.
Fresh ==
    \A r \in Requests : pc[r] # "committed" =>
        past[r] = <<>> /\ \A v \in versions : v.by # r

Editing(r, stages) == pc[r] \in stages /\ body[r].op = "update"

\* An update under way builds on a content that its ad has had ...
SeenIsPast ==
    \A r \in Requests : Editing(r, {"loaded", "flushed", "replied"}) =>
        \E i \in 1 .. Len(past[body[r].ad]) : seen[r] = past[body[r].ad][i]

\* ... and, once it holds the row, keeps it from being deleted,
HeldRowsLive ==
    \A r \in Requests : Editing(r, {"flushed", "replied"}) => ads[body[r].ad] # Gone

\* and will not put NULL where the schema does not allow it.
PendingIsLegal ==
    \A r \in Requests :
        /\ Editing(r, {"flushed"}) => ~NullsColumn(r)
        /\ Editing(r, {"replied"}) => ~NullsRequired(body[r].cols)

\* Answers of success come with "replied"; cached answers are 201s.
AnswersFit ==
    /\ \A r \in Requests :
          /\ pc[r] \in {"idle", "received", "missed", "loaded", "flushed"} =>
                reply[r].status = 0
          /\ pc[r] \in Answered \cup {"committed"} => reply[r].status \in {200, 201, 204}
          /\ pc[r] \in Answered /\ body[r].op # "create" => reply[r].status \in {200, 204}
    /\ \A k \in Keys : store[k] # None => store[k].response.status = 201

\* A request that works on an ad found it, and found it to be its user's.
OwnerChecked ==
    \A r \in Requests :
      pc[r] \in {"loaded", "flushed"} \cup Answered /\ body[r].op # "create" =>
        /\ past[body[r].ad] # <<>>
        /\ ads[body[r].ad] # Gone => ads[body[r].ad].owner = body[r].user

\* A version row bears the name of one request, which wrote it for one ad.
OneAdPerVersion == \A v, w \in versions : v.by = w.by => v.ad = w.ad

\* A DELETE that has locked its ad's row shares it with no PUT, and the version
\* rows that a DELETE has locked are committed rows of its ad, or of none.
LocksFit ==
    /\ marked \in [Requests -> SUBSET AdIds] /\ locks \in [Requests -> SUBSET AdIds]
    /\ \A r \in Requests :
          /\ pc[r] = "deleting" => body[r].op = "delete" /\ Sharing(body[r].ad) = {}
          /\ \A v \in locks[r] :
                /\ pc[r] \in Answered /\ body[r].op = "delete"
                /\ v \in Requests => pc[v] = "committed"
                /\ \A w \in versions : w.by = v => w.ad = body[r].ad

RouterInv == /\ RouterTypeOK /\ Fresh /\ SeenIsPast /\ HeldRowsLive
             /\ PendingIsLegal /\ AnswersFit /\ OwnerChecked
             /\ OneAdPerVersion /\ LocksFit

IInv == RouterInv /\ Facts!HistoryInv

-----------------------------------------------------------------------------
(* Facts about the constants. *)

LEMMA BodyShape ==
  ASSUME NEW b \in Bodies
  PROVE  /\ b.op \in {"create", "update", "get", "versions", "delete"}
         /\ b.user \in Users /\ b # None
         /\ b.op = "create" => b.key \in Keys \cup {None} /\ b.cols \in Contents
         /\ b.op # "create" => b.ad \in AdIds
         /\ b.op = "update" => /\ DOMAIN b.cols \subseteq Fields
                               /\ \A f \in DOMAIN b.cols : b.cols[f] \in Values \cup {Null}
<1>1. CASE b \in Creates
  BY <1>1, RouterAssumption DEF Creates
<1>2. CASE b \in Updates
  BY <1>2, RouterAssumption DEF Updates
<1>3. CASE b \in Others
  BY <1>3, RouterAssumption DEF Others
<1> QED
  BY <1>1, <1>2, <1>3, RouterAssumption

LEMMA ContentIsLegal ==
  ASSUME NEW c \in Contents
  PROVE  c \in Columns /\ \A f \in Required : c[f] # Null
  BY SchemaAssumption

LEMMA PatchIsColumns ==
  ASSUME NEW c \in Columns, NEW patch, NEW F \in SUBSET DOMAIN patch,
         \A f \in DOMAIN patch : patch[f] \in Values \cup {Null}
  PROVE  Patched(c, patch, F) \in Columns
  BY DEF Patched, Columns

LEMMA ReplyType ==
  ASSUME NEW status \in {0, 200, 201, 204, 404, 500}, NEW a \in AdIds \cup {None},
         NEW shown \in SUBSET (Columns \cup Snaps)
  PROVE  Reply(status, a, shown) \in Replies /\ Reply(status, a, shown).status = status
  BY DEF Reply, Replies

\* The two instances of AdHistory say the same.
LEMMA SameHistory ==
  /\ History!TypeOK <=> Facts!TypeOK
  /\ History!NoOrphanVersions <=> Facts!NoOrphanVersions
  /\ History!AsCreatedKept <=> Facts!AsCreatedKept
  /\ History!NoPhantomVersions <=> Facts!NoPhantomVersions
  /\ History!Init <=> Facts!Init
  /\ History!hvars = Facts!hvars
  BY DEF History!TypeOK, Facts!TypeOK, History!NoOrphanVersions, Facts!NoOrphanVersions,
         History!AsCreatedKept, Facts!AsCreatedKept, History!NoPhantomVersions,
         Facts!NoPhantomVersions, History!Init, Facts!Init, History!Live, Facts!Live,
         History!WasContent, Facts!WasContent, History!Rows, Facts!Rows, History!Snaps,
         Facts!Snaps, History!Snap, Facts!Snap, History!Snapped, Facts!Snapped,
         History!Version, Facts!Version, History!hvars, Facts!hvars

LEMMA SameSteps == History!Next <=> Facts!Next
<1>1. ASSUME NEW a, NEW row PROVE History!Insert(a, row) <=> Facts!Insert(a, row)
  BY DEF History!Insert, Facts!Insert, History!Version, Facts!Version, History!Snap,
         Facts!Snap, History!Snapped, Facts!Snapped
<1>2. ASSUME NEW a, NEW by, NEW cols, NEW old
      PROVE  History!Edit(a, by, cols, old) <=> Facts!Edit(a, by, cols, old)
  BY DEF History!Edit, Facts!Edit, History!Live, Facts!Live, History!Version,
         Facts!Version, History!Snap, Facts!Snap, History!Snapped, Facts!Snapped
<1> QED
  BY <1>1, <1>2 DEF History!Next, Facts!Next, History!Remove, Facts!Remove,
                    History!Live, Facts!Live, History!Rows, Facts!Rows

\* HistoryInv in this module's terms.
LEMMA Tables ==
  ASSUME Facts!HistoryInv
  PROVE  /\ ads \in [AdIds -> Rows \cup {Gone}]
         /\ versions \subseteq [ad : AdIds, by : AdIds, snap : Snaps]
         /\ past \in [AdIds -> Seq(Contents)]
         /\ \A a \in AdIds : ads[a] # Gone =>
                ads[a] \in Rows /\ ads[a].cols \in Contents /\ past[a] # <<>>
                /\ past[a][Len(past[a])] = ads[a].cols
         /\ \A v \in versions : ads[v.ad] # Gone
  BY DEF Facts!HistoryInv, Facts!TypeOK, Facts!PastMatches, Facts!NoOrphanVersions,
         Facts!Live, Facts!Rows, Rows, Facts!Snaps, Snaps, Facts!Snapped, Snapped

LEMMA SnapType == ASSUME NEW c \in Contents PROVE Snap(c) \in Snaps
  BY SchemaAssumption DEF Snap, Snaps, Columns, Snapped, Fields

-----------------------------------------------------------------------------
(* Types. *)

\* What OwnView shows is a row's worth of columns, and legal ones when no NOT
\* NULL column of the patch is null.
LEMMA OwnViewType ==
  ASSUME RouterTypeOK, Facts!HistoryInv, NEW r \in Requests,
         Editing(r, Stages \ {"idle"}), ads[body[r].ad] # Gone
  PROVE  /\ OwnView(r) \in Columns
         /\ body[r].ad \in AdIds /\ body[r] \in Bodies
         /\ ~NullsRequired(body[r].cols) => OwnView(r) \in Contents
<1>1. body[r] \in Bodies /\ body[r].op = "update"
  BY DEF RouterTypeOK, Editing
<1>2. body[r].ad \in AdIds /\ \A f \in DOMAIN body[r].cols : body[r].cols[f] \in Values \cup {Null}
  BY <1>1, BodyShape
<1>3. ads[body[r].ad].cols \in Contents
  BY <1>2, Tables
<1>4. Dirty(r) \in SUBSET DOMAIN body[r].cols
  BY DEF Dirty
<1>5. OwnView(r) \in Columns
  BY <1>2, <1>3, <1>4, ContentIsLegal, PatchIsColumns DEF OwnView
<1> QED
  BY <1>1, <1>2, <1>3, <1>4, <1>5, ContentsClosed DEF OwnView

LEMMA InitTypes == Init => RouterTypeOK
<1>1. NoReply \in Replies
  BY ReplyType DEF NoReply
<1> QED
  BY <1>1 DEF Init, RouterTypeOK, Cache!Init, Cache!TypeOK, Stages

\* Moving on keeps the types of pc and body; answering, that of reply.
LEMMA MoveTypes ==
  ASSUME RouterTypeOK, NEW r \in Requests, pc[r] # "idle",
         NEW stage \in Stages \ {"idle"}, Moves(r, stage)
  PROVE  /\ pc' \in [Requests -> Stages]
         /\ body' \in [Requests -> Bodies \cup {None}]
         /\ \A q \in Requests : body'[q] = None <=> pc'[q] = "idle"
  BY DEF RouterTypeOK, Moves

LEMMA AnswerTypes ==
  ASSUME RouterTypeOK, NEW r \in Requests, pc[r] # "idle",
         NEW stage \in Stages \ {"idle"}, NEW answer \in Replies,
         Answers(r, stage, answer)
  PROVE  /\ pc' \in [Requests -> Stages]
         /\ body' \in [Requests -> Bodies \cup {None}]
         /\ \A q \in Requests : body'[q] = None <=> pc'[q] = "idle"
         /\ reply' \in [Requests -> Replies]
  BY MoveTypes DEF RouterTypeOK, Answers

LEMMA RaiseTypes ==
  ASSUME RouterTypeOK, NEW r \in Requests, pc[r] # "idle",
         NEW status \in {404, 500}, Raises(r, status)
  PROVE  RouterTypeOK'
<1>1. Reply(status, None, {}) \in Replies
  BY ReplyType
<1>2. "closed" \in Stages \ {"idle"} /\ Answers(r, "closed", Reply(status, None, {}))
      /\ UNCHANGED <<store, seen>>
  BY DEF Raises, Stages
<1> QED
  BY <1>1, <1>2, AnswerTypes DEF RouterTypeOK, Cache!TypeOK
LEMMA CacheTypes ==
  ASSUME Cache!TypeOK, NEW k \in Keys
  PROVE  /\ Cache!Miss(k) => Cache!TypeOK'
         /\ \A answer \in Replies : Cache!Set(k, answer) => Cache!TypeOK'
         /\ Cache!Expire(k) => Cache!TypeOK'
         /\ Cache!Lost => Cache!TypeOK'
         /\ Cache!Hit(k) => store[k].response \in Replies
<1> USE DEF Cache!TypeOK, Cache!Entries
<1>1. Cache!Hit(k) => store[k] \in Cache!Entries /\ store[k].response \in Replies
  BY DEF Cache!Hit
<1>2. Cache!Miss(k) => Cache!TypeOK'
  BY DEF Cache!Miss
<1>3. ASSUME NEW answer \in Replies, Cache!Set(k, answer) PROVE Cache!TypeOK'
  BY <1>3 DEF Cache!Set
<1>4. ASSUME Cache!Expire(k) PROVE Cache!TypeOK'
  <2>1. store[k] \in Cache!Entries
    BY <1>1, <1>4 DEF Cache!Expire
  <2>2. [store[k] EXCEPT !.expired = TRUE] \in Cache!Entries
    BY <2>1
  <2>3. store' = [store EXCEPT ![k] = [store[k] EXCEPT !.expired = TRUE]]
    BY <1>4 DEF Cache!Expire
  <2> QED
    BY <2>2, <2>3
<1>5. Cache!Lost => Cache!TypeOK'
  BY DEF Cache!Lost
<1> QED
  BY <1>1, <1>2, <1>3, <1>4, <1>5

LEMMA HandleTypes ==
  ASSUME IInv, NEW r \in Requests, Handle(r)
  PROVE  RouterTypeOK'
<1> USE DEF IInv, RouterInv
<1>0. /\ pc[r] # "idle" /\ body[r] \in Bodies /\ body[r] # None
      /\ {"missed", "loaded", "flushed", "replied", "deleting", "committed", "closed"}
            \subseteq Stages \ {"idle"}
      /\ Cache!TypeOK /\ seen \in [Requests -> Contents \cup {None}]
      /\ reply \in [Requests -> Replies]
  BY BodyShape DEF RouterTypeOK, Stages, Handle, At, NotFound, CreateReplay, CreateMiss,
     CreateReturn, GetReturn, UpdateLoad, UpdateFlush, UpdateRefused, UpdateReturn,
     UpdateUnreadable, DeleteLoad, DeleteReturn, VersionsLoad, VersionsReturn, CommitCreate,
     CommitUpdate, DeleteVersion, DeleteAd, CommitDelete, Answered
<1>1. CASE NotFound(r) \/ UpdateRefused(r) \/ UpdateUnreadable(r)
  BY <1>0, <1>1, RaiseTypes DEF NotFound, UpdateRefused, UpdateUnreadable
<1>2. CASE CreateReplay(r)
  <2>1. body[r].key \in Keys /\ Cache!Hit(body[r].key)
    BY <1>0, <1>2, BodyShape DEF CreateReplay, At
  <2>2. store[body[r].key].response \in Replies
    BY <1>0, <2>1, CacheTypes
  <2> QED
    BY <1>0, <1>2, <2>2, AnswerTypes DEF CreateReplay, RouterTypeOK, Cache!TypeOK
<1>3. CASE CreateMiss(r)
  <2>1. Cache!TypeOK'
    BY <1>0, <1>3, BodyShape, CacheTypes DEF CreateMiss, At, Cache!TypeOK
  <2> QED
    BY <1>0, <1>3, <2>1, MoveTypes DEF CreateMiss, RouterTypeOK
<1>4. CASE CreateReturn(r)
  <2>0. body[r].key \in Keys \cup {None} /\ body[r].cols \in Columns
    BY <1>0, <1>4, BodyShape, ContentIsLegal DEF CreateReturn, At
  <2>1. Reply(201, r, {body[r].cols}) \in Replies
    BY <2>0, ReplyType DEF AdIds
  <2>2. Cache!TypeOK'
    BY <1>0, <1>4, <2>0, <2>1, CacheTypes DEF CreateReturn, Cache!TypeOK
  <2> QED
    BY <1>0, <1>4, <2>1, <2>2, AnswerTypes DEF CreateReturn, RouterTypeOK
<1>5. CASE GetReturn(r)
  <2>1. body[r].ad \in AdIds /\ ads[body[r].ad] # Gone
    BY <1>0, <1>5, BodyShape DEF GetReturn, At, Owns
  <2>2. {ads[body[r].ad].cols} \in SUBSET (Columns \cup Snaps)
    BY <2>1, Tables, ContentIsLegal
  <2>3. Reply(200, body[r].ad, {ads[body[r].ad].cols}) \in Replies
    BY <2>1, <2>2, ReplyType
  <2> QED
    BY <1>0, <1>5, <2>3, AnswerTypes DEF GetReturn, RouterTypeOK, Cache!TypeOK
<1>6. CASE UpdateLoad(r)
  <2>1. ads[body[r].ad].cols \in Contents
    BY <1>0, <1>6, BodyShape, Tables DEF UpdateLoad, At, Owns
  <2> QED
    BY <1>0, <1>6, <2>1, MoveTypes DEF UpdateLoad, RouterTypeOK, Cache!TypeOK
<1>7. CASE UpdateFlush(r) \/ VersionsLoad(r) \/ DeleteLoad(r) \/ DeleteAd(r)
  BY <1>0, <1>7, MoveTypes
     DEF UpdateFlush, VersionsLoad, DeleteLoad, DeleteAd, RouterTypeOK, Cache!TypeOK
<1>8. CASE UpdateReturn(r)
  <2>1. Editing(r, {"flushed"})
    BY <1>8 DEF UpdateReturn, At, Editing
  <2>2. ads[body[r].ad] # Gone
    BY <2>1 DEF HeldRowsLive, Editing
  <2>3. OwnView(r) \in Columns /\ body[r].ad \in AdIds
    BY <2>1, <2>2, OwnViewType DEF Editing, Stages
  <2>4. Reply(200, body[r].ad, {OwnView(r)}) \in Replies
    BY <2>3, ReplyType
  <2> QED
    BY <1>0, <1>8, <2>4, AnswerTypes DEF UpdateReturn, RouterTypeOK, Cache!TypeOK
<1>9. CASE DeleteReturn(r)
  <2>1. Reply(204, body[r].ad, {}) \in Replies
    BY <1>0, <1>9, BodyShape, ReplyType DEF DeleteReturn, At
  <2> QED
    BY <1>0, <1>9, <2>1, AnswerTypes DEF DeleteReturn, RouterTypeOK, Cache!TypeOK
<1>10. CASE VersionsReturn(r)
  <2> DEFINE shown == {v.snap : v \in {w \in versions : w.ad = body[r].ad}}
  <2>1. shown \in SUBSET (Columns \cup Snaps) /\ body[r].ad \in AdIds
    BY <1>0, <1>10, BodyShape, Tables DEF VersionsReturn, At
  <2>2. Reply(200, body[r].ad, shown) \in Replies
    BY <2>1, ReplyType
  <2> QED
    BY <1>0, <1>10, <2>2, AnswerTypes DEF VersionsReturn, RouterTypeOK, Cache!TypeOK
<1>11. CASE CommitCreate(r) \/ CommitUpdate(r) \/ CommitDelete(r)
  BY <1>0, <1>11, MoveTypes
     DEF CommitCreate, CommitUpdate, CommitDelete, RouterTypeOK, Cache!TypeOK
<1>12. ASSUME NEW v \in AdIds, DeleteVersion(r, v) PROVE RouterTypeOK'
  BY <1>12 DEF DeleteVersion, RouterTypeOK, Cache!TypeOK
<1> QED
  BY <1>1, <1>2, <1>3, <1>4, <1>5, <1>6, <1>7, <1>8, <1>9, <1>10, <1>11, <1>12 DEF Handle

LEMMA NextTypes ==
  ASSUME IInv, [Next]_vars
  PROVE  RouterTypeOK'
<1> USE DEF IInv, RouterInv
<1>1. CASE \E r \in Requests : Handle(r)
  BY <1>1, HandleTypes
<1>2. CASE \E r \in Requests : RollsBack(r)
  <2> PICK r \in Requests : RollsBack(r)
    BY <1>2
  <2>0. pc[r] # "idle" /\ "closed" \in Stages \ {"idle"}
    BY DEF RollsBack, InFlight, Stages
  <2>1. CASE pc[r] \in Answered
    BY <2>0, <2>1, MoveTypes DEF RollsBack, RouterTypeOK, Cache!TypeOK
  <2>2. CASE pc[r] \notin Answered
    BY <2>0, <2>2, RaiseTypes DEF RollsBack
  <2> QED
    BY <2>1, <2>2
<1>3. CASE \E r \in Requests, b \in Bodies : Send(r, b)
  BY <1>3, BodyShape DEF Send, RouterTypeOK, Cache!TypeOK, Stages
<1>4. CASE \E k \in Keys : Expire(k)
  BY <1>4, CacheTypes DEF Expire, RouterTypeOK
<1>5. CASE Crash
  <2>1. Cache!TypeOK'
    BY <1>5 DEF Crash, Cache!Lost, Cache!TypeOK
  <2> QED
    BY <1>5, <2>1 DEF Crash, RouterTypeOK, InFlight, Stages
<1>6. CASE UNCHANGED vars
  BY <1>6 DEF vars, RouterTypeOK, Cache!TypeOK
<1> QED
  BY <1>1, <1>2, <1>3, <1>4, <1>5, <1>6 DEF Next, Fail, Deadlock, Quiet
-----------------------------------------------------------------------------
(* Each step is one atomic operation on the tables, or none. *)

LEMMA OnlyCommitsWrite ==
  ASSUME [Next]_vars
  PROVE  \/ UNCHANGED tables
         \/ \E r \in Requests : CommitCreate(r) \/ CommitUpdate(r) \/ CommitDelete(r)
<1>1. ASSUME NEW r \in Requests, Handle(r)
      PROVE  \/ UNCHANGED tables
             \/ CommitCreate(r) \/ CommitUpdate(r) \/ CommitDelete(r)
  BY <1>1 DEF Handle, NotFound, CreateReplay, CreateMiss, CreateReturn, GetReturn,
     UpdateLoad, UpdateFlush, UpdateRefused, UpdateReturn, UpdateUnreadable, DeleteLoad,
     DeleteReturn, DeleteVersion, DeleteAd, VersionsLoad, VersionsReturn, Raises, tables, db
<1>2. ASSUME NEW r \in Requests, RollsBack(r) PROVE UNCHANGED tables
  BY <1>2 DEF RollsBack, Raises, tables, db
<1>3. ASSUME NEW r \in Requests, NEW b \in Bodies, Send(r, b) PROVE UNCHANGED tables
  BY <1>3 DEF Send, tables, db
<1>4. ASSUME NEW k \in Keys, Expire(k) PROVE UNCHANGED tables
  BY <1>4 DEF Expire, tables, db
<1>5. Crash \/ Quiet \/ UNCHANGED vars => UNCHANGED tables
  BY DEF Crash, Quiet, vars, tables
<1> QED
  BY <1>1, <1>2, <1>3, <1>4, <1>5 DEF Next, Fail, Deadlock

LEMMA CommitCreateInserts ==
  ASSUME IInv, NEW r \in Requests, CommitCreate(r)
  PROVE  Facts!Next
<1> DEFINE row == [owner |-> body[r].user, cols |-> body[r].cols]
<1>1. body[r] \in Bodies /\ body[r].op = "create" /\ pc[r] = "replied"
  BY DEF CommitCreate, At, IInv, RouterInv, RouterTypeOK
<1>2. row \in Facts!Rows /\ r \in AdIds
  BY <1>1, BodyShape DEF Facts!Rows, AdIds
<1>3. past[r] = <<>>
  BY <1>1 DEF IInv, RouterInv, Fresh
<1>4. Facts!Insert(r, row)
  BY <1>3 DEF CommitCreate, Facts!Insert, Facts!Version, Version, Facts!Snap, Snap,
              Facts!Snapped, Snapped
<1> QED
  BY <1>2, <1>4 DEF Facts!Next

LEMMA CommitUpdateEdits ==
  ASSUME IInv, NEW r \in Requests, CommitUpdate(r)
  PROVE  /\ Facts!Next
         /\ ads[body[r].ad] # Gone /\ body[r].ad \in AdIds /\ body[r] \in Bodies
<1> DEFINE a == body[r].ad
<1>1. Editing(r, {"replied"}) /\ Editing(r, {"flushed", "replied"})
      /\ Editing(r, {"loaded", "flushed", "replied"}) /\ Editing(r, Stages \ {"idle"})
  BY DEF CommitUpdate, At, Editing, Stages
<1>2. ads[a] # Gone /\ ~NullsRequired(body[r].cols)
  BY <1>1 DEF IInv, RouterInv, HeldRowsLive, PendingIsLegal
<1>3. a \in AdIds /\ OwnView(r) \in Contents /\ body[r] \in Bodies
  BY <1>1, <1>2, OwnViewType DEF IInv, RouterInv
<1>4. PICK i \in 1 .. Len(past[a]) : seen[r] = past[a][i]
  BY <1>1 DEF IInv, RouterInv, SeenIsPast
<1>5. \A v \in versions : v.by # r
  BY DEF IInv, RouterInv, Fresh, CommitUpdate, At
<1>6. Facts!Edit(a, r, OwnView(r), past[a][i])
  BY <1>2, <1>4, <1>5 DEF CommitUpdate, Facts!Edit, Facts!Live, Facts!Version, Version,
              Facts!Snap, Snap, Facts!Snapped, Snapped
<1> QED
  BY <1>2, <1>3, <1>6 DEF Facts!Next, AdIds

LEMMA CommitDeleteRemoves ==
  ASSUME IInv, NEW r \in Requests, CommitDelete(r)
  PROVE  [Facts!Next]_(Facts!hvars)
<1>1. body[r].ad \in AdIds
  BY BodyShape DEF CommitDelete, At, IInv, RouterInv, RouterTypeOK
<1>2. CASE ads[body[r].ad] # Gone
  BY <1>1, <1>2 DEF CommitDelete, Facts!Next, Facts!Remove, Facts!Live
<1>3. CASE ads[body[r].ad] = Gone
  <2>1. ads' = ads /\ past' = past
    BY <1>1, <1>3, Tables DEF CommitDelete, IInv
  <2>2. versions' = versions
    BY <1>3, Tables DEF CommitDelete, IInv
  <2> QED
    BY <2>1, <2>2 DEF Facts!hvars
<1> QED
  BY <1>2, <1>3

LEMMA StepImplements ==
  ASSUME IInv, [Next]_vars
  PROVE  [Facts!Next]_(Facts!hvars)
<1>1. CASE UNCHANGED tables
  BY <1>1 DEF tables, Facts!hvars
<1> QED
  BY <1>1, OnlyCommitsWrite, CommitCreateInserts, CommitUpdateEdits, CommitDeleteRemoves

LEMMA HistoryInvNext ==
  ASSUME IInv, [Next]_vars
  PROVE  Facts!HistoryInv'
<1>1. [Facts!Next]_(Facts!hvars) /\ Facts!HistoryInv
  BY StepImplements DEF IInv
<1> QED
  BY <1>1, Facts!HistoryStep, SchemaAssumption
     DEF Facts!Rows, Rows, Facts!Columns, Columns, Facts!Required, Required,
         Facts!Fields, Fields

\* What a step never does to the tables.
Grows(a) ==
    /\ \A i \in 1 .. Len(past[a]) : i \in 1 .. Len(past'[a]) /\ past'[a][i] = past[a][i]
    /\ past[a] # <<>> => past'[a] # <<>>
    /\ past[a] # <<>> /\ ads'[a] # Gone => ads[a] # Gone /\ ads'[a].owner = ads[a].owner
    /\ ads[a] # Gone /\ ads'[a] = Gone => Sharing(a) = {}

LEMMA TablesGrow == ASSUME IInv, [Next]_vars, NEW a \in AdIds PROVE Grows(a)
<1>0. /\ ads \in [AdIds -> Rows \cup {Gone}] /\ past \in [AdIds -> Seq(Contents)]
      /\ ads[a] # Gone => past[a] # <<>> /\ ads[a] \in Rows
  BY Tables DEF IInv
<1>1. CASE UNCHANGED tables
  BY <1>1 DEF tables, Grows
<1>2. ASSUME NEW r \in Requests, CommitCreate(r) PROVE Grows(a)
  <2>1. past[r] = <<>> /\ r \in AdIds
    BY <1>2 DEF IInv, RouterInv, Fresh, CommitCreate, At, AdIds
  <2>2. ads[r] = Gone
    BY <2>1, Tables DEF IInv
  <2>3. CASE a = r
    BY <1>0, <1>2, <2>1, <2>2, <2>3 DEF CommitCreate, Grows
  <2>4. CASE a # r
    BY <1>0, <1>2, <2>4 DEF CommitCreate, Grows
  <2> QED
    BY <2>3, <2>4
<1>3. ASSUME NEW r \in Requests, CommitUpdate(r) PROVE Grows(a)
  <2> DEFINE b == body[r].ad
  <2>1. ads[b] # Gone /\ b \in AdIds
    BY <1>3, CommitUpdateEdits
  <2>2. CASE a = b
    <3>1. ads'[a] = [ads[a] EXCEPT !.cols = OwnView(r)] /\ ads[a] \in Rows
      BY <1>0, <1>3, <2>1, <2>2 DEF CommitUpdate
    <3>2. ads'[a] # Gone /\ ads'[a].owner = ads[a].owner
      <4>1. OwnView(r) \in Contents
        BY <1>3, <2>1, OwnViewType
           DEF CommitUpdate, At, Editing, Stages, IInv, RouterInv, PendingIsLegal
      <4> QED
        BY <3>1, <4>1, SchemaAssumption DEF Rows
    <3>3. past'[a] = Append(past[a], OwnView(r)) /\ past[a] \in Seq(Contents)
      BY <1>0, <1>3, <2>2 DEF CommitUpdate
    <3>4. \A i \in 1 .. Len(past[a]) : i \in 1 .. Len(past'[a]) /\ past'[a][i] = past[a][i]
      BY <3>3
    <3>5. past'[a] # <<>>
      BY <3>3
    <3> QED
      BY <2>1, <2>2, <3>2, <3>4, <3>5 DEF Grows
  <2>3. CASE a # b
    BY <1>0, <1>3, <2>3 DEF CommitUpdate, Grows
  <2> QED
    BY <2>2, <2>3
<1>4. ASSUME NEW r \in Requests, CommitDelete(r) PROVE Grows(a)
  <2>1. Sharing(body[r].ad) = {}
    BY <1>4 DEF CommitDelete, At, IInv, RouterInv, LocksFit
  <2> QED
    BY <1>0, <1>4, <2>1 DEF CommitDelete, Grows
<1> QED
  BY <1>1, <1>2, <1>3, <1>4, OnlyCommitsWrite
-----------------------------------------------------------------------------
(* A step moves one request; a crash ends all that are under way. *)

Stays(q) == /\ pc'[q] = pc[q] /\ body'[q] = body[q]
            /\ seen'[q] = seen[q] /\ reply'[q] = reply[q]

Ends(q) == pc'[q] = "closed" /\ body'[q] = body[q]

LEMMA HandleMovesOne ==
  ASSUME RouterTypeOK, NEW r \in Requests, Handle(r), NEW q \in Requests \ {r}
  PROVE  Stays(q)
<1> USE DEF RouterTypeOK, Stays, Moves, Answers, Raises
<1>1. CASE NotFound(r) \/ CreateReplay(r) \/ CreateMiss(r) \/ CreateReturn(r) \/ GetReturn(r)
  BY <1>1 DEF NotFound, CreateReplay, CreateMiss, CreateReturn, GetReturn
<1>2. CASE UpdateLoad(r) \/ UpdateFlush(r) \/ UpdateRefused(r) \/ UpdateReturn(r)
           \/ UpdateUnreadable(r)
  BY <1>2 DEF UpdateLoad, UpdateFlush, UpdateRefused, UpdateReturn, UpdateUnreadable
<1>3. CASE DeleteLoad(r) \/ DeleteReturn(r) \/ VersionsLoad(r) \/ VersionsReturn(r)
  BY <1>3 DEF DeleteLoad, DeleteReturn, VersionsLoad, VersionsReturn
<1>4. CASE \/ CommitCreate(r) \/ CommitUpdate(r) \/ DeleteAd(r) \/ CommitDelete(r)
           \/ \E v \in AdIds : DeleteVersion(r, v)
  BY <1>4 DEF CommitCreate, CommitUpdate, DeleteVersion, DeleteAd, CommitDelete
<1> QED
  BY <1>1, <1>2, <1>3, <1>4 DEF Handle

LEMMA StaysOrMoves ==
  ASSUME RouterTypeOK, [Next]_vars, NEW q \in Requests
  PROVE  Stays(q) \/ Ends(q) \/ Handle(q) \/ RollsBack(q) \/ \E b \in Bodies : Send(q, b)
<1>1. ASSUME NEW r \in Requests, Handle(r) PROVE Stays(q) \/ Handle(q)
  BY <1>1, HandleMovesOne
<1>2. ASSUME NEW r \in Requests, RollsBack(r) PROVE Stays(q) \/ RollsBack(q)
  BY <1>2 DEF RollsBack, Raises, Answers, Moves, Stays, RouterTypeOK
<1>3. ASSUME NEW r \in Requests, NEW b \in Bodies, Send(r, b) PROVE Stays(q) \/ Send(q, b)
  BY <1>3 DEF Send, Stays, RouterTypeOK
<1>4. Crash => Stays(q) \/ Ends(q)
  BY DEF Crash, Stays, Ends, RouterTypeOK
<1>5. (\E k \in Keys : Expire(k)) \/ Quiet \/ UNCHANGED vars => Stays(q)
  BY DEF Expire, Quiet, vars, Stays
<1> QED
  BY <1>1, <1>2, <1>3, <1>4, <1>5 DEF Next, Fail, Deadlock

LEMMA RollbackEnds == ASSUME RouterTypeOK, NEW q \in Requests, RollsBack(q) PROVE Ends(q)
  BY DEF RollsBack, Raises, Answers, Moves, Ends, RouterTypeOK

LEMMA SendReceives ==
  ASSUME RouterTypeOK, NEW q \in Requests, NEW b \in Bodies, Send(q, b)
  PROVE  pc[q] = "idle" /\ pc'[q] = "received" /\ body'[q] \in Bodies /\ reply'[q] = reply[q]
  BY DEF Send, RouterTypeOK

\* Where a handler's step takes its request, when it does not end it.
LEMMA HandleGoes ==
  ASSUME RouterTypeOK, NEW q \in Requests, Handle(q), pc'[q] # "closed"
  PROVE  /\ body'[q] = body[q] /\ body[q] \in Bodies
         /\ \/ CreateMiss(q) /\ pc'[q] = "missed"
            \/ CreateReturn(q) /\ pc'[q] = "replied"
            \/ UpdateLoad(q) /\ pc'[q] = "loaded"
            \/ UpdateFlush(q) /\ pc'[q] = "flushed"
            \/ UpdateReturn(q) /\ pc'[q] = "replied"
            \/ DeleteLoad(q) /\ pc'[q] = "loaded"
            \/ DeleteReturn(q) /\ pc'[q] = "replied"
            \/ (\E v \in AdIds : DeleteVersion(q, v)) /\ Stays(q)
            \/ DeleteAd(q) /\ pc'[q] = "deleting"
            \/ VersionsLoad(q) /\ pc'[q] = "loaded"
            \/ CommitCreate(q) /\ pc'[q] = "committed"
            \/ CommitUpdate(q) /\ pc'[q] = "committed"
            \/ CommitDelete(q) /\ pc'[q] = "committed"
<1> USE DEF RouterTypeOK, Moves, Answers, Raises, At
<1>0. body[q] \in Bodies /\ body'[q] = body[q]
  BY DEF Handle, NotFound, CreateReplay, CreateMiss, CreateReturn, GetReturn, UpdateLoad,
     UpdateFlush, UpdateRefused, UpdateReturn, UpdateUnreadable, DeleteLoad, DeleteReturn,
     VersionsLoad, VersionsReturn, CommitCreate, CommitUpdate, DeleteVersion, DeleteAd,
     CommitDelete, Answered
<1>1. ~(NotFound(q) \/ CreateReplay(q) \/ GetReturn(q) \/ UpdateRefused(q)
        \/ UpdateUnreadable(q) \/ VersionsReturn(q))
  BY DEF NotFound, CreateReplay, GetReturn, UpdateRefused, UpdateUnreadable, VersionsReturn
<1>2. /\ CreateMiss(q) => pc'[q] = "missed"
      /\ UpdateLoad(q) \/ DeleteLoad(q) \/ VersionsLoad(q) => pc'[q] = "loaded"
      /\ UpdateFlush(q) => pc'[q] = "flushed"
      /\ CreateReturn(q) \/ UpdateReturn(q) \/ DeleteReturn(q) => pc'[q] = "replied"
      /\ DeleteAd(q) => pc'[q] = "deleting"
      /\ (\E v \in AdIds : DeleteVersion(q, v)) => Stays(q)
      /\ CommitCreate(q) \/ CommitUpdate(q) \/ CommitDelete(q) => pc'[q] = "committed"
  BY DEF CreateMiss, UpdateLoad, DeleteLoad, VersionsLoad, UpdateFlush, CreateReturn,
     UpdateReturn, DeleteReturn, DeleteVersion, DeleteAd, CommitCreate, CommitUpdate,
     CommitDelete, Stays
<1> QED
  BY <1>0, <1>1, <1>2 DEF Handle
-----------------------------------------------------------------------------
(* The parts of RouterInv, one by one. *)

\* A COMMIT is final.
LEMMA CommittedStays ==
  ASSUME IInv, [Next]_vars, NEW q \in Requests, pc[q] = "committed"
  PROVE  pc'[q] = "committed"
<1>0. RouterTypeOK
  BY DEF IInv, RouterInv
<1>1. ~Handle(q)
  BY DEF Handle, At, NotFound, CreateReplay, CreateMiss, CreateReturn, GetReturn,
     UpdateLoad, UpdateFlush, UpdateRefused, UpdateReturn, UpdateUnreadable, DeleteLoad,
     DeleteReturn, VersionsLoad, VersionsReturn, CommitCreate, CommitUpdate, DeleteVersion,
     DeleteAd, CommitDelete, Answered
<1>2. ~RollsBack(q) /\ \A b \in Bodies : ~Send(q, b)
  BY DEF RollsBack, InFlight, Settled, Send
<1>3. Crash => pc'[q] = pc[q]
  BY <1>0 DEF Crash, InFlight, Settled, RouterTypeOK
<1>4. ASSUME NEW r \in Requests, Handle(r) PROVE Stays(q)
  BY <1>0, <1>1, <1>4, HandleMovesOne
<1>5. ASSUME NEW r \in Requests, RollsBack(r) PROVE pc'[q] = pc[q]
  BY <1>0, <1>2, <1>5 DEF RollsBack, Raises, Answers, Moves, RouterTypeOK
<1>6. ASSUME NEW r \in Requests, NEW b \in Bodies, Send(r, b) PROVE pc'[q] = pc[q]
  BY <1>0, <1>2, <1>6 DEF Send, RouterTypeOK
<1>7. (\E k \in Keys : Expire(k)) \/ Quiet \/ UNCHANGED vars => pc'[q] = pc[q]
  BY DEF Expire, Quiet, vars
<1> QED
  BY <1>3, <1>4, <1>5, <1>6, <1>7 DEF Next, Fail, Deadlock, Stays

LEMMA FreshNext == ASSUME IInv, [Next]_vars PROVE Fresh'
<1> SUFFICES ASSUME NEW q \in Requests, pc'[q] # "committed"
             PROVE  past'[q] = <<>> /\ \A v \in versions' : v.by # q
  BY DEF Fresh
<1>1. pc[q] # "committed"
  BY CommittedStays
<1>2. past[q] = <<>> /\ (\A v \in versions : v.by # q) /\ q \in AdIds
  BY <1>1 DEF IInv, RouterInv, Fresh, AdIds
<1>3. CASE UNCHANGED tables
  BY <1>2, <1>3 DEF tables
<1>4. ASSUME NEW r \in Requests, CommitCreate(r)
      PROVE  past'[q] = <<>> /\ \A v \in versions' : v.by # q
  <2>1. r # q
    BY <1>4 DEF CommitCreate, Moves, IInv, RouterInv, RouterTypeOK
  <2> QED
    BY <1>2, <1>4, <2>1, Tables DEF CommitCreate, Version, IInv
<1>5. ASSUME NEW r \in Requests, CommitUpdate(r)
      PROVE  past'[q] = <<>> /\ \A v \in versions' : v.by # q
  <2>1. r # q
    BY <1>5 DEF CommitUpdate, Moves, IInv, RouterInv, RouterTypeOK
  <2>2. body[r].ad # q
    BY <1>2, <1>5, CommitUpdateEdits, Tables DEF IInv
  <2> QED
    BY <1>2, <1>5, <2>1, <2>2, Tables DEF CommitUpdate, Version, IInv
<1>6. ASSUME NEW r \in Requests, CommitDelete(r)
      PROVE  past'[q] = <<>> /\ \A v \in versions' : v.by # q
  BY <1>2, <1>6 DEF CommitDelete
<1> QED
  BY <1>3, <1>4, <1>5, <1>6, OnlyCommitsWrite

LEMMA EditingGoes ==
  ASSUME RouterTypeOK, [Next]_vars, NEW q \in Requests,
         Editing(q, {"loaded", "flushed", "replied"})'
  PROVE  /\ body'[q] = body[q] /\ body[q] \in Bodies /\ body[q].op = "update"
         /\ \/ Stays(q) /\ pc'[q] = pc[q]
            \/ UpdateLoad(q) /\ pc'[q] = "loaded"
            \/ UpdateFlush(q) /\ pc'[q] = "flushed" /\ pc[q] = "loaded" /\ seen'[q] = seen[q]
            \/ UpdateReturn(q) /\ pc'[q] = "replied" /\ pc[q] = "flushed" /\ seen'[q] = seen[q]
<1>1. CASE Stays(q)
  BY <1>1 DEF Stays, Editing, RouterTypeOK
<1>2. CASE Handle(q)
  <2>1. pc'[q] # "closed" /\ pc'[q] # "committed" /\ body'[q].op = "update"
    BY DEF Editing
  <2>2. ~CreateReturn(q) /\ ~DeleteLoad(q) /\ ~DeleteReturn(q) /\ ~VersionsLoad(q)
    BY <1>2, <2>1, HandleGoes DEF CreateReturn, DeleteLoad, DeleteReturn, VersionsLoad, At
  <2>3. pc'[q] \notin {"missed", "deleting"}
    BY DEF Editing
  <2> QED
    BY <1>1, <1>2, <2>1, <2>2, <2>3, HandleGoes DEF UpdateFlush, UpdateReturn, At
<1>3. CASE Ends(q) \/ RollsBack(q) \/ \E b \in Bodies : Send(q, b)
  BY <1>3, RollbackEnds, SendReceives DEF Ends, Editing
<1> QED
  BY <1>1, <1>2, <1>3, StaysOrMoves

LEMMA SeenIsPastNext == ASSUME IInv, [Next]_vars PROVE SeenIsPast'
<1> SUFFICES ASSUME NEW q \in Requests, Editing(q, {"loaded", "flushed", "replied"})'
             PROVE  \E i \in 1 .. Len(past'[body'[q].ad]) : seen'[q] = past'[body'[q].ad][i]
  BY DEF SeenIsPast
<1> DEFINE a == body[q].ad
<1>0. /\ body'[q] = body[q] /\ body[q].op = "update"
      /\ \/ Stays(q) /\ pc'[q] = pc[q]
         \/ UpdateLoad(q)
         \/ UpdateFlush(q) /\ pc[q] = "loaded" /\ seen'[q] = seen[q]
         \/ UpdateReturn(q) /\ pc[q] = "flushed" /\ seen'[q] = seen[q]
  BY EditingGoes DEF IInv, RouterInv
<1>1. a \in AdIds /\ Grows(a)
  BY EditingGoes, BodyShape, TablesGrow DEF IInv, RouterInv
<1>2. CASE UpdateLoad(q)
  <2>1. seen'[q] = ads[a].cols /\ ads[a] # Gone
    BY <1>2 DEF UpdateLoad, Owns, IInv, RouterInv, RouterTypeOK
  <2>2. past[a] \in Seq(Contents) /\ past[a] # <<>> /\ past[a][Len(past[a])] = ads[a].cols
    BY <1>1, <2>1, Tables DEF IInv
  <2>3. Len(past[a]) \in 1 .. Len(past[a])
    BY <2>2
  <2> QED
    BY <1>0, <1>1, <2>1, <2>2, <2>3 DEF Grows
<1>3. CASE ~UpdateLoad(q)
  <2>1. seen'[q] = seen[q] /\ Editing(q, {"loaded", "flushed", "replied"})
    BY <1>0, <1>3 DEF Stays, Editing
  <2> QED
    BY <1>0, <1>1, <2>1 DEF IInv, RouterInv, SeenIsPast, Grows
<1> QED
  BY <1>2, <1>3

LEMMA HeldRowsLiveNext == ASSUME IInv, [Next]_vars PROVE HeldRowsLive'
<1> SUFFICES ASSUME NEW q \in Requests, Editing(q, {"flushed", "replied"})'
             PROVE  ads'[body'[q].ad] # Gone
  BY DEF HeldRowsLive
<1> DEFINE a == body[q].ad
<1>0. Editing(q, {"loaded", "flushed", "replied"})'
  BY DEF Editing
<1>1. /\ body'[q] = body[q] /\ body[q].op = "update" /\ body[q] \in Bodies
      /\ \/ pc'[q] = pc[q]
         \/ UpdateFlush(q)
         \/ UpdateReturn(q) /\ pc[q] = "flushed"
  BY <1>0, EditingGoes DEF Editing, IInv, RouterInv
<1>2. a \in AdIds /\ Grows(a)
  BY <1>1, BodyShape, TablesGrow
<1>3. CASE UpdateFlush(q)
  BY <1>1, <1>3 DEF UpdateFlush, db
<1>4. CASE ~UpdateFlush(q)
  <2>1. Editing(q, {"flushed", "replied"})
    BY <1>1, <1>4 DEF Editing
  <2>2. ads[a] # Gone /\ q \in Sharing(a)
    BY <2>1 DEF IInv, RouterInv, HeldRowsLive, Editing, Sharing
  <2> QED
    BY <1>1, <1>2, <2>2 DEF Grows
<1> QED
  BY <1>3, <1>4
\* A patch whose flush and refresh both went through has no null in a NOT NULL
\* column: an unchanged column cannot be null, since what was loaded was not.
LEMMA ReturnedIsLegal ==
  ASSUME IInv, NEW q \in Requests, UpdateReturn(q)
  PROVE  ~NullsRequired(body[q].cols)
<1>1. /\ Editing(q, {"flushed"}) /\ Editing(q, {"flushed", "replied"})
      /\ Editing(q, {"loaded", "flushed", "replied"})
  BY DEF UpdateReturn, At, Editing
<1>2. body[q] \in Bodies /\ body[q].ad \in AdIds
  BY <1>1, BodyShape DEF Editing, IInv, RouterInv, RouterTypeOK
<1>3. ~NullsColumn(q) /\ OwnView(q)["metadata"] # Null
  BY <1>1 DEF UpdateReturn, IInv, RouterInv, PendingIsLegal
<1>4. seen[q] \in Contents
  <2>1. \E i \in 1 .. Len(past[body[q].ad]) : seen[q] = past[body[q].ad][i]
    BY <1>1 DEF IInv, RouterInv, SeenIsPast
  <2>2. past[body[q].ad] \in Seq(Contents)
    BY <1>2, Tables DEF IInv
  <2> QED
    BY <2>1, <2>2
<1> SUFFICES ASSUME NEW f \in DOMAIN body[q].cols \cap Required, body[q].cols[f] = Null
             PROVE  FALSE
  BY DEF NullsRequired
<1>5. f \in Dirty(q)
  BY <1>4, ContentIsLegal DEF Dirty
<1>6. f = "metadata"
  BY <1>3, <1>5 DEF NullsColumn
<1>7. OwnView(q)[f] = Null
  BY <1>5, <1>6 DEF OwnView, Patched, Fields
<1> QED
  BY <1>3, <1>6, <1>7

LEMMA PendingIsLegalNext == ASSUME IInv, [Next]_vars PROVE PendingIsLegal'
<1> SUFFICES ASSUME NEW q \in Requests
             PROVE  /\ Editing(q, {"flushed"})' => ~NullsColumn(q)'
                    /\ Editing(q, {"replied"})' => ~NullsRequired(body'[q].cols)
  BY DEF PendingIsLegal, NullsRequired
<1>1. ASSUME Editing(q, {"flushed"})' PROVE ~NullsColumn(q)'
  <2>1. /\ body'[q] = body[q] /\ body[q].op = "update"
        /\ \/ Stays(q) /\ pc'[q] = pc[q]
           \/ UpdateFlush(q) /\ seen'[q] = seen[q]
    BY <1>1, EditingGoes DEF Editing, IInv, RouterInv
  <2>2. seen'[q] = seen[q] /\ ~NullsColumn(q)
    BY <1>1, <2>1 DEF Stays, UpdateFlush, Editing, IInv, RouterInv, PendingIsLegal
  <2> QED
    BY <2>1, <2>2 DEF NullsColumn, Dirty
<1>2. ASSUME Editing(q, {"replied"})' PROVE ~NullsRequired(body'[q].cols)
  <2>1. /\ body'[q] = body[q] /\ body[q].op = "update"
        /\ pc'[q] = pc[q] \/ UpdateReturn(q)
    BY <1>2, EditingGoes DEF Editing, IInv, RouterInv
  <2> QED
    BY <1>2, <2>1, ReturnedIsLegal DEF Editing, IInv, RouterInv, PendingIsLegal
<1> QED
  BY <1>1, <1>2

LEMMA CachedAnswersNext ==
  ASSUME IInv, [Next]_vars, NEW k \in Keys, store'[k] # None
  PROVE  store'[k].response.status = 201
<1>0. /\ Cache!TypeOK
      /\ \A j \in Keys : store[j] # None => store[j].response.status = 201
  BY DEF IInv, RouterInv, RouterTypeOK, AnswersFit
<1>1. CASE UNCHANGED store
  BY <1>0, <1>1
<1>2. ASSUME NEW r \in Requests, CreateMiss(r) PROVE store'[k].response.status = 201
  BY <1>0, <1>2 DEF CreateMiss, Cache!Miss, Cache!TypeOK
<1>3. ASSUME NEW r \in Requests, CreateReturn(r) PROVE store'[k].response.status = 201
  BY <1>0, <1>3 DEF CreateReturn, Cache!Set, Cache!TypeOK, Reply
<1>4. ASSUME NEW j \in Keys, Expire(j) PROVE store'[k].response.status = 201
  <2>1. store[j] \in Cache!Entries
    BY <1>0, <1>4 DEF Expire, Cache!Expire, Cache!Hit, Cache!TypeOK
  <2>2. CASE k = j
    <3>1. store'[k] = [store[j] EXCEPT !.expired = TRUE]
      BY <1>0, <1>4, <2>2 DEF Expire, Cache!Expire, Cache!TypeOK
    <3>2. store'[k].response = store[j].response
      BY <2>1, <3>1 DEF Cache!Entries
    <3> QED
      BY <1>0, <1>4, <3>2 DEF Expire, Cache!Expire, Cache!Hit
  <2>3. CASE k # j
    BY <1>0, <1>4, <2>3 DEF Expire, Cache!Expire, Cache!TypeOK
  <2> QED
    BY <2>2, <2>3
<1>5. ~Crash
  BY DEF Crash, Cache!Lost
<1>6. ASSUME NEW r \in Requests, Handle(r), ~CreateMiss(r), ~CreateReturn(r)
      PROVE  UNCHANGED store
  BY <1>6 DEF Handle, NotFound, CreateReplay, GetReturn, UpdateLoad, UpdateFlush,
     UpdateRefused, UpdateReturn, UpdateUnreadable, DeleteLoad, DeleteReturn, VersionsLoad,
     VersionsReturn, CommitCreate, CommitUpdate, DeleteVersion, DeleteAd, CommitDelete, Raises
<1>7. ASSUME NEW r \in Requests, RollsBack(r) PROVE UNCHANGED store
  BY <1>7 DEF RollsBack, Raises
<1>8. ASSUME NEW r \in Requests, NEW b \in Bodies, Send(r, b) PROVE UNCHANGED store
  BY <1>8 DEF Send
<1>9. Quiet \/ UNCHANGED vars => UNCHANGED store
  BY DEF Quiet, vars
<1> QED
  BY <1>1, <1>2, <1>3, <1>4, <1>5, <1>6, <1>7, <1>8, <1>9 DEF Next, Fail, Deadlock

LEMMA AnswersFitNext == ASSUME IInv, [Next]_vars PROVE AnswersFit'
<1> DEFINE Fit(q) ==
      /\ pc[q] \in {"idle", "received", "missed", "loaded", "flushed"} => reply[q].status = 0
      /\ pc[q] \in Answered \cup {"committed"} => reply[q].status \in {200, 201, 204}
      /\ pc[q] \in Answered /\ body[q].op # "create" => reply[q].status \in {200, 204}
<1>1. ASSUME NEW q \in Requests PROVE Fit(q)'
  <2>0. Fit(q) /\ RouterTypeOK
    BY DEF IInv, RouterInv, AnswersFit
  <2>1. CASE Stays(q)
    BY <2>0, <2>1 DEF Stays
  <2>2. CASE Ends(q) \/ RollsBack(q)
    BY <2>0, <2>2, RollbackEnds DEF Ends, Answered
  <2>3. CASE \E b \in Bodies : Send(q, b)
    BY <2>0, <2>3, SendReceives DEF Answered
  <2>4. CASE Handle(q) /\ pc'[q] # "closed"
    <3>1. CASE \/ CreateMiss(q) \/ UpdateLoad(q) \/ UpdateFlush(q)
               \/ DeleteLoad(q) \/ VersionsLoad(q)
      <4>1. reply'[q] = reply[q] /\ pc[q] \in {"received", "loaded"}
        BY <3>1 DEF CreateMiss, UpdateLoad, UpdateFlush, DeleteLoad, VersionsLoad, At
      <4>2. pc'[q] \in {"missed", "loaded", "flushed"}
        BY <2>0, <3>1
           DEF CreateMiss, UpdateLoad, UpdateFlush, DeleteLoad, VersionsLoad, Moves,
               RouterTypeOK
      <4> QED
        BY <2>0, <4>1, <4>2 DEF Answered
    <3>2. CASE CreateReturn(q) \/ UpdateReturn(q) \/ DeleteReturn(q)
      <4>1. pc'[q] = "replied" /\ body'[q] = body[q]
        BY <2>0, <3>2 DEF CreateReturn, UpdateReturn, DeleteReturn, Answers, Moves, RouterTypeOK
      <4>2. CreateReturn(q) => reply'[q].status = 201 /\ body[q].op = "create"
        BY <2>0 DEF CreateReturn, At, Answers, Reply, RouterTypeOK
      <4>3. UpdateReturn(q) => reply'[q].status = 200
        BY <2>0 DEF UpdateReturn, Answers, Reply, RouterTypeOK
      <4>4. DeleteReturn(q) => reply'[q].status = 204
        BY <2>0 DEF DeleteReturn, Answers, Reply, RouterTypeOK
      <4> QED
        BY <3>2, <4>1, <4>2, <4>3, <4>4 DEF Answered
    <3>3. CASE CommitCreate(q) \/ CommitUpdate(q) \/ DeleteAd(q) \/ CommitDelete(q)
      <4>1. reply'[q] = reply[q] /\ pc[q] \in Answered
            /\ (DeleteAd(q) => body[q].op # "create" /\ body'[q] = body[q])
        BY <3>3 DEF CommitCreate, CommitUpdate, DeleteAd, CommitDelete, At, Answered, Moves
      <4>2. pc'[q] = "committed" \/ (DeleteAd(q) /\ pc'[q] = "deleting")
        BY <2>0, <3>3
           DEF CommitCreate, CommitUpdate, DeleteAd, CommitDelete, Moves, RouterTypeOK
      <4> QED
        BY <2>0, <4>1, <4>2 DEF Answered
    <3> QED
      BY <2>0, <2>1, <2>4, <3>1, <3>2, <3>3, HandleGoes
  <2>5. CASE pc'[q] = "closed"
    BY <2>5 DEF Answered
  <2> QED
    BY <2>0, <2>1, <2>2, <2>3, <2>4, <2>5, StaysOrMoves
<1> QED
  BY <1>1, CachedAnswersNext DEF AnswersFit

LEMMA OwnerCheckedNext == ASSUME IInv, [Next]_vars PROVE OwnerChecked'
<1> SUFFICES ASSUME NEW q \in Requests, pc'[q] \in {"loaded", "flushed"} \cup Answered,
                    body'[q].op # "create"
             PROVE  /\ past'[body'[q].ad] # <<>>
                    /\ ads'[body'[q].ad] # Gone => ads'[body'[q].ad].owner = body'[q].user
  BY DEF OwnerChecked
<1> DEFINE a == body[q].ad
<1>0. RouterTypeOK
  BY DEF IInv, RouterInv
<1>1. /\ body'[q] = body[q] /\ body[q] \in Bodies
      /\ pc[q] \in {"loaded", "flushed"} \cup Answered \/ Owns(q)
  <2>1. CASE Stays(q)
    BY <1>0, <2>1 DEF Stays, RouterTypeOK, Answered
  <2>2. CASE Handle(q)
    BY <1>0, <2>2, HandleGoes DEF CreateReturn, UpdateLoad, UpdateFlush, UpdateReturn,
       DeleteLoad, DeleteReturn, DeleteVersion, DeleteAd, VersionsLoad, At, Answered
  <2>3. CASE Ends(q) \/ RollsBack(q) \/ \E b \in Bodies : Send(q, b)
    BY <1>0, <2>3, RollbackEnds, SendReceives DEF Ends, Answered
  <2> QED
    BY <1>0, <2>1, <2>2, <2>3, StaysOrMoves
<1>2. a \in AdIds /\ Grows(a)
  BY <1>1, BodyShape, TablesGrow
<1>3. past[a] # <<>> /\ (ads[a] # Gone => ads[a].owner = body[q].user)
  BY <1>1, <1>2, Tables DEF IInv, RouterInv, OwnerChecked, Owns
<1> QED
  BY <1>1, <1>2, <1>3 DEF Grows

LEMMA OneAdPerVersionNext == ASSUME IInv, [Next]_vars PROVE OneAdPerVersion'
<1>0. OneAdPerVersion /\ Fresh
  BY DEF IInv, RouterInv
<1>1. CASE UNCHANGED tables
  BY <1>0, <1>1 DEF tables, OneAdPerVersion
<1>2. ASSUME NEW r \in Requests, NEW a, NEW cols, pc[r] # "committed",
             versions' = versions \cup {Version(a, r, cols)}
      PROVE  OneAdPerVersion'
  <2>1. Version(a, r, cols).by = r /\ \A v \in versions : v.by # r
    BY <1>0, <1>2 DEF Version, Fresh
  <2> QED
    BY <1>0, <1>2, <2>1 DEF OneAdPerVersion
<1>3. ASSUME NEW r \in Requests, CommitCreate(r) \/ CommitUpdate(r) \/ CommitDelete(r)
      PROVE  OneAdPerVersion'
  BY <1>0, <1>2, <1>3 DEF CommitCreate, CommitUpdate, CommitDelete, At, OneAdPerVersion
<1> QED
  BY <1>1, <1>3, OnlyCommitsWrite

LEMMA LockTypes ==
  ASSUME IInv, [Next]_vars
  PROVE  marked' \in [Requests -> SUBSET AdIds] /\ locks' \in [Requests -> SUBSET AdIds]
<1>0. /\ marked \in [Requests -> SUBSET AdIds] /\ locks \in [Requests -> SUBSET AdIds]
      /\ \A v \in versions : v.by \in AdIds
  BY Tables DEF IInv, RouterInv, LocksFit
<1>1. CASE UNCHANGED <<marked, locks>>
  BY <1>0, <1>1
<1>2. ASSUME NEW r \in Requests,
             DeleteReturn(r) \/ DeleteAd(r) \/ LetsGo(r) \/ \E v \in AdIds : DeleteVersion(r, v)
      PROVE  marked' \in [Requests -> SUBSET AdIds] /\ locks' \in [Requests -> SUBSET AdIds]
  BY <1>0, <1>2 DEF DeleteReturn, DeleteAd, LetsGo, DeleteVersion
<1>3. ASSUME NEW r \in Requests, Handle(r)
      PROVE  \/ UNCHANGED <<marked, locks>>
             \/ DeleteReturn(r) \/ DeleteAd(r) \/ LetsGo(r)
             \/ \E v \in AdIds : DeleteVersion(r, v)
  BY <1>3 DEF Handle, NotFound, CreateReplay, CreateMiss, CreateReturn, GetReturn,
     UpdateLoad, UpdateFlush, UpdateRefused, UpdateReturn, UpdateUnreadable, DeleteLoad,
     VersionsLoad, VersionsReturn, CommitCreate, CommitUpdate, CommitDelete, Raises, db
<1>4. ASSUME NEW r \in Requests, RollsBack(r) \/ \E b \in Bodies : Send(r, b)
      PROVE  LetsGo(r) \/ UNCHANGED <<marked, locks>>
  BY <1>4 DEF RollsBack, Raises, Send, db
<1>5. Crash => marked' \in [Requests -> SUBSET AdIds] /\ locks' \in [Requests -> SUBSET AdIds]
  BY DEF Crash
<1>6. (\E k \in Keys : Expire(k)) \/ Quiet \/ UNCHANGED vars => UNCHANGED <<marked, locks>>
  BY DEF Expire, Quiet, vars, db
<1> QED
  BY <1>1, <1>2, <1>3, <1>4, <1>5, <1>6 DEF Next, Fail, Deadlock

\* A lock is taken by DeleteVersion, and kept for as long as the request is
\* under way and no longer.
LEMMA LockKept ==
  ASSUME IInv, [Next]_vars, NEW q \in Requests, NEW v \in locks'[q]
  PROVE  /\ pc'[q] \in Answered /\ body'[q] = body[q] /\ body[q].op = "delete"
         /\ v \in locks[q] \/ DeleteVersion(q, v)
<1>0. /\ locks \in [Requests -> SUBSET AdIds] /\ RouterTypeOK
      /\ v \in locks[q] => pc[q] \in Answered /\ body[q].op = "delete"
  BY DEF IInv, RouterInv, LocksFit
<1>1. CASE locks'[q] = locks[q] /\ pc'[q] = pc[q] /\ body'[q] = body[q]
  BY <1>0, <1>1
<1>2. ASSUME NEW r \in Requests \ {q}, Handle(r) PROVE locks'[q] = locks[q] /\ Stays(q)
  <2>1. Stays(q)
    BY <1>0, <1>2, HandleMovesOne
  <2>2. CASE UNCHANGED locks
    BY <2>1, <2>2
  <2>3. CASE LetsGo(r) \/ \E w \in AdIds : DeleteVersion(r, w)
    BY <1>0, <2>1, <2>3 DEF LetsGo, DeleteVersion
  <2> QED
    BY <1>2, <2>2, <2>3 DEF Handle, NotFound, CreateReplay, CreateMiss, CreateReturn,
       GetReturn, UpdateLoad, UpdateFlush, UpdateRefused, UpdateReturn, UpdateUnreadable,
       DeleteLoad, DeleteReturn, VersionsLoad, VersionsReturn, CommitCreate, CommitUpdate,
       DeleteAd, CommitDelete, Raises, db
<1>3. CASE Handle(q)
  <2>1. ASSUME NEW w \in AdIds, DeleteVersion(q, w)
        PROVE  /\ pc'[q] \in Answered /\ body'[q] = body[q] /\ body[q].op = "delete"
               /\ v \in locks[q] \/ v = w
    BY <1>0, <2>1 DEF DeleteVersion
  <2>2. CASE DeleteAd(q)
    BY <1>0, <2>2 DEF DeleteAd, Moves, At, Answered, RouterTypeOK
  <2>3. ~CommitDelete(q)
    BY <1>0 DEF CommitDelete, LetsGo
  <2>4. ASSUME UNCHANGED locks, ~DeleteAd(q), \A w \in AdIds : ~DeleteVersion(q, w) PROVE FALSE
    <3>1. pc[q] \in Answered /\ body[q].op = "delete"
      BY <1>0, <2>4
    <3> QED
      BY <1>3, <2>3, <2>4, <3>1
         DEF Handle, At, NotFound, CreateReplay, CreateMiss, CreateReturn, GetReturn,
         UpdateLoad, UpdateFlush, UpdateRefused, UpdateReturn, UpdateUnreadable, DeleteLoad,
         DeleteReturn, VersionsLoad, VersionsReturn, CommitCreate, CommitUpdate, Answered
  <2>5. UNCHANGED locks \/ \E w \in AdIds : DeleteVersion(q, w)
    BY <1>3, <2>3 DEF Handle, NotFound, CreateReplay, CreateMiss, CreateReturn,
       GetReturn, UpdateLoad, UpdateFlush, UpdateRefused, UpdateReturn, UpdateUnreadable,
       DeleteLoad, DeleteReturn, VersionsLoad, VersionsReturn, CommitCreate, CommitUpdate,
       DeleteAd, Raises, db
  <2> QED
    BY <2>1, <2>2, <2>4, <2>5
<1>4. ASSUME NEW r \in Requests, RollsBack(r)
      PROVE  locks'[q] = locks[q] /\ pc'[q] = pc[q] /\ body'[q] = body[q]
  <2>1. r # q
    BY <1>0, <1>4 DEF RollsBack, LetsGo, Raises, db
  <2> QED
    BY <1>0, <1>4, <2>1 DEF RollsBack, LetsGo, Raises, Answers, Moves, db, RouterTypeOK
<1>5. ASSUME NEW r \in Requests, NEW b \in Bodies, Send(r, b)
      PROVE  locks'[q] = locks[q] /\ pc'[q] = pc[q] /\ body'[q] = body[q]
  <2>1. locks'[q] = locks[q]
    BY <1>5 DEF Send, db
  <2>2. r # q
    BY <1>0, <1>5, <2>1 DEF Send, Answered
  <2> QED
    BY <1>0, <1>5, <2>1, <2>2 DEF Send, RouterTypeOK
<1>6. ~Crash
  BY DEF Crash
<1>7. (\E k \in Keys : Expire(k)) \/ Quiet \/ UNCHANGED vars =>
         locks'[q] = locks[q] /\ pc'[q] = pc[q] /\ body'[q] = body[q]
  BY DEF Expire, Quiet, vars, db
<1> QED
  BY <1>1, <1>2, <1>3, <1>4, <1>5, <1>6, <1>7 DEF Next, Fail, Deadlock, Stays

\* No version row gets a name that a committed request, or an ad of the start,
\* has given already.
LEMMA NoNewVersionOf ==
  ASSUME IInv, [Next]_vars, NEW v, v \in Requests => pc[v] = "committed",
         NEW w \in versions', w.by = v
  PROVE  w \in versions
<1>1. ASSUME NEW r \in Requests, CommitCreate(r) \/ CommitUpdate(r) PROVE w \in versions
  BY <1>1 DEF CommitCreate, CommitUpdate, At, Version
<1> QED
  BY <1>1, OnlyCommitsWrite DEF tables, CommitDelete

LEMMA DeletersAlone ==
  ASSUME IInv, [Next]_vars, NEW q \in Requests, pc'[q] = "deleting"
  PROVE  /\ body'[q].op = "delete"
         /\ \A p \in Requests : pc'[p] \in {"flushed", "replied"} /\ body'[p].op = "update" =>
               body'[p].ad # body'[q].ad
<1>0. RouterTypeOK
  BY DEF IInv, RouterInv
<1> DEFINE a == body[q].ad
<1>1. /\ body'[q] = body[q] /\ body[q].op = "delete"
      /\ pc[q] = "deleting" \/ (DeleteAd(q) /\ pc[q] # "deleting")
  <2>1. CASE Stays(q)
    BY <2>1 DEF Stays, IInv, RouterInv, LocksFit
  <2>2. CASE Handle(q)
    BY <1>0, <2>2, HandleGoes DEF DeleteAd, At, Stays, IInv, RouterInv, LocksFit
  <2>3. ~(Ends(q) \/ RollsBack(q) \/ \E b \in Bodies : Send(q, b))
    BY <1>0, RollbackEnds, SendReceives DEF Ends
  <2> QED
    BY <1>0, <2>1, <2>2, <2>3, StaysOrMoves
<1>2. Sharing(a) = {}
  <2>1. CASE pc[q] = "deleting"
    BY <2>1 DEF IInv, RouterInv, LocksFit
  <2>2. CASE DeleteAd(q)
    BY <2>2 DEF DeleteAd, Sharing, IInv, RouterInv, HeldRowsLive, Editing
  <2> QED
    BY <1>1, <2>1, <2>2
<1>3. ASSUME NEW p \in Requests, pc'[p] \in {"flushed", "replied"}, body'[p].op = "update",
             body'[p].ad = a
      PROVE  FALSE
  <2>1. /\ body'[p] = body[p]
        /\ Stays(p) \/ UpdateFlush(p) \/ (UpdateReturn(p) /\ pc[p] = "flushed")
    BY <1>0, <1>3, EditingGoes DEF Editing
  <2>2. UpdateFlush(p)
    BY <1>2, <1>3, <2>1 DEF Stays, Sharing
  <2>3. pc[q] # "deleting" /\ p # q
    BY <1>1, <1>3, <2>1, <2>2 DEF UpdateFlush, Removing
  <2>4. Stays(q)
    BY <1>0, <2>2, <2>3, HandleMovesOne DEF Handle
  <2> QED
    BY <2>3, <2>4 DEF Stays
<1> QED
  BY <1>1, <1>3

LEMMA LocksFitNext == ASSUME IInv, [Next]_vars PROVE LocksFit'
<1>1. ASSUME NEW q \in Requests, NEW v \in locks'[q]
      PROVE  /\ pc'[q] \in Answered /\ body'[q].op = "delete"
             /\ v \in Requests => pc'[v] = "committed"
             /\ \A w \in versions' : w.by = v => w.ad = body'[q].ad
  <2>1. /\ pc'[q] \in Answered /\ body'[q] = body[q] /\ body[q].op = "delete"
        /\ v \in locks[q] \/ DeleteVersion(q, v)
    BY <1>1, LockKept
  <2>2. /\ v \in Requests => pc[v] = "committed"
        /\ \A w \in versions : w.by = v => w.ad = body[q].ad
    <3>1. CASE v \in locks[q]
      BY <3>1 DEF IInv, RouterInv, LocksFit
    <3>2. CASE DeleteVersion(q, v)
      BY <3>2 DEF DeleteVersion, Upcoming, Left, IInv, RouterInv, OneAdPerVersion, Fresh
    <3> QED
      BY <2>1, <3>1, <3>2
  <2> QED
    BY <2>1, <2>2, CommittedStays, NoNewVersionOf
<1> QED
  BY <1>1, LockTypes, DeletersAlone DEF LocksFit, Sharing
-----------------------------------------------------------------------------
(* The theorems. *)

LEMMA InitHistory == Init => History!Init
<1> SUFFICES ASSUME Init PROVE History!Init
  OBVIOUS
<1>1. ads \in [AdIds -> Rows \cup {Gone}]
  BY RouterAssumption DEF Init, AdIds
<1>2. \A a \in AdIds : ads[a] # Gone <=> a \in Seeds
  BY RouterAssumption, SchemaAssumption DEF Init
<1>3. past = [a \in AdIds |-> IF ads[a] # Gone THEN <<ads[a].cols>> ELSE <<>>]
  BY <1>2 DEF Init, AdIds
<1>4. versions = {Version(a, a, ads[a].cols) : a \in {b \in AdIds : ads[b] # Gone}}
  <2>1. Seeds = {b \in AdIds : ads[b] # Gone}
    BY <1>2 DEF AdIds
  <2>2. \A s \in Seeds : ads[s] = Seeded[s]
    BY DEF Init, AdIds
  <2> QED
    BY <2>1, <2>2 DEF Init
<1> QED
  BY <1>1, <1>3, <1>4 DEF History!Init, History!Live, History!Rows, Rows,
     History!Version, Version, History!Snap, Snap, History!Snapped, Snapped

LEMMA InitIInv == Init => IInv
<1> SUFFICES ASSUME Init PROVE IInv
  OBVIOUS
<1>1. Facts!HistoryInv
  BY InitHistory, SameHistory, Facts!InitInv, SchemaAssumption
     DEF Facts!Rows, Rows, Facts!Columns, Columns, Facts!Required, Required,
         Facts!Fields, Fields
<1>2. RouterTypeOK
  BY InitTypes
<1>3. Fresh
  BY RouterAssumption DEF Init, Fresh, Version, AdIds
<1>4. SeenIsPast /\ HeldRowsLive /\ PendingIsLegal /\ OwnerChecked
  BY DEF Init, SeenIsPast, HeldRowsLive, PendingIsLegal, OwnerChecked, Editing, Answered
<1>5. AnswersFit
  BY DEF Init, AnswersFit, Cache!Init, NoReply, Reply, Answered
<1>6. OneAdPerVersion /\ LocksFit
  BY RouterAssumption DEF Init, OneAdPerVersion, LocksFit, Version
<1> QED
  BY <1>1, <1>2, <1>3, <1>4, <1>5, <1>6 DEF IInv, RouterInv

LEMMA StepIInv == IInv /\ [Next]_vars => IInv'
  BY NextTypes, FreshNext, SeenIsPastNext, HeldRowsLiveNext, PendingIsLegalNext,
     AnswersFitNext, OwnerCheckedNext, OneAdPerVersionNext, LocksFitNext, HistoryInvNext
     DEF IInv, RouterInv

\* The inductive invariant: types, what each stage of a handler may rely on,
\* what the row locks stand for, and the invariants of the version history.
THEOREM Invariant == Spec => []IInv
  BY InitIInv, StepIInv, PTL DEF Spec

\* Every variable keeps its type, whatever overlaps, fails or crashes.
THEOREM TypeCorrect == Spec => []TypeOK
<1>1. IInv => TypeOK
  BY SameHistory DEF IInv, RouterInv, RouterTypeOK, LocksFit, TypeOK, Facts!HistoryInv
<1> QED
  BY <1>1, Invariant, PTL

\* Each step of the router is one atomic operation of AdHistory on the tables,
\* or leaves them alone.
THEOREM Implementation == Spec => ImplementsHistory
<1>1. IInv /\ [Next]_vars => [History!Next]_(History!hvars)
  BY StepImplements, SameSteps, SameHistory DEF History!hvars, Facts!hvars
<1> QED
  BY <1>1, InitHistory, Invariant, PTL DEF Spec, ImplementsHistory, History!Spec

\* What the tables inherit from AdHistory, for every interleaving of requests.
LEMMA VersionsAreSound ==
  Spec => [](NoOrphanVersions /\ AsCreatedKept /\ NoPhantomVersions)
<1>1. IInv => NoOrphanVersions /\ AsCreatedKept /\ NoPhantomVersions
  BY SameHistory DEF IInv, Facts!HistoryInv, NoOrphanVersions, AsCreatedKept,
     NoPhantomVersions
<1> QED
  BY <1>1, Invariant, PTL

\* No snapshot outlives its ad, whatever PUTs were waiting for it.
THEOREM VersionsHaveAds == Spec => []NoOrphanVersions
  BY VersionsAreSound, PTL

\* An ad can be rewound to as created for as long as it lives.
THEOREM FirstVersionIsKept == Spec => []AsCreatedKept
  BY VersionsAreSound, PTL

\* A snapshot shows a content that its ad really had.
THEOREM VersionsAreContents == Spec => []NoPhantomVersions
  BY VersionsAreSound, PTL

\* A request that failed, was refused or was rolled back has written nothing.
THEOREM RollbackIsClean == Spec => []RollbackLeavesNothing
<1>1. IInv => RollbackLeavesNothing
  <2> SUFFICES ASSUME IInv, NEW r \in Requests,
                      pc[r] = "closed" \/ reply[r].status \in {404, 500}
               PROVE  pc[r] # "committed"
    BY DEF IInv, RouterInv, Fresh, RollbackLeavesNothing
  <2> QED
    BY DEF IInv, RouterInv, AnswersFit
<1> QED
  BY <1>1, Invariant, PTL
\* A commit that changes an existing ad is an update or a delete of that ad.
LEMMA WhoChanges ==
  ASSUME IInv, [Next]_vars, NEW a \in AdIds, ads[a] # Gone, ads'[a] # ads[a]
  PROVE  \E r \in Requests : /\ CommitUpdate(r) \/ CommitDelete(r)
                             /\ body[r].ad = a /\ body[r].op # "create"
                             /\ pc[r] \in Answered /\ pc'[r] = "committed"
<1>0. ads \in [AdIds -> Rows \cup {Gone}] /\ pc \in [Requests -> Stages]
  BY Tables DEF IInv, RouterInv, RouterTypeOK
<1>1. ~UNCHANGED tables
  BY DEF tables
<1>2. ASSUME NEW r \in Requests, CommitCreate(r) PROVE FALSE
  <2>1. past[r] = <<>> /\ r \in AdIds
    BY <1>2 DEF IInv, RouterInv, Fresh, CommitCreate, At, AdIds
  <2>2. ads[r] = Gone
    BY <2>1, Tables DEF IInv
  <2> QED
    BY <1>0, <1>2, <2>2 DEF CommitCreate
<1>3. ASSUME NEW r \in Requests, CommitUpdate(r) \/ CommitDelete(r)
      PROVE  /\ body[r].ad = a /\ body[r].op # "create"
             /\ pc[r] \in Answered /\ pc'[r] = "committed"
  BY <1>0, <1>3 DEF CommitUpdate, CommitDelete, At, Moves, Answered
<1> QED
  BY <1>1, <1>2, <1>3, OnlyCommitsWrite

\* Only the owner's answered PUTs and DELETEs change an existing ad.
THEOREM OwnersChange == Spec => ChangedByAnsweredOwner
<1> DEFINE ByOwner == \A a \in AdIds : ads[a] # Gone /\ ads'[a] # ads[a] =>
             \E r \in Requests :
               /\ pc[r] # "committed" /\ pc'[r] = "committed"
               /\ body[r].ad = a /\ body[r].user = ads[a].owner
               /\ reply[r].status \in {200, 204}
<1>1. IInv /\ [Next]_vars => ByOwner
  <2> SUFFICES ASSUME IInv, [Next]_vars, NEW a \in AdIds, ads[a] # Gone, ads'[a] # ads[a]
               PROVE  \E r \in Requests :
                        /\ pc[r] # "committed" /\ pc'[r] = "committed"
                        /\ body[r].ad = a /\ body[r].user = ads[a].owner
                        /\ reply[r].status \in {200, 204}
    OBVIOUS
  <2>1. PICK r \in Requests : /\ body[r].ad = a /\ body[r].op # "create"
                              /\ pc[r] \in Answered /\ pc'[r] = "committed"
    BY WhoChanges
  <2>2. body[r].user = ads[a].owner /\ reply[r].status \in {200, 204}
    BY <2>1 DEF IInv, RouterInv, OwnerChecked, AnswersFit, Answered
  <2> QED
    BY <2>1, <2>2 DEF Answered
<1>2. Spec => [][ByOwner]_vars
  BY <1>1, Invariant, PTL DEF Spec
<1> QED
  BY <1>2 DEF ChangedByAnsweredOwner

\* No PUT writes back a column that is not in its patch.
THEOREM NoWriteBack == Spec => UnpatchedColumnsKept
<1>1. IInv /\ [Next]_vars => WritesOwnPatch
  <2> SUFFICES ASSUME IInv, [Next]_vars, NEW a \in AdIds, ads[a] # Gone, ads'[a] # Gone,
                      NEW f \in {g \in Fields : ads'[a].cols[g] # ads[a].cols[g]}
               PROVE  \E r \in Requests :
                        /\ At(r, "replied", "update") /\ pc'[r] = "committed"
                        /\ body[r].ad = a
                        /\ f \in DOMAIN body[r].cols /\ ads'[a].cols[f] = body[r].cols[f]
    BY DEF WritesOwnPatch
  <2>1. PICK r \in Requests : /\ CommitUpdate(r) \/ CommitDelete(r)
                              /\ body[r].ad = a
                              /\ pc'[r] = "committed"
    BY WhoChanges
  <2>2. ads \in [AdIds -> Rows \cup {Gone}] /\ ads[a] \in Rows
    BY Tables DEF IInv
  <2>3. CommitUpdate(r)
    BY <2>1, <2>2 DEF CommitDelete
  <2>4. ads'[a].cols = OwnView(r)
    BY <2>1, <2>2, <2>3 DEF CommitUpdate, Rows
  <2>5. f \in Dirty(r) /\ OwnView(r)[f] = body[r].cols[f]
    BY <2>1, <2>4 DEF OwnView, Patched
  <2> QED
    BY <2>1, <2>3, <2>4, <2>5 DEF CommitUpdate, Dirty
<1> QED
  BY <1>1, Invariant, PTL DEF Spec, UnpatchedColumnsKept

\* A deleted ad stays deleted, whatever PUTs of it were under way.
THEOREM DeletionIsFinal == Spec => DeletedStaysDeleted
<1> DEFINE StaysGone == \A a \in AdIds : past[a] # <<>> /\ ~History!Live(a) => ads'[a] = Gone
<1>1. IInv /\ [Next]_vars => [StaysGone]_(History!hvars)
  BY TablesGrow DEF Grows, History!Live
<1>2. Spec => [][StaysGone]_(History!hvars)
  BY <1>1, Invariant, PTL DEF Spec
<1> QED
  BY <1>2 DEF DeletedStaysDeleted, History!DeletedStaysDeleted
=============================================================================
