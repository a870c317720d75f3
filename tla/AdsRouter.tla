----------------------------- MODULE AdsRouter ------------------------------
(***************************************************************************)
(* The handlers of routers/ads.py that work on one ad, each running in the *)
(* session that get_db() opens for its request, over PostgreSQL at READ    *)
(* COMMITTED.  Every request is a coroutine: between two awaits it is      *)
(* atomic, at an await any other request may move.                         *)
(*                                                                         *)
(* Two facts of the stack shape the model.  FastAPI (0.118 and later; the  *)
(* lock file pins 0.136) runs what follows a dependency's yield after the  *)
(* response has been sent, so a client is answered BEFORE its transaction  *)
(* commits.  And SQLAlchemy's UPDATE sets only the columns whose new value *)
(* differs from the value the session loaded.                              *)
(***************************************************************************)
EXTENDS AdSchema, Naturals, Sequences, FiniteSets

CONSTANTS Requests,  \* requests that clients send; a created ad bears the
                     \* name of the request that created it
          Seeded,    \* the rows in the database at the start, by ad
          Keys,      \* values of the Idempotency-Key header
          None,      \* no key, no ad, no body, nothing loaded
          Bodies,    \* the requests that clients may make
          Overlap,   \* how many requests may be under way at once
          Rank,      \* how the primary keys of version rows are ordered
          Faults,    \* whether database statements and COMMITs may fail
          Crashes,   \* whether the worker process may die
          Expiry     \* whether idempotency_ttl may pass during the run

Seeds == DOMAIN Seeded
AdIds == Seeds \cup Requests

Creates == [op : {"create"}, user : Users, key : Keys \cup {None},
            ad : {None}, cols : Contents]
Updates == [op : {"update"}, user : Users, key : {None}, ad : AdIds,
            cols : UNION {[D -> Values \cup {Null}] : D \in SUBSET Fields}]
Others  == [op : {"get", "versions", "delete"}, user : Users, key : {None},
            ad : AdIds, cols : {None}]

\* cols with the columns F taken from patch: the effect of SQL's SET.
Patched(cols, patch, F) == [f \in Fields |-> IF f \in F THEN patch[f] ELSE cols[f]]

\* Some NOT NULL column is patched with an explicit null.
NullsRequired(patch) == \E f \in DOMAIN patch \cap Required : patch[f] = Null

ASSUME RouterAssumption ==
    /\ Seeded \in [Seeds -> Rows]
    /\ Seeds \cap Requests = {}
    /\ None \notin AdIds \cup Keys \cup Contents \cup Creates \cup Updates \cup Others
    /\ Bodies \subseteq Creates \cup Updates \cup Others
    /\ Overlap \in Nat
    /\ Rank \in [AdIds -> Nat]
    /\ {Faults, Crashes, Expiry} \subseteq BOOLEAN

\* Contents is closed under the patches that the NOT NULL columns admit.
ASSUME ContentsClosed ==
    \A b \in Bodies : b.op = "update" /\ ~NullsRequired(b.cols) =>
        \A c \in Contents, F \in SUBSET DOMAIN b.cols :
            Patched(c, b.cols, F) \in Contents

VARIABLES ads,       \* public.ads, committed
          versions,  \* public.ad_versions, committed
          past,      \* every committed content of an ad, oldest first (history)
          marked,    \* the version rows that the session of a DELETE loaded
          locks,     \* ... and those its DELETE statements have locked
          store,     \* the idempotency cache
          pc,        \* how far the handler of each request has come
          body,      \* what each request asked for
          seen,      \* the columns its session loaded
          reply      \* what it was answered

vars == <<ads, versions, past, marked, locks, store, pc, body, seen, reply>>

\* "deleting": DELETE FROM ads has the ad's row, and its cascade is under way.
\* "closed": ended, by rollback or by committing no writes.
Stages   == {"idle", "received", "missed", "loaded", "flushed", "replied",
             "deleting", "committed", "closed"}
Answered == {"replied", "deleting"}
Settled  == {"committed", "closed"}

Reply(status, ad, shown) == [status |-> status, ad |-> ad, shown |-> shown]
NoReply == Reply(0, None, {})
Replies == [status : {0, 200, 201, 204, 404, 500}, ad : AdIds \cup {None},
            shown : SUBSET (Columns \cup Snaps)]

Cache   == INSTANCE IdempotencyCache WITH Responses <- Replies, NoEntry <- None
History == INSTANCE AdHistory WITH Ids <- AdIds

\* What is cached is told from what is not.
ASSUME NoneIsNoEntry == None \notin Cache!Entries

TypeOK ==
    /\ History!TypeOK
    /\ marked \in [Requests -> SUBSET AdIds]
    /\ locks \in [Requests -> SUBSET AdIds]
    /\ Cache!TypeOK
    /\ pc \in [Requests -> Stages]
    /\ body \in [Requests -> Bodies \cup {None}]
    /\ \A r \in Requests : body[r] = None <=> pc[r] = "idle"
    /\ seen \in [Requests -> Contents \cup {None}]
    /\ reply \in [Requests -> Replies]

Init ==
    /\ ads = [a \in AdIds |-> IF a \in Seeds THEN Seeded[a] ELSE Gone]
    /\ versions = {Version(s, s, Seeded[s].cols) : s \in Seeds}
    /\ past = [a \in AdIds |-> IF a \in Seeds THEN <<Seeded[a].cols>> ELSE <<>>]
    /\ marked = [r \in Requests |-> {}]
    /\ locks = [r \in Requests |-> {}]
    /\ Cache!Init
    /\ pc = [r \in Requests |-> "idle"]
    /\ body = [r \in Requests |-> None]
    /\ seen = [r \in Requests |-> None]
    /\ reply = [r \in Requests |-> NoReply]

tables == <<ads, versions, past>>
db     == <<ads, versions, past, marked, locks>>

-----------------------------------------------------------------------------
(* What a handler looks at. *)

InFlight == {r \in Requests : pc[r] \notin Settled \cup {"idle"}}

\* A client can name the ads of the start and those a 201 told it about.
Known(a) == a \in Seeds \/ \E c \in Requests : reply[c].status = 201 /\ reply[c].ad = a

\* Mutant: the query has lost its user_id condition.
OwnsUnscoped(r) == ads[body[r].ad] # Gone

\* _get_owned_ad finds the row: id and user_id both match.
Owns(r) == LET row == ads[body[r].ad] IN row # Gone /\ row.owner = body[r].user

\* The columns of request r's UPDATE: patched to other than what was loaded.
Dirty(r) == {f \in DOMAIN body[r].cols : body[r].cols[f] # seen[r][f]}

\* Its UPDATE sets a NOT NULL column to NULL (metadata: null becomes JSON null).
NullsColumn(r) ==
    \E f \in Dirty(r) \cap (Required \ {"metadata"}) : body[r].cols[f] = Null

\* Mutant: the UPDATE sets every column, as the session loaded or patched it.
FullRowView(r) == Patched(seen[r], body[r].cols, DOMAIN body[r].cols)

\* The row of r's ad as r's own transaction sees it after its flush.
OwnView(r) == Patched(ads[body[r].ad].cols, body[r].cols, Dirty(r))

(* The rows that transactions hold.  A version row bears the name of the    *)
(* request that wrote it.                                                   *)

\* Mutant: a committed update never lets go of its row.
SharingForEver(a) == {q \in Requests : /\ pc[q] \in {"flushed", "replied", "committed"}
                                       /\ body[q].op = "update"
                                       /\ body[q].ad = a}

\* PUTs whose INSERT INTO ad_versions holds ad a FOR KEY SHARE,
Sharing(a) == {q \in Requests : /\ pc[q] \in {"flushed", "replied"}
                                /\ body[q].op = "update"
                                /\ body[q].ad = a}

\* those whose UPDATE holds it FOR NO KEY UPDATE, and DELETEs that have deleted it.
Writing(a)  == {q \in Sharing(a) : Dirty(q) # {}}
Removing(a) == {q \in Requests : pc[q] = "deleting" /\ body[q].ad = a}

\* The DELETE that has deleted version row v, if any.
Holding(v) == {q \in Requests : v \in locks[q]}

\* The version rows DELETE r has still to delete: of those its session loaded
\* (cascade="all, delete-orphan"), then of all there are (ON DELETE CASCADE).
Left(r) == {v.by : v \in {w \in versions : w.ad = body[r].ad /\
                             (pc[r] = "replied" => w.by \in marked[r])}} \ locks[r]

\* Those that may be next.  The session sends them in the order of their keys
\* (equal ranks: in either order); the cascade has no order of its own.
Upcoming(r) == {v \in Left(r) : pc[r] = "replied" => \A w \in Left(r) : Rank[v] <= Rank[w]}

At(r, stage, op) == pc[r] = stage /\ body[r].op = op

\* PostgreSQL makes r's statement wait for q's transaction to end.  (It queues
\* those who wait for one row; here any of them may be next.)
Awaits(r, q) ==
    LET a == body[r].ad IN
    \/ /\ At(r, "loaded", "update") /\ ads[a] # Gone /\ ~NullsColumn(r)
       /\ q \in Removing(a) \/ (Dirty(r) # {} /\ q \in Writing(a))
    \/ /\ At(r, "replied", "delete") /\ Left(r) = {} /\ ads[a] # Gone
       /\ q \in Sharing(a) \cup Removing(a)
    \/ /\ pc[r] \in Answered /\ body[r].op = "delete"
       /\ \A v \in Upcoming(r) : Holding(v) # {}
       /\ \E v \in Upcoming(r) : q \in Holding(v)

\* r is on a circle of such waits.
Circle(r) ==
    LET waiting == {q \in Requests : \E p \in Requests : Awaits(q, p)} IN
    \E n \in 1 .. Cardinality(Requests) : \E c \in [0 .. n -> waiting] :
        c[0] = r /\ c[n] = r /\ \A i \in 0 .. n - 1 : Awaits(c[i], c[i + 1])

\* Handler r moves on; handler r sends its response, or raises.
Moves(r, stage) == pc' = [pc EXCEPT ![r] = stage] /\ UNCHANGED body
Answers(r, stage, answer) == Moves(r, stage) /\ reply' = [reply EXCEPT ![r] = answer]
Raises(r, status) ==
    Answers(r, "closed", Reply(status, None, {})) /\ UNCHANGED <<db, store, seen>>

-----------------------------------------------------------------------------
(* The requests. *)

\* A client sends a request; get_db() opens its session.
Send(r, b) ==
    /\ pc[r] = "idle"
    /\ Cardinality(InFlight) < Overlap
    /\ b.op = "create" \/ Known(b.ad)
    /\ pc' = [pc EXCEPT ![r] = "received"]
    /\ body' = [body EXCEPT ![r] = b]
    /\ UNCHANGED <<db, store, seen, reply>>

\* _get_owned_ad raises 404, which rolls the session back.
NotFound(r) ==
    /\ pc[r] = "received" /\ body[r].op # "create"
    /\ ~Owns(r)
    /\ Raises(r, 404)

\* Mutant: the lookup ignores which key the header holds.
CreateReplayAnyKey(r) ==
    /\ At(r, "received", "create")
    /\ \E k \in Keys : Cache!Hit(k) /\ Answers(r, "closed", store[k].response)
    /\ UNCHANGED <<db, store, seen>>

\* POST with a key that is cached: the stored response is sent again, to anyone.
CreateReplay(r) ==
    /\ At(r, "received", "create")
    /\ body[r].key # None /\ Cache!Hit(body[r].key)
    /\ Answers(r, "closed", store[body[r].key].response)
    /\ UNCHANGED <<db, store, seen>>

CreateMiss(r) ==
    /\ At(r, "received", "create")
    /\ IF body[r].key = None THEN UNCHANGED store ELSE Cache!Miss(body[r].key)
    /\ Moves(r, "missed")
    /\ UNCHANGED <<db, seen, reply>>

\* Mutant: the flushed row is committed at once, not with the transaction.
CreateReturnAutocommit(r) ==
    /\ At(r, "missed", "create")
    /\ ads' = [ads EXCEPT ![r] = [owner |-> body[r].user, cols |-> body[r].cols]]
    /\ versions' = versions \cup {Version(r, r, body[r].cols)}
    /\ past' = [past EXCEPT ![r] = <<body[r].cols>>]
    /\ Answers(r, "replied", Reply(201, r, {body[r].cols}))
    /\ UNCHANGED <<marked, locks, store, seen>>

\* Mutant: the response is not cached.
CreateReturnUncached(r) ==
    /\ At(r, "missed", "create")
    /\ Answers(r, "replied", Reply(201, r, {body[r].cols}))
    /\ UNCHANGED <<db, store, seen>>

\* Row and first snapshot are flushed, the response is cached and sent; no
\* other session sees the row yet.
CreateReturn(r) ==
    LET answer == Reply(201, r, {body[r].cols}) IN
    /\ At(r, "missed", "create")
    /\ IF body[r].key = None THEN UNCHANGED store ELSE Cache!Set(body[r].key, answer)
    /\ Answers(r, "replied", answer)
    /\ UNCHANGED <<db, seen>>

GetReturn(r) ==
    /\ At(r, "received", "get")
    /\ Owns(r)
    /\ Answers(r, "closed", Reply(200, body[r].ad, {ads[body[r].ad].cols}))
    /\ UNCHANGED <<db, store, seen>>

\* PUT selects the row and builds the snapshot from it; no row is locked.
UpdateLoad(r) ==
    /\ At(r, "received", "update")
    /\ Owns(r)
    /\ seen' = [seen EXCEPT ![r] = ads[body[r].ad].cols]
    /\ Moves(r, "loaded")
    /\ UNCHANGED <<db, store, reply>>

\* flush(): UPDATE the dirty columns, if any, then INSERT the snapshot.  Either
\* waits for a DELETE that has the row, the UPDATE also for other writers of it,
\* and both find the row only if it is there.
UpdateFlush(r) ==
    /\ At(r, "loaded", "update")
    /\ ads[body[r].ad] # Gone
    /\ ~NullsColumn(r)
    /\ Removing(body[r].ad) = {} /\ (Dirty(r) # {} => Writing(body[r].ad) = {})
    /\ Moves(r, "flushed")
    /\ UNCHANGED <<db, store, seen, reply>>

\* flush() raises: the row has gone (StaleDataError from the UPDATE, a foreign
\* key violation from the INSERT), or a NOT NULL column is set to null.
UpdateRefused(r) ==
    /\ At(r, "loaded", "update")
    /\ ads[body[r].ad] = Gone \/ NullsColumn(r)
    /\ Raises(r, 500)

\* Mutant: no refresh(), the response shows the row as loaded.
UpdateReturnStale(r) ==
    /\ At(r, "flushed", "update")
    /\ Answers(r, "replied", Reply(200, body[r].ad, {seen[r]}))
    /\ UNCHANGED <<db, store, seen>>

\* Mutant: AdResponse accepts a row whose metadata is null.
UpdateReturnLax(r) ==
    /\ At(r, "flushed", "update")
    /\ Answers(r, "replied", Reply(200, body[r].ad, {OwnView(r)}))
    /\ UNCHANGED <<db, store, seen>>

\* refresh() reads the row again and the response shows it.
UpdateReturn(r) ==
    /\ At(r, "flushed", "update")
    /\ OwnView(r)["metadata"] # Null
    /\ Answers(r, "replied", Reply(200, body[r].ad, {OwnView(r)}))
    /\ UNCHANGED <<db, store, seen>>

\* metadata: null is stored as JSON null; AdResponse then refuses the row.
UpdateUnreadable(r) ==
    /\ At(r, "flushed", "update")
    /\ OwnView(r)["metadata"] = Null
    /\ Raises(r, 500)

\* DELETE: the ownership check ...
DeleteLoad(r) ==
    /\ At(r, "received", "delete")
    /\ Owns(r)
    /\ Moves(r, "loaded")
    /\ UNCHANGED <<db, store, seen, reply>>

\* ... and db.delete(), which loads the versions it cascades to and marks them
\* all: 204 is sent before any DELETE statement is.
DeleteReturn(r) ==
    LET a == body[r].ad IN
    /\ At(r, "loaded", "delete")
    /\ marked' = [marked EXCEPT ![r] = {v.by : v \in {w \in versions : w.ad = a}}]
    /\ Answers(r, "replied", Reply(204, a, {}))
    /\ UNCHANGED <<tables, locks, store, seen>>

\* GET versions: the ownership check, and then the query.
VersionsLoad(r) ==
    /\ At(r, "received", "versions")
    /\ Owns(r)
    /\ Moves(r, "loaded")
    /\ UNCHANGED <<db, store, seen, reply>>

VersionsReturn(r) ==
    LET a == body[r].ad IN
    /\ At(r, "loaded", "versions")
    /\ Answers(r, "closed",
               Reply(200, a, {v.snap : v \in {w \in versions : w.ad = a}}))
    /\ UNCHANGED <<db, store, seen>>

-----------------------------------------------------------------------------
(* What get_db() does after the response: COMMIT, or ROLLBACK. *)

\* Mutant: create_ad adds no initial snapshot.
CommitCreateUnrecorded(r) ==
    /\ At(r, "replied", "create")
    /\ ads' = [ads EXCEPT ![r] = [owner |-> body[r].user, cols |-> body[r].cols]]
    /\ past' = [past EXCEPT ![r] = <<body[r].cols>>]
    /\ Moves(r, "committed")
    /\ UNCHANGED <<versions, marked, locks, store, seen, reply>>

\* Mutant: get_db() ends without session.commit().
CommitCreateForgotten(r) ==
    /\ At(r, "replied", "create")
    /\ Moves(r, "committed")
    /\ UNCHANGED <<db, store, seen, reply>>

\* Mutant: a COMMIT that succeeded is taken for failed, and the INSERT repeated.
CommitCreateRepeated(r) ==
    /\ At(r, "replied", "create")
    /\ ads' = [ads EXCEPT ![r] = [owner |-> body[r].user, cols |-> body[r].cols]]
    /\ versions' = versions \cup {Version(r, r, body[r].cols)}
    /\ past' = [past EXCEPT ![r] = <<body[r].cols>>]
    /\ UNCHANGED <<marked, locks, pc, body, store, seen, reply>>

CommitCreate(r) ==
    /\ At(r, "replied", "create")
    /\ ads' = [ads EXCEPT ![r] = [owner |-> body[r].user, cols |-> body[r].cols]]
    /\ versions' = versions \cup {Version(r, r, body[r].cols)}
    /\ past' = [past EXCEPT ![r] = <<body[r].cols>>]
    /\ Moves(r, "committed")
    /\ UNCHANGED <<marked, locks, store, seen, reply>>

\* Mutant: update_ad adds no snapshot.
CommitUpdateUnrecorded(r) ==
    LET a == body[r].ad IN
    /\ At(r, "replied", "update")
    /\ ads' = [ads EXCEPT ![a].cols = OwnView(r)]
    /\ past' = [past EXCEPT ![a] = Append(@, OwnView(r))]
    /\ Moves(r, "committed")
    /\ UNCHANGED <<versions, marked, locks, store, seen, reply>>

\* Mutant: the snapshot is taken after the patch has been applied.
CommitUpdateSnapshotLate(r) ==
    LET a == body[r].ad IN
    /\ At(r, "replied", "update")
    /\ ads' = [ads EXCEPT ![a].cols = OwnView(r)]
    /\ versions' = versions \cup {Version(a, r, Patched(seen[r], body[r].cols, DOMAIN body[r].cols))}
    /\ past' = [past EXCEPT ![a] = Append(@, OwnView(r))]
    /\ Moves(r, "committed")
    /\ UNCHANGED <<marked, locks, store, seen, reply>>

CommitUpdate(r) ==
    LET a == body[r].ad IN
    /\ At(r, "replied", "update")
    /\ ads' = [ads EXCEPT ![a].cols = OwnView(r)]
    /\ versions' = versions \cup {Version(a, r, seen[r])}
    /\ past' = [past EXCEPT ![a] = Append(@, OwnView(r))]
    /\ Moves(r, "committed")
    /\ UNCHANGED <<marked, locks, store, seen, reply>>

\* commit() flushes first: one DELETE for each version the session loaded ...
DeleteVersion(r, v) ==
    /\ pc[r] \in Answered /\ body[r].op = "delete"
    /\ v \in Upcoming(r) /\ Holding(v) = {}
    /\ locks' = [locks EXCEPT ![r] = @ \cup {v}]
    /\ UNCHANGED <<tables, marked, pc, body, store, seen, reply>>

\* ... then that of the ad, which waits for every transaction that has written
\* to it (and finds nothing if it has gone), and cascades to the versions left.
DeleteAd(r) ==
    LET a == body[r].ad IN
    /\ At(r, "replied", "delete")
    /\ Left(r) = {}
    /\ ads[a] # Gone => Sharing(a) \cup Removing(a) = {}
    /\ marked' = [marked EXCEPT ![r] = {}]
    /\ Moves(r, "deleting")
    /\ UNCHANGED <<tables, locks, store, seen, reply>>

\* At the end of a transaction its locks go, and what its session had marked.
LetsGo(r) == marked' = [marked EXCEPT ![r] = {}] /\ locks' = [locks EXCEPT ![r] = {}]

\* Mutant: get_db() ends without session.commit().
CommitDeleteForgotten(r) ==
    /\ At(r, "deleting", "delete")
    /\ Left(r) = {}
    /\ LetsGo(r)
    /\ Moves(r, "committed")
    /\ UNCHANGED <<tables, store, seen, reply>>

CommitDelete(r) ==
    LET a == body[r].ad IN
    /\ At(r, "deleting", "delete")
    /\ Left(r) = {}
    /\ ads' = [ads EXCEPT ![a] = Gone]
    /\ versions' = {v \in versions : v.ad # a}
    /\ LetsGo(r)
    /\ Moves(r, "committed")
    /\ UNCHANGED <<past, store, seen, reply>>

\* Rollback, and 500 unless the client has its answer already.
RollsBack(r) ==
    /\ r \in InFlight
    /\ \/ /\ pc[r] \in Answered
          /\ Moves(r, "closed") /\ LetsGo(r)
          /\ UNCHANGED <<tables, store, seen, reply>>
       \/ pc[r] \notin Answered /\ Raises(r, 500)

\* A statement or the COMMIT fails: timeout, lost connection, none in the pool.
Fail(r) == Faults /\ RollsBack(r)

\* PostgreSQL finds a circle of waits and ends one transaction that is on it.
Deadlock(r) == Circle(r) /\ RollsBack(r)

\* The worker dies and restarts: transactions roll back, the cache is lost.
Crash ==
    /\ Crashes
    /\ pc' = [r \in Requests |-> IF r \in InFlight THEN "closed" ELSE pc[r]]
    /\ marked' = [r \in Requests |-> {}]
    /\ locks' = [r \in Requests |-> {}]
    /\ Cache!Lost
    /\ UNCHANGED <<tables, body, seen, reply>>

Expire(k) == Expiry /\ Cache!Expire(k) /\ UNCHANGED <<db, pc, body, seen, reply>>

\* Every request has been sent and has ended.
Quiet == (\A r \in Requests : pc[r] \in Settled) /\ UNCHANGED vars

Handle(r) ==
    \/ NotFound(r)
    \/ CreateReplay(r) \/ CreateMiss(r) \/ CreateReturn(r)
    \/ GetReturn(r)
    \/ UpdateLoad(r) \/ UpdateFlush(r) \/ UpdateRefused(r)
    \/ UpdateReturn(r) \/ UpdateUnreadable(r)
    \/ DeleteLoad(r) \/ DeleteReturn(r)
    \/ VersionsLoad(r) \/ VersionsReturn(r)
    \/ CommitCreate(r) \/ CommitUpdate(r)
    \/ (\E v \in AdIds : DeleteVersion(r, v)) \/ DeleteAd(r) \/ CommitDelete(r)

Next ==
    \/ \E r \in Requests : Handle(r) \/ Fail(r) \/ Deadlock(r) \/ \E b \in Bodies : Send(r, b)
    \/ \E k \in Keys : Expire(k)
    \/ Crash
    \/ Quiet

Spec == Init /\ [][Next]_vars

-----------------------------------------------------------------------------
(* Properties. *)

\* The tables change only as the three atomic operations of AdHistory change them.
ImplementsHistory == History!Spec

\* No snapshot outlives its ad, and none is written for an ad deleted while
\* the PUT was waiting (FK of ad_versions, ON DELETE CASCADE).
NoOrphanVersions == History!NoOrphanVersions

\* "callers can always rewind to as created" (ads.py:14-15).
AsCreatedKept == History!AsCreatedKept

\* Every snapshot shows a content that its ad really had: an aborted edit, or
\* another ad's content, is never recorded (_snapshot in update_ad).
NoPhantomVersions == History!NoPhantomVersions

\* A PUT or DELETE under way never brings a deleted ad back.
DeletedStaysDeleted == History!DeletedStaysDeleted

WritesOwnPatch ==
    \A a \in AdIds : ads[a] # Gone /\ ads'[a] # Gone =>
        \A f \in {g \in Fields : ads'[a].cols[g] # ads[a].cols[g]} :
            \E r \in Requests :
                /\ At(r, "replied", "update") /\ pc'[r] = "committed"
                /\ body[r].ad = a
                /\ f \in DOMAIN body[r].cols /\ ads'[a].cols[f] = body[r].cols[f]

\* A PUT writes only columns of its own patch: it never writes back what its
\* session loaded and another PUT has changed since (update_ad, ads.py:227-237).
UnpatchedColumnsKept == [][WritesOwnPatch]_vars

\* An existing ad changes or goes only by a PUT or DELETE of its owner, who
\* has been answered 200 or 204 ("the router itself enforces per-user
\* scoping", ads.py:7): no unanswered or refused request leaves a trace.
ChangedByAnsweredOwner ==
    [][\A a \in AdIds : ads[a] # Gone /\ ads'[a] # ads[a] =>
         \E r \in Requests :
           /\ pc[r] # "committed" /\ pc'[r] = "committed"
           /\ body[r].ad = a /\ body[r].user = ads[a].owner
           /\ reply[r].status \in {200, 204}]_vars

\* A request that ended by rollback, in a crash or with an error answer has
\* written nothing, neither an ad nor a snapshot (get_db's rollback).
RollbackLeavesNothing ==
    \A r \in Requests : pc[r] = "closed" \/ reply[r].status \in {404, 500} =>
        past[r] = <<>> /\ \A v \in versions : v.by # r

\* A 200 shows the owner, and nobody else, a content his ad has committed (GET),
\* snapshots of such contents (versions), or such a content with columns of his
\* own patch (PUT): never what another request has yet to commit (ads.py:211,
\* 226-240, 264-269).
ReadsAreCommittedAndScoped ==
    \A r \in Requests : pc[r] # "idle" /\ reply[r].status = 200 =>
        LET a == body[r].ad
            had == {past[a][i] : i \in 1 .. Len(past[a])} IN
        /\ had # {}
        /\ body[r].op = "get" => reply[r].shown \subseteq had
        /\ body[r].op = "versions" => reply[r].shown \subseteq {Snap(c) : c \in had}
        /\ body[r].op = "update" =>
              \E c \in had, F \in SUBSET DOMAIN body[r].cols :
                  reply[r].shown = {Patched(c, body[r].cols, F)}
        /\ ads[a] # Gone => ads[a].owner = body[r].user

\* A 201 describes the ad of this POST, or of another POST with the same key
\* (the replay of create_ad, ads.py:167-175).
ReplayIsFaithful ==
    \A r \in Requests : reply[r].status = 201 =>
        LET c == reply[r].ad IN
        /\ c \in Requests /\ body[c] # None /\ body[c].op = "create"
        /\ reply[r].shown = {body[c].cols}
        /\ c = r \/ (body[r].key # None /\ body[c].key = body[r].key)

-----------------------------------------------------------------------------
(* What holds while requests take turns.  Nothing in the code makes them do *)
(* so: each condition names a span of a handler that no other request may   *)
(* enter, and the properties that need it.                                  *)

\* No two POSTs with one key are between create_ad's lookup of it and its
\* set(): the span of OneAdPerKey (ads.py:168-196).
RetriesWait ==
    \A q, r \in Requests :
        At(q, "missed", "create") /\ At(r, "missed", "create")
        /\ body[q].key = body[r].key /\ q # r => body[r].key = None

\* No two PUTs of one ad are between update_ad's SELECT and their COMMIT: the
\* span of ImplementsStrictHistory, PriorStateRecorded and PatchEchoed.
EditsTakeTurns ==
    \A q, r \in Requests :
        /\ {pc[q], pc[r]} \subseteq {"loaded", "flushed", "replied"}
        /\ body[q].op = "update" /\ body[r].op = "update"
        /\ body[q].ad = body[r].ad
        => q = r

\* No request names an ad between its 201 and its COMMIT: that of CreatedIsFound.
AsksAfterCommit ==
    \A r \in Requests :
        body[r] # None /\ body[r].op # "create" /\ body[r].ad \in Requests =>
            pc[body[r].ad] \in Settled

TakingTurns == RetriesWait /\ EditsTakeTurns /\ AsksAfterCommit

TurnsSpec == Init /\ [][Next /\ TakingTurns']_vars

\* ads.py:13-18 as it reads: each edit records the very state it replaces.
ImplementsStrictHistory == History!StrictSpec

\* "On every successful PUT we write the prior state" (ads.py:13-14).
PriorStateRecorded == History!PriorStateRecorded

\* "retries do not create duplicate ads" (ads.py:24).
OneAdPerKey ==
    \A q, r \in Requests :
        past[q] # <<>> /\ past[r] # <<>> /\ body[q].key = body[r].key /\ q # r =>
            body[r].key = None

\* A 200 to a PUT shows the values it asked for (tests/test_ads.py:104-112).
PatchEchoed ==
    \A r \in Requests :
        body[r] # None /\ reply[r].status = 200 /\ body[r].op = "update" =>
            \A c \in reply[r].shown, f \in DOMAIN body[r].cols : c[f] = body[r].cols[f]

\* A client that was told 201 finds its ad (tests/test_ads.py:91-97), unless a
\* fault undid the COMMIT or someone asked to delete it.
CreatedIsFound ==
    \A g, c \in Requests :
        /\ body[g] # None /\ body[c] # None
        /\ reply[g].status = 404 /\ body[g].ad = c /\ body[g].user = body[c].user
        /\ pc[c] # "closed"
        => \E d \in Requests : body[d] # None /\ body[d].op = "delete" /\ body[d].ad = c
=============================================================================
