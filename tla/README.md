# Adess backend: TLA+ models, checks and proofs

Adess is a FastAPI backend (`src/src/backend`) that stores advertisements of
users in Supabase PostgreSQL, verifies Supabase JWTs, and runs AI calls (scrape,
clean, outline, prompt, picture) on behalf of a frontend. This directory holds a
formal model of its behaviour: what the code does at each await, COMMIT and
failure, what that guarantees, and where it does less than its comments say.

Line references are to files under `src/`: `ads.py` is
`src/backend/routers/ads.py`, `ai.py` `src/backend/routers/ai.py`, the others
are unambiguous.

## 1. The system

| Component | Code | State it keeps | Operations |
|---|---|---|---|
| Ads CRUD router | `ads.py` | none of its own; rows in the database | `create_ad`, `get_ad`, `update_ad`, `delete_ad`, `list_versions`, `list_ads` |
| Idempotency cache | `ads.py:41-84` | `_store`: header value to response and expiry, in the process | `get` (drops what has expired), `set` |
| Database session | `database.py:96-110` | a transaction per request, on a connection of its own | open, COMMIT after the response, ROLLBACK, close |
| Engine and pool | `database.py:51-93, 113-119` | engine, session factory; idle and used connections, at most 15 | create on first use, dispose; check out, wait, connect, check in, invalidate |
| Tables | `sql/schema.sql`, `models.py` | `ads`, `ad_versions`, `user_profiles` | constraints, cascades, triggers, RLS |
| JWT verification | `auth.py` | `_keys_by_kid`, `_fetched_at`, in the process | `verify_jwt`, `_JWKSCache.get`, `clear`, `_refresh`; warm-up from `main.py` |
| Scraper | `services/scraper.py` | none; attempts of a call under way | three Cloudflare calls with retries |
| LLM services | `services/gemini.py`, `groq.py` | none | `clean`, `outline`, `craft_prompt` |
| Picture generation and storage | `services/image_gen.py`, `storage.py` | objects in a Supabase bucket | `generate`, `upload_image` |
| AI and scrape routers | `ai.py`, `routers/scrape.py` | the event stream of a request | six handlers |
| Application | `main.py`, `routers/auth.py` | middleware stack, lifespan | start, dispatch through six layers, handle what nobody caught, shutdown |
| Configuration, schemas, CLI | `config.py`, `schemas.py`, `cli.py` | none that changes | parsing, validation |

How they interact: a request passes the middleware, `get_current_user` checks its
token against the JWKS cache, `get_db` opens a session, and a handler runs. The
ads handlers talk to PostgreSQL only, and `create_ad` also to the idempotency
cache; the AI handlers talk to providers only. All requests of a worker are
coroutines of one event loop: between two awaits a handler is atomic, at an await
any other request may move. What they share is the database, the pool of
connections to it, the two in-process caches and the bucket.

What is hard about it:

* **Interleaving at awaits.** Read, await, write: the idempotency cache is looked
  up before and filled after three awaits; an ad is read, snapshotted and patched
  without a lock; the transactions run at READ COMMITTED.
* **COMMIT after the response.** Since FastAPI 0.118 (the lock file pins 0.136) the
  code behind a dependency's `yield` runs after the response has been sent. A
  client has its 201 before the row is visible, and keeps it if COMMIT fails.
* **Failures in the middle.** Statements, COMMITs and flushes fail; a worker dies
  and forgets its caches; an upload arrives while its answer is lost; a stream
  fails after its 200.
* **Caches with a life.** Keys are withdrawn while they are cached; a fetch fails;
  an unknown kid empties the cache; an idempotency key expires.
* **Retries** that add up, and waits for row locks and for connections, that must
  end, though the ones hold what the others wait for; two DELETEs may even deadlock.
* **A restart of the database**, which the pool learns of from the requests it fails.
* **Layers.** A response, an error of a router, an exception and a stream that breaks
  leave through different layers, which put headers on them and log them.
* **Paging through data that changes**, with ties in the sort key.

What makes each component correct:

* *Ads*: the two tables change only by whole operations (insert with first
  snapshot, edit with a snapshot, delete with all versions), each by its owner and
  answered with success; nothing else leaves a trace; snapshots are of contents the
  ad had; reads show what was committed, to the owner.
* *Idempotency*: a replayed answer is that of a POST with the same key; one ad per key.
* *JWKS*: a withdrawn key is trusted for a bounded time; a published key is refused
  only because of an outage; good keys are not lost without cause; each check ends.
* *Paging*: a finished walk has shown all that was there throughout, nothing twice,
  a `next_cursor` exactly if there is more, and it finishes.
* *Pool*: never more connections than allowed; a transaction keeps its own to the
  end; all come back; a restart is found out once; no deadlock involves the pool.
* *Application*: one response per request, of which the log and the client know the
  same id; security headers on all that a router answered.
* *AI*: the events of a stream are a prefix of the pipeline, with a last event that
  says how it ended; a picture that is announced is stored, and one whose failure was
  told by a 502 is not known to anyone (after a 500 an object may be left over); calls are
  bounded.

## 2. The modules

    AdSchema            rows, snapshots, what NULL is allowed in
      AdHistory         abstract: three atomic operations on ads and versions
        AdHistoryProofs
      AdsRouter         the handlers, sessions, locks, faults   (INSTANCE AdHistory, IdempotencyCache)
        AdsRouterProofs (INSTANCE AdHistoryProofs)
          AdsAnswersProofs
        MCAdsRouter
        AdsServer       requests with their connections         (INSTANCE DbPool)
          AdsServerProofs, MCAdsServer
    DbPool              the connection pool
    IdempotencyCache    the cache of POST answers
    AdsPagination       list_ads, walked by a client            AdsPaginationProofs, MCAdsPagination
    JwksCache           verify_jwt and its keys                 JwksCacheProofs, MCJwksCache
    Scraper             scrape() with its retries
      AiRouter          the AI and scrape handlers              (INSTANCE Scraper)
        AiRouterProofs
        App             the middleware around the handlers
          AppProofs, MCApp

Definitions named `...Unscoped`, `...Uncached` and the like, marked `Mutant`,
are plausible bugs. Each property was seen to fail when the definition behind a
mutant is replaced by it; `PROJECT.json` pairs them. They are in no specification.

### AdsRouter

State: `ads` and `versions` are the committed tables, `store` the idempotency
cache; per request `pc` (how far its handler is), `body` (what it asked),
`seen` (the row its session loaded), `reply`; for a DELETE `marked`, the version rows
its session has loaded, and `locks`, those its statements have locked. `past`, the
committed contents of each ad, exists for the properties only. A created ad bears the name of its
request, since a new UUID has never been seen.

| Stage in `pc` | Where the coroutine is |
|---|---|
| `received` | session open, before its first SELECT |
| `missed` | POST, after a miss in the cache, before `flush` (`ads.py:177`) |
| `loaded` | row and snapshot in the session (`ads.py:225`), or the ownership check of `list_versions` or `delete_ad` done |
| `flushed` | UPDATE and INSERT sent, row locks held (`ads.py:237`) |
| `replied` | response sent, COMMIT still to come (`database.py:106`); of a DELETE, also the statements that `commit()` sends first |
| `deleting` | DELETE FROM ads has the ad's row, the foreign key's cascade is under way |
| `committed`, `closed` | ended with, without writes |

What the libraries contribute, and where it is in the model:

* SQLAlchemy's UPDATE sets the columns with a net change since loading (`Dirty`). A
  PUT that changes nothing sends no UPDATE, only the snapshot's INSERT.
* PostgreSQL: an UPDATE takes FOR NO KEY UPDATE on its row (`Writing`), the INSERT
  of a version FOR KEY SHARE on the ad's row through the foreign key (`Sharing`). They
  are compatible with each other, so of PUTs one waits for another's UPDATE only; a DELETE
  waits for both, and both for a DELETE that has the ad's row (`UpdateFlush`, `DeleteAd`).
* An UPDATE that finds no row raises StaleDataError, the INSERT of an orphan an
  IntegrityError: `UpdateRefused`, and a 500. A DELETE that finds no row does
  nothing (a warning for the ad, and `confirm_deleted_rows` does not raise).
* `delete_ad` loads the versions and marks all for deletion (`DeleteReturn`); the DELETEs
  go out in `commit()`, after the 204: one per version that was loaded (`DeleteVersion`,
  `models.py:147-151`; in the order of their keys, which `Rank` stands for: rows of
  equal rank go in either order), then the ad's (`DeleteAd`), whose foreign key deletes the
  versions that were not loaded, in any order (`DeleteVersion` again), then COMMIT
  (`CommitDelete`). Each takes its row's lock and keeps it.
* So two DELETEs of one ad that loaded different versions can lock each other out:
  `Awaits(r, q)` says whose transaction a statement waits for, `Circle` that a request waits
  on a circle, and `Deadlock` is what PostgreSQL does then: it ends one of the
  transactions, here any, whose client has its 204 all the same. PostgreSQL queues those who
  wait for one row; here any of them may get it first.
* `metadata: null` passes `AdUpdate`, is stored as JSON null, and then fails in
  `AdResponse`: `UpdateUnreadable`. `title: null` fails in the flush.
* `Fail` stands for any failing statement or COMMIT, the statement timeout, a
  lost connection and a pool without a free connection. `AdsServer` tells them apart.

`AdHistory` is the abstraction: `Insert`, `Edit` with a snapshot of *a* content
the ad has had, `Remove`. `StrictSpec` lets an edit record only the content it
replaces, which is what `ads.py:13-18` says. The router implements `Spec` with
the identity mapping on `ads`, `versions`, `past`; each COMMIT is one abstract
step and every other step a stutter. It implements `StrictSpec` only while no PUT of an
ad commits between another's SELECT and COMMIT.

What the docstring promises and the code does not keep at any overlap, it keeps while
requests take turns in certain spans. `RetriesWait`, `EditsTakeTurns` and `AsksAfterCommit`
name these spans, one condition per promise; nothing in the code enforces them. `TurnsSpec`
is `Spec` restricted to the steps that respect all three, for the run `turns`; the proofs
take them as hypotheses.

### DbPool and AdsServer

`DbPool` is SQLAlchemy's queue pool as `_build_engine` configures it (SQLAlchemy is
not in the repository, its part is external). `holds` is what each session has:
nothing, a place in the wait, a connection being made, a live or a stale one; `idle`
is the queue of records. Four things are easy to get wrong about it, and are in the
model because of it:

* A waiter is woken by a record that comes back, but has no claim to it: a session that
  asks in the meantime takes it (`Granted`, `Ask`).
* A connection attempt that fails makes room, of which no waiter is told. It sits
  out its 30 s, and only then looks (`ConnectFails`, `RoomAtLast`, `GivesUp`).
* With `pool_pre_ping=False` a connection is not tried before use. After a `Restart`
  of the database a session may be given a stale one and fails at its first statement
  (`Notice`). That invalidates the pool: every record of before is connected anew when
  it is next taken out (`"void"`, `aged`).
* Only records from before that moment are distrusted. `aged` are the sessions that
  hold one, so that a second failure from the same restart does not invalidate the
  connections made since.

`noticed` is history, for the property `StaleHandedOnce` only: since the last restart
the pool has been told.

`AdsServer` composes it with `AdsRouter`, one session per request. `Arrive` is `Send`
and the first statement (`SET statement_timeout`), which asks for the connection;
`Work` is any step of the handler with a live connection, a `Deadlock` included; `Denied`,
`Lost` and `Refused` are `AdsRouter`'s `Fail` with its three causes; `Return` closes the
session. `failed` is history: whose statements have failed, other than by a deadlock.
What `AdsRouter` allows as a `Fail` at any time thus gets its conditions, and what
`AdsRouter` leaves out, that a request waits for a connection which another request
keeps while it waits for a row lock, is there. `WaitsForRow(r, q)` and
`WaitsForConnection(r, q)` say that q has what r waits for, and `Goes(r)` that r waits for
nobody (`Ready` are the guards of its handler): with them `OnlyDeletesDeadlock` says that
each request goes on or waits for another, and that a circle of waits consists of answered
DELETEs of one ad and of nothing else.

### AdsPagination

The database's ads of all users, inserted and deleted at any moment by other
requests (with *any* `created_at`: the column is the start of the inserting
transaction, so rows appear late and out of order), and one client that follows
`next_cursor` from the first page to the last. A page is two statements, `Seek`
(the cursor's position) and `List`, and the table may change between them.

### JwksCache

Supabase publishes and withdraws keys (`published`), time passes in ticks; `keys`
and `age` are the cache. `verify_jwt` is synchronous and is a step of the event
loop, except where it fetches: `checking` and `rechecking` are the two `get`s.
`Gots` is all that one `get` may leave behind: the fresh cache, a new one, the
outdated one after a failed fetch. `Unreachable` is a `get` that raises. A
token is its algorithm, its kid, and one bit for signature and claims.

### AiRouter and Scraper

`Steps` gives each kind of request its provider calls in order. `Scraper` refines
the call `scrape`: `phase`, `call`, `tries` per request. A stream's events are
kept in `sent`. `UploadRaises` may or may not leave the object in the bucket.
A client that leaves cancels its stream where it is (`Disconnect`). `Breaks` is an
exception that no handler expects.

### App

`Added` is the order in which `create_app` adds its layers, `Stack` what Starlette
makes of it: the last one is outermost. A request (`ask`: a preflight or not, to a
known host or not, and its target) goes inwards until a layer in `Stopping` answers it
(`TurnedBack`), a route answers at once (`AtOnce`), or a handler of `AiRouter` begins
(`Enters`). A response is a status and `marks`, the layers it has passed on its way
out; `log` is what was logged of the request. `Shows` ties the two together: whatever
the handler's step does to `pc` and `status` becomes a response (`Begins`), an
unhandled exception (`Errors`, by ServerErrorMiddleware outside all layers), or
nothing. A stream's response begins with its first event, so an exception after that
is logged and no second response is sent.

## 3. The runs

Passing runs:

| Run | Instance | What it shows |
|---|---|---|
| `overlap` | 3 requests at once out of 19 kinds, two users, two keys, faults, crashes, expiry | type, no phantom snapshot, as-created kept, rollback leaves nothing, reads committed and scoped, faithful replay, PUT writes its own columns only, changes only by answered owners, deletes final, implements `AdHistory` |
| `turns` | 4 requests (POSTs, PUTs, DELETE, GET), two at once, that take turns in the spans of `TakingTurns`, faults | one ad per key, prior state recorded, patch echoed, created ads found, implements the strict history |
| `answered` | 3 writers of one ad (PUT or DELETE), 2 connections (1 kept idle), 1 restart of the database, faults, fairness (`AdsServer`) | connections bounded, no circle of waits but of answered DELETEs, a restart handed out once, connections returned, each request answered, answered DELETEs happen unless a statement fails |
| `jwks` | 2 keys, TTL 2, all kinds of tokens, fairness | refusals justified, withdrawn keys bounded, good keys kept, tokens answered |
| `pages` | 3 ads, 2 times, 2 users, pages of 1 or 2, fairness | walks complete, nothing twice, cursor iff more, walks end |
| `ai` | 2 requests of all 8 kinds and 4 others, preflights, unknown hosts, 2 attempts per call, fairness (`App`) | streams ordered, ends told, pictures accounted for, calls bounded, one response, traceable, hardened, timed steps end |

Why the bounds are enough to be of use:

* Every race in the ads router is between two requests on one ad or one key; three
  requests let a third observe, edit or delete between them. A seed ad stands for
  an ad of any age. Two titles and a nullable column are what the properties tell
  apart: changed, unchanged, null. `turns` takes four requests so that a
  create can be followed by two edits and a delete, or by a retry and a read, each
  overlapping with the next; that two run at once is enough for a step of one
  to fall into any span of another that `TakingTurns` does not close. Crashes and
  expiry are off in it: either is a way to lose a key, and no ad per key is promised then.
* With TTL 2 a key is withdrawn before, at and after the age at which the cache is
  stale. Two keys make a rotation, the old and the new one.
* Three ads in pages of one and two cut at, before and after the last one; two
  values of `created_at` give ties on both sides of a cut.
* In `answered` one connection of the two is kept idle and the other is overflow that
  is closed when it comes back; the third request waits. With one restart a connection is
  stale in use, stale in the queue, or made anew. With two, `StaleHandedOnce` still
  holds: it is proved for any number of restarts, connections and requests. The two
  requests that hold connections compete for the row's lock while the third waits for one
  of theirs. A PUT that commits between the loads of two DELETEs gives these different
  versions, so that they deadlock.
* Two attempts per call are a call that is retried and a call whose retries are
  used up; the code's four are in the run `garbled`, and the bound is proved for any
  number (section 6). The requests of `App` share nothing
  but the providers; two are run so that a step of one may not disturb the other.
* `CHECK_DEADLOCK FALSE` in `pages`, `ai` and `garbled`: a finished walk, and requests that
  are all done, are the end of the instance. The ads models end in `Quiet`
  and `AllQuiet`.
* `SYMMETRY` over requests is used in runs without liveness only; request names
  occur in the workloads as a whole set.

## 4. What the code does not do, though it says so

Each is a run that TLC must find violated. For each of them it is also proved under
which condition the promise holds, which is what a repair would have to establish; no
condition is a restatement of its promise, and the code enforces none.

| Run | Says | Does | Holds (theorem) |
|---|---|---|---|
| `retry` (`OneAdPerKey`) | "retries do not create duplicate ads" (`ads.py:24`) | a retry that arrives while the first POST awaits its flush misses the cache: two ads | while no two POSTs with one key are between lookup and `set` (`RetriesWait`), and no restart or expiry forgets the key (`TurnsKeepKeys`) |
| `edits` (`PriorStateRecorded`) | "On every successful PUT we write the prior state" (`ads.py:13-14`) | two overlapping PUTs snapshot the same state, the one between them is in no version | while no two PUTs of one ad are between SELECT and COMMIT (`EditsTakeTurns`; `TurnsLoseNothing`, `TurnsAreStrict`) |
| `unread` (`CreatedIsFound`) | a created ad is found (`tests/test_ads.py:91-97`) | a GET between the 201 and its COMMIT answers 404 | for those who ask after the COMMIT (`AsksAfterCommit`; `TurnsFind`) |
| `jwks_outage` (`OutageTolerated`) | a failed refresh leaves the previous keys in place (`auth.py:98-99`) | the forced refresh clears first (`auth.py:167`): one token with an unknown kid during an outage and all are refused | while no such token reaches the second `get` (`NeverCleared`; `OutagesAreTolerated`) |
| `pages_restart` (`SubsequentPage`) | the cursor fetches the subsequent page (`schemas.py:179-181`) | if the cursor's ad was deleted, the first page again | while the cursor's ad stays in the table (`CursorStays`; `CursorsThatStayWork`) |
| `garbled` (`ErrorsWrapped`) | all upstream failures become `ScraperError` (`scraper.py:130-132`) | a 200 that is not JSON raises ValueError: 500, or a stream that just stops | while every 200 has its form (`WellFormed`; `ErrorsAreWrapped`, `StreamsAlwaysSayHow`, `StreamsNeverRaise`) |

Met while modelling, without a run of their own:

* `PatchEchoed` fails for overlapping PUTs: a value equal to the one loaded is not
  sent, so another PUT's value stays and is shown. It holds under `EditsTakeTurns` (`TurnsEcho`).
* The idempotency key is neither tied to the user nor to the body: `CreateReplay`
  answers anyone with the same key; `ReplayIsFaithful` says exactly that much.
* The answer is cached before COMMIT (`ads.py:196`); if COMMIT fails, replays
  announce an ad that does not exist.
* Two overlapping DELETEs may deadlock after both were answered 204 (a PUT that commits
  between their SELECTs of the versions is enough). PostgreSQL undoes one of them, which
  leaves an unhandled DBAPIError after the response; the ad goes with the other, if no
  statement of that one fails (`AnsweredDeletesHappen`). Locking the ad's row first would avoid it.
* The module docstring of `scraper.py` speaks of three attempts, `_retrying` makes four.
* Three scrapes at once exceed the two concurrent calls that `scraper.py:225-227`
  wants to stay within; calls are sequential within one scrape only.
* `auth.py:66-67` counts one fetch per worker and hour; unknown kids and outages add more.
* `main.py:256-262` and `TASK.md:294` list the middleware outermost first;
  `add_middleware` puts the last one added outermost, so the order is the reverse:
  Latency, RequestID, CORS, GZip, SecurityHeaders, TrustedHost. The mutant `StackAsListed`
  is the documented order; under it a response to an unknown host bears no request id.
* "Set hardening response headers for every response" (`main.py:136`): a preflight's
  answer comes from CORSMiddleware, which is outside, and an unhandled 500 from outside of
  all layers; neither has them (`Hardened` says exactly that). `main.py:14` names HSTS
  among them, which is not set.
* "Log ... for every request" (`main.py:177`): a request that ends in an unhandled
  exception has no such line, only the exception's. That 500 bears no CORS headers either,
  so a browser hides its body, with the `request_id`, from the frontend.
* `auth.py:9-11` says HS256 is a fallback for tokens without a kid or without a match in
  the JWKS; `verify_jwt` goes by the token's `alg` alone (`auth.py:158-174`).
* `scraper.py:55-56` says that a scraped page can be handed straight to pydantic; an
  image address that `HttpUrl` refuses makes `POST /api/scrape` answer 500
  (`ScrapeEnds`). A blank prompt of a model does the same to `POST /api/ai/prompt`, and
  `"user_metadata": null` in the claims to `GET /api/auth/me`.
* A request that waits for a connection is not told when an attempt of another fails
  (`ConnectFails`): it may wait 30 s though there is room.

## 5. Fairness

* *Ads* (`FairServerSpec`): weak fairness, for each request, of `Serve` (the wait for a
  connection ends in a connection, in room, or in pool_timeout's 30 s; an attempt to
  connect in 10 s), of `Work` (the event loop runs every coroutine that is ready, a lock
  that is free is granted, and PostgreSQL's deadlock detector ends one of those that wait
  in a circle, after deadlock_timeout) and of `Return` (the session is closed in every case
  by `async with`). Weak fairness is enough. A PUT that has row locks waits for none: it
  takes its last ones in its flush and then only commits. A DELETE keeps the rows it has
  while it waits for the next, so DELETEs of one ad can form chains of any length, which
  end in one that goes on, or circles (`OnlyDeletesDeadlock`), which the detector breaks.
  Nobody who has locks waits for a connection (`TransactionsConnected`). Nothing is assumed
  of `Arrive`, `Refused`, restarts.
* *JWKS*: weak fairness of `Warm` and `Check`: a fetch has a timeout of 5 s.
* *Paging*: weak fairness of `Walk`: statements end and the client goes on.
* *AI* (`FairAppSpec`): weak fairness of the steps the code puts a timeout on (`Timed`):
  httpx, tenacity, storage3. httpx's read timeout is for each read, not for the call: that
  a call ends also takes a server that does not trickle its response for ever, which is
  assumed. `agent.arun` has no timeout, so no LLM call is assumed to end, and
  `TimedStepsEnd` claims nothing of a request that waits for one.

## 6. The proofs

All are checked by TLAPS for every value of the constants that satisfies the
named assumptions; for any number of requests, users, keys, ads and bodies, and
any overlap.

**AdHistoryProofs.** `HistoryInv` (types, no orphans, no phantoms, as-created
kept) is inductive for `AdHistory!Spec`. `DeletionIsFinal` follows, and
`StrictHistoryComplete`: under `StrictSpec` only the current content may lack a version.

**AdsRouterProofs.** `Implementation` is the centre: `Spec => ImplementsHistory`.
A COMMIT maps to `Insert`, `Edit` or `Remove` only because of what earlier steps of
the same request established and others cannot undo, hence the invariant `IInv`:

* `Fresh`: nothing of a request is in the tables before its commit. Without it an
  Insert might overwrite, and an Edit reuse a version's name.
* `SeenIsPast`: what a PUT has loaded is a content the ad has had. This makes the
  snapshot legal even if others have edited the ad since.
* `HeldRowsLive`: an ad whose row a PUT has locked is not deleted. This is the lock
  argument: `DeleteAd` waits while `Sharing(a)` is not empty, and what it has locked then
  keeps PUTs from flushing until `CommitDelete` (`LocksFit`).
* `OneAdPerVersion`, `LocksFit`: a version row has one ad, and the rows that a DELETE has
  locked are of its ad; what is waited for by `Awaits` rests on it.
* `PendingIsLegal`: after the flush no NOT NULL column is about to become null;
  after the answer, no required one.
* `AnswersFit`: success is answered from `replied` on, and only 201s are cached.
* `OwnerChecked`: who works on a row has been found to own it, and owners do not change.
* the type invariant, and `AdHistory`'s own invariant of the tables.

From `IInv`: `TypeCorrect`, `VersionsHaveAds`, `FirstVersionIsKept`,
`VersionsAreContents`, `RollbackIsClean`, `OwnersChange`, `NoWriteBack`, `DeletionIsFinal`.
Assumptions: `RouterAssumption` (typing, names disjoint) and `ContentsClosed` (patching a content
with legal values gives a content).

**AdsAnswersProofs.** What the requests are answered, on top of `IInv`. At any overlap:

* `ReplaysAreFaithful`: each entry of the cache is the answer of a POST that bears its
  key (`CacheDescribes`), through hits, expiries and restarts. It needs that "no entry" is
  not an entry (`NoneIsNoEntry`).
* `ReadsAreSound`, about 200s: what a GET shows is a content that the ad has had, what a list
  of versions shows are snapshots of such contents, what a PUT shows is such a content with
  columns of its own patch, each of an ad of its user (`Shown`, `ReadsNameAds`). Past
  contents are never taken back, so the answer stays sound while others go on. It does not
  speak of 201s: a replayed one may show another user's ad (section 4).

Under a condition on what may overlap, what the docstring of `ads.py` promises. Each
theorem has the form `Spec /\ []Condition => []Promise`, with everything else, failures
included, free to interleave:

* `TurnsAreStrict`, under `EditsTakeTurns`: what a PUT has loaded is the current content
  until its COMMIT (`SeenIsCurrent`, `TurnsSeeCurrent`), since only another PUT's COMMIT
  could change it, so that its COMMIT is a strict edit. Then `TurnsLoseNothing` by
  `StrictHistoryComplete` of the abstract level.
* `TurnsEcho`, under `EditsTakeTurns`: the row a PUT shows is its patch over the current row.
* `TurnsKeepKeys`, under `RetriesWait`, without restarts and expiry: a POST that has been
  answered has left its key in the cache (`KeysTaken`), and a later one hits it.
* `TurnsFind`, under `AsksAfterCommit`: the ad is in the table from its COMMIT on
  (`CommittedIsThere`) unless a DELETE came first (`GoneByDelete`).
* `OneByOneTakesTurns`: requests that come one at a time (`Overlap = 1`) meet all three
  conditions, so these can be met. The inductive part is that whoever names a created ad
  has learnt of it from an answer (`AsksForCreated`), and that at most one request is
  under way (`Alone`).
* `TurnsSpecTakesTurns`: the specification that the run `turns` checks is `Spec` under
  the three conditions, no more and no less; so TLC and the theorems speak of the same.

The runs `retry`, `edits` and `unread` break exactly one of the conditions each: the
assumption is what the code lacks, not what the proof lacks.

**AdsServerProofs.** `ServerIsRouter`: `ServerSpec => Spec`, so all of the above holds with
the pool. `PoolInv` is inductive for the pool with any clients: besides the type, that
idle and used connections together are never too many, and, for `StaleIsHandedOnce`,
that once the pool has been told of the last restart no record in the queue is stale and
every session with a stale one is `aged`. `TransactionsAreConnected` relates `pc` to
`holds` for each request (`AllWired`). `ServerKeepsHistory`: the whole server, pool and
restarts included, implements `AdHistory`.

`OnlyDeletesCanDeadlock` proves `OnlyDeletesDeadlock` for any pool and any requests. The code
has more ingredients of a deadlock than two DELETEs, since a request keeps its connection
while it waits for a row, and others wait for connections. The argument: who has a
connection goes on or waits for a row (`ConnectedGoOrWait`; of the versions that a DELETE has
left there is always one to go next, `SomeIsUpcoming`, by the well-foundedness of the
naturals), and a full pool with an empty queue is one whose connections are all with
requests (`FullPoolIsHeld`), so everybody goes on or waits for somebody (`GoesOrWaits`).
Whoever is waited for has a connection (`WaitedForIsConnected`), so no wait for the pool is
on a circle; whoever has rows and waits for one is a DELETE that has been answered
(`MiddleOfAChain`), since a PUT takes its last row in its flush; and a DELETE waits only for
DELETEs of its own ad (`DeletesOfOneAd`, by `LocksFit`). `Goes` writes out the guards of the
actions, as the prover has no ENABLED; that who goes does get on, and that circles are
broken, is what `EveryRequestAnswered` shows in the run `answered`. Assumption:
`PoolAssumption`.

**JwksCacheProofs.** Inductive is that a cached key that is no longer published
has been withdrawn for no longer than the cache is old (`Retirement`), as both
advance with the clock and a fetch resets both. From it: `TrustIsBounded`. Further
`NewKeysWork`, `OnlyUnknownKidsClear`, `TypeCorrect`. `ChecksAreShort`: a check goes on
only from its first `get` to the forced one, and from there it answers.
`OutagesAreTolerated`: under `NeverCleared` what was in the cache when an outage began
stays there (`Tolerant`); the `clear()` is all that breaks the promise.

**AdsPaginationProofs.** The first half is about `ORDER BY .. LIMIT n` on a finite
table with unique ids: the order is total on it, so there is a first and a last row
(a least element of the numbers of rows ahead, `Least`, by the well-foundedness of
the naturals); `First(S, n)` is closed under what comes before, has at most `n` rows,
exactly `n` if any is left out (`FirstIsSmall`, `LeftOut`); and reading `n + 1`
rows tells whether there are more (`Lookahead`). The second half is the invariant:
what was there at the beginning and still is, is listed or lies behind the walk's
edge (`NothingLost`); unless a cursor was lost, what is listed lies at or before the
cursor (`NothingAhead`). The edge is the cursor, but between the two statements of a
page it is the row that the first one found: this is what survives a deletion in
between. From it: `WalksAreComplete`, `PagesAreDisjoint`, `NullMeansNoMore`,
`TypeCorrect`, for any finite set of ads and any page sizes, changing from page to
page. `CursorsThatStayWork`: if the cursor's ad is never deleted, each page is the subsequent
one. `WalksAreBounded` says what makes every walk end, one that loses cursors included.
`Lost` are the ads that the walk has listed and that have gone since, without the cursor's;
`Passed` those it has listed up to its cursor. From one page with a `next_cursor` to the
next, either `Lost` grows or `Passed` does (`PageGoesOn`): a cursor that is found is passed
by the next one, and the ad of one that is not found is in `Lost` as soon as the walk has a
new cursor, which is the only way back to the first page. No other step takes anything from
either, and neither has more elements than there are ids (`IdsGivenOnce`, `RowsAreFew`, by an
injection). So a walk starts again at most as often as there are ads to lose, and has at
most as many pages from there as there are ads to pass.
Assumptions: `PaginationAssumption`, `NoneAssumption`.

**AiRouterProofs.** `ScrapeInv` counts the posts of a scrape against its call and try: a
call that is the n-th has `n - 1` full budgets behind it at most. `IInv` adds, for each
request, where it is in its pipeline (`Placed`), that a stream has sent the story up to
the beginning of the step under way, or how it ended (`Told`), and that a picture is
stored from the second step on only (`Pictured`). A step appends two events, the end of
one step and the beginning of the next, so the core is about sequences: `StoryShape`,
`TwoMore`, `Joined`. From it: `CallsAreBounded`, `StreamsInOrder`, `StreamsTellTheirEnd`,
`PicturesAreAccountedFor`, `TypeCorrect`, for any number of requests and attempts.
`HandlersAreShort`: every step counts, towards the next step of the pipeline or towards
the scrape's attempts (`Used`), of which there are finitely many (`MostUsed`). If every
200 of Cloudflare has its form (`WellFormed`, a condition on steps), `ErrorsAreWrapped`,
and with `EndsAreTold` no stream just stops: `StreamsAlwaysSayHow`. Assumptions:
`AttemptsAssumption`, `KindsAssumption`.

**AppProofs.** `AppIsAiRouter`: `AppSpec => Spec`, so the theorems of AiRouterProofs hold
behind the middleware. `AppInv` says for each request how its response and its log follow
from where its handler is: none before it has a status, then one with that status and the
marks of the layers it has passed, or the one of ServerErrorMiddleware; an exception that
a handler raised is in the log. From it: `AnsweredOnce`, `ResponsesAreTraceable`,
`ResponsesAreHardened`. The order of the layers is used in one lemma, on what `Passed` is
for each kind of request. `LogIsTrue` (`LogAgrees`) is the converse of `Traceable` too:
the log of a request has the line of its response if that response went through
LatencyMiddleware, the line of its exception if there was one, in the order in which they
happened, and nothing else. `AppKeepsAi` carries the invariants of AiRouterProofs over,
and `StreamsNeverRaise` combines the two: in a well-formed world no stream leaves an
exception in the log. Assumption: `TargetsAssumption`.

**Only model-checked.** Every invariant and every action property of a passing run is a
theorem, and so is, under its condition, every property that a run shows to be violated.
What is under fairness stays with TLC, as the prover handles neither liveness nor ENABLED.
Of most of it the part that is not about fairness is proved:

| Liveness (run) | What is proved of it |
|---|---|
| `EveryRequestAnswered` (`answered`) | `OnlyDeletesCanDeadlock`: no circle of waits but of answered DELETEs |
| `AnsweredDeletesHappen` (`answered`) | `DeletionIsFinal`, `OwnersChange`: what is gone stays gone, by a DELETE of its owner |
| `ConnectionsReturned` (`answered`) | `TransactionsAreConnected`, `ConnectionsAreBounded`: who has one, and how many |
| `EveryTokenAnswered` (`jwks`) | `ChecksAreShort`: one forced refresh at most |
| `WalkEnds` (`pages`) | `WalksAreBounded`: each page loses an ad for good or passes one |
| `TimedStepsEnd` (`ai`) | `HandlersAreShort`: each step uses up one of a finite number |

## 7. Not modelled

* The lazy creation of engine and session factory (`database.py:76-93`): no await lies
  between its check and its assignment, so no two coroutines can meet in it. Disposal at
  shutdown happens when no request is served any more.
* The database ping at startup: best effort, its result is logged and dropped.
* GZip's compression, CORS's comparison of origins, the texts of log lines; which of a
  router's handlers an URL selects. In `App` the ads handlers are not composed with the
  middleware: what they answer or raise leaves as it does from any other handler.
* `GET /api/ai/models`, `GET /` and `/health`: constants, a target `"plain"` of `App`.
* `cli.py`, configuration parsing: done once, before anything else. A key that is set to
  the empty string passes `config.py:128-137`; its calls are refused by the provider.
* RLS and storage policies: the backend's role bypasses them. `user_profiles` and
  the `updated_at` triggers: no code here reads what they do.
* Texts: prompts, HTML parsing, picture bytes, JWT cryptography.
* Supabase, Cloudflare, LLM providers, PostgreSQL are external: modelled by what
  they may answer.

## 8. Plan

Done, in this order: `AdSchema`, `AdHistory`, `IdempotencyCache`, `AdsRouter` and
their proofs; `JwksCache`, `AdsPagination`, `Scraper`, `AiRouter` and their proofs;
`DbPool` and `AdsServer`; `App`; the proofs about answers, about requests that take turns,
about waits, about what bounds the walks, checks and handlers, and about the log.

What could come next:

1. A keyed insert (a unique constraint on user and key) as an alternative abstract
   specification of create, to show which change makes `OneAdPerKey` hold at any overlap.
2. Cancellation of ads requests by clients that leave, and graceful shutdown: which
   requests are still answered, which connections are disposed of while in use.
3. Abstract specifications of the other two components with a contract of their own: a
   stream of events that `AiRouter` implements, a listing by position that
   `AdsPagination` implements.
4. A monitor of concurrent Cloudflare calls, once the code bounds them.
