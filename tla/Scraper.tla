------------------------------ MODULE Scraper -------------------------------
(***************************************************************************)
(* scrape() of services/scraper.py: three calls to Cloudflare, one after   *)
(* another with a pause between, each with its own retries.  Cloudflare is *)
(* what it may answer to a call.  The pages themselves are left out; the   *)
(* lengths of pauses and backoffs are left to whoever schedules Wakes.     *)
(***************************************************************************)
EXTENDS Naturals

CONSTANTS Callers,      \* requests that scrape, each at most once
          MaxAttempts   \* stop_after_attempt, at least 1

VARIABLES configured,  \* Cloudflare credentials are set
          phase,       \* how far each scrape has come
          call,        \* 1 markdown, 2 content, 3 links
          tries,       \* attempts at this call
          posts        \* calls sent by this scrape, all told (history)

Calls     == 3
MostPosts == Calls * MaxAttempts

\* 429 and 5xx, transport errors; and what is not tried again: other 4xx,
\* success=false, and the httpx errors that are not TransportErrors.
Retryable == {"busy", "unreached"}
Permanent == {"denied", "unsuccessful", "undecodable"}

\* A 200 whose body is not the JSON object that _post() takes it for.
Outcomes == {"ok", "garbled"} \cup Retryable \cup Permanent

\* "scraped": returned; "error": raised ScraperError; "broken": raised
\* something else.
TypeOK ==
    /\ configured \in BOOLEAN
    /\ phase \in [Callers -> {"off", "calling", "backoff", "pause", "scraped",
                              "error", "broken"}]
    /\ call \in [Callers -> 1 .. Calls]
    /\ tries \in [Callers -> 1 .. MaxAttempts]
    /\ posts \in [Callers -> 0 .. MostPosts + 1]

Init ==
    /\ configured \in BOOLEAN
    /\ phase = [c \in Callers |-> "off"]
    /\ call = [c \in Callers |-> 1]
    /\ tries = [c \in Callers |-> 1]
    /\ posts = [c \in Callers |-> 0]

Becomes(c, p) == phase' = [phase EXCEPT ![c] = p]

\* posts stops counting once it has passed its bound.
Posted(c) == posts' = [posts EXCEPT ![c] = IF @ > MostPosts THEN @ ELSE @ + 1]

\* _require_credentials(), and the first POST.
Begin(c) ==
    /\ phase[c] = "off"
    /\ IF configured THEN Becomes(c, "calling") /\ Posted(c)
                     ELSE Becomes(c, "error") /\ UNCHANGED posts
    /\ UNCHANGED <<configured, call, tries>>

\* Mutant: one attempt more than stop_after_attempt allows.
RetriesOnceMore(c, outcome) == outcome \in Retryable /\ tries[c] <= MaxAttempts

Retries(c, outcome) == outcome \in Retryable /\ tries[c] < MaxAttempts

\* The call ends, by its timeout at the latest.
Responds(c, outcome) ==
    /\ phase[c] = "calling"
    /\ Becomes(c, CASE outcome = "ok"      -> IF call[c] < Calls THEN "pause" ELSE "scraped"
                    [] outcome = "garbled" -> "broken"
                    [] OTHER -> IF Retries(c, outcome) THEN "backoff" ELSE "error")
    /\ UNCHANGED <<configured, call, tries, posts>>

\* Mutant: a new attempt is not counted.
RetryUncounted(c) ==
    /\ phase[c] = "backoff"
    /\ Becomes(c, "calling") /\ Posted(c)
    /\ UNCHANGED <<configured, call, tries>>

\* tenacity's wait is over: the same call again.
Retry(c) ==
    /\ phase[c] = "backoff"
    /\ Becomes(c, "calling") /\ Posted(c)
    /\ tries' = [tries EXCEPT ![c] = @ + 1]
    /\ UNCHANGED <<configured, call>>

\* asyncio.sleep(0.3) is over: the next call, with retries of its own.
NextCall(c) ==
    /\ phase[c] = "pause"
    /\ Becomes(c, "calling") /\ Posted(c)
    /\ call' = [call EXCEPT ![c] = @ + 1]
    /\ tries' = [tries EXCEPT ![c] = 1]
    /\ UNCHANGED configured

Step(c) == (\E outcome \in Outcomes : Responds(c, outcome)) \/ Retry(c) \/ NextCall(c)

-----------------------------------------------------------------------------
\* "All upstream failures [..] are wrapped in ScraperError so callers handle
\* exactly one exception type" (scraper.py:130-132).
ErrorsWrapped == \A c \in Callers : phase[c] # "broken"

\* A scrape costs at most MaxAttempts calls per endpoint, whatever Cloudflare
\* answers, and one that succeeds has made at least one to each
\* (_retrying, scraper.py:111-119; scrape, 224-232).
CallsBounded ==
    \A c \in Callers :
        posts[c] <= MostPosts /\ (phase[c] = "scraped" => posts[c] >= Calls)
=============================================================================
