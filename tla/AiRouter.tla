------------------------------ MODULE AiRouter ------------------------------
(***************************************************************************)
(* The handlers of routers/ai.py and routers/scrape.py, which keep nothing *)
(* between requests: each runs a fixed row of steps, one provider call     *)
(* each.  generate-text tells its client about them in a stream of events, *)
(* the others answer when they are through.  generate-image leaves an      *)
(* object in Supabase Storage.  The texts and pictures that the providers  *)
(* return are left out, whether the bytes are a picture included.          *)
(***************************************************************************)
EXTENDS Naturals, Sequences

CONSTANTS Requests,
          Kinds,        \* the kinds of request that clients send
          MaxAttempts   \* of a Cloudflare call

VARIABLES kind,    \* what each request asks for
          pc,      \* "idle", "running", "done", "raised": its handler raised
                   \* what nobody expects, or "gone": its client left
          at,      \* the step it has come to
          sent,    \* the events of its stream
          status,  \* of its response, 0 before
          bucket,  \* requests whose picture is stored
          configured, phase, call, tries, posts

scraping == <<configured, phase, call, tries, posts>>
vars     == <<kind, pc, at, sent, status, bucket, scraping>>

Scraper == INSTANCE Scraper WITH Callers <- Requests

\* The provider calls of a request, in order.  "text_url" and "text_raw" are
\* POST generate-text with a url or with content, "text_empty" with neither.
Steps == [scrape     |-> <<"scrape">>,
          clean      |-> <<"clean">>,
          outline    |-> <<"outline">>,
          prompt     |-> <<"prompt">>,
          image      |-> <<"generate", "upload", "locate">>,
          text_url   |-> <<"scrape", "clean", "outline", "prompt">>,
          text_raw   |-> <<"clean", "outline", "prompt">>,
          text_empty |-> <<>>]

ASSUME AttemptsAssumption == MaxAttempts \in Nat \ {0}

ASSUME KindsAssumption == Kinds \subseteq DOMAIN Steps

Streams == {"text_url", "text_raw"}
Llm     == {"clean", "outline", "prompt"}

Begun(s)    == <<s, "in_progress">>
Ended(s)    == <<s, "complete">>
Complete    == <<"complete">>
Error       == <<"error">>

\* All events of a stream that ends well.
Story(k) ==
    LET n == Len(Steps[k]) IN
    [i \in 1 .. 2 * n + 1 |->
        IF i > 2 * n THEN Complete
        ELSE IF i % 2 = 1 THEN Begun(Steps[k][(i + 1) \div 2])
                          ELSE Ended(Steps[k][i \div 2])]

TypeOK ==
    /\ Scraper!TypeOK
    /\ kind \in [Requests -> Kinds \cup {"none"}]
    /\ pc \in [Requests -> {"idle", "running", "done", "raised", "gone"}]
    /\ at \in [Requests -> 0 .. 4]
    /\ status \in [Requests -> {0, 200, 400, 500, 502}]
    /\ \A r \in Requests :
          /\ pc[r] \in {"done", "raised"} => status[r] # 0
          /\ pc[r] = "running" => at[r] \in 1 .. Len(Steps[kind[r]])
          /\ sent[r] # <<>> => kind[r] \in Streams /\ status[r] = 200
    /\ bucket \subseteq Requests

Init ==
    /\ kind = [r \in Requests |-> "none"]
    /\ pc = [r \in Requests |-> "idle"]
    /\ at = [r \in Requests |-> 0]
    /\ sent = [r \in Requests |-> <<>>]
    /\ status = [r \in Requests |-> 0]
    /\ bucket = {}
    /\ Scraper!Init

-----------------------------------------------------------------------------
(* How a request moves on. *)

Streaming(r) == kind[r] \in Streams
Working(r, s) == pc[r] = "running" /\ Steps[kind[r]][at[r]] = s

Tell(r, events) ==
    sent' = IF Streaming(r) THEN [sent EXCEPT ![r] = @ \o events] ELSE sent

\* A stream's status is sent with its first event.
Leaves(r, how, code) ==
    /\ pc' = [pc EXCEPT ![r] = how]
    /\ status' = IF Streaming(r) THEN status ELSE [status EXCEPT ![r] = code]

Responds(r, code) == Leaves(r, "done", code)

\* Mutant: the next step is announced before the last is reported complete.
AdvanceEarly(r) ==
    LET steps == Steps[kind[r]] IN
    /\ IF at[r] = Len(steps)
       THEN Tell(r, <<Ended(steps[at[r]]), Complete>>) /\ Responds(r, 200) /\ UNCHANGED at
       ELSE /\ Tell(r, <<Begun(steps[at[r] + 1]), Ended(steps[at[r]])>>)
            /\ at' = [at EXCEPT ![r] = @ + 1]
            /\ UNCHANGED <<pc, status>>
    /\ UNCHANGED kind

\* The step has returned: on to the next, or the answer.
Advance(r) ==
    LET steps == Steps[kind[r]] IN
    /\ IF at[r] = Len(steps)
       THEN Tell(r, <<Ended(steps[at[r]]), Complete>>) /\ Responds(r, 200) /\ UNCHANGED at
       ELSE /\ Tell(r, <<Ended(steps[at[r]]), Begun(steps[at[r] + 1])>>)
            /\ at' = [at EXCEPT ![r] = @ + 1]
            /\ UNCHANGED <<pc, status>>
    /\ UNCHANGED kind

\* Mutant: the generator returns without its error event.
FailsUntold(r, code) == Responds(r, code) /\ UNCHANGED <<sent, kind, at>>

\* The step has raised the error that its handler expects.
Fails(r, code) == Tell(r, <<Error>>) /\ Responds(r, code) /\ UNCHANGED <<kind, at>>

\* It has raised another: 500, or a stream that just stops.
Breaks(r) == Leaves(r, "raised", 500) /\ UNCHANGED <<sent, kind, at>>

-----------------------------------------------------------------------------
(* The handlers. *)

\* A request arrives; a stream announces its first step, a scrape begins.
Send(r, k) ==
    /\ pc[r] = "idle" /\ Steps[k] # <<>>
    /\ kind' = [kind EXCEPT ![r] = k]
    /\ pc' = [pc EXCEPT ![r] = "running"]
    /\ at' = [at EXCEPT ![r] = 1]
    /\ IF k \in Streams
       THEN /\ sent' = [sent EXCEPT ![r] = <<Begun(Steps[k][1])>>]
            /\ status' = [status EXCEPT ![r] = 200]
       ELSE UNCHANGED <<sent, status>>
    /\ IF Steps[k][1] = "scrape" THEN Scraper!Begin(r) ELSE UNCHANGED scraping
    /\ UNCHANGED bucket

\* generate-text without url and raw_content: 400.
SendEmpty(r, k) ==
    /\ pc[r] = "idle" /\ Steps[k] = <<>>
    /\ kind' = [kind EXCEPT ![r] = k]
    /\ pc' = [pc EXCEPT ![r] = "done"]
    /\ status' = [status EXCEPT ![r] = 400]
    /\ UNCHANGED <<at, sent, bucket, scraping>>

ScrapeGoesOn(r) ==
    /\ Working(r, "scrape")
    /\ Scraper!Step(r)
    /\ UNCHANGED <<kind, pc, at, sent, status, bucket>>

\* POST /api/scrape shows the page's images, and breaks on an address that
\* pydantic's HttpUrl does not take.
ScrapeEnds(r) ==
    /\ Working(r, "scrape")
    /\ \/ phase[r] = "scraped" /\ (Advance(r) \/ (kind[r] = "scrape" /\ Breaks(r)))
       \/ phase[r] = "error" /\ Fails(r, 502)
       \/ phase[r] = "broken" /\ Breaks(r)
    /\ UNCHANGED <<bucket, scraping>>

\* _run_agent() turns whatever the provider raises, and a missing API key,
\* into GeminiError or GroqError; PromptResponse refuses a blank prompt.
LlmEnds(r) ==
    /\ \E s \in Llm : Working(r, s)
    /\ Advance(r) \/ Fails(r, 502) \/ (kind[r] = "prompt" /\ Breaks(r))
    /\ UNCHANGED <<bucket, scraping>>

\* A response that is not the JSON it claims to be, or cannot be decoded, is
\* no ImageGenError.
GenerateEnds(r) ==
    /\ Working(r, "generate")
    /\ Advance(r) \/ Fails(r, 502) \/ Breaks(r)
    /\ UNCHANGED <<bucket, scraping>>

UploadReturns(r) ==
    /\ Working(r, "upload")
    /\ bucket' = bucket \cup {r}
    /\ Advance(r)
    /\ UNCHANGED scraping

\* Mutant: an upload that raised is taken for done.
UploadRaisesIgnored(r) ==
    /\ Working(r, "upload")
    /\ Advance(r)
    /\ UNCHANGED <<bucket, scraping>>

\* upload_image() raises StorageError; the picture may have been stored, when
\* only the answer was lost.
UploadRaises(r) ==
    /\ Working(r, "upload")
    /\ bucket' \in {bucket, bucket \cup {r}}
    /\ Fails(r, 500)
    /\ UNCHANGED scraping

\* get_public_url()
LocateEnds(r) ==
    /\ Working(r, "locate")
    /\ Advance(r) \/ Fails(r, 500)
    /\ UNCHANGED <<bucket, scraping>>

\* The client of a stream goes away, which cancels the generator where it is.
Disconnect(r) ==
    /\ pc[r] = "running" /\ Streaming(r)
    /\ pc' = [pc EXCEPT ![r] = "gone"]
    /\ UNCHANGED <<kind, at, sent, status, bucket, scraping>>

\* Steps that a timeout of the code ends; it sets none for an LLM.
Timed(r) ==
    \/ ScrapeGoesOn(r) \/ ScrapeEnds(r)
    \/ GenerateEnds(r) \/ UploadReturns(r) \/ UploadRaises(r) \/ LocateEnds(r)

Next ==
    \E r \in Requests :
        \/ \E k \in Kinds : Send(r, k) \/ SendEmpty(r, k)
        \/ Timed(r) \/ LlmEnds(r) \/ Disconnect(r)

Spec == Init /\ [][Next]_vars

\* httpx timeouts, tenacity's bounded waits and storage3's timeout end a step.
FairSpec == Spec /\ \A r \in Requests : WF_vars(Timed(r))

-----------------------------------------------------------------------------
(* Properties. *)

\* A stream tells each step's beginning and end in the order of the pipeline,
\* and an error only while a step is under way (ai.py:24-43, 221-289).
StreamOrdered ==
    \A r \in Requests : kind[r] \in Streams =>
        LET story == Story(kind[r]) IN
        \E n \in 1 .. Len(story) :
            \/ sent[r] = SubSeq(story, 1, n)
            \/ n % 2 = 1 /\ n < Len(story) /\ sent[r] = SubSeq(story, 1, n) \o <<Error>>

\* A stream that is over has told its client so, with complete or error: one
\* that raised was scraping, and raised no ScraperError (ai.py:221-289).
EndsAreTold ==
    \A r \in Requests : kind[r] \in Streams =>
        /\ pc[r] = "done" => sent[r][Len(sent[r])] \in {Complete, Error}
        /\ pc[r] = "raised" => phase[r] = "broken"

\* A 200 shows a picture that is stored, a 502 leaves none behind
\* (ai_generate_image, ai.py:157-187).
PicturesAccounted ==
    \A r \in Requests : kind[r] = "image" =>
        /\ status[r] = 200 => r \in bucket
        /\ status[r] = 502 => r \notin bucket

\* Every step but an LLM's comes to an end, however Cloudflare answers.
TimedStepsEnd ==
    \A r \in Requests :
        pc[r] = "running" ~> pc[r] # "running" \/ \E s \in Llm : Working(r, s)

CallsBounded  == Scraper!CallsBounded
ErrorsWrapped == Scraper!ErrorsWrapped
=============================================================================
