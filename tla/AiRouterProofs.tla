--------------------------- MODULE AiRouterProofs ---------------------------
(***************************************************************************)
(* Theorems about AiRouter, for any number of requests of any kinds and    *)
(* any number of attempts per call.                                        *)
(***************************************************************************)
EXTENDS AiRouter, SequenceTheorems, TLAPS

-----------------------------------------------------------------------------
(* The budget of calls.  Every step of AiRouter is a step of one scrape, or *)
(* leaves all scrapes alone.                                                *)

Kept(c) == phase[c] \in {"calling", "backoff", "pause"}

\* A scrape that has come to call n has sent at least n and at most
\* (n - 1) * MaxAttempts + tries calls.
Count(c) ==
    /\ phase[c] = "off" => posts[c] = 0 /\ call[c] = 1 /\ tries[c] = 1
    /\ phase[c] = "backoff" => tries[c] < MaxAttempts
    /\ phase[c] = "pause" => call[c] < 3
    /\ phase[c] = "scraped" => call[c] = 3
    /\ Kept(c) \/ phase[c] = "scraped" => posts[c] >= call[c]
    /\ call[c] = 1 => posts[c] <= tries[c]
    /\ call[c] = 2 => posts[c] <= MaxAttempts + tries[c]
    /\ call[c] = 3 => posts[c] <= MaxAttempts + MaxAttempts + tries[c]

Counted == \A c \in Requests : Count(c)

ScrapeInv == Scraper!TypeOK /\ Counted

LEMMA InitScrape == ASSUME Scraper!Init PROVE ScrapeInv
<1> USE AttemptsAssumption DEF AttemptsAssumption
<1>1. Scraper!TypeOK
  BY DEF Scraper!Init, Scraper!TypeOK, Scraper!Calls, Scraper!MostPosts
<1>2. ASSUME NEW c \in Requests
      PROVE  phase[c] = "off" /\ call[c] = 1 /\ tries[c] = 1 /\ posts[c] = 0
  BY DEF Scraper!Init
<1>3. ASSUME NEW c \in Requests
      PROVE  ~Kept(c) /\ phase[c] \notin {"backoff", "pause", "scraped"}
  BY <1>2 DEF Kept
<1>4. Counted
  <2> SUFFICES ASSUME NEW c \in Requests PROVE Count(c)
    BY DEF Counted
  <2>1. call[c] # 2 /\ call[c] # 3 /\ posts[c] <= tries[c]
    BY <1>2
  <2> QED
    BY <2>1, <1>2, <1>3 DEF Count
<1> QED
  BY <1>1, <1>4 DEF ScrapeInv

\* Each step of a scrape keeps the count.
LEMMA ScrapeStep ==
  ASSUME ScrapeInv, NEW c \in Requests, Scraper!Begin(c) \/ Scraper!Step(c)
  PROVE  ScrapeInv'
<1> USE AttemptsAssumption DEF AttemptsAssumption, ScrapeInv, Scraper!TypeOK, Counted, Count, Kept,
        Scraper!Calls, Scraper!MostPosts, Scraper!Becomes, Scraper!Posted
<1>1. CASE Scraper!Begin(c)
  <2>1. Scraper!TypeOK'
    BY <1>1 DEF Scraper!Begin
  <2>2. Counted'
    BY <1>1 DEF Scraper!Begin
  <2> QED
    BY <2>1, <2>2
<1>2. ASSUME NEW outcome \in Scraper!Outcomes, Scraper!Responds(c, outcome)
      PROVE  ScrapeInv'
  <2>1. Scraper!TypeOK'
    BY <1>2 DEF Scraper!Responds, Scraper!Retries
  <2>2. Counted'
    BY <1>2 DEF Scraper!Responds, Scraper!Retries
  <2> QED
    BY <2>1, <2>2
<1>3. CASE Scraper!Retry(c)
  <2>1. Scraper!TypeOK'
    BY <1>3 DEF Scraper!Retry
  <2>2. Counted'
    BY <1>3 DEF Scraper!Retry
  <2> QED
    BY <2>1, <2>2
<1>4. CASE Scraper!NextCall(c)
  <2>1. Scraper!TypeOK'
    BY <1>4 DEF Scraper!NextCall
  <2>2. Counted'
    BY <1>4 DEF Scraper!NextCall
  <2> QED
    BY <2>1, <2>2
<1> QED
  BY <1>1, <1>2, <1>3, <1>4 DEF Scraper!Step

LEMMA ScrapeNext == ASSUME ScrapeInv, [Next]_vars PROVE ScrapeInv'
<1>1. ASSUME UNCHANGED scraping
      PROVE  ScrapeInv'
  BY <1>1 DEF scraping, ScrapeInv, Counted, Count, Kept, Scraper!TypeOK, Scraper!MostPosts
<1>2. \/ UNCHANGED scraping
      \/ \E r \in Requests : Scraper!Begin(r) \/ Scraper!Step(r)
  BY DEF vars, Next, Send, SendEmpty, Timed, ScrapeGoesOn, ScrapeEnds, LlmEnds,
         GenerateEnds, UploadReturns, UploadRaises, LocateEnds, Disconnect
<1> QED
  BY <1>1, <1>2, ScrapeStep

\* The count of a scrape bounds its calls.
LEMMA CallsStayBounded == ASSUME ScrapeInv PROVE CallsBounded
<1> SUFFICES ASSUME NEW c \in Requests
             PROVE  posts[c] <= 3 * MaxAttempts /\ (phase[c] = "scraped" => posts[c] >= 3)
  BY DEF CallsBounded, Scraper!CallsBounded, Scraper!MostPosts, Scraper!Calls
<1>1. /\ MaxAttempts \in Nat
      /\ posts[c] \in Nat /\ tries[c] \in 1 .. MaxAttempts /\ call[c] \in 1 .. 3
  BY AttemptsAssumption
     DEF AttemptsAssumption, ScrapeInv, Scraper!TypeOK, Scraper!Calls, Scraper!MostPosts
<1>2. call[c] = 1 \/ call[c] = 2 \/ call[c] = 3
  BY <1>1
<1> QED
  BY <1>1, <1>2 DEF ScrapeInv, Counted, Count

\* A scrape makes at most MaxAttempts calls to each of its three endpoints,
\* whatever Cloudflare answers (_retrying and scrape of services/scraper.py).
THEOREM CallsAreBounded == Spec => []CallsBounded
<1>1. Init => ScrapeInv
  BY InitScrape DEF Init
<1>2. ScrapeInv /\ [Next]_vars => ScrapeInv'
  BY ScrapeNext
<1>3. ScrapeInv => CallsBounded
  BY CallsStayBounded
<1> QED
  BY <1>1, <1>2, <1>3, PTL DEF Spec

-----------------------------------------------------------------------------
(* The pipelines and the story of a stream. *)

Uploads == {"generate", "upload", "locate"}
Names   == Uploads \cup Llm \cup {"scrape"}
Words   == Names \cup {"in_progress", "complete", "error"}

LEMMA Pipelines ==
  ASSUME NEW k \in DOMAIN Steps
  PROVE  /\ Steps[k] \in Seq(Names) /\ Len(Steps[k]) \in 0 .. 4
         /\ k \in Streams => Len(Steps[k]) \in 1 .. 4
         /\ k # "image" => \A i \in 1 .. Len(Steps[k]) : Steps[k][i] \notin Uploads
         /\ k = "image" => Steps[k] = <<"generate", "upload", "locate">>
<1>1. k \in {"scrape", "clean", "outline", "prompt", "image", "text_url", "text_raw",
             "text_empty"}
  BY DEF Steps
<1>2. CASE k \in {"scrape", "clean", "outline", "prompt"}
  <2>1. Steps[k] = <<k>> /\ k \in Names \ Uploads /\ k # "image" /\ k \notin Streams
    BY <1>2 DEF Steps, Names, Uploads, Llm, Streams
  <2> QED
    BY <2>1
<1>3. CASE k = "image"
  <2>1. Steps[k] = <<"generate", "upload", "locate">> /\ k \notin Streams
    BY <1>3 DEF Steps, Streams
  <2>2. "generate" \in Names /\ "upload" \in Names /\ "locate" \in Names
    BY DEF Names, Uploads
  <2> QED
    BY <1>3, <2>1, <2>2
<1>4. CASE k = "text_url"
  <2>1. Steps[k] = <<"scrape", "clean", "outline", "prompt">>
    BY <1>4 DEF Steps
  <2>2. \A s \in {"scrape", "clean", "outline", "prompt"} : s \in Names \ Uploads
    BY DEF Names, Uploads, Llm
  <2> QED
    BY <1>4, <2>1, <2>2
<1>5. CASE k = "text_raw"
  <2>1. Steps[k] = <<"clean", "outline", "prompt">>
    BY <1>5 DEF Steps
  <2>2. \A s \in {"scrape", "clean", "outline", "prompt"} : s \in Names \ Uploads
    BY DEF Names, Uploads, Llm
  <2> QED
    BY <1>5, <2>1, <2>2
<1>6. CASE k = "text_empty"
  <2>1. Steps[k] = <<>> /\ k \notin Streams
    BY <1>6 DEF Steps, Streams
  <2> QED
    BY <1>6, <2>1
<1> QED
  BY <1>1, <1>2, <1>3, <1>4, <1>5, <1>6

LEMMA StreamKinds == Streams \subseteq DOMAIN Steps /\ "image" \notin Streams
  BY DEF Steps, Streams

\* A sequence made of a and then b is their concatenation.
LEMMA Joined ==
  ASSUME NEW S, NEW a \in Seq(S), NEW b \in Seq(S), NEW c \in Seq(S),
         Len(c) = Len(a) + Len(b),
         \A i \in 1 .. Len(a) : c[i] = a[i],
         \A i \in 1 .. Len(b) : c[Len(a) + i] = b[i]
  PROVE  a \o b = c
<1>1. /\ a \o b \in Seq(S) /\ Len(a \o b) = Len(a) + Len(b)
      /\ \A i \in 1 .. Len(a) + Len(b) : (a \o b)[i] = IF i <= Len(a) THEN a[i] ELSE b[i - Len(a)]
  BY ConcatProperties
<1>2. ASSUME NEW i \in 1 .. Len(c)
      PROVE  (a \o b)[i] = c[i]
  <2>1. CASE i <= Len(a)
    BY <1>1, <2>1
  <2>2. CASE i > Len(a)
    <3>1. i - Len(a) \in 1 .. Len(b) /\ Len(a) + (i - Len(a)) = i
      BY <2>2
    <3> QED
      BY <1>1, <2>2, <3>1
  <2> QED
    BY <2>1, <2>2
<1> QED
  BY <1>1, <1>2, SeqEqual

\* Appending the next two elements of s to its first m.
LEMMA TwoMore ==
  ASSUME NEW S, NEW s \in Seq(S), NEW m \in Nat, m + 2 <= Len(s)
  PROVE  SubSeq(s, 1, m) \o <<s[m + 1], s[m + 2]>> = SubSeq(s, 1, m + 2)
<1> DEFINE a == SubSeq(s, 1, m)
           b == <<s[m + 1], s[m + 2]>>
           c == SubSeq(s, 1, m + 2)
<1>1. /\ a \in Seq(S) /\ Len(a) = m
      /\ \A i \in 1 .. m : a[i] = s[i]
  <2>1. \A i \in 1 .. m : s[i] \in S
    OBVIOUS
  <2>2. /\ SubSeq(s, 1, m) \in Seq(S)
        /\ Len(SubSeq(s, 1, m)) = IF 1 <= m THEN m - 1 + 1 ELSE 0
        /\ \A i \in 1 .. m - 1 + 1 : SubSeq(s, 1, m)[i] = s[1 + i - 1]
    BY <2>1, SubSeqProperties
  <2> QED
    BY <2>2
<1>2. /\ c \in Seq(S) /\ Len(c) = m + 2
      /\ \A i \in 1 .. m + 2 : c[i] = s[i]
  <2>1. \A i \in 1 .. m + 2 : s[i] \in S
    OBVIOUS
  <2>2. /\ SubSeq(s, 1, m + 2) \in Seq(S)
        /\ Len(SubSeq(s, 1, m + 2)) = IF 1 <= m + 2 THEN m + 2 - 1 + 1 ELSE 0
        /\ \A i \in 1 .. m + 2 - 1 + 1 : SubSeq(s, 1, m + 2)[i] = s[1 + i - 1]
    BY <2>1, SubSeqProperties
  <2> QED
    BY <2>2
<1>3. b \in Seq(S) /\ Len(b) = 2 /\ b[1] = s[m + 1] /\ b[2] = s[m + 2]
  OBVIOUS
<1> HIDE DEF a, b, c
<1>4. /\ \A i \in 1 .. Len(a) : c[i] = a[i]
      /\ \A i \in 1 .. Len(b) : c[Len(a) + i] = b[i]
  BY <1>1, <1>2, <1>3
<1>5. Len(c) = Len(a) + Len(b)
  BY <1>1, <1>2, <1>3
<1>6. a \o b = c
  BY <1>1, <1>2, <1>3, <1>4, <1>5, Joined
<1> QED
  BY <1>6 DEF a, b, c

\* Beginnings at odd places, ends at even ones, and "complete" at the last.
LEMMA StoryShape ==
  ASSUME NEW k \in Streams
  PROVE  /\ Story(k) \in Seq(Seq(Words))
         /\ Len(Story(k)) = 2 * Len(Steps[k]) + 1
         /\ \A i \in 1 .. Len(Steps[k]) :
               Story(k)[2 * i - 1] = Begun(Steps[k][i]) /\ Story(k)[2 * i] = Ended(Steps[k][i])
         /\ Story(k)[2 * Len(Steps[k]) + 1] = Complete
<1> DEFINE n == Len(Steps[k])
<1>1. n \in Nat /\ Steps[k] \in Seq(Names)
  BY Pipelines, StreamKinds
<1>2. \A i \in 1 .. 2 * n + 1 :
        (IF i > 2 * n THEN Complete
         ELSE IF i % 2 = 1 THEN Begun(Steps[k][(i + 1) \div 2])
                           ELSE Ended(Steps[k][i \div 2])) \in Seq(Words)
  <2>1. "complete" \in Words /\ "in_progress" \in Words /\ Names \subseteq Words
    BY DEF Words
  <2>2. \A j \in 1 .. n : Begun(Steps[k][j]) \in Seq(Words) /\ Ended(Steps[k][j]) \in Seq(Words)
    BY <1>1, <2>1 DEF Begun, Ended
  <2>4. Complete \in Seq(Words)
    BY <2>1 DEF Complete
  <2>3. \A i \in 1 .. 2 * n : /\ i % 2 = 1 => (i + 1) \div 2 \in 1 .. n
                              /\ i % 2 # 1 => i \div 2 \in 1 .. n
    BY <1>1
  <2> HIDE DEF n
  <2> TAKE i \in 1 .. 2 * n + 1
  <2>5. CASE i > 2 * n
    BY <2>4, <2>5
  <2>6. CASE i <= 2 * n
    <3>1. i \in 1 .. 2 * n
      BY <1>1, <2>6
    <3> QED
      BY <1>1, <2>2, <2>3, <2>6, <3>1
  <2> QED
    BY <1>1, <2>5, <2>6
<1>3. Story(k) \in [1 .. 2 * n + 1 -> Seq(Words)]
  BY <1>2 DEF Story
<1>4. Story(k) \in Seq(Seq(Words)) /\ Len(Story(k)) = 2 * n + 1
  BY <1>1, <1>3
<1>5. \A i \in 1 .. n : /\ 2 * i - 1 \in 1 .. 2 * n /\ 2 * i \in 1 .. 2 * n
                        /\ (2 * i - 1) % 2 = 1 /\ (2 * i) % 2 # 1
                        /\ (2 * i - 1 + 1) \div 2 = i /\ (2 * i) \div 2 = i
  BY <1>1
<1>6. \A i \in 1 .. n :
        Story(k)[2 * i - 1] = Begun(Steps[k][i]) /\ Story(k)[2 * i] = Ended(Steps[k][i])
  BY <1>1, <1>5 DEF Story
<1>7. Story(k)[2 * n + 1] = Complete
  <2>1. 2 * n + 1 \in 1 .. 2 * n + 1 /\ 2 * n + 1 > 2 * n
    BY <1>1
  <2> QED
    BY <2>1 DEF Story
<1> QED
  BY <1>4, <1>6, <1>7

-----------------------------------------------------------------------------
(* What holds of each request. *)

FieldTypes ==
    /\ kind \in [Requests -> Kinds \cup {"none"}]
    /\ pc \in [Requests -> {"idle", "running", "done", "raised", "gone"}]
    /\ at \in [Requests -> 0 .. 4]
    /\ sent \in [Requests -> Seq(Seq(Words))]
    /\ status \in [Requests -> {0, 200, 400, 500, 502}]
    /\ bucket \subseteq Requests

\* Where a request is in its pipeline.
Placed(r) ==
    /\ pc[r] = "idle" => kind[r] = "none" /\ sent[r] = <<>> /\ status[r] = 0
    /\ pc[r] # "idle" => kind[r] \in Kinds
    /\ pc[r] \in {"running", "gone"} => at[r] \in 1 .. Len(Steps[kind[r]])
    /\ pc[r] \in {"done", "raised"} => status[r] # 0

\* A stream has told of its pipeline up to the beginning of its step ...
Prefix(k, i) == SubSeq(Story(k), 1, 2 * i - 1)
SoFar(r)     == Prefix(kind[r], at[r])

\* ... and, when it is done, how it has ended.
Told(r) ==
    /\ kind[r] \in Streams =>
          /\ at[r] \in 1 .. Len(Steps[kind[r]])
          /\ status[r] = 200
          /\ pc[r] \in {"running", "raised", "gone"} => sent[r] = SoFar(r)
          /\ pc[r] = "raised" => phase[r] = "broken"
          /\ pc[r] = "done" => \/ sent[r] = Story(kind[r])
                               \/ sent[r] = SoFar(r) \o <<Error>>
    /\ kind[r] \notin Streams => sent[r] = <<>>

\* A picture is stored by the second of the three steps only.
Pictured(r) ==
    /\ kind[r] # "image" => r \notin bucket
    /\ kind[r] = "image" =>
          /\ pc[r] = "running" => /\ status[r] = 0
                                  /\ at[r] = 1 => r \notin bucket
                                  /\ at[r] = 3 => r \in bucket
          /\ status[r] = 200 => r \in bucket
          /\ status[r] = 502 => r \notin bucket

RequestInv(r) == Placed(r) /\ Told(r) /\ Pictured(r)

IInv == ScrapeInv /\ FieldTypes /\ \A r \in Requests : RequestInv(r)

LEMMA KindFacts ==
  /\ "none" \notin Streams /\ "none" # "image" /\ "image" \notin Streams
  /\ Streams \subseteq DOMAIN Steps /\ Kinds \subseteq DOMAIN Steps /\ "none" \notin Kinds
  BY KindsAssumption DEF KindsAssumption, Streams, Steps

LEMMA InitIInv == Init => IInv
<1> SUFFICES ASSUME Init PROVE IInv
  OBVIOUS
<1>1. ScrapeInv
  BY InitScrape DEF Init
<1>2. FieldTypes
  BY DEF Init, FieldTypes
<1>3. ASSUME NEW r \in Requests
      PROVE  RequestInv(r)
  BY <1>3, KindFacts DEF Init, RequestInv, Placed, Told, Pictured
<1> QED
  BY <1>1, <1>2, <1>3 DEF IInv

-----------------------------------------------------------------------------
(* Moving on. *)

\* Events, word by word.
LEMMA EventTypes ==
  /\ Complete \in Seq(Words) /\ Error \in Seq(Words)
  /\ \A s \in Names : Begun(s) \in Seq(Words) /\ Ended(s) \in Seq(Words)
<1>1. /\ "complete" \in Words /\ "in_progress" \in Words /\ "error" \in Words
      /\ Names \subseteq Words
  BY DEF Words
<1> QED
  BY <1>1 DEF Complete, Error, Begun, Ended

\* While it runs, a request has a step under way.
LEMMA UnderWay ==
  ASSUME IInv, NEW r \in Requests, pc[r] = "running"
  PROVE  /\ kind[r] \in Kinds /\ kind[r] \in DOMAIN Steps
         /\ Steps[kind[r]] \in Seq(Names) /\ Len(Steps[kind[r]]) \in 1 .. 4
         /\ at[r] \in 1 .. Len(Steps[kind[r]])
         /\ Steps[kind[r]][at[r]] \in Names
         /\ kind[r] \notin Streams => sent[r] = <<>>
         /\ kind[r] \in Streams => status[r] = 200 /\ sent[r] = SoFar(r)
<1>1. kind[r] \in Kinds /\ at[r] \in 1 .. Len(Steps[kind[r]])
  BY DEF IInv, RequestInv, Placed
<1>2. Steps[kind[r]] \in Seq(Names) /\ Len(Steps[kind[r]]) \in 0 .. 4
  BY <1>1, KindFacts, Pipelines
<1>3. Steps[kind[r]][at[r]] \in Names
  BY <1>1, <1>2
<1>4. /\ kind[r] \notin Streams => sent[r] = <<>>
      /\ kind[r] \in Streams => status[r] = 200 /\ sent[r] = SoFar(r)
  BY DEF IInv, RequestInv, Told
<1> QED
  BY <1>1, <1>2, <1>3, <1>4, KindFacts

\* What a stream has told of, with two more events of its story.
LEMMA Telling ==
  ASSUME NEW k \in Streams, NEW i \in 1 .. Len(Steps[k])
  PROVE  /\ Prefix(k, i) \in Seq(Seq(Words)) /\ Story(k) \in Seq(Seq(Words))
         /\ i < Len(Steps[k]) =>
               Prefix(k, i) \o <<Ended(Steps[k][i]), Begun(Steps[k][i + 1])>> = Prefix(k, i + 1)
         /\ i = Len(Steps[k]) =>
               Prefix(k, i) \o <<Ended(Steps[k][i]), Complete>> = Story(k)
<1>1. Len(Steps[k]) \in 1 .. 4
  BY Pipelines, StreamKinds
<1>2. /\ Story(k) \in Seq(Seq(Words)) /\ Len(Story(k)) = 2 * Len(Steps[k]) + 1
      /\ Story(k)[2 * i] = Ended(Steps[k][i])
      /\ i < Len(Steps[k]) => Story(k)[2 * (i + 1) - 1] = Begun(Steps[k][i + 1])
      /\ Story(k)[2 * Len(Steps[k]) + 1] = Complete
  BY <1>1, StoryShape
<1>3. /\ 2 * i - 1 \in Nat /\ 2 * i - 1 + 1 = 2 * i /\ 2 * i - 1 + 2 = 2 * i + 1
      /\ 2 * (i + 1) - 1 = 2 * i + 1 /\ 2 * i + 1 <= Len(Story(k))
  BY <1>1, <1>2
<1>4. SubSeq(Story(k), 1, 2 * i - 1) \o <<Story(k)[2 * i], Story(k)[2 * i + 1]>>
        = SubSeq(Story(k), 1, 2 * i + 1)
  BY <1>2, <1>3, TwoMore
<1>5. SubSeq(Story(k), 1, Len(Story(k))) = Story(k)
  BY <1>2, SubSeqFull
<1>6. Prefix(k, i) \in Seq(Seq(Words))
  BY <1>2, <1>3 DEF Prefix
<1> QED
  BY <1>2, <1>3, <1>4, <1>5, <1>6 DEF Prefix

\* A step of r leaves the fields of others alone.
OthersStay(r) ==
    \A q \in Requests \ {r} :
        /\ kind'[q] = kind[q] /\ pc'[q] = pc[q] /\ at'[q] = at[q]
        /\ sent'[q] = sent[q] /\ status'[q] = status[q]

\* A step of r leaves its own fields in order.
Orderly(r) == FieldTypes' /\ Placed(r)' /\ Told(r)' /\ OthersStay(r)

LEMMA AdvanceOrderly ==
  ASSUME IInv, NEW r \in Requests, pc[r] = "running", Advance(r), bucket' \subseteq Requests
  PROVE  /\ Orderly(r) /\ kind' = kind
         /\ \/ at[r] = Len(Steps[kind[r]]) /\ pc'[r] = "done"
               /\ (kind[r] \notin Streams => status'[r] = 200)
            \/ at[r] < Len(Steps[kind[r]]) /\ pc'[r] = "running" /\ status' = status
               /\ at'[r] = at[r] + 1
<1> DEFINE k == kind[r]
           i == at[r]
           n == Len(Steps[k])
<1>1. /\ k \in Kinds /\ n \in 1 .. 4 /\ i \in 1 .. n
      /\ k \notin Streams => sent[r] = <<>>
      /\ k \in Streams => status[r] = 200 /\ sent[r] = Prefix(k, i)
  BY UnderWay DEF SoFar
<1>2. FieldTypes
  BY DEF IInv
<1>3. CASE i = n
  <2>1. /\ kind' = kind /\ at' = at /\ pc' = [pc EXCEPT ![r] = "done"]
        /\ status' = IF k \notin Streams THEN [status EXCEPT ![r] = 200] ELSE status
        /\ sent' = IF k \in Streams
                   THEN [sent EXCEPT ![r] = sent[r] \o <<Ended(Steps[k][i]), Complete>>]
                   ELSE sent
    BY <1>3 DEF Advance, Responds, Leaves, Tell, Streaming
  <2>2. k \in Streams => /\ Story(k) \in Seq(Seq(Words))
                         /\ Prefix(k, i) \o <<Ended(Steps[k][i]), Complete>> = Story(k)
    BY <1>1, <1>3, Telling, ZenonT(30)
  <2>3. /\ sent' \in [Requests -> Seq(Seq(Words))]
        /\ sent'[r] = IF k \in Streams THEN Story(k) ELSE sent[r]
        /\ \A q \in Requests \ {r} : sent'[q] = sent[q]
    <3>1. CASE k \in Streams
      <4>1. sent' = [sent EXCEPT ![r] = Story(k)] /\ Story(k) \in Seq(Seq(Words))
        BY <1>1, <2>1, <2>2, <3>1
      <4> QED
        BY <1>2, <3>1, <4>1 DEF FieldTypes
    <3>2. CASE k \notin Streams
      BY <1>2, <2>1, <3>2 DEF FieldTypes
    <3> QED
      BY <3>1, <3>2
  <2>4. /\ status' \in [Requests -> {0, 200, 400, 500, 502}] /\ status'[r] = 200
        /\ \A q \in Requests \ {r} : status'[q] = status[q]
    <3>1. CASE k \in Streams
      BY <1>1, <1>2, <2>1, <3>1 DEF FieldTypes
    <3>2. CASE k \notin Streams
      BY <1>2, <2>1, <3>2 DEF FieldTypes
    <3> QED
      BY <3>1, <3>2
  <2>5. /\ pc'[r] = "done" /\ pc' \in [Requests -> {"idle", "running", "done", "raised", "gone"}]
        /\ \A q \in Requests \ {r} : pc'[q] = pc[q]
    BY <1>2, <2>1 DEF FieldTypes
  <2>6. FieldTypes'
    BY <1>2, <2>1, <2>3, <2>4, <2>5 DEF FieldTypes
  <2>7. Placed(r)'
    BY <1>1, <2>1, <2>4, <2>5 DEF Placed
  <2>8. Told(r)'
    BY <1>1, <2>1, <2>3, <2>4, <2>5 DEF Told
  <2>9. OthersStay(r)
    BY <2>1, <2>3, <2>4, <2>5 DEF OthersStay
  <2> QED
    BY <1>3, <2>1, <2>4, <2>5, <2>6, <2>7, <2>8, <2>9 DEF Orderly
<1>4. CASE i < n
  <2>1. /\ kind' = kind /\ pc' = pc /\ status' = status /\ at' = [at EXCEPT ![r] = i + 1]
        /\ sent' = IF k \in Streams
                   THEN [sent EXCEPT ![r] = sent[r] \o <<Ended(Steps[k][i]), Begun(Steps[k][i + 1])>>]
                   ELSE sent
    BY <1>1, <1>4 DEF Advance, Tell, Streaming
  <2>2. i + 1 \in 1 .. n /\ i + 1 \in 0 .. 4
    <3>1. n \in 1 .. 4 /\ i \in 1 .. n /\ i < n
      BY <1>1, <1>4
    <3> HIDE DEF n, i
    <3> QED
      BY <3>1
  <2>3. k \in Streams =>
          /\ Prefix(k, i + 1) \in Seq(Seq(Words))
          /\ Prefix(k, i) \o <<Ended(Steps[k][i]), Begun(Steps[k][i + 1])>> = Prefix(k, i + 1)
    BY <1>1, <1>4, <2>2, Telling, ZenonT(30)
  <2>4. /\ sent' \in [Requests -> Seq(Seq(Words))]
        /\ sent'[r] = IF k \in Streams THEN Prefix(k, i + 1) ELSE sent[r]
        /\ \A q \in Requests \ {r} : sent'[q] = sent[q]
    <3>1. CASE k \in Streams
      <4>1. sent' = [sent EXCEPT ![r] = Prefix(k, i + 1)] /\ Prefix(k, i + 1) \in Seq(Seq(Words))
        BY <1>1, <2>1, <2>3, <3>1
      <4> QED
        BY <1>2, <3>1, <4>1 DEF FieldTypes
    <3>2. CASE k \notin Streams
      BY <1>2, <2>1, <3>2 DEF FieldTypes
    <3> QED
      BY <3>1, <3>2
  <2>5. /\ at' \in [Requests -> 0 .. 4] /\ at'[r] = i + 1
        /\ \A q \in Requests \ {r} : at'[q] = at[q]
    BY <1>2, <2>1, <2>2 DEF FieldTypes
  <2>6. FieldTypes'
    BY <1>2, <2>1, <2>4, <2>5 DEF FieldTypes
  <2>7. SoFar(r)' = Prefix(k, i + 1)
    BY <2>1, <2>5 DEF SoFar, Prefix, Story
  <2>8. Placed(r)'
    BY <1>1, <2>1, <2>2, <2>5 DEF Placed
  <2>9. Told(r)'
    BY <1>1, <2>1, <2>2, <2>4, <2>5, <2>7 DEF Told
  <2>10. OthersStay(r)
    BY <2>1, <2>4, <2>5 DEF OthersStay
  <2> QED
    BY <1>4, <2>1, <2>5, <2>6, <2>8, <2>9, <2>10 DEF Orderly
<1> QED
  BY <1>1, <1>3, <1>4

LEMMA FailsOrderly ==
  ASSUME IInv, NEW r \in Requests, pc[r] = "running", NEW code \in {500, 502}, Fails(r, code),
         bucket' \subseteq Requests
  PROVE  /\ Orderly(r) /\ kind' = kind /\ at' = at /\ pc'[r] = "done"
         /\ kind[r] \notin Streams => status'[r] = code
<1>1. /\ kind[r] \in Kinds /\ at[r] \in 1 .. Len(Steps[kind[r]])
      /\ kind[r] \notin Streams => sent[r] = <<>>
      /\ kind[r] \in Streams => status[r] = 200 /\ sent[r] = SoFar(r)
  BY UnderWay
<1>2. FieldTypes
  BY DEF IInv
<1>3. /\ kind' = kind /\ at' = at /\ pc' = [pc EXCEPT ![r] = "done"]
      /\ status' = IF kind[r] \notin Streams THEN [status EXCEPT ![r] = code] ELSE status
      /\ sent' = IF kind[r] \in Streams THEN [sent EXCEPT ![r] = sent[r] \o <<Error>>] ELSE sent
  BY DEF Fails, Responds, Leaves, Tell, Streaming
<1>4. sent[r] \o <<Error>> \in Seq(Seq(Words))
  BY <1>2, EventTypes DEF FieldTypes
<1>5. /\ sent' \in [Requests -> Seq(Seq(Words))]
      /\ sent'[r] = IF kind[r] \in Streams THEN sent[r] \o <<Error>> ELSE sent[r]
      /\ \A q \in Requests \ {r} : sent'[q] = sent[q]
  <2>1. CASE kind[r] \in Streams
    <3>1. sent' = [sent EXCEPT ![r] = sent[r] \o <<Error>>]
      BY <1>3, <2>1
    <3> QED
      BY <1>2, <1>4, <2>1, <3>1 DEF FieldTypes
  <2>2. CASE kind[r] \notin Streams
    BY <1>2, <1>3, <2>2 DEF FieldTypes
  <2> QED
    BY <2>1, <2>2
<1>6. /\ status' \in [Requests -> {0, 200, 400, 500, 502}]
      /\ status'[r] = IF kind[r] \in Streams THEN 200 ELSE code
      /\ \A q \in Requests \ {r} : status'[q] = status[q]
  <2>1. CASE kind[r] \in Streams
    BY <1>1, <1>2, <1>3, <2>1 DEF FieldTypes
  <2>2. CASE kind[r] \notin Streams
    BY <1>2, <1>3, <2>2 DEF FieldTypes
  <2> QED
    BY <2>1, <2>2
<1>7. /\ pc'[r] = "done" /\ pc' \in [Requests -> {"idle", "running", "done", "raised", "gone"}]
      /\ \A q \in Requests \ {r} : pc'[q] = pc[q]
  BY <1>2, <1>3 DEF FieldTypes
<1>8. FieldTypes'
  BY <1>2, <1>3, <1>5, <1>6, <1>7 DEF FieldTypes
<1>9. SoFar(r)' = SoFar(r)
  BY <1>3 DEF SoFar, Prefix, Story
<1>10. Placed(r)'
  BY <1>1, <1>3, <1>6, <1>7 DEF Placed
<1>11. Told(r)'
  <2>1. CASE kind[r] \in Streams
    <3>1. sent'[r] = SoFar(r)' \o <<Error>>
      <4>1. sent[r] = SoFar(r)'
        BY <1>1, <1>9, <2>1
      <4>2. sent'[r] = sent[r] \o <<Error>>
        BY <1>5, <2>1
      <4> QED
        BY <4>1, <4>2, Zenon
    <3> QED
      BY <1>1, <1>3, <1>6, <1>7, <2>1, <3>1 DEF Told
  <2>2. CASE kind[r] \notin Streams
    BY <1>1, <1>3, <1>5, <2>2 DEF Told
  <2> QED
    BY <2>1, <2>2
<1>12. OthersStay(r)
  BY <1>3, <1>5, <1>6, <1>7 DEF OthersStay
<1> QED
  BY <1>3, <1>6, <1>7, <1>8, <1>10, <1>11, <1>12 DEF Orderly

\* A stream may just stop only where its scrape is broken.
LEMMA BreaksOrderly ==
  ASSUME IInv, NEW r \in Requests, pc[r] = "running", Breaks(r), bucket' \subseteq Requests,
         kind[r] \notin Streams \/ phase'[r] = "broken"
  PROVE  /\ Orderly(r) /\ kind' = kind /\ at' = at /\ pc'[r] = "raised"
         /\ kind[r] \notin Streams => status'[r] = 500
<1> USE DEF IInv
<1>1. /\ kind[r] \in Kinds /\ at[r] \in 1 .. Len(Steps[kind[r]])
      /\ kind[r] \notin Streams => sent[r] = <<>>
      /\ kind[r] \in Streams => status[r] = 200 /\ sent[r] = SoFar(r)
  BY UnderWay
<1>2. /\ kind' = kind /\ at' = at /\ sent' = sent /\ pc' = [pc EXCEPT ![r] = "raised"]
      /\ status' = IF kind[r] \in Streams THEN status ELSE [status EXCEPT ![r] = 500]
  BY DEF Breaks, Leaves, Streaming
<1>3. FieldTypes'
  BY <1>2 DEF FieldTypes
<1>8. SoFar(r)' = SoFar(r)
  BY <1>2 DEF SoFar, Prefix, Story
<1>4. /\ pc'[r] = "raised"
      /\ kind[r] \notin Streams => status'[r] = 500
      /\ kind[r] \in Streams => status'[r] = 200
  BY <1>1, <1>2 DEF FieldTypes
<1>5. Placed(r)'
  BY <1>1, <1>2, <1>4 DEF Placed
<1>6. Told(r)'
  BY <1>1, <1>2, <1>4, <1>8 DEF Told
<1>7. OthersStay(r)
  BY <1>2 DEF OthersStay, FieldTypes
<1> QED
  BY <1>2, <1>3, <1>4, <1>5, <1>6, <1>7 DEF Orderly

-----------------------------------------------------------------------------
(* Every action keeps the invariant. *)

\* Which steps are whose.
LEMMA WhoseStep ==
  ASSUME IInv, NEW r \in Requests, pc[r] = "running"
  PROVE  /\ kind[r] = "image" =>
               /\ at[r] \in 1 .. 3 /\ Len(Steps[kind[r]]) = 3
               /\ Working(r, "generate") <=> at[r] = 1
               /\ Working(r, "upload") <=> at[r] = 2
               /\ Working(r, "locate") <=> at[r] = 3
               /\ ~Working(r, "scrape") /\ \A s \in Llm : ~Working(r, s)
         /\ kind[r] # "image" => \A s \in Uploads : ~Working(r, s)
<1>1. kind[r] \in DOMAIN Steps /\ at[r] \in 1 .. Len(Steps[kind[r]])
  BY UnderWay
<1>2. CASE kind[r] = "image"
  <2>1. Steps[kind[r]] = <<"generate", "upload", "locate">>
    BY <1>1, <1>2, Pipelines
  <2>2. at[r] = 1 \/ at[r] = 2 \/ at[r] = 3
    BY <1>1, <2>1
  <2>3. Len(Steps[kind[r]]) = 3
    BY <2>1
  <2>4. /\ at[r] = 1 => Steps[kind[r]][at[r]] = "generate"
        /\ at[r] = 2 => Steps[kind[r]][at[r]] = "upload"
        /\ at[r] = 3 => Steps[kind[r]][at[r]] = "locate"
    BY <2>1
  <2> QED
    BY <1>2, <2>2, <2>3, <2>4 DEF Working, Llm
<1>3. CASE kind[r] # "image"
  <2>1. Steps[kind[r]][at[r]] \notin Uploads
    BY <1>1, <1>3, Pipelines
  <2> QED
    BY <1>3, <2>1 DEF Working
<1> QED
  BY <1>2, <1>3

Requested == FieldTypes /\ \A r \in Requests : RequestInv(r)

\* What is left to show of a step of r.
LEMMA Closing ==
  ASSUME IInv, NEW r \in Requests, Orderly(r), Pictured(r)',
         \A q \in Requests \ {r} : phase'[q] = phase[q] /\ (q \in bucket' <=> q \in bucket)
  PROVE  Requested'
<1>1. ASSUME NEW q \in Requests \ {r}
      PROVE  RequestInv(q)'
  <2>1. RequestInv(q)
    BY DEF IInv
  <2>2. /\ kind'[q] = kind[q] /\ pc'[q] = pc[q] /\ at'[q] = at[q]
        /\ sent'[q] = sent[q] /\ status'[q] = status[q]
        /\ phase'[q] = phase[q] /\ (q \in bucket' <=> q \in bucket)
    BY DEF Orderly, OthersStay
  <2>3. SoFar(q)' = SoFar(q)
    BY <2>2 DEF SoFar, Prefix, Story
  <2>4. Placed(q)'
    BY <2>1, <2>2 DEF RequestInv, Placed
  <2>5. Told(q)'
    BY <2>1, <2>2, <2>3 DEF RequestInv, Told
  <2>6. Pictured(q)'
    BY <2>1, <2>2 DEF RequestInv, Pictured
  <2> QED
    BY <2>4, <2>5, <2>6 DEF RequestInv
<1>2. RequestInv(r)' /\ FieldTypes'
  BY DEF Orderly, RequestInv
<1> QED
  BY <1>1, <1>2 DEF Requested

\* A step that says nothing of pictures.
LEMMA NoPicture ==
  ASSUME IInv, NEW r \in Requests, kind[r] # "image", kind'[r] = kind[r], bucket' = bucket
  PROVE  Pictured(r)'
  BY DEF IInv, RequestInv, Pictured

LEMMA SendKeeps ==
  ASSUME IInv, NEW r \in Requests, NEW k \in Kinds, Send(r, k) \/ SendEmpty(r, k)
  PROVE  Requested'
<1>1. /\ k \in DOMAIN Steps /\ Steps[k] \in Seq(Names) /\ Len(Steps[k]) \in 0 .. 4
      /\ k \in Streams => Len(Steps[k]) \in 1 .. 4
  BY KindFacts, Pipelines
<1>2. FieldTypes /\ sent[r] = <<>> /\ status[r] = 0 /\ r \notin bucket
  BY KindFacts DEF IInv, RequestInv, Placed, Pictured, Send, SendEmpty
<1>3. \A q \in Requests \ {r} : phase'[q] = phase[q] /\ (q \in bucket' <=> q \in bucket)
  BY DEF Send, SendEmpty, scraping, Scraper!Begin, Scraper!Becomes, IInv, ScrapeInv,
         Scraper!TypeOK
<1>4. CASE Send(r, k)
  <2>1. /\ kind' = [kind EXCEPT ![r] = k] /\ pc' = [pc EXCEPT ![r] = "running"]
        /\ at' = [at EXCEPT ![r] = 1] /\ bucket' = bucket /\ Steps[k] # <<>>
        /\ k \in Streams => /\ sent' = [sent EXCEPT ![r] = <<Begun(Steps[k][1])>>]
                            /\ status' = [status EXCEPT ![r] = 200]
        /\ k \notin Streams => sent' = sent /\ status' = status
    BY <1>4 DEF Send
  <2>2. Len(Steps[k]) \in 1 .. 4
    BY <1>1, <2>1
  <2>3. k \in Streams => Prefix(k, 1) = <<Begun(Steps[k][1])>>
    <3>1. SUFFICES ASSUME k \in Streams
                   PROVE  Prefix(k, 1) = <<Begun(Steps[k][1])>>
      OBVIOUS
    <3>2. /\ Story(k) \in Seq(Seq(Words)) /\ Len(Story(k)) = 2 * Len(Steps[k]) + 1
          /\ Story(k)[1] = Begun(Steps[k][1])
      BY <2>2, <3>1, StoryShape
    <3>3. Prefix(k, 1) = SubSeq(Story(k), 1, 1)
      BY DEF Prefix
    <3> QED
      BY <2>2, <3>2, <3>3
  <2>4. <<Begun(Steps[k][1])>> \in Seq(Seq(Words))
    <3>1. Steps[k][1] \in Names
      BY <1>1, <2>2
    <3>2. Begun(Steps[k][1]) \in Seq(Words)
      BY <3>1, EventTypes
    <3> QED
      BY <3>2
  <2>5. FieldTypes'
    <3>1. sent' \in [Requests -> Seq(Seq(Words))] /\ status' \in [Requests -> {0, 200, 400, 500, 502}]
      <4>1. CASE k \in Streams
        <5> DEFINE first == <<Begun(Steps[k][1])>>
        <5>1. sent' = [sent EXCEPT ![r] = first] /\ status' = [status EXCEPT ![r] = 200]
          BY <2>1, <4>1
        <5>2. first \in Seq(Seq(Words))
          BY <2>4
        <5> HIDE DEF first
        <5> QED
          BY <1>2, <5>1, <5>2 DEF FieldTypes
      <4>2. CASE k \notin Streams
        BY <1>2, <2>1, <4>2 DEF FieldTypes
      <4> QED
        BY <4>1, <4>2
    <3>2. /\ kind' = [kind EXCEPT ![r] = k] /\ pc' = [pc EXCEPT ![r] = "running"]
          /\ at' = [at EXCEPT ![r] = 1] /\ bucket' = bucket
      BY <2>1
    <3> QED
      BY <1>2, <3>1, <3>2 DEF FieldTypes
  <2>6. /\ kind'[r] = k /\ pc'[r] = "running" /\ at'[r] = 1 /\ r \notin bucket'
        /\ k \in Streams => sent'[r] = <<Begun(Steps[k][1])>> /\ status'[r] = 200
        /\ k \notin Streams => sent'[r] = <<>> /\ status'[r] = 0
    BY <1>2, <2>1 DEF FieldTypes
  <2>7. SoFar(r)' = Prefix(k, 1)
    BY <2>6 DEF SoFar, Prefix, Story
  <2>8. Placed(r)'
    BY <2>2, <2>6 DEF Placed
  <2>9. Told(r)'
    BY <2>2, <2>3, <2>6, <2>7 DEF Told
  <2>10. Pictured(r)'
    BY <2>6, KindFacts DEF Pictured
  <2>11. OthersStay(r)
    <3>1. CASE k \in Streams
      BY <1>2, <2>1, <3>1 DEF FieldTypes, OthersStay
    <3>2. CASE k \notin Streams
      BY <1>2, <2>1, <3>2 DEF FieldTypes, OthersStay
    <3> QED
      BY <3>1, <3>2
  <2> QED
    BY <1>3, <2>5, <2>8, <2>9, <2>10, <2>11, Closing DEF Orderly
<1>5. CASE SendEmpty(r, k)
  <2>1. /\ kind' = [kind EXCEPT ![r] = k] /\ pc' = [pc EXCEPT ![r] = "done"]
        /\ status' = [status EXCEPT ![r] = 400] /\ Steps[k] = <<>>
        /\ at' = at /\ sent' = sent /\ bucket' = bucket
    BY <1>5 DEF SendEmpty
  <2>2. k \notin Streams /\ k # "image"
    BY <1>1, <2>1, Pipelines, SMTT(30)
  <2>3. FieldTypes'
    BY <1>2, <2>1 DEF FieldTypes
  <2>4. kind'[r] = k /\ pc'[r] = "done" /\ status'[r] = 400
    BY <1>2, <2>1 DEF FieldTypes
  <2>5. Placed(r)' /\ Told(r)' /\ Pictured(r)'
    BY <1>2, <2>1, <2>2, <2>4 DEF Placed, Told, Pictured
  <2>6. OthersStay(r)
    BY <1>2, <2>1 DEF FieldTypes, OthersStay
  <2> QED
    BY <1>3, <2>3, <2>5, <2>6, Closing DEF Orderly
<1> QED
  BY <1>4, <1>5

\* Steps that leave all pictures and scrapes alone: an LLM's, a scrape's end.
LEMMA TextKeeps ==
  ASSUME IInv, NEW r \in Requests, LlmEnds(r) \/ ScrapeEnds(r)
  PROVE  Requested'
<1>1. /\ pc[r] = "running" /\ bucket' = bucket /\ phase' = phase
      /\ (\E s \in Llm : Working(r, s)) \/ Working(r, "scrape")
  BY DEF LlmEnds, ScrapeEnds, scraping, Working
<1>2. kind[r] # "image"
  BY <1>1, WhoseStep
<1>3. bucket' \subseteq Requests
  BY <1>1 DEF IInv, FieldTypes
<1>4. \/ Advance(r)
      \/ \E code \in {500, 502} : Fails(r, code)
      \/ Breaks(r) /\ (kind[r] \notin Streams \/ phase'[r] = "broken")
  BY <1>1 DEF LlmEnds, ScrapeEnds, Streams
<1>5. Orderly(r) /\ kind' = kind
  BY <1>1, <1>3, <1>4, AdvanceOrderly, FailsOrderly, BreaksOrderly
<1>6. Pictured(r)'
  BY <1>1, <1>2, <1>5, NoPicture
<1> QED
  BY <1>1, <1>5, <1>6, Closing

LEMMA GenerateKeeps ==
  ASSUME IInv, NEW r \in Requests, GenerateEnds(r)
  PROVE  Requested'
<1>1. /\ pc[r] = "running" /\ Working(r, "generate") /\ bucket' = bucket /\ phase' = phase
  BY DEF GenerateEnds, scraping, Working
<1>2. kind[r] = "image" /\ at[r] = 1 /\ Len(Steps[kind[r]]) = 3 /\ kind[r] \notin Streams
  BY <1>1, WhoseStep, KindFacts DEF Uploads
<1>3. bucket' \subseteq Requests
  BY <1>1 DEF IInv, FieldTypes
<1>4. r \notin bucket /\ status[r] = 0
  BY <1>1, <1>2 DEF IInv, RequestInv, Pictured
<1>5. CASE Advance(r)
  <2>1. Orderly(r) /\ kind' = kind /\ pc'[r] = "running" /\ status' = status /\ at'[r] = 2
    BY <1>1, <1>2, <1>3, <1>5, AdvanceOrderly
  <2>2. Pictured(r)'
    BY <1>1, <1>2, <1>4, <2>1 DEF Pictured
  <2> QED
    BY <1>1, <2>1, <2>2, Closing
<1>6. CASE Fails(r, 502) \/ Breaks(r)
  <2>1. Orderly(r) /\ kind' = kind /\ pc'[r] \in {"done", "raised"} /\ status'[r] \in {500, 502}
    BY <1>1, <1>2, <1>3, <1>6, FailsOrderly, BreaksOrderly
  <2>2. Pictured(r)'
    BY <1>1, <1>2, <1>4, <2>1 DEF Pictured
  <2> QED
    BY <1>1, <2>1, <2>2, Closing
<1> QED
  BY <1>5, <1>6 DEF GenerateEnds

LEMMA UploadKeeps ==
  ASSUME IInv, NEW r \in Requests, UploadReturns(r) \/ UploadRaises(r)
  PROVE  Requested'
<1>1. /\ pc[r] = "running" /\ Working(r, "upload") /\ phase' = phase
      /\ \A q \in Requests \ {r} : q \in bucket' <=> q \in bucket
  BY DEF UploadReturns, UploadRaises, scraping, Working
<1>2. kind[r] = "image" /\ at[r] = 2 /\ Len(Steps[kind[r]]) = 3 /\ kind[r] \notin Streams
  BY <1>1, WhoseStep, KindFacts DEF Uploads
<1>3. bucket' \subseteq Requests
  BY DEF IInv, FieldTypes, UploadReturns, UploadRaises
<1>4. status[r] = 0
  BY <1>1, <1>2 DEF IInv, RequestInv, Pictured
<1>5. CASE UploadReturns(r)
  <2>1. Orderly(r) /\ kind' = kind /\ pc'[r] = "running" /\ status' = status /\ at'[r] = 3
    BY <1>1, <1>2, <1>3, <1>5, AdvanceOrderly DEF UploadReturns
  <2>2. r \in bucket'
    BY <1>5 DEF UploadReturns
  <2>3. Pictured(r)'
    BY <1>2, <1>4, <2>1, <2>2 DEF Pictured
  <2> QED
    BY <1>1, <2>1, <2>3, Closing
<1>6. CASE UploadRaises(r)
  <2>1. Orderly(r) /\ kind' = kind /\ pc'[r] = "done" /\ status'[r] = 500
    BY <1>1, <1>2, <1>3, <1>6, FailsOrderly DEF UploadRaises
  <2>2. Pictured(r)'
    BY <1>2, <2>1 DEF Pictured
  <2> QED
    BY <1>1, <2>1, <2>2, Closing
<1> QED
  BY <1>5, <1>6

LEMMA LocateKeeps ==
  ASSUME IInv, NEW r \in Requests, LocateEnds(r)
  PROVE  Requested'
<1>1. /\ pc[r] = "running" /\ Working(r, "locate") /\ bucket' = bucket /\ phase' = phase
  BY DEF LocateEnds, scraping, Working
<1>2. kind[r] = "image" /\ at[r] = 3 /\ Len(Steps[kind[r]]) = 3 /\ kind[r] \notin Streams
  BY <1>1, WhoseStep, KindFacts DEF Uploads
<1>3. bucket' \subseteq Requests
  BY <1>1 DEF IInv, FieldTypes
<1>4. r \in bucket
  BY <1>1, <1>2 DEF IInv, RequestInv, Pictured
<1>5. Orderly(r) /\ kind' = kind /\ pc'[r] = "done" /\ status'[r] \in {200, 500}
  <2>1. CASE Advance(r)
    <3>1. /\ Orderly(r) /\ kind' = kind
          /\ \/ at[r] = Len(Steps[kind[r]]) /\ pc'[r] = "done"
                /\ (kind[r] \notin Streams => status'[r] = 200)
             \/ at[r] < Len(Steps[kind[r]]) /\ pc'[r] = "running" /\ status' = status
                /\ at'[r] = at[r] + 1
      BY <1>1, <1>3, <2>1, AdvanceOrderly
    <3>2. ~(at[r] < Len(Steps[kind[r]]))
      BY <1>2
    <3> QED
      BY <1>2, <3>1, <3>2
  <2>2. CASE Fails(r, 500)
    BY <1>1, <1>2, <1>3, <2>2, FailsOrderly
  <2> QED
    BY <2>1, <2>2 DEF LocateEnds
<1>6. Pictured(r)'
  BY <1>1, <1>2, <1>4, <1>5 DEF Pictured
<1> QED
  BY <1>1, <1>5, <1>6, Closing

\* A scrape goes on: only its own attempts change.
LEMMA ScrapeKeeps ==
  ASSUME IInv, NEW r \in Requests, ScrapeGoesOn(r)
  PROVE  Requested'
<1>1. /\ pc[r] = "running" /\ UNCHANGED <<kind, pc, at, sent, status, bucket>>
  BY DEF ScrapeGoesOn, Working
<1>2. FieldTypes' /\ OthersStay(r) /\ SoFar(r)' = SoFar(r)
  BY <1>1 DEF IInv, FieldTypes, OthersStay, SoFar, Prefix, Story
<1>3. Placed(r)' /\ Told(r)' /\ Pictured(r)'
  BY <1>1, <1>2 DEF IInv, RequestInv, Placed, Told, Pictured
<1>4. \A q \in Requests \ {r} : phase'[q] = phase[q]
  BY DEF ScrapeGoesOn, Scraper!Step, Scraper!Responds, Scraper!Retry, Scraper!NextCall,
         Scraper!Becomes, IInv, ScrapeInv, Scraper!TypeOK
<1> QED
  BY <1>1, <1>2, <1>3, <1>4, Closing DEF Orderly

LEMMA DisconnectKeeps ==
  ASSUME IInv, NEW r \in Requests, Disconnect(r)
  PROVE  Requested'
<1>1. /\ pc[r] = "running" /\ pc' = [pc EXCEPT ![r] = "gone"] /\ kind[r] \in Streams
      /\ UNCHANGED <<kind, at, sent, status, bucket, phase>>
  BY DEF Disconnect, scraping, Streaming
<1>2. FieldTypes' /\ OthersStay(r) /\ SoFar(r)' = SoFar(r) /\ pc'[r] = "gone"
  BY <1>1 DEF IInv, FieldTypes, OthersStay, SoFar, Prefix, Story
<1>3. Placed(r)' /\ Told(r)' /\ Pictured(r)'
  BY <1>1, <1>2, KindFacts DEF IInv, RequestInv, Placed, Told, Pictured
<1> QED
  BY <1>1, <1>2, <1>3, Closing DEF Orderly

LEMMA IInvNext == ASSUME IInv, [Next]_vars PROVE IInv'
<1>1. ScrapeInv'
  BY ScrapeNext DEF IInv
<1>2. CASE UNCHANGED vars
  <2>1. UNCHANGED <<kind, pc, at, sent, status, bucket, phase>>
    BY <1>2 DEF vars, scraping
  <2>2. FieldTypes'
    BY <2>1 DEF IInv, FieldTypes
  <2>3. ASSUME NEW r \in Requests
        PROVE  RequestInv(r)'
    <3>1. SoFar(r)' = SoFar(r)
      BY <2>1 DEF SoFar, Prefix, Story
    <3> QED
      BY <2>1, <3>1 DEF IInv, RequestInv, Placed, Told, Pictured
  <2> QED
    BY <1>1, <2>2, <2>3 DEF IInv
<1>3. CASE Next
  <2>1. Requested'
    BY <1>3, SendKeeps, TextKeeps, GenerateKeeps, UploadKeeps, LocateKeeps, ScrapeKeeps,
       DisconnectKeeps
       DEF Next, Timed
  <2> QED
    BY <1>1, <2>1 DEF IInv, Requested
<1> QED
  BY <1>2, <1>3

-----------------------------------------------------------------------------
\* The inductive invariant: counts of calls, where each request is, what its
\* stream has told, and whose picture is stored (routers/ai.py).
THEOREM Invariant == Spec => []IInv
<1>1. IInv /\ [Next]_vars => IInv'
  BY IInvNext
<1> QED
  BY <1>1, InitIInv, PTL DEF Spec

\* Every reachable state has its type (ai.py, scraper.py).
THEOREM TypeCorrect == Spec => []TypeOK
<1>1. IInv => TypeOK
  <2> SUFFICES ASSUME IInv PROVE TypeOK
    OBVIOUS
  <2>1. ASSUME NEW r \in Requests, sent[r] # <<>>
        PROVE  kind[r] \in Streams /\ status[r] = 200
    BY <2>1 DEF IInv, RequestInv, Told
  <2>2. \A r \in Requests : /\ pc[r] \in {"done", "raised"} => status[r] # 0
                            /\ pc[r] = "running" => at[r] \in 1 .. Len(Steps[kind[r]])
    BY DEF IInv, RequestInv, Placed
  <2> QED
    BY <2>1, <2>2 DEF IInv, ScrapeInv, FieldTypes, TypeOK
<1> QED
  BY <1>1, Invariant, PTL

\* A stream tells of its steps in order, whatever fails (ai_generate_text).
THEOREM StreamsInOrder == Spec => []StreamOrdered
<1>1. IInv => StreamOrdered
  <2> SUFFICES ASSUME IInv, NEW r \in Requests, kind[r] \in Streams
               PROVE  \E n \in 1 .. Len(Story(kind[r])) :
                        \/ sent[r] = SubSeq(Story(kind[r]), 1, n)
                        \/ /\ n % 2 = 1 /\ n < Len(Story(kind[r]))
                           /\ sent[r] = SubSeq(Story(kind[r]), 1, n) \o <<Error>>
    BY DEF StreamOrdered
  <2> DEFINE m == 2 * at[r] - 1
             l == Len(Story(kind[r]))
  <2>1. /\ Story(kind[r]) \in Seq(Seq(Words)) /\ l = 2 * Len(Steps[kind[r]]) + 1
        /\ Len(Steps[kind[r]]) \in 1 .. 4 /\ at[r] \in 1 .. Len(Steps[kind[r]])
    BY StoryShape, StreamKinds, Pipelines DEF IInv, RequestInv, Told
  <2>2. m \in 1 .. l /\ m % 2 = 1 /\ m < l /\ l \in 1 .. l
    BY <2>1, SMTT(30)
  <2>3. SubSeq(Story(kind[r]), 1, l) = Story(kind[r])
    BY <2>1, SubSeqFull
  <2>4. SoFar(r) = SubSeq(Story(kind[r]), 1, m)
    BY DEF SoFar, Prefix
  <2>5. \/ sent[r] = SoFar(r)
        \/ sent[r] = Story(kind[r])
        \/ sent[r] = SoFar(r) \o <<Error>>
    <3>1. pc[r] \in {"running", "gone", "raised", "done"}
      BY KindFacts DEF IInv, RequestInv, Placed, FieldTypes
    <3> QED
      BY <3>1 DEF IInv, RequestInv, Told
  <2> HIDE DEF m, l
  <2>6. CASE sent[r] = SoFar(r)
    BY <2>2, <2>4, <2>6 DEF l
  <2>7. CASE sent[r] = Story(kind[r])
    BY <2>2, <2>3, <2>7 DEF l
  <2>8. CASE sent[r] = SoFar(r) \o <<Error>>
    BY <2>2, <2>4, <2>8 DEF l
  <2> QED
    BY <2>5, <2>6, <2>7, <2>8 DEF l
<1> QED
  BY <1>1, Invariant, PTL

\* A stream that is done has said how it ended, unless its scrape raised what
\* is no ScraperError (ai_generate_text, ai.py:221-289).
THEOREM StreamsTellTheirEnd == Spec => []EndsAreTold
<1>1. IInv => EndsAreTold
  <2>0. ASSUME IInv, NEW r \in Requests, kind[r] \in Streams, pc[r] = "raised"
        PROVE  phase[r] = "broken"
    BY <2>0 DEF IInv, RequestInv, Told
  <2> SUFFICES ASSUME IInv, NEW r \in Requests, kind[r] \in Streams, pc[r] = "done"
               PROVE  sent[r][Len(sent[r])] \in {Complete, Error}
    BY <2>0 DEF EndsAreTold
  <2>1. at[r] \in 1 .. Len(Steps[kind[r]])
    BY DEF IInv, RequestInv, Told
  <2>2. sent[r] = Story(kind[r]) \/ sent[r] = SoFar(r) \o <<Error>>
    BY DEF IInv, RequestInv, Told
  <2>3. CASE sent[r] = Story(kind[r])
    BY <2>3, StoryShape
  <2>4. CASE sent[r] = SoFar(r) \o <<Error>>
    <3>1. SoFar(r) \in Seq(Seq(Words))
      BY <2>1, Telling DEF SoFar
    <3>2. Error \in Seq(Words)
      BY EventTypes
    <3> QED
      BY <2>4, <3>1, <3>2
  <2> QED
    BY <2>2, <2>3, <2>4
<1> QED
  BY <1>1, Invariant, PTL

\* A 200 shows a picture that is stored, a 502 leaves none (ai_generate_image).
THEOREM PicturesAreAccountedFor == Spec => []PicturesAccounted
<1>1. IInv => PicturesAccounted
  BY DEF IInv, RequestInv, Pictured, PicturesAccounted
<1> QED
  BY <1>1, Invariant, PTL
-----------------------------------------------------------------------------
(* Every step counts. *)

\* What a scrape has used up: calls are sent and come back.
Used(r) == 2 * posts[r] + (IF phase[r] = "calling" THEN 0 ELSE 1)

MostUsed == 2 * Scraper!MostPosts + 1

\* A step of a handler sends or ends one of the calls that its scrape has left,
\* moves on in the row of its steps, or is the last.
EveryStepCounts ==
    [][\A r \in Requests : Timed(r) \/ LlmEnds(r) =>
          \/ pc'[r] # "running"
          \/ at'[r] = at[r] + 1 /\ at'[r] \in 1 .. Len(Steps[kind[r]])
          \/ at'[r] = at[r] /\ Used(r)' = Used(r) + 1 /\ Used(r)' <= MostUsed]_vars

\* One step of a scrape uses up one, and there is no more than MostUsed.
LEMMA ScrapeUses ==
  ASSUME ScrapeInv, NEW r \in Requests, Scraper!Step(r)
  PROVE  /\ Used(r)' = Used(r) + 1
         /\ posts'[r] <= Scraper!MostPosts => Used(r)' <= MostUsed
<1> USE AttemptsAssumption DEF AttemptsAssumption, ScrapeInv, Scraper!TypeOK, Counted, Count,
        Kept, Scraper!Calls, Scraper!MostPosts, Scraper!Becomes, Scraper!Posted
<1>1. posts[r] \in Nat /\ tries[r] \in 1 .. MaxAttempts /\ call[r] \in 1 .. 3
  OBVIOUS
<1>2. ASSUME NEW outcome \in Scraper!Outcomes, Scraper!Responds(r, outcome)
      PROVE  Used(r)' = Used(r) + 1 /\ posts'[r] \in Nat
  <2>1. posts' = posts /\ phase[r] = "calling"
    BY <1>2 DEF Scraper!Responds
  <2>2. phase'[r] \in {"pause", "scraped", "broken", "backoff", "error"}
    BY <1>2 DEF Scraper!Responds
  <2> QED
    BY <1>1, <2>1, <2>2 DEF Used
<1>3. ASSUME Scraper!Retry(r) \/ Scraper!NextCall(r)
      PROVE  Used(r)' = Used(r) + 1 /\ posts'[r] \in Nat
  <2>1. phase[r] \in {"backoff", "pause"} /\ phase'[r] = "calling"
    BY <1>3 DEF Scraper!Retry, Scraper!NextCall
  <2>2. posts[r] <= 3 * MaxAttempts
    <3>1. phase[r] = "backoff" => tries[r] < MaxAttempts
      OBVIOUS
    <3>2. call[r] = 1 \/ call[r] = 2 \/ call[r] = 3
      BY <1>1
    <3> QED
      BY <1>1, <3>2
  <2>3. posts'[r] = posts[r] + 1
    BY <1>1, <1>3, <2>2 DEF Scraper!Retry, Scraper!NextCall
  <2> QED
    BY <1>1, <2>1, <2>3 DEF Used
<1>4. Used(r)' = Used(r) + 1 /\ posts'[r] \in Nat
  BY <1>2, <1>3 DEF Scraper!Step
<1>5. posts'[r] <= Scraper!MostPosts => Used(r)' <= MostUsed
  BY <1>4 DEF Used, MostUsed
<1> QED
  BY <1>4, <1>5

\* However Cloudflare and the models answer, a handler is through after at most
\* four steps and 2 * 3 * MaxAttempts more in its scrape: with the fairness of
\* FairSpec, this is why it ends (_retrying, scraper.py:111-119; ai.py, scrape.py).
THEOREM HandlersAreShort == Spec => EveryStepCounts
<1>1. ASSUME IInv, IInv', CallsBounded', NEW r \in Requests, Timed(r) \/ LlmEnds(r)
      PROVE  \/ pc'[r] # "running"
             \/ at'[r] = at[r] + 1 /\ at'[r] \in 1 .. Len(Steps[kind[r]])
             \/ at'[r] = at[r] /\ Used(r)' = Used(r) + 1 /\ Used(r)' <= MostUsed
  <2>1. pc[r] = "running" /\ bucket' \subseteq Requests
    BY <1>1 DEF Timed, ScrapeGoesOn, ScrapeEnds, LlmEnds, GenerateEnds, UploadReturns,
                UploadRaises, LocateEnds, Working, IInv, FieldTypes
  <2>2. at[r] \in 1 .. Len(Steps[kind[r]]) /\ Len(Steps[kind[r]]) \in 1 .. 4
    BY <1>1, <2>1, UnderWay
  <2>3. CASE ScrapeGoesOn(r)
    <3>1. Scraper!Step(r) /\ at' = at
      BY <2>3 DEF ScrapeGoesOn
    <3>2. posts'[r] <= Scraper!MostPosts
      BY <1>1 DEF CallsBounded, Scraper!CallsBounded
    <3> QED
      BY <1>1, <3>1, <3>2, ScrapeUses DEF IInv
  <2>4. CASE Advance(r)
    BY <1>1, <2>1, <2>2, <2>4, AdvanceOrderly
  <2>5. CASE (\E code \in {500, 502} : Fails(r, code)) \/ Breaks(r)
    <3>1. pc' = [pc EXCEPT ![r] = "done"] \/ pc' = [pc EXCEPT ![r] = "raised"]
      BY <2>5 DEF Fails, Breaks, Responds, Leaves
    <3> QED
      BY <1>1, <3>1 DEF IInv, FieldTypes
  <2> QED
    BY <1>1, <2>3, <2>4, <2>5
       DEF Timed, ScrapeEnds, LlmEnds, GenerateEnds, UploadReturns, UploadRaises, LocateEnds
<1>2. IInv /\ IInv' /\ CallsBounded' /\ [Next]_vars =>
        [\A r \in Requests : Timed(r) \/ LlmEnds(r) =>
            \/ pc'[r] # "running"
            \/ at'[r] = at[r] + 1 /\ at'[r] \in 1 .. Len(Steps[kind[r]])
            \/ at'[r] = at[r] /\ Used(r)' = Used(r) + 1 /\ Used(r)' <= MostUsed]_vars
  BY <1>1
<1> QED
  BY <1>2, Invariant, CallsAreBounded, PTL DEF Spec, EveryStepCounts

-----------------------------------------------------------------------------
(* When all failures are wrapped. *)

\* Cloudflare answers with the JSON object that _post() takes a 200 for.
WellFormed == \A c \in Requests : ~Scraper!Responds(c, "garbled")

\* The promise of ScraperError holds as long as every 200 has the form that
\* _post() expects: a body that has not is all that breaks it
\* (scraper.py:130-132, 141-157).
THEOREM ErrorsAreWrapped == Spec /\ [][WellFormed]_vars => []ErrorsWrapped
<1>1. Init => ErrorsWrapped
  BY DEF Init, Scraper!Init, ErrorsWrapped, Scraper!ErrorsWrapped
<1>2. ASSUME IInv, ErrorsWrapped, WellFormed, Next
      PROVE  ErrorsWrapped'
  <2>1. \A c \in Requests : phase[c] # "broken"
    BY <1>2 DEF ErrorsWrapped, Scraper!ErrorsWrapped
  <2>2. phase \in [Requests -> {"off", "calling", "backoff", "pause", "scraped",
                                "error", "broken"}]
    BY <1>2 DEF IInv, ScrapeInv, Scraper!TypeOK
  <2>3. ASSUME NEW r \in Requests, NEW p, p # "broken", Scraper!Becomes(r, p)
        PROVE  \A c \in Requests : phase'[c] # "broken"
    BY <2>1, <2>2, <2>3 DEF Scraper!Becomes
  <2>4. ASSUME NEW r \in Requests, Scraper!Begin(r) \/ Scraper!Step(r)
        PROVE  \A c \in Requests : phase'[c] # "broken"
    <3>1. CASE Scraper!Begin(r)
      BY <2>3, <3>1 DEF Scraper!Begin
    <3>2. CASE Scraper!Retry(r) \/ Scraper!NextCall(r)
      BY <2>3, <3>2 DEF Scraper!Retry, Scraper!NextCall
    <3>3. ASSUME NEW outcome \in Scraper!Outcomes, Scraper!Responds(r, outcome)
          PROVE  \A c \in Requests : phase'[c] # "broken"
      <4>1. outcome # "garbled"
        BY <1>2, <3>3 DEF WellFormed
      <4>2. \E p \in {"pause", "scraped", "backoff", "error"} : Scraper!Becomes(r, p)
        BY <3>3, <4>1 DEF Scraper!Responds
      <4> QED
        BY <2>3, <4>2
    <3> QED
      BY <2>4, <3>1, <3>2, <3>3 DEF Scraper!Step
  <2>5. \/ phase' = phase
        \/ \E r \in Requests : Scraper!Begin(r) \/ Scraper!Step(r)
    BY <1>2 DEF Next, Send, SendEmpty, Timed, ScrapeGoesOn, ScrapeEnds, LlmEnds, scraping,
                GenerateEnds, UploadReturns, UploadRaises, LocateEnds, Disconnect
  <2> QED
    BY <2>1, <2>4, <2>5 DEF ErrorsWrapped, Scraper!ErrorsWrapped
<1>3. ErrorsWrapped /\ UNCHANGED vars => ErrorsWrapped'
  BY DEF vars, scraping, ErrorsWrapped, Scraper!ErrorsWrapped
<1>4. IInv /\ ErrorsWrapped /\ [Next]_vars /\ [WellFormed]_vars => ErrorsWrapped'
  BY <1>2, <1>3
<1> QED
  BY <1>1, <1>4, Invariant, PTL DEF Spec

\* No stream just stops: each that is over, and whose client is still there, has
\* said complete or error.
StreamsSayHow ==
    \A r \in Requests : kind[r] \in Streams /\ pc[r] \in {"done", "raised"} =>
        sent[r][Len(sent[r])] \in {Complete, Error}

\* As long as every 200 of Cloudflare has its form, the client of a stream learns
\* how it ended (ai_generate_text, ai.py:221-289): ErrorsWrapped is all it takes.
THEOREM StreamsAlwaysSayHow == Spec /\ [][WellFormed]_vars => []StreamsSayHow
<1>1. EndsAreTold /\ ErrorsWrapped => StreamsSayHow
  BY DEF EndsAreTold, ErrorsWrapped, Scraper!ErrorsWrapped, StreamsSayHow
<1> QED
  BY <1>1, ErrorsAreWrapped, StreamsTellTheirEnd, PTL
=============================================================================
