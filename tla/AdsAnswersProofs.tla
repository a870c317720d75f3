-------------------------- MODULE AdsAnswersProofs --------------------------
(***************************************************************************)
(* More theorems about AdsRouter, on top of AdsRouterProofs: what a client *)
(* may conclude from an answer.  The first half holds at any overlap; the  *)
(* second says what requests would have to take turns at for the docstring *)
(* of routers/ads.py to be true as it stands, each promise on its own      *)
(* condition; requests that come one after another meet all of them.       *)
(***************************************************************************)
EXTENDS AdsRouterProofs, FiniteSetTheorems

\* An answer of 201 describes the ad that some POST asked for.
Describes(answer, asked) ==
    /\ answer.ad \in Requests /\ asked[answer.ad] # None
    /\ asked[answer.ad].op = "create"
    /\ answer.shown = {asked[answer.ad].cols}

\* So does what is cached, under the key of that POST.
CacheDescribes ==
    \A k \in Keys : store[k] # None =>
        Describes(store[k].response, body) /\ body[store[k].response.ad].key = k

ReplayInv == IInv /\ ReplayIsFaithful /\ CacheDescribes

\* Only requests that name an ad are answered 200.
ReadsNameAds == \A r \in Requests : reply[r].status = 200 => body[r].op # "create"

ReadsInv == IInv /\ ReadsNameAds /\ ReadsAreCommittedAndScoped

-----------------------------------------------------------------------------
(* What a step does to bodies, answers and the cache. *)

LEMMA BodyStays ==
  ASSUME RouterTypeOK, [Next]_vars, NEW c \in Requests, body[c] # None
  PROVE  body'[c] = body[c]
<1>1. Handle(c) => body'[c] = body[c]
  BY DEF Handle, Moves, Answers, Raises, NotFound, CreateReplay, CreateMiss,
     CreateReturn, GetReturn, UpdateLoad, UpdateFlush, UpdateRefused, UpdateReturn,
     UpdateUnreadable, DeleteLoad, DeleteReturn, VersionsLoad, VersionsReturn, CommitCreate,
     CommitUpdate, DeleteVersion, DeleteAd, CommitDelete
<1>2. \A b \in Bodies : ~Send(c, b)
  BY DEF Send, RouterTypeOK
<1> QED
  BY <1>1, <1>2, StaysOrMoves, RollbackEnds DEF Stays, Ends

LEMMA StoreStep ==
  ASSUME IInv, [Next]_vars, NEW k \in Keys, store'[k] # None
  PROVE  \/ store[k] # None /\ store'[k].response = store[k].response
         \/ \E r \in Requests : /\ CreateReturn(r) /\ body[r].key = k
                                /\ store'[k].response = Reply(201, r, {body[r].cols})
<1> DEFINE Kept == store[k] # None /\ store'[k].response = store[k].response
<1>0. Cache!TypeOK
  BY DEF IInv, RouterInv, RouterTypeOK
<1>1. UNCHANGED store => Kept
  OBVIOUS
<1>2. ASSUME NEW r \in Requests, CreateMiss(r) PROVE Kept
  BY <1>0, <1>2 DEF CreateMiss, Cache!Miss, Cache!TypeOK
<1>3. ASSUME NEW r \in Requests, CreateReturn(r)
      PROVE  Kept \/ (/\ CreateReturn(r) /\ body[r].key = k
                      /\ store'[k].response = Reply(201, r, {body[r].cols}))
  BY <1>0, <1>3 DEF CreateReturn, Cache!Set, Cache!TypeOK
<1>4. ASSUME NEW j \in Keys, Expire(j) PROVE Kept
  <2>1. store[j] \in Cache!Entries /\ store[j] # None
    BY <1>0, <1>4 DEF Expire, Cache!Expire, Cache!Hit, Cache!TypeOK
  <2>2. CASE k = j
    <3>1. store'[k] = [store[j] EXCEPT !.expired = TRUE]
      BY <1>0, <1>4, <2>2 DEF Expire, Cache!Expire, Cache!TypeOK
    <3> QED
      BY <2>1, <2>2, <3>1 DEF Cache!Entries
  <2>3. CASE k # j
    BY <1>0, <1>4, <2>3 DEF Expire, Cache!Expire, Cache!TypeOK
  <2> QED
    BY <2>2, <2>3
<1>5. ~Crash
  BY DEF Crash, Cache!Lost
<1>6. ASSUME NEW r \in Requests, Handle(r), ~CreateMiss(r), ~CreateReturn(r)
      PROVE  UNCHANGED store
  BY <1>6 DEF Handle, NotFound, CreateReplay, GetReturn, UpdateLoad, UpdateFlush,
     UpdateRefused, UpdateReturn, UpdateUnreadable, DeleteLoad, DeleteReturn, VersionsLoad,
     VersionsReturn, CommitCreate, CommitUpdate, DeleteVersion, DeleteAd, CommitDelete, Raises
<1>7. ASSUME NEW r \in Requests, RollsBack(r) PROVE UNCHANGED store
  BY <1>7 DEF RollsBack, Raises
<1>8. ASSUME NEW r \in Requests, NEW b \in Bodies, Send(r, b) PROVE UNCHANGED store
  BY <1>8 DEF Send
<1>9. Quiet \/ UNCHANGED vars => UNCHANGED store
  BY DEF Quiet, vars
<1> QED
  BY <1>1, <1>2, <1>3, <1>4, <1>5, <1>6, <1>7, <1>8, <1>9 DEF Next, Fail, Deadlock

\* Where an answer of success comes from.
LEMMA ReplyStep ==
  ASSUME IInv, [Next]_vars, NEW r \in Requests, reply'[r] # reply[r],
         reply'[r].status \in {200, 201}
  PROVE  \/ CreateReplay(r) /\ reply'[r] = store[body[r].key].response
         \/ CreateReturn(r) /\ reply'[r] = Reply(201, r, {body[r].cols})
         \/ (GetReturn(r) \/ UpdateReturn(r) \/ VersionsReturn(r)) /\ reply'[r].status = 200
<1>0. RouterTypeOK /\ reply \in [Requests -> Replies]
  BY DEF IInv, RouterInv, RouterTypeOK
<1>1. Handle(r)
  <2>1. ASSUME NEW q \in Requests, Handle(q) PROVE Handle(r)
    BY <1>0, <2>1, HandleMovesOne DEF Stays
  <2>2. ASSUME NEW q \in Requests, RollsBack(q) PROVE FALSE
    BY <1>0, <2>2 DEF RollsBack, Raises, Answers, Reply
  <2>3. ASSUME NEW q \in Requests, NEW b \in Bodies, Send(q, b) PROVE FALSE
    BY <2>3 DEF Send
  <2>4. ~Crash /\ ~Quiet /\ ~UNCHANGED vars /\ \A k \in Keys : ~Expire(k)
    BY DEF Crash, Quiet, vars, Expire
  <2> QED
    BY <2>1, <2>2, <2>3, <2>4 DEF Next, Fail, Deadlock
<1>2. ~NotFound(r) /\ ~UpdateRefused(r) /\ ~UpdateUnreadable(r) /\ ~DeleteReturn(r)
  BY <1>0 DEF NotFound, UpdateRefused, UpdateUnreadable, DeleteReturn, Raises, Answers, Reply
<1>3. /\ ~CreateMiss(r) /\ ~UpdateLoad(r) /\ ~UpdateFlush(r) /\ ~DeleteLoad(r)
      /\ ~VersionsLoad(r) /\ ~CommitCreate(r) /\ ~CommitUpdate(r)
      /\ (\A v \in AdIds : ~DeleteVersion(r, v)) /\ ~DeleteAd(r) /\ ~CommitDelete(r)
  BY DEF CreateMiss, UpdateLoad, UpdateFlush, DeleteLoad, VersionsLoad, CommitCreate,
     CommitUpdate, DeleteVersion, DeleteAd, CommitDelete
<1>4. CASE GetReturn(r) \/ UpdateReturn(r) \/ VersionsReturn(r)
  BY <1>0, <1>4 DEF GetReturn, UpdateReturn, VersionsReturn, Answers, Reply
<1>5. CASE CreateReplay(r) \/ CreateReturn(r)
  BY <1>0, <1>5 DEF CreateReplay, CreateReturn, Answers
<1> QED
  BY <1>1, <1>2, <1>3, <1>4, <1>5 DEF Handle

-----------------------------------------------------------------------------
(* Replays. *)

LEMMA CacheDescribesNext == ASSUME ReplayInv, [Next]_vars PROVE CacheDescribes'
<1> SUFFICES ASSUME NEW k \in Keys, store'[k] # None
             PROVE  Describes(store'[k].response, body') /\ body'[store'[k].response.ad].key = k
  BY DEF CacheDescribes
<1>0. IInv /\ RouterTypeOK
  BY DEF ReplayInv, IInv, RouterInv
<1>1. CASE store[k] # None /\ store'[k].response = store[k].response
  BY <1>0, <1>1, BodyStays DEF ReplayInv, CacheDescribes, Describes
<1>2. ASSUME NEW r \in Requests, CreateReturn(r), body[r].key = k,
             store'[k].response = Reply(201, r, {body[r].cols})
      PROVE  Describes(store'[k].response, body') /\ body'[store'[k].response.ad].key = k
  <2>1. body[r] # None /\ body[r].op = "create"
    BY <1>0, <1>2 DEF CreateReturn, At, RouterTypeOK
  <2>2. body'[r] = body[r]
    BY <1>0, <2>1, BodyStays
  <2> QED
    BY <1>2, <2>1, <2>2 DEF Describes, Reply
<1> QED
  BY <1>0, <1>1, <1>2, StoreStep

LEMMA FaithfulNext == ASSUME ReplayInv, [Next]_vars PROVE ReplayIsFaithful'
<1> SUFFICES ASSUME NEW r \in Requests, reply'[r].status = 201
             PROVE  /\ Describes(reply'[r], body')
                    /\ LET c == reply'[r].ad IN
                       c = r \/ (body'[r].key # None /\ body'[c].key = body'[r].key)
  BY DEF ReplayIsFaithful, Describes
<1>0. IInv /\ RouterTypeOK
  BY DEF ReplayInv, IInv, RouterInv
<1>1. CASE reply'[r] = reply[r]
  <2>1. pc[r] # "idle"
    BY <1>1 DEF ReplayInv, IInv, RouterInv, AnswersFit
  <2>2. body[r] # None /\ body'[r] = body[r]
    BY <1>0, <2>1, BodyStays DEF RouterTypeOK
  <2> QED
    BY <1>0, <1>1, <2>2, BodyStays DEF ReplayInv, ReplayIsFaithful, Describes
<1>2. CASE CreateReplay(r) /\ reply'[r] = store[body[r].key].response
  <2>1. body[r] \in Bodies /\ body[r] # None /\ body'[r] = body[r]
    BY <1>0, <1>2, BodyStays DEF CreateReplay, At, RouterTypeOK
  <2>2. body[r].key \in Keys /\ body[r].key # None /\ store[body[r].key] # None
    BY <1>2, <2>1, BodyShape DEF CreateReplay, At, Cache!Hit
  <2>3. Describes(reply'[r], body) /\ body[reply'[r].ad].key = body[r].key
    BY <1>2, <2>2 DEF ReplayInv, CacheDescribes
  <2> QED
    BY <1>0, <2>1, <2>2, <2>3, BodyStays DEF Describes
<1>3. CASE CreateReturn(r) /\ reply'[r] = Reply(201, r, {body[r].cols})
  <2>1. body[r] # None /\ body[r].op = "create" /\ body'[r] = body[r]
    BY <1>0, <1>3, BodyStays DEF CreateReturn, At, RouterTypeOK
  <2> QED
    BY <1>3, <2>1 DEF Describes, Reply
<1>4. \/ reply'[r] = reply[r]
      \/ CreateReplay(r) /\ reply'[r] = store[body[r].key].response
      \/ CreateReturn(r) /\ reply'[r] = Reply(201, r, {body[r].cols})
  BY <1>0, ReplyStep
<1> QED
  BY <1>1, <1>2, <1>3, <1>4

LEMMA ReplayInvariant == Spec => []ReplayInv
<1>1. Init => ReplayInv
  <2> SUFFICES ASSUME Init PROVE ReplayInv
    OBVIOUS
  <2>1. \A r \in Requests : reply[r].status = 0
    BY DEF Init, NoReply, Reply
  <2>2. \A k \in Keys : store[k] = None
    BY DEF Init, Cache!Init
  <2> QED
    BY <2>1, <2>2, InitIInv DEF ReplayInv, ReplayIsFaithful, CacheDescribes
<1>2. ReplayInv /\ [Next]_vars => ReplayInv'
  BY StepIInv, CacheDescribesNext, FaithfulNext DEF ReplayInv
<1> QED
  BY <1>1, <1>2, PTL DEF Spec

\* Whatever overlaps, fails, crashes or expires, a 201 tells of the ad that
\* this POST, or another with its key, asked for.
THEOREM ReplaysAreFaithful == Spec => []ReplayIsFaithful
<1>1. ReplayInv => ReplayIsFaithful
  BY DEF ReplayInv
<1> QED
  BY <1>1, ReplayInvariant, PTL

-----------------------------------------------------------------------------
(* Reads. *)

\* Whatever is true of what r was shown stays true as the tables go on.
Shown(r, a) ==
    LET had == {past[a][i] : i \in 1 .. Len(past[a])} IN
    /\ had # {}
    /\ body[r].op = "get" => reply[r].shown \subseteq had
    /\ body[r].op = "versions" => reply[r].shown \subseteq {Snap(c) : c \in had}
    /\ body[r].op = "update" => \E c \in had, F \in SUBSET DOMAIN body[r].cols :
                                  reply[r].shown = {Patched(c, body[r].cols, F)}
    /\ ads[a] # Gone => ads[a].owner = body[r].user

LEMMA ShownStays ==
  ASSUME IInv, [Next]_vars, NEW r \in Requests, NEW a \in AdIds, Shown(r, a),
         reply'[r] = reply[r], body'[r] = body[r]
  PROVE  Shown(r, a)'
<1> DEFINE had  == {past[a][i] : i \in 1 .. Len(past[a])}
           had1 == {past'[a][i] : i \in 1 .. Len(past'[a])}
<1>1. Grows(a)
  BY TablesGrow
<1>2. had \subseteq had1
  BY <1>1 DEF Grows
<1>3. past[a] # <<>> /\ past[a] \in Seq(Contents)
  <2>1. \E i \in 1 .. Len(past[a]) : TRUE
    BY DEF Shown
  <2> QED
    BY <2>1, Tables DEF IInv
<1>4. ads'[a] # Gone => ads'[a].owner = body[r].user
  BY <1>1, <1>3 DEF Grows, Shown
<1>5. {Snap(c) : c \in had} \subseteq {Snap(c) : c \in had1}
  BY <1>2
<1> QED
  BY <1>2, <1>4, <1>5 DEF Shown

LEMMA ReadsNext ==
  ASSUME ReadsInv, [Next]_vars, NEW r \in Requests, reply'[r].status = 200
  PROVE  body'[r].op # "create" /\ Shown(r, body[r].ad)'
<1> DEFINE a == body[r].ad
<1>0. IInv /\ RouterTypeOK /\ reply \in [Requests -> Replies]
  BY DEF ReadsInv, IInv, RouterInv, RouterTypeOK
<1>1. CASE reply'[r] = reply[r]
  <2>1. pc[r] # "idle" /\ body[r].op # "create"
    BY <1>1 DEF ReadsInv, ReadsNameAds, IInv, RouterInv, AnswersFit
  <2>2. body[r] \in Bodies /\ body'[r] = body[r]
    BY <1>0, <2>1, BodyStays DEF RouterTypeOK
  <2>3. a \in AdIds /\ Shown(r, a)
    BY <1>1, <2>1, <2>2, BodyShape, ZenonT(30) DEF ReadsInv, ReadsAreCommittedAndScoped, Shown
  <2> QED
    BY <1>0, <1>1, <2>1, <2>2, <2>3, ShownStays
<1>2. CASE reply'[r] # reply[r]
  <2>1. ~CreateReplay(r) /\ ~(CreateReturn(r) /\ reply'[r] = Reply(201, r, {body[r].cols}))
    <3>1. ASSUME CreateReplay(r) PROVE FALSE
      <4>1. body[r] \in Bodies /\ body[r].op = "create"
        BY <1>0, <3>1 DEF CreateReplay, At, RouterTypeOK
      <4>2. body[r].key \in Keys /\ store[body[r].key] # None
        BY <3>1, <4>1, BodyShape DEF CreateReplay, Cache!Hit
      <4> QED
        BY <1>0, <3>1, <4>2 DEF CreateReplay, Answers, IInv, RouterInv, AnswersFit
    <3> QED
      BY <3>1 DEF Reply
  <2>2. GetReturn(r) \/ UpdateReturn(r) \/ VersionsReturn(r)
    BY <1>0, <1>2, <2>1, ReplyStep
  <2>3. /\ body[r] \in Bodies /\ body'[r] = body[r] /\ UNCHANGED tables
        /\ body[r].op # "create"
    BY <1>0, <2>2, BodyStays
       DEF GetReturn, UpdateReturn, VersionsReturn, At, RouterTypeOK, db, tables
  <2>4. a \in AdIds
    BY <2>3, BodyShape
  <2>5. past[a] \in Seq(Contents) /\ past[a] # <<>>
        /\ (ads[a] # Gone => ads[a].owner = body[r].user)
    <3>1. CASE GetReturn(r)
      BY <1>0, <2>4, <3>1, Tables DEF GetReturn, Owns, IInv
    <3>2. CASE UpdateReturn(r) \/ VersionsReturn(r)
      BY <1>0, <2>3, <2>4, <3>2, Tables
         DEF UpdateReturn, VersionsReturn, At, IInv, RouterInv, OwnerChecked
    <3> QED
      BY <2>2, <3>1, <3>2
  <2>6. \E i \in 1 .. Len(past[a]) : TRUE
    BY <2>5
  <2>7. body[r].op = "get" => \E i \in 1 .. Len(past[a]) : reply'[r].shown = {past[a][i]}
    <3> SUFFICES ASSUME body[r].op = "get"
                 PROVE  \E i \in 1 .. Len(past[a]) : reply'[r].shown = {past[a][i]}
      OBVIOUS
    <3>1. GetReturn(r)
      BY <2>2 DEF UpdateReturn, VersionsReturn, At
    <3>2. reply'[r].shown = {ads[a].cols} /\ ads[a] # Gone
      BY <1>0, <3>1 DEF GetReturn, Answers, Reply, Owns
    <3>3. past[a][Len(past[a])] = ads[a].cols
      BY <1>0, <2>4, <3>2, Tables DEF IInv
    <3> QED
      BY <2>5, <3>2, <3>3
  <2>8. body[r].op = "versions" =>
          \A s \in reply'[r].shown : \E i \in 1 .. Len(past[a]) : s = Snap(past[a][i])
    <3> SUFFICES ASSUME body[r].op = "versions", NEW s \in reply'[r].shown
                 PROVE  \E i \in 1 .. Len(past[a]) : s = Snap(past[a][i])
      OBVIOUS
    <3>1. VersionsReturn(r)
      BY <2>2 DEF UpdateReturn, GetReturn, At
    <3>2. reply'[r].shown = {v.snap : v \in {w \in versions : w.ad = a}}
      BY <1>0, <3>1 DEF VersionsReturn, Answers, Reply
    <3>3. PICK v \in versions : v.ad = a /\ s = v.snap
      BY <3>2
    <3> QED
      BY <1>0, <3>3 DEF IInv, Facts!HistoryInv, Facts!NoPhantomVersions, Facts!WasContent,
         Facts!Snap, Snap, Facts!Snapped, Snapped
  <2>9. body[r].op = "update" =>
           \E i \in 1 .. Len(past[a]), F \in SUBSET DOMAIN body[r].cols :
              reply'[r].shown = {Patched(past[a][i], body[r].cols, F)}
    <3> SUFFICES ASSUME body[r].op = "update"
                 PROVE  \E i \in 1 .. Len(past[a]), F \in SUBSET DOMAIN body[r].cols :
                           reply'[r].shown = {Patched(past[a][i], body[r].cols, F)}
      OBVIOUS
    <3>1. UpdateReturn(r)
      BY <2>2 DEF GetReturn, VersionsReturn, At
    <3>2. reply'[r].shown = {OwnView(r)} /\ Editing(r, {"flushed", "replied"})
      BY <1>0, <3>1 DEF UpdateReturn, Answers, Reply, At, Editing
    <3>3. ads[a] # Gone
      BY <1>0, <3>2 DEF IInv, RouterInv, HeldRowsLive
    <3>4. past[a][Len(past[a])] = ads[a].cols /\ Len(past[a]) \in 1 .. Len(past[a])
      BY <1>0, <2>4, <2>5, <3>3, Tables DEF IInv
    <3>5. reply'[r].shown = {Patched(past[a][Len(past[a])], body[r].cols, Dirty(r))}
      BY <3>2, <3>4 DEF OwnView
    <3>6. Dirty(r) \in SUBSET DOMAIN body[r].cols
      BY DEF Dirty
    <3>7. Len(past[a]) \in 1 .. Len(past[a])
      BY <3>4
    <3> WITNESS Len(past[a]) \in 1 .. Len(past[a]), Dirty(r) \in SUBSET DOMAIN body[r].cols
    <3> QED
      BY <3>5
  <2>10. past' = past /\ ads' = ads
    BY <2>3 DEF tables
  <2> DEFINE had == {past[a][i] : i \in 1 .. Len(past[a])}
  <2>11. \A i \in 1 .. Len(past[a]) : past[a][i] \in had
    OBVIOUS
  <2>12. had # {}
    BY <2>6, <2>11
  <2>13. body[r].op = "get" => reply'[r].shown \subseteq had
    BY <2>7, <2>11
  <2>14. body[r].op = "versions" => reply'[r].shown \subseteq {Snap(c) : c \in had}
    <3> HIDE DEF had
    <3> SUFFICES ASSUME body[r].op = "versions", NEW s \in reply'[r].shown
                 PROVE  \E c \in had : s = Snap(c)
      OBVIOUS
    <3>1. PICK i \in 1 .. Len(past[a]) : s = Snap(past[a][i])
      BY <2>8
    <3> QED
      BY <2>11, <3>1
  <2>15. body[r].op = "update" => \E c \in had, F \in SUBSET DOMAIN body[r].cols :
                                     reply'[r].shown = {Patched(c, body[r].cols, F)}
    <3> HIDE DEF had
    <3> SUFFICES ASSUME body[r].op = "update"
                 PROVE  \E c \in had, F \in SUBSET DOMAIN body[r].cols :
                           reply'[r].shown = {Patched(c, body[r].cols, F)}
      OBVIOUS
    <3>1. PICK i \in 1 .. Len(past[a]), F \in SUBSET DOMAIN body[r].cols :
             reply'[r].shown = {Patched(past[a][i], body[r].cols, F)}
      BY <2>9
    <3>2. past[a][i] \in had
      BY <2>11
    <3> WITNESS past[a][i] \in had, F \in SUBSET DOMAIN body[r].cols
    <3> QED
      BY <3>1
  <2>16. body'[r].ad = a
    BY <2>3
  <2>17. had = {past'[body'[r].ad][i] : i \in 1 .. Len(past'[body'[r].ad])}
    BY <2>10, <2>16
  <2>18. ads'[body'[r].ad] # Gone => ads'[body'[r].ad].owner = body'[r].user
    BY <2>3, <2>5, <2>10, <2>16
  <2> HIDE DEF had
  <2>19. /\ body'[r].op = "get" => reply'[r].shown \subseteq had
         /\ body'[r].op = "versions" => reply'[r].shown \subseteq {Snap(c) : c \in had}
         /\ body'[r].op = "update" => \E c \in had, F \in SUBSET DOMAIN body'[r].cols :
                                        reply'[r].shown = {Patched(c, body'[r].cols, F)}
    BY <2>3, <2>13, <2>14, <2>15
  <2>20. Shown(r, body[r].ad)'
    BY <2>12, <2>17, <2>18, <2>19 DEF Shown
  <2> QED
    BY <2>3, <2>20
<1> QED
  BY <1>1, <1>2

\* What a 200 shows was committed, save for columns of the caller's own patch,
\* and was the caller's to see (201s are ReplaysAreFaithful's).
THEOREM ReadsAreSound == Spec => []ReadsAreCommittedAndScoped
<1>1. Init => ReadsInv
  <2> SUFFICES ASSUME Init PROVE ReadsInv
    OBVIOUS
  <2>1. \A r \in Requests : reply[r].status = 0
    BY DEF Init, NoReply, Reply
  <2> QED
    BY <2>1, InitIInv DEF ReadsInv, ReadsNameAds, ReadsAreCommittedAndScoped
<1>2. ReadsInv /\ [Next]_vars => ReadsInv'
  <2> SUFFICES ASSUME ReadsInv, [Next]_vars PROVE ReadsInv'
    OBVIOUS
  <2>1. IInv'
    BY StepIInv DEF ReadsInv
  <2>2. ReadsNameAds'
    BY ReadsNext DEF ReadsNameAds
  <2>3. (\A r \in Requests : reply[r].status = 200 => Shown(r, body[r].ad))'
    BY ReadsNext
  <2>4. ReadsAreCommittedAndScoped'
    BY <2>3 DEF ReadsAreCommittedAndScoped, Shown
  <2> QED
    BY <2>1, <2>2, <2>4 DEF ReadsInv
<1>3. ReadsInv => ReadsAreCommittedAndScoped
  BY DEF ReadsInv
<1> QED
  BY <1>1, <1>2, <1>3, PTL DEF Spec
-----------------------------------------------------------------------------
(* PUTs of one ad that take turns. *)

\* What a PUT has loaded is what is there until it commits, or nothing is.
SeenIsCurrent ==
    \A r \in Requests : Editing(r, {"loaded", "flushed", "replied"}) =>
        ads[body[r].ad] = Gone \/ seen[r] = ads[body[r].ad].cols

LEMMA SeenIsCurrentNext ==
  ASSUME IInv, EditsTakeTurns, SeenIsCurrent, [Next]_vars
  PROVE  SeenIsCurrent'
<1> SUFFICES ASSUME NEW q \in Requests, Editing(q, {"loaded", "flushed", "replied"})',
                    ads'[body'[q].ad] # Gone
             PROVE  seen'[q] = ads'[body'[q].ad].cols
  BY DEF SeenIsCurrent
<1> DEFINE a == body[q].ad
<1>0. RouterTypeOK
  BY DEF IInv, RouterInv
<1>1. /\ body'[q] = body[q]
      /\ \/ UpdateLoad(q)
         \/ Editing(q, {"loaded", "flushed", "replied"}) /\ seen'[q] = seen[q]
  BY <1>0, EditingGoes DEF Stays, Editing
<1>2. CASE UpdateLoad(q)
  BY <1>0, <1>1, <1>2 DEF UpdateLoad, Owns, RouterTypeOK, db
<1>3. CASE Editing(q, {"loaded", "flushed", "replied"}) /\ seen'[q] = seen[q]
  <2>1. past[a] # <<>> /\ a \in AdIds
    BY <1>0, <1>3, BodyShape, Tables
       DEF IInv, RouterInv, OwnerChecked, Editing, Answered, RouterTypeOK
  <2>2. ads[a] # Gone
    BY <1>1, <2>1, TablesGrow DEF Grows
  <2>3. ads'[a] = ads[a]
    <3> SUFFICES ASSUME ads'[a] # ads[a] PROVE FALSE
      OBVIOUS
    <3>1. PICK r \in Requests : /\ CommitUpdate(r) \/ CommitDelete(r)
                                /\ body[r].ad = a
      BY <2>1, <2>2, WhoChanges
    <3>2. ~CommitDelete(r)
      BY <1>0, <1>1, <2>1, <3>1, Tables DEF CommitDelete, IInv
    <3>3. CommitUpdate(r) /\ At(r, "replied", "update")
      BY <3>1, <3>2 DEF CommitUpdate
    <3>4. q = r
      BY <1>3, <3>1, <3>3 DEF EditsTakeTurns, Editing, At
    <3>5. pc'[q] = "committed"
      BY <1>0, <3>3, <3>4 DEF CommitUpdate, Moves, RouterTypeOK
    <3> QED
      BY <3>5 DEF Editing
  <2> QED
    BY <1>1, <1>3, <2>2, <2>3 DEF SeenIsCurrent
<1> QED
  BY <1>1, <1>2, <1>3

\* The invariant of the edits that take turns.
LEMMA TurnsSeeCurrent == Spec /\ []EditsTakeTurns => []SeenIsCurrent
<1>1. Init => SeenIsCurrent
  BY DEF Init, SeenIsCurrent, Editing
<1>2. IInv /\ EditsTakeTurns /\ SeenIsCurrent /\ [Next]_vars => SeenIsCurrent'
  BY SeenIsCurrentNext
<1> QED
  BY <1>1, <1>2, Invariant, PTL DEF Spec

LEMMA StrictlyImplements ==
  ASSUME IInv, SeenIsCurrent, [Next]_vars
  PROVE  [Facts!StrictNext]_(Facts!hvars)
<1>1. CASE UNCHANGED tables
  BY <1>1 DEF tables, Facts!hvars
<1>2. ASSUME NEW r \in Requests, CommitCreate(r) PROVE Facts!StrictNext
  <2> DEFINE row == [owner |-> body[r].user, cols |-> body[r].cols]
  <2>1. body[r] \in Bodies /\ body[r].op = "create" /\ pc[r] = "replied"
    BY <1>2 DEF CommitCreate, At, IInv, RouterInv, RouterTypeOK
  <2>2. row \in Facts!Rows /\ r \in AdIds
    BY <2>1, BodyShape DEF Facts!Rows, AdIds
  <2>3. past[r] = <<>>
    BY <2>1 DEF IInv, RouterInv, Fresh
  <2>4. Facts!Insert(r, row)
    BY <1>2, <2>3 DEF CommitCreate, Facts!Insert, Facts!Version, Version, Facts!Snap, Snap,
                Facts!Snapped, Snapped
  <2> QED
    BY <2>2, <2>4 DEF Facts!StrictNext
<1>3. ASSUME NEW r \in Requests, CommitUpdate(r) PROVE Facts!StrictNext
  <2> DEFINE a == body[r].ad
  <2>1. Editing(r, {"replied"}) /\ Editing(r, {"flushed", "replied"})
        /\ Editing(r, {"loaded", "flushed", "replied"}) /\ Editing(r, Stages \ {"idle"})
    BY <1>3 DEF CommitUpdate, At, Editing, Stages
  <2>2. ads[a] # Gone /\ ~NullsRequired(body[r].cols) /\ seen[r] = ads[a].cols
    BY <2>1 DEF IInv, RouterInv, HeldRowsLive, PendingIsLegal, SeenIsCurrent
  <2>3. a \in AdIds /\ OwnView(r) \in Contents
    BY <2>1, <2>2, OwnViewType DEF IInv, RouterInv
  <2>4. \A v \in versions : v.by # r
    BY <1>3 DEF IInv, RouterInv, Fresh, CommitUpdate, At
  <2>5. Facts!Edit(a, r, OwnView(r), ads[a].cols)
    BY <1>3, <2>2, <2>4 DEF CommitUpdate, Facts!Edit, Facts!Live, Facts!Version, Version,
                Facts!Snap, Snap, Facts!Snapped, Snapped
  <2> QED
    BY <2>3, <2>5 DEF Facts!StrictNext, AdIds
<1>4. ASSUME NEW r \in Requests, CommitDelete(r) PROVE [Facts!StrictNext]_(Facts!hvars)
  <2>1. body[r].ad \in AdIds
    BY <1>4, BodyShape DEF CommitDelete, At, IInv, RouterInv, RouterTypeOK
  <2>2. CASE ads[body[r].ad] # Gone
    BY <1>4, <2>1, <2>2 DEF CommitDelete, Facts!StrictNext, Facts!Remove, Facts!Live
  <2>3. CASE ads[body[r].ad] = Gone
    <3>1. ads' = ads /\ past' = past
      BY <1>4, <2>1, <2>3, Tables DEF CommitDelete, IInv
    <3>2. versions' = versions
      BY <1>4, <2>3, Tables DEF CommitDelete, IInv
    <3> QED
      BY <3>1, <3>2 DEF Facts!hvars
  <2> QED
    BY <2>2, <2>3
<1> QED
  BY <1>1, <1>2, <1>3, <1>4, OnlyCommitsWrite

LEMMA SameStrictSteps == History!StrictNext <=> Facts!StrictNext
<1>1. ASSUME NEW a, NEW row PROVE History!Insert(a, row) <=> Facts!Insert(a, row)
  BY DEF History!Insert, Facts!Insert, History!Version, Facts!Version, History!Snap,
         Facts!Snap, History!Snapped, Facts!Snapped
<1>2. ASSUME NEW a, NEW by, NEW cols, NEW old
      PROVE  History!Edit(a, by, cols, old) <=> Facts!Edit(a, by, cols, old)
  BY DEF History!Edit, Facts!Edit, History!Live, Facts!Live, History!Version,
         Facts!Version, History!Snap, Facts!Snap, History!Snapped, Facts!Snapped
<1> QED
  BY <1>1, <1>2 DEF History!StrictNext, Facts!StrictNext, History!Remove, Facts!Remove,
                    History!Live, Facts!Live, History!Rows, Facts!Rows

\* PUTs of one ad that take turns do to the tables what the docstring says,
\* whatever else overlaps: each edit records the very state that it replaces.
THEOREM TurnsAreStrict == Spec /\ []EditsTakeTurns => ImplementsStrictHistory
<1>1. IInv /\ SeenIsCurrent /\ [Next]_vars => [History!StrictNext]_(History!hvars)
  BY StrictlyImplements, SameStrictSteps, SameHistory DEF History!hvars, Facts!hvars
<1> QED
  BY <1>1, Invariant, TurnsSeeCurrent, InitHistory, PTL
     DEF Spec, ImplementsStrictHistory, History!StrictSpec

LEMMA SamePriorState == PriorStateRecorded <=> Facts!PriorStateRecorded
  BY DEF PriorStateRecorded, History!PriorStateRecorded, Facts!PriorStateRecorded,
         History!Live, Facts!Live, History!Snap, Facts!Snap, History!Snapped, Facts!Snapped

\* So nothing that an ad has been is lost to its versions.
THEOREM TurnsLoseNothing == Spec /\ []EditsTakeTurns => []PriorStateRecorded
<1>1. Init => Facts!PriorStateRecorded
  <2> SUFFICES ASSUME Init, NEW a \in AdIds, ads[a] # Gone
               PROVE  1 .. Len(past[a]) - 1 = {}
    BY DEF Facts!PriorStateRecorded, Facts!Live
  <2>1. past[a] = <<ads[a].cols>>
    BY InitHistory DEF History!Init, History!Live
  <2> QED
    BY <2>1
<1>2. IInv /\ SeenIsCurrent /\ Facts!PriorStateRecorded /\ [Next]_vars
      => Facts!PriorStateRecorded'
  <2> SUFFICES ASSUME IInv, SeenIsCurrent, Facts!PriorStateRecorded, [Next]_vars
               PROVE  Facts!PriorStateRecorded'
    OBVIOUS
  <2>1. [Facts!StrictNext]_(Facts!hvars) /\ Facts!HistoryInv
    BY StrictlyImplements DEF IInv
  <2> QED
    BY <2>1, Facts!StrictStep, SchemaAssumption
       DEF Facts!Rows, Rows, Facts!Columns, Columns, Facts!Required, Required,
           Facts!Fields, Fields
<1> QED
  BY <1>1, <1>2, Invariant, TurnsSeeCurrent, SamePriorState, PTL DEF Spec

\* A request that has been answered 200 has nothing more to be answered.
LEMMA EchoNext ==
  ASSUME IInv, SeenIsCurrent, PatchEchoed, [Next]_vars
  PROVE  PatchEchoed'
<1> SUFFICES ASSUME NEW r \in Requests, body'[r] # None, reply'[r].status = 200,
                    body'[r].op = "update",
                    NEW c \in reply'[r].shown, NEW f \in DOMAIN body'[r].cols
             PROVE  c[f] = body'[r].cols[f]
  BY DEF PatchEchoed
<1>0. RouterTypeOK /\ reply \in [Requests -> Replies]
  BY DEF IInv, RouterInv, RouterTypeOK
<1>1. CASE reply'[r] = reply[r]
  <2>1. pc[r] # "idle"
    BY <1>0, <1>1 DEF IInv, RouterInv, AnswersFit
  <2>2. body[r] # None /\ body'[r] = body[r]
    BY <1>0, <2>1, BodyStays DEF RouterTypeOK
  <2> QED
    BY <1>1, <2>2 DEF PatchEchoed
<1>2. CASE reply'[r] # reply[r]
  <2>1. \/ CreateReplay(r) \/ CreateReturn(r)
        \/ GetReturn(r) \/ UpdateReturn(r) \/ VersionsReturn(r)
    BY <1>0, <1>2, ReplyStep
  <2>2. body[r] \in Bodies /\ body'[r] = body[r]
    BY <1>0, <2>1, BodyStays DEF CreateReplay, CreateReturn, GetReturn, UpdateReturn,
       VersionsReturn, At, RouterTypeOK
  <2>3. UpdateReturn(r)
    BY <2>1, <2>2 DEF CreateReplay, CreateReturn, GetReturn, VersionsReturn, At
  <2>4. c = OwnView(r)
    BY <1>0, <2>3 DEF UpdateReturn, Answers, Reply
  <2>5. seen[r] = ads[body[r].ad].cols
    BY <2>3 DEF IInv, RouterInv, HeldRowsLive, SeenIsCurrent, Editing, UpdateReturn, At
  <2>6. f \in Fields
    BY <2>2, BodyShape
  <2>7. c[f] = IF f \in Dirty(r) THEN body[r].cols[f] ELSE seen[r][f]
    BY <2>4, <2>5, <2>6 DEF OwnView, Patched
  <2> QED
    BY <2>2, <2>7 DEF Dirty
<1> QED
  BY <1>1, <1>2

\* A PUT's answer shows what it asked for.
THEOREM TurnsEcho == Spec /\ []EditsTakeTurns => []PatchEchoed
<1>1. Init => PatchEchoed
  BY DEF Init, PatchEchoed
<1>2. IInv /\ SeenIsCurrent /\ PatchEchoed /\ [Next]_vars => PatchEchoed'
  BY EchoNext
<1> QED
  BY <1>1, <1>2, Invariant, TurnsSeeCurrent, PTL DEF Spec
-----------------------------------------------------------------------------
(* One ad per key, while the cache is not lost and nothing in it expires. *)

\* A POST with a key that nobody has answered yet, ...
Posting(r, stages) == pc[r] \in stages /\ body[r].op = "create" /\ body[r].key # None

\* ... finds none in the cache; one that has been answered is there, alone.
KeysTaken ==
    \A r \in Requests :
        /\ Posting(r, {"missed"}) => store[body[r].key] = None
        /\ Posting(r, {"replied", "committed"}) =>
              /\ Cache!Hit(body[r].key)
              /\ \A q \in Requests :
                    Posting(q, {"replied", "committed"}) /\ body[q].key = body[r].key => q = r

\* Only a POST that has committed leaves an ad of its own.
OwnAds == \A r \in Requests : past[r] # <<>> => At(r, "committed", "create")

LEMMA OwnAdsNext == ASSUME IInv, OwnAds, [Next]_vars PROVE OwnAds'
<1> SUFFICES ASSUME NEW q \in Requests, past'[q] # <<>>
             PROVE  At(q, "committed", "create")'
  BY DEF OwnAds
<1>0. RouterTypeOK /\ q \in AdIds
  BY DEF IInv, RouterInv, AdIds
<1>1. CASE past[q] # <<>>
  <2>1. pc[q] = "committed" /\ body[q] # None /\ body[q].op = "create"
    BY <1>0, <1>1 DEF OwnAds, At, RouterTypeOK
  <2>2. body'[q] = body[q]
    BY <1>0, <2>1, BodyStays
  <2>3. pc'[q] = "committed"
    BY <1>0, <1>1, TablesGrow, FreshNext DEF Grows, Fresh
  <2> QED
    BY <2>1, <2>2, <2>3 DEF At
<1>2. CASE past[q] = <<>>
  <2>1. ~UNCHANGED tables
    BY <1>2 DEF tables
  <2>2. ASSUME NEW r \in Requests, CommitCreate(r) PROVE At(q, "committed", "create")'
    BY <1>0, <1>2, <2>2, Tables DEF CommitCreate, At, Moves, IInv, RouterTypeOK
  <2>3. ASSUME NEW r \in Requests, CommitUpdate(r) PROVE FALSE
    <3>1. past[body[r].ad] # <<>>
      BY <2>3, CommitUpdateEdits, Tables DEF IInv
    <3> QED
      BY <1>0, <1>2, <2>3, <3>1, Tables DEF CommitUpdate, IInv
  <2>4. ASSUME NEW r \in Requests, CommitDelete(r) PROVE FALSE
    BY <1>2, <2>4 DEF CommitDelete
  <2> QED
    BY <2>1, <2>2, <2>3, <2>4, OnlyCommitsWrite
<1> QED
  BY <1>1, <1>2

LEMMA EntryIsNoNone ==
  ASSUME RouterTypeOK, NEW r \in Requests, CreateReturn(r)
  PROVE  LET entry == [expired |-> FALSE, response |-> Reply(201, r, {body[r].cols})]
         IN  entry # None /\ ~entry.expired
<1> DEFINE answer == Reply(201, r, {body[r].cols})
<1>1. body[r] \in Bodies /\ body[r].op = "create"
  BY DEF CreateReturn, At, RouterTypeOK
<1>2. r \in AdIds \cup {None} /\ {body[r].cols} \in SUBSET (Columns \cup Snaps)
  BY <1>1, BodyShape, ContentIsLegal DEF AdIds
<1>3. answer \in Replies
  BY <1>2, ReplyType
<1> HIDE DEF answer
<1>4. [expired |-> FALSE, response |-> answer] \in Cache!Entries
  BY <1>3 DEF Cache!Entries
<1>5. [expired |-> FALSE, response |-> answer] # None
  BY <1>4, NoneIsNoEntry DEF NoneIsNoEntry
<1> QED
  BY <1>5 DEF answer

LEMMA HitStays ==
  ASSUME ~Crashes, ~Expiry, RouterTypeOK, [Next]_vars, NEW k \in Keys, Cache!Hit(k)
  PROVE  Cache!Hit(k)'
<1>0. Cache!TypeOK
  BY DEF RouterTypeOK
<1>1. UNCHANGED store => Cache!Hit(k)'
  BY DEF Cache!Hit
<1>2. ASSUME NEW r \in Requests, CreateMiss(r) PROVE Cache!Hit(k)'
  BY <1>0, <1>1, <1>2 DEF CreateMiss, Cache!Miss, Cache!Hit, Cache!TypeOK
<1>3. ASSUME NEW r \in Requests, CreateReturn(r) PROVE Cache!Hit(k)'
  <2> DEFINE entry == [expired |-> FALSE, response |-> Reply(201, r, {body[r].cols})]
  <2>1. body[r] \in Bodies /\ body[r].op = "create"
    BY <1>3 DEF CreateReturn, At, RouterTypeOK
  <2>2. CASE body[r].key = None
    BY <1>1, <1>3, <2>2 DEF CreateReturn
  <2>3. CASE body[r].key # None
    <3>1. body[r].key \in Keys /\ store' = [store EXCEPT ![body[r].key] = entry]
      BY <1>3, <2>1, <2>3, BodyShape DEF CreateReturn, Cache!Set
    <3>2. entry # None /\ ~entry.expired
      BY <1>3, EntryIsNoNone
    <3> HIDE DEF entry
    <3> QED
      BY <1>0, <3>1, <3>2 DEF Cache!Hit, Cache!TypeOK
  <2> QED
    BY <2>2, <2>3
<1>4. ~Crash /\ \A j \in Keys : ~Expire(j)
  BY DEF Crash, Expire
<1>5. ASSUME NEW r \in Requests, Handle(r), ~CreateMiss(r), ~CreateReturn(r)
      PROVE  UNCHANGED store
  BY <1>5 DEF Handle, NotFound, CreateReplay, GetReturn, UpdateLoad, UpdateFlush,
     UpdateRefused, UpdateReturn, UpdateUnreadable, DeleteLoad, DeleteReturn, VersionsLoad,
     VersionsReturn, CommitCreate, CommitUpdate, DeleteVersion, DeleteAd, CommitDelete, Raises
<1>6. ASSUME NEW r \in Requests, RollsBack(r) PROVE UNCHANGED store
  BY <1>6 DEF RollsBack, Raises
<1>7. ASSUME NEW r \in Requests, NEW b \in Bodies, Send(r, b) PROVE UNCHANGED store
  BY <1>7 DEF Send
<1>8. Quiet \/ UNCHANGED vars => UNCHANGED store
  BY DEF Quiet, vars
<1> QED
  BY <1>1, <1>2, <1>3, <1>4, <1>5, <1>6, <1>7, <1>8 DEF Next, Fail, Deadlock

LEMMA PostingGoes ==
  ASSUME RouterTypeOK, [Next]_vars, NEW q \in Requests,
         Posting(q, {"missed", "replied", "committed"})'
  PROVE  /\ body'[q] = body[q] /\ body[q] \in Bodies /\ body[q].key \in Keys
         /\ \/ Stays(q) /\ Posting(q, {pc'[q]})
            \/ CreateMiss(q) /\ pc'[q] = "missed"
            \/ CreateReturn(q) /\ pc'[q] = "replied"
            \/ Posting(q, {"replied"}) /\ pc'[q] = "committed"
<1>1. /\ body'[q] = body[q] /\ body[q] \in Bodies
      /\ \/ Stays(q)
         \/ CreateMiss(q) /\ pc'[q] = "missed"
         \/ CreateReturn(q) /\ pc'[q] = "replied"
         \/ pc[q] = "replied" /\ pc'[q] = "committed"
  <2>1. CASE Stays(q)
    BY <2>1 DEF Stays, Posting, RouterTypeOK
  <2>2. CASE Handle(q)
    BY <2>2, HandleGoes DEF Posting, UpdateReturn, DeleteReturn, CommitCreate, CommitUpdate,
       DeleteVersion, DeleteAd, CommitDelete, At
  <2>3. CASE Ends(q) \/ RollsBack(q) \/ \E b \in Bodies : Send(q, b)
    BY <2>3, RollbackEnds, SendReceives DEF Ends, Posting
  <2> QED
    BY <2>1, <2>2, <2>3, StaysOrMoves
<1>2. body[q].op = "create" /\ body[q].key # None
  BY <1>1 DEF Posting
<1>3. body[q].key \in Keys
  BY <1>1, <1>2, BodyShape
<1> QED
  BY <1>1, <1>2, <1>3 DEF Posting, Stays

LEMMA KeysTakenNext ==
  ASSUME ~Crashes, ~Expiry, IInv, RetriesWait, KeysTaken, [Next]_vars
  PROVE  KeysTaken'
<1>0. RouterTypeOK /\ Cache!TypeOK
  BY DEF IInv, RouterInv, RouterTypeOK
<1>1. ASSUME NEW r \in Requests, Posting(r, {"missed"})'
      PROVE  store'[body'[r].key] = None
  <2> DEFINE k == body[r].key
  <2>1. /\ body'[r] = body[r] /\ k \in Keys /\ k # None
        /\ (Stays(r) /\ Posting(r, {"missed"})) \/ CreateMiss(r)
    BY <1>0, <1>1, PostingGoes DEF Posting, CreateReturn
  <2>2. CASE CreateMiss(r)
    BY <1>0, <2>1, <2>2 DEF CreateMiss, Cache!Miss, Cache!TypeOK
  <2>3. CASE Stays(r) /\ Posting(r, {"missed"})
    <3>1. store[k] = None
      BY <2>3 DEF KeysTaken, Posting
    <3>2. ASSUME NEW s \in Requests, CreateReturn(s), body[s].key = k PROVE FALSE
      <4>1. At(s, "missed", "create") /\ At(r, "missed", "create")
        BY <2>3, <3>2 DEF CreateReturn, Posting, At
      <4>2. s = r
        BY <2>1, <3>2, <4>1 DEF RetriesWait
      <4> QED
        BY <1>0, <2>3, <3>2, <4>2
           DEF CreateReturn, Answers, Moves, Stays, Posting, RouterTypeOK
    <3> QED
      BY <2>1, <3>1, <3>2, StoreStep
  <2> QED
    BY <2>1, <2>2, <2>3
<1>2. ASSUME NEW r \in Requests, Posting(r, {"replied", "committed"})'
      PROVE  /\ body'[r] = body[r] /\ body[r].key \in Keys
             /\ Posting(r, {"replied", "committed"}) \/ CreateReturn(r)
  BY <1>0, <1>2, PostingGoes DEF Posting, CreateMiss
<1>3. ASSUME NEW r \in Requests, CreateReturn(r), body[r].key \in Keys, body[r].key # None
      PROVE  /\ Cache!Hit(body[r].key)'
             /\ \A q \in Requests :
                   Posting(q, {"replied", "committed"}) => body[q].key # body[r].key
             /\ \A q \in Requests : CreateReturn(q) /\ body[q].key = body[r].key => q = r
  <2>1. Posting(r, {"missed"})
    BY <1>3 DEF CreateReturn, At, Posting
  <2>2. store[body[r].key] = None
    BY <2>1 DEF KeysTaken
  <2>3. \A q \in Requests : CreateReturn(q) /\ body[q].key = body[r].key => q = r
    BY <1>3 DEF CreateReturn, RetriesWait
  <2>4. Cache!Hit(body[r].key)'
    <3> DEFINE k == body[r].key
               entry == [expired |-> FALSE, response |-> Reply(201, r, {body[r].cols})]
    <3>1. store' = [store EXCEPT ![k] = entry] /\ body' = body
      BY <1>3 DEF CreateReturn, Cache!Set, Answers, Moves
    <3>2. entry # None /\ ~entry.expired
      BY <1>0, <1>3, EntryIsNoNone
    <3> HIDE DEF entry
    <3>3. store'[k] # None /\ ~store'[k].expired
      BY <1>0, <1>3, <3>1, <3>2 DEF Cache!TypeOK
    <3> QED
      BY <3>1, <3>3 DEF Cache!Hit
  <2> QED
    BY <2>2, <2>3, <2>4 DEF KeysTaken, Cache!Hit
<1>4. ASSUME NEW r \in Requests, Posting(r, {"replied", "committed"})'
      PROVE  Cache!Hit(body[r].key)'
  <2>1. CASE Posting(r, {"replied", "committed"})
    <3>1. Cache!Hit(body[r].key) /\ body'[r] = body[r] /\ body[r].key \in Keys
      BY <1>2, <1>4, <2>1 DEF KeysTaken
    <3> DEFINE k == body[r].key
    <3>2. \A j \in Keys : Cache!Hit(j) => store'[j] # None /\ ~store'[j].expired
      BY <1>0, HitStays DEF Cache!Hit
    <3> QED
      BY <3>1, <3>2 DEF Cache!Hit
  <2>2. CASE CreateReturn(r)
    BY <1>2, <1>3, <1>4, <2>2 DEF Posting
  <2> QED
    BY <1>2, <1>4, <2>1, <2>2
<1>5. ASSUME NEW r \in Requests, Posting(r, {"replied", "committed"})',
             NEW q \in Requests, Posting(q, {"replied", "committed"})',
             body'[q].key = body'[r].key
      PROVE  q = r
  <2>1. body[q].key = body[r].key /\ body[r].key # None
    BY <1>2, <1>5 DEF Posting
  <2> QED
    BY <1>2, <1>3, <1>5, <2>1 DEF KeysTaken
<1> QED
  BY <1>1, <1>4, <1>5 DEF KeysTaken

\* "retries do not create duplicate ads": as long as a retry does not look its
\* key up before the first POST has stored it.
THEOREM TurnsKeepKeys ==
  ASSUME ~Crashes, ~Expiry
  PROVE  Spec /\ []RetriesWait => []OneAdPerKey
<1>1. Init => KeysTaken /\ OwnAds
  BY RouterAssumption DEF Init, KeysTaken, OwnAds, Posting, AdIds
<1>2. IInv /\ RetriesWait /\ KeysTaken /\ OwnAds /\ [Next]_vars => KeysTaken' /\ OwnAds'
  BY KeysTakenNext, OwnAdsNext
<1>3. KeysTaken /\ OwnAds => OneAdPerKey
  BY DEF KeysTaken, OwnAds, OneAdPerKey, Posting, At
<1> QED
  BY <1>1, <1>2, <1>3, Invariant, PTL DEF Spec
-----------------------------------------------------------------------------
(* Created ads are found. *)

\* A request that names a created ad names the request that created it.
AsksForCreated ==
    \A r \in Requests :
        body[r] # None /\ body[r].op # "create" /\ body[r].ad \in Requests =>
            body[body[r].ad] # None /\ body[body[r].ad].op = "create"

\* An ad that has gone was asked to be deleted.
GoneByDelete ==
    \A a \in AdIds : past[a] # <<>> /\ ads[a] = Gone =>
        \E d \in Requests : body[d] # None /\ body[d].op = "delete" /\ body[d].ad = a

\* A POST that committed has its ad, which is its user's.
CommittedIsThere ==
    \A c \in Requests : At(c, "committed", "create") =>
        past[c] # <<>> /\ (ads[c] # Gone => ads[c].owner = body[c].user)

\* Only requests that name an ad are answered 404.
NotFoundNames == \A r \in Requests : reply[r].status = 404 => body[r].op # "create"

LEMMA SettledStays ==
  ASSUME RouterTypeOK, [Next]_vars, NEW c \in Requests, pc[c] \in Settled
  PROVE  pc'[c] = pc[c] /\ body'[c] = body[c]
<1>0. pc \in [Requests -> Stages] /\ c \notin InFlight
  BY DEF RouterTypeOK, InFlight
<1>1. ~Handle(c)
  BY DEF Handle, At, Settled, NotFound, CreateReplay, CreateMiss, CreateReturn, GetReturn,
     UpdateLoad, UpdateFlush, UpdateRefused, UpdateReturn, UpdateUnreadable,
     DeleteLoad, DeleteReturn, VersionsLoad, VersionsReturn, CommitCreate, CommitUpdate,
     DeleteVersion, DeleteAd, CommitDelete, Answered
<1>2. ASSUME NEW r \in Requests, Handle(r) PROVE Stays(c)
  BY <1>1, <1>2, HandleMovesOne
<1>3. ASSUME NEW r \in Requests, RollsBack(r) PROVE Stays(c)
  <2>1. r # c
    BY <1>0, <1>3 DEF RollsBack
  <2> QED
    BY <1>3, <2>1 DEF RollsBack, Raises, Answers, Moves, Stays, RouterTypeOK
<1>4. ASSUME NEW r \in Requests, NEW b \in Bodies, Send(r, b) PROVE Stays(c)
  <2>1. r # c
    BY <1>4 DEF Send, Settled
  <2> QED
    BY <1>4, <2>1 DEF Send, Stays, RouterTypeOK
<1>5. Crash => Stays(c)
  BY <1>0 DEF Crash, Stays
<1>6. (\E k \in Keys : Expire(k)) \/ Quiet \/ UNCHANGED vars => Stays(c)
  BY DEF Expire, Quiet, vars, Stays
<1> QED
  BY <1>2, <1>3, <1>4, <1>5, <1>6 DEF Next, Fail, Deadlock, Stays

LEMMA AsksForCreatedNext ==
  ASSUME ReplayInv, AsksForCreated, [Next]_vars
  PROVE  AsksForCreated'
<1> SUFFICES ASSUME NEW r \in Requests, body'[r] # None, body'[r].op # "create",
                    body'[r].ad \in Requests
             PROVE  LET c == body'[r].ad IN
                    body'[c] # None /\ body'[c].op = "create"
  BY DEF AsksForCreated
<1>0. IInv /\ RouterTypeOK
  BY DEF ReplayInv, IInv, RouterInv
<1>1. CASE body[r] # None
  <2>1. body'[r] = body[r]
    BY <1>0, <1>1, BodyStays
  <2> QED
    BY <1>0, <1>1, <2>1, BodyStays DEF AsksForCreated
<1>2. CASE body[r] = None
  <2> DEFINE c == body'[r].ad
  <2>1. PICK b \in Bodies : Send(r, b)
    <3>1. ~Handle(r) /\ pc[r] = "idle"
      BY <1>0, <1>2, RouterAssumption DEF RouterTypeOK, Handle, At, NotFound, CreateReplay,
         CreateMiss, CreateReturn, GetReturn, UpdateLoad, UpdateFlush, UpdateRefused,
         UpdateReturn, UpdateUnreadable, DeleteLoad, DeleteReturn, VersionsLoad, VersionsReturn,
         CommitCreate, CommitUpdate, DeleteVersion, DeleteAd, CommitDelete
    <3> QED
      BY <1>0, <1>2, <3>1, StaysOrMoves, RollbackEnds DEF Stays, Ends
  <2>2. body'[r] = b /\ body' = [body EXCEPT ![r] = b]
    BY <1>0, <2>1 DEF Send, RouterTypeOK
  <2>3. c \notin Seeds
    BY RouterAssumption
  <2>4. PICK x \in Requests : reply[x].status = 201 /\ reply[x].ad = c
    BY <2>1, <2>2, <2>3 DEF Send, Known
  <2>5. body[c] # None /\ body[c].op = "create"
    BY <2>4 DEF ReplayInv, ReplayIsFaithful
  <2> QED
    BY <1>0, <2>5, BodyStays
<1> QED
  BY <1>1, <1>2

LEMMA CommittedIsThereNext ==
  ASSUME IInv, CommittedIsThere, [Next]_vars
  PROVE  CommittedIsThere'
<1> SUFFICES ASSUME NEW c \in Requests, At(c, "committed", "create")'
             PROVE  past'[c] # <<>> /\ (ads'[c] # Gone => ads'[c].owner = body'[c].user)
  BY DEF CommittedIsThere
<1>0. RouterTypeOK /\ c \in AdIds
  BY DEF IInv, RouterInv, AdIds
<1>1. CASE Stays(c)
  <2>1. At(c, "committed", "create") /\ body'[c] = body[c]
    BY <1>1 DEF Stays, At
  <2> QED
    BY <1>0, <2>1, TablesGrow DEF CommittedIsThere, Grows
<1>2. CASE CommitCreate(c)
  <2>1. /\ ads'[c] = [owner |-> body[c].user, cols |-> body[c].cols]
        /\ past'[c] = <<body[c].cols>> /\ body'[c] = body[c]
    BY <1>0, <1>2, Tables DEF CommitCreate, Moves, IInv
  <2> QED
    BY <2>1
<1>3. Stays(c) \/ CommitCreate(c)
  <2>1. CASE Handle(c)
    BY <1>0, <2>1, HandleGoes DEF CommitUpdate, CommitDelete, At
  <2>2. CASE Ends(c) \/ RollsBack(c) \/ \E b \in Bodies : Send(c, b)
    BY <1>0, <2>2, RollbackEnds, SendReceives DEF Ends, At
  <2> QED
    BY <1>0, <2>1, <2>2, StaysOrMoves
<1> QED
  BY <1>1, <1>2, <1>3

LEMMA UpdateKeepsAd ==
  ASSUME IInv, NEW r \in Requests, CommitUpdate(r)
  PROVE  ads'[body[r].ad] # Gone
<1> DEFINE a == body[r].ad
<1>1. Editing(r, {"replied"}) /\ Editing(r, Stages \ {"idle"})
  BY DEF CommitUpdate, At, Editing, Stages
<1>2. ~NullsRequired(body[r].cols) /\ ads[a] # Gone /\ a \in AdIds
  BY <1>1, CommitUpdateEdits DEF IInv, RouterInv, PendingIsLegal
<1>3. OwnView(r) \in Contents
  BY <1>1, <1>2, OwnViewType DEF IInv, RouterInv
<1>4. ads'[a] = [ads[a] EXCEPT !.cols = OwnView(r)] /\ ads[a] \in Rows
  BY <1>2, Tables DEF CommitUpdate, IInv
<1>5. ads'[a] \in Rows
  BY <1>3, <1>4 DEF Rows
<1> QED
  BY <1>5, SchemaAssumption DEF SchemaAssumption

\* 404 is NotFound's answer alone.
LEMMA NotFoundOnly ==
  ASSUME IInv, [Next]_vars, NEW g \in Requests, reply'[g] # reply[g], reply'[g].status = 404
  PROVE  NotFound(g)
<1>0. RouterTypeOK /\ reply \in [Requests -> Replies]
  BY DEF IInv, RouterInv, RouterTypeOK
<1>1. Handle(g)
  <2>1. ASSUME NEW q \in Requests, Handle(q) PROVE Handle(g)
    BY <1>0, <2>1, HandleMovesOne DEF Stays
  <2>2. ASSUME NEW q \in Requests, RollsBack(q) PROVE FALSE
    BY <1>0, <2>2 DEF RollsBack, Raises, Answers, Reply
  <2>3. ASSUME NEW q \in Requests, NEW b \in Bodies, Send(q, b) PROVE FALSE
    BY <2>3 DEF Send
  <2>4. ~Crash /\ ~Quiet /\ ~UNCHANGED vars /\ \A k \in Keys : ~Expire(k)
    BY DEF Crash, Quiet, vars, Expire
  <2> QED
    BY <2>1, <2>2, <2>3, <2>4 DEF Next, Fail, Deadlock
<1>2. ~CreateReplay(g)
  <2> SUFFICES ASSUME CreateReplay(g) PROVE FALSE
    OBVIOUS
  <2>1. body[g] \in Bodies /\ body[g].op = "create"
    BY <1>0 DEF CreateReplay, At, RouterTypeOK
  <2>2. body[g].key \in Keys /\ store[body[g].key] # None
    BY <2>1, BodyShape DEF CreateReplay, Cache!Hit
  <2> QED
    BY <1>0, <2>2 DEF CreateReplay, Answers, IInv, RouterInv, AnswersFit
<1>3. /\ ~CreateReturn(g) /\ ~GetReturn(g) /\ ~UpdateRefused(g) /\ ~UpdateReturn(g)
      /\ ~UpdateUnreadable(g) /\ ~DeleteReturn(g) /\ ~VersionsReturn(g)
  BY <1>0 DEF CreateReturn, GetReturn, UpdateRefused, UpdateReturn, UpdateUnreadable,
     DeleteReturn, VersionsReturn, Raises, Answers, Reply
<1>4. /\ ~CreateMiss(g) /\ ~UpdateLoad(g) /\ ~UpdateFlush(g) /\ ~DeleteLoad(g)
      /\ ~VersionsLoad(g) /\ ~CommitCreate(g) /\ ~CommitUpdate(g)
      /\ (\A v \in AdIds : ~DeleteVersion(g, v)) /\ ~DeleteAd(g) /\ ~CommitDelete(g)
  BY DEF CreateMiss, UpdateLoad, UpdateFlush, DeleteLoad, VersionsLoad, CommitCreate,
     CommitUpdate, DeleteVersion, DeleteAd, CommitDelete
<1> QED
  BY <1>1, <1>2, <1>3, <1>4 DEF Handle

LEMMA GoneByDeleteNext ==
  ASSUME IInv, GoneByDelete, [Next]_vars
  PROVE  GoneByDelete'
<1> SUFFICES ASSUME NEW a \in AdIds, past'[a] # <<>>, ads'[a] = Gone
             PROVE  \E d \in Requests :
                       body'[d] # None /\ body'[d].op = "delete" /\ body'[d].ad = a
  BY DEF GoneByDelete
<1>0. RouterTypeOK
  BY DEF IInv, RouterInv
<1>1. CASE past[a] # <<>> /\ ads[a] = Gone
  <2>1. PICK d \in Requests : body[d] # None /\ body[d].op = "delete" /\ body[d].ad = a
    BY <1>1 DEF GoneByDelete
  <2> QED
    BY <1>0, <2>1, BodyStays
<1>2. CASE ads[a] # Gone
  <2>1. PICK r \in Requests : /\ CommitUpdate(r) \/ CommitDelete(r)
                              /\ body[r].ad = a
    BY <1>2, WhoChanges
  <2>2. ~CommitUpdate(r)
    BY <2>1, <1>2, UpdateKeepsAd
  <2>3. body[r] # None /\ body[r].op = "delete"
    BY <1>0, <2>1, <2>2 DEF CommitDelete, At, RouterTypeOK
  <2> QED
    BY <1>0, <2>1, <2>3, BodyStays
<1>3. CASE past[a] = <<>>
  <2>1. PICK r \in Requests : CommitCreate(r) \/ CommitUpdate(r) \/ CommitDelete(r)
    BY <1>3, OnlyCommitsWrite DEF tables
  <2>2. ~CommitDelete(r)
    BY <1>3 DEF CommitDelete
  <2>3. ~CommitUpdate(r)
    <3>1. CommitUpdate(r) => past[body[r].ad] # <<>> /\ body[r].ad \in AdIds
      BY CommitUpdateEdits, Tables DEF IInv
    <3> QED
      BY <1>3, <3>1, Tables DEF CommitUpdate, IInv
  <2>4. CommitCreate(r)
    BY <2>1, <2>2, <2>3
  <2>5. r = a
    BY <1>3, <2>4, Tables DEF CommitCreate, IInv
  <2> DEFINE row == [owner |-> body[r].user, cols |-> body[r].cols]
  <2>6. ads'[a] = row
    BY <2>4, <2>5, Tables DEF CommitCreate, IInv
  <2>7. body[r] \in Bodies /\ body[r].op = "create"
    BY <1>0, <2>4 DEF CommitCreate, At, RouterTypeOK
  <2>8. row \in Rows
    BY <2>7, BodyShape DEF Rows
  <2> QED
    BY <2>6, <2>8, SchemaAssumption DEF SchemaAssumption
<1> QED
  BY <1>1, <1>2, <1>3

LEMMA CreatedIsFoundNext ==
  ASSUME IInv, AsksForCreated, AsksAfterCommit, CommittedIsThere, GoneByDelete,
         NotFoundNames, CreatedIsFound, [Next]_vars
  PROVE  CreatedIsFound'
<1> SUFFICES ASSUME NEW g \in Requests, NEW c \in Requests, body'[g] # None, body'[c] # None,
                    reply'[g].status = 404, body'[g].ad = c,
                    body'[g].user = body'[c].user, pc'[c] # "closed"
             PROVE  \E d \in Requests :
                       body'[d] # None /\ body'[d].op = "delete" /\ body'[d].ad = c
  BY DEF CreatedIsFound
<1>0. IInv /\ RouterTypeOK /\ reply \in [Requests -> Replies] /\ c \in AdIds
  BY DEF IInv, RouterInv, RouterTypeOK, AdIds
<1> SUFFICES \E d \in Requests : body[d] # None /\ body[d].op = "delete" /\ body[d].ad = c
  BY <1>0, BodyStays
<1>1. pc[g] # "idle" /\ body[g] # None /\ body'[g] = body[g]
  <2>1. CASE reply'[g] = reply[g]
    <3>1. pc[g] # "idle"
      BY <1>0, <2>1 DEF IInv, RouterInv, AnswersFit
    <3> QED
      BY <1>0, <3>1, BodyStays DEF RouterTypeOK
  <2>2. CASE reply'[g] # reply[g]
    <3>1. NotFound(g)
      BY <1>0, <2>2, NotFoundOnly
    <3> QED
      BY <1>0, <3>1, BodyStays DEF NotFound, RouterTypeOK
  <2> QED
    BY <2>1, <2>2
<1>2. CASE reply'[g] = reply[g]
  <2>1. body[c] # None /\ body'[c] = body[c] /\ pc[c] # "closed"
    <3>1. body[g].op # "create"
      BY <1>2 DEF NotFoundNames
    <3>2. body[c] # None /\ pc[c] \in Settled
      BY <1>1, <1>2, <3>1 DEF AsksForCreated, AsksAfterCommit
    <3> QED
      BY <1>0, <3>2, SettledStays
  <2> QED
    BY <1>1, <1>2, <2>1 DEF CreatedIsFound
<1>3. CASE reply'[g] # reply[g]
  <2>1. NotFound(g)
    BY <1>0, <1>3, NotFoundOnly
  <2>2. body[c] # None /\ body[c].op = "create" /\ pc[c] \in Settled
    BY <1>1, <2>1 DEF NotFound, AsksForCreated, AsksAfterCommit
  <2>3. At(c, "committed", "create") /\ body'[c] = body[c]
    BY <1>0, <2>2, SettledStays DEF At, Settled
  <2>4. past[c] # <<>> /\ (ads[c] # Gone => ads[c].owner = body[c].user)
    BY <2>3 DEF CommittedIsThere
  <2>5. ads[c] = Gone
    BY <1>1, <2>1, <2>3, <2>4 DEF NotFound, Owns
  <2> QED
    BY <1>0, <2>4, <2>5 DEF GoneByDelete
<1> QED
  BY <1>2, <1>3

LEMMA NotFoundNamesNext ==
  ASSUME IInv, NotFoundNames, [Next]_vars
  PROVE  NotFoundNames'
<1> SUFFICES ASSUME NEW r \in Requests, reply'[r].status = 404 PROVE body'[r].op # "create"
  BY DEF NotFoundNames
<1>0. RouterTypeOK
  BY DEF IInv, RouterInv
<1>1. body[r] # None /\ body[r].op # "create"
  <2>1. CASE reply'[r] = reply[r]
    <3>1. pc[r] # "idle"
      BY <2>1 DEF IInv, RouterInv, AnswersFit
    <3> QED
      BY <1>0, <2>1, <3>1 DEF NotFoundNames, RouterTypeOK
  <2>2. CASE reply'[r] # reply[r]
    BY <1>0, <2>2, NotFoundOnly DEF NotFound, RouterTypeOK
  <2> QED
    BY <2>1, <2>2
<1> QED
  BY <1>0, <1>1, BodyStays

\* A client that was told 201 finds its ad, if it waits for the COMMIT, unless a
\* fault undid it.
THEOREM TurnsFind == Spec /\ []AsksAfterCommit => []CreatedIsFound
<1> DEFINE Inv == /\ AsksForCreated /\ CommittedIsThere /\ GoneByDelete
                  /\ NotFoundNames /\ CreatedIsFound
<1>1. Init => Inv
  <2> SUFFICES ASSUME Init PROVE Inv
    OBVIOUS
  <2>1. \A r \in Requests : body[r] = None /\ pc[r] = "idle" /\ reply[r].status = 0
    BY DEF Init, NoReply, Reply
  <2>2. GoneByDelete
    <3>1. \A a \in AdIds : past[a] # <<>> => a \in Seeds /\ ads[a] = Seeded[a]
      BY DEF Init
    <3>2. \A a \in Seeds : Seeded[a] # Gone
      BY RouterAssumption, SchemaAssumption DEF RouterAssumption, SchemaAssumption
    <3> QED
      BY <3>1, <3>2 DEF GoneByDelete
  <2> QED
    BY <2>1, <2>2 DEF AsksForCreated, CommittedIsThere, At, NotFoundNames, CreatedIsFound
<1>2. ReplayInv /\ AsksAfterCommit /\ Inv /\ [Next]_vars => Inv'
  BY AsksForCreatedNext, CommittedIsThereNext, GoneByDeleteNext, NotFoundNamesNext,
     CreatedIsFoundNext DEF ReplayInv
<1> QED
  BY <1>1, <1>2, ReplayInvariant, PTL DEF Spec
-----------------------------------------------------------------------------
(* Who takes turns: TurnsSpec by its definition, and requests that come one *)
(* after another.                                                           *)

\* At most one request is under way.
Alone == \A q, r \in InFlight : q = r

LEMMA AloneNext ==
  ASSUME Overlap = 1, IsFiniteSet(Requests), RouterTypeOK, Alone, [Next]_vars
  PROVE  Alone'
<1>0. pc \in [Requests -> Stages]
  BY DEF RouterTypeOK
<1>1. CASE \E r \in Requests, b \in Bodies : Send(r, b)
  <2>1. PICK r \in Requests : Cardinality(InFlight) < 1 /\ pc' = [pc EXCEPT ![r] = "received"]
    BY <1>1 DEF Send
  <2>2. IsFiniteSet(InFlight) /\ Cardinality(InFlight) \in Nat
    BY FS_Subset, FS_CardinalityType DEF InFlight
  <2>3. InFlight = {}
    BY <2>1, <2>2, FS_EmptySet
  <2>4. InFlight' \subseteq {r}
    BY <1>0, <2>1, <2>3 DEF InFlight
  <2> QED
    BY <2>4 DEF Alone
<1>2. CASE ~\E r \in Requests, b \in Bodies : Send(r, b)
  <2>1. ASSUME NEW q \in Requests, q \in InFlight' PROVE q \in InFlight
    <3>1. CASE Stays(q)
      BY <2>1, <3>1 DEF Stays, InFlight
    <3>2. CASE Ends(q) \/ RollsBack(q)
      BY <2>1, <3>2, RollbackEnds DEF Ends, InFlight, Settled
    <3>3. CASE Handle(q)
      BY <2>1, <3>3, HandleGoes DEF InFlight, Settled, CreateMiss, CreateReturn, UpdateLoad,
         UpdateFlush, UpdateReturn, DeleteLoad, DeleteReturn, VersionsLoad, CommitCreate,
         CommitUpdate, DeleteVersion, DeleteAd, CommitDelete, At
    <3> QED
      BY <1>2, <3>1, <3>2, <3>3, StaysOrMoves
  <2>2. InFlight' \subseteq Requests
    BY DEF InFlight
  <2> QED
    BY <2>1, <2>2 DEF Alone
<1> QED
  BY <1>1, <1>2

\* A request that comes alone asks for no ad whose POST is under way.
LEMMA AsksAfterCommitNext ==
  ASSUME Overlap = 1, IsFiniteSet(Requests), ReplayInv, AsksForCreated, AsksAfterCommit,
         [Next]_vars
  PROVE  AsksAfterCommit'
<1> SUFFICES ASSUME NEW r \in Requests, body'[r] # None, body'[r].op # "create",
                    body'[r].ad \in Requests
             PROVE  pc'[body'[r].ad] \in Settled
  BY DEF AsksAfterCommit
<1>0. IInv /\ RouterTypeOK
  BY DEF ReplayInv, IInv, RouterInv
<1>1. CASE body[r] # None
  <2>1. body'[r] = body[r]
    BY <1>0, <1>1, BodyStays
  <2> QED
    BY <1>0, <1>1, <2>1, SettledStays DEF AsksAfterCommit
<1>2. CASE body[r] = None
  <2> DEFINE c == body'[r].ad
  <2>1. PICK b \in Bodies : Send(r, b)
    <3>1. ~Handle(r) /\ pc[r] = "idle"
      BY <1>0, <1>2, RouterAssumption DEF RouterTypeOK, Handle, At, NotFound, CreateReplay,
         CreateMiss, CreateReturn, GetReturn, UpdateLoad, UpdateFlush, UpdateRefused,
         UpdateReturn, UpdateUnreadable, DeleteLoad, DeleteReturn, VersionsLoad, VersionsReturn,
         CommitCreate, CommitUpdate, DeleteVersion, DeleteAd, CommitDelete
    <3> QED
      BY <1>0, <1>2, <3>1, StaysOrMoves, RollbackEnds DEF Stays, Ends
  <2>2. body'[r] = b /\ Cardinality(InFlight) < 1
    BY <1>0, <2>1 DEF Send, RouterTypeOK
  <2>3. IsFiniteSet(InFlight) /\ Cardinality(InFlight) \in Nat
    BY FS_Subset, FS_CardinalityType DEF InFlight
  <2>4. InFlight = {}
    BY <2>2, <2>3, FS_EmptySet
  <2>5. c \notin Seeds
    BY RouterAssumption
  <2>6. PICK x \in Requests : reply[x].status = 201 /\ reply[x].ad = c
    BY <2>1, <2>2, <2>5 DEF Send, Known
  <2>7. body[c] # None
    BY <2>6 DEF ReplayInv, ReplayIsFaithful
  <2>8. pc[c] \in Settled
    BY <1>0, <2>4, <2>7 DEF InFlight, RouterTypeOK
  <2> QED
    BY <1>0, <2>8, SettledStays
<1> QED
  BY <1>1, <1>2

\* Requests that come one after another meet the three conditions above (one
\* session each, from get_db's first line to its last, database.py:96-110).
THEOREM OneByOneTakesTurns ==
  ASSUME Overlap = 1, IsFiniteSet(Requests)
  PROVE  Spec => []TakingTurns
<1>1. Init => Alone /\ AsksForCreated /\ AsksAfterCommit
  BY DEF Init, Alone, InFlight, AsksForCreated, AsksAfterCommit
<1>2. ReplayInv /\ Alone /\ AsksForCreated /\ AsksAfterCommit /\ [Next]_vars
      => Alone' /\ AsksForCreated' /\ AsksAfterCommit'
  BY AloneNext, AsksForCreatedNext, AsksAfterCommitNext DEF ReplayInv, IInv, RouterInv
<1>3. Alone /\ AsksAfterCommit => TakingTurns
  BY DEF Alone, TakingTurns, RetriesWait, EditsTakeTurns, InFlight, Settled, At
<1> QED
  BY <1>1, <1>2, <1>3, ReplayInvariant, PTL DEF Spec

\* TurnsSpec, which the run "turns" checks, is Spec under the conditions of
\* the five theorems, no more and no less.
THEOREM TurnsSpecTakesTurns == TurnsSpec <=> Spec /\ []TakingTurns
<1>1. Init => TakingTurns
  BY DEF Init, TakingTurns, RetriesWait, EditsTakeTurns, AsksAfterCommit, At
<1>2. TakingTurns /\ [Next /\ TakingTurns']_vars => TakingTurns'
  BY DEF TakingTurns, RetriesWait, EditsTakeTurns, AsksAfterCommit, At, vars
<1>3. TakingTurns' /\ [Next]_vars => [Next /\ TakingTurns']_vars
  OBVIOUS
<1>4. [Next /\ TakingTurns']_vars => [Next]_vars
  OBVIOUS
<1> QED
  BY <1>1, <1>2, <1>3, <1>4, PTL DEF TurnsSpec, Spec
=============================================================================
