-------------------------- MODULE AdsServerProofs ---------------------------
(***************************************************************************)
(* Theorems about AdsServer, for any number of requests, any pool size and *)
(* overflow and any number of restarts of the database: the composition is *)
(* an AdsRouter, so all of AdsRouterProofs holds of it, and the pool does  *)
(* what its users rely on.                                                 *)
(***************************************************************************)
EXTENDS AdsServer, AdsRouterProofs, FiniteSetTheorems

-----------------------------------------------------------------------------
(* The composition is a router. *)

LEMMA StepIsRouters == ServerNext => [Next]_vars
  BY DEF ServerNext, Arrive, Serve, Proceeds, Denied, Lost, Work, Refused, Return,
     Fails, DatabaseRestarts, AllQuiet, Next

\* Whatever the pool does to the requests, AdsRouter allows: its theorems are
\* theorems about the composition (get_db, database.py:91-110).
THEOREM ServerIsRouter == ServerSpec => Spec
<1>1. ServerInit => Init
  BY DEF ServerInit
<1>2. [ServerNext]_serverVars => [Next]_vars
  BY StepIsRouters DEF serverVars
<1> QED
  BY <1>1, <1>2, PTL DEF ServerSpec, Spec

-----------------------------------------------------------------------------
(* The pool. *)

\* Once the pool was told, a stale connection is only where it will be voided.
StaleKnown ==
    noticed => /\ \A i \in DOMAIN idle : idle[i] # "stale"
               /\ \A c \in Requests : holds[c] = "stale" => c \in aged

PoolInv == Pool!TypeOK /\ Pool!ConnectionsBounded /\ StaleKnown

\* The steps of the pool, each of one session or of the database.
PoolStep(c) ==
    \/ Pool!TakesIdle(c) /\ holds[c] \in {"none", "waiting"}
    \/ /\ holds[c] \in {"none", "waiting"}
       /\ Pool!Becomes(c, "connecting") /\ Pool!Room
       /\ UNCHANGED <<idle, aged, restarts, noticed>>
    \/ holds[c] = "none" /\ Pool!Becomes(c, "waiting") /\ UNCHANGED <<idle, aged, restarts, noticed>>
    \/ Pool!GivesUp(c) \/ Pool!Connected(c) \/ Pool!ConnectFails(c)
    \/ Pool!Release(c) \/ Pool!Notice(c)

LEMMA PoolSteps ==
  ServerNext => UNCHANGED pool \/ Pool!Restart \/ \E c \in Requests : PoolStep(c)
<1>1. ASSUME NEW c \in Requests, Pool!Ask(c) \/ Pool!Granted(c) \/ Pool!RoomAtLast(c)
      PROVE  PoolStep(c)
  BY <1>1 DEF Pool!Ask, Pool!Granted, Pool!RoomAtLast, PoolStep
<1> QED
  BY <1>1 DEF ServerNext, Arrive, Serve, Proceeds, Denied, Lost, Work, Refused, Return,
     DatabaseRestarts, AllQuiet, PoolStep

\* DbPool's Cardinality is that of FiniteSets.
LEMMA SameCardinality == \A S : Pool!Cardinality(S) = Cardinality(S)
  BY DEF Pool!Cardinality, Cardinality

\* Who is a holder is a finite set; one joins or leaves.
LEMMA HoldersFinite == IsFiniteSet(Pool!Holders) /\ Cardinality(Pool!Holders) \in Nat
<1>1. Pool!Holders \subseteq Requests /\ IsFiniteSet(Requests)
  BY PoolAssumption DEF PoolAssumption, Pool!Holders
<1>2. IsFiniteSet(Pool!Holders)
  BY <1>1, FS_Subset
<1> QED
  BY <1>2, FS_CardinalityType

LEMMA HoldersChange ==
  ASSUME holds \in [Requests -> Pool!InUse \cup {"none", "waiting"}],
         NEW c \in Requests, NEW h \in Pool!InUse \cup {"none", "waiting"}, Pool!Becomes(c, h)
  PROVE  /\ holds' \in [Requests -> Pool!InUse \cup {"none", "waiting"}]
         /\ holds'[c] = h /\ \A d \in Requests \ {c} : holds'[d] = holds[d]
         /\ Pool!Holders' = IF h \in Pool!InUse THEN Pool!Holders \cup {c}
                                                ELSE Pool!Holders \ {c}
         /\ Cardinality(Pool!Holders') =
               Cardinality(Pool!Holders)
               + (IF h \in Pool!InUse /\ holds[c] \notin Pool!InUse THEN 1
                  ELSE IF h \notin Pool!InUse /\ holds[c] \in Pool!InUse THEN 0 - 1 ELSE 0)
<1>1. /\ holds' \in [Requests -> Pool!InUse \cup {"none", "waiting"}]
      /\ holds'[c] = h /\ \A d \in Requests \ {c} : holds'[d] = holds[d]
  BY DEF Pool!Becomes
<1>2. Pool!Holders' = IF h \in Pool!InUse THEN Pool!Holders \cup {c} ELSE Pool!Holders \ {c}
  BY <1>1 DEF Pool!Holders
<1>3. c \in Pool!Holders <=> holds[c] \in Pool!InUse
  BY DEF Pool!Holders
<1>4. Cardinality(Pool!Holders) \in Nat
  BY HoldersFinite
<1>5. CASE h \in Pool!InUse
  <2>1. Cardinality(Pool!Holders \cup {c}) = IF c \in Pool!Holders THEN Cardinality(Pool!Holders)
                                             ELSE Cardinality(Pool!Holders) + 1
    BY HoldersFinite, FS_AddElement
  <2> QED
    BY <1>1, <1>2, <1>3, <1>4, <1>5, <2>1
<1>6. CASE h \notin Pool!InUse
  <2>1. Cardinality(Pool!Holders \ {c}) = IF c \in Pool!Holders THEN Cardinality(Pool!Holders) - 1
                                          ELSE Cardinality(Pool!Holders)
    BY HoldersFinite, FS_RemoveElement
  <2> QED
    BY <1>1, <1>2, <1>3, <1>4, <1>6, <2>1
<1> QED
  BY <1>5, <1>6

\* A record that comes back lengthens the queue by one at most, and no further
\* than pool_size.
LEMMA KeptQueue ==
  ASSUME NEW q \in Seq(Pool!Records), Len(q) <= PoolSize, NEW x \in Pool!Records
  PROVE  /\ Pool!Kept(q, x) \in Seq(Pool!Records)
         /\ Len(Pool!Kept(q, x)) <= PoolSize /\ Len(Pool!Kept(q, x)) <= Len(q) + 1
         /\ \A i \in DOMAIN Pool!Kept(q, x) :
               Pool!Kept(q, x)[i] = x \/ (i \in DOMAIN q /\ Pool!Kept(q, x)[i] = q[i])
<1>0. PoolSize \in Nat /\ Len(q) \in Nat
  BY PoolAssumption DEF PoolAssumption
<1>1. CASE Len(q) < PoolSize
  <2>1. Pool!Kept(q, x) = Append(q, x)
    BY <1>1 DEF Pool!Kept
  <2>2. /\ Append(q, x) \in Seq(Pool!Records) /\ Len(Append(q, x)) = Len(q) + 1
        /\ \A i \in 1 .. Len(q) + 1 : Append(q, x)[i] = IF i = Len(q) + 1 THEN x ELSE q[i]
    OBVIOUS
  <2>3. DOMAIN Append(q, x) = 1 .. Len(q) + 1 /\ DOMAIN q = 1 .. Len(q)
    BY <2>2
  <2>4. \A i \in DOMAIN Append(q, x) : Append(q, x)[i] = x \/ (i \in DOMAIN q /\ Append(q, x)[i] = q[i])
    BY <1>0, <2>2, <2>3
  <2> HIDE DEF Pool!Kept
  <2> QED
    BY <1>0, <1>1, <2>1, <2>2, <2>4
<1>2. CASE Len(q) >= PoolSize
  <2>1. Pool!Kept(q, x) = q
    BY <1>0, <1>2 DEF Pool!Kept
  <2> QED
    BY <1>0, <2>1
<1> QED
  BY <1>0, <1>1, <1>2

\* What is left to show of a step that gives session c the state h.
LEMMA PoolCloses ==
  ASSUME PoolInv, NEW c \in Requests, NEW h \in Pool!InUse \cup {"none", "waiting"},
         Pool!Becomes(c, h), UNCHANGED restarts, noticed' \in BOOLEAN, StaleKnown',
         idle' \in Seq(Pool!Records), Len(idle') <= PoolSize, aged' \subseteq Pool!Holders',
         \/ /\ h \in Pool!InUse /\ holds[c] \notin Pool!InUse
            /\ Len(idle') = Len(idle) - 1 \/ (Pool!Room /\ idle' = idle)
         \/ (h \in Pool!InUse <=> holds[c] \in Pool!InUse) /\ idle' = idle
         \/ h \notin Pool!InUse /\ holds[c] \in Pool!InUse /\ Len(idle') <= Len(idle) + 1
  PROVE  PoolInv'
<1>1. /\ holds \in [Requests -> Pool!InUse \cup {"none", "waiting"}]
      /\ idle \in Seq(Pool!Records) /\ restarts \in 0 .. MaxRestarts
      /\ Len(idle) + Cardinality(Pool!Holders) <= PoolSize + MaxOverflow
  BY SameCardinality DEF PoolInv, Pool!TypeOK, Pool!ConnectionsBounded, Pool!Total, Pool!Most
<1>2. /\ Cardinality(Pool!Holders) \in Nat /\ PoolSize \in Nat /\ MaxOverflow \in Nat
      /\ Len(idle) \in Nat /\ Len(idle') \in Nat
  BY <1>1, HoldersFinite, PoolAssumption DEF PoolAssumption
<1>3. /\ holds' \in [Requests -> Pool!InUse \cup {"none", "waiting"}]
      /\ Cardinality(Pool!Holders') =
            Cardinality(Pool!Holders)
            + (IF h \in Pool!InUse /\ holds[c] \notin Pool!InUse THEN 1
               ELSE IF h \notin Pool!InUse /\ holds[c] \in Pool!InUse THEN 0 - 1 ELSE 0)
  BY <1>1, HoldersChange
<1>4. Pool!Room => Len(idle) + Cardinality(Pool!Holders) < PoolSize + MaxOverflow
  BY SameCardinality DEF Pool!Room, Pool!Total, Pool!Most
<1>5. Len(idle') + Cardinality(Pool!Holders') <= PoolSize + MaxOverflow
  BY <1>1, <1>2, <1>3, <1>4
<1>6. Pool!TypeOK'
  BY <1>1, <1>3 DEF Pool!TypeOK
<1> QED
  BY <1>5, <1>6, SameCardinality DEF PoolInv, Pool!ConnectionsBounded, Pool!Total, Pool!Most

LEMMA TakesIdleKeeps ==
  ASSUME PoolInv, NEW c \in Requests, Pool!TakesIdle(c), holds[c] \in {"none", "waiting"}
  PROVE  PoolInv'
<1> DEFINE h == IF Head(idle) = "void" THEN "reconnecting" ELSE Head(idle)
<1>1. /\ holds \in [Requests -> Pool!InUse \cup {"none", "waiting"}]
      /\ idle \in Seq(Pool!Records) /\ aged \subseteq Pool!Holders /\ Len(idle) <= PoolSize
      /\ noticed \in BOOLEAN
  BY DEF PoolInv, Pool!TypeOK, Pool!ConnectionsBounded
<1>2. /\ idle # <<>> /\ idle' = Tail(idle) /\ Pool!Becomes(c, h)
      /\ UNCHANGED <<aged, restarts, noticed>>
  BY DEF Pool!TakesIdle
<1>3. /\ Len(idle) \in Nat /\ Len(idle) > 0 /\ Head(idle) = idle[1] /\ 1 \in DOMAIN idle
      /\ Head(idle) \in Pool!Records
      /\ Tail(idle) \in Seq(Pool!Records) /\ Len(Tail(idle)) = Len(idle) - 1
      /\ \A i \in DOMAIN Tail(idle) : i + 1 \in DOMAIN idle /\ Tail(idle)[i] = idle[i + 1]
  BY <1>1, <1>2
<1>4. h \in Pool!InUse /\ holds[c] \notin Pool!InUse
  BY <1>3 DEF Pool!InUse, Pool!Records
<1>5. PoolSize \in Nat
  BY PoolAssumption DEF PoolAssumption
<1>6. idle' \in Seq(Pool!Records) /\ Len(idle') = Len(idle) - 1 /\ Len(idle') <= PoolSize
  BY <1>1, <1>2, <1>3, <1>5
<1>7. /\ holds'[c] = h /\ \A d \in Requests \ {c} : holds'[d] = holds[d]
      /\ Pool!Holders' = Pool!Holders \cup {c}
  BY <1>1, <1>2, <1>4, HoldersChange
<1>8. StaleKnown'
  <2>1. SUFFICES ASSUME noticed
                 PROVE  /\ \A i \in DOMAIN idle' : idle'[i] # "stale"
                        /\ \A d \in Requests : holds'[d] = "stale" => d \in aged
    BY <1>2 DEF StaleKnown
  <2>2. /\ \A i \in DOMAIN idle : idle[i] # "stale"
        /\ \A d \in Requests : holds[d] = "stale" => d \in aged
    BY <2>1 DEF PoolInv, StaleKnown
  <2>3. h # "stale"
    BY <1>3, <2>2
  <2>4. \A i \in DOMAIN idle' : idle'[i] # "stale"
    BY <1>2, <1>3, <2>2
  <2> HIDE DEF h
  <2> QED
    BY <1>7, <2>2, <2>3, <2>4
<1> HIDE DEF h
<1> QED
  BY <1>1, <1>2, <1>4, <1>6, <1>7, <1>8, PoolCloses

\* A session joins or leaves the holders, or only waits; no record moves.
LEMMA WaitKeeps ==
  ASSUME PoolInv, NEW c \in Requests, UNCHANGED <<idle, aged, restarts, noticed>>,
         NEW h \in {"connecting", "waiting", "none", "live"}, Pool!Becomes(c, h),
         \/ h = "connecting" /\ holds[c] \in {"none", "waiting"} /\ Pool!Room
         \/ h \in {"waiting", "none"} /\ holds[c] \in {"none", "waiting"}
         \/ h = "live" /\ holds[c] \in {"connecting", "reconnecting"}
  PROVE  PoolInv'
<1>1. /\ holds \in [Requests -> Pool!InUse \cup {"none", "waiting"}]
      /\ idle \in Seq(Pool!Records) /\ aged \subseteq Pool!Holders /\ Len(idle) <= PoolSize
      /\ noticed \in BOOLEAN
  BY DEF PoolInv, Pool!TypeOK, Pool!ConnectionsBounded
<1>2. h \in Pool!InUse \cup {"none", "waiting"}
  BY DEF Pool!InUse
<1>3. /\ holds'[c] = h /\ \A d \in Requests \ {c} : holds'[d] = holds[d]
      /\ Pool!Holders' = IF h \in Pool!InUse THEN Pool!Holders \cup {c} ELSE Pool!Holders \ {c}
  BY <1>1, <1>2, HoldersChange
<1>4. aged' \subseteq Pool!Holders'
  <2>1. h \notin Pool!InUse => c \notin Pool!Holders
    BY DEF Pool!Holders, Pool!InUse
  <2> QED
    BY <1>1, <1>3, <2>1
<1>5. StaleKnown'
  BY <1>3 DEF PoolInv, StaleKnown
<1>6. \/ h \in Pool!InUse /\ holds[c] \notin Pool!InUse /\ Pool!Room
      \/ h \in Pool!InUse <=> holds[c] \in Pool!InUse
  BY DEF Pool!InUse
<1> QED
  BY <1>1, <1>2, <1>4, <1>5, <1>6, PoolCloses

\* A session gives its record back, or up, and every other holder is as it was.
LEMMA LeaveKeeps ==
  ASSUME PoolInv, NEW c \in Requests, holds[c] \in Pool!InUse, Pool!Becomes(c, "none"),
         UNCHANGED restarts, noticed' \in BOOLEAN,
         NEW q \in Seq(Pool!Records), Len(q) = Len(idle), NEW x \in Pool!Records,
         idle' = q \/ idle' = Pool!Kept(q, x),
         aged' \subseteq Pool!Holders \ {c},
         noticed' => /\ x # "stale" /\ \A i \in DOMAIN q : q[i] # "stale"
                     /\ \A d \in Requests \ {c} : holds[d] = "stale" => d \in aged'
  PROVE  PoolInv'
<1>1. /\ holds \in [Requests -> Pool!InUse \cup {"none", "waiting"}]
      /\ idle \in Seq(Pool!Records) /\ Len(idle) <= PoolSize
  BY DEF PoolInv, Pool!TypeOK, Pool!ConnectionsBounded
<1>2. "none" \notin Pool!InUse
  BY DEF Pool!InUse
<1>3. /\ holds'[c] = "none" /\ \A d \in Requests \ {c} : holds'[d] = holds[d]
      /\ Pool!Holders' = Pool!Holders \ {c}
  BY <1>1, <1>2, HoldersChange
<1>4. /\ idle' \in Seq(Pool!Records) /\ Len(idle') <= PoolSize /\ Len(idle') <= Len(idle) + 1
      /\ \A i \in DOMAIN idle' : idle'[i] = x \/ (i \in DOMAIN q /\ idle'[i] = q[i])
  <2>1. CASE idle' = q
    BY <1>1, <2>1
  <2>2. CASE idle' = Pool!Kept(q, x)
    <3>1. Len(q) <= PoolSize
      BY <1>1
    <3> QED
      BY <1>1, <2>2, <3>1, KeptQueue
  <2> QED
    BY <2>1, <2>2
<1>5. StaleKnown'
  BY <1>3, <1>4 DEF StaleKnown
<1> QED
  BY <1>1, <1>2, <1>3, <1>4, <1>5, PoolCloses

LEMMA ReturnKeeps ==
  ASSUME PoolInv, NEW c \in Requests,
         Pool!ConnectFails(c) \/ Pool!Release(c) \/ Pool!Notice(c)
  PROVE  PoolInv'
<1>1. /\ idle \in Seq(Pool!Records) /\ aged \subseteq Pool!Holders /\ noticed \in BOOLEAN
      /\ Len(idle) \in Nat
  BY DEF PoolInv, Pool!TypeOK
<1>2. /\ "void" \in Pool!Records /\ "void" # "stale"
      /\ holds[c] \in {"live", "stale"} => holds[c] \in Pool!Records
      /\ holds[c] \in {"live", "stale", "connecting", "reconnecting"} => holds[c] \in Pool!InUse
  BY DEF Pool!Records, Pool!InUse
<1>3. noticed => /\ \A i \in DOMAIN idle : idle[i] # "stale"
                 /\ \A d \in Requests : holds[d] = "stale" => d \in aged
  BY DEF PoolInv, StaleKnown
<1>4. CASE Pool!ConnectFails(c)
  <2>1. /\ holds[c] \in Pool!InUse /\ Pool!Becomes(c, "none")
        /\ idle' = idle \/ idle' = Pool!Kept(idle, "void")
        /\ aged' = aged \ {c} /\ restarts' = restarts /\ noticed' = noticed
    BY <1>2, <1>4 DEF Pool!ConnectFails
  <2> QED
    BY <1>1, <1>2, <1>3, <2>1, LeaveKeeps
<1>5. CASE Pool!Release(c)
  <2> DEFINE x == IF c \in aged THEN "void" ELSE holds[c]
  <2>1. /\ holds[c] \in Pool!InUse /\ Pool!Becomes(c, "none") /\ idle' = Pool!Kept(idle, x)
        /\ aged' = aged \ {c} /\ restarts' = restarts /\ noticed' = noticed
    BY <1>2, <1>5 DEF Pool!Release
  <2>2. x \in Pool!Records /\ (noticed => x # "stale")
    BY <1>2, <1>3, <1>5 DEF Pool!Release
  <2> HIDE DEF x
  <2> QED
    BY <1>1, <1>3, <2>1, <2>2, LeaveKeeps
<1>6. CASE Pool!Notice(c) /\ c \in aged
  <2>1. /\ holds[c] \in Pool!InUse /\ Pool!Becomes(c, "none")
        /\ idle' = Pool!Kept(idle, "void")
        /\ aged' = aged \ {c} /\ restarts' = restarts /\ noticed' = noticed
    BY <1>2, <1>6 DEF Pool!Notice
  <2> QED
    BY <1>1, <1>2, <1>3, <2>1, LeaveKeeps
<1>7. CASE Pool!Notice(c) /\ c \notin aged
  <2> DEFINE q == [i \in DOMAIN idle |-> "void"]
  <2>1. /\ holds[c] \in Pool!InUse /\ Pool!Becomes(c, "none")
        /\ idle' = Pool!Kept(q, "void")
        /\ aged' = Pool!Holders \ {c} /\ restarts' = restarts /\ noticed' = TRUE
    BY <1>2, <1>7 DEF Pool!Notice
  <2>2. q \in Seq(Pool!Records) /\ Len(q) = Len(idle) /\ \A i \in DOMAIN q : q[i] # "stale"
    <3>1. DOMAIN idle = 1 .. Len(idle)
      BY <1>1
    <3>2. q \in [1 .. Len(idle) -> Pool!Records]
      BY <1>2, <3>1
    <3> QED
      BY <1>1, <3>1, <3>2
  <2>3. \A d \in Requests \ {c} : holds[d] = "stale" => d \in aged'
    BY <2>1 DEF Pool!Holders, Pool!InUse
  <2> HIDE DEF q
  <2> QED
    BY <1>2, <2>1, <2>2, <2>3, LeaveKeeps
<1> QED
  BY <1>4, <1>5, <1>6, <1>7

LEMMA RestartKeeps == ASSUME PoolInv, Pool!Restart PROVE PoolInv'
<1>1. /\ holds \in [Requests -> Pool!InUse \cup {"none", "waiting"}]
      /\ idle \in Seq(Pool!Records) /\ aged \subseteq Pool!Holders
      /\ restarts \in 0 .. MaxRestarts /\ MaxRestarts \in Nat
  BY PoolAssumption DEF PoolInv, Pool!TypeOK, PoolAssumption
<1>2. /\ holds' = [d \in Requests |-> IF holds[d] = "live" THEN "stale" ELSE holds[d]]
      /\ idle' = [i \in DOMAIN idle |-> IF idle[i] = "live" THEN "stale" ELSE idle[i]]
      /\ restarts' = restarts + 1 /\ restarts < MaxRestarts /\ noticed' = FALSE /\ aged' = aged
  BY DEF Pool!Restart
<1>3. /\ holds' \in [Requests -> Pool!InUse \cup {"none", "waiting"}]
      /\ Pool!Holders' = Pool!Holders
  BY <1>1, <1>2 DEF Pool!Holders, Pool!InUse
<1>4. idle' \in Seq(Pool!Records) /\ Len(idle') = Len(idle)
  <2>1. DOMAIN idle = 1 .. Len(idle) /\ Len(idle) \in Nat
    BY <1>1
  <2>2. idle' \in [1 .. Len(idle) -> Pool!Records]
    BY <1>1, <1>2, <2>1 DEF Pool!Records
  <2> QED
    BY <2>1, <2>2
<1>5. Pool!TypeOK'
  <2>1. restarts' \in 0 .. MaxRestarts
    BY <1>1, <1>2
  <2>2. noticed' \in BOOLEAN
    BY <1>2, Zenon
  <2>3. aged' \subseteq Pool!Holders'
    BY <1>1, <1>2, <1>3
  <2> QED
    BY <1>3, <1>4, <2>1, <2>2, <2>3, Zenon DEF Pool!TypeOK
<1>6. Pool!ConnectionsBounded'
  BY <1>3, <1>4 DEF PoolInv, Pool!ConnectionsBounded, Pool!Total, Pool!Most
<1> QED
  BY <1>2, <1>5, <1>6 DEF PoolInv, StaleKnown

LEMMA PoolStepKeeps == ASSUME PoolInv, NEW c \in Requests, PoolStep(c) PROVE PoolInv'
<1>1. Pool!GivesUp(c) => /\ Pool!Becomes(c, "none") /\ holds[c] = "waiting"
                         /\ UNCHANGED <<idle, aged, restarts, noticed>>
  BY DEF Pool!GivesUp
<1>2. Pool!Connected(c) => /\ Pool!Becomes(c, "live") /\ holds[c] \in {"connecting", "reconnecting"}
                           /\ UNCHANGED <<idle, aged, restarts, noticed>>
  BY DEF Pool!Connected
<1> QED
  BY <1>1, <1>2, TakesIdleKeeps, WaitKeeps, ReturnKeeps DEF PoolStep

LEMMA PoolInvNext == ASSUME PoolInv, [ServerNext]_serverVars PROVE PoolInv'
<1>1. CASE UNCHANGED pool
  <2>1. UNCHANGED <<holds, idle, aged, restarts, noticed>>
    BY <1>1 DEF pool
  <2>2. Pool!TypeOK' /\ Pool!ConnectionsBounded'
    BY <2>1 DEF PoolInv, Pool!TypeOK, Pool!ConnectionsBounded, Pool!Total, Pool!Most, Pool!Holders
  <2> QED
    BY <2>1, <2>2 DEF PoolInv, StaleKnown
<1>2. UNCHANGED serverVars => UNCHANGED pool
  BY DEF serverVars
<1> QED
  BY <1>1, <1>2, PoolSteps, RestartKeeps, PoolStepKeeps

LEMMA InitPool == ServerInit => PoolInv
<1> SUFFICES ASSUME Pool!Init PROVE PoolInv
  BY DEF ServerInit
<1>1. Pool!TypeOK
  <2>1. noticed \in BOOLEAN
    BY Zenon DEF Pool!Init
  <2>4. idle \in Seq(Pool!Records) /\ aged \subseteq Pool!Holders
    BY DEF Pool!Init
  <2>2. restarts \in 0 .. MaxRestarts
    BY PoolAssumption DEF Pool!Init, PoolAssumption
  <2>3. holds \in [Requests -> Pool!InUse \cup {"none", "waiting"}]
    BY DEF Pool!Init
  <2> QED
    BY <2>1, <2>2, <2>3, <2>4, Zenon DEF Pool!TypeOK
<1>2. Pool!Holders = {} /\ idle = <<>> /\ ~noticed
  BY DEF Pool!Init, Pool!Holders, Pool!InUse
<1>3. Pool!ConnectionsBounded
  <2>1. Cardinality(Pool!Holders) = 0
    BY <1>2, FS_EmptySet
  <2> QED
    BY <1>2, <2>1, SameCardinality, PoolAssumption
       DEF Pool!ConnectionsBounded, Pool!Total, Pool!Most, PoolAssumption
<1> QED
  BY <1>1, <1>2, <1>3 DEF PoolInv, StaleKnown

\* The inductive invariant of the pool: types, its bounds, and where a stale
\* connection can be once the pool was told (database.py:66-73).
THEOREM PoolInvariant == ServerSpec => []PoolInv
  BY InitPool, PoolInvNext, PTL DEF ServerSpec

\* Never more than pool_size + max_overflow connections, nor more than
\* pool_size idle, for any sizes, failures and restarts (database.py:70-71).
THEOREM ConnectionsAreBounded == ServerSpec => []ConnectionsBounded
<1>1. PoolInv => ConnectionsBounded
  BY DEF PoolInv, ConnectionsBounded
<1> QED
  BY <1>1, PoolInvariant, PTL

\* A connection is handed out stale only from a queue that still has stale ones.
LEMMA HandedStale ==
  ASSUME PoolInv, NEW c \in Requests, PoolStep(c) \/ Pool!Restart \/ UNCHANGED pool,
         NEW d \in Requests, Pool!StaleHandedOut(d)
  PROVE  ~noticed
<1>1. /\ holds \in [Requests -> Pool!InUse \cup {"none", "waiting"}]
      /\ idle \in Seq(Pool!Records)
  BY DEF PoolInv, Pool!TypeOK
<1>2. holds[d] \in {"none", "waiting"} /\ holds'[d] = "stale"
  BY DEF Pool!StaleHandedOut
<1>3. PoolStep(c)
  BY <1>1, <1>2 DEF Pool!Restart, pool
<1>4. Pool!TakesIdle(c) /\ c = d
  BY <1>1, <1>2, <1>3 DEF PoolStep, Pool!TakesIdle, Pool!Becomes, Pool!GivesUp,
     Pool!Connected, Pool!ConnectFails, Pool!Release, Pool!Notice
<1>5. idle # <<>> /\ Head(idle) = "stale"
  BY <1>1, <1>2, <1>4 DEF Pool!TakesIdle, Pool!Becomes
<1>6. 1 \in DOMAIN idle /\ idle[1] = "stale"
  BY <1>1, <1>5
<1> QED
  BY <1>6 DEF PoolInv, StaleKnown

\* One failure is enough: whoever finds its connection stale rids the pool of
\* every other such one (pool_pre_ping=False, database.py:69).
THEOREM StaleIsHandedOnce == ServerSpec => StaleHandedOnce
<1>1. PoolInv /\ [ServerNext]_serverVars => [Pool!NoStaleAfterNotice]_serverVars
  <2> SUFFICES ASSUME PoolInv, ServerNext, NEW d \in Requests, Pool!StaleHandedOut(d)
               PROVE  ~noticed
    BY DEF Pool!NoStaleAfterNotice
  <2>1. PICK c \in Requests : PoolStep(c) \/ Pool!Restart \/ UNCHANGED pool
    BY PoolSteps
  <2> QED
    BY <2>1, HandedStale
<1> QED
  BY <1>1, PoolInvariant, PTL DEF ServerSpec, StaleHandedOnce

-----------------------------------------------------------------------------
(* Requests and their connections. *)

\* What TransactionsConnected says of one request, and that one which has not
\* been sent has none.
Wired(r) ==
    /\ pc[r] = "idle" => holds[r] = "none"
    /\ r \in InFlight /\ pc[r] # "received" => holds[r] \in {"live", "stale"}
    /\ pc[r] = "received" => holds[r] # "none"
    /\ holds[r] \notin {"none", "live", "stale"} => pc[r] = "received"

AllWired == \A r \in Requests : Wired(r)

SameFor(q) == pc'[q] = pc[q] /\ holds'[q] = holds[q]

LEMMA Unmoved == ASSUME NEW q \in Requests, Wired(q), SameFor(q) PROVE Wired(q)'
  BY DEF Wired, SameFor, InFlight

LEMMA OthersUnmoved ==
  ASSUME IInv, PoolInv, NEW r \in Requests, NEW q \in Requests \ {r},
         \/ \E b \in Bodies : Arrive(r, b)
         \/ Serve(r) \/ Work(r) \/ Refused(r) \/ Return(r)
  PROVE  SameFor(q)
<1>0. RouterTypeOK /\ holds \in [Requests -> Pool!InUse \cup {"none", "waiting"}]
  BY DEF IInv, RouterInv, PoolInv, Pool!TypeOK
<1>1. ASSUME UNCHANGED pool \/ PoolStep(r) PROVE holds'[q] = holds[q]
  BY <1>0, <1>1 DEF pool, PoolStep, Pool!TakesIdle, Pool!Becomes, Pool!GivesUp,
     Pool!Connected, Pool!ConnectFails, Pool!Release, Pool!Notice
<1>2. UNCHANGED pool \/ PoolStep(r)
  BY DEF Arrive, Serve, Proceeds, Denied, Lost, Work, Refused, Return, PoolStep,
     Pool!Ask, Pool!Granted, Pool!RoomAtLast
<1>3. ASSUME NEW b \in Bodies, Send(r, b) PROVE pc'[q] = pc[q]
  BY <1>0, <1>3 DEF Send, RouterTypeOK
<1>4. Fail(r) \/ Deadlock(r) => pc'[q] = pc[q]
  BY <1>0 DEF Fail, Deadlock, RollsBack, Raises, Answers, Moves, RouterTypeOK
<1>5. Handle(r) => pc'[q] = pc[q]
  BY <1>0, HandleMovesOne DEF Stays
<1>6. UNCHANGED vars => pc'[q] = pc[q]
  BY DEF vars
<1>7. pc'[q] = pc[q]
  BY <1>3, <1>4, <1>5, <1>6 DEF Arrive, Serve, Proceeds, Denied, Lost, Work, Refused, Return, Fails
<1> QED
  BY <1>1, <1>2, <1>7 DEF SameFor

LEMMA OwnWired ==
  ASSUME IInv, PoolInv, NEW r \in Requests, Wired(r),
         \/ \E b \in Bodies : Arrive(r, b)
         \/ Serve(r) \/ Work(r) \/ Refused(r) \/ Return(r)
  PROVE  Wired(r)'
<1>0. /\ RouterTypeOK /\ holds \in [Requests -> Pool!InUse \cup {"none", "waiting"}]
      /\ idle \in Seq(Pool!Records)
  BY DEF IInv, RouterInv, PoolInv, Pool!TypeOK
<1>1. ASSUME NEW b \in Bodies, Arrive(r, b) PROVE Wired(r)'
  <2>1. pc'[r] = "received"
    BY <1>0, <1>1, SendReceives DEF Arrive
  <2>2. holds'[r] # "none"
    BY <1>0, <1>1 DEF Arrive, Pool!Ask, Pool!TakesIdle, Pool!Becomes, Pool!Records
  <2> QED
    BY <2>1, <2>2 DEF Wired, InFlight
<1>2. CASE Proceeds(r)
  <2>1. pc[r] = "received" /\ pc'[r] = pc[r]
    BY <1>2 DEF Proceeds, Wired, vars, Pool!Granted, Pool!RoomAtLast, Pool!Connected
  <2>2. holds'[r] # "none"
    BY <1>0, <1>2 DEF Proceeds, Pool!Granted, Pool!RoomAtLast, Pool!Connected,
       Pool!TakesIdle, Pool!Becomes, Pool!Records
  <2> QED
    BY <2>1, <2>2 DEF Wired, InFlight
<1>3. CASE Denied(r) \/ Lost(r)
  <2>1. pc'[r] = "closed"
    BY <1>0, <1>3, RollbackEnds DEF Denied, Lost, Fails, Fail, Ends
  <2>2. holds'[r] = "none"
    BY <1>0, <1>3 DEF Denied, Lost, Pool!GivesUp, Pool!ConnectFails, Pool!Notice, Pool!Becomes
  <2> QED
    BY <2>1, <2>2 DEF Wired, InFlight, Settled
<1>4. CASE Work(r) \/ Refused(r)
  <2>1. holds'[r] = "live"
    BY <1>4 DEF Work, Refused, pool
  <2>2. pc'[r] \notin {"idle", "received"}
    BY <1>0, <1>4, RollbackEnds, HandleGoes
       DEF Work, Refused, Fails, Fail, Deadlock, Ends, Stays, DeleteVersion, Answered
  <2> QED
    BY <2>1, <2>2 DEF Wired, InFlight
<1>5. CASE Return(r)
  <2>1. pc[r] \in Settled /\ pc'[r] = pc[r]
    BY <1>5 DEF Return, vars
  <2>2. holds'[r] = "none"
    BY <1>0, <1>5 DEF Return, Pool!Release, Pool!Notice, Pool!Becomes
  <2> QED
    BY <2>1, <2>2 DEF Wired, InFlight, Settled
<1> QED
  BY <1>1, <1>2, <1>3, <1>4, <1>5 DEF Serve

LEMMA WiredNext == ASSUME IInv, PoolInv, AllWired, [ServerNext]_serverVars PROVE AllWired'
<1> SUFFICES ASSUME NEW q \in Requests PROVE Wired(q)'
  BY DEF AllWired
<1>0. Wired(q) /\ holds \in [Requests -> Pool!InUse \cup {"none", "waiting"}]
  BY DEF AllWired, PoolInv, Pool!TypeOK
<1>1. ASSUME NEW r \in Requests, \/ \E b \in Bodies : Arrive(r, b)
                                 \/ Serve(r) \/ Work(r) \/ Refused(r) \/ Return(r)
      PROVE  Wired(q)'
  BY <1>0, <1>1, OthersUnmoved, OwnWired, Unmoved
<1>2. CASE DatabaseRestarts
  BY <1>0, <1>2 DEF DatabaseRestarts, Pool!Restart, vars, Wired, InFlight
<1>3. CASE AllQuiet \/ UNCHANGED serverVars
  <2>1. SameFor(q)
    BY <1>3 DEF AllQuiet, Quiet, serverVars, vars, pool, SameFor
  <2> QED
    BY <1>0, <2>1, Unmoved
<1> QED
  BY <1>1, <1>2, <1>3 DEF ServerNext

LEMMA WiredInvariant == ServerSpec => []AllWired
<1>1. ServerInit => AllWired
  BY DEF ServerInit, Init, Pool!Init, AllWired, Wired, InFlight
<1>2. ServerSpec => []IInv
  BY ServerIsRouter, Invariant, PTL
<1>3. IInv /\ PoolInv /\ AllWired /\ [ServerNext]_serverVars => AllWired'
  BY WiredNext
<1> QED
  BY <1>1, <1>2, <1>3, PoolInvariant, PTL DEF ServerSpec

\* Who holds row locks has a connection, whatever the sizes and the failures: a
\* wait for the pool never closes a circle of waits (database.py:102-107).
THEOREM TransactionsAreConnected == ServerSpec => []TransactionsConnected
<1>1. AllWired => TransactionsConnected
  BY DEF AllWired, Wired, TransactionsConnected
<1> QED
  BY <1>1, WiredInvariant, PTL

-----------------------------------------------------------------------------
(* Waits. *)

\* The stages that each kind of request goes through.
StagesFit ==
    \A r \in Requests :
        /\ pc[r] = "missed" => body[r].op = "create"
        /\ pc[r] = "loaded" => body[r].op \in {"update", "delete", "versions"}
        /\ pc[r] = "flushed" => body[r].op = "update"
        /\ pc[r] = "replied" => body[r].op \in {"create", "update", "delete"}
        /\ pc[r] = "deleting" => body[r].op = "delete"

LEMMA StagesFitNext == ASSUME RouterTypeOK, StagesFit, [Next]_vars PROVE StagesFit'
<1> SUFFICES ASSUME NEW q \in Requests
             PROVE  /\ pc'[q] = "missed" => body'[q].op = "create"
                    /\ pc'[q] = "loaded" => body'[q].op \in {"update", "delete", "versions"}
                    /\ pc'[q] = "flushed" => body'[q].op = "update"
                    /\ pc'[q] = "replied" => body'[q].op \in {"create", "update", "delete"}
                    /\ pc'[q] = "deleting" => body'[q].op = "delete"
  BY DEF StagesFit
<1>1. CASE Stays(q)
  BY <1>1 DEF Stays, StagesFit
<1>2. CASE Ends(q) \/ RollsBack(q) \/ \E b \in Bodies : Send(q, b)
  BY <1>2, RollbackEnds, SendReceives DEF Ends
<1>3. CASE Handle(q) /\ pc'[q] # "closed"
  BY <1>1, <1>3, HandleGoes DEF CreateMiss, CreateReturn, UpdateLoad, UpdateFlush,
     UpdateReturn, DeleteLoad, DeleteReturn, DeleteAd, VersionsLoad, At
<1> QED
  BY <1>1, <1>2, <1>3, StaysOrMoves

\* A set of natural numbers has a least one.
LEMMA Least ==
  ASSUME NEW S \in SUBSET Nat, S # {}
  PROVE  \E m \in S : \A n \in S : m <= n
<1>1. PICK m \in S : \A n \in S : <<n, m>> \notin OpToRel(<, Nat)
  BY NatLessThanWellFounded, WFMin, Zenon
<1>2. \A n \in S : ~(n < m)
  BY <1>1 DEF OpToRel
<1> QED
  BY <1>2

\* A DELETE that has version rows left to delete has one to delete next.
LEMMA SomeIsUpcoming ==
  ASSUME Facts!HistoryInv, NEW r \in Requests, Left(r) # {}
  PROVE  Upcoming(r) # {}
<1>1. Left(r) \subseteq AdIds
  BY Tables DEF Left
<1> DEFINE ranks == {Rank[v] : v \in Left(r)}
<1>2. ranks \in SUBSET Nat /\ ranks # {}
  BY <1>1, RouterAssumption DEF RouterAssumption
<1> HIDE DEF ranks
<1>3. PICK m \in ranks : \A n \in ranks : m <= n
  BY <1>2, Least
<1>4. PICK v \in Left(r) : \A w \in Left(r) : Rank[v] <= Rank[w]
  BY <1>3 DEF ranks
<1> QED
  BY <1>4 DEF Upcoming

\* With a connection, a request goes on or waits for a row.
LEMMA ConnectedGoOrWait ==
  ASSUME RouterTypeOK, Facts!HistoryInv, StagesFit, AllWired, NEW r \in Requests,
         holds[r] = "live"
  PROVE  Goes(r) \/ \E q \in Requests : WaitsForRow(r, q)
<1>1. SUFFICES ASSUME ~Ready(r), pc[r] \notin Settled
               PROVE  \E q \in Requests : Awaits(r, q)
  BY DEF Goes, WaitsForRow
<1> DEFINE a == body[r].ad
<1>2. pc[r] # "idle" /\ pc[r] \in Stages
  BY DEF AllWired, Wired, RouterTypeOK
<1>3. CASE pc[r] \in {"received", "missed", "flushed"}
  BY <1>1, <1>3 DEF Ready
<1>4. CASE pc[r] = "loaded"
  <2>1. /\ At(r, "loaded", "update") /\ ads[a] # Gone /\ ~NullsColumn(r)
        /\ Removing(a) # {} \/ (Dirty(r) # {} /\ Writing(a) # {})
    BY <1>1, <1>4 DEF Ready, At
  <2>2. Removing(a) \subseteq Requests /\ Writing(a) \subseteq Requests
    BY DEF Removing, Writing, Sharing
  <2> QED
    BY <2>1, <2>2 DEF Awaits
<1>5. ASSUME pc[r] \in Answered, body[r].op = "delete", Left(r) # {}
      PROVE  \E q \in Requests : Awaits(r, q)
  <2>1. \A v \in Upcoming(r) : Holding(v) # {}
    BY <1>1, <1>5 DEF Ready
  <2>2. PICK v \in Upcoming(r) : TRUE
    BY <1>5, SomeIsUpcoming
  <2>3. PICK q \in Requests : q \in Holding(v)
    BY <2>1, <2>2 DEF Holding
  <2> QED
    BY <1>5, <2>1, <2>2, <2>3 DEF Awaits
<1>6. CASE pc[r] = "replied"
  <2>1. At(r, "replied", "delete")
    BY <1>1, <1>6 DEF StagesFit, Ready, At
  <2>2. CASE Left(r) = {}
    <3>1. ads[a] # Gone /\ Sharing(a) \cup Removing(a) # {}
      BY <1>1, <2>1, <2>2 DEF Ready
    <3>2. Sharing(a) \cup Removing(a) \subseteq Requests
      BY DEF Removing, Sharing
    <3> QED
      BY <2>1, <2>2, <3>1, <3>2 DEF Awaits
  <2>3. CASE Left(r) # {}
    BY <1>5, <1>6, <2>1, <2>3 DEF At, Answered
  <2> QED
    BY <2>2, <2>3
<1>7. CASE pc[r] = "deleting"
  BY <1>1, <1>5, <1>7 DEF StagesFit, Ready, Answered
<1> QED
  BY <1>1, <1>2, <1>3, <1>4, <1>6, <1>7 DEF Stages, Settled

\* An empty pool that has no room for more is in somebody's hands.
LEMMA FullPoolIsHeld ==
  ASSUME PoolInv, idle = <<>>, ~Pool!Room
  PROVE  \E q \in Requests : q \in Pool!Holders
<1>1. Cardinality(Pool!Holders) \in Nat /\ PoolSize + MaxOverflow \in Nat \ {0}
  BY HoldersFinite, PoolAssumption DEF PoolAssumption
<1>2. ~(Cardinality(Pool!Holders) < PoolSize + MaxOverflow)
  BY <1>1, SameCardinality DEF Pool!Room, Pool!Total, Pool!Most
<1>3. Cardinality(Pool!Holders) # 0
  BY <1>1, <1>2
<1>4. Pool!Holders # {}
  BY <1>3, FS_EmptySet
<1>5. PICK q : q \in Pool!Holders
  BY <1>4
<1> QED
  BY <1>5 DEF Pool!Holders

LEMMA GoesOrWaits ==
  ASSUME RouterTypeOK, Facts!HistoryInv, StagesFit, PoolInv, AllWired,
         NEW r \in Requests, r \in InFlight \/ holds[r] # "none"
  PROVE  Goes(r) \/ \E q \in Requests : WaitsFor(r, q)
<1>1. holds \in [Requests -> Pool!InUse \cup {"none", "waiting"}]
  BY DEF PoolInv, Pool!TypeOK
<1>2. CASE holds[r] = "live"
  BY <1>2, ConnectedGoOrWait DEF WaitsFor
<1>3. CASE holds[r] = "waiting"
  BY <1>3, FullPoolIsHeld DEF Goes, WaitsFor, WaitsForConnection
<1>4. CASE holds[r] \in {"stale", "connecting", "reconnecting"}
  BY <1>4 DEF Goes
<1> QED
  BY <1>1, <1>2, <1>3, <1>4 DEF AllWired, Wired, InFlight, Settled, Pool!InUse

\* Whoever is waited for has a connection: no wait for the pool is on a circle.
LEMMA WaitedForIsConnected ==
  ASSUME LocksFit, AllWired, NEW p \in Requests, NEW r \in Requests, WaitsFor(p, r)
  PROVE  holds[r] # "waiting"
<1>1. CASE WaitsForConnection(p, r)
  BY <1>1 DEF WaitsForConnection, Pool!Holders, Pool!InUse
<1>2. CASE WaitsForRow(p, r)
  <2>1. pc[r] \in {"flushed", "replied", "deleting"}
    BY <1>2 DEF WaitsForRow, Awaits, Writing, Sharing, Removing, Holding, LocksFit, Answered
  <2> QED
    BY <2>1 DEF AllWired, Wired
<1> QED
  BY <1>1, <1>2 DEF WaitsFor

\* Whoever has rows that others wait for, and waits himself, is a DELETE: a PUT
\* that has rows has all that it needs.
LEMMA MiddleOfAChain ==
  ASSUME LocksFit, NEW p \in Requests, NEW r \in Requests, NEW q \in Requests,
         WaitsForRow(p, r), WaitsForRow(r, q)
  PROVE  pc[r] \in Answered /\ body[r].op = "delete"
<1>1. \/ pc[r] \in {"flushed", "replied"} /\ body[r].op = "update"
      \/ pc[r] \in Answered /\ body[r].op = "delete"
  BY DEF WaitsForRow, Awaits, Writing, Sharing, Removing, Holding, LocksFit, Answered
<1> QED
  BY <1>1 DEF WaitsForRow, Awaits, At

\* A DELETE waits for another one only if both delete the same ad.
LEMMA DeletesOfOneAd ==
  ASSUME OneAdPerVersion, LocksFit, NEW r \in Requests, NEW q \in Requests,
         body[r].op = "delete", body[q].op = "delete", WaitsForRow(r, q)
  PROVE  body[r].ad = body[q].ad
<1>1. CASE q \in Sharing(body[r].ad) \cup Removing(body[r].ad)
  BY <1>1 DEF Sharing, Removing
<1>2. ASSUME NEW v \in Upcoming(r), q \in Holding(v) PROVE body[r].ad = body[q].ad
  <2>1. PICK w \in versions : w.by = v /\ w.ad = body[r].ad
    BY DEF Upcoming, Left
  <2> QED
    BY <1>2, <2>1 DEF Holding, LocksFit
<1> QED
  BY <1>1, <1>2 DEF WaitsForRow, Awaits, At

\* Every place on a circle of waits has one before it.
LEMMA OnlyDeletesOnCircles ==
  ASSUME OneAdPerVersion, LocksFit, AllWired, NEW n \in Nat \ {0},
         NEW c \in [0 .. n -> Requests], c[0] = c[n],
         \A i \in 0 .. n - 1 : WaitsFor(c[i], c[i + 1])
  PROVE  \A i \in 0 .. n - 1 : /\ pc[c[i]] \in Answered /\ body[c[i]].op = "delete"
                               /\ body[c[i]].ad = body[c[i + 1]].ad
<1>1. ASSUME NEW i \in 0 .. n - 1
      PROVE  \E h \in 0 .. n - 1 : c[h + 1] = c[i]
  <2>1. CASE i = 0
    <3>1. n - 1 \in 0 .. n - 1 /\ c[(n - 1) + 1] = c[i]
      BY <2>1
    <3> QED
      BY <3>1
  <2>2. CASE i # 0
    <3>1. i - 1 \in 0 .. n - 1 /\ c[(i - 1) + 1] = c[i]
      BY <2>2
    <3> QED
      BY <3>1
  <2> QED
    BY <2>1, <2>2
<1>2. ASSUME NEW i \in 0 .. n - 1
      PROVE  c[i] \in Requests /\ c[i + 1] \in Requests /\ WaitsForRow(c[i], c[i + 1])
  <2>1. c[i] \in Requests /\ c[i + 1] \in Requests
    OBVIOUS
  <2>2. PICK h \in 0 .. n - 1 : c[h + 1] = c[i]
    BY <1>1
  <2>3. c[h] \in Requests /\ WaitsFor(c[h], c[h + 1])
    OBVIOUS
  <2>4. holds[c[i]] # "waiting"
    BY <2>1, <2>2, <2>3, WaitedForIsConnected
  <2>5. WaitsFor(c[i], c[i + 1])
    OBVIOUS
  <2> QED
    BY <2>1, <2>4, <2>5 DEF WaitsFor, WaitsForConnection
<1>3. ASSUME NEW i \in 0 .. n - 1
      PROVE  pc[c[i]] \in Answered /\ body[c[i]].op = "delete"
  <2>1. PICK h \in 0 .. n - 1 : c[h + 1] = c[i]
    BY <1>1
  <2>2. /\ c[h] \in Requests /\ c[i] \in Requests /\ c[i + 1] \in Requests
        /\ WaitsForRow(c[h], c[i]) /\ WaitsForRow(c[i], c[i + 1])
    BY <1>2, <2>1
  <2> QED
    BY <2>2, MiddleOfAChain
<1>4. ASSUME NEW i \in 0 .. n - 1
      PROVE  body[c[i + 1]].op = "delete"
  <2>1. CASE i + 1 = n
    <3>1. 0 \in 0 .. n - 1 /\ c[i + 1] = c[0]
      BY <2>1
    <3> QED
      BY <1>3, <3>1
  <2>2. CASE i + 1 # n
    <3>1. i + 1 \in 0 .. n - 1
      BY <2>2
    <3> QED
      BY <1>3, <3>1
  <2> QED
    BY <2>1, <2>2
<1>5. ASSUME NEW i \in 0 .. n - 1
      PROVE  body[c[i]].ad = body[c[i + 1]].ad
  BY <1>2, <1>3, <1>4, DeletesOfOneAd
<1> QED
  BY <1>3, <1>5

\* Every request goes on or waits for another one, and only DELETEs of one ad
\* can wait in a circle, once they have been answered (commit() sends their
\* statements, database.py:107, the versions each has loaded before the ad,
\* models.py:147-151), for any number of requests, pool size and restarts.
THEOREM OnlyDeletesCanDeadlock == ServerSpec => []OnlyDeletesDeadlock
<1>1. ServerInit => StagesFit
  BY DEF ServerInit, Init, StagesFit
<1>2. ServerSpec => []IInv
  BY ServerIsRouter, Invariant, PTL
<1>3. IInv /\ StagesFit /\ [ServerNext]_serverVars => StagesFit'
  <2>1. [ServerNext]_serverVars => [Next]_vars
    BY StepIsRouters DEF serverVars
  <2> QED
    BY <2>1, StagesFitNext DEF IInv, RouterInv
<1>4. IInv /\ StagesFit /\ PoolInv /\ AllWired => OnlyDeletesDeadlock
  <2> SUFFICES ASSUME IInv, StagesFit, PoolInv, AllWired PROVE OnlyDeletesDeadlock
    OBVIOUS
  <2>1. Cardinality(Requests) \in Nat
    BY PoolAssumption, FS_CardinalityType DEF PoolAssumption
  <2>2. ASSUME NEW r \in Requests, r \in InFlight \/ holds[r] # "none"
        PROVE  Goes(r) \/ \E q \in Requests : WaitsFor(r, q)
    BY <2>2, GoesOrWaits DEF IInv, RouterInv
  <2>3. ASSUME NEW n \in 1 .. Cardinality(Requests), NEW c \in [0 .. n -> Requests],
               c[0] = c[n], \A i \in 0 .. n - 1 : WaitsFor(c[i], c[i + 1])
        PROVE  \A i \in 0 .. n - 1 : /\ pc[c[i]] \in Answered /\ body[c[i]].op = "delete"
                                     /\ body[c[i]].ad = body[c[i + 1]].ad
    <3>1. n \in Nat \ {0}
      BY <2>1
    <3> QED
      BY <2>3, <3>1, OnlyDeletesOnCircles DEF IInv, RouterInv
  <2> QED
    BY <2>2, <2>3 DEF OnlyDeletesDeadlock
<1>5. ServerSpec => []StagesFit
  BY <1>1, <1>2, <1>3, PTL DEF ServerSpec
<1> QED
  BY <1>2, <1>4, <1>5, PoolInvariant, WiredInvariant, PTL

\* What the router promises, the server keeps: pool, restarts and lost
\* connections take nothing from the theorems of AdsRouter.
THEOREM ServerKeepsHistory == ServerSpec => ImplementsHistory
  BY ServerIsRouter, Implementation, PTL
=============================================================================
