-------------------------- MODULE JwksCacheProofs ---------------------------
(***************************************************************************)
(* Proofs about JwksCache, for any set of keys and tokens and any TTL.     *)
(* The inductive invariant adds to the type the one fact that bounds the   *)
(* trust in a withdrawn key: a key that is cached but no longer published  *)
(* was withdrawn after the cache was filled, so it has been gone for no    *)
(* longer than the cache is old.                                           *)
(***************************************************************************)
EXTENDS JwksCache, TLAPS

Retirement ==
    /\ \A k \in published : retired[k] = 0
    /\ \A k \in keys : k \in published \/ retired[k] <= age

Undecided == pc \in {"checking", "rechecking"} => verdict = "none"

IInv == TypeOK /\ Retirement /\ Undecided

\* What get() may leave in the cache, case by case.
LEMMA GotsCases ==
  ASSUME TypeOK, NEW got \in Gots
  PROVE  \/ Fresh /\ got = Kept
         \/ ~Fresh /\ got = Fetched
         \/ ~Fresh /\ keys # {} /\ got = Outdated
  BY DEF Gots

\* A get() keeps the invariant of what is cached.
LEMMA CachedKeeps ==
  ASSUME IInv, NEW got \in Gots, UNCHANGED idp
  PROVE  /\ got.keys \subseteq Kids /\ got.age \in 0 .. TTL /\ got.failed \in BOOLEAN
         /\ \A k \in got.keys : k \in published \/ retired[k] <= got.age
         /\ (IF got = Fetched THEN published ELSE held) \subseteq published
<1>1. CASE got = Kept
  BY <1>1 DEF IInv, TypeOK, Retirement, Kept
<1>2. CASE got = Fetched
  BY <1>2, TTLAssumption DEF IInv, TypeOK, Fetched
<1>3. CASE got = Outdated
  BY <1>3 DEF IInv, TypeOK, Retirement, Outdated
<1> QED
  BY <1>1, <1>2, <1>3, GotsCases DEF IInv

-----------------------------------------------------------------------------
\* The environment's steps and the clock keep the invariant.
LEMMA EnvironmentKeeps ==
  ASSUME IInv,
         Tick \/ \E k \in Kids : Publish(k) \/ Withdraw(k)
  PROVE  IInv'
<1>1. CASE Tick
  <2>1. /\ \A t \in 0 .. TTL : Later(t) \in 0 .. TTL
        /\ \A s, t \in 0 .. TTL : s <= t => Later(s) <= Later(t)
    BY TTLAssumption DEF Later
  <2>2. age' = Later(age)
        /\ retired' = [k \in Kids |-> IF k \in published THEN 0 ELSE Later(retired[k])]
    BY <1>1 DEF Tick
  <2>3. TypeOK'
    BY <1>1, <2>1, <2>2, TTLAssumption DEF Tick, IInv, TypeOK, check
  <2>4. Retirement'
    <3>1. \A k \in published : retired'[k] = 0
      BY <2>2 DEF IInv, TypeOK
    <3>2. ASSUME NEW k \in keys, k \notin published
          PROVE  retired'[k] <= age'
      BY <2>1, <2>2, <3>2 DEF IInv, TypeOK, Retirement
    <3> QED
      BY <1>1, <3>1, <3>2 DEF Tick, Retirement
  <2> QED
    BY <1>1, <2>3, <2>4 DEF Tick, IInv, Undecided, check
<1>2. ASSUME NEW k \in Kids, Publish(k)
      PROVE  IInv'
  <2>1. TypeOK'
    BY <1>2, TTLAssumption DEF Publish, IInv, TypeOK, check
  <2>2. Retirement'
    BY <1>2 DEF Publish, IInv, TypeOK, Retirement
  <2> QED
    BY <1>2, <2>1, <2>2 DEF Publish, IInv, Undecided, check
<1>3. ASSUME NEW k \in Kids, Withdraw(k)
      PROVE  IInv'
  <2>1. TypeOK'
    BY <1>3 DEF Withdraw, IInv, TypeOK, check
  <2>2. Retirement'
    BY <1>3 DEF Withdraw, IInv, TypeOK, Retirement
  <2> QED
    BY <1>3, <2>1, <2>2 DEF Withdraw, IInv, Undecided, check
<1> QED
  BY <1>1, <1>2, <1>3

\* The worker's steps keep it.
LEMMA WorkerKeeps ==
  ASSUME IInv,
         Warm \/ Restart \/ Check \/ \E t \in Tokens : Present(t)
  PROVE  IInv'
<1>1. CASE Warm
  <2>1. CASE Cached(Fetched)
    <3>1. /\ keys' = published /\ age' = 0 /\ failed' = failed
          /\ held' = published
      BY <2>1 DEF Cached, Fetched
    <3> QED
      BY <1>1, <3>1, TTLAssumption
         DEF Warm, IInv, TypeOK, Retirement, Undecided, idp, check
  <2>2. CASE UNCHANGED <<keys, age, failed, held>>
    BY <1>1, <2>2 DEF Warm, IInv, TypeOK, Retirement, Undecided, idp, check
  <2> QED
    BY <1>1, <2>1, <2>2 DEF Warm
<1>2. CASE Restart
  BY <1>2, TTLAssumption DEF Restart, IInv, TypeOK, Retirement, Undecided, idp
<1>3. ASSUME NEW t \in Tokens, Present(t)
      PROVE  IInv'
  BY <1>3, TokenAssumption DEF Present, IInv, TypeOK, Retirement, Undecided, idp
<1>4. CASE Unsupported
  BY <1>4 DEF Unsupported, Answer, IInv, TypeOK, Retirement, Undecided, idp
<1>5. CASE Symmetric
  BY <1>5 DEF Symmetric, Answer, IInv, TypeOK, Retirement, Undecided, idp
<1>6. CASE Found
  <2>1. PICK got \in Gots : Cached(got)
    BY <1>6 DEF Found
  <2>2. UNCHANGED idp
    BY <1>6 DEF Found
  <2> QED
    BY <1>6, <2>1, <2>2, CachedKeeps
       DEF Found, Cached, Answer, IInv, TypeOK, Retirement, Undecided, idp
<1>7. CASE ForceRefresh
  <2>1. PICK got \in Gots : /\ failed' = got.failed
                            /\ held' = IF got = Fetched THEN published ELSE held
    BY <1>7 DEF ForceRefresh
  <2>2. UNCHANGED idp
    BY <1>7 DEF ForceRefresh
  <2> QED
    BY <1>7, <2>1, <2>2, CachedKeeps, TTLAssumption
       DEF ForceRefresh, IInv, TypeOK, Retirement, Undecided, idp, check
<1>8. CASE Unknown
  <2>1. PICK got \in Gots : Cached(got)
    BY <1>8 DEF Unknown
  <2>2. UNCHANGED idp
    BY <1>8 DEF Unknown
  <2> QED
    BY <1>8, <2>1, <2>2, CachedKeeps
       DEF Unknown, Cached, Answer, IInv, TypeOK, Retirement, Undecided, idp
<1>9. CASE Unreachable
  BY <1>9 DEF Unreachable, Answer, IInv, TypeOK, Retirement, Undecided, idp
<1> QED
  BY <1>1, <1>2, <1>3, <1>4, <1>5, <1>6, <1>7, <1>8, <1>9 DEF Check

\* The invariant holds in every reachable state.
THEOREM Invariant == Spec => []IInv
<1>1. Init => IInv
  <2> SUFFICES ASSUME Init PROVE IInv
    OBVIOUS
  <2>1. TypeOK
    <3>1. 0 \in 0 .. TTL /\ TTL \in 0 .. TTL
      BY TTLAssumption
    <3>2. retired \in [Kids -> 0 .. TTL] /\ age \in 0 .. TTL
      BY <3>1 DEF Init
    <3>3. failed \in BOOLEAN
      BY DEF Init
    <3> QED
      BY <3>2, <3>3 DEF Init, TypeOK
  <2>2. Retirement /\ Undecided
    BY DEF Init, Retirement, Undecided
  <2> QED
    BY <2>1, <2>2 DEF IInv
<1>2. IInv /\ [Next]_vars => IInv'
  <2>1. CASE UNCHANGED vars
    BY <2>1 DEF IInv, TypeOK, Retirement, Undecided, vars
  <2> QED
    BY <2>1, EnvironmentKeeps, WorkerKeeps DEF Next
<1> QED
  BY <1>1, <1>2, PTL DEF Spec

\* Every reachable state has its type.
THEOREM TypeCorrect == Spec => []TypeOK
  BY Invariant, PTL DEF IInv

-----------------------------------------------------------------------------
\* A check that answers does so in one of these steps.
LEMMA AnswersCases ==
  ASSUME IInv, NEW v \in {"accepted", "refused"}, Answers(v)
  PROVE  \/ Unsupported /\ v = "refused"
         \/ Found /\ v = "accepted"
         \/ Unknown /\ v = "refused"
         \/ Unreachable /\ v = "refused"
<1>1. ~Symmetric
  BY DEF Answers, Symmetric, Checking
<1>2. ~ForceRefresh
  <2> SUFFICES ASSUME ForceRefresh PROVE FALSE
    OBVIOUS
  <2>1. verdict' = verdict /\ verdict = "none"
    BY DEF ForceRefresh, IInv, Undecided, check
  <2> QED
    BY <2>1 DEF Answers
<1>3. Unsupported \/ Found \/ Unknown \/ Unreachable
  BY <1>1, <1>2 DEF Answers, Check
<1>4. Unsupported \/ Unknown \/ Unreachable => v = "refused"
  BY DEF Answers, Unsupported, Unknown, Unreachable, Answer
<1>5. Found => v = "accepted"
  BY DEF Answers, Found, Answer
<1> QED
  BY <1>3, <1>4, <1>5

\* RetiredKeyBounded: a withdrawn key is trusted for less than the TTL, or
\* while fetches fail (_is_fresh, auth.py:77-88).
THEOREM TrustIsBounded == Spec => RetiredKeyBounded
<1>1. IInv /\ [Next]_vars => [BoundedStep]_vars
  <2> SUFFICES ASSUME IInv, Answers("accepted"), token.kid \notin published
               PROVE  retired[token.kid] < TTL \/ failed'
    BY DEF BoundedStep
  <2>1. Found
    BY AnswersCases
  <2>2. PICK got \in Gots : token.kid \in got.keys /\ Cached(got)
    BY <2>1 DEF Found
  <2>3. CASE Fresh /\ got = Kept
    <3>1. token.kid \in keys /\ age < TTL
      BY <2>2, <2>3 DEF Kept, Fresh
    <3>2. token.kid \in Kids /\ age \in Nat /\ retired[token.kid] \in Nat
      BY <3>1, TTLAssumption DEF IInv, TypeOK
    <3> QED
      BY <3>1, <3>2, TTLAssumption DEF IInv, Retirement
  <2>4. CASE got = Fetched
    BY <2>2, <2>4 DEF Fetched
  <2>5. CASE got = Outdated
    BY <2>2, <2>5 DEF Outdated, Cached
  <2> QED
    BY <2>3, <2>4, <2>5, GotsCases DEF IInv
<1> QED
  BY <1>1, Invariant, PTL DEF Spec, RetiredKeyBounded

\* RefusalsJustified: while fetches succeed, no good token of a published key
\* is refused (verify_jwt, auth.py:164-169).
THEOREM NewKeysWork == Spec => RefusalsJustified
<1>1. IInv /\ [Next]_vars => [JustifiedStep]_vars
  <2> SUFFICES ASSUME IInv, Answers("refused"), token.kid \in published
               PROVE  failed'
    BY DEF JustifiedStep
  <2>1. ~Unsupported
    BY TokenAssumption DEF Answers, Unsupported, Checking, IInv, TypeOK
  <2>2. ~Unknown
    <3> SUFFICES ASSUME Unknown PROVE FALSE
      OBVIOUS
    <3>1. PICK got \in Gots : token.kid \notin got.keys
      BY DEF Unknown
    <3>2. keys = {}
      BY DEF Unknown, IInv, TypeOK
    <3>3. got = Fetched
      BY <3>2 DEF Gots, Fresh
    <3> QED
      BY <3>1, <3>3 DEF Fetched
  <2> QED
    BY <2>1, <2>2, AnswersCases DEF Unreachable
<1> QED
  BY <1>1, Invariant, PTL DEF Spec, RefusalsJustified

\* GoodKeysKept: only a restart or an unknown or withdrawn kid takes a good
\* key out of the cache (auth.py:98-102, 162-167).
THEOREM OnlyUnknownKidsClear == Spec => GoodKeysKept
<1>1. IInv /\ [Next]_vars => [KeepsStep]_vars
  <2> SUFFICES ASSUME IInv, Next, NEW k \in keys \cap published,
                      pc' # "boot", ~(Asymmetric /\ token.kid \notin keys \cap published)
               PROVE  k \in keys'
    BY DEF KeepsStep
  <2>1. ASSUME NEW got \in Gots
        PROVE  k \in got.keys
    BY <2>1, GotsCases DEF IInv, Kept, Fetched, Outdated
  <2>2. CASE Warm
    BY <2>2 DEF Warm, Cached, Fetched
  <2>3. CASE Found \/ Unknown
    BY <2>1, <2>3 DEF Found, Unknown, Cached
  <2>4. ~ForceRefresh
    <3> SUFFICES ASSUME ForceRefresh PROVE FALSE
      OBVIOUS
    <3>1. PICK got \in Gots : token.kid \notin got.keys
      BY DEF ForceRefresh
    <3>2. token.kid \in keys \cap published
      BY DEF ForceRefresh
    <3> QED
      BY <3>1, <3>2, GotsCases DEF IInv, Kept, Fetched, Outdated
  <2>5. ~Restart
    BY DEF Restart
  <2>6. CASE Tick \/ \E l \in Kids : Publish(l) \/ Withdraw(l)
    BY <2>6 DEF Tick, Publish, Withdraw
  <2>7. CASE Unsupported \/ Symmetric \/ Unreachable \/ \E t \in Tokens : Present(t)
    BY <2>7 DEF Unsupported, Symmetric, Unreachable, Present
  <2> QED
    BY <2>2, <2>3, <2>4, <2>5, <2>6, <2>7 DEF Next, Check
<1> QED
  BY <1>1, Invariant, PTL DEF Spec, GoodKeysKept
-----------------------------------------------------------------------------
(* Every check answers, and what an outage may break. *)

\* A check goes on only from its first get() to the one forced refresh, and
\* from there it answers.
OneForcedRefresh ==
    [][Check => \/ pc' = "idle" /\ verdict' # "none"
                \/ pc = "checking" /\ pc' = "rechecking"]_vars

\* No token makes the worker fetch for ever: a check is over after two get()s
\* at the latest (verify_jwt, auth.py:157-169).
THEOREM ChecksAreShort == Spec => OneForcedRefresh
<1>1. Check => \/ pc' = "idle" /\ verdict' # "none"
               \/ pc = "checking" /\ pc' = "rechecking"
  <2>1. ASSUME NEW v \in {"accepted", "refused"}, Answer(v)
        PROVE  pc' = "idle" /\ verdict' # "none"
    BY <2>1 DEF Answer
  <2>2. Unsupported \/ Symmetric \/ Found \/ Unknown \/ Unreachable =>
          Answer("accepted") \/ Answer("refused")
    BY DEF Unsupported, Symmetric, Found, Unknown, Unreachable
  <2>3. ForceRefresh => pc = "checking" /\ pc' = "rechecking"
    BY DEF ForceRefresh
  <2> QED
    BY <2>1, <2>2, <2>3 DEF Check
<1> QED
  BY <1>1, PTL DEF Spec, OneForcedRefresh

\* No token with an unknown kid makes verify_jwt() clear the cache.
NeverCleared == pc # "rechecking"

\* What a process has fetched it still has, and a refusal bears that out.
Tolerant ==
    /\ held \subseteq keys
    /\ pc = "boot" => verdict = "none"
    /\ OutageTolerated

LEMMA TolerantNext ==
  ASSUME IInv, Tolerant, NeverCleared, NeverCleared', [Next]_vars
  PROVE  Tolerant'
<1>1. token \in Tokens \cup {NoToken} /\ (pc = "checking" => token \in Tokens)
  BY DEF IInv, TypeOK
<1>2. ASSUME NEW got \in Gots, Cached(got), idp' = idp
      PROVE  held' \subseteq keys'
  <2>1. CASE got = Fetched
    BY <1>2, <2>1 DEF Cached, Fetched
  <2>2. CASE got # Fetched
    <3>1. held' = held /\ keys' = keys
      BY <1>2, <2>2, GotsCases DEF Cached, Kept, Outdated, IInv
    <3> QED
      BY <3>1 DEF Tolerant
  <2> QED
    BY <2>1, <2>2
<1>3. CASE UNCHANGED vars
  BY <1>3 DEF vars, Tolerant, OutageTolerated
<1>4. CASE Tick \/ \E k \in Kids : Publish(k) \/ Withdraw(k)
  BY <1>4 DEF Tick, Publish, Withdraw, check, Tolerant, OutageTolerated
<1>5. CASE Warm
  <2>1. verdict' = "none" /\ pc' = "idle"
    BY <1>5 DEF Warm, check, Tolerant
  <2>2. held' \subseteq keys'
    BY <1>5 DEF Warm, Cached, Fetched, Tolerant
  <2> QED
    BY <2>1, <2>2 DEF Tolerant, OutageTolerated
<1>6. CASE Restart
  BY <1>6 DEF Restart, Tolerant, OutageTolerated
<1>7. CASE \E t \in Tokens : Present(t)
  BY <1>7 DEF Present, Tolerant, OutageTolerated
<1>8. CASE Unsupported \/ Symmetric
  <2>1. held' = held /\ keys' = keys /\ token' = token /\ pc' = "idle"
    BY <1>8 DEF Unsupported, Symmetric, Answer
  <2>2. verdict' = "refused" /\ token.good /\ token.alg = "asymmetric" => token.kid = NoKid
    BY <1>8 DEF Unsupported, Symmetric, Answer, Checking
  <2>3. NoKid \notin held
    BY TokenAssumption DEF IInv, TypeOK, TokenAssumption
  <2> QED
    BY <2>1, <2>2, <2>3 DEF Tolerant, OutageTolerated
<1>9. CASE Found
  <2>1. PICK got \in Gots : Cached(got)
    BY <1>9 DEF Found
  <2>2. held' \subseteq keys'
    BY <1>2, <1>9, <2>1 DEF Found
  <2>3. token' = token /\ pc' = "idle" /\ (verdict' = "refused" => ~token.good)
    BY <1>9 DEF Found, Answer
  <2> QED
    BY <2>2, <2>3 DEF Tolerant, OutageTolerated
<1>10. ~ForceRefresh /\ ~Unknown
  BY DEF ForceRefresh, Unknown, NeverCleared
<1>11. CASE Unreachable
  BY <1>11 DEF Unreachable, Answer, Tolerant, OutageTolerated
<1> QED
  BY <1>3, <1>4, <1>5, <1>6, <1>7, <1>8, <1>9, <1>10, <1>11 DEF Next, Check

\* The promise that an outage does not break what worked holds as long as no
\* token with an unknown kid is checked: the clear() before the second fetch is
\* all that breaks it (auth.py:98-102, 162-167).
THEOREM OutagesAreTolerated == Spec /\ []NeverCleared => []OutageTolerated
<1>1. Init => Tolerant
  BY DEF Init, Tolerant, OutageTolerated
<1>2. IInv /\ Tolerant /\ NeverCleared /\ NeverCleared' /\ [Next]_vars => Tolerant'
  BY TolerantNext
<1>3. Tolerant => OutageTolerated
  BY DEF Tolerant
<1> QED
  BY <1>1, <1>2, <1>3, Invariant, PTL DEF Spec
=============================================================================
