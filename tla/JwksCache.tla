----------------------------- MODULE JwksCache ------------------------------
(***************************************************************************)
(* _JWKSCache and verify_jwt() of auth.py: one worker process checks       *)
(* bearer tokens against signing keys it has fetched from Supabase, which  *)
(* publishes new keys and withdraws old ones meanwhile.  verify_jwt() is   *)
(* synchronous code on the event loop, so a worker checks one token at a   *)
(* time, and time passes only while a fetch is under way or none is; what  *)
(* lies between two fetches is one step.  A fetch succeeds or fails (HTTP  *)
(* error, timeout, no JSON).                                               *)
(***************************************************************************)
EXTENDS Naturals

CONSTANTS Kids,     \* ids of signing keys
          NoKid,    \* a token header without kid, or with an empty one
          Tokens,   \* the tokens that clients present
          NoToken,
          TTL       \* life of the cache, in ticks (3600 s)

ASSUME TokenAssumption ==
    /\ NoKid \notin Kids /\ NoToken \notin Tokens
    /\ Tokens \subseteq [alg : {"asymmetric", "HS256", "other"},
                         kid : Kids \cup {NoKid},
                         good : BOOLEAN]  \* signed by that key, claims in order

ASSUME TTLAssumption == TTL \in Nat \ {0}

VARIABLES published,  \* the keys Supabase's JWKS shows now
          retired,    \* ticks since a key was withdrawn, up to TTL (history)
          keys,       \* _keys_by_kid
          age,        \* time.monotonic() - _fetched_at, up to TTL
          pc,         \* what the worker is doing
          token,      \* the token it checks, or checked last
          verdict,    \* what get_current_user made of that token
          failed,     \* a fetch has failed during this check (history)
          held        \* keys fetched by this process and published ever since (history)

idp     == <<published, retired>>
check   == <<token, verdict>>
vars    == <<published, retired, keys, age, pc, token, verdict, failed, held>>

\* "rechecking": the second get(), after clear().
TypeOK ==
    /\ published \subseteq Kids
    /\ retired \in [Kids -> 0 .. TTL]
    /\ keys \subseteq Kids
    /\ age \in 0 .. TTL
    /\ pc \in {"boot", "idle", "checking", "rechecking"}
    /\ token \in Tokens \cup {NoToken}
    /\ pc \in {"checking", "rechecking"} => token # NoToken
    /\ pc = "rechecking" => keys = {}
    /\ verdict \in {"none", "accepted", "refused"}
    /\ failed \in BOOLEAN
    /\ held \subseteq published

Init ==
    /\ published \in SUBSET Kids
    /\ retired = [k \in Kids |-> 0]
    /\ keys = {} /\ age = TTL /\ held = {}
    /\ pc = "boot"
    /\ token = NoToken /\ verdict = "none" /\ failed = FALSE

-----------------------------------------------------------------------------
(* Supabase, and the clock. *)

Publish(k) ==
    /\ k \notin published
    /\ published' = published \cup {k}
    /\ retired' = [retired EXCEPT ![k] = 0]
    /\ UNCHANGED <<keys, age, pc, check, failed, held>>

Withdraw(k) ==
    /\ k \in published
    /\ published' = published \ {k}
    /\ held' = held \ {k}
    /\ UNCHANGED <<retired, keys, age, pc, check, failed>>

Later(t) == IF t < TTL THEN t + 1 ELSE TTL

Tick ==
    /\ age' = Later(age)
    /\ retired' = [k \in Kids |-> IF k \in published THEN 0 ELSE Later(retired[k])]
    /\ UNCHANGED <<published, keys, pc, check, failed, held>>

-----------------------------------------------------------------------------
(* The cache. *)

\* Mutant: the TTL is not looked at.
FreshForEver == keys # {}

Fresh == keys # {} /\ age < TTL

\* What get() may leave: the cache as it was, a new one, or, when the fetch
\* fails, the previous one; with no previous keys it raises (Unreachable).
Kept     == [keys |-> keys, age |-> age, failed |-> failed]
Fetched  == [keys |-> published, age |-> 0, failed |-> failed]
Outdated == [keys |-> keys, age |-> age, failed |-> TRUE]

\* Mutant: _refresh() drops the keys before it fetches.
GotsUnkept ==
    IF Fresh THEN {Kept}
    ELSE {Fetched} \cup (IF keys = {} THEN {} ELSE {[Outdated EXCEPT !.keys = {}]})

Gots == IF Fresh THEN {Kept} ELSE {Fetched} \cup (IF keys = {} THEN {} ELSE {Outdated})

Cached(got) ==
    /\ keys' = got.keys /\ age' = got.age /\ failed' = got.failed
    /\ held' = IF got = Fetched THEN published ELSE held

Answer(v) == verdict' = v /\ pc' = "idle" /\ UNCHANGED token

-----------------------------------------------------------------------------
(* The worker. *)

\* _warm_jwks() at startup: the process serves whether or not the fetch worked.
Warm ==
    /\ pc = "boot" /\ pc' = "idle"
    /\ Cached(Fetched) \/ UNCHANGED <<keys, age, failed, held>>
    /\ UNCHANGED <<idp, check>>

Restart ==
    /\ pc' = "boot"
    /\ keys' = {} /\ age' = TTL /\ held' = {}
    /\ verdict' = "none"
    /\ UNCHANGED <<idp, token, failed>>

Present(t) ==
    /\ pc = "idle" /\ pc' = "checking"
    /\ token' = t /\ verdict' = "none" /\ failed' = FALSE
    /\ UNCHANGED <<idp, keys, age, held>>

Checking(alg) == pc \in {"checking", "rechecking"} /\ token.alg = alg

\* Malformed header, unsupported algorithm, or no kid: 401, cache untouched.
Unsupported ==
    /\ Checking("other") \/ (Checking("asymmetric") /\ token.kid = NoKid)
    /\ Answer("refused")
    /\ UNCHANGED <<idp, keys, age, failed, held>>

Symmetric ==
    /\ Checking("HS256")
    /\ Answer(IF token.good THEN "accepted" ELSE "refused")
    /\ UNCHANGED <<idp, keys, age, failed, held>>

Asymmetric == Checking("asymmetric") /\ token.kid # NoKid

Found ==
    /\ Asymmetric
    /\ \E got \in Gots : token.kid \in got.keys /\ Cached(got)
    /\ Answer(IF token.good THEN "accepted" ELSE "refused")
    /\ UNCHANGED idp

\* Mutant: no clear() before the second get().
ForceRefreshUncleared ==
    /\ Asymmetric /\ pc = "checking"
    /\ \E got \in Gots : token.kid \notin got.keys /\ Cached(got)
    /\ pc' = "rechecking"
    /\ UNCHANGED <<idp, check>>

\* Mutant: an unknown kid is refused without another fetch.
ForceRefreshNever ==
    /\ Asymmetric /\ pc = "checking"
    /\ \E got \in Gots : token.kid \notin got.keys /\ Cached(got)
    /\ Answer("refused")
    /\ UNCHANGED idp

\* "Force a refresh once in case the key was just rotated": clear().
ForceRefresh ==
    /\ Asymmetric /\ pc = "checking"
    /\ \E got \in Gots :
          /\ token.kid \notin got.keys
          /\ failed' = got.failed
          /\ held' = IF got = Fetched THEN published ELSE held
    /\ keys' = {} /\ age' = TTL
    /\ pc' = "rechecking"
    /\ UNCHANGED <<idp, check>>

\* Mutant: the forced refresh is repeated until the kid turns up.
UnknownAgain ==
    /\ Asymmetric /\ pc = "rechecking"
    /\ \E got \in Gots : token.kid \notin got.keys /\ Cached(got)
    /\ pc' = "checking"
    /\ UNCHANGED <<idp, check>>

Unknown ==
    /\ Asymmetric /\ pc = "rechecking"
    /\ \E got \in Gots : token.kid \notin got.keys /\ Cached(got)
    /\ Answer("refused")
    /\ UNCHANGED idp

\* get() with no previous keys whose fetch fails: 401.
Unreachable ==
    /\ Asymmetric /\ keys = {}
    /\ Answer("refused")
    /\ failed' = TRUE
    /\ UNCHANGED <<idp, keys, age, held>>

Check == Unsupported \/ Symmetric \/ Found \/ ForceRefresh \/ Unknown \/ Unreachable

Next ==
    \/ \E k \in Kids : Publish(k) \/ Withdraw(k)
    \/ Tick
    \/ Warm \/ Restart
    \/ \E t \in Tokens : Present(t)
    \/ Check

Spec == Init /\ [][Next]_vars

\* A fetch ends, if only by its 5 s timeout, and so does the code around it.
FairSpec == Spec /\ WF_vars(Warm) /\ WF_vars(Check)

-----------------------------------------------------------------------------
(* Properties. *)

Answers(v) == Check /\ verdict' = v /\ token.good /\ token.alg = "asymmetric"

JustifiedStep == Answers("refused") /\ token.kid \in published => failed'

\* A good token whose key Supabase shows is refused only when Supabase could
\* not be reached during this very check: a new key is picked up at once
\* ("a fresh fetch picks up the new key on the next request", auth.py:67-68).
RefusalsJustified == [][JustifiedStep]_vars

BoundedStep ==
    Answers("accepted") /\ token.kid \notin published =>
        retired[token.kid] < TTL \/ failed'

\* A token of a withdrawn key is accepted for less than the TTL, or while
\* Supabase is unreachable (_is_fresh, auth.py:77-88).
RetiredKeyBounded == [][BoundedStep]_vars

KeepsStep ==
    \A k \in keys \cap published :
        k \in keys' \/ pc' = "boot" \/ (Asymmetric /\ token.kid \notin keys \cap published)

\* A key that is still good leaves the cache only when the process restarts or
\* a token with an unknown or withdrawn kid is checked (auth.py:98-102, 162-167).
GoodKeysKept == [][KeepsStep]_vars

\* Every token is answered: the forced refresh happens once.
EveryTokenAnswered ==
    pc \in {"checking", "rechecking"} ~> verdict # "none" \/ pc = "boot"

\* "Leave the previous cache in place if a refresh fails so that transient
\* network issues don't break all auth at once" (auth.py:98-99): a key once
\* fetched and published ever since serves every good token.
OutageTolerated ==
    verdict = "refused" /\ token.good /\ token.alg = "asymmetric" => token.kid \notin held
=============================================================================
