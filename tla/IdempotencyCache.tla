-------------------------- MODULE IdempotencyCache --------------------------
(***************************************************************************)
(* _IdempotencyCache of routers/ads.py: the in-memory store that maps an   *)
(* Idempotency-Key header to the response of the POST that carried it.     *)
(* The clock is abstracted to whether an entry's expires_at has passed;    *)
(* get() is the only place where the code looks.  An entry that is never   *)
(* asked for again stays, expired, until the process ends.                 *)
(***************************************************************************)

CONSTANTS Keys,      \* values of the Idempotency-Key header
          Responses, \* what a POST may answer
          NoEntry    \* stands for a key that is not in the dict

VARIABLE store       \* _store

Entries == [expired : BOOLEAN, response : Responses]

TypeOK == store \in [Keys -> Entries \cup {NoEntry}]

Init == store = [k \in Keys |-> NoEntry]

\* get(k) returns a response iff the key is there and has not expired.
Hit(k) == store[k] # NoEntry /\ ~store[k].expired

\* get(k) that returns None: an expired entry is deleted on the way.
Miss(k) == ~Hit(k) /\ store' = [store EXCEPT ![k] = NoEntry]

\* set(k, response): whatever was there is overwritten and the TTL starts anew.
Set(k, response) ==
    store' = [store EXCEPT ![k] = [expired |-> FALSE, response |-> response]]

\* idempotency_ttl seconds have gone by since set(k).
Expire(k) == Hit(k) /\ store' = [store EXCEPT ![k].expired = TRUE]

\* The process has ended, and the dict with it.
Lost == store' = [k \in Keys |-> NoEntry]
=============================================================================
