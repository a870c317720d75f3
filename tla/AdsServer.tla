----------------------------- MODULE AdsServer ------------------------------
(***************************************************************************)
(* AdsRouter and DbPool together: get_db() takes a connection with the     *)
(* first statement of a request (SET statement_timeout), the request holds *)
(* it through its handler, the response and the COMMIT, and gives it back  *)
(* when the session is closed.  So requests wait for connections while     *)
(* those that have one wait for row locks, and a restart of the database   *)
(* fails requests that did nothing wrong.                                  *)
(*                                                                         *)
(* Each step of AdsRouter's handlers is one statement's return and what    *)
(* the coroutine does up to its next await.  PostgreSQL drops the locks of *)
(* a lost connection at once, here they go when the request notices: the   *)
(* two steps are of different actors and nothing lies between them.  A     *)
(* COMMIT whose acknowledgement is lost is a COMMIT and then the loss.     *)
(***************************************************************************)
EXTENDS AdsRouter

CONSTANTS PoolSize, MaxOverflow, MaxRestarts

ASSUME PoolAssumption ==
    /\ IsFiniteSet(Requests)
    /\ PoolSize \in Nat \ {0} /\ MaxOverflow \in Nat /\ MaxRestarts \in Nat
    /\ ~Faults => MaxRestarts = 0  \* a restart makes statements fail

VARIABLES holds, idle, aged, restarts, noticed,  \* the pool's
          failed  \* the requests of which a statement has failed (history)

pool       == <<holds, idle, aged, restarts, noticed>>
serverVars == <<vars, pool, failed>>

Pool == INSTANCE DbPool WITH Clients <- Requests

ServerInit == Init /\ Pool!Init /\ failed = {}

-----------------------------------------------------------------------------

Arrive(r, b) == Send(r, b) /\ Pool!Ask(r) /\ UNCHANGED failed

Fails(r) == Fail(r) /\ failed' = failed \cup {r}

\* The pool comes round to r.
Proceeds(r) ==
    /\ Pool!Granted(r) \/ Pool!RoomAtLast(r) \/ Pool!Connected(r)
    /\ UNCHANGED <<vars, failed>>

\* No connection: the SET raises, and get_db() with it.
Denied(r) == Fails(r) /\ (Pool!GivesUp(r) \/ Pool!ConnectFails(r))

\* Its handler goes on, or PostgreSQL finds it on a circle of waits.
Work(r) ==
    holds[r] = "live" /\ (Handle(r) \/ Deadlock(r)) /\ UNCHANGED <<pool, failed>>

\* A statement fails and leaves the connection usable: statement_timeout, say.
Refused(r) == holds[r] = "live" /\ Fails(r) /\ UNCHANGED pool

\* A statement finds its connection gone.
Lost(r) == Fails(r) /\ Pool!Notice(r)

\* Mutant: the session is closed when the response has been sent.
ReturnEarly(r) == /\ pc[r] \in Settled \cup Answered
                  /\ Pool!Release(r) \/ (pc[r] = "closed" /\ Pool!Notice(r))
                  /\ UNCHANGED <<vars, failed>>

\* Mutant: the session is closed after a COMMIT only.
ReturnCommitted(r) ==
    pc[r] = "committed" /\ Pool!Release(r) /\ UNCHANGED <<vars, failed>>

\* The session is closed; the COMMIT or ROLLBACK of one that wrote nothing may
\* be the statement that notices.
Return(r) == /\ pc[r] \in Settled
             /\ Pool!Release(r) \/ (pc[r] = "closed" /\ Pool!Notice(r))
             /\ UNCHANGED <<vars, failed>>

DatabaseRestarts == Pool!Restart /\ UNCHANGED <<vars, failed>>

AllQuiet ==
    Quiet /\ (\A r \in Requests : holds[r] = "none") /\ UNCHANGED <<pool, failed>>

Serve(r) == Proceeds(r) \/ Denied(r) \/ Lost(r)

ServerNext ==
    \/ \E r \in Requests : \/ \E b \in Bodies : Arrive(r, b)
                           \/ Serve(r) \/ Work(r) \/ Refused(r) \/ Return(r)
    \/ DatabaseRestarts
    \/ AllQuiet

ServerSpec == ServerInit /\ [][ServerNext]_serverVars

\* Timers end every wait for a connection, PostgreSQL grants free locks and
\* breaks every circle of waits (deadlock_timeout), and the event loop runs
\* every ready coroutine.
FairServerSpec ==
    /\ ServerSpec
    /\ \A r \in Requests : /\ WF_serverVars(Serve(r))
                           /\ WF_serverVars(Work(r))
                           /\ WF_serverVars(Return(r))

-----------------------------------------------------------------------------
\* The type of the composed state.
ServerTypeOK == TypeOK /\ Pool!TypeOK /\ failed \subseteq Requests

\* The process never has more connections than pool_size + max_overflow, and
\* keeps at most pool_size of them idle (database.py:70-71).
ConnectionsBounded == Pool!ConnectionsBounded

\* From its first statement to its end a transaction has a connection of its
\* own: nobody who holds row locks waits for one, so lock waits and the wait
\* for the pool cannot block each other for ever (database.py:102-107).
TransactionsConnected ==
    \A r \in Requests :
        /\ r \in InFlight /\ pc[r] # "received" => holds[r] \in {"live", "stale"}
        /\ pc[r] = "received" => holds[r] # "none"
        /\ holds[r] \notin {"none", "live", "stale"} => pc[r] = "received"

\* A request waits for q: its statement waits for a row that q has locked, or
\* it waits for a connection while q has one of those that there can be.
WaitsForRow(r, q) == holds[r] = "live" /\ Awaits(r, q)

WaitsForConnection(r, q) ==
    holds[r] = "waiting" /\ idle = <<>> /\ ~Pool!Room /\ q \in Pool!Holders

WaitsFor(r, q) == WaitsForRow(r, q) \/ WaitsForConnection(r, q)

\* Handle(r) is enabled: r's coroutine or its statement waits for nothing.
Ready(r) ==
    LET a == body[r].ad IN
    \/ pc[r] \in {"received", "missed", "flushed"}
    \/ pc[r] = "loaded" /\ body[r].op # "update"
    \/ /\ At(r, "loaded", "update")
       /\ \/ ads[a] = Gone \/ NullsColumn(r)
          \/ Removing(a) = {} /\ (Dirty(r) = {} \/ Writing(a) = {})
    \/ pc[r] = "replied" /\ body[r].op # "delete"
    \/ pc[r] \in Answered /\ body[r].op = "delete" /\ \E v \in Upcoming(r) : Holding(v) = {}
    \/ /\ At(r, "replied", "delete") /\ Left(r) = {}
       /\ ads[a] = Gone \/ Sharing(a) \cup Removing(a) = {}
    \/ pc[r] = "deleting" /\ Left(r) = {}

\* r takes its next step whatever the others do, and needs no timer for it.
Goes(r) ==
    \/ holds[r] = "live" /\ (Ready(r) \/ pc[r] \in Settled)
    \/ holds[r] \in {"stale", "connecting", "reconnecting"}
    \/ holds[r] = "waiting" /\ (idle # <<>> \/ Pool!Room)

\* Each request goes on or waits for another one, and those that wait in a
\* circle are DELETEs of one ad that have all been answered 204: a PUT, a POST,
\* a read or a wait for a connection is never part of a deadlock, and no
\* request needs a timer of the pool to get the server moving again (get_db
\* holds the connection until after the COMMIT, database.py:102-110).
OnlyDeletesDeadlock ==
    /\ \A r \in Requests : r \in InFlight \/ holds[r] # "none" =>
           Goes(r) \/ \E q \in Requests : WaitsFor(r, q)
    /\ \A n \in 1 .. Cardinality(Requests) : \A c \in [0 .. n -> Requests] :
           c[0] = c[n] /\ (\A i \in 0 .. n - 1 : WaitsFor(c[i], c[i + 1])) =>
               \A i \in 0 .. n - 1 :
                   /\ pc[c[i]] \in Answered /\ body[c[i]].op = "delete"
                   /\ body[c[i]].ad = body[c[i + 1]].ad

\* Once the pool was told of a restart, no request is given a connection of
\* before: each restart fails those that have one and the one that notices
\* (pool_pre_ping=False, database.py:69).
StaleHandedOnce == [][Pool!NoStaleAfterNotice]_serverVars

\* Every request under way ends, and every one that ends has been answered:
\* nobody waits for a row lock, or for a connection, for ever.  A circle of
\* DELETEs ends because PostgreSQL ends one of them.
EveryRequestAnswered ==
    \A r \in Requests :
        pc[r] = "received" ~> pc[r] \in Settled /\ reply[r].status # 0

\* An ad goes once a DELETE of it has been answered 204, unless a statement of
\* such a DELETE fails: where PostgreSQL undoes one to break a circle of waits,
\* another one on the circle goes through (delete_ad, ads.py:245-252).
AnsweredDeletesHappen ==
    \A r \in Requests :
        pc[r] \in Answered /\ body[r].op = "delete" ~>
            /\ pc[r] \in Settled
            /\ \/ ads[body[r].ad] = Gone
               \/ \E q \in failed : body[q].op = "delete" /\ body[q].ad = body[r].ad

\* Every connection comes back when its request is over, however it ended.
ConnectionsReturned ==
    \A r \in Requests : pc[r] \in Settled ~> holds[r] = "none"
=============================================================================
