------------------------------- MODULE DbPool -------------------------------
(***************************************************************************)
(* The connection pool of the engine that database.py builds: SQLAlchemy's *)
(* queue pool under asyncio, first in, first out, at most PoolSize idle    *)
(* connections and MaxOverflow more in use, a wait of at most 30 s for one,*)
(* and pool_pre_ping=False: a connection is not tried before it is handed  *)
(* out.  A restart of the database makes every connection stale; a pool    *)
(* learns of it when a statement fails, and then distrusts every record    *)
(* that is older than that moment.                                         *)
(***************************************************************************)
EXTENDS Naturals, Sequences, FiniteSets

CONSTANTS Clients,      \* the sessions that ask for a connection
          PoolSize,     \* pool_size
          MaxOverflow,  \* max_overflow
          MaxRestarts   \* bound: restarts of the database in a run

VARIABLES holds,     \* what each session has of the pool
          idle,      \* the records in the queue, next to be handed out first
          aged,      \* sessions whose record is older than the last Notice
          restarts,  \* how often the database has restarted
          noticed    \* since the last restart, the pool was told (history)

\* "void": a record whose connection is to be made anew when it is taken out.
Records == {"live", "stale", "void"}
InUse   == {"connecting", "reconnecting", "live", "stale"}

Most    == PoolSize + MaxOverflow
Holders == {c \in Clients : holds[c] \in InUse}
Total   == Len(idle) + Cardinality(Holders)

TypeOK ==
    /\ holds \in [Clients -> InUse \cup {"none", "waiting"}]
    /\ idle \in Seq(Records)
    /\ aged \subseteq Holders
    /\ restarts \in 0 .. MaxRestarts
    /\ noticed \in BOOLEAN

Init ==
    /\ holds = [c \in Clients |-> "none"]
    /\ idle = <<>>
    /\ aged = {}
    /\ restarts = 0
    /\ noticed = FALSE

-----------------------------------------------------------------------------

Becomes(c, h) == holds' = [holds EXCEPT ![c] = h]

\* A record comes back; one too many is dropped and its connection closed.
Kept(queue, record) == IF Len(queue) < PoolSize THEN Append(queue, record) ELSE queue

\* Mutant: the room for one more is checked after it has been taken.
RoomMiscounted == Total <= Most

Room == Total < Most

\* The record at the head is handed out; a void one connects again first.
TakesIdle(c) ==
    /\ idle # <<>>
    /\ Becomes(c, IF Head(idle) = "void" THEN "reconnecting" ELSE Head(idle))
    /\ idle' = Tail(idle)
    /\ UNCHANGED <<aged, restarts, noticed>>

\* The first statement of a session takes a connection, makes one or waits.
Ask(c) ==
    /\ holds[c] = "none"
    /\ \/ TakesIdle(c)
       \/ /\ idle = <<>>
          /\ Becomes(c, IF Room THEN "connecting" ELSE "waiting")
          /\ UNCHANGED <<idle, aged, restarts, noticed>>

\* A record has come back; whoever asks first has it, first come or not.
Granted(c) == holds[c] = "waiting" /\ TakesIdle(c)

\* The wait is over: there may be room by now, of which nobody was told ...
RoomAtLast(c) ==
    /\ holds[c] = "waiting" /\ Room
    /\ Becomes(c, "connecting")
    /\ UNCHANGED <<idle, aged, restarts, noticed>>

\* ... or sqlalchemy.exc.TimeoutError.
GivesUp(c) ==
    /\ holds[c] = "waiting" /\ ~Room
    /\ Becomes(c, "none")
    /\ UNCHANGED <<idle, aged, restarts, noticed>>

Connected(c) ==
    /\ holds[c] \in {"connecting", "reconnecting"}
    /\ Becomes(c, "live")
    /\ UNCHANGED <<idle, aged, restarts, noticed>>

\* connect_args' 10 s are over, or PostgreSQL refuses.  A new record is given
\* up, and no waiter is woken for the room that makes; an old one comes back.
ConnectFails(c) ==
    /\ holds[c] \in {"connecting", "reconnecting"}
    /\ idle' = IF holds[c] = "connecting" THEN idle ELSE Kept(idle, "void")
    /\ Becomes(c, "none")
    /\ aged' = aged \ {c}
    /\ UNCHANGED <<restarts, noticed>>

\* The session is closed.  A record that has aged is not used as it is again.
Release(c) ==
    /\ holds[c] \in {"live", "stale"}
    /\ idle' = Kept(idle, IF c \in aged THEN "void" ELSE holds[c])
    /\ Becomes(c, "none")
    /\ aged' = aged \ {c}
    /\ UNCHANGED <<restarts, noticed>>

\* Mutant: only the connection that failed is given up.
NoticeOnlyOwn(c) ==
    /\ holds[c] = "stale"
    /\ idle' = Kept(idle, "void")
    /\ aged' = aged \ {c}
    /\ noticed' = (noticed \/ c \notin aged)
    /\ Becomes(c, "none")
    /\ UNCHANGED restarts

\* A statement on a stale connection fails: its record comes back void, and
\* every other record of before is distrusted, unless this one already was.
Notice(c) ==
    /\ holds[c] = "stale"
    /\ IF c \in aged
       THEN /\ idle' = Kept(idle, "void")
            /\ aged' = aged \ {c}
            /\ UNCHANGED noticed
       ELSE /\ idle' = Kept([i \in DOMAIN idle |-> "void"], "void")
            /\ aged' = Holders \ {c}
            /\ noticed' = TRUE
    /\ Becomes(c, "none")
    /\ UNCHANGED restarts

\* PostgreSQL, or the pooler before it, restarts: every connection is lost.
Restart ==
    /\ restarts < MaxRestarts
    /\ restarts' = restarts + 1
    /\ holds' = [c \in Clients |-> IF holds[c] = "live" THEN "stale" ELSE holds[c]]
    /\ idle' = [i \in DOMAIN idle |-> IF idle[i] = "live" THEN "stale" ELSE idle[i]]
    /\ noticed' = FALSE
    /\ UNCHANGED aged

-----------------------------------------------------------------------------
\* The process never has more connections than pool_size + max_overflow, and
\* keeps at most pool_size idle (database.py:70-71).
ConnectionsBounded == Total <= Most /\ Len(idle) <= PoolSize

\* Once the pool has been told of a restart, no session gets a connection of
\* before (database.py:69, pool_pre_ping=False).
StaleHandedOut(c) == holds[c] \in {"none", "waiting"} /\ holds'[c] = "stale"
NoStaleAfterNotice == \A c \in Clients : StaleHandedOut(c) => ~noticed
=============================================================================
