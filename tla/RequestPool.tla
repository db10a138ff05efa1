---------------------------- MODULE RequestPool -----------------------------
(***************************************************************************)
(* The two bounded resources every request needs: threads and pooled       *)
(* database connections.                                                   *)
(*                                                                         *)
(* Endpoints and dependencies are plain functions, so each of them runs in *)
(* a thread of the pool: a request takes a thread for a step and gives it  *)
(* back after it.  A connection it keeps, from its first statement to the  *)
(* teardown of get_session, across the steps in between.  That teardown    *)
(* runs outside the limit on threads.                                      *)
(***************************************************************************)
EXTENDS Naturals, FiniteSets

CONSTANTS
    Protected,      \* requests behind get_current_user
    Public,         \* POST /auth/register and /auth/login
    Ready,          \* GET /health/ready
    Live,           \* GET /health/live, sent by the container's healthcheck
    Threads,        \* size of the thread pool
    Conns,          \* pool_size + max_overflow of the engine
    MaxOutages      \* bound on the outages of the database

Requests == Protected \cup Public \cup Ready \cup Live

ASSUME ConstantsAssumption ==
    /\ Protected \cap Public = {}
    /\ (Protected \cup Public) \cap (Ready \cup Live) = {}
    /\ Ready \cap Live = {}
    /\ IsFiniteSet(Requests)
    /\ Threads \in Nat \ {0}
    /\ Conns \in Nat \ {0}
    /\ MaxOutages \in Nat

VARIABLES
    stage,      \* where each request is
    threads,    \* the requests that are in a thread
    conns,      \* the requests that have a connection checked out
    answer,     \* the response to each request
    db,         \* the database: up, refusing connections, or not answering
    up,         \* history: the readiness probes a statement was answered to
    outages     \* outages so far

pool     == <<stage, threads, conns, answer, up>>
database == <<db, outages>>
poolVars == <<pool, database>>

-----------------------------------------------------------------------------
Stages  == {"idle", "queued", "asking", "querying", "between", "working",
            "closing", "failing", "done"}

\* "error" is every 4xx and 500.
Answers == {"none", "ok", "error", "unavailable", "late"}

FreeThread == Cardinality(threads) < Threads
FreeConn   == Cardinality(conns) < Conns

\* The stages a request spends in a thread, and those with a connection.
InThread  == {"asking", "querying", "working"}
Connected == {"querying", "between", "working", "closing", "failing"}

Goto(r, s) == stage' = [stage EXCEPT ![r] = s]

\* r gives its thread back, and its connection too.
LeaveThread(r) == threads' = threads \ {r}
Disconnect(r)  == conns' = conns \ {r}

\* The request is over.
End(r, a) ==
    /\ Goto(r, "done")
    /\ answer' = [answer EXCEPT ![r] = a]
    /\ LeaveThread(r)
    /\ Disconnect(r)

-----------------------------------------------------------------------------
PoolInit ==
    /\ stage = [r \in Requests |-> "idle"]
    /\ threads = {}
    /\ conns = {}
    /\ answer = [r \in Requests |-> "none"]
    /\ db = "up"
    /\ up = {}
    /\ outages = 0

Arrive(r) ==
    /\ stage[r] = "idle"
    /\ Goto(r, "queued")
    /\ UNCHANGED <<threads, conns, answer, up, database>>

\* liveness needs a thread for a moment: it has no statement and no session.
AnswerLive(l) ==
    /\ l \in Live
    /\ stage[l] = "queued"
    /\ FreeThread
    /\ End(l, "ok")
    /\ UNCHANGED <<up, database>>

\* The request is refused before any statement: get_current_user finds the
\* token missing, malformed or expired, or the body of a public one does not
\* validate.  The session is there, but has never had a connection.
TurnedAway(r) ==
    /\ r \in Protected \cup Public
    /\ stage[r] = "queued"
    /\ FreeThread
    /\ End(r, "error")
    /\ UNCHANGED <<up, database>>

\* The steps before the first statement: providers of settings, database,
\* session, repositories and use cases; each needs a thread, the last keeps it.
TakeThread(r) ==
    /\ r \notin Live
    /\ stage[r] = "queued"
    /\ FreeThread
    /\ threads' = threads \cup {r}
    /\ Goto(r, "asking")
    /\ UNCHANGED <<conns, answer, up, database>>

\* The first statement checks a connection out of the pool: in
\* get_current_user, in the endpoint of a public request, or in ping.
CheckOut(r) ==
    /\ stage[r] = "asking"
    /\ FreeConn
    /\ conns' = conns \cup {r}
    /\ Goto(r, IF r \in Public THEN "working" ELSE "querying")
    /\ UNCHANGED <<threads, answer, up, database>>

\* Mutant: the engine is created with pool_timeout=None.
PoolTimeout_Never(r) == FALSE /\ UNCHANGED poolVars

\* sqlalchemy.exc.TimeoutError after 30 s: ping takes it for an unreachable
\* database, all others are answered 500.
PoolTimeout(r) ==
    /\ stage[r] = "asking"
    /\ ~FreeConn
    /\ End(r, IF r \in Ready THEN "unavailable" ELSE "error")
    /\ UNCHANGED <<up, database>>

\* get_current_user is answered: the thread goes back, the connection stays.
Authenticated(r) ==
    /\ r \in Protected
    /\ stage[r] = "querying"
    /\ db = "up"
    /\ Goto(r, "between")
    /\ LeaveThread(r)
    /\ UNCHANGED <<conns, answer, up, database>>

\* The providers that remain, and the endpoint: each needs a thread again.
TakeThreadAgain(r) ==
    /\ stage[r] = "between"
    /\ FreeThread
    /\ threads' = threads \cup {r}
    /\ Goto(r, "working")
    /\ UNCHANGED <<conns, answer, up, database>>

\* The endpoint returns.
Work(r) ==
    /\ stage[r] = "working"
    /\ db = "up"
    /\ Goto(r, "closing")
    /\ LeaveThread(r)
    /\ UNCHANGED <<conns, answer, up, database>>

\* The teardown of get_session: commit and close, in no thread of the pool.
Close(r) ==
    /\ stage[r] = "closing"
    /\ db # "hung"
    /\ End(r, IF db = "up" THEN "ok" ELSE "error")
    /\ UNCHANGED <<up, database>>

\* ping: SELECT 1 is answered.
PingAnswered(r) ==
    /\ r \in Ready
    /\ stage[r] = "querying"
    /\ db = "up"
    /\ End(r, "ok")
    /\ up' = up \cup {r}
    /\ UNCHANGED database

\* An exception: the token names no user, a domain error, a statement that
\* fails; or an input that does not validate, which comes out only after the
\* providers that remain have each had a thread.  The connection stays.
Fails(r) ==
    /\ r \notin Ready
    /\ \/ stage[r] \in {"querying", "working"} /\ db # "hung"
       \/ stage[r] = "between" /\ FreeThread
    /\ Goto(r, "failing")
    /\ LeaveThread(r)
    /\ UNCHANGED <<conns, answer, up, database>>

\* Mutant: get_session rolls back and does not close the session.
Unwind_KeepsConnection(r) ==
    /\ stage[r] = "failing"
    /\ db # "hung"
    /\ Goto(r, "done")
    /\ answer' = [answer EXCEPT ![r] = "error"]
    /\ UNCHANGED <<threads, conns, up, database>>

\* The teardown of get_session after an exception: rollback, close, and the
\* exception goes on to its handler.
Unwind(r) ==
    /\ stage[r] = "failing"
    /\ db # "hung"
    /\ End(r, "error")
    /\ UNCHANGED <<up, database>>

\* ping catches the SQLAlchemyError, and its connection is closed with it.
PingRefused(r) ==
    /\ r \in Ready
    /\ stage[r] = "querying"
    /\ db = "down"
    /\ End(r, "unavailable")
    /\ UNCHANGED <<up, database>>

\* Nobody in a thread gets on within the 5 s the healthcheck waits.
Jammed ==
    \A r \in threads :
        \/ stage[r] = "asking" /\ ~FreeConn
        \/ stage[r] \in {"querying", "working"} /\ db = "hung"

\* The healthcheck counts a probe that waits for a thread as failed; that the
\* abandoned request still runs later, for a moment, is left out.
ProbeTimeout(l) ==
    /\ l \in Live
    /\ stage[l] = "queued"
    /\ ~FreeThread
    /\ Jammed
    /\ End(l, "late")
    /\ UNCHANGED <<up, database>>

-----------------------------------------------------------------------------
DatabaseFails ==
    /\ db = "up"
    /\ outages < MaxOutages
    /\ outages' = outages + 1
    /\ db' \in {"down", "hung"}
    /\ UNCHANGED pool

DatabaseRecovers ==
    /\ db # "up"
    /\ db' = "up"
    /\ UNCHANGED <<pool, outages>>

\* What the server does for r.
Serve(r) ==
    \/ AnswerLive(r) \/ TurnedAway(r) \/ TakeThread(r) \/ CheckOut(r) \/ PoolTimeout(r)
    \/ Authenticated(r) \/ TakeThreadAgain(r) \/ Work(r) \/ Close(r)
    \/ PingAnswered(r) \/ PingRefused(r) \/ Fails(r) \/ Unwind(r)

PoolStep ==
    \/ \E r \in Requests : Serve(r)
    \/ \E l \in Live : ProbeTimeout(l)
    \/ DatabaseFails
    \/ DatabaseRecovers

PoolNext == PoolStep \/ \E r \in Requests : Arrive(r)

PoolSpec == PoolInit /\ [][PoolNext]_poolVars

-----------------------------------------------------------------------------
\* Every variable has its type.
PoolTypeOK ==
    /\ stage \in [Requests -> Stages]
    /\ threads \subseteq Requests
    /\ conns \subseteq Requests
    /\ answer \in [Requests -> Answers]
    /\ db \in {"up", "down", "hung"}
    /\ up \subseteq Ready
    /\ outages \in 0..MaxOutages

\* However requests time out, fail and overlap, threads and connections are
\* with exactly the requests whose stage needs them, and never more than there
\* are: nothing leaks ("The session is always closed", deps.py:73).
NothingLeaks ==
    /\ threads = {r \in Requests : stage[r] \in InThread}
    /\ conns = {r \in Requests : stage[r] \in Connected}
    /\ Cardinality(threads) <= Threads
    /\ Cardinality(conns) <= Conns

\* "No dependency checks; returns 200 whenever the process is serving"
\* (health.py:5).
LiveWhileServing == \A l \in Live : answer[l] # "late"

=============================================================================
