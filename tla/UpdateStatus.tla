---------------------------- MODULE UpdateStatus ----------------------------
(***************************************************************************)
(* GET /emergency/{id} and PATCH /emergency/{id}/status: concurrent        *)
(* requests of several users over the rows of emergency_events, each one   *)
(* transaction at READ COMMITTED.  The update loads the event, decides by  *)
(* what it loaded, loads it again and writes by primary key.               *)
(***************************************************************************)
EXTENDS Naturals, EventLifecycle

CONSTANTS
    Requests,               \* the HTTP requests that may be made
    Users,
    Events,                 \* the ids of the events
    NoOne,                  \* no request holds a row, no user, no event
    CommitBeforeResponse    \* as in TriggerSos

ASSUME ConstantsAssumption ==
    /\ NoOne \notin Requests \cup Users \cup Events
    /\ CommitBeforeResponse \in BOOLEAN

VARIABLES
    users,      \* the accounts that exist
    owner,      \* the user of each event
    status,     \* committed status; "unborn" before, "erased" after its time
    held,       \* every status the event has had, in the database (history)
    holder,     \* the request whose uncommitted UPDATE locks the row
    pc,
    req,        \* what each request asks: by whom, of which event, to what
    view,       \* the status the request decided by
    base,       \* the status it loaded again, which its UPDATE replaces
    answer      \* the response as sent

vars == <<users, owner, status, held, holder, pc, req, view, base, answer>>

-----------------------------------------------------------------------------
Handler  == {"auth", "load", "reload", "flush"}
PCs      == Handler \cup {"idle", "commit", "respond", "done"}
RowState == EventStatus \cup {"unborn", "erased"}

\* A request to set status `to`, or "read" for the GET.
Asks   == [user : Users, event : Events, to : EventStatus \cup {"read"}]
NoAsk  == [user |-> NoOne, event |-> NoOne, to |-> "read"]

\* The answer is a status (200) or an error: 401, 404, 409, 500.
Errors  == {"unauthorized", "not_found", "invalid_transition", "error"}
Answers == EventStatus \cup Errors \cup {"none"}

Exists(e)    == status[e] \in EventStatus
Ev(r)        == req[r].event
IsPatch(r)   == req[r].to # "read"
Holds(r)     == \E e \in Events : holder[e] = r
Released(r)  == [e \in Events |-> IF holder[e] = r THEN NoOne ELSE holder[e]]
Goto(r, l)   == pc' = [pc EXCEPT ![r] = l]
AfterHandler == IF CommitBeforeResponse THEN "commit" ELSE "respond"

\* Mutant: the owner is not compared.
Hidden_NoOwner(r) == ~Exists(Ev(r))

\* The event is absent or another user's: both are a 404.
Hidden(r) == ~Exists(Ev(r)) \/ owner[Ev(r)] # req[r].user

Init ==
    /\ users = Users
    /\ owner \in [Events -> Users]
    /\ status = [e \in Events |-> "unborn"]
    /\ held = [e \in Events |-> {}]
    /\ holder = [e \in Events |-> NoOne]
    /\ pc = [r \in Requests |-> "idle"]
    /\ req = [r \in Requests |-> NoAsk]
    /\ view = [r \in Requests |-> "unborn"]
    /\ base = [r \in Requests |-> "unborn"]
    /\ answer = [r \in Requests |-> "none"]

-----------------------------------------------------------------------------
\* The transaction of an SOS commits: the event appears, active (TriggerSos).
SosCommits(e) ==
    /\ status[e] = "unborn"
    /\ owner[e] \in users
    /\ status' = [status EXCEPT ![e] = "active"]
    /\ held' = [held EXCEPT ![e] = {"active"}]
    /\ UNCHANGED <<users, owner, holder, pc, req, view, base, answer>>

\* An operator deletes a user; the cascade waits for the locked rows.
DeleteUser(u) ==
    /\ u \in users
    /\ \A e \in Events : owner[e] = u => holder[e] = NoOne
    /\ users' = users \ {u}
    /\ status' = [e \in Events |->
                    IF owner[e] = u /\ Exists(e) THEN "erased" ELSE status[e]]
    /\ UNCHANGED <<owner, held, holder, pc, req, view, base, answer>>

Send(r, q) ==
    /\ pc[r] = "idle"
    /\ Goto(r, "auth")
    /\ req' = [req EXCEPT ![r] = q]
    /\ UNCHANGED <<users, owner, status, held, holder, view, base, answer>>

\* An exception leaves the handler: rollback, then the error response.
Abort(r, e) ==
    /\ Goto(r, "done")
    /\ holder' = Released(r)
    /\ answer' = [answer EXCEPT ![r] = e]
    /\ UNCHANGED <<users, owner, status, held, req, view, base>>

Authenticate(r) ==
    /\ pc[r] = "auth"
    /\ req[r].user \in users
    /\ Goto(r, "load")
    /\ UNCHANGED <<users, owner, status, held, holder, req, view, base, answer>>

Unauthorized(r) ==
    /\ pc[r] = "auth"
    /\ req[r].user \notin users
    /\ Abort(r, "unauthorized")

NotFound(r) ==
    /\ pc[r] = "load"
    /\ Hidden(r)
    /\ Abort(r, "not_found")

\* The handler of the GET returns what it loaded.
Read(r) ==
    /\ pc[r] = "load"
    /\ ~IsPatch(r)
    /\ ~Hidden(r)
    /\ view' = [view EXCEPT ![r] = status[Ev(r)]]
    /\ Goto(r, AfterHandler)
    /\ UNCHANGED <<users, owner, status, held, holder, req, base, answer>>

\* Mutant: the route sets the status without with_status.
Validate_Never(r) ==
    /\ pc[r] = "load"
    /\ IsPatch(r)
    /\ ~Hidden(r)
    /\ view' = [view EXCEPT ![r] = status[Ev(r)]]
    /\ Goto(r, "reload")
    /\ UNCHANGED <<users, owner, status, held, holder, req, base, answer>>

\* The handler of the PATCH decides by the status it loaded.
Validate(r) ==
    /\ pc[r] = "load"
    /\ IsPatch(r)
    /\ ~Hidden(r)
    /\ CanTransition(status[Ev(r)], req[r].to)
    /\ view' = [view EXCEPT ![r] = status[Ev(r)]]
    /\ Goto(r, "reload")
    /\ UNCHANGED <<users, owner, status, held, holder, req, base, answer>>

InvalidTransition(r) ==
    /\ pc[r] = "load"
    /\ IsPatch(r)
    /\ ~Hidden(r)
    /\ ~CanTransition(status[Ev(r)], req[r].to)
    /\ Abort(r, "invalid_transition")

\* Mutant: the second look-up is not tested for None.
Reload_NoTest(r) ==
    /\ pc[r] = "reload"
    /\ \E s \in {view[r], status[Ev(r)]} : base' = [base EXCEPT ![r] = s]
    /\ Goto(r, "flush")
    /\ UNCHANGED <<users, owner, status, held, holder, req, view, answer>>

\* update_status loads the row again: from the session's identity map, which
\* keeps the object only weakly, or else from the database.
Reload(r) ==
    /\ pc[r] = "reload"
    /\ \E s \in {view[r]} \cup ({status[Ev(r)]} \cap EventStatus) :
          base' = [base EXCEPT ![r] = s]
    /\ Goto(r, "flush")
    /\ UNCHANGED <<users, owner, status, held, holder, req, view, answer>>

\* The row is gone: a ValueError.
ReloadMissing(r) ==
    /\ pc[r] = "reload"
    /\ ~Exists(Ev(r))
    /\ Abort(r, "error")

\* The loaded row has the new status already: the flush emits no UPDATE.
FlushNothing(r) ==
    /\ pc[r] = "flush"
    /\ base[r] = req[r].to
    /\ Goto(r, AfterHandler)
    /\ UNCHANGED <<users, owner, status, held, holder, req, view, base, answer>>

\* UPDATE ... WHERE id = ...: it waits for the row lock and tests no status.
FlushUpdate(r) ==
    /\ pc[r] = "flush"
    /\ base[r] # req[r].to
    /\ holder[Ev(r)] = NoOne
    /\ Exists(Ev(r))
    /\ holder' = [holder EXCEPT ![Ev(r)] = r]
    /\ Goto(r, AfterHandler)
    /\ UNCHANGED <<users, owner, status, held, req, view, base, answer>>

\* The UPDATE matches no row: StaleDataError.
FlushMissing(r) ==
    /\ pc[r] = "flush"
    /\ base[r] # req[r].to
    /\ ~Exists(Ev(r))
    /\ Abort(r, "error")

-----------------------------------------------------------------------------
\* The row r wrote gets r's status; the lock goes.
Publish(r) ==
    /\ status' = [e \in Events |-> IF holder[e] = r THEN req[r].to ELSE status[e]]
    /\ held' = [e \in Events |-> held[e] \cup
                    (IF holder[e] = r THEN {req[r].to} ELSE {})]

Commit(r) ==
    /\ pc[r] = "commit"
    /\ Publish(r)
    /\ holder' = Released(r)
    /\ Goto(r, IF CommitBeforeResponse THEN "respond" ELSE "done")
    /\ UNCHANGED <<users, owner, req, view, base, answer>>

\* Mutant: the failure of COMMIT is swallowed and the result sent anyway.
CommitFails_Swallowed(r) ==
    /\ pc[r] = "commit"
    /\ UNCHANGED <<status, held>>
    /\ holder' = Released(r)
    /\ Goto(r, IF CommitBeforeResponse THEN "respond" ELSE "done")
    /\ UNCHANGED <<users, owner, req, view, base, answer>>

\* Mutant: the session of a failed commit is not closed.
CommitFails_Leak(r) ==
    /\ pc[r] = "commit"
    /\ answer' = [answer EXCEPT ![r] = "error"]
    /\ Goto(r, "done")
    /\ UNCHANGED <<users, owner, status, held, holder, req, view, base>>

\* COMMIT raises, before or after the database applied it.
CommitFails(r) ==
    /\ pc[r] = "commit"
    /\ Publish(r) \/ UNCHANGED <<status, held>>
    /\ holder' = Released(r)
    /\ answer' = IF CommitBeforeResponse
                 THEN [answer EXCEPT ![r] = "error"]
                 ELSE answer
    /\ Goto(r, "done")
    /\ UNCHANGED <<users, owner, req, view, base>>

Respond(r) ==
    /\ pc[r] = "respond"
    /\ answer' = [answer EXCEPT ![r] = IF IsPatch(r) THEN req[r].to ELSE view[r]]
    /\ Goto(r, IF CommitBeforeResponse THEN "done" ELSE "commit")
    /\ UNCHANGED <<users, owner, status, held, holder, req, view, base>>

\* A statement of the handler fails.
Fault(r) ==
    /\ pc[r] \in Handler
    /\ Abort(r, "error")

Step(r) ==
    \/ Authenticate(r) \/ Unauthorized(r)
    \/ NotFound(r) \/ Read(r) \/ Validate(r) \/ InvalidTransition(r)
    \/ Reload(r) \/ ReloadMissing(r)
    \/ FlushNothing(r) \/ FlushUpdate(r) \/ FlushMissing(r)
    \/ Commit(r) \/ Respond(r)

Next ==
    \/ \E e \in Events : SosCommits(e)
    \/ \E u \in Users : DeleteUser(u)
    \/ \E r \in Requests :
          \/ \E q \in Asks : Send(r, q)
          \/ Step(r)
          \/ CommitFails(r)
          \/ Fault(r)

Spec == Init /\ [][Next]_vars

FairSpec == Spec /\ \A r \in Requests : WF_vars(Step(r))

-----------------------------------------------------------------------------
\* Every variable has its type; what a request decides by and what it replaces
\* is a status of the lifecycle from the moment the decision is made.
TypeOK ==
    /\ users \subseteq Users
    /\ owner \in [Events -> Users]
    /\ status \in [Events -> RowState]
    /\ held \in [Events -> SUBSET EventStatus]
    /\ holder \in [Events -> Requests \cup {NoOne}]
    /\ pc \in [Requests -> PCs]
    /\ req \in [Requests -> Asks \cup {NoAsk}]
    /\ view \in [Requests -> EventStatus \cup {"unborn"}]
    /\ base \in [Requests -> EventStatus \cup {"unborn"}]
    /\ answer \in [Requests -> Answers]

\* Only the owner of an event writes it or learns that it exists: whoever
\* holds the row or was given a status, or a 409, which tells as much, is the
\* owner (the checks of GetEventUseCase and UpdateEventStatusUseCase).
OwnerOnly ==
    /\ \A e \in Events, r \in Requests :
          holder[e] = r => Ev(r) = e /\ owner[e] = req[r].user
    /\ \A r \in Requests :
          answer[r] \in EventStatus \cup {"invalid_transition"}
              => owner[Ev(r)] = req[r].user

\* A status answered with 200 is one the event really had in the database:
\* no client is told "resolved" by a transaction that was rolled back.
AckedWasCommitted ==
    \A r \in Requests : answer[r] \in EventStatus => answer[r] \in held[Ev(r)]

\* The write of a PATCH is a legal transition of the status it replaces unless
\* another PATCH committed since it loaded the event: the lifecycle can break
\* by an overlap and in no other way.
LegalUnlessOverlapped ==
    \A e \in Events, r \in Requests :
        holder[e] = r /\ status[e] = view[r] => CanTransition(status[e], req[r].to)

\* Not even an overlap makes an event active again, so an emergency that
\* somebody has taken up never looks new.
NeverReactivated ==
    [][\A e \in Events :
          Exists(e) /\ status[e] # "active" => status'[e] # "active"]_vars

\* "Terminal states (resolved, cancelled) cannot be reopened"
\* (routes/emergency.py:80-81): the status of the row never leaves them.
TerminalIsFinal ==
    [][\A e \in Events :
          status[e] \in Terminal => status'[e] \in {status[e], "erased"}]_vars

\* Every request ends with an answer: the row locks of overlapping updates are
\* always released and never wait for each other in a ring.
EveryRequestEnds ==
    \A r \in Requests : pc[r] = "auth" ~> pc[r] = "done"

-----------------------------------------------------------------------------
Register == INSTANCE StatusRegister WITH
    decided <- {r \in Requests : pc[r] \in {"respond", "done"}}

\* When the commit precedes the response: every request has one moment of
\* decision, at which it writes a status its owner may ask for, or nothing; a
\* 200 is a status the event has had, a refusal was true at that moment and,
\* but for a 500, has written nothing.
KeepsRegister == Register!Spec

=============================================================================
