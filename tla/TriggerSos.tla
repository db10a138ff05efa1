----------------------------- MODULE TriggerSos -----------------------------
(***************************************************************************)
(* POST /emergency/sos: concurrent requests of one user, each a thread of  *)
(* the server with one database transaction (deps.get_session) at READ     *)
(* COMMITTED, PostgreSQL's default.                                        *)
(*                                                                         *)
(* An event is named by the request that inserted it, so row[r] is the     *)
(* fate of the event r built.  A retry by the client is a further request  *)
(* with the same key.  Payload, event type and coordinates are left out:   *)
(* the handler stores them and never decides by them.                      *)
(*                                                                         *)
(* Two orders of the end of a request exist among the FastAPI versions     *)
(* src/backend/pyproject.toml accepts: the commit of get_session runs      *)
(* before the response is sent (below 0.118) or after it.                  *)
(***************************************************************************)
EXTENDS Naturals, FiniteSets

CONSTANTS
    Requests,               \* the HTTP requests that may be made
    Keys,                   \* Idempotency-Key values of this user
    NoKey,                  \* the header is absent
    Contacts,               \* the user's possible emergency contacts
    NoEvent,                \* an answer that carries no event
    CommitBeforeResponse,   \* does the teardown run before the response?
    MaxCrashes              \* bound on the restarts of the server

ASSUME ConstantsAssumption ==
    /\ NoKey \notin Keys
    /\ NoEvent \notin Requests
    /\ CommitBeforeResponse \in BOOLEAN
    /\ MaxCrashes \in Nat

VARIABLES
    account,    \* "present" or "deleted": the row of the user
    book,       \* the committed emergency contacts of the user
    pc,         \* where each request is
    key,        \* the Idempotency-Key of each request
    row,        \* the fate of the event row each request built
    todo,       \* the contacts a request has read and not yet tried
    outreach,   \* per event and contact: what became of the notification; "due"
                \* (history) if the contact was on record at the insertion
    result,     \* the SosResult of the handler, before it is sent
    answer,     \* the response as sent
    crashes     \* restarts so far

vars == <<account, book, pc, key, row, todo, outreach, result, answer, crashes>>

-----------------------------------------------------------------------------
\* The program counter: "auth" to "notify" are the handler and what it waits
\* for, "commit" and "respond" the end of the request in either order.
Handler == {"auth", "check", "insert", "replay", "contacts", "notify"}
PCs     == Handler \cup {"idle", "commit", "respond", "done", "lost"}
Fates   == {"none", "pending", "durable", "rolledback", "erased"}

\* 201, 200, 401, 409, 500, and no response.
Grants   == {"created", "replayed"}
Refusals == {"unauthorized", "conflict", "error"}
Answers  == [status : Grants, event : Requests]
              \cup [status : Refusals \cup {"none"}, event : {NoEvent}]

NoAnswer    == [status |-> "none", event |-> NoEvent]
Refusal(s)  == [status |-> s, event |-> NoEvent]
Success(a)  == a.status \in Grants

SameKey(q, r) == key[q] = key[r] /\ key[r] # NoKey
InFlight(r)   == pc[r] \notin {"idle", "done", "lost"}

\* get_by_idempotency_key: the committed rows of r's key.
Existing(r) == {e \in Requests : row[e] = "durable" /\ SameKey(e, r)}

\* Another transaction has inserted r's key and not yet ended.
Contended(r) == \E q \in Requests \ {r} : row[q] = "pending" /\ SameKey(q, r)

\* Mutant: the unique constraint is missing.
Violates_NoIndex(r) == account = "deleted"

\* The unique index or the foreign key of emergency_events rejects r's row.
Violates(r) == account = "deleted" \/ Existing(r) # {}

\* Mutant: get_session forgets the rollback, and the transaction stays open.
RolledBack_Forgotten(r) == row[r]

\* A rollback undoes what r inserted.
RolledBack(r) == IF row[r] = "pending" THEN "rolledback" ELSE row[r]

\* Whom an event inserted now is due to.
Due == [c \in Contacts |-> IF c \in book THEN "due" ELSE "none"]

Goto(r, l) == pc' = [pc EXCEPT ![r] = l]

\* The handler has returned: what the end of the request does first.
AfterHandler == IF CommitBeforeResponse THEN "commit" ELSE "respond"

-----------------------------------------------------------------------------
Init ==
    /\ account = "present"
    /\ book \in SUBSET Contacts
    /\ pc = [r \in Requests |-> "idle"]
    /\ key = [r \in Requests |-> NoKey]
    /\ row = [r \in Requests |-> "none"]
    /\ todo = [r \in Requests |-> {}]
    /\ outreach = [r \in Requests |-> [c \in Contacts |-> "none"]]
    /\ result = [r \in Requests |-> NoAnswer]
    /\ answer = [r \in Requests |-> NoAnswer]
    /\ crashes = 0

\* A client sends a request, with a key it may have used before or with none.
Send(r, k) ==
    /\ pc[r] = "idle"
    /\ Goto(r, "auth")
    /\ key' = [key EXCEPT ![r] = k]
    /\ UNCHANGED <<account, book, row, todo, outreach, result, answer, crashes>>

\* An exception leaves the handler: get_session rolls back and the exception
\* handlers answer with status s.
Abort(r, s) ==
    /\ Goto(r, "done")
    /\ row' = [row EXCEPT ![r] = RolledBack(r)]
    /\ answer' = [answer EXCEPT ![r] = Refusal(s)]
    /\ UNCHANGED <<account, book, key, todo, outreach, result, crashes>>

\* get_current_user finds the account; a keyless request needs no look-up.
Authenticate(r) ==
    /\ pc[r] = "auth"
    /\ account = "present"
    /\ Goto(r, IF key[r] = NoKey THEN "insert" ELSE "check")
    /\ UNCHANGED <<account, book, key, row, todo, outreach, result, answer, crashes>>

Unauthorized(r) ==
    /\ pc[r] = "auth"
    /\ account = "deleted"
    /\ Abort(r, "unauthorized")

\* Mutant: _replay_or_none does not test for None.
Replay_NoTest(r) ==
    \E e \in IF Existing(r) = {} THEN {NoEvent} ELSE Existing(r) :
        /\ result' = [result EXCEPT ![r] = [status |-> "replayed", event |-> e]]
        /\ Goto(r, AfterHandler)
        /\ UNCHANGED <<account, book, key, row, todo, outreach, answer, crashes>>

\* The handler returns the existing event as a replay.
Replay(r) ==
    \E e \in Existing(r) :
        /\ result' = [result EXCEPT ![r] = [status |-> "replayed", event |-> e]]
        /\ Goto(r, AfterHandler)
        /\ UNCHANGED <<account, book, key, row, todo, outreach, answer, crashes>>

CheckReplay(r) == pc[r] = "check" /\ Replay(r)

CheckMiss(r) ==
    /\ pc[r] = "check"
    /\ Existing(r) = {}
    /\ Goto(r, "insert")
    /\ UNCHANGED <<account, book, key, row, todo, outreach, result, answer, crashes>>

\* Mutant: add commits its own insertion.
InsertEvent_Commits(r) ==
    /\ pc[r] = "insert"
    /\ ~Contended(r)
    /\ ~Violates(r)
    /\ row' = [row EXCEPT ![r] = "durable"]
    /\ outreach' = [outreach EXCEPT ![r] = Due]
    /\ Goto(r, "contacts")
    /\ UNCHANGED <<account, book, key, todo, result, answer, crashes>>

\* The INSERT waits while another open transaction holds the key; then it
\* succeeds, inside the request's transaction, or violates a constraint.
InsertEvent(r) ==
    /\ pc[r] = "insert"
    /\ ~Contended(r)
    /\ ~Violates(r)
    /\ row' = [row EXCEPT ![r] = "pending"]
    /\ outreach' = [outreach EXCEPT ![r] = Due]
    /\ Goto(r, "contacts")
    /\ UNCHANGED <<account, book, key, todo, result, answer, crashes>>

\* IntegrityError: the savepoint is rolled back, the transaction lives on.
InsertConflict(r) ==
    /\ pc[r] = "insert"
    /\ ~Contended(r)
    /\ Violates(r)
    /\ Goto(r, "replay")
    /\ UNCHANGED <<account, book, key, row, todo, outreach, result, answer, crashes>>

ReplayWinner(r) == pc[r] = "replay" /\ Replay(r)

\* Mutant: a lost race is always raised, never replayed.
RaiseConflict_Always(r) == pc[r] = "replay" /\ Abort(r, "conflict")

RaiseConflict(r) ==
    /\ pc[r] = "replay"
    /\ Existing(r) = {}
    /\ Abort(r, "conflict")

\* all_for_user is one statement at READ COMMITTED: it sees the contacts
\* committed by now, and none that is committed later.
ReadContacts(r) ==
    /\ pc[r] = "contacts"
    /\ todo' = [todo EXCEPT ![r] = book]
    /\ Goto(r, "notify")
    /\ UNCHANGED <<account, book, key, row, outreach, result, answer, crashes>>

\* One turn of the notifier's loop: the delivery succeeds or its exception is
\* caught.  The order of the contacts is abstracted.
NotifyOne(r, c) ==
    /\ pc[r] = "notify"
    /\ c \in todo[r]
    /\ \E how \in {"delivered", "failed"} :
          outreach' = [outreach EXCEPT ![r] = [@ EXCEPT ![c] = how]]
    /\ todo' = [todo EXCEPT ![r] = @ \ {c}]
    /\ UNCHANGED <<account, book, pc, key, row, result, answer, crashes>>

ReturnCreated(r) ==
    /\ pc[r] = "notify"
    /\ todo[r] = {}
    /\ result' = [result EXCEPT ![r] = [status |-> "created", event |-> r]]
    /\ Goto(r, AfterHandler)
    /\ UNCHANGED <<account, book, key, row, todo, outreach, answer, crashes>>

-----------------------------------------------------------------------------
\* The teardown of get_session commits.
Commit(r) ==
    /\ pc[r] = "commit"
    /\ row' = [row EXCEPT ![r] = IF @ = "pending" THEN "durable" ELSE @]
    /\ Goto(r, IF CommitBeforeResponse THEN "respond" ELSE "done")
    /\ UNCHANGED <<account, book, key, todo, outreach, result, answer, crashes>>

\* Mutant: the failure of COMMIT is swallowed and the result sent anyway.
CommitFails_Swallowed(r) ==
    /\ pc[r] = "commit"
    /\ row' = [row EXCEPT ![r] = RolledBack(r)]
    /\ Goto(r, IF CommitBeforeResponse THEN "respond" ELSE "done")
    /\ UNCHANGED <<account, book, key, todo, outreach, result, answer, crashes>>

\* COMMIT raises: the connection broke before or after the server applied it.
\* The client is told only if the response has not been sent.
CommitFails(r) ==
    /\ pc[r] = "commit"
    /\ \E fate \in {"rolledback", "durable"} :
          row' = [row EXCEPT ![r] = IF @ = "pending" THEN fate ELSE @]
    /\ answer' = IF CommitBeforeResponse
                 THEN [answer EXCEPT ![r] = Refusal("error")]
                 ELSE answer
    /\ Goto(r, "done")
    /\ UNCHANGED <<account, book, key, todo, outreach, result, crashes>>

Respond(r) ==
    /\ pc[r] = "respond"
    /\ answer' = [answer EXCEPT ![r] = result[r]]
    /\ Goto(r, IF CommitBeforeResponse THEN "done" ELSE "commit")
    /\ UNCHANGED <<account, book, key, row, todo, outreach, result, crashes>>

\* A statement of the handler fails: connection lost, pool timeout, bad data.
\* The notifier's loop runs no statement and catches its own exceptions.
Fault(r) ==
    /\ pc[r] \in Handler \ {"notify"}
    /\ Abort(r, "error")

\* The server dies; the database rolls back every open transaction.
Crash ==
    /\ crashes < MaxCrashes
    /\ \E r \in Requests : InFlight(r)
    /\ crashes' = crashes + 1
    /\ pc' = [r \in Requests |-> IF InFlight(r) THEN "lost" ELSE pc[r]]
    /\ row' = [r \in Requests |-> RolledBack(r)]
    /\ UNCHANGED <<account, book, key, todo, outreach, result, answer>>

\* The transaction of another request, a POST /contacts, commits: what it does
\* up to there is in Records.
AddContact(c) ==
    /\ account = "present"
    /\ c \notin book
    /\ book' = book \cup {c}
    /\ UNCHANGED <<account, pc, key, row, todo, outreach, result, answer, crashes>>

\* An operator deletes the user (no endpoint does): ON DELETE CASCADE takes
\* the committed rows along.  A pending event row holds a key-share lock on
\* the user's row, so the deletion waits for it.
DeleteAccount ==
    /\ account = "present"
    /\ \A r \in Requests : row[r] # "pending"
    /\ account' = "deleted"
    /\ book' = {}
    /\ row' = [r \in Requests |-> IF row[r] = "durable" THEN "erased" ELSE row[r]]
    /\ UNCHANGED <<pc, key, todo, outreach, result, answer, crashes>>

-----------------------------------------------------------------------------
\* What a request does when nothing goes wrong.
Step(r) ==
    \/ Authenticate(r) \/ Unauthorized(r)
    \/ CheckReplay(r) \/ CheckMiss(r)
    \/ InsertEvent(r) \/ InsertConflict(r)
    \/ ReplayWinner(r) \/ RaiseConflict(r)
    \/ ReadContacts(r)
    \/ \E c \in Contacts : NotifyOne(r, c)
    \/ ReturnCreated(r)
    \/ Commit(r) \/ Respond(r)

Next ==
    \/ \E r \in Requests :
          \/ \E k \in Keys \cup {NoKey} : Send(r, k)
          \/ Step(r)
          \/ CommitFails(r)
          \/ Fault(r)
    \/ \E c \in Contacts : AddContact(c)
    \/ Crash
    \/ DeleteAccount

Spec == Init /\ [][Next]_vars

\* Every worker thread keeps running while the server is up.
FairSpec == Spec /\ \A r \in Requests : WF_vars(Step(r))

-----------------------------------------------------------------------------
\* Every variable has its type; in particular a 201 or 200 always carries an
\* event and a refusal never does (SosResult, _replay_or_none).
TypeOK ==
    /\ account \in {"present", "deleted"}
    /\ book \subseteq Contacts
    /\ pc \in [Requests -> PCs]
    /\ key \in [Requests -> Keys \cup {NoKey}]
    /\ row \in [Requests -> Fates]
    /\ todo \in [Requests -> SUBSET Contacts]
    /\ outreach \in [Requests -> [Contacts -> {"none", "due", "failed", "delivered"}]]
    /\ result \in [Requests -> Answers]
    /\ answer \in [Requests -> Answers]
    /\ crashes \in 0..MaxCrashes

\* However requests of one key overlap, fail and retry, at most one event row
\* of that key is in the database, committed or not (uq_event_user_idempotency
\* together with the look-ups of the use case).
OneEventPerKey ==
    \A e, f \in Requests :
        /\ row[e] \in {"pending", "durable"}
        /\ row[f] \in {"pending", "durable"}
        /\ SameKey(e, f)
        => e = f

\* All successful answers to one key name the same event: "a repeat returns
\* the same event" (trigger_sos.py:7-9).
AnswersAgree ==
    \A q, r \in Requests :
        Success(answer[q]) /\ Success(answer[r]) /\ SameKey(q, r)
            => answer[q].event = answer[r].event

\* "A failure never loses or duplicates an emergency" (security-design.md:41-43):
\* no event a client was told of is undone.
AckedIsNeverLost ==
    \A r \in Requests : Success(answer[r]) => row[answer[r].event] # "rolledback"

\* A client that was answered 201 or 200 has its event in the database for
\* good: only the deletion of the account takes it away.
AckedIsDurable ==
    \A r \in Requests :
        Success(answer[r]) => row[answer[r].event] \in {"durable", "erased"}

\* No emergency is stored behind the contacts' back: once an event is durable,
\* every contact that was on record when it was inserted has been tried,
\* although the book grows while the request runs.  A replay tells nobody, so
\* who is left out here is left out for good (trigger_sos.py:49-53, 85-86).
DurableIsFannedOut ==
    \A e \in Requests :
        row[e] = "durable" => \A c \in Contacts : outreach[e][c] # "due"

\* The 409 of EventConflictError reaches a client only when the account is
\* gone: the loser of an idempotency race is always given the winner's event.
ConflictOnlyWithoutAccount ==
    \A r \in Requests : answer[r].status = "conflict" => account = "deleted"

\* Once any request of a key has been answered with an event, no later or
\* concurrent request of that key inserts another one.
RetryNeverRecreates ==
    [][\A q, r \in Requests :
          Success(answer[q]) /\ SameKey(q, r) /\ row[r] = "none"
              => row'[r] = "none"]_vars

\* "A repeat returns the same event instead of [...] re-notifying contacts"
\* (trigger_sos.py:7-9): a contact hears of one key once.
NotifiedOncePerKey ==
    \A e, f \in Requests, c \in Contacts :
        /\ outreach[e][c] = "delivered"
        /\ outreach[f][c] = "delivered"
        /\ SameKey(e, f)
        => e = f

\* A contact hears of one key twice only if an event it heard of was undone:
\* races and replays alone, however they overlap, never repeat a notification.
RepeatedOnlyAfterRollback ==
    \A e, f \in Requests, c \in Contacts :
        /\ outreach[e][c] = "delivered"
        /\ outreach[f][c] = "delivered"
        /\ SameKey(e, f)
        /\ e # f
        => "rolledback" \in {row[e], row[f]}

\* Every request that was sent is answered, unless the server dies under it:
\* a request blocked on the unique index is never left waiting.
EveryRequestEnds ==
    \A r \in Requests : pc[r] = "auth" ~> pc[r] \in {"done", "lost"}

-----------------------------------------------------------------------------
\* What a client is promised when the commit precedes the response.
Promise == INSTANCE SosPromise WITH
    asked    <- {r \in Requests : pc[r] # "idle"},
    recorded <- {r \in Requests : row[r] \in {"durable", "erased"}},
    reply    <- answer

\* Every step of the handlers is a step of the promise or invisible to it.
KeepsPromise == Promise!Spec

=============================================================================
