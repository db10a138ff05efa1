------------------------------ MODULE Records ------------------------------
(***************************************************************************)
(* What a user keeps on record: contacts (POST and GET /contacts) and      *)
(* location samples (POST /location/update, GET /location/history), for    *)
(* one user.                                                               *)
(*                                                                         *)
(* A row is named by the request that inserted it.  A walk is a client     *)
(* that reads a list page after page until meta says that it has all: a    *)
(* page is one request of two statements, the items and then their total.  *)
(***************************************************************************)
EXTENDS Naturals, FiniteSets

CONSTANTS
    Adds,                   \* the contacts that may be posted
    Samples,                \* the positions that may be posted
    Walks,                  \* the lists that may be read
    Phones,
    Limit,                  \* rows of a page
    CommitBeforeResponse,   \* as in TriggerSos
    MaxTime,                \* bound on the clock
    MaxFaults               \* bound on failing statements and commits

Writes   == Adds \cup Samples
Requests == Writes \cup Walks

ASSUME ConstantsAssumption ==
    /\ Adds \cap Samples = {}
    /\ Writes \cap Walks = {}
    /\ IsFiniteSet(Writes)
    /\ Limit \in Nat \ {0}
    /\ CommitBeforeResponse \in BOOLEAN
    /\ MaxTime \in Nat
    /\ MaxFaults \in Nat

VARIABLES
    pc,         \* where each request is
    phone,      \* phone_number of each contact
    table,      \* the list each walk reads
    row,        \* the fate of the row each write built
    stamp,      \* recorded_at of each sample
    id,         \* the primary key of each row, 0 without one
    alive,      \* is the user's own row there?
    page,       \* the page each walk is at
    total,      \* the total that came with its last page
    seen,       \* the rows of all its pages
    known,      \* history: the rows of its table a request follows
    answer,     \* the response as sent
    now,        \* the clock
    faults      \* failures so far

walking == <<page, total, seen>>
vars == <<pc, phone, table, row, stamp, id, alive, page, total, seen, known,
          answer, now, faults>>

-----------------------------------------------------------------------------
PCs    == {"idle", "auth", "check", "stamp", "insert", "list", "count",
           "commit", "respond", "next", "done"}
Fates  == {"none", "pending", "durable", "rolledback", "erased"}
Tables == {"contacts", "history"}

\* 201, 200 to a walk's last page; 409 duplicate_contact, 401, 500.
Answers == {"none", "created", "listed", "duplicate", "unauthorized", "error"}

\* The table a request is about, and what may be in it.
TableOf(r) == IF r \in Walks THEN table[r]
              ELSE IF r \in Adds THEN "contacts" ELSE "history"
RowsOf(t)  == IF t = "contacts" THEN Adds ELSE Samples

\* The rows a statement of another transaction sees (READ COMMITTED).
Visible(t) == {x \in RowsOf(t) : row[x] = "durable"}

\* Mutant: samples of one instant come oldest first.
Before_TieAscending(t, x, y) ==
    IF t = "contacts" THEN id[x] < id[y]
    ELSE stamp[x] > stamp[y] \/ (stamp[x] = stamp[y] /\ id[x] < id[y])

\* ORDER BY: contacts by id, samples newest first and then by id.
Before(t, x, y) ==
    IF t = "contacts" THEN id[x] < id[y]
    ELSE stamp[x] > stamp[y] \/ (stamp[x] = stamp[y] /\ id[x] > id[y])

\* How many rows of the list come before x.
Position(t, x) == Cardinality({y \in Visible(t) : Before(t, y, x)})

\* Pagination.offset.
Offset(w) == (page[w] - 1) * Limit

\* OFFSET and LIMIT.
PageRows(w) ==
    {x \in Visible(table[w]) : Position(table[w], x) \in Offset(w)..(Offset(w) + Limit - 1)}

\* Mutant: the total is the number of rows of the page.
Total_OfPage(w) == Cardinality(PageRows(w))

\* count_for_user.
Total(w) == Cardinality(Visible(table[w]))

\* Mutant: uncommitted contacts are found.
Holders_Dirty(a) ==
    {b \in Adds : row[b] \in {"pending", "durable"} /\ phone[b] = phone[a] /\ alive}

\* get_by_user_and_phone.
Holders(a) == {b \in Visible("contacts") : phone[b] = phone[a]}

\* Another open transaction has inserted a's number.
Contended(a) == \E b \in Adds \ {a} : row[b] = "pending" /\ phone[b] = phone[a]

\* Mutant: the constraint uq_contact_user_phone is missing.
Rejected_NotUnique(r) == ~alive

\* The INSERT violates the foreign key, or the constraint on the number.
Rejected(r) == ~alive \/ (r \in Adds /\ Holders(r) # {})

\* The sequence of a primary key: above every key it has given.
NextId == 1 + Cardinality({x \in Writes : id[x] # 0})

\* The key of r's row: drawn once, whether or not the row comes to be.
Key(r) == IF id[r] = 0 THEN NextId ELSE id[r]

\* A rollback undoes what r inserted.
RolledBack(r) == [q \in Writes |-> IF q = r /\ row[q] = "pending" THEN "rolledback" ELSE row[q]]

Goto(r, l) == pc' = [pc EXCEPT ![r] = l]

\* The handler has returned: what the end of the request does first.
AfterHandler == IF CommitBeforeResponse THEN "commit" ELSE "respond"

-----------------------------------------------------------------------------
Init ==
    /\ pc = [r \in Requests |-> "idle"]
    /\ phone \in [Adds -> Phones]
    /\ table \in [Walks -> Tables]
    /\ row = [r \in Writes |-> "none"]
    /\ stamp = [s \in Samples |-> 0]
    /\ id = [r \in Writes |-> 0]
    /\ alive = TRUE
    /\ page = [w \in Walks |-> 1]
    /\ total = [w \in Walks |-> 0]
    /\ seen = [w \in Walks |-> {}]
    /\ known = [r \in Requests |-> {}]
    /\ answer = [r \in Requests |-> "none"]
    /\ now = 0
    /\ faults = 0

\* A client sends a write, or the first page of a walk.
Send(r) ==
    /\ pc[r] = "idle"
    /\ Goto(r, "auth")
    /\ known' = [known EXCEPT ![r] =
          IF r \in Walks THEN Visible(table[r])
          ELSE {x \in RowsOf(TableOf(r)) : answer[x] = "created"}]
    /\ UNCHANGED <<phone, table, row, stamp, id, alive, walking, answer, now, faults>>

\* An exception leaves the handler of r: rollback, and an answer.
Abort(r, status) ==
    /\ Goto(r, "done")
    /\ row' = RolledBack(r)
    /\ answer' = [answer EXCEPT ![r] = status]
    /\ UNCHANGED <<phone, table, stamp, alive, walking, known, now>>

\* get_current_user finds the user, or does not.
Authenticate(r) ==
    /\ pc[r] = "auth"
    /\ alive
    /\ Goto(r, IF r \in Adds THEN "check" ELSE IF r \in Samples THEN "stamp" ELSE "list")
    /\ UNCHANGED <<phone, table, row, stamp, id, alive, walking, known, answer, now, faults>>

Unauthorized(r) ==
    /\ pc[r] = "auth"
    /\ ~alive
    /\ Abort(r, "unauthorized")
    /\ UNCHANGED <<id, faults>>

-----------------------------------------------------------------------------
\* Mutant: DuplicateContactError has no entry in the table of domain errors.
NumberTaken_Unmapped(a) ==
    /\ pc[a] = "check"
    /\ Holders(a) # {}
    /\ Abort(a, "domain_error")
    /\ UNCHANGED <<id, faults>>

\* AddContactUseCase: look, then insert.
NumberTaken(a) ==
    /\ pc[a] = "check"
    /\ Holders(a) # {}
    /\ Abort(a, "duplicate")
    /\ UNCHANGED <<id, faults>>

NumberFree(a) ==
    /\ pc[a] = "check"
    /\ Holders(a) = {}
    /\ Goto(a, "insert")
    /\ UNCHANGED <<phone, table, row, stamp, id, alive, walking, known, answer, now, faults>>

\* Flushing a sample calls utcnow for its recorded_at; time passes until then.
Stamp(s) ==
    /\ pc[s] = "stamp"
    /\ \E t \in now..MaxTime :
          /\ now' = t
          /\ stamp' = [stamp EXCEPT ![s] = t]
    /\ Goto(s, "insert")
    /\ UNCHANGED <<phone, table, row, id, alive, walking, known, answer, faults>>

\* The INSERT of a contact draws its primary key, and waits for an open
\* transaction with the same number.
Wait(a) ==
    /\ pc[a] = "insert"
    /\ id[a] = 0
    /\ Contended(a)
    /\ id' = [id EXCEPT ![a] = NextId]
    /\ UNCHANGED <<pc, phone, table, row, stamp, alive, walking, known, answer, now, faults>>

\* The INSERT succeeds, after the wait or without one.
Insert(r) ==
    /\ pc[r] = "insert"
    /\ r \in Adds => ~Contended(r)
    /\ ~Rejected(r)
    /\ row' = [row EXCEPT ![r] = "pending"]
    /\ id' = [id EXCEPT ![r] = Key(r)]
    /\ Goto(r, AfterHandler)
    /\ UNCHANGED <<phone, table, stamp, alive, walking, known, answer, now, faults>>

\* IntegrityError is no DomainError: the catch-all handler answers 500.
InsertRejected(r) ==
    /\ pc[r] = "insert"
    /\ r \in Adds => ~Contended(r)
    /\ Rejected(r)
    /\ id' = [id EXCEPT ![r] = Key(r)]
    /\ Abort(r, "error")
    /\ UNCHANGED faults

\* The two statements of a page.
ListRows(w) ==
    /\ pc[w] = "list"
    /\ seen' = [seen EXCEPT ![w] = @ \cup PageRows(w)]
    /\ Goto(w, "count")
    /\ UNCHANGED <<phone, table, row, stamp, id, alive, page, total, known, answer, now, faults>>

CountRows(w) ==
    /\ pc[w] = "count"
    /\ total' = [total EXCEPT ![w] = Total(w)]
    /\ Goto(w, "next")
    /\ UNCHANGED <<phone, table, row, stamp, id, alive, page, seen, known, answer, now, faults>>

\* The client reads meta: another page, or the end of the list.
NextPage(w) ==
    /\ pc[w] = "next"
    /\ page[w] * Limit < total[w]
    /\ page' = [page EXCEPT ![w] = @ + 1]
    /\ Goto(w, "auth")
    /\ UNCHANGED <<phone, table, row, stamp, id, alive, total, seen, known, answer, now, faults>>

LastPage(w) ==
    /\ pc[w] = "next"
    /\ page[w] * Limit >= total[w]
    /\ answer' = [answer EXCEPT ![w] = "listed"]
    /\ Goto(w, "done")
    /\ UNCHANGED <<phone, table, row, stamp, id, alive, walking, known, now, faults>>

-----------------------------------------------------------------------------
\* The teardown of get_session; the transaction of a page has nothing to commit.
Commit(r) ==
    /\ pc[r] = "commit"
    /\ row' = [row EXCEPT ![r] = "durable"]
    /\ Goto(r, IF CommitBeforeResponse THEN "respond" ELSE "done")
    /\ UNCHANGED <<phone, table, stamp, id, alive, walking, known, answer, now, faults>>

Respond(r) ==
    /\ pc[r] = "respond"
    /\ answer' = [answer EXCEPT ![r] = "created"]
    /\ Goto(r, IF CommitBeforeResponse THEN "done" ELSE "commit")
    /\ UNCHANGED <<phone, table, row, stamp, id, alive, walking, known, now, faults>>

\* COMMIT raises, the transaction applied or not.
CommitFails(r) ==
    /\ pc[r] = "commit"
    /\ faults < MaxFaults
    /\ faults' = faults + 1
    /\ \E fate \in {"rolledback", "durable"} : row' = [row EXCEPT ![r] = fate]
    /\ answer' = IF CommitBeforeResponse THEN [answer EXCEPT ![r] = "error"] ELSE answer
    /\ Goto(r, "done")
    /\ UNCHANGED <<phone, table, stamp, id, alive, walking, known, now>>

\* A statement fails: connection lost or pool timeout.
Fault(r) ==
    /\ pc[r] \in {"auth", "check", "insert", "list", "count"}
    /\ faults < MaxFaults
    /\ faults' = faults + 1
    /\ Abort(r, "error")
    /\ UNCHANGED id

\* An operator deletes the user (no endpoint does): the rows go with it, and a
\* row inserted and not yet committed makes the deletion wait.
DeleteUser ==
    /\ alive
    /\ \A r \in Writes : row[r] # "pending"
    /\ alive' = FALSE
    /\ row' = [r \in Writes |-> IF row[r] = "durable" THEN "erased" ELSE row[r]]
    /\ UNCHANGED <<pc, phone, table, stamp, id, walking, known, answer, now, faults>>

-----------------------------------------------------------------------------
Next ==
    \/ \E r \in Requests : Send(r) \/ Authenticate(r) \/ Unauthorized(r) \/ Fault(r)
    \/ \E a \in Adds : NumberTaken(a) \/ NumberFree(a) \/ Wait(a)
    \/ \E s \in Samples : Stamp(s)
    \/ \E r \in Writes : Insert(r) \/ InsertRejected(r) \/ Commit(r) \/ Respond(r) \/ CommitFails(r)
    \/ \E w \in Walks : ListRows(w) \/ CountRows(w) \/ NextPage(w) \/ LastPage(w)
    \/ DeleteUser

Spec == Init /\ [][Next]_vars

-----------------------------------------------------------------------------
\* Every variable has its type.
TypeOK ==
    /\ pc \in [Requests -> PCs]
    /\ phone \in [Adds -> Phones]
    /\ table \in [Walks -> Tables]
    /\ row \in [Writes -> Fates]
    /\ stamp \in [Samples -> 0..MaxTime]
    /\ id \in [Writes -> Nat]
    /\ alive \in BOOLEAN
    /\ page \in [Walks -> Nat \ {0}]
    /\ total \in [Walks -> Nat]
    /\ seen \in [Walks -> SUBSET Writes]
    /\ known \in [Requests -> SUBSET Writes]
    /\ answer \in [Requests -> Answers]
    /\ now \in 0..MaxTime
    /\ faults \in 0..MaxFaults

\* A walk that reaches the end of a list has shown every row that was stored
\* when it began, however many rows were added between and inside its pages:
\* rows shift towards later pages only, and the total is counted after the
\* items (get_location_history.py:29-31).
NoneSkipped ==
    \A w \in Walks :
        answer[w] = "listed"
            => \A x \in known[w] : row[x] = "durable" => x \in seen[w]

\* "A user cannot register the same phone number twice"
\* (models/emergency_contact.py:15), which one_or_none in
\* get_by_user_and_phone relies on.
OneContactPerNumber ==
    \A a, b \in Adds :
        /\ row[a] \in {"pending", "durable"}
        /\ row[b] \in {"pending", "durable"}
        /\ phone[a] = phone[b]
        => a = b

\* No contact is turned away for one that never came to be: behind a 409, and
\* behind a 500 when nothing failed, stands a stored contact of that number,
\* or the deletion of the user.
RefusalHasHolder ==
    \A a \in Adds :
        \/ answer[a] = "duplicate"
        \/ answer[a] = "error" /\ faults = 0
        => \/ ~alive
           \/ \E b \in Adds \ {a} : row[b] = "durable" /\ phone[b] = phone[a]

\* What was recorded after the answer to something else is listed as the later
\* of the two: contacts after it, samples ("newest first") before it, also when
\* the clock has not moved between them.
ListedInRequestOrder ==
    \A y \in Writes : \A x \in known[y] :
        /\ row[x] = "durable"
        /\ row[y] = "durable"
        => IF y \in Adds THEN Position("contacts", x) < Position("contacts", y)
           ELSE Position("history", y) < Position("history", x)

-----------------------------------------------------------------------------
Book == INSTANCE Register WITH
    Requests <- Adds,
    Granted  <- "created",
    Taken    <- "duplicate",
    Refusals <- {"unauthorized", "error"},
    Failed   <- "error",
    name     <- phone,
    entered  <- {a \in Adds : row[a] = "durable"},
    erased   <- {a \in Adds : row[a] = "erased"},
    reply    <- [a \in Adds |-> answer[a]]

\* However contacts are added at once and fail: a number is stored once, a 201
\* is worth its row, a 409 names a stored number, and a refused contact leaves
\* nothing behind, unless its client is told of an error.
KeepsBook == Book!Spec

=============================================================================
