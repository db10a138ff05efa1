------------------------------ MODULE Accounts ------------------------------
(***************************************************************************)
(* The accounts of the platform: POST /auth/register, POST /auth/login and *)
(* GET /profile, which stands for every request behind get_current_user.   *)
(*                                                                         *)
(* An account is named by the registration that inserted it: primary keys  *)
(* come from a sequence and are never used again.  Names, and why an input *)
(* is rejected with 422 before a handler runs, are left out.               *)
(***************************************************************************)
EXTENDS Naturals

CONSTANTS
    Registrations, Logins, Profiles,    \* the requests that may be made
    Addresses,              \* email addresses as they are typed
    Emails,                 \* and as they are stored
    Normal,                 \* normalize_email
    Passwords,
    Nobody,                 \* no account, no token
    Lifetime,               \* access_token_expire_minutes
    CommitBeforeResponse,   \* does the teardown run before the response?
    MaxTime,                \* bound on the clock
    MaxFaults               \* bound on failing statements and commits

Requests == Registrations \cup Logins \cup Profiles
Forms    == Registrations \cup Logins

ASSUME ConstantsAssumption ==
    /\ Registrations \cap Logins = {}
    /\ Registrations \cap Profiles = {}
    /\ Logins \cap Profiles = {}
    /\ Nobody \notin Requests
    /\ Normal \in [Addresses -> Emails]
    /\ Lifetime \in Nat \ {0}
    /\ CommitBeforeResponse \in BOOLEAN
    /\ MaxTime \in Nat
    /\ MaxFaults \in Nat

VARIABLES
    pc,         \* where each request is
    address,    \* the email a registration or login was sent with
    password,   \* and its password
    bearer,     \* the login whose token a profile request presents
    row,        \* the fate of the users row each registration built
    user,       \* the account a login or profile request has found
    expiry,     \* the exp claim of the token each login issued
    sent,       \* when each request was sent
    answer,     \* the response as sent
    now,        \* the clock
    faults      \* failures so far

vars == <<pc, address, password, bearer, row, user, expiry, sent, answer, now, faults>>

-----------------------------------------------------------------------------
PCs   == {"idle", "check", "insert", "find", "issue", "decode", "load",
          "commit", "respond", "done"}
Fates == {"none", "pending", "durable", "rolledback", "erased"}

\* 201, 200 with a token, 200 with a profile; 409 email_taken,
\* 401 invalid_credentials, 401 unauthorized, 500; not answered.
Grants   == {"registered", "token", "profile"}
Refusals == {"taken", "invalid", "unauthorized", "error"}
Answers  == [status : Grants, user : Registrations]
              \cup [status : Refusals \cup {"none"}, user : {Nobody}]

Refusal(s) == [status |-> s, user |-> Nobody]

\* Mutant: an email is compared as it was typed.
Email_AsTyped(r) == address[r]

\* The stored, or looked up, form of the email of r.
Email(r) == Normal[address[r]]

\* Mutant: uncommitted accounts are seen.
Holders_Dirty(r) ==
    {u \in Registrations : row[u] \in {"pending", "durable"} /\ Email(u) = Email(r)}

\* get_by_email: the committed accounts of r's email.
Holders(r) == {u \in Registrations : row[u] = "durable" /\ Email(u) = Email(r)}

\* Another open transaction has inserted r's email.
Contended(r) ==
    \E q \in Registrations \ {r} : row[q] = "pending" /\ Email(q) = Email(r)

\* Mutant: the index on email is not unique.
Violates_NotUnique(r) == FALSE

\* The unique index on users.email rejects r's row.
Violates(r) == Holders(r) # {}

\* Mutant: a token is refused a unit of time before it expires.
Valid_Short(l) == l # Nobody /\ expiry[l] > now + 1

\* Mutant: the exp claim is not verified.
Valid_Forever(l) == l # Nobody

\* jwt.decode: there is a token, and its exp lies in the future.
Valid(l) == l # Nobody /\ expiry[l] > now

\* bcrypt: a hash verifies the password it was made of and no other.
Verifies(p, u) == password[u] = p

\* Mutant: the token names the email instead of the account.
Subject_ByEmail(l) ==
    IF Holders(l) = {} THEN user[l] ELSE CHOOSE u \in Holders(l) : TRUE

\* The account the sub claim of l's token names.
Subject(l) == user[l]

\* A rollback undoes what r inserted.
RolledBack(r) == IF row[r] = "pending" THEN "rolledback" ELSE row[r]

Goto(r, l) == pc' = [pc EXCEPT ![r] = l]

\* The handler has returned: what the end of the request does first.
AfterHandler == IF CommitBeforeResponse THEN "commit" ELSE "respond"

\* What the handler of r returned, once it has.
Result(r) ==
    IF r \in Registrations THEN [status |-> "registered", user |-> r]
    ELSE IF r \in Logins THEN [status |-> "token", user |-> user[r]]
    ELSE [status |-> "profile", user |-> user[r]]

-----------------------------------------------------------------------------
Init ==
    /\ pc = [r \in Requests |-> "idle"]
    /\ address \in [Forms -> Addresses]
    /\ password \in [Forms -> Passwords]
    /\ bearer = [p \in Profiles |-> Nobody]
    /\ row = [r \in Registrations |-> "none"]
    /\ user = [r \in Logins \cup Profiles |-> Nobody]
    /\ expiry = [l \in Logins |-> 0]
    /\ sent = [r \in Requests |-> 0]
    /\ answer = [r \in Requests |-> Refusal("none")]
    /\ now = 0
    /\ faults = 0

\* A client sends a form; what it says is fixed from the start.
SendForm(r) ==
    /\ pc[r] = "idle"
    /\ Goto(r, IF r \in Registrations THEN "check" ELSE "find")
    /\ sent' = [sent EXCEPT ![r] = now]
    /\ UNCHANGED <<address, password, bearer, row, user, expiry, answer, now, faults>>

\* A client presents a token it was given by some login, or none that is valid.
SendProfile(p, l) ==
    /\ pc[p] = "idle"
    /\ l # Nobody => answer[l].status = "token"
    /\ Goto(p, "decode")
    /\ bearer' = [bearer EXCEPT ![p] = l]
    /\ sent' = [sent EXCEPT ![p] = now]
    /\ UNCHANGED <<address, password, row, user, expiry, answer, now, faults>>

\* An exception leaves the handler of r: rollback, and an answer with status s.
Abort(r, s) ==
    /\ Goto(r, "done")
    /\ row' = [q \in Registrations |-> IF q = r THEN RolledBack(q) ELSE row[q]]
    /\ answer' = [answer EXCEPT ![r] = Refusal(s)]
    /\ UNCHANGED <<address, password, bearer, user, expiry, sent, now>>

-----------------------------------------------------------------------------
\* RegisterUserUseCase: look, hash, insert.
EmailTaken(r) ==
    /\ pc[r] = "check"
    /\ Holders(r) # {}
    /\ Abort(r, "taken")
    /\ UNCHANGED faults

EmailFree(r) ==
    /\ pc[r] = "check"
    /\ Holders(r) = {}
    /\ Goto(r, "insert")
    /\ UNCHANGED <<address, password, bearer, row, user, expiry, sent, answer, now, faults>>

\* The INSERT of the flush waits for an open transaction with the same email.
InsertUser(r) ==
    /\ pc[r] = "insert"
    /\ ~Contended(r)
    /\ ~Violates(r)
    /\ row' = [row EXCEPT ![r] = "pending"]
    /\ Goto(r, AfterHandler)
    /\ UNCHANGED <<address, password, bearer, user, expiry, sent, answer, now, faults>>

\* IntegrityError is no DomainError: the catch-all handler answers 500.
InsertLoses(r) ==
    /\ pc[r] = "insert"
    /\ ~Contended(r)
    /\ Violates(r)
    /\ Abort(r, "error")
    /\ UNCHANGED faults

\* AuthenticateUserUseCase: look-up and verification use one read.
FindUser(l) ==
    /\ pc[l] = "find"
    /\ \E u \in Holders(l) :
          /\ Verifies(password[l], u)
          /\ user' = [user EXCEPT ![l] = u]
    /\ Goto(l, "issue")
    /\ UNCHANGED <<address, password, bearer, row, expiry, sent, answer, now, faults>>

BadCredentials(l) ==
    /\ pc[l] = "find"
    /\ \A u \in Holders(l) : ~Verifies(password[l], u)
    /\ Abort(l, "invalid")
    /\ UNCHANGED faults

\* JwtTokenService.issue, after the slow verification of the password.
IssueToken(l) ==
    /\ pc[l] = "issue"
    /\ expiry' = [expiry EXCEPT ![l] = now + Lifetime]
    /\ Goto(l, AfterHandler)
    /\ UNCHANGED <<address, password, bearer, row, user, sent, answer, now, faults>>

\* get_current_user: decode the token, then load the account it names.
Decode(p) ==
    /\ pc[p] = "decode"
    /\ Valid(bearer[p])
    /\ Goto(p, "load")
    /\ UNCHANGED <<address, password, bearer, row, user, expiry, sent, answer, now, faults>>

BadToken(p) ==
    /\ pc[p] = "decode"
    /\ ~Valid(bearer[p])
    /\ Abort(p, "unauthorized")
    /\ UNCHANGED faults

\* Mutant: get_current_user does not test for None.
LoadUser_Unchecked(p) ==
    /\ pc[p] = "load"
    /\ user' = [user EXCEPT
          ![p] = IF row[Subject(bearer[p])] = "durable" THEN Subject(bearer[p]) ELSE Nobody]
    /\ Goto(p, AfterHandler)
    /\ UNCHANGED <<address, password, bearer, row, expiry, sent, answer, now, faults>>

LoadUser(p) ==
    /\ pc[p] = "load"
    /\ row[Subject(bearer[p])] = "durable"
    /\ user' = [user EXCEPT ![p] = Subject(bearer[p])]
    /\ Goto(p, AfterHandler)
    /\ UNCHANGED <<address, password, bearer, row, expiry, sent, answer, now, faults>>

UserGone(p) ==
    /\ pc[p] = "load"
    /\ row[Subject(bearer[p])] # "durable"
    /\ Abort(p, "unauthorized")
    /\ UNCHANGED faults

-----------------------------------------------------------------------------
\* Mutant: get_session ends without the commit, the transaction stays open.
Commit_Missing(r) ==
    /\ pc[r] = "commit"
    /\ Goto(r, IF CommitBeforeResponse THEN "respond" ELSE "done")
    /\ UNCHANGED <<address, password, bearer, row, user, expiry, sent, answer, now, faults>>

\* The teardown of get_session commits; only a registration has a row.
Commit(r) ==
    /\ pc[r] = "commit"
    /\ row' = [q \in Registrations |->
                 IF q = r /\ row[q] = "pending" THEN "durable" ELSE row[q]]
    /\ Goto(r, IF CommitBeforeResponse THEN "respond" ELSE "done")
    /\ UNCHANGED <<address, password, bearer, user, expiry, sent, answer, now, faults>>

Respond(r) ==
    /\ pc[r] = "respond"
    /\ answer' = [answer EXCEPT ![r] = Result(r)]
    /\ Goto(r, IF CommitBeforeResponse THEN "done" ELSE "commit")
    /\ UNCHANGED <<address, password, bearer, row, user, expiry, sent, now, faults>>

\* COMMIT raises, the transaction applied or not; the client is told only if
\* the response has not been sent.
CommitFails(r) ==
    /\ pc[r] = "commit"
    /\ faults < MaxFaults
    /\ faults' = faults + 1
    /\ \E fate \in {"rolledback", "durable"} :
          row' = [q \in Registrations |->
                    IF q = r /\ row[q] = "pending" THEN fate ELSE row[q]]
    /\ answer' = IF CommitBeforeResponse
                 THEN [answer EXCEPT ![r] = Refusal("error")]
                 ELSE answer
    /\ Goto(r, "done")
    /\ UNCHANGED <<address, password, bearer, user, expiry, sent, now>>

\* A statement of the handler fails: connection lost or pool timeout.
Fault(r) ==
    /\ pc[r] \in {"check", "insert", "find", "load"}
    /\ faults < MaxFaults
    /\ faults' = faults + 1
    /\ Abort(r, "error")

\* An operator deletes an account (no endpoint does).
DeleteUser(u) ==
    /\ row[u] = "durable"
    /\ row' = [row EXCEPT ![u] = "erased"]
    /\ UNCHANGED <<pc, address, password, bearer, user, expiry, sent, answer, now, faults>>

Tick ==
    /\ now < MaxTime
    /\ now' = now + 1
    /\ UNCHANGED <<pc, address, password, bearer, row, user, expiry, sent, answer, faults>>

-----------------------------------------------------------------------------
\* What a request does when nothing goes wrong.
RegisterStep(r) ==
    EmailTaken(r) \/ EmailFree(r) \/ InsertUser(r) \/ InsertLoses(r)
LoginStep(l)   == FindUser(l) \/ BadCredentials(l) \/ IssueToken(l)
ProfileStep(p) == Decode(p) \/ BadToken(p) \/ LoadUser(p) \/ UserGone(p)
EndStep(r)     == Commit(r) \/ Respond(r)

Next ==
    \/ \E r \in Forms : SendForm(r)
    \/ \E p \in Profiles, l \in Logins \cup {Nobody} : SendProfile(p, l)
    \/ \E r \in Registrations : RegisterStep(r) \/ DeleteUser(r)
    \/ \E l \in Logins : LoginStep(l)
    \/ \E p \in Profiles : ProfileStep(p)
    \/ \E r \in Requests : EndStep(r) \/ CommitFails(r) \/ Fault(r)
    \/ Tick

Spec == Init /\ [][Next]_vars

\* Every worker thread keeps running.
FairSpec ==
    /\ Spec
    /\ \A r \in Registrations : WF_vars(RegisterStep(r))
    /\ \A l \in Logins : WF_vars(LoginStep(l))
    /\ \A p \in Profiles : WF_vars(ProfileStep(p))
    /\ \A r \in Requests : WF_vars(EndStep(r))

-----------------------------------------------------------------------------
\* Every variable has its type; a grant always names the account it is about.
TypeOK ==
    /\ pc \in [Requests -> PCs]
    /\ address \in [Forms -> Addresses]
    /\ password \in [Forms -> Passwords]
    /\ bearer \in [Profiles -> Logins \cup {Nobody}]
    /\ row \in [Registrations -> Fates]
    /\ user \in [Logins \cup Profiles -> Registrations \cup {Nobody}]
    /\ expiry \in [Logins -> Nat]
    /\ sent \in [Requests -> Nat]
    /\ answer \in [Requests -> Answers]
    /\ now \in 0..MaxTime
    /\ faults \in 0..MaxFaults

SameMailbox(q, r) == Normal[address[q]] = Normal[address[r]]

\* However registrations overlap and fail, at most one account of a mailbox is
\* in the database, whatever the spelling ("keeps logins case-insensitive",
\* models/user.py:8); one_or_none in get_by_email relies on it.
OneAccountPerEmail ==
    \A q, r \in Registrations :
        /\ row[q] \in {"pending", "durable"}
        /\ row[r] \in {"pending", "durable"}
        /\ SameMailbox(q, r)
        => q = r

\* Nobody is turned away for an account that never came to be: behind a 409,
\* and behind a 500 when nothing failed, stands somebody else's account.
RefusalHasHolder ==
    \A r \in Registrations :
        \/ answer[r].status = "taken"
        \/ answer[r].status = "error" /\ faults = 0
        => \E u \in Registrations \ {r} :
              row[u] \in {"durable", "erased"} /\ SameMailbox(u, r)

\* Who has been answered 201 can log in, in any spelling of the address, until
\* the account is deleted.
RegisteredCanLogIn ==
    [][\A u \in Registrations, l \in Logins :
          /\ answer[u].status = "registered"
          /\ row[u] # "erased"
          /\ SameMailbox(u, l)
          /\ password[u] = password[l]
          /\ pc[l] = "find"
          => answer'[l].status # "invalid"]_vars

\* A token opens the account whose mailbox and password obtained it, also when
\* that account is deleted and its mailbox registered anew by somebody else.
TokenReachesItsOwner ==
    \A p \in Profiles :
        answer[p].status = "profile"
            => /\ bearer[p] \in Logins
               /\ SameMailbox(answer[p].user, bearer[p])
               /\ password[answer[p].user] = password[bearer[p]]

\* A request sent at or after the expiry of its token is never granted.
ExpiredIsRefused ==
    \A p \in Profiles :
        answer[p].status = "profile" => sent[p] < expiry[bearer[p]]

\* A token a login handed out is refused only for a reason that lasts: it has
\* expired, or its account has been deleted.
TokenHonoured ==
    \A p \in Profiles :
        /\ answer[p].status = "unauthorized"
        /\ bearer[p] # Nobody
        => expiry[bearer[p]] <= now \/ row[user[bearer[p]]] = "erased"

\* "409 - email already registered" (docs/api-contract.md:125): when nothing
\* fails, no registration is answered 500.
DuplicateIsConflict ==
    \A r \in Registrations : answer[r].status = "error" => faults > 0

\* Every request is answered: a registration blocked on the unique index too.
EveryRequestEnds ==
    \A r \in Requests : pc[r] \in {"check", "find", "decode"} ~> pc[r] = "done"

-----------------------------------------------------------------------------
Registry == INSTANCE Register WITH
    Requests <- Registrations,
    Granted  <- "registered",
    Taken    <- "taken",
    Refusals <- {"error"},
    Failed   <- "error",
    name     <- [r \in Registrations |-> Normal[address[r]]],
    entered  <- {r \in Registrations : row[r] = "durable"},
    erased   <- {r \in Registrations : row[r] = "erased"},
    reply    <- [r \in Registrations |-> answer[r].status]

\* However registrations overlap and fail: a mailbox has one account at a time,
\* a 201 is worth an account, a 409 names the account of somebody else, and a
\* refused registration leaves nothing behind, unless it is told of an error.
KeepsRegistry == Registry!Spec

=============================================================================
