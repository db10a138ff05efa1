-------------------------- MODULE TriggerSosProofs --------------------------
(***************************************************************************)
(* Proofs about TriggerSos for every set of requests, keys and contacts,   *)
(* any number of crashes and both orders of the teardown.                  *)
(***************************************************************************)
EXTENDS TriggerSos, TLAPS

-----------------------------------------------------------------------------
\* The inductive invariant, in parts.

Recorded(e) == row[e] \in {"durable", "erased"}
Early(r)    == pc[r] \in Handler \cup {"idle"}

\* Where a request is tells what became of its row.
RowByStage ==
    \A r \in Requests :
        /\ pc[r] \in {"idle", "auth", "check", "insert", "replay"} => row[r] = "none"
        /\ pc[r] \in {"contacts", "notify"} => row[r] = "pending"
        /\ pc[r] \in {"done", "lost"} => row[r] # "pending"

\* Where a request is tells what its handler has returned.
ResultByStage ==
    \A r \in Requests :
        /\ Early(r) => result[r] = NoAnswer
        /\ result[r].status \in Grants \cup {"none"}
        /\ result[r].status = "created" => result[r].event = r
        /\ pc[r] \in {"commit", "respond"} => Success(result[r])
        /\ pc[r] \in {"commit", "respond"} /\ result[r].status = "replayed"
              => row[r] = "none"
        /\ pc[r] = "commit" /\ result[r].status = "created" => row[r] = "pending"
        /\ pc[r] = "respond" /\ result[r].status = "created"
              => IF CommitBeforeResponse THEN Recorded(r) ELSE row[r] = "pending"

\* Where a request is tells whether it has been answered, and a success
\* repeats the result.
AnswerByStage ==
    \A r \in Requests :
        /\ Early(r) \/ pc[r] = "respond" => answer[r] = NoAnswer
        /\ pc[r] = "commit" /\ CommitBeforeResponse => answer[r] = NoAnswer
        /\ Success(answer[r]) => answer[r] = result[r]
        /\ CommitBeforeResponse /\ answer[r].status = "created" => Recorded(r)

Stages == RowByStage /\ ResultByStage /\ AnswerByStage

\* Over the whole life of the database a key is recorded once.
UniqueRecord ==
    /\ \A e, f \in Requests :
          /\ row[e] \in {"pending", "durable", "erased"}
          /\ row[f] \in {"pending", "durable", "erased"}
          /\ SameKey(e, f)
          => e = f
    /\ \A e \in Requests : row[e] = "erased" => account = "deleted"

\* A replay names a recorded event of its own key.
ReplayNamesDurable ==
    \A r \in Requests :
        result[r].status = "replayed"
            => /\ row[result[r].event] \in {"durable", "erased"}
               /\ SameKey(result[r].event, r)

\* While the row is pending the account stays, so whom the event is due to stays
\* on record until the contacts are read, and on the list until tried.
FanOut ==
    \A r \in Requests :
        /\ row[r] = "pending" => account = "present"
        /\ pc[r] = "contacts"
              => \A c \in Contacts : outreach[r][c] = "due" => c \in book
        /\ pc[r] = "notify"
              => \A c \in Contacts : outreach[r][c] = "due" => c \in todo[r]
        /\ pc[r] \in {"commit", "respond"} /\ row[r] = "pending"
              => \A c \in Contacts : outreach[r][c] # "due"
        /\ row[r] = "durable" => \A c \in Contacts : outreach[r][c] # "due"

\* A request that lost a race can still find the winner.
LoserFindsWinner ==
    \A r \in Requests :
        pc[r] = "replay" => account = "deleted" \/ Existing(r) # {}

IInv ==
    /\ TypeOK
    /\ Stages
    /\ UniqueRecord
    /\ ReplayNamesDurable
    /\ FanOut
    /\ LoserFindsWinner
    /\ ConflictOnlyWithoutAccount

-----------------------------------------------------------------------------
\* Every step preserves the types.
LEMMA TypeOKStep ==
    ASSUME TypeOK, [Next]_vars
    PROVE  TypeOK'
<1>. USE DEF TypeOK, PCs, Handler, Fates, Answers, Grants, Refusals
<1>1. ASSUME NEW r \in Requests, NEW k \in Keys \cup {NoKey}, Send(r, k) PROVE
      TypeOK'
    BY <1>1, ConstantsAssumption DEF Send, Goto
<1>2. ASSUME NEW r \in Requests, Authenticate(r) PROVE TypeOK'
    BY <1>2, ConstantsAssumption DEF Authenticate, Goto
<1>3. ASSUME NEW r \in Requests, Unauthorized(r) PROVE TypeOK'
    BY <1>3, ConstantsAssumption
    DEF Unauthorized, Abort, Goto, RolledBack, Refusal
<1>4. ASSUME NEW r \in Requests, CheckReplay(r) PROVE TypeOK'
    BY <1>4, ConstantsAssumption
    DEF CheckReplay, Replay, Goto, AfterHandler, Existing, SameKey
<1>5. ASSUME NEW r \in Requests, CheckMiss(r) PROVE TypeOK'
    BY <1>5, ConstantsAssumption DEF CheckMiss, Goto
<1>6. ASSUME NEW r \in Requests, InsertEvent(r) PROVE TypeOK'
    BY <1>6, ConstantsAssumption
    DEF InsertEvent, Due, Goto, Contended, Violates, Existing, SameKey
<1>7. ASSUME NEW r \in Requests, InsertConflict(r) PROVE TypeOK'
    BY <1>7, ConstantsAssumption DEF InsertConflict, Goto, Violates
<1>8. ASSUME NEW r \in Requests, ReplayWinner(r) PROVE TypeOK'
    BY <1>8, ConstantsAssumption
    DEF ReplayWinner, Replay, Goto, AfterHandler, Existing, SameKey
<1>9. ASSUME NEW r \in Requests, RaiseConflict(r) PROVE TypeOK'
    BY <1>9, ConstantsAssumption
    DEF RaiseConflict, Abort, Goto, RolledBack, Refusal
<1>10. ASSUME NEW r \in Requests, ReadContacts(r) PROVE TypeOK'
    BY <1>10, ConstantsAssumption DEF ReadContacts, Goto
<1>11. ASSUME NEW r \in Requests, NEW c \in Contacts, NotifyOne(r, c) PROVE
      TypeOK'
    BY <1>11, ConstantsAssumption DEF NotifyOne
<1>12. ASSUME NEW r \in Requests, ReturnCreated(r) PROVE TypeOK'
    BY <1>12, ConstantsAssumption DEF ReturnCreated, Goto, AfterHandler
<1>13. ASSUME NEW r \in Requests, Commit(r) PROVE TypeOK'
    BY <1>13, ConstantsAssumption DEF Commit, Goto
<1>14. ASSUME NEW r \in Requests, Respond(r) PROVE TypeOK'
    BY <1>14, ConstantsAssumption DEF Respond, Goto
<1>15. ASSUME NEW r \in Requests, CommitFails(r) PROVE TypeOK'
    BY <1>15, ConstantsAssumption DEF CommitFails, Goto, Refusal
<1>16. ASSUME NEW r \in Requests, Fault(r) PROVE TypeOK'
    BY <1>16, ConstantsAssumption DEF Fault, Abort, Goto, RolledBack, Refusal
<1>17. CASE Crash
    BY <1>17, ConstantsAssumption DEF Crash, InFlight, RolledBack
<1>18. CASE DeleteAccount
    BY <1>18, ConstantsAssumption DEF DeleteAccount
<1>19. ASSUME NEW c \in Contacts, AddContact(c) PROVE TypeOK'
    BY <1>19 DEF AddContact
<1>20. CASE UNCHANGED vars
    BY <1>20 DEF vars
<1>. QED
    BY <1>1, <1>2, <1>3, <1>4, <1>5, <1>6, <1>7, <1>8, <1>9, <1>10, <1>11,
       <1>12, <1>13, <1>14, <1>15, <1>16, <1>17, <1>18, <1>19, <1>20
    DEF Next, Step

\* Every step keeps the rows in line with the program counters.
LEMMA RowStep ==
    ASSUME TypeOK, RowByStage, ResultByStage, [Next]_vars
    PROVE  RowByStage'
<1>. USE DEF TypeOK, RowByStage, ResultByStage, Handler, PCs, Fates, Grants,
            Success, Early, Recorded
<1>1. ASSUME NEW r \in Requests, NEW k \in Keys \cup {NoKey}, Send(r, k) PROVE
      RowByStage'
    BY <1>1, ConstantsAssumption DEF Send, Goto
<1>2. ASSUME NEW r \in Requests, Authenticate(r) PROVE RowByStage'
    BY <1>2, ConstantsAssumption DEF Authenticate, Goto
<1>3. ASSUME NEW r \in Requests, Unauthorized(r) PROVE RowByStage'
    BY <1>3, ConstantsAssumption
    DEF Unauthorized, Abort, Goto, RolledBack, Refusal
<1>4. ASSUME NEW r \in Requests, CheckReplay(r) PROVE RowByStage'
    BY <1>4, ConstantsAssumption
    DEF CheckReplay, Replay, Goto, AfterHandler, Existing, SameKey
<1>5. ASSUME NEW r \in Requests, CheckMiss(r) PROVE RowByStage'
    BY <1>5, ConstantsAssumption DEF CheckMiss, Goto
<1>6. ASSUME NEW r \in Requests, InsertEvent(r) PROVE RowByStage'
    BY <1>6, ConstantsAssumption
    DEF InsertEvent, Due, Goto, Contended, Violates, Existing, SameKey
<1>7. ASSUME NEW r \in Requests, InsertConflict(r) PROVE RowByStage'
    BY <1>7, ConstantsAssumption DEF InsertConflict, Goto, Violates
<1>8. ASSUME NEW r \in Requests, ReplayWinner(r) PROVE RowByStage'
    BY <1>8, ConstantsAssumption
    DEF ReplayWinner, Replay, Goto, AfterHandler, Existing, SameKey
<1>9. ASSUME NEW r \in Requests, RaiseConflict(r) PROVE RowByStage'
    BY <1>9, ConstantsAssumption
    DEF RaiseConflict, Abort, Goto, RolledBack, Refusal
<1>10. ASSUME NEW r \in Requests, ReadContacts(r) PROVE RowByStage'
    BY <1>10, ConstantsAssumption DEF ReadContacts, Goto
<1>11. ASSUME NEW r \in Requests, NEW c \in Contacts, NotifyOne(r, c) PROVE
      RowByStage'
    BY <1>11, ConstantsAssumption DEF NotifyOne
<1>12. ASSUME NEW r \in Requests, ReturnCreated(r) PROVE RowByStage'
    BY <1>12, ConstantsAssumption DEF ReturnCreated, Goto, AfterHandler
<1>13. ASSUME NEW r \in Requests, Commit(r) PROVE RowByStage'
    BY <1>13, ConstantsAssumption DEF Commit, Goto
<1>14. ASSUME NEW r \in Requests, Respond(r) PROVE RowByStage'
    BY <1>14, ConstantsAssumption DEF Respond, Goto
<1>15. ASSUME NEW r \in Requests, CommitFails(r) PROVE RowByStage'
    BY <1>15, ConstantsAssumption DEF CommitFails, Goto, Refusal
<1>16. ASSUME NEW r \in Requests, Fault(r) PROVE RowByStage'
    BY <1>16, ConstantsAssumption DEF Fault, Abort, Goto, RolledBack, Refusal
<1>17. CASE Crash
    BY <1>17, ConstantsAssumption DEF Crash, InFlight, RolledBack
<1>18. CASE DeleteAccount
    BY <1>18, ConstantsAssumption DEF DeleteAccount
<1>19. ASSUME NEW c \in Contacts, AddContact(c) PROVE RowByStage'
    BY <1>19 DEF AddContact
<1>20. CASE UNCHANGED vars
    BY <1>20 DEF vars
<1>. QED
    BY <1>1, <1>2, <1>3, <1>4, <1>5, <1>6, <1>7, <1>8, <1>9, <1>10, <1>11,
       <1>12, <1>13, <1>14, <1>15, <1>16, <1>17, <1>18, <1>19, <1>20
    DEF Next, Step

\* Every step keeps the results in line with the program counters.
LEMMA ResultStep ==
    ASSUME TypeOK, RowByStage, ResultByStage, [Next]_vars
    PROVE  ResultByStage'
<1>. USE DEF TypeOK, RowByStage, ResultByStage, Handler, PCs, Fates, Grants,
            Success, Early, Recorded, Answers, Refusals, NoAnswer
<1>1. ASSUME NEW r \in Requests, NEW k \in Keys \cup {NoKey}, Send(r, k) PROVE
      ResultByStage'
    BY <1>1, ConstantsAssumption DEF Send, Goto
<1>2. ASSUME NEW r \in Requests, Authenticate(r) PROVE ResultByStage'
    BY <1>2, ConstantsAssumption DEF Authenticate, Goto
<1>3. ASSUME NEW r \in Requests, Unauthorized(r) PROVE ResultByStage'
    BY <1>3, ConstantsAssumption
    DEF Unauthorized, Abort, Goto, RolledBack, Refusal
<1>4. ASSUME NEW r \in Requests, CheckReplay(r) PROVE ResultByStage'
    BY <1>4, ConstantsAssumption
    DEF CheckReplay, Replay, Goto, AfterHandler, Existing, SameKey
<1>5. ASSUME NEW r \in Requests, CheckMiss(r) PROVE ResultByStage'
    BY <1>5, ConstantsAssumption DEF CheckMiss, Goto
<1>6. ASSUME NEW r \in Requests, InsertEvent(r) PROVE ResultByStage'
    BY <1>6, ConstantsAssumption
    DEF InsertEvent, Due, Goto, Contended, Violates, Existing, SameKey
<1>7. ASSUME NEW r \in Requests, InsertConflict(r) PROVE ResultByStage'
    BY <1>7, ConstantsAssumption DEF InsertConflict, Goto, Violates
<1>8. ASSUME NEW r \in Requests, ReplayWinner(r) PROVE ResultByStage'
    BY <1>8, ConstantsAssumption
    DEF ReplayWinner, Replay, Goto, AfterHandler, Existing, SameKey
<1>9. ASSUME NEW r \in Requests, RaiseConflict(r) PROVE ResultByStage'
    BY <1>9, ConstantsAssumption
    DEF RaiseConflict, Abort, Goto, RolledBack, Refusal
<1>10. ASSUME NEW r \in Requests, ReadContacts(r) PROVE ResultByStage'
    BY <1>10, ConstantsAssumption DEF ReadContacts, Goto
<1>11. ASSUME NEW r \in Requests, NEW c \in Contacts, NotifyOne(r, c) PROVE
      ResultByStage'
    BY <1>11, ConstantsAssumption DEF NotifyOne
<1>12. ASSUME NEW r \in Requests, ReturnCreated(r) PROVE ResultByStage'
    BY <1>12, ConstantsAssumption DEF ReturnCreated, Goto, AfterHandler
<1>13. ASSUME NEW r \in Requests, Commit(r) PROVE ResultByStage'
    BY <1>13, ConstantsAssumption DEF Commit, Goto
<1>14. ASSUME NEW r \in Requests, Respond(r) PROVE ResultByStage'
    BY <1>14, ConstantsAssumption DEF Respond, Goto
<1>15. ASSUME NEW r \in Requests, CommitFails(r) PROVE ResultByStage'
    BY <1>15, ConstantsAssumption DEF CommitFails, Goto, Refusal
<1>16. ASSUME NEW r \in Requests, Fault(r) PROVE ResultByStage'
    BY <1>16, ConstantsAssumption DEF Fault, Abort, Goto, RolledBack, Refusal
<1>17. CASE Crash
    BY <1>17, ConstantsAssumption DEF Crash, InFlight, RolledBack
<1>18. CASE DeleteAccount
    BY <1>18, ConstantsAssumption DEF DeleteAccount
<1>19. ASSUME NEW c \in Contacts, AddContact(c) PROVE ResultByStage'
    BY <1>19 DEF AddContact
<1>20. CASE UNCHANGED vars
    BY <1>20 DEF vars
<1>. QED
    BY <1>1, <1>2, <1>3, <1>4, <1>5, <1>6, <1>7, <1>8, <1>9, <1>10, <1>11,
       <1>12, <1>13, <1>14, <1>15, <1>16, <1>17, <1>18, <1>19, <1>20
    DEF Next, Step

\* Every step keeps the answers in line with the program counters.
LEMMA AnswerStep ==
    ASSUME TypeOK, RowByStage, ResultByStage, AnswerByStage, [Next]_vars
    PROVE  AnswerByStage'
<1>. USE DEF TypeOK, RowByStage, ResultByStage, Handler, PCs, Fates, Grants,
            Success, Early, Recorded, AnswerByStage, Answers, Refusals, NoAnswer
<1>1. ASSUME NEW r \in Requests, NEW k \in Keys \cup {NoKey}, Send(r, k) PROVE
      AnswerByStage'
    BY <1>1, ConstantsAssumption DEF Send, Goto
<1>2. ASSUME NEW r \in Requests, Authenticate(r) PROVE AnswerByStage'
    BY <1>2, ConstantsAssumption DEF Authenticate, Goto
<1>3. ASSUME NEW r \in Requests, Unauthorized(r) PROVE AnswerByStage'
    BY <1>3, ConstantsAssumption
    DEF Unauthorized, Abort, Goto, RolledBack, Refusal
<1>4. ASSUME NEW r \in Requests, CheckReplay(r) PROVE AnswerByStage'
    BY <1>4, ConstantsAssumption
    DEF CheckReplay, Replay, Goto, AfterHandler, Existing, SameKey
<1>5. ASSUME NEW r \in Requests, CheckMiss(r) PROVE AnswerByStage'
    BY <1>5, ConstantsAssumption DEF CheckMiss, Goto
<1>6. ASSUME NEW r \in Requests, InsertEvent(r) PROVE AnswerByStage'
    BY <1>6, ConstantsAssumption
    DEF InsertEvent, Due, Goto, Contended, Violates, Existing, SameKey
<1>7. ASSUME NEW r \in Requests, InsertConflict(r) PROVE AnswerByStage'
    BY <1>7, ConstantsAssumption DEF InsertConflict, Goto, Violates
<1>8. ASSUME NEW r \in Requests, ReplayWinner(r) PROVE AnswerByStage'
    BY <1>8, ConstantsAssumption
    DEF ReplayWinner, Replay, Goto, AfterHandler, Existing, SameKey
<1>9. ASSUME NEW r \in Requests, RaiseConflict(r) PROVE AnswerByStage'
    BY <1>9, ConstantsAssumption
    DEF RaiseConflict, Abort, Goto, RolledBack, Refusal
<1>10. ASSUME NEW r \in Requests, ReadContacts(r) PROVE AnswerByStage'
    BY <1>10, ConstantsAssumption DEF ReadContacts, Goto
<1>11. ASSUME NEW r \in Requests, NEW c \in Contacts, NotifyOne(r, c) PROVE
      AnswerByStage'
    BY <1>11, ConstantsAssumption DEF NotifyOne
<1>12. ASSUME NEW r \in Requests, ReturnCreated(r) PROVE AnswerByStage'
    BY <1>12, ConstantsAssumption DEF ReturnCreated, Goto, AfterHandler
<1>13. ASSUME NEW r \in Requests, Commit(r) PROVE AnswerByStage'
    BY <1>13, ConstantsAssumption DEF Commit, Goto
<1>14. ASSUME NEW r \in Requests, Respond(r) PROVE AnswerByStage'
    BY <1>14, ConstantsAssumption DEF Respond, Goto
<1>15. ASSUME NEW r \in Requests, CommitFails(r) PROVE AnswerByStage'
    BY <1>15, ConstantsAssumption DEF CommitFails, Goto, Refusal
<1>16. ASSUME NEW r \in Requests, Fault(r) PROVE AnswerByStage'
    BY <1>16, ConstantsAssumption DEF Fault, Abort, Goto, RolledBack, Refusal
<1>17. CASE Crash
    BY <1>17, ConstantsAssumption DEF Crash, InFlight, RolledBack
<1>18. CASE DeleteAccount
    BY <1>18, ConstantsAssumption DEF DeleteAccount
<1>19. ASSUME NEW c \in Contacts, AddContact(c) PROVE AnswerByStage'
    BY <1>19 DEF AddContact
<1>20. CASE UNCHANGED vars
    BY <1>20 DEF vars
<1>. QED
    BY <1>1, <1>2, <1>3, <1>4, <1>5, <1>6, <1>7, <1>8, <1>9, <1>10, <1>11,
       <1>12, <1>13, <1>14, <1>15, <1>16, <1>17, <1>18, <1>19, <1>20
    DEF Next, Step

\* Every step keeps the records of a key unique.
LEMMA UniqueStep ==
    ASSUME TypeOK, RowByStage, UniqueRecord, [Next]_vars
    PROVE  UniqueRecord'
<1>. USE DEF TypeOK, RowByStage, UniqueRecord, SameKey
<1>1. ASSUME NEW r \in Requests, NEW k \in Keys \cup {NoKey}, Send(r, k) PROVE
      UniqueRecord'
    BY <1>1 DEF Send, Goto
<1>2. ASSUME NEW r \in Requests, Authenticate(r) PROVE UniqueRecord'
    BY <1>2 DEF Authenticate, Goto
<1>3. ASSUME NEW r \in Requests, Unauthorized(r) PROVE UniqueRecord'
    BY <1>3 DEF Unauthorized, Abort, Goto, RolledBack, Refusal
<1>4. ASSUME NEW r \in Requests, CheckReplay(r) PROVE UniqueRecord'
    BY <1>4 DEF CheckReplay, Replay, Goto, AfterHandler, Existing
<1>5. ASSUME NEW r \in Requests, CheckMiss(r) PROVE UniqueRecord'
    BY <1>5 DEF CheckMiss, Goto
<1>6. ASSUME NEW r \in Requests, InsertEvent(r) PROVE UniqueRecord'
    BY <1>6 DEF InsertEvent, Due, Goto, Contended, Violates, Existing
<1>7. ASSUME NEW r \in Requests, InsertConflict(r) PROVE UniqueRecord'
    BY <1>7 DEF InsertConflict, Goto, Violates
<1>8. ASSUME NEW r \in Requests, ReplayWinner(r) PROVE UniqueRecord'
    BY <1>8 DEF ReplayWinner, Replay, Goto, AfterHandler, Existing
<1>9. ASSUME NEW r \in Requests, RaiseConflict(r) PROVE UniqueRecord'
    BY <1>9 DEF RaiseConflict, Abort, Goto, RolledBack, Refusal
<1>10. ASSUME NEW r \in Requests, ReadContacts(r) PROVE UniqueRecord'
    BY <1>10 DEF ReadContacts, Goto
<1>11. ASSUME NEW r \in Requests, NEW c \in Contacts, NotifyOne(r, c) PROVE
      UniqueRecord'
    BY <1>11 DEF NotifyOne
<1>12. ASSUME NEW r \in Requests, ReturnCreated(r) PROVE UniqueRecord'
    BY <1>12 DEF ReturnCreated, Goto, AfterHandler
<1>13. ASSUME NEW r \in Requests, Commit(r) PROVE UniqueRecord'
    BY <1>13 DEF Commit, Goto
<1>14. ASSUME NEW r \in Requests, Respond(r) PROVE UniqueRecord'
    BY <1>14 DEF Respond, Goto
<1>15. ASSUME NEW r \in Requests, CommitFails(r) PROVE UniqueRecord'
    BY <1>15 DEF CommitFails, Goto, Refusal
<1>16. ASSUME NEW r \in Requests, Fault(r) PROVE UniqueRecord'
    BY <1>16 DEF Fault, Abort, Goto, RolledBack, Refusal
<1>17. CASE Crash
    BY <1>17 DEF Crash, InFlight, RolledBack
<1>18. CASE DeleteAccount
    BY <1>18 DEF DeleteAccount
<1>19. ASSUME NEW c \in Contacts, AddContact(c) PROVE UniqueRecord'
    BY <1>19 DEF AddContact
<1>20. CASE UNCHANGED vars
    BY <1>20 DEF vars
<1>. QED
    BY <1>1, <1>2, <1>3, <1>4, <1>5, <1>6, <1>7, <1>8, <1>9, <1>10, <1>11,
       <1>12, <1>13, <1>14, <1>15, <1>16, <1>17, <1>18, <1>19, <1>20
    DEF Next, Step

\* What a replay names stays recorded.
LEMMA ReplayStep ==
    ASSUME TypeOK, RowByStage, ResultByStage, ReplayNamesDurable, [Next]_vars
    PROVE  ReplayNamesDurable'
<1>. USE DEF TypeOK, RowByStage, ResultByStage, ReplayNamesDurable, SameKey,
            Early, Handler, Answers, Grants, Refusals, NoAnswer
<1>1. ASSUME NEW r \in Requests, NEW k \in Keys \cup {NoKey}, Send(r, k) PROVE
      ReplayNamesDurable'
    BY <1>1, ConstantsAssumption DEF Send, Goto
<1>2. ASSUME NEW r \in Requests, Authenticate(r) PROVE ReplayNamesDurable'
    BY <1>2, ConstantsAssumption DEF Authenticate, Goto
<1>3. ASSUME NEW r \in Requests, Unauthorized(r) PROVE ReplayNamesDurable'
    BY <1>3, ConstantsAssumption
    DEF Unauthorized, Abort, Goto, RolledBack, Refusal
<1>4. ASSUME NEW r \in Requests, CheckReplay(r) PROVE ReplayNamesDurable'
    BY <1>4, ConstantsAssumption
    DEF CheckReplay, Replay, Goto, AfterHandler, Existing
<1>5. ASSUME NEW r \in Requests, CheckMiss(r) PROVE ReplayNamesDurable'
    BY <1>5, ConstantsAssumption DEF CheckMiss, Goto
<1>6. ASSUME NEW r \in Requests, InsertEvent(r) PROVE ReplayNamesDurable'
    BY <1>6, ConstantsAssumption
    DEF InsertEvent, Due, Goto, Contended, Violates, Existing
<1>7. ASSUME NEW r \in Requests, InsertConflict(r) PROVE ReplayNamesDurable'
    BY <1>7, ConstantsAssumption DEF InsertConflict, Goto, Violates
<1>8. ASSUME NEW r \in Requests, ReplayWinner(r) PROVE ReplayNamesDurable'
    BY <1>8, ConstantsAssumption
    DEF ReplayWinner, Replay, Goto, AfterHandler, Existing
<1>9. ASSUME NEW r \in Requests, RaiseConflict(r) PROVE ReplayNamesDurable'
    BY <1>9, ConstantsAssumption
    DEF RaiseConflict, Abort, Goto, RolledBack, Refusal
<1>10. ASSUME NEW r \in Requests, ReadContacts(r) PROVE ReplayNamesDurable'
    BY <1>10, ConstantsAssumption DEF ReadContacts, Goto
<1>11. ASSUME NEW r \in Requests, NEW c \in Contacts, NotifyOne(r, c) PROVE
      ReplayNamesDurable'
    BY <1>11, ConstantsAssumption DEF NotifyOne
<1>12. ASSUME NEW r \in Requests, ReturnCreated(r) PROVE ReplayNamesDurable'
    BY <1>12, ConstantsAssumption DEF ReturnCreated, Goto, AfterHandler
<1>13. ASSUME NEW r \in Requests, Commit(r) PROVE ReplayNamesDurable'
    BY <1>13, ConstantsAssumption DEF Commit, Goto
<1>14. ASSUME NEW r \in Requests, Respond(r) PROVE ReplayNamesDurable'
    BY <1>14, ConstantsAssumption DEF Respond, Goto
<1>15. ASSUME NEW r \in Requests, CommitFails(r) PROVE ReplayNamesDurable'
    BY <1>15, ConstantsAssumption DEF CommitFails, Goto, Refusal
<1>16. ASSUME NEW r \in Requests, Fault(r) PROVE ReplayNamesDurable'
    BY <1>16, ConstantsAssumption DEF Fault, Abort, Goto, RolledBack, Refusal
<1>17. CASE Crash
    BY <1>17, ConstantsAssumption DEF Crash, InFlight, RolledBack
<1>18. CASE DeleteAccount
    BY <1>18, ConstantsAssumption DEF DeleteAccount
<1>19. ASSUME NEW c \in Contacts, AddContact(c) PROVE ReplayNamesDurable'
    BY <1>19 DEF AddContact
<1>20. CASE UNCHANGED vars
    BY <1>20 DEF vars
<1>. QED
    BY <1>1, <1>2, <1>3, <1>4, <1>5, <1>6, <1>7, <1>8, <1>9, <1>10, <1>11,
       <1>12, <1>13, <1>14, <1>15, <1>16, <1>17, <1>18, <1>19, <1>20
    DEF Next, Step

\* Nobody is left out between the read of the contacts and the commit.
LEMMA FanOutStep ==
    ASSUME TypeOK, RowByStage, ResultByStage, FanOut, [Next]_vars
    PROVE  FanOut'
<1>. USE DEF TypeOK, RowByStage, ResultByStage, FanOut, Handler, PCs, Fates,
            Grants, Success
<1>1. ASSUME NEW r \in Requests, NEW k \in Keys \cup {NoKey}, Send(r, k) PROVE
      FanOut'
    BY <1>1 DEF Send, Goto
<1>2. ASSUME NEW r \in Requests, Authenticate(r) PROVE FanOut'
    BY <1>2 DEF Authenticate, Goto
<1>3. ASSUME NEW r \in Requests, Unauthorized(r) PROVE FanOut'
    BY <1>3 DEF Unauthorized, Abort, Goto, RolledBack, Refusal
<1>4. ASSUME NEW r \in Requests, CheckReplay(r) PROVE FanOut'
    BY <1>4 DEF CheckReplay, Replay, Goto, AfterHandler, Existing, SameKey
<1>5. ASSUME NEW r \in Requests, CheckMiss(r) PROVE FanOut'
    BY <1>5 DEF CheckMiss, Goto
<1>6. ASSUME NEW r \in Requests, InsertEvent(r) PROVE FanOut'
    BY <1>6 DEF InsertEvent, Due, Goto, Contended, Violates, Existing, SameKey
<1>7. ASSUME NEW r \in Requests, InsertConflict(r) PROVE FanOut'
    BY <1>7 DEF InsertConflict, Goto, Violates
<1>8. ASSUME NEW r \in Requests, ReplayWinner(r) PROVE FanOut'
    BY <1>8 DEF ReplayWinner, Replay, Goto, AfterHandler, Existing, SameKey
<1>9. ASSUME NEW r \in Requests, RaiseConflict(r) PROVE FanOut'
    BY <1>9 DEF RaiseConflict, Abort, Goto, RolledBack, Refusal
<1>10. ASSUME NEW r \in Requests, ReadContacts(r) PROVE FanOut'
    BY <1>10 DEF ReadContacts, Goto
<1>11. ASSUME NEW r \in Requests, NEW c \in Contacts, NotifyOne(r, c) PROVE
      FanOut'
    BY <1>11 DEF NotifyOne
<1>12. ASSUME NEW r \in Requests, ReturnCreated(r) PROVE FanOut'
    BY <1>12 DEF ReturnCreated, Goto, AfterHandler
<1>13. ASSUME NEW r \in Requests, Commit(r) PROVE FanOut'
    BY <1>13 DEF Commit, Goto
<1>14. ASSUME NEW r \in Requests, Respond(r) PROVE FanOut'
    BY <1>14 DEF Respond, Goto
<1>15. ASSUME NEW r \in Requests, CommitFails(r) PROVE FanOut'
    BY <1>15 DEF CommitFails, Goto, Refusal
<1>16. ASSUME NEW r \in Requests, Fault(r) PROVE FanOut'
    BY <1>16 DEF Fault, Abort, Goto, RolledBack, Refusal
<1>17. CASE Crash
    BY <1>17 DEF Crash, InFlight, RolledBack
<1>18. CASE DeleteAccount
    BY <1>18 DEF DeleteAccount
<1>19. ASSUME NEW c \in Contacts, AddContact(c) PROVE FanOut'
    BY <1>19 DEF AddContact
<1>20. CASE UNCHANGED vars
    BY <1>20 DEF vars
<1>. QED
    BY <1>1, <1>2, <1>3, <1>4, <1>5, <1>6, <1>7, <1>8, <1>9, <1>10, <1>11,
       <1>12, <1>13, <1>14, <1>15, <1>16, <1>17, <1>18, <1>19, <1>20
    DEF Next, Step

\* The winner of a race stays there for the loser to find.
LEMMA LoserStep ==
    ASSUME TypeOK, RowByStage, LoserFindsWinner, [Next]_vars
    PROVE  LoserFindsWinner'
<1>. USE DEF TypeOK, RowByStage, LoserFindsWinner, SameKey, Existing, Handler
<1>1. ASSUME NEW r \in Requests, NEW k \in Keys \cup {NoKey}, Send(r, k) PROVE
      LoserFindsWinner'
    BY <1>1 DEF Send, Goto
<1>2. ASSUME NEW r \in Requests, Authenticate(r) PROVE LoserFindsWinner'
    BY <1>2 DEF Authenticate, Goto
<1>3. ASSUME NEW r \in Requests, Unauthorized(r) PROVE LoserFindsWinner'
    BY <1>3 DEF Unauthorized, Abort, Goto, RolledBack, Refusal
<1>4. ASSUME NEW r \in Requests, CheckReplay(r) PROVE LoserFindsWinner'
    BY <1>4 DEF CheckReplay, Replay, Goto, AfterHandler
<1>5. ASSUME NEW r \in Requests, CheckMiss(r) PROVE LoserFindsWinner'
    BY <1>5 DEF CheckMiss, Goto
<1>6. ASSUME NEW r \in Requests, InsertEvent(r) PROVE LoserFindsWinner'
    BY <1>6 DEF InsertEvent, Due, Goto, Contended, Violates
<1>7. ASSUME NEW r \in Requests, InsertConflict(r) PROVE LoserFindsWinner'
    BY <1>7 DEF InsertConflict, Goto, Violates
<1>8. ASSUME NEW r \in Requests, ReplayWinner(r) PROVE LoserFindsWinner'
    BY <1>8 DEF ReplayWinner, Replay, Goto, AfterHandler
<1>9. ASSUME NEW r \in Requests, RaiseConflict(r) PROVE LoserFindsWinner'
    BY <1>9 DEF RaiseConflict, Abort, Goto, RolledBack, Refusal
<1>10. ASSUME NEW r \in Requests, ReadContacts(r) PROVE LoserFindsWinner'
    BY <1>10 DEF ReadContacts, Goto
<1>11. ASSUME NEW r \in Requests, NEW c \in Contacts, NotifyOne(r, c) PROVE
      LoserFindsWinner'
    BY <1>11 DEF NotifyOne
<1>12. ASSUME NEW r \in Requests, ReturnCreated(r) PROVE LoserFindsWinner'
    BY <1>12 DEF ReturnCreated, Goto, AfterHandler
<1>13. ASSUME NEW r \in Requests, Commit(r) PROVE LoserFindsWinner'
    BY <1>13 DEF Commit, Goto
<1>14. ASSUME NEW r \in Requests, Respond(r) PROVE LoserFindsWinner'
    BY <1>14 DEF Respond, Goto
<1>15. ASSUME NEW r \in Requests, CommitFails(r) PROVE LoserFindsWinner'
    BY <1>15 DEF CommitFails, Goto, Refusal
<1>16. ASSUME NEW r \in Requests, Fault(r) PROVE LoserFindsWinner'
    BY <1>16 DEF Fault, Abort, Goto, RolledBack, Refusal
<1>17. CASE Crash
    BY <1>17 DEF Crash, InFlight, RolledBack
<1>18. CASE DeleteAccount
    BY <1>18 DEF DeleteAccount
<1>19. ASSUME NEW c \in Contacts, AddContact(c) PROVE LoserFindsWinner'
    BY <1>19 DEF AddContact
<1>20. CASE UNCHANGED vars
    BY <1>20 DEF vars
<1>. QED
    BY <1>1, <1>2, <1>3, <1>4, <1>5, <1>6, <1>7, <1>8, <1>9, <1>10, <1>11,
       <1>12, <1>13, <1>14, <1>15, <1>16, <1>17, <1>18, <1>19, <1>20
    DEF Next, Step

\* A 409 is answered only when the account is gone.
LEMMA ConflictStep ==
    ASSUME TypeOK, LoserFindsWinner, ResultByStage, ConflictOnlyWithoutAccount,
           [Next]_vars
    PROVE  ConflictOnlyWithoutAccount'
<1>. USE DEF TypeOK, LoserFindsWinner, ResultByStage,
            ConflictOnlyWithoutAccount, Success, Grants, Answers, Refusals
<1>1. ASSUME NEW r \in Requests, NEW k \in Keys \cup {NoKey}, Send(r, k) PROVE
      ConflictOnlyWithoutAccount'
    BY <1>1 DEF Send, Goto
<1>2. ASSUME NEW r \in Requests, Authenticate(r) PROVE
      ConflictOnlyWithoutAccount'
    BY <1>2 DEF Authenticate, Goto
<1>3. ASSUME NEW r \in Requests, Unauthorized(r) PROVE
      ConflictOnlyWithoutAccount'
    BY <1>3 DEF Unauthorized, Abort, Goto, RolledBack, Refusal
<1>4. ASSUME NEW r \in Requests, CheckReplay(r) PROVE
      ConflictOnlyWithoutAccount'
    BY <1>4 DEF CheckReplay, Replay, Goto, AfterHandler, Existing, SameKey
<1>5. ASSUME NEW r \in Requests, CheckMiss(r) PROVE ConflictOnlyWithoutAccount'
    BY <1>5 DEF CheckMiss, Goto
<1>6. ASSUME NEW r \in Requests, InsertEvent(r) PROVE
      ConflictOnlyWithoutAccount'
    BY <1>6 DEF InsertEvent, Due, Goto, Contended, Violates, Existing, SameKey
<1>7. ASSUME NEW r \in Requests, InsertConflict(r) PROVE
      ConflictOnlyWithoutAccount'
    BY <1>7 DEF InsertConflict, Goto, Violates
<1>8. ASSUME NEW r \in Requests, ReplayWinner(r) PROVE
      ConflictOnlyWithoutAccount'
    BY <1>8 DEF ReplayWinner, Replay, Goto, AfterHandler, Existing, SameKey
<1>9. ASSUME NEW r \in Requests, RaiseConflict(r) PROVE
      ConflictOnlyWithoutAccount'
    BY <1>9 DEF RaiseConflict, Abort, Goto, RolledBack, Refusal
<1>10. ASSUME NEW r \in Requests, ReadContacts(r) PROVE
      ConflictOnlyWithoutAccount'
    BY <1>10 DEF ReadContacts, Goto
<1>11. ASSUME NEW r \in Requests, NEW c \in Contacts, NotifyOne(r, c) PROVE
      ConflictOnlyWithoutAccount'
    BY <1>11 DEF NotifyOne
<1>12. ASSUME NEW r \in Requests, ReturnCreated(r) PROVE
      ConflictOnlyWithoutAccount'
    BY <1>12 DEF ReturnCreated, Goto, AfterHandler
<1>13. ASSUME NEW r \in Requests, Commit(r) PROVE ConflictOnlyWithoutAccount'
    BY <1>13 DEF Commit, Goto
<1>14. ASSUME NEW r \in Requests, Respond(r) PROVE ConflictOnlyWithoutAccount'
    BY <1>14 DEF Respond, Goto
<1>15. ASSUME NEW r \in Requests, CommitFails(r) PROVE
      ConflictOnlyWithoutAccount'
    BY <1>15 DEF CommitFails, Goto, Refusal
<1>16. ASSUME NEW r \in Requests, Fault(r) PROVE ConflictOnlyWithoutAccount'
    BY <1>16 DEF Fault, Abort, Goto, RolledBack, Refusal
<1>17. CASE Crash
    BY <1>17 DEF Crash, InFlight, RolledBack
<1>18. CASE DeleteAccount
    BY <1>18 DEF DeleteAccount
<1>19. ASSUME NEW c \in Contacts, AddContact(c) PROVE ConflictOnlyWithoutAccount'
    BY <1>19 DEF AddContact
<1>20. CASE UNCHANGED vars
    BY <1>20 DEF vars
<1>. QED
    BY <1>1, <1>2, <1>3, <1>4, <1>5, <1>6, <1>7, <1>8, <1>9, <1>10, <1>11,
       <1>12, <1>13, <1>14, <1>15, <1>16, <1>17, <1>18, <1>19, <1>20
    DEF Next, Step

-----------------------------------------------------------------------------
LEMMA IInvInit == Init => IInv
<1>. SUFFICES ASSUME Init PROVE IInv
    OBVIOUS
<1>1. TypeOK
    BY ConstantsAssumption
    DEF Init, TypeOK, PCs, Fates, Answers, NoAnswer
<1>2. Stages
    BY DEF Init, Stages, RowByStage, ResultByStage, AnswerByStage, Early,
           Success, Grants, NoAnswer
<1>3. UniqueRecord /\ ReplayNamesDurable /\ FanOut
    BY DEF Init, UniqueRecord, ReplayNamesDurable, FanOut, NoAnswer
<1>4. LoserFindsWinner /\ ConflictOnlyWithoutAccount
    BY DEF Init, LoserFindsWinner, ConflictOnlyWithoutAccount, NoAnswer
<1>. QED
    BY <1>1, <1>2, <1>3, <1>4 DEF IInv

LEMMA IInvStep == IInv /\ [Next]_vars => IInv'
BY TypeOKStep, RowStep, ResultStep, AnswerStep, UniqueStep, ReplayStep,
   FanOutStep, LoserStep, ConflictStep
   DEF IInv, Stages

\* The inductive invariant holds in every reachable state.
THEOREM Invariance == Spec => []IInv
BY IInvInit, IInvStep, PTL DEF Spec

-----------------------------------------------------------------------------
\* Every variable keeps its type; a success carries an event, a refusal none.
THEOREM TypeCorrect == Spec => []TypeOK
<1>1. IInv => TypeOK
    BY DEF IInv
<1>. QED
    BY <1>1, Invariance, PTL

\* At most one row per Idempotency-Key, whatever overlaps, fails or is retried.
THEOREM Uniqueness == Spec => []OneEventPerKey
<1>1. IInv => OneEventPerKey
    BY DEF IInv, UniqueRecord, OneEventPerKey
<1>. QED
    BY <1>1, Invariance, PTL

\* Whoever was on record when an event was inserted has been tried once it is
\* durable, while contacts are added at any time, in both orders of teardown
\* (trigger_sos.py:85-86, deps.py:79).
THEOREM DurableMeansTried == Spec => []DurableIsFannedOut
<1>1. IInv => DurableIsFannedOut
    BY DEF IInv, FanOut, DurableIsFannedOut
<1>. QED
    BY <1>1, Invariance, PTL

\* No race alone ever leads to the 409 of EventConflictError.
THEOREM ConflictsMeanDeletion == Spec => []ConflictOnlyWithoutAccount
<1>1. IInv => ConflictOnlyWithoutAccount
    BY DEF IInv
<1>. QED
    BY <1>1, Invariance, PTL

\* A success names a recorded event of the key of its request.
LEMMA GrantRecorded ==
    ASSUME CommitBeforeResponse, IInv, NEW s \in Requests, Success(answer[s])
    PROVE  /\ answer[s].event \in Requests
           /\ Recorded(answer[s].event)
           /\ key[answer[s].event] = key[s]
<1>1. answer[s] = result[s]
    BY DEF IInv, Stages, AnswerByStage
<1>2. answer[s].event \in Requests
    BY DEF IInv, TypeOK, Answers, Success, Grants, Refusals
<1>3. CASE answer[s].status = "created"
    BY <1>1, <1>2, <1>3 DEF IInv, Stages, AnswerByStage, ResultByStage
<1>4. CASE answer[s].status = "replayed"
    BY <1>1, <1>2, <1>4 DEF IInv, ReplayNamesDurable, Recorded, SameKey
<1>. QED
    BY <1>3, <1>4 DEF Success, Grants

\* If the commit precedes the response, an answered event is recorded.
THEOREM Durability ==
    ASSUME CommitBeforeResponse
    PROVE  Spec => []AckedIsDurable
<1>1. IInv => AckedIsDurable
    BY GrantRecorded DEF AckedIsDurable, Recorded
<1>. QED
    BY <1>1, Invariance, PTL

\* If the commit precedes the response, two successes of a key name one event.
THEOREM Agreement ==
    ASSUME CommitBeforeResponse
    PROVE  Spec => []AnswersAgree
<1>1. IInv => AnswersAgree
    <2>. SUFFICES ASSUME IInv,
                         NEW q \in Requests, NEW r \in Requests,
                         Success(answer[q]), Success(answer[r]), SameKey(q, r)
                  PROVE  answer[q].event = answer[r].event
        BY DEF AnswersAgree
    <2>1. SameKey(answer[q].event, answer[r].event)
        BY GrantRecorded DEF SameKey
    <2>. QED
        BY <2>1, GrantRecorded DEF IInv, UniqueRecord, Recorded
<1>. QED
    BY <1>1, Invariance, PTL

\* If the commit precedes the response, no request inserts an event of a key
\* some request has been answered for.
THEOREM NoRecreation ==
    ASSUME CommitBeforeResponse
    PROVE  Spec => RetryNeverRecreates
<1>. DEFINE Kept(q, r) == Success(answer[q]) /\ SameKey(q, r) /\ row[r] = "none"
                             => row'[r] = "none"
<1>1. ASSUME IInv, [Next]_vars, NEW q \in Requests, NEW r \in Requests
      PROVE  Kept(q, r)
    <2>. SUFFICES ASSUME Success(answer[q]), SameKey(q, r), row[r] = "none"
                  PROVE  row'[r] = "none"
        OBVIOUS
    <2>1. Violates(r)
        BY <1>1, GrantRecorded
        DEF Violates, Existing, SameKey, Recorded, IInv, UniqueRecord
    <2>2. ~InsertEvent(r)
        BY <2>1 DEF InsertEvent
    <2>3. row' # row => \/ \E s \in Requests : InsertEvent(s) \/ Commit(s) \/ CommitFails(s)
                       \/ \E s \in Requests, t \in Refusals : Abort(s, t)
                       \/ Crash \/ DeleteAccount
        BY <1>1 DEF Next, Step, vars, Send, Authenticate, Unauthorized,
            CheckReplay, CheckMiss, InsertConflict, ReplayWinner, RaiseConflict,
            Replay, ReadContacts, NotifyOne, ReturnCreated, Respond, Fault,
            AddContact, Refusals
    <2>. QED
        BY <1>1, <2>2, <2>3
        DEF InsertEvent, Commit, CommitFails, Abort, RolledBack, Crash,
            DeleteAccount, IInv, TypeOK
<1>2. IInv /\ [Next]_vars => [\A q, r \in Requests : Kept(q, r)]_vars
    BY <1>1
<1>. QED
    BY <1>2, Invariance, PTL DEF Spec, RetryNeverRecreates

-----------------------------------------------------------------------------
\* The refinement.  `asked` and `recorded` are the mapping of TriggerSos's
\* instance of SosPromise.

Asked    == {r \in Requests : pc[r] # "idle"}
EverRecorded == {r \in Requests : row[r] \in {"durable", "erased"}}

LEMMA PromiseInit == Init => Promise!Init
BY DEF Init, Promise!Init, NoAnswer

\* A step that changes nothing the clients can observe is a stutter.
LEMMA Invisible ==
    Asked' = Asked /\ EverRecorded' = EverRecorded /\ key' = key /\ answer' = answer
        => UNCHANGED Promise!promiseVars
BY DEF Promise!promiseVars, Asked, EverRecorded

LEMMA PromiseStep ==
    ASSUME CommitBeforeResponse, IInv, [Next]_vars
    PROVE  [Promise!Next]_(Promise!promiseVars)
<1>. USE DEF IInv, TypeOK, Stages, RowByStage, Early, Handler
<1>1. ASSUME NEW r \in Requests, NEW k \in Keys \cup {NoKey}, Send(r, k)
      PROVE  Promise!Ask(r, k)
    BY <1>1 DEF Send, Goto, Promise!Ask
<1>2. ASSUME NEW r \in Requests,
             \/ Authenticate(r) \/ CheckReplay(r) \/ CheckMiss(r)
             \/ InsertEvent(r) \/ InsertConflict(r) \/ ReplayWinner(r)
             \/ ReadContacts(r) \/ ReturnCreated(r)
             \/ \E c \in Contacts : NotifyOne(r, c)
      PROVE  UNCHANGED Promise!promiseVars
    <2>1. Asked' = Asked
        BY <1>2 DEF Asked, Authenticate, CheckReplay, CheckMiss, InsertEvent,
            InsertConflict, ReplayWinner, ReadContacts, ReturnCreated,
            NotifyOne, Replay, Goto, AfterHandler
    <2>2. EverRecorded' = EverRecorded
        BY <1>2 DEF EverRecorded, Authenticate, CheckReplay, CheckMiss,
            InsertEvent, InsertConflict, ReplayWinner, ReadContacts,
            ReturnCreated, NotifyOne, Replay
    <2>3. key' = key /\ answer' = answer
        BY <1>2 DEF Authenticate, CheckReplay, CheckMiss, InsertEvent,
            InsertConflict, ReplayWinner, ReadContacts, ReturnCreated,
            NotifyOne, Replay
    <2>. QED
        BY <2>1, <2>2, <2>3, Invisible
<1>3. ASSUME NEW r \in Requests, NEW s \in Refusals, Abort(r, s), Early(r), pc[r] # "idle"
      PROVE  Promise!Refused(r, s)
    BY <1>3 DEF Abort, Goto, RolledBack, Refusal, Refusals, AnswerByStage,
        NoAnswer, PCs, Fates, Promise!Refused, Promise!Unanswered
<1>4. ASSUME NEW r \in Requests,
             Unauthorized(r) \/ RaiseConflict(r) \/ Fault(r)
      PROVE  \E s \in {"unauthorized", "conflict", "error"} : Promise!Refused(r, s)
    BY <1>3, <1>4 DEF Unauthorized, RaiseConflict, Fault, Refusals
<1>5. ASSUME NEW r \in Requests, Commit(r)
      PROVE  Promise!Record(r) \/ UNCHANGED Promise!promiseVars
    <2>1. CASE row[r] = "pending"
        BY <1>5, <2>1 DEF Commit, Goto, UniqueRecord, SameKey, AnswerByStage,
            NoAnswer, Promise!Record, Promise!Enter, Promise!Unanswered,
            Promise!Sibling
    <2>2. CASE row[r] # "pending"
        BY <1>5, <2>2, Invisible DEF Commit, Goto, Asked, EverRecorded
    <2>. QED
        BY <2>1, <2>2
<1>6. ASSUME NEW r \in Requests, CommitFails(r)
      PROVE  Promise!RecordUnknown(r) \/ Promise!Refused(r, "error")
    BY <1>6 DEF CommitFails, Goto, Refusal, UniqueRecord, ResultByStage,
        Success, Grants, SameKey, AnswerByStage, NoAnswer, Promise!RecordUnknown,
        Promise!Refused, Promise!Enter, Promise!Unanswered, Promise!Sibling
<1>7. ASSUME NEW r \in Requests, Respond(r)
      PROVE  Promise!Created(r) \/ \E e \in Requests : Promise!Replayed(r, e)
    <2>1. Asked' = Asked /\ EverRecorded' = EverRecorded /\ key' = key
        BY <1>7 DEF Respond, Goto, Asked, EverRecorded
    <2>2. r \in Asked /\ answer[r].status = "none"
        BY <1>7 DEF Respond, AnswerByStage, NoAnswer, Asked
    <2>3. answer' = [answer EXCEPT ![r] = result[r]]
        BY <1>7 DEF Respond
    <2>4. CASE result[r].status = "created"
        <3>1. r \in EverRecorded
            BY <1>7, <2>4 DEF Respond, ResultByStage, Recorded, EverRecorded
        <3>2. result[r] = [status |-> "created", event |-> r]
            BY <2>4 DEF ResultByStage, Answers, Grants, Refusals
        <3>. QED
            BY <2>1, <2>2, <2>3, <3>1, <3>2
            DEF Promise!Created, Promise!Unanswered, Asked, EverRecorded
    <2>5. CASE result[r].status = "replayed"
        <3>1. r \notin EverRecorded
            BY <1>7, <2>5 DEF Respond, ResultByStage, EverRecorded
        <3>2. PICK e \in Requests : result[r] = [status |-> "replayed", event |-> e]
            BY <2>5 DEF Answers, Grants, Refusals
        <3>3. e \in EverRecorded /\ SameKey(e, r)
            BY <2>5, <3>2 DEF ReplayNamesDurable, EverRecorded
        <3>. QED
            BY <2>1, <2>2, <2>3, <3>1, <3>2, <3>3
            DEF Promise!Replayed, Promise!Unanswered, Promise!Sibling, SameKey,
                Asked, EverRecorded
    <2>. QED
        BY <1>7, <2>4, <2>5 DEF Respond, ResultByStage, Success, Grants
<1>8. CASE Crash
    BY <1>8, Invisible DEF Crash, InFlight, RolledBack, Asked, EverRecorded
<1>9. CASE DeleteAccount
    BY <1>9, Invisible DEF DeleteAccount, Asked, EverRecorded
<1>10. ASSUME NEW c \in Contacts, AddContact(c)
       PROVE  UNCHANGED Promise!promiseVars
    BY <1>10, Invisible DEF AddContact, Asked, EverRecorded
<1>11. CASE UNCHANGED vars
    BY <1>11, Invisible DEF vars, Asked, EverRecorded
<1>. QED
    BY <1>1, <1>2, <1>4, <1>5, <1>6, <1>7, <1>8, <1>9, <1>10, <1>11
    DEF Next, Step, Promise!Next

\* If the commit precedes the response, the handlers implement the register
\* of SosPromise: what the threads, the database and the crashes do beyond it
\* cannot be told from the outside.
THEOREM Refinement ==
    ASSUME CommitBeforeResponse
    PROVE  Spec => KeepsPromise
<1>1. IInv /\ [Next]_vars => [Promise!Next]_(Promise!promiseVars)
    BY PromiseStep
<1>. QED
    BY <1>1, PromiseInit, Invariance, PTL DEF Spec, KeepsPromise, Promise!Spec

-----------------------------------------------------------------------------
\* What the contacts were told of had a row.
ToldHadRow ==
    \A r \in Requests, c \in Contacts : outreach[r][c] # "none" => row[r] # "none"

\* A row that was there leaves a trace.
LEMMA RowStays ==
    ASSUME IInv, [Next]_vars, NEW r \in Requests, row[r] # "none"
    PROVE  row'[r] # "none"
BY DEF IInv, TypeOK, Next, Step, vars, Send, Authenticate, Unauthorized,
       CheckReplay, CheckMiss, InsertEvent, InsertConflict, ReplayWinner, Replay,
       RaiseConflict, ReadContacts, NotifyOne, ReturnCreated, Commit, Respond,
       CommitFails, Fault, Crash, AddContact, DeleteAccount, Abort,
       RolledBack

\* NotifiedOncePerKey does not hold of the code; this is all that can break it:
\* a transaction that failed after its notifications (trigger_sos.py:86).
THEOREM RepetitionNeedsRollback == Spec => []RepeatedOnlyAfterRollback
<1>1. Init => ToldHadRow
    BY DEF Init, ToldHadRow
<1>2. ASSUME IInv, ToldHadRow, [Next]_vars
      PROVE  ToldHadRow'
    <2>1. ASSUME NEW r \in Requests, NEW c \in Contacts, outreach'[r][c] # "none"
          PROVE  row'[r] # "none"
        <3>1. CASE outreach'[r] = outreach[r]
            BY <1>2, <2>1, <3>1, RowStays DEF ToldHadRow
        <3>2. CASE outreach'[r] # outreach[r]
            <4>1. InsertEvent(r) \/ \E d \in Contacts : NotifyOne(r, d)
                BY <1>2, <3>2
                DEF IInv, TypeOK, Next, Step, vars, Send, Authenticate, Unauthorized,
                    CheckReplay, CheckMiss, InsertEvent, InsertConflict, ReplayWinner,
                    Replay, RaiseConflict, ReadContacts, NotifyOne, ReturnCreated,
                    Commit, Respond, CommitFails, Fault, Crash, AddContact,
                    DeleteAccount, Abort
            <4>2. CASE InsertEvent(r)
                BY <1>2, <4>2 DEF InsertEvent, IInv, TypeOK
            <4>3. CASE \E d \in Contacts : NotifyOne(r, d)
                BY <1>2, <4>3 DEF NotifyOne, IInv, Stages, RowByStage
            <4>. QED
                BY <4>1, <4>2, <4>3
        <3>. QED
            BY <3>1, <3>2
    <2>. QED
        BY <2>1 DEF ToldHadRow
<1>3. IInv /\ ToldHadRow => RepeatedOnlyAfterRollback
    <2>. SUFFICES ASSUME IInv, ToldHadRow,
                         NEW e \in Requests, NEW f \in Requests, NEW c \in Contacts,
                         outreach[e][c] = "delivered", outreach[f][c] = "delivered",
                         SameKey(e, f), e # f
                  PROVE  row[e] = "rolledback" \/ row[f] = "rolledback"
        BY DEF RepeatedOnlyAfterRollback
    <2>1. row[e] # "none" /\ row[f] # "none"
        BY DEF ToldHadRow
    <2>. QED
        BY <2>1 DEF IInv, TypeOK, Fates, UniqueRecord
<1>. QED
    BY <1>1, <1>2, <1>3, Invariance, PTL DEF Spec

\* r waits for the end of a transaction that has inserted its key.
Waits(r) == pc[r] = "insert" /\ Contended(r)

\* Whoever it waits for has its row, and waits for nobody.
BlockersRun ==
    \A q, r \in Requests :
        Waits(r) /\ row[q] = "pending" /\ SameKey(q, r)
            => pc[q] \in {"contacts", "notify", "commit", "respond"}

\* Requests of one key never wait for each other in a ring
\* (event_repository.py:40).
THEOREM NoRingOfInserts == Spec => []BlockersRun
<1>1. IInv => BlockersRun
    BY DEF IInv, TypeOK, PCs, Handler, Stages, RowByStage, BlockersRun
<1>. QED
    BY <1>1, Invariance, PTL

=============================================================================
