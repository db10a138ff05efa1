--------------------------- MODULE AccountsProofs ---------------------------
(***************************************************************************)
(* Proofs about Accounts for every set of requests, addresses and          *)
(* passwords, every lifetime of the tokens and both orders of the teardown.*)
(***************************************************************************)
EXTENDS Accounts, TLAPS

-----------------------------------------------------------------------------
\* The inductive invariant, in parts.

\* Each kind of request has its path and its answers, and no answer comes
\* before the end.
Shapes ==
    /\ \A r \in Registrations :
          /\ pc[r] \notin {"find", "issue", "decode", "load"}
          /\ answer[r].status \in {"none", "registered", "taken", "error"}
          /\ answer[r].status = "registered" => answer[r].user = r
    /\ \A l \in Logins :
          /\ pc[l] \notin {"check", "insert", "decode", "load"}
          /\ answer[l].status \in {"none", "token", "invalid", "error"}
          /\ pc[l] \in {"issue", "commit", "respond"} \/ answer[l].status = "token"
                => user[l] # Nobody
    /\ \A p \in Profiles :
          /\ pc[p] \notin {"check", "insert", "find", "issue"}
          /\ answer[p].status \in {"none", "profile", "unauthorized", "error"}
          /\ pc[p] \in {"commit", "respond"} => user[p] # Nobody
          /\ bearer[p] # Nobody => answer[bearer[p]].status = "token"
          /\ pc[p] = "load" => bearer[p] # Nobody
    /\ \A r \in Requests :
          /\ answer[r].status # "none"
                => pc[r] = "done" \/ (pc[r] = "commit" /\ ~CommitBeforeResponse)
          /\ sent[r] <= now

\* A registration has a row from its INSERT on, and a 201 is worth its row if
\* the commit precedes the response.
Rows ==
    \A r \in Registrations :
        /\ pc[r] \in {"idle", "check", "insert"} => row[r] = "none"
        /\ answer[r].status = "taken" => row[r] = "none"
        /\ CommitBeforeResponse /\ pc[r] = "commit" => row[r] = "pending"
        /\ CommitBeforeResponse
              /\ (pc[r] = "respond" \/ answer[r].status = "registered")
              => row[r] \in {"durable", "erased"}

\* The account u is on record, and l has given its address and password.
Match(l, u) ==
    /\ u \in Registrations
    /\ row[u] \in {"durable", "erased"}
    /\ SameMailbox(u, l)
    /\ password[u] = password[l]

LoginsMatch == \A l \in Logins : user[l] # Nobody => Match(l, user[l])

\* What p knows of the token it presents, before and after its answer.
Held(p) ==
    /\ pc[p] \in {"load", "commit", "respond"} \/ answer[p].status = "profile"
          => bearer[p] # Nobody /\ sent[p] < expiry[bearer[p]]
    /\ pc[p] \in {"commit", "respond"} => user[p] = user[bearer[p]]
    /\ answer[p].status = "profile" => answer[p].user = user[bearer[p]]
    /\ answer[p].status = "unauthorized" /\ bearer[p] # Nobody
          => expiry[bearer[p]] <= now \/ row[user[bearer[p]]] = "erased"

TokensHeld == \A p \in Profiles : Held(p)

IInv ==
    /\ TypeOK
    /\ Shapes
    /\ OneAccountPerEmail
    /\ Rows
    /\ RefusalHasHolder
    /\ LoginsMatch
    /\ TokensHeld

-----------------------------------------------------------------------------
\* Each part is preserved by every step.

\* Every step preserves the types.
LEMMA TypeOKStep ==
    ASSUME TypeOK, Shapes, [Next]_vars
    PROVE  TypeOK'
<1>. USE DEF TypeOK, Requests, Forms, PCs, Fates, Answers, Grants, Refusals,
            Shapes
<1>1. ASSUME NEW r \in Forms, SendForm(r) PROVE TypeOK'
    BY <1>1, ConstantsAssumption DEF SendForm, Goto
<1>2. ASSUME NEW p \in Profiles, NEW l \in Logins \cup {Nobody}, SendProfile(p,
      l) PROVE TypeOK'
    BY <1>2, ConstantsAssumption DEF SendProfile, Goto
<1>3. ASSUME NEW r \in Registrations, EmailTaken(r) PROVE TypeOK'
    BY <1>3, ConstantsAssumption
    DEF EmailTaken, Abort, Goto, RolledBack, Refusal, Holders
<1>4. ASSUME NEW r \in Registrations, EmailFree(r) PROVE TypeOK'
    BY <1>4, ConstantsAssumption DEF EmailFree, Goto
<1>5. ASSUME NEW r \in Registrations, InsertUser(r) PROVE TypeOK'
    BY <1>5, ConstantsAssumption
    DEF InsertUser, Goto, AfterHandler, Contended, Violates, Holders, Email
<1>6. ASSUME NEW r \in Registrations, InsertLoses(r) PROVE TypeOK'
    BY <1>6, ConstantsAssumption
    DEF InsertLoses, Abort, Goto, RolledBack, Refusal, Violates, Holders
<1>7. ASSUME NEW u \in Registrations, DeleteUser(u) PROVE TypeOK'
    BY <1>7, ConstantsAssumption DEF DeleteUser
<1>8. ASSUME NEW l \in Logins, FindUser(l) PROVE TypeOK'
    BY <1>8, ConstantsAssumption DEF FindUser, Goto, Holders, Email, Verifies
<1>9. ASSUME NEW l \in Logins, BadCredentials(l) PROVE TypeOK'
    BY <1>9, ConstantsAssumption
    DEF BadCredentials, Abort, Goto, RolledBack, Refusal
<1>10. ASSUME NEW l \in Logins, IssueToken(l) PROVE TypeOK'
    BY <1>10, ConstantsAssumption DEF IssueToken, Goto, AfterHandler
<1>11. ASSUME NEW p \in Profiles, Decode(p) PROVE TypeOK'
    BY <1>11, ConstantsAssumption DEF Decode, Goto, Valid
<1>12. ASSUME NEW p \in Profiles, BadToken(p) PROVE TypeOK'
    BY <1>12, ConstantsAssumption
    DEF BadToken, Abort, Goto, RolledBack, Refusal, Valid
<1>13. ASSUME NEW p \in Profiles, LoadUser(p) PROVE TypeOK'
    BY <1>13, ConstantsAssumption DEF LoadUser, Goto, AfterHandler, Subject
<1>14. ASSUME NEW p \in Profiles, UserGone(p) PROVE TypeOK'
    BY <1>14, ConstantsAssumption
    DEF UserGone, Abort, Goto, RolledBack, Refusal, Subject
<1>15. ASSUME NEW r \in Requests, Commit(r) PROVE TypeOK'
    BY <1>15, ConstantsAssumption DEF Commit, Goto
<1>16. ASSUME NEW r \in Requests, Respond(r) PROVE TypeOK'
    BY <1>16, ConstantsAssumption DEF Respond, Goto, Result
<1>17. ASSUME NEW r \in Requests, CommitFails(r) PROVE TypeOK'
    BY <1>17, ConstantsAssumption DEF CommitFails, Goto, Refusal
<1>18. ASSUME NEW r \in Requests, Fault(r) PROVE TypeOK'
    BY <1>18, ConstantsAssumption DEF Fault, Abort, Goto, RolledBack, Refusal
<1>19. CASE Tick
    BY <1>19, ConstantsAssumption DEF Tick
<1>20. CASE UNCHANGED vars
    BY <1>20 DEF vars
<1>. QED
    BY <1>1, <1>2, <1>3, <1>4, <1>5, <1>6, <1>7, <1>8, <1>9, <1>10, <1>11,
       <1>12, <1>13, <1>14, <1>15, <1>16, <1>17, <1>18, <1>19, <1>20
    DEF Next, RegisterStep, LoginStep, ProfileStep, EndStep

\* A request keeps to the path of its kind, and is answered at its end.
LEMMA ShapeStep ==
    ASSUME TypeOK, Shapes, [Next]_vars
    PROVE  Shapes'
<1>. USE DEF TypeOK, Requests, Forms, PCs, Fates, Shapes
<1>1. ASSUME NEW r \in Forms, SendForm(r) PROVE Shapes'
    BY <1>1, ConstantsAssumption DEF SendForm, Goto
<1>2. ASSUME NEW p \in Profiles, NEW l \in Logins \cup {Nobody}, SendProfile(p,
      l) PROVE Shapes'
    BY <1>2, ConstantsAssumption DEF SendProfile, Goto
<1>3. ASSUME NEW r \in Registrations, EmailTaken(r) PROVE Shapes'
    BY <1>3, ConstantsAssumption
    DEF EmailTaken, Abort, Goto, RolledBack, Refusal, Holders
<1>4. ASSUME NEW r \in Registrations, EmailFree(r) PROVE Shapes'
    BY <1>4, ConstantsAssumption DEF EmailFree, Goto
<1>5. ASSUME NEW r \in Registrations, InsertUser(r) PROVE Shapes'
    BY <1>5, ConstantsAssumption
    DEF InsertUser, Goto, AfterHandler, Contended, Violates, Holders, Email
<1>6. ASSUME NEW r \in Registrations, InsertLoses(r) PROVE Shapes'
    BY <1>6, ConstantsAssumption
    DEF InsertLoses, Abort, Goto, RolledBack, Refusal, Violates, Holders
<1>7. ASSUME NEW u \in Registrations, DeleteUser(u) PROVE Shapes'
    BY <1>7, ConstantsAssumption DEF DeleteUser
<1>8. ASSUME NEW l \in Logins, FindUser(l) PROVE Shapes'
    BY <1>8, ConstantsAssumption DEF FindUser, Goto, Holders, Email, Verifies
<1>9. ASSUME NEW l \in Logins, BadCredentials(l) PROVE Shapes'
    BY <1>9, ConstantsAssumption
    DEF BadCredentials, Abort, Goto, RolledBack, Refusal
<1>10. ASSUME NEW l \in Logins, IssueToken(l) PROVE Shapes'
    BY <1>10, ConstantsAssumption DEF IssueToken, Goto, AfterHandler
<1>11. ASSUME NEW p \in Profiles, Decode(p) PROVE Shapes'
    BY <1>11, ConstantsAssumption DEF Decode, Goto, Valid
<1>12. ASSUME NEW p \in Profiles, BadToken(p) PROVE Shapes'
    BY <1>12, ConstantsAssumption
    DEF BadToken, Abort, Goto, RolledBack, Refusal, Valid
<1>13. ASSUME NEW p \in Profiles, LoadUser(p) PROVE Shapes'
    BY <1>13, ConstantsAssumption DEF LoadUser, Goto, AfterHandler, Subject
<1>14. ASSUME NEW p \in Profiles, UserGone(p) PROVE Shapes'
    BY <1>14, ConstantsAssumption
    DEF UserGone, Abort, Goto, RolledBack, Refusal, Subject
<1>15. ASSUME NEW r \in Requests, Commit(r) PROVE Shapes'
    BY <1>15, ConstantsAssumption DEF Commit, Goto
<1>16. ASSUME NEW r \in Requests, Respond(r) PROVE Shapes'
    BY <1>16, ConstantsAssumption DEF Respond, Goto, Result
<1>17. ASSUME NEW r \in Requests, CommitFails(r) PROVE Shapes'
    BY <1>17, ConstantsAssumption DEF CommitFails, Goto, Refusal
<1>18. ASSUME NEW r \in Requests, Fault(r) PROVE Shapes'
    BY <1>18, ConstantsAssumption DEF Fault, Abort, Goto, RolledBack, Refusal
<1>19. CASE Tick
    BY <1>19, ConstantsAssumption DEF Tick
<1>20. CASE UNCHANGED vars
    BY <1>20 DEF vars
<1>. QED
    BY <1>1, <1>2, <1>3, <1>4, <1>5, <1>6, <1>7, <1>8, <1>9, <1>10, <1>11,
       <1>12, <1>13, <1>14, <1>15, <1>16, <1>17, <1>18, <1>19, <1>20
    DEF Next, RegisterStep, LoginStep, ProfileStep, EndStep

\* No step adds a second account to a mailbox.
LEMMA UniqueStep ==
    ASSUME TypeOK, OneAccountPerEmail, [Next]_vars
    PROVE  OneAccountPerEmail'
<1>. USE DEF TypeOK, Requests, Forms, PCs, Fates, OneAccountPerEmail,
            SameMailbox
<1>1. ASSUME NEW r \in Forms, SendForm(r) PROVE OneAccountPerEmail'
    BY <1>1, ConstantsAssumption DEF SendForm, Goto
<1>2. ASSUME NEW p \in Profiles, NEW l \in Logins \cup {Nobody}, SendProfile(p,
      l) PROVE OneAccountPerEmail'
    BY <1>2, ConstantsAssumption DEF SendProfile, Goto
<1>3. ASSUME NEW r \in Registrations, EmailTaken(r) PROVE OneAccountPerEmail'
    BY <1>3, ConstantsAssumption
    DEF EmailTaken, Abort, Goto, RolledBack, Refusal, Holders
<1>4. ASSUME NEW r \in Registrations, EmailFree(r) PROVE OneAccountPerEmail'
    BY <1>4, ConstantsAssumption DEF EmailFree, Goto
<1>5. ASSUME NEW r \in Registrations, InsertUser(r) PROVE OneAccountPerEmail'
    BY <1>5, ConstantsAssumption
    DEF InsertUser, Goto, AfterHandler, Contended, Violates, Holders, Email
<1>6. ASSUME NEW r \in Registrations, InsertLoses(r) PROVE OneAccountPerEmail'
    BY <1>6, ConstantsAssumption
    DEF InsertLoses, Abort, Goto, RolledBack, Refusal, Violates, Holders
<1>7. ASSUME NEW u \in Registrations, DeleteUser(u) PROVE OneAccountPerEmail'
    BY <1>7, ConstantsAssumption DEF DeleteUser
<1>8. ASSUME NEW l \in Logins, FindUser(l) PROVE OneAccountPerEmail'
    BY <1>8, ConstantsAssumption DEF FindUser, Goto, Holders, Email, Verifies
<1>9. ASSUME NEW l \in Logins, BadCredentials(l) PROVE OneAccountPerEmail'
    BY <1>9, ConstantsAssumption
    DEF BadCredentials, Abort, Goto, RolledBack, Refusal
<1>10. ASSUME NEW l \in Logins, IssueToken(l) PROVE OneAccountPerEmail'
    BY <1>10, ConstantsAssumption DEF IssueToken, Goto, AfterHandler
<1>11. ASSUME NEW p \in Profiles, Decode(p) PROVE OneAccountPerEmail'
    BY <1>11, ConstantsAssumption DEF Decode, Goto, Valid
<1>12. ASSUME NEW p \in Profiles, BadToken(p) PROVE OneAccountPerEmail'
    BY <1>12, ConstantsAssumption
    DEF BadToken, Abort, Goto, RolledBack, Refusal, Valid
<1>13. ASSUME NEW p \in Profiles, LoadUser(p) PROVE OneAccountPerEmail'
    BY <1>13, ConstantsAssumption DEF LoadUser, Goto, AfterHandler, Subject
<1>14. ASSUME NEW p \in Profiles, UserGone(p) PROVE OneAccountPerEmail'
    BY <1>14, ConstantsAssumption
    DEF UserGone, Abort, Goto, RolledBack, Refusal, Subject
<1>15. ASSUME NEW r \in Requests, Commit(r) PROVE OneAccountPerEmail'
    BY <1>15, ConstantsAssumption DEF Commit, Goto
<1>16. ASSUME NEW r \in Requests, Respond(r) PROVE OneAccountPerEmail'
    BY <1>16, ConstantsAssumption DEF Respond, Goto, Result
<1>17. ASSUME NEW r \in Requests, CommitFails(r) PROVE OneAccountPerEmail'
    BY <1>17, ConstantsAssumption DEF CommitFails, Goto, Refusal
<1>18. ASSUME NEW r \in Requests, Fault(r) PROVE OneAccountPerEmail'
    BY <1>18, ConstantsAssumption DEF Fault, Abort, Goto, RolledBack, Refusal
<1>19. CASE Tick
    BY <1>19, ConstantsAssumption DEF Tick
<1>20. CASE UNCHANGED vars
    BY <1>20 DEF vars
<1>. QED
    BY <1>1, <1>2, <1>3, <1>4, <1>5, <1>6, <1>7, <1>8, <1>9, <1>10, <1>11,
       <1>12, <1>13, <1>14, <1>15, <1>16, <1>17, <1>18, <1>19, <1>20
    DEF Next, RegisterStep, LoginStep, ProfileStep, EndStep

\* The row of a registration follows its program counter.
LEMMA RowStep ==
    ASSUME TypeOK, Shapes, Rows, [Next]_vars
    PROVE  Rows'
<1>. USE DEF TypeOK, Requests, Forms, PCs, Fates, Shapes, Rows
<1>1. ASSUME NEW r \in Forms, SendForm(r) PROVE Rows'
    BY <1>1, ConstantsAssumption DEF SendForm, Goto
<1>2. ASSUME NEW p \in Profiles, NEW l \in Logins \cup {Nobody}, SendProfile(p,
      l) PROVE Rows'
    BY <1>2, ConstantsAssumption DEF SendProfile, Goto
<1>3. ASSUME NEW r \in Registrations, EmailTaken(r) PROVE Rows'
    BY <1>3, ConstantsAssumption
    DEF EmailTaken, Abort, Goto, RolledBack, Refusal, Holders
<1>4. ASSUME NEW r \in Registrations, EmailFree(r) PROVE Rows'
    BY <1>4, ConstantsAssumption DEF EmailFree, Goto
<1>5. ASSUME NEW r \in Registrations, InsertUser(r) PROVE Rows'
    BY <1>5, ConstantsAssumption
    DEF InsertUser, Goto, AfterHandler, Contended, Violates, Holders, Email
<1>6. ASSUME NEW r \in Registrations, InsertLoses(r) PROVE Rows'
    BY <1>6, ConstantsAssumption
    DEF InsertLoses, Abort, Goto, RolledBack, Refusal, Violates, Holders
<1>7. ASSUME NEW u \in Registrations, DeleteUser(u) PROVE Rows'
    BY <1>7, ConstantsAssumption DEF DeleteUser
<1>8. ASSUME NEW l \in Logins, FindUser(l) PROVE Rows'
    BY <1>8, ConstantsAssumption DEF FindUser, Goto, Holders, Email, Verifies
<1>9. ASSUME NEW l \in Logins, BadCredentials(l) PROVE Rows'
    BY <1>9, ConstantsAssumption
    DEF BadCredentials, Abort, Goto, RolledBack, Refusal
<1>10. ASSUME NEW l \in Logins, IssueToken(l) PROVE Rows'
    BY <1>10, ConstantsAssumption DEF IssueToken, Goto, AfterHandler
<1>11. ASSUME NEW p \in Profiles, Decode(p) PROVE Rows'
    BY <1>11, ConstantsAssumption DEF Decode, Goto, Valid
<1>12. ASSUME NEW p \in Profiles, BadToken(p) PROVE Rows'
    BY <1>12, ConstantsAssumption
    DEF BadToken, Abort, Goto, RolledBack, Refusal, Valid
<1>13. ASSUME NEW p \in Profiles, LoadUser(p) PROVE Rows'
    BY <1>13, ConstantsAssumption DEF LoadUser, Goto, AfterHandler, Subject
<1>14. ASSUME NEW p \in Profiles, UserGone(p) PROVE Rows'
    BY <1>14, ConstantsAssumption
    DEF UserGone, Abort, Goto, RolledBack, Refusal, Subject
<1>15. ASSUME NEW r \in Requests, Commit(r) PROVE Rows'
    BY <1>15, ConstantsAssumption DEF Commit, Goto
<1>16. ASSUME NEW r \in Requests, Respond(r) PROVE Rows'
    BY <1>16, ConstantsAssumption DEF Respond, Goto, Result
<1>17. ASSUME NEW r \in Requests, CommitFails(r) PROVE Rows'
    BY <1>17, ConstantsAssumption DEF CommitFails, Goto, Refusal
<1>18. ASSUME NEW r \in Requests, Fault(r) PROVE Rows'
    BY <1>18, ConstantsAssumption DEF Fault, Abort, Goto, RolledBack, Refusal
<1>19. CASE Tick
    BY <1>19, ConstantsAssumption DEF Tick
<1>20. CASE UNCHANGED vars
    BY <1>20 DEF vars
<1>. QED
    BY <1>1, <1>2, <1>3, <1>4, <1>5, <1>6, <1>7, <1>8, <1>9, <1>10, <1>11,
       <1>12, <1>13, <1>14, <1>15, <1>16, <1>17, <1>18, <1>19, <1>20
    DEF Next, RegisterStep, LoginStep, ProfileStep, EndStep

\* Whoever holds the mailbox of a refused registration stays on record.
LEMMA RefusalStep ==
    ASSUME TypeOK, Shapes, Rows, RefusalHasHolder, [Next]_vars
    PROVE  RefusalHasHolder'
<1>. USE DEF TypeOK, Requests, Forms, PCs, Fates, Shapes, Rows,
            RefusalHasHolder, SameMailbox, Email
<1>1. ASSUME NEW r \in Forms, SendForm(r) PROVE RefusalHasHolder'
    BY <1>1, ConstantsAssumption DEF SendForm, Goto
<1>2. ASSUME NEW p \in Profiles, NEW l \in Logins \cup {Nobody}, SendProfile(p,
      l) PROVE RefusalHasHolder'
    BY <1>2, ConstantsAssumption DEF SendProfile, Goto
<1>3. ASSUME NEW r \in Registrations, EmailTaken(r) PROVE RefusalHasHolder'
    BY <1>3, ConstantsAssumption
    DEF EmailTaken, Abort, Goto, RolledBack, Refusal, Holders
<1>4. ASSUME NEW r \in Registrations, EmailFree(r) PROVE RefusalHasHolder'
    BY <1>4, ConstantsAssumption DEF EmailFree, Goto
<1>5. ASSUME NEW r \in Registrations, InsertUser(r) PROVE RefusalHasHolder'
    BY <1>5, ConstantsAssumption
    DEF InsertUser, Goto, AfterHandler, Contended, Violates, Holders
<1>6. ASSUME NEW r \in Registrations, InsertLoses(r) PROVE RefusalHasHolder'
    BY <1>6, ConstantsAssumption
    DEF InsertLoses, Abort, Goto, RolledBack, Refusal, Violates, Holders
<1>7. ASSUME NEW u \in Registrations, DeleteUser(u) PROVE RefusalHasHolder'
    BY <1>7, ConstantsAssumption DEF DeleteUser
<1>8. ASSUME NEW l \in Logins, FindUser(l) PROVE RefusalHasHolder'
    BY <1>8, ConstantsAssumption DEF FindUser, Goto, Holders, Verifies
<1>9. ASSUME NEW l \in Logins, BadCredentials(l) PROVE RefusalHasHolder'
    BY <1>9, ConstantsAssumption
    DEF BadCredentials, Abort, Goto, RolledBack, Refusal
<1>10. ASSUME NEW l \in Logins, IssueToken(l) PROVE RefusalHasHolder'
    BY <1>10, ConstantsAssumption DEF IssueToken, Goto, AfterHandler
<1>11. ASSUME NEW p \in Profiles, Decode(p) PROVE RefusalHasHolder'
    BY <1>11, ConstantsAssumption DEF Decode, Goto, Valid
<1>12. ASSUME NEW p \in Profiles, BadToken(p) PROVE RefusalHasHolder'
    BY <1>12, ConstantsAssumption
    DEF BadToken, Abort, Goto, RolledBack, Refusal, Valid
<1>13. ASSUME NEW p \in Profiles, LoadUser(p) PROVE RefusalHasHolder'
    BY <1>13, ConstantsAssumption DEF LoadUser, Goto, AfterHandler, Subject
<1>14. ASSUME NEW p \in Profiles, UserGone(p) PROVE RefusalHasHolder'
    BY <1>14, ConstantsAssumption
    DEF UserGone, Abort, Goto, RolledBack, Refusal, Subject
<1>15. ASSUME NEW r \in Requests, Commit(r) PROVE RefusalHasHolder'
    BY <1>15, ConstantsAssumption DEF Commit, Goto
<1>16. ASSUME NEW r \in Requests, Respond(r) PROVE RefusalHasHolder'
    BY <1>16, ConstantsAssumption DEF Respond, Goto, Result
<1>17. ASSUME NEW r \in Requests, CommitFails(r) PROVE RefusalHasHolder'
    BY <1>17, ConstantsAssumption DEF CommitFails, Goto, Refusal
<1>18. ASSUME NEW r \in Requests, Fault(r) PROVE RefusalHasHolder'
    BY <1>18, ConstantsAssumption DEF Fault, Abort, Goto, RolledBack, Refusal
<1>19. CASE Tick
    BY <1>19, ConstantsAssumption DEF Tick
<1>20. CASE UNCHANGED vars
    BY <1>20 DEF vars
<1>. QED
    BY <1>1, <1>2, <1>3, <1>4, <1>5, <1>6, <1>7, <1>8, <1>9, <1>10, <1>11,
       <1>12, <1>13, <1>14, <1>15, <1>16, <1>17, <1>18, <1>19, <1>20
    DEF Next, RegisterStep, LoginStep, ProfileStep, EndStep

\* A login never leaves the account whose password it has verified.
LEMMA LoginStaysTrue ==
    ASSUME TypeOK, Shapes, Rows, LoginsMatch, [Next]_vars
    PROVE  LoginsMatch'
<1>. USE DEF TypeOK, Requests, Forms, PCs, Fates, Shapes, Rows, LoginsMatch,
            Match, SameMailbox, Holders, Email
<1>1. ASSUME NEW r \in Forms, SendForm(r) PROVE LoginsMatch'
    BY <1>1, ConstantsAssumption DEF SendForm, Goto
<1>2. ASSUME NEW p \in Profiles, NEW l \in Logins \cup {Nobody}, SendProfile(p,
      l) PROVE LoginsMatch'
    BY <1>2, ConstantsAssumption DEF SendProfile, Goto
<1>3. ASSUME NEW r \in Registrations, EmailTaken(r) PROVE LoginsMatch'
    BY <1>3, ConstantsAssumption
    DEF EmailTaken, Abort, Goto, RolledBack, Refusal
<1>4. ASSUME NEW r \in Registrations, EmailFree(r) PROVE LoginsMatch'
    BY <1>4, ConstantsAssumption DEF EmailFree, Goto
<1>5. ASSUME NEW r \in Registrations, InsertUser(r) PROVE LoginsMatch'
    BY <1>5, ConstantsAssumption
    DEF InsertUser, Goto, AfterHandler, Contended, Violates
<1>6. ASSUME NEW r \in Registrations, InsertLoses(r) PROVE LoginsMatch'
    BY <1>6, ConstantsAssumption
    DEF InsertLoses, Abort, Goto, RolledBack, Refusal, Violates
<1>7. ASSUME NEW u \in Registrations, DeleteUser(u) PROVE LoginsMatch'
    BY <1>7, ConstantsAssumption DEF DeleteUser
<1>8. ASSUME NEW l \in Logins, FindUser(l) PROVE LoginsMatch'
    BY <1>8, ConstantsAssumption DEF FindUser, Goto, Verifies
<1>9. ASSUME NEW l \in Logins, BadCredentials(l) PROVE LoginsMatch'
    BY <1>9, ConstantsAssumption
    DEF BadCredentials, Abort, Goto, RolledBack, Refusal
<1>10. ASSUME NEW l \in Logins, IssueToken(l) PROVE LoginsMatch'
    BY <1>10, ConstantsAssumption DEF IssueToken, Goto, AfterHandler
<1>11. ASSUME NEW p \in Profiles, Decode(p) PROVE LoginsMatch'
    BY <1>11, ConstantsAssumption DEF Decode, Goto, Valid
<1>12. ASSUME NEW p \in Profiles, BadToken(p) PROVE LoginsMatch'
    BY <1>12, ConstantsAssumption
    DEF BadToken, Abort, Goto, RolledBack, Refusal, Valid
<1>13. ASSUME NEW p \in Profiles, LoadUser(p) PROVE LoginsMatch'
    BY <1>13, ConstantsAssumption DEF LoadUser, Goto, AfterHandler, Subject
<1>14. ASSUME NEW p \in Profiles, UserGone(p) PROVE LoginsMatch'
    BY <1>14, ConstantsAssumption
    DEF UserGone, Abort, Goto, RolledBack, Refusal, Subject
<1>15. ASSUME NEW r \in Requests, Commit(r) PROVE LoginsMatch'
    BY <1>15, ConstantsAssumption DEF Commit, Goto
<1>16. ASSUME NEW r \in Requests, Respond(r) PROVE LoginsMatch'
    BY <1>16, ConstantsAssumption DEF Respond, Goto, Result
<1>17. ASSUME NEW r \in Requests, CommitFails(r) PROVE LoginsMatch'
    BY <1>17, ConstantsAssumption DEF CommitFails, Goto, Refusal
<1>18. ASSUME NEW r \in Requests, Fault(r) PROVE LoginsMatch'
    BY <1>18, ConstantsAssumption DEF Fault, Abort, Goto, RolledBack, Refusal
<1>19. CASE Tick
    BY <1>19, ConstantsAssumption DEF Tick
<1>20. CASE UNCHANGED vars
    BY <1>20 DEF vars
<1>. QED
    BY <1>1, <1>2, <1>3, <1>4, <1>5, <1>6, <1>7, <1>8, <1>9, <1>10, <1>11,
       <1>12, <1>13, <1>14, <1>15, <1>16, <1>17, <1>18, <1>19, <1>20
    DEF Next, RegisterStep, LoginStep, ProfileStep, EndStep

\* What a profile request has found out about its token stays true.
LEMMA TokenStep ==
    ASSUME TypeOK, Shapes, Rows, LoginsMatch, TokensHeld, [Next]_vars
    PROVE  TokensHeld'
<1>. USE DEF TypeOK, Requests, Forms, PCs, Fates, Shapes, Rows, LoginsMatch,
            Match, TokensHeld, Held
<1>1. ASSUME NEW r \in Forms, SendForm(r) PROVE TokensHeld'
    BY <1>1, ConstantsAssumption DEF SendForm, Goto
<1>2. ASSUME NEW p \in Profiles, NEW l \in Logins \cup {Nobody}, SendProfile(p,
      l) PROVE TokensHeld'
    BY <1>2, ConstantsAssumption DEF SendProfile, Goto
<1>3. ASSUME NEW r \in Registrations, EmailTaken(r) PROVE TokensHeld'
    BY <1>3, ConstantsAssumption
    DEF EmailTaken, Abort, Goto, RolledBack, Refusal, Holders
<1>4. ASSUME NEW r \in Registrations, EmailFree(r) PROVE TokensHeld'
    BY <1>4, ConstantsAssumption DEF EmailFree, Goto
<1>5. ASSUME NEW r \in Registrations, InsertUser(r) PROVE TokensHeld'
    BY <1>5, ConstantsAssumption
    DEF InsertUser, Goto, AfterHandler, Contended, Violates, Holders, Email
<1>6. ASSUME NEW r \in Registrations, InsertLoses(r) PROVE TokensHeld'
    BY <1>6, ConstantsAssumption
    DEF InsertLoses, Abort, Goto, RolledBack, Refusal, Violates, Holders
<1>7. ASSUME NEW u \in Registrations, DeleteUser(u) PROVE TokensHeld'
    BY <1>7, ConstantsAssumption DEF DeleteUser
<1>8. ASSUME NEW l \in Logins, FindUser(l) PROVE TokensHeld'
    BY <1>8, ConstantsAssumption DEF FindUser, Goto, Holders, Email, Verifies
<1>9. ASSUME NEW l \in Logins, BadCredentials(l) PROVE TokensHeld'
    BY <1>9, ConstantsAssumption
    DEF BadCredentials, Abort, Goto, RolledBack, Refusal
<1>10. ASSUME NEW l \in Logins, IssueToken(l) PROVE TokensHeld'
    BY <1>10, ConstantsAssumption DEF IssueToken, Goto, AfterHandler
<1>11. ASSUME NEW p \in Profiles, Decode(p) PROVE TokensHeld'
    BY <1>11, ConstantsAssumption DEF Decode, Goto, Valid
<1>12. ASSUME NEW p \in Profiles, BadToken(p) PROVE TokensHeld'
    BY <1>12, ConstantsAssumption
    DEF BadToken, Abort, Goto, RolledBack, Refusal, Valid
<1>13. ASSUME NEW p \in Profiles, LoadUser(p) PROVE TokensHeld'
    BY <1>13, ConstantsAssumption DEF LoadUser, Goto, AfterHandler, Subject
<1>14. ASSUME NEW p \in Profiles, UserGone(p) PROVE TokensHeld'
    BY <1>14, ConstantsAssumption
    DEF UserGone, Abort, Goto, RolledBack, Refusal, Subject
<1>15. ASSUME NEW r \in Requests, Commit(r) PROVE TokensHeld'
    BY <1>15, ConstantsAssumption DEF Commit, Goto
<1>16. ASSUME NEW r \in Requests, Respond(r) PROVE TokensHeld'
    BY <1>16, ConstantsAssumption DEF Respond, Goto, Result
<1>17. ASSUME NEW r \in Requests, CommitFails(r) PROVE TokensHeld'
    BY <1>17, ConstantsAssumption DEF CommitFails, Goto, Refusal
<1>18. ASSUME NEW r \in Requests, Fault(r) PROVE TokensHeld'
    BY <1>18, ConstantsAssumption DEF Fault, Abort, Goto, RolledBack, Refusal
<1>19. CASE Tick
    BY <1>19, ConstantsAssumption DEF Tick
<1>20. CASE UNCHANGED vars
    BY <1>20 DEF vars
<1>. QED
    BY <1>1, <1>2, <1>3, <1>4, <1>5, <1>6, <1>7, <1>8, <1>9, <1>10, <1>11,
       <1>12, <1>13, <1>14, <1>15, <1>16, <1>17, <1>18, <1>19, <1>20
    DEF Next, RegisterStep, LoginStep, ProfileStep, EndStep

-----------------------------------------------------------------------------
LEMMA IInvInit == Init => IInv
<1>. SUFFICES ASSUME Init PROVE IInv
    OBVIOUS
<1>1. TypeOK
    BY ConstantsAssumption
    DEF Init, TypeOK, PCs, Fates, Answers, Refusal, Requests, Forms
<1>2. Shapes
    BY ConstantsAssumption DEF Init, Shapes, Refusal, Requests
<1>3. OneAccountPerEmail /\ Rows /\ RefusalHasHolder
    BY DEF Init, OneAccountPerEmail, Rows, RefusalHasHolder, Refusal, Requests
<1>4. LoginsMatch /\ TokensHeld
    BY DEF Init, LoginsMatch, TokensHeld, Held, Refusal, Requests
<1>. QED
    BY <1>1, <1>2, <1>3, <1>4 DEF IInv

LEMMA IInvStep == IInv /\ [Next]_vars => IInv'
BY TypeOKStep, ShapeStep, UniqueStep, RowStep, RefusalStep, LoginStaysTrue,
   TokenStep
   DEF IInv

\* The inductive invariant holds in every reachable state.
THEOREM Invariance == Spec => []IInv
BY IInvInit, IInvStep, PTL DEF Spec

-----------------------------------------------------------------------------
\* Every variable keeps its type.
THEOREM TypeCorrect == Spec => []TypeOK
<1>1. IInv => TypeOK
    BY DEF IInv
<1>. QED
    BY <1>1, Invariance, PTL

\* At most one account per mailbox, in every interleaving of registrations.
THEOREM Uniqueness == Spec => []OneAccountPerEmail
<1>1. IInv => OneAccountPerEmail
    BY DEF IInv
<1>. QED
    BY <1>1, Invariance, PTL

\* Every refused registration has lost to an account on record.
THEOREM RefusalsAreJust == Spec => []RefusalHasHolder
<1>1. IInv => RefusalHasHolder
    BY DEF IInv
<1>. QED
    BY <1>1, Invariance, PTL

\* A token reaches the account whose credentials obtained it and no other.
THEOREM Authenticity == Spec => []TokenReachesItsOwner
<1>1. IInv => TokenReachesItsOwner
    BY ConstantsAssumption
    DEF IInv, TypeOK, TokenReachesItsOwner, TokensHeld, Held, Shapes,
        LoginsMatch, Match
<1>. QED
    BY <1>1, Invariance, PTL

\* No request sent after the expiry of its token is granted.
THEOREM Expiry == Spec => []ExpiredIsRefused
<1>1. IInv => ExpiredIsRefused
    BY DEF IInv, ExpiredIsRefused, TokensHeld, Held
<1>. QED
    BY <1>1, Invariance, PTL

\* A token is good until it expires or its account is deleted.
THEOREM Honoured == Spec => []TokenHonoured
<1>1. IInv => TokenHonoured
    BY DEF IInv, TokenHonoured, TokensHeld, Held
<1>. QED
    BY <1>1, Invariance, PTL

\* If the commit precedes the response, a 201 can be followed by a login.
THEOREM LoginAfterRegistration ==
    ASSUME CommitBeforeResponse
    PROVE  Spec => RegisteredCanLogIn
<1>. DEFINE Admitted(u, l) ==
               /\ answer[u].status = "registered"
               /\ row[u] # "erased"
               /\ SameMailbox(u, l)
               /\ password[u] = password[l]
               /\ pc[l] = "find"
               => answer'[l].status # "invalid"
<1>1. ASSUME IInv, [Next]_vars, NEW u \in Registrations, NEW l \in Logins
      PROVE  Admitted(u, l)
    <2>. SUFFICES ASSUME answer[u].status = "registered", row[u] # "erased",
                         SameMailbox(u, l), password[u] = password[l],
                         pc[l] = "find"
                  PROVE  answer'[l].status # "invalid"
        OBVIOUS
    <2>1. answer[l].status = "none" /\ l \notin Registrations /\ l \notin Profiles
        BY <1>1, ConstantsAssumption DEF IInv, Shapes, Requests
    <2>2. u \in Holders(l)
        BY <1>1 DEF IInv, Rows, Holders, Email, SameMailbox
    <2>3. ~BadCredentials(l)
        BY <2>2 DEF BadCredentials, Verifies
    <2>4. answer \in [Requests -> Answers] /\ l \in Requests
        BY <1>1 DEF IInv, TypeOK, Requests
    <2>. QED
        BY <1>1, <2>1, <2>3, <2>4
        DEF Next, RegisterStep, LoginStep, ProfileStep, EndStep, vars, SendForm,
            SendProfile, EmailTaken, EmailFree, InsertUser, InsertLoses,
            DeleteUser, FindUser, BadCredentials, IssueToken, Decode, BadToken,
            LoadUser, UserGone, Commit, Respond, CommitFails, Fault, Tick, Abort,
            Refusal
<1>2. IInv /\ [Next]_vars
         => [\A u \in Registrations, l \in Logins : Admitted(u, l)]_vars
    BY <1>1
<1>. QED
    BY <1>2, Invariance, PTL DEF Spec, RegisteredCanLogIn

-----------------------------------------------------------------------------
\* Accounts implements Register if the commit precedes the response.

\* At first there is no account and no answer.
LEMMA RegistryInit == Init => Registry!Init
BY DEF Init, Registry!Init, Requests, Refusal

\* A step that neither records, erases nor answers a registration is invisible.
LEMMA Unseen ==
    ASSUME UNCHANGED address,
           \A q \in Registrations :
              /\ (row[q] = "durable")' <=> row[q] = "durable"
              /\ (row[q] = "erased")' <=> row[q] = "erased"
              /\ answer'[q].status = answer[q].status
    PROVE  UNCHANGED Registry!registerVars
BY DEF Registry!registerVars

\* A step that changes nothing but a registration's answer answers it.
LEMMA Answering ==
    ASSUME TypeOK, NEW r \in Registrations, NEW s \in Refusals \cup Grants,
           answer[r].status = "none",
           answer'[r].status = s,
           \A q \in Registrations \ {r} : answer'[q] = answer[q],
           UNCHANGED address,
           \A q \in Registrations :
              /\ (row[q] = "durable")' <=> row[q] = "durable"
              /\ (row[q] = "erased")' <=> row[q] = "erased"
    PROVE  Registry!Answer(r, s)
BY DEF Registry!Answer, TypeOK, Requests

\* A registration that aborts has recorded nothing, and is told so.
LEMMA AbortIsRefusal ==
    ASSUME IInv, NEW r \in Registrations, NEW s \in {"taken", "error"}, Abort(r, s),
           pc[r] \in {"check", "insert"}
    PROVE  r \notin Registry!Ever /\ Registry!Answer(r, s)
<1>1. row[r] = "none" /\ answer[r].status = "none"
    BY DEF IInv, Rows, Shapes, Requests
<1>2. /\ answer'[r].status = s
      /\ \A q \in Registrations \ {r} : answer'[q] = answer[q]
      /\ \A q \in Registrations : row'[q] = row[q]
      /\ UNCHANGED address
    BY <1>1 DEF Abort, IInv, TypeOK, Requests, RolledBack, Refusal
<1>3. s \in Refusals
    BY DEF Refusals
<1>4. Registry!Answer(r, s)
    BY <1>1, <1>2, <1>3, Answering DEF IInv
<1>. QED
    BY <1>1, <1>4 DEF Registry!Ever

\* A login or profile request is no registration.
LEMMA OtherRequests ==
    ASSUME IInv, NEW r \in Logins \cup Profiles
    PROVE  /\ r \notin Registrations
           /\ \A s \in Refusals : Abort(r, s) => UNCHANGED Registry!registerVars
<1>1. r \notin Registrations
    BY ConstantsAssumption
<1>2. ASSUME NEW s \in Refusals, Abort(r, s)
      PROVE  UNCHANGED Registry!registerVars
    <2>1. UNCHANGED address /\ \A q \in Registrations : row'[q] = row[q] /\ answer'[q] = answer[q]
        BY <1>1, <1>2 DEF Abort, IInv, TypeOK, Requests
    <2>. QED
        BY <2>1, Unseen
<1>. QED
    BY <1>1, <1>2

\* A registration looks up, is refused or inserts its uncommitted row.
LEMMA RegisterIsSeen ==
    ASSUME IInv, NEW r \in Registrations, RegisterStep(r)
    PROVE  [Registry!Next]_(Registry!registerVars)
<1>1. CASE EmailTaken(r)
    <2>1. r \notin Registry!Ever /\ Registry!Answer(r, "taken")
        BY <1>1, AbortIsRefusal DEF EmailTaken
    <2>2. Registry!RefuseTaken(r)
        BY <1>1, <2>1 DEF Registry!RefuseTaken, EmailTaken, Holders, Email
    <2>. QED
        BY <2>1, <2>2 DEF Registry!Next
<1>2. CASE InsertLoses(r)
    <2>1. r \notin Registry!Ever /\ Registry!Answer(r, "error")
        BY <1>2, AbortIsRefusal DEF InsertLoses
    <2>. QED
        BY <2>1 DEF Registry!Next
<1>3. CASE EmailFree(r)
    BY <1>3, Unseen DEF EmailFree
<1>4. CASE InsertUser(r)
    <2>1. row[r] = "none" /\ row'[r] = "pending"
        BY <1>4 DEF InsertUser, IInv, Rows, TypeOK
    <2>2. \A q \in Registrations \ {r} : row'[q] = row[q]
        BY <1>4 DEF InsertUser, IInv, TypeOK
    <2>. QED
        BY <1>4, <2>1, <2>2, Unseen DEF InsertUser
<1>. QED
    BY <1>1, <1>2, <1>3, <1>4 DEF RegisterStep

\* A commit that applies makes the account; nobody else has its mailbox.
LEMMA Entering ==
    ASSUME IInv, NEW r \in Registrations, row[r] = "pending",
           row' = [row EXCEPT ![r] = "durable"],
           answer[r].status = "none",
           \/ UNCHANGED answer
           \/ answer' = [answer EXCEPT ![r] = Refusal("error")],
           UNCHANGED address
    PROVE  Registry!Next
<1>1. r \notin Registry!Ever
    BY DEF Registry!Ever
<1>2. \A e \in Registrations : row[e] = "durable" => Normal[address[e]] # Normal[address[r]]
    BY DEF IInv, OneAccountPerEmail, SameMailbox
<1>3. /\ {q \in Registrations : row[q] = "durable"}'
              = {q \in Registrations : row[q] = "durable"} \cup {r}
      /\ {q \in Registrations : row[q] = "erased"}'
              = {q \in Registrations : row[q] = "erased"}
    BY DEF IInv, TypeOK
<1>4. \/ \A q \in Registrations : answer'[q] = answer[q]
      \/ /\ answer'[r].status = "error"
         /\ \A q \in Registrations \ {r} : answer'[q] = answer[q]
    BY DEF IInv, TypeOK, Requests, Refusal
<1>5. Registry!Enter(r)
    BY <1>2, <1>3, <1>4 DEF Registry!Enter
<1>. QED
    BY <1>1, <1>5 DEF Registry!Next

\* The end of a registration: its account is made, then it is told.
LEMMA EndIsSeen ==
    ASSUME IInv, CommitBeforeResponse, NEW r \in Requests,
           EndStep(r) \/ CommitFails(r) \/ Fault(r)
    PROVE  [Registry!Next]_(Registry!registerVars)
<1>1. CASE r \notin Registrations
    <2>1. r \in Logins \cup Profiles
        BY <1>1 DEF Requests
    <2>2. CASE EndStep(r) \/ CommitFails(r)
        <3>1. UNCHANGED address /\ \A q \in Registrations : row'[q] = row[q] /\ answer'[q] = answer[q]
            BY <1>1, <2>2 DEF EndStep, Commit, Respond, CommitFails, IInv, TypeOK, Requests
        <3>. QED
            BY <3>1, Unseen
    <2>3. CASE Fault(r)
        BY <2>1, <2>3, OtherRequests DEF Fault, Refusals
    <2>. QED
        BY <2>2, <2>3
<1>2. CASE r \in Registrations
    <2>1. answer[r].status = "none" \/ pc[r] = "done"
        BY DEF IInv, Shapes
    <2>2. CASE Fault(r)
        <3>1. pc[r] \in {"check", "insert"}
            BY <1>2, <2>2 DEF Fault, IInv, Shapes
        <3>2. r \notin Registry!Ever /\ Registry!Answer(r, "error")
            BY <1>2, <2>2, <3>1, AbortIsRefusal DEF Fault
        <3>. QED
            BY <1>2, <3>2 DEF Registry!Next
    <2>3. CASE Respond(r)
        <3>1. /\ answer[r].status = "none" /\ row[r] \in {"durable", "erased"}
            BY <1>2, <2>1, <2>3 DEF Respond, IInv, Rows
        <3>2. /\ answer'[r].status = "registered"
              /\ \A q \in Registrations \ {r} : answer'[q] = answer[q]
              /\ UNCHANGED <<row, address>>
            BY <1>2, <2>3 DEF Respond, Result, IInv, TypeOK, Requests
        <3>3. Registry!Answer(r, "registered")
            BY <1>2, <3>1, <3>2, Answering DEF IInv, Grants
        <3>4. r \in Registry!Ever
            BY <1>2, <3>1 DEF Registry!Ever
        <3>. QED
            BY <3>3, <3>4 DEF Registry!Next
    <2>4. CASE Commit(r)
        <3>1. answer[r].status = "none" /\ row[r] = "pending"
            BY <1>2, <2>1, <2>4 DEF Commit, IInv, Rows
        <3>2. row' = [row EXCEPT ![r] = "durable"] /\ UNCHANGED <<answer, address>>
            BY <1>2, <2>4, <3>1 DEF Commit, IInv, TypeOK
        <3>. QED
            BY <1>2, <3>1, <3>2, Entering
    <2>5. CASE CommitFails(r)
        <3>1. answer[r].status = "none" /\ row[r] = "pending"
            BY <1>2, <2>1, <2>5 DEF CommitFails, IInv, Rows
        <3>2. /\ \/ row' = [row EXCEPT ![r] = "durable"]
                 \/ row' = [row EXCEPT ![r] = "rolledback"]
              /\ answer' = [answer EXCEPT ![r] = Refusal("error")]
              /\ UNCHANGED address
            BY <1>2, <2>5, <3>1 DEF CommitFails, IInv, TypeOK
        <3>3. CASE row' = [row EXCEPT ![r] = "durable"]
            BY <1>2, <3>1, <3>2, <3>3, Entering
        <3>4. CASE row' = [row EXCEPT ![r] = "rolledback"]
            <4>1. /\ row'[r] = "rolledback"
                  /\ \A q \in Registrations \ {r} : row'[q] = row[q] /\ answer'[q] = answer[q]
                  /\ answer'[r].status = "error"
                BY <1>2, <3>2, <3>4 DEF IInv, TypeOK, Requests, Refusal
            <4>2. Registry!Answer(r, "error")
                BY <1>2, <3>1, <3>2, <4>1, Answering DEF IInv, Refusals
            <4>3. r \notin Registry!Ever
                BY <3>1 DEF Registry!Ever
            <4>. QED
                BY <1>2, <4>2, <4>3 DEF Registry!Next
        <3>. QED
            BY <3>2, <3>3, <3>4
    <2>. QED
        BY <2>2, <2>3, <2>4, <2>5 DEF EndStep
<1>. QED
    BY <1>1, <1>2

\* The deletion of an account erases its entry.
LEMMA DeletionIsSeen ==
    ASSUME IInv, NEW u \in Registrations, DeleteUser(u)
    PROVE  Registry!Next
<1>1. /\ {q \in Registrations : row[q] = "durable"}'
              = {q \in Registrations : row[q] = "durable"} \ {u}
      /\ {q \in Registrations : row[q] = "erased"}'
              = {q \in Registrations : row[q] = "erased"} \cup {u}
      /\ row[u] = "durable" /\ UNCHANGED <<address, answer>>
    BY DEF DeleteUser, IInv, TypeOK
<1>2. Registry!Erase
    BY <1>1 DEF Registry!Erase
<1>. QED
    BY <1>2 DEF Registry!Next

\* If the commit precedes the response, Accounts implements Register: what a
\* client is told of its registration is true of the table of accounts.
THEOREM Refinement ==
    ASSUME CommitBeforeResponse
    PROVE  Spec => KeepsRegistry
<1>1. ASSUME IInv, [Next]_vars
      PROVE  [Registry!Next]_(Registry!registerVars)
    <2>1. ASSUME NEW r \in Registrations, RegisterStep(r) \/ DeleteUser(r)
          PROVE  [Registry!Next]_(Registry!registerVars)
        BY <1>1, <2>1, RegisterIsSeen, DeletionIsSeen
    <2>2. ASSUME NEW r \in Requests, EndStep(r) \/ CommitFails(r) \/ Fault(r)
          PROVE  [Registry!Next]_(Registry!registerVars)
        BY <1>1, <2>2, EndIsSeen
    <2>3. ASSUME NEW l \in Logins, LoginStep(l)
          PROVE  UNCHANGED Registry!registerVars
        <3>1. CASE BadCredentials(l)
            BY <1>1, <3>1, OtherRequests DEF BadCredentials, Refusals
        <3>2. CASE FindUser(l) \/ IssueToken(l)
            BY <3>2, Unseen DEF FindUser, IssueToken
        <3>. QED
            BY <2>3, <3>1, <3>2 DEF LoginStep
    <2>4. ASSUME NEW p \in Profiles, ProfileStep(p)
          PROVE  UNCHANGED Registry!registerVars
        <3>1. CASE BadToken(p) \/ UserGone(p)
            BY <1>1, <3>1, OtherRequests DEF BadToken, UserGone, Refusals
        <3>2. CASE Decode(p) \/ LoadUser(p)
            BY <3>2, Unseen DEF Decode, LoadUser
        <3>. QED
            BY <2>4, <3>1, <3>2 DEF ProfileStep
    <2>5. ASSUME \/ \E r \in Forms : SendForm(r)
                 \/ \E p \in Profiles, l \in Logins \cup {Nobody} : SendProfile(p, l)
                 \/ Tick
                 \/ UNCHANGED vars
          PROVE  UNCHANGED Registry!registerVars
        BY <2>5, Unseen DEF SendForm, SendProfile, Tick, vars
    <2>. QED
        BY <1>1, <2>1, <2>2, <2>3, <2>4, <2>5 DEF Next
<1>. QED
    BY <1>1, RegistryInit, Invariance, PTL DEF Spec, KeepsRegistry, Registry!Spec

=============================================================================
