------------------------- MODULE UpdateStatusProofs -------------------------
(***************************************************************************)
(* Proofs about UpdateStatus for every set of requests, users and events   *)
(* and both orders of the teardown.                                        *)
(***************************************************************************)
EXTENDS UpdateStatus, TLAPS

-----------------------------------------------------------------------------
\* The inductive invariant, in parts.

Decided(r) == pc[r] \in {"reload", "flush"}
Ending(r)  == pc[r] \in {"commit", "respond"}

\* The history of a status: nothing before birth, then every status it has.
History ==
    \A e \in Events :
        /\ status[e] = "unborn" => held[e] = {}
        /\ Exists(e) => status[e] \in held[e]

\* A request under way is by the owner and has decided by a status the event
\* really had.
Decisions ==
    \A r \in Requests :
        /\ IF pc[r] = "idle" THEN req[r] = NoAsk ELSE req[r] \in Asks
        /\ Decided(r) \/ Ending(r) => /\ owner[Ev(r)] = req[r].user
                                      /\ view[r] \in held[Ev(r)]
        /\ Decided(r) => IsPatch(r)
        /\ (Decided(r) \/ Ending(r)) /\ IsPatch(r) => CanTransition(view[r], req[r].to)
        /\ pc[r] = "flush" => base[r] \in held[Ev(r)]

\* A row lock is held from the UPDATE to the end of the transaction.
Locks ==
    \A e \in Events, r \in Requests :
        holder[e] = r => /\ Ev(r) = e
                         /\ IsPatch(r)
                         /\ IF CommitBeforeResponse THEN pc[r] = "commit" ELSE Ending(r)
                         /\ Exists(e)

\* What will be answered, or has been, is in the history once it is committed.
Outcome(r) ==
    /\ Ending(r) /\ IsPatch(r)
          => req[r].to \in held[Ev(r)] \/ holder[Ev(r)] = r
    /\ CommitBeforeResponse /\ pc[r] = "respond" /\ IsPatch(r)
          => req[r].to \in held[Ev(r)]
    /\ pc[r] \in Handler \cup {"idle", "respond"} => answer[r] = "none"
    /\ pc[r] = "commit" => \/ answer[r] = "none"
                           \/ answer[r] \in EventStatus /\ ~CommitBeforeResponse
    /\ answer[r] \in EventStatus \cup {"invalid_transition"}
          => owner[Ev(r)] = req[r].user

Outcomes == \A r \in Requests : Outcome(r)

IInv ==
    /\ TypeOK
    /\ History
    /\ Decisions
    /\ Locks
    /\ Outcomes
    /\ CommitBeforeResponse => AckedWasCommitted

-----------------------------------------------------------------------------
\* Every step preserves the types.
LEMMA TypeOKStep ==
    ASSUME TypeOK, Decisions, Locks, [Next]_vars
    PROVE  TypeOK'
<1>. USE DEF TypeOK, Asks, PCs, Handler, RowState, Exists, Ev, IsPatch,
            EventStatus, Decisions, Locks, Decided, Ending, Answers, Errors,
            CanTransition
<1>1. ASSUME NEW e \in Events, SosCommits(e) PROVE TypeOK'
    BY <1>1, ConstantsAssumption DEF SosCommits
<1>2. ASSUME NEW u \in Users, DeleteUser(u) PROVE TypeOK'
    BY <1>2, ConstantsAssumption DEF DeleteUser
<1>3. ASSUME NEW r \in Requests, NEW q \in Asks, Send(r, q) PROVE TypeOK'
    BY <1>3, ConstantsAssumption DEF Send, Goto
<1>4. ASSUME NEW r \in Requests, Authenticate(r) PROVE TypeOK'
    BY <1>4, ConstantsAssumption DEF Authenticate, Goto
<1>5. ASSUME NEW r \in Requests, Unauthorized(r) PROVE TypeOK'
    BY <1>5, ConstantsAssumption DEF Unauthorized, Abort, Goto, Released
<1>6. ASSUME NEW r \in Requests, NotFound(r) PROVE TypeOK'
    BY <1>6, ConstantsAssumption DEF NotFound, Abort, Goto, Released
<1>7. ASSUME NEW r \in Requests, Read(r) PROVE TypeOK'
    BY <1>7, ConstantsAssumption DEF Read, Hidden, Goto, AfterHandler
<1>8. ASSUME NEW r \in Requests, Validate(r) PROVE TypeOK'
    BY <1>8, ConstantsAssumption DEF Validate, Hidden, Goto
<1>9. ASSUME NEW r \in Requests, InvalidTransition(r) PROVE TypeOK'
    BY <1>9, ConstantsAssumption
    DEF InvalidTransition, Abort, Goto, Released, Hidden
<1>10. ASSUME NEW r \in Requests, Reload(r) PROVE TypeOK'
    BY <1>10, ConstantsAssumption DEF Reload, Goto
<1>11. ASSUME NEW r \in Requests, ReloadMissing(r) PROVE TypeOK'
    BY <1>11, ConstantsAssumption DEF ReloadMissing, Abort, Goto, Released
<1>12. ASSUME NEW r \in Requests, FlushNothing(r) PROVE TypeOK'
    BY <1>12, ConstantsAssumption DEF FlushNothing, Goto, AfterHandler
<1>13. ASSUME NEW r \in Requests, FlushUpdate(r) PROVE TypeOK'
    BY <1>13, ConstantsAssumption DEF FlushUpdate, Goto, AfterHandler
<1>14. ASSUME NEW r \in Requests, FlushMissing(r) PROVE TypeOK'
    BY <1>14, ConstantsAssumption DEF FlushMissing, Abort, Goto, Released
<1>15. ASSUME NEW r \in Requests, Commit(r) PROVE TypeOK'
    BY <1>15, ConstantsAssumption DEF Commit, Publish, Released, Goto
<1>16. ASSUME NEW r \in Requests, Respond(r) PROVE TypeOK'
    BY <1>16, ConstantsAssumption DEF Respond, Goto
<1>17. ASSUME NEW r \in Requests, CommitFails(r) PROVE TypeOK'
    BY <1>17, ConstantsAssumption DEF CommitFails, Publish, Released, Goto
<1>18. ASSUME NEW r \in Requests, Fault(r) PROVE TypeOK'
    BY <1>18, ConstantsAssumption DEF Fault, Abort, Goto, Released
<1>19. CASE UNCHANGED vars
    BY <1>19 DEF vars
<1>. QED
    BY <1>1, <1>2, <1>3, <1>4, <1>5, <1>6, <1>7, <1>8, <1>9, <1>10, <1>11,
       <1>12, <1>13, <1>14, <1>15, <1>16, <1>17, <1>18, <1>19
    DEF Next, Step

\* The history keeps up with the status.
LEMMA HistoryStep ==
    ASSUME TypeOK, History, Decisions, Locks, [Next]_vars
    PROVE  History'
<1>. USE DEF TypeOK, Asks, PCs, Handler, RowState, Exists, Ev, IsPatch,
            EventStatus, History, Decisions, Locks, Ending
<1>1. ASSUME NEW e \in Events, SosCommits(e) PROVE History'
    BY <1>1, ConstantsAssumption DEF SosCommits
<1>2. ASSUME NEW u \in Users, DeleteUser(u) PROVE History'
    BY <1>2, ConstantsAssumption DEF DeleteUser
<1>3. ASSUME NEW r \in Requests, NEW q \in Asks, Send(r, q) PROVE History'
    BY <1>3, ConstantsAssumption DEF Send, Goto
<1>4. ASSUME NEW r \in Requests, Authenticate(r) PROVE History'
    BY <1>4, ConstantsAssumption DEF Authenticate, Goto
<1>5. ASSUME NEW r \in Requests, Unauthorized(r) PROVE History'
    BY <1>5, ConstantsAssumption DEF Unauthorized, Abort, Goto, Released
<1>6. ASSUME NEW r \in Requests, NotFound(r) PROVE History'
    BY <1>6, ConstantsAssumption DEF NotFound, Abort, Goto, Released
<1>7. ASSUME NEW r \in Requests, Read(r) PROVE History'
    BY <1>7, ConstantsAssumption DEF Read, Hidden, Goto, AfterHandler
<1>8. ASSUME NEW r \in Requests, Validate(r) PROVE History'
    BY <1>8, ConstantsAssumption DEF Validate, Hidden, Goto
<1>9. ASSUME NEW r \in Requests, InvalidTransition(r) PROVE History'
    BY <1>9, ConstantsAssumption
    DEF InvalidTransition, Abort, Goto, Released, Hidden
<1>10. ASSUME NEW r \in Requests, Reload(r) PROVE History'
    BY <1>10, ConstantsAssumption DEF Reload, Goto
<1>11. ASSUME NEW r \in Requests, ReloadMissing(r) PROVE History'
    BY <1>11, ConstantsAssumption DEF ReloadMissing, Abort, Goto, Released
<1>12. ASSUME NEW r \in Requests, FlushNothing(r) PROVE History'
    BY <1>12, ConstantsAssumption DEF FlushNothing, Goto, AfterHandler
<1>13. ASSUME NEW r \in Requests, FlushUpdate(r) PROVE History'
    BY <1>13, ConstantsAssumption DEF FlushUpdate, Goto, AfterHandler
<1>14. ASSUME NEW r \in Requests, FlushMissing(r) PROVE History'
    BY <1>14, ConstantsAssumption DEF FlushMissing, Abort, Goto, Released
<1>15. ASSUME NEW r \in Requests, Commit(r) PROVE History'
    BY <1>15, ConstantsAssumption DEF Commit, Publish, Released, Goto
<1>16. ASSUME NEW r \in Requests, Respond(r) PROVE History'
    BY <1>16, ConstantsAssumption DEF Respond, Goto
<1>17. ASSUME NEW r \in Requests, CommitFails(r) PROVE History'
    BY <1>17, ConstantsAssumption DEF CommitFails, Publish, Released, Goto
<1>18. ASSUME NEW r \in Requests, Fault(r) PROVE History'
    BY <1>18, ConstantsAssumption DEF Fault, Abort, Goto, Released
<1>19. CASE UNCHANGED vars
    BY <1>19 DEF vars
<1>. QED
    BY <1>1, <1>2, <1>3, <1>4, <1>5, <1>6, <1>7, <1>8, <1>9, <1>10, <1>11,
       <1>12, <1>13, <1>14, <1>15, <1>16, <1>17, <1>18, <1>19
    DEF Next, Step

\* Every step keeps the row locks with the requests that took them.
LEMMA LockStep ==
    ASSUME TypeOK, Decisions, Locks, [Next]_vars
    PROVE  Locks'
<1>. USE DEF TypeOK, Asks, PCs, Handler, RowState, Exists, Ev, IsPatch,
            EventStatus, Decisions, Locks, Decided, Ending
<1>1. ASSUME NEW e \in Events, SosCommits(e) PROVE Locks'
    BY <1>1, ConstantsAssumption DEF SosCommits
<1>2. ASSUME NEW u \in Users, DeleteUser(u) PROVE Locks'
    BY <1>2, ConstantsAssumption DEF DeleteUser
<1>3. ASSUME NEW r \in Requests, NEW q \in Asks, Send(r, q) PROVE Locks'
    BY <1>3, ConstantsAssumption DEF Send, Goto
<1>4. ASSUME NEW r \in Requests, Authenticate(r) PROVE Locks'
    BY <1>4, ConstantsAssumption DEF Authenticate, Goto
<1>5. ASSUME NEW r \in Requests, Unauthorized(r) PROVE Locks'
    BY <1>5, ConstantsAssumption DEF Unauthorized, Abort, Goto, Released
<1>6. ASSUME NEW r \in Requests, NotFound(r) PROVE Locks'
    BY <1>6, ConstantsAssumption DEF NotFound, Abort, Goto, Released
<1>7. ASSUME NEW r \in Requests, Read(r) PROVE Locks'
    BY <1>7, ConstantsAssumption DEF Read, Hidden, Goto, AfterHandler
<1>8. ASSUME NEW r \in Requests, Validate(r) PROVE Locks'
    BY <1>8, ConstantsAssumption DEF Validate, Hidden, Goto
<1>9. ASSUME NEW r \in Requests, InvalidTransition(r) PROVE Locks'
    BY <1>9, ConstantsAssumption
    DEF InvalidTransition, Abort, Goto, Released, Hidden
<1>10. ASSUME NEW r \in Requests, Reload(r) PROVE Locks'
    BY <1>10, ConstantsAssumption DEF Reload, Goto
<1>11. ASSUME NEW r \in Requests, ReloadMissing(r) PROVE Locks'
    BY <1>11, ConstantsAssumption DEF ReloadMissing, Abort, Goto, Released
<1>12. ASSUME NEW r \in Requests, FlushNothing(r) PROVE Locks'
    BY <1>12, ConstantsAssumption DEF FlushNothing, Goto, AfterHandler
<1>13. ASSUME NEW r \in Requests, FlushUpdate(r) PROVE Locks'
    BY <1>13, ConstantsAssumption DEF FlushUpdate, Goto, AfterHandler
<1>14. ASSUME NEW r \in Requests, FlushMissing(r) PROVE Locks'
    BY <1>14, ConstantsAssumption DEF FlushMissing, Abort, Goto, Released
<1>15. ASSUME NEW r \in Requests, Commit(r) PROVE Locks'
    BY <1>15, ConstantsAssumption DEF Commit, Publish, Released, Goto
<1>16. ASSUME NEW r \in Requests, Respond(r) PROVE Locks'
    BY <1>16, ConstantsAssumption DEF Respond, Goto
<1>17. ASSUME NEW r \in Requests, CommitFails(r) PROVE Locks'
    BY <1>17, ConstantsAssumption DEF CommitFails, Publish, Released, Goto
<1>18. ASSUME NEW r \in Requests, Fault(r) PROVE Locks'
    BY <1>18, ConstantsAssumption DEF Fault, Abort, Goto, Released
<1>19. CASE UNCHANGED vars
    BY <1>19 DEF vars
<1>. QED
    BY <1>1, <1>2, <1>3, <1>4, <1>5, <1>6, <1>7, <1>8, <1>9, <1>10, <1>11,
       <1>12, <1>13, <1>14, <1>15, <1>16, <1>17, <1>18, <1>19
    DEF Next, Step

\* A decision stays a legal one on a status of the past.
LEMMA DecisionStep ==
    ASSUME TypeOK, History, Decisions, [Next]_vars
    PROVE  Decisions'
<1>. USE DEF TypeOK, Asks, PCs, Handler, RowState, Exists, Ev, IsPatch,
            EventStatus, Decisions, Decided, Ending, History, NoAsk
<1>1. ASSUME NEW e \in Events, SosCommits(e) PROVE Decisions'
    BY <1>1, ConstantsAssumption DEF SosCommits
<1>2. ASSUME NEW u \in Users, DeleteUser(u) PROVE Decisions'
    BY <1>2, ConstantsAssumption DEF DeleteUser
<1>3. ASSUME NEW r \in Requests, NEW q \in Asks, Send(r, q) PROVE Decisions'
    BY <1>3, ConstantsAssumption DEF Send, Goto
<1>4. ASSUME NEW r \in Requests, Authenticate(r) PROVE Decisions'
    BY <1>4, ConstantsAssumption DEF Authenticate, Goto
<1>5. ASSUME NEW r \in Requests, Unauthorized(r) PROVE Decisions'
    BY <1>5, ConstantsAssumption DEF Unauthorized, Abort, Goto, Released
<1>6. ASSUME NEW r \in Requests, NotFound(r) PROVE Decisions'
    BY <1>6, ConstantsAssumption DEF NotFound, Abort, Goto, Released
<1>7. ASSUME NEW r \in Requests, Read(r) PROVE Decisions'
    BY <1>7, ConstantsAssumption DEF Read, Hidden, Goto, AfterHandler
<1>8. ASSUME NEW r \in Requests, Validate(r) PROVE Decisions'
    BY <1>8, ConstantsAssumption DEF Validate, Hidden, Goto
<1>9. ASSUME NEW r \in Requests, InvalidTransition(r) PROVE Decisions'
    BY <1>9, ConstantsAssumption
    DEF InvalidTransition, Abort, Goto, Released, Hidden
<1>10. ASSUME NEW r \in Requests, Reload(r) PROVE Decisions'
    BY <1>10, ConstantsAssumption DEF Reload, Goto
<1>11. ASSUME NEW r \in Requests, ReloadMissing(r) PROVE Decisions'
    BY <1>11, ConstantsAssumption DEF ReloadMissing, Abort, Goto, Released
<1>12. ASSUME NEW r \in Requests, FlushNothing(r) PROVE Decisions'
    BY <1>12, ConstantsAssumption DEF FlushNothing, Goto, AfterHandler
<1>13. ASSUME NEW r \in Requests, FlushUpdate(r) PROVE Decisions'
    BY <1>13, ConstantsAssumption DEF FlushUpdate, Goto, AfterHandler
<1>14. ASSUME NEW r \in Requests, FlushMissing(r) PROVE Decisions'
    BY <1>14, ConstantsAssumption DEF FlushMissing, Abort, Goto, Released
<1>15. ASSUME NEW r \in Requests, Commit(r) PROVE Decisions'
    BY <1>15, ConstantsAssumption DEF Commit, Publish, Released, Goto
<1>16. ASSUME NEW r \in Requests, Respond(r) PROVE Decisions'
    BY <1>16, ConstantsAssumption DEF Respond, Goto
<1>17. ASSUME NEW r \in Requests, CommitFails(r) PROVE Decisions'
    BY <1>17, ConstantsAssumption DEF CommitFails, Publish, Released, Goto
<1>18. ASSUME NEW r \in Requests, Fault(r) PROVE Decisions'
    BY <1>18, ConstantsAssumption DEF Fault, Abort, Goto, Released
<1>19. CASE UNCHANGED vars
    BY <1>19 DEF vars
<1>. QED
    BY <1>1, <1>2, <1>3, <1>4, <1>5, <1>6, <1>7, <1>8, <1>9, <1>10, <1>11,
       <1>12, <1>13, <1>14, <1>15, <1>16, <1>17, <1>18, <1>19
    DEF Next, Step

\* No outcome is answered that is not committed or about to be.
LEMMA OutcomeStep ==
    ASSUME TypeOK, History, Decisions, Locks, Outcomes, [Next]_vars
    PROVE  Outcomes'
<1>. USE DEF TypeOK, Asks, PCs, Handler, RowState, Exists, Ev, IsPatch,
            EventStatus, Decisions, Locks, Outcomes, Outcome, History, Decided,
            Ending, Answers, Errors
<1>1. ASSUME NEW e \in Events, SosCommits(e) PROVE Outcomes'
    BY <1>1, ConstantsAssumption DEF SosCommits
<1>2. ASSUME NEW u \in Users, DeleteUser(u) PROVE Outcomes'
    BY <1>2, ConstantsAssumption DEF DeleteUser
<1>3. ASSUME NEW r \in Requests, NEW q \in Asks, Send(r, q) PROVE Outcomes'
    BY <1>3, ConstantsAssumption DEF Send, Goto
<1>4. ASSUME NEW r \in Requests, Authenticate(r) PROVE Outcomes'
    BY <1>4, ConstantsAssumption DEF Authenticate, Goto
<1>5. ASSUME NEW r \in Requests, Unauthorized(r) PROVE Outcomes'
    BY <1>5, ConstantsAssumption DEF Unauthorized, Abort, Goto, Released
<1>6. ASSUME NEW r \in Requests, NotFound(r) PROVE Outcomes'
    BY <1>6, ConstantsAssumption DEF NotFound, Abort, Goto, Released
<1>7. ASSUME NEW r \in Requests, Read(r) PROVE Outcomes'
    BY <1>7, ConstantsAssumption DEF Read, Hidden, Goto, AfterHandler
<1>8. ASSUME NEW r \in Requests, Validate(r) PROVE Outcomes'
    BY <1>8, ConstantsAssumption DEF Validate, Hidden, Goto
<1>9. ASSUME NEW r \in Requests, InvalidTransition(r) PROVE Outcomes'
    BY <1>9, ConstantsAssumption
    DEF InvalidTransition, Abort, Goto, Released, Hidden
<1>10. ASSUME NEW r \in Requests, Reload(r) PROVE Outcomes'
    BY <1>10, ConstantsAssumption DEF Reload, Goto
<1>11. ASSUME NEW r \in Requests, ReloadMissing(r) PROVE Outcomes'
    BY <1>11, ConstantsAssumption DEF ReloadMissing, Abort, Goto, Released
<1>12. ASSUME NEW r \in Requests, FlushNothing(r) PROVE Outcomes'
    BY <1>12, ConstantsAssumption DEF FlushNothing, Goto, AfterHandler
<1>13. ASSUME NEW r \in Requests, FlushUpdate(r) PROVE Outcomes'
    BY <1>13, ConstantsAssumption DEF FlushUpdate, Goto, AfterHandler
<1>14. ASSUME NEW r \in Requests, FlushMissing(r) PROVE Outcomes'
    BY <1>14, ConstantsAssumption DEF FlushMissing, Abort, Goto, Released
<1>15. ASSUME NEW r \in Requests, Commit(r) PROVE Outcomes'
    <2>. USE <1>15 DEF Commit, Publish, Released, Goto
    <2>1. ASSUME NEW e \in Events PROVE held[e] \subseteq held'[e]
        OBVIOUS
    <2>2. ASSUME NEW q \in Requests, q # r PROVE Outcome(q)'
        <3>1. pc'[q] = pc[q] /\ answer' = answer /\ req' = req /\ owner' = owner
            BY <2>2
        <3>2. \A e \in Events : holder[e] = q => holder'[e] = q
            BY <2>2
        <3>3. Outcome(q)
            OBVIOUS
        <3>4. pc[q] # "idle" => Ev(q) \in Events
            OBVIOUS
        <3>. QED
            BY <2>1, <3>1, <3>2, <3>3, <3>4
    <2>3. Outcome(r)'
        OBVIOUS
    <2>. QED
        BY <2>2, <2>3
<1>16. ASSUME NEW r \in Requests, Respond(r) PROVE Outcomes'
    BY <1>16, ConstantsAssumption DEF Respond, Goto
<1>17. ASSUME NEW r \in Requests, CommitFails(r) PROVE Outcomes'
    BY <1>17, ConstantsAssumption DEF CommitFails, Publish, Released, Goto
<1>18. ASSUME NEW r \in Requests, Fault(r) PROVE Outcomes'
    BY <1>18, ConstantsAssumption DEF Fault, Abort, Goto, Released
<1>19. CASE UNCHANGED vars
    BY <1>19 DEF vars
<1>. QED
    BY <1>1, <1>2, <1>3, <1>4, <1>5, <1>6, <1>7, <1>8, <1>9, <1>10, <1>11,
       <1>12, <1>13, <1>14, <1>15, <1>16, <1>17, <1>18, <1>19
    DEF Next, Step

\* An answered status stays in the history.
LEMMA AckStep ==
    ASSUME TypeOK, History, Decisions, Locks, Outcomes, AckedWasCommitted,
           CommitBeforeResponse, [Next]_vars
    PROVE  AckedWasCommitted'
<1>. USE DEF TypeOK, Asks, PCs, Handler, RowState, Exists, Ev, IsPatch,
            EventStatus, Decisions, Outcomes, Outcome, History, Ending, Answers,
            Errors, EventStatus, AckedWasCommitted
<1>1. ASSUME NEW e \in Events, SosCommits(e) PROVE AckedWasCommitted'
    BY <1>1, ConstantsAssumption DEF SosCommits
<1>2. ASSUME NEW u \in Users, DeleteUser(u) PROVE AckedWasCommitted'
    BY <1>2, ConstantsAssumption DEF DeleteUser
<1>3. ASSUME NEW r \in Requests, NEW q \in Asks, Send(r, q) PROVE
      AckedWasCommitted'
    BY <1>3, ConstantsAssumption DEF Send, Goto
<1>4. ASSUME NEW r \in Requests, Authenticate(r) PROVE AckedWasCommitted'
    BY <1>4, ConstantsAssumption DEF Authenticate, Goto
<1>5. ASSUME NEW r \in Requests, Unauthorized(r) PROVE AckedWasCommitted'
    BY <1>5, ConstantsAssumption DEF Unauthorized, Abort, Goto, Released
<1>6. ASSUME NEW r \in Requests, NotFound(r) PROVE AckedWasCommitted'
    BY <1>6, ConstantsAssumption DEF NotFound, Abort, Goto, Released
<1>7. ASSUME NEW r \in Requests, Read(r) PROVE AckedWasCommitted'
    BY <1>7, ConstantsAssumption DEF Read, Hidden, Goto, AfterHandler
<1>8. ASSUME NEW r \in Requests, Validate(r) PROVE AckedWasCommitted'
    BY <1>8, ConstantsAssumption DEF Validate, Hidden, Goto
<1>9. ASSUME NEW r \in Requests, InvalidTransition(r) PROVE AckedWasCommitted'
    BY <1>9, ConstantsAssumption
    DEF InvalidTransition, Abort, Goto, Released, Hidden
<1>10. ASSUME NEW r \in Requests, Reload(r) PROVE AckedWasCommitted'
    BY <1>10, ConstantsAssumption DEF Reload, Goto
<1>11. ASSUME NEW r \in Requests, ReloadMissing(r) PROVE AckedWasCommitted'
    BY <1>11, ConstantsAssumption DEF ReloadMissing, Abort, Goto, Released
<1>12. ASSUME NEW r \in Requests, FlushNothing(r) PROVE AckedWasCommitted'
    BY <1>12, ConstantsAssumption DEF FlushNothing, Goto, AfterHandler
<1>13. ASSUME NEW r \in Requests, FlushUpdate(r) PROVE AckedWasCommitted'
    BY <1>13, ConstantsAssumption DEF FlushUpdate, Goto, AfterHandler
<1>14. ASSUME NEW r \in Requests, FlushMissing(r) PROVE AckedWasCommitted'
    BY <1>14, ConstantsAssumption DEF FlushMissing, Abort, Goto, Released
<1>15. ASSUME NEW r \in Requests, Commit(r) PROVE AckedWasCommitted'
    BY <1>15, ConstantsAssumption DEF Commit, Publish, Released, Goto
<1>16. ASSUME NEW r \in Requests, Respond(r) PROVE AckedWasCommitted'
    BY <1>16, ConstantsAssumption DEF Respond, Goto
<1>17. ASSUME NEW r \in Requests, CommitFails(r) PROVE AckedWasCommitted'
    BY <1>17, ConstantsAssumption DEF CommitFails, Publish, Released, Goto
<1>18. ASSUME NEW r \in Requests, Fault(r) PROVE AckedWasCommitted'
    BY <1>18, ConstantsAssumption DEF Fault, Abort, Goto, Released
<1>19. CASE UNCHANGED vars
    BY <1>19 DEF vars
<1>. QED
    BY <1>1, <1>2, <1>3, <1>4, <1>5, <1>6, <1>7, <1>8, <1>9, <1>10, <1>11,
       <1>12, <1>13, <1>14, <1>15, <1>16, <1>17, <1>18, <1>19
    DEF Next, Step

-----------------------------------------------------------------------------
LEMMA IInvInit == Init => IInv
<1>. SUFFICES ASSUME Init PROVE IInv
    OBVIOUS
<1>1. TypeOK
    BY DEF Init, TypeOK, PCs, RowState, Answers
<1>2. History /\ Locks
    BY ConstantsAssumption DEF Init, History, Locks, Exists, EventStatus
<1>3. Decisions /\ Outcomes
    BY DEF Init, Decisions, Outcomes, Outcome, Decided, Ending, EventStatus
<1>4. AckedWasCommitted
    BY DEF Init, AckedWasCommitted, EventStatus
<1>. QED
    BY <1>1, <1>2, <1>3, <1>4 DEF IInv

LEMMA IInvStep == IInv /\ [Next]_vars => IInv'
BY TypeOKStep, HistoryStep, LockStep, DecisionStep, OutcomeStep, AckStep
   DEF IInv

\* The inductive invariant holds in every reachable state.
THEOREM Invariance == Spec => []IInv
BY IInvInit, IInvStep, PTL DEF Spec

-----------------------------------------------------------------------------
\* Every variable keeps its type.
THEOREM TypeCorrect == Spec => []TypeOK
<1>1. IInv => TypeOK
    BY DEF IInv
<1>. QED
    BY <1>1, Invariance, PTL

\* Nobody but the owner writes an event or is told that it exists.
THEOREM Ownership == Spec => []OwnerOnly
<1>1. IInv => OwnerOnly
    BY DEF IInv, TypeOK, OwnerOnly, Locks, Decisions, Outcomes, Outcome,
       Ending, Ev
<1>. QED
    BY <1>1, Invariance, PTL

\* If the commit precedes the response, no status is answered that the event
\* did not have.
THEOREM Honesty ==
    ASSUME CommitBeforeResponse
    PROVE  Spec => []AckedWasCommitted
<1>1. IInv => AckedWasCommitted
    BY DEF IInv
<1>. QED
    BY <1>1, Invariance, PTL

\* Only an overlap can make a PATCH break the lifecycle.
THEOREM Legality == Spec => []LegalUnlessOverlapped
<1>1. IInv => LegalUnlessOverlapped
    BY DEF IInv, LegalUnlessOverlapped, Locks, Decisions, Ending, Ev
<1>. QED
    BY <1>1, Invariance, PTL

\* No transition of the lifecycle leads to "active".
LEMMA NothingBecomesActive ==
    ASSUME NEW s \in EventStatus
    PROVE  ~CanTransition(s, "active")
BY DEF CanTransition, AllowedTransitions, EventStatus

\* However updates overlap, no event is ever active again.
THEOREM NoReactivation == Spec => NeverReactivated
<1>. DEFINE Kept(e) == Exists(e) /\ status[e] # "active" => status'[e] # "active"
<1>1. ASSUME IInv, [Next]_vars, NEW e \in Events
      PROVE  Kept(e)
    <2>1. ASSUME NEW r \in Requests, holder[e] = r
          PROVE  req[r].to # "active"
        BY <1>1, <2>1, NothingBecomesActive
        DEF IInv, TypeOK, Locks, Decisions, Decided, Ending, History, Asks, Ev,
            IsPatch
    <2>2. ASSUME NEW r \in Requests, Publish(r)
          PROVE  Kept(e)
        BY <1>1, <2>1, <2>2 DEF Publish, IInv, TypeOK
    <2>3. ASSUME NEW f \in Events, SosCommits(f)
          PROVE  Kept(e)
        BY <1>1, <2>3 DEF SosCommits, Exists, EventStatus, IInv, TypeOK
    <2>4. ASSUME NEW u \in Users, DeleteUser(u)
          PROVE  Kept(e)
        BY <1>1, <2>4 DEF DeleteUser, IInv, TypeOK
    <2>5. CASE status' = status
        BY <2>5
    <2>. QED
        BY <1>1, <2>2, <2>3, <2>4, <2>5
        DEF Next, Step, vars, Send, Authenticate, Unauthorized, NotFound, Read,
            Validate, InvalidTransition, Reload, ReloadMissing, FlushNothing,
            FlushUpdate, FlushMissing, Commit, Respond, CommitFails, Fault, Abort
<1>2. IInv /\ [Next]_vars => [\A e \in Events : Kept(e)]_vars
    BY <1>1
<1>. QED
    BY <1>2, Invariance, PTL DEF Spec, NeverReactivated

-----------------------------------------------------------------------------
\* UpdateStatus implements StatusRegister.  A request is decided, there, by the
\* step that ends its transaction: COMMIT, or the exception that rolls it back.

Settled == {r \in Requests : pc[r] \in {"respond", "done"}}

LEMMA RegisterInit == Init => Register!Init
BY DEF Init, Register!Init

\* A step of a request below the end of its transaction is not seen.
LEMMA OthersUnseen ==
    ASSUME TypeOK, NEW r \in Requests, NEW l \in Handler \cup {"commit"}, Goto(r, l),
           pc[r] \notin {"respond", "done"},
           UNCHANGED <<users, owner, status, held, req, answer>>
    PROVE  UNCHANGED Register!registerVars
<1>1. \A q \in Requests :
         pc'[q] \in {"respond", "done"} <=> pc[q] \in {"respond", "done"}
    BY DEF TypeOK, Goto, Handler
<1>2. Settled' = Settled
    BY <1>1 DEF Settled
<1>. QED
    BY <1>2 DEF Register!registerVars, Settled

\* The end of the transaction settles its request and no other.
LEMMA Settling ==
    ASSUME IInv, NEW r \in Requests, NEW l \in {"respond", "done"}, Goto(r, l),
           pc[r] \notin {"idle", "respond", "done"},
           UNCHANGED <<users, owner, req>>
    PROVE  Register!Decide(r)
<1>1. Settled' = Settled \cup {r}
    BY DEF Settled, Goto, IInv, TypeOK
<1>2. r \notin Settled /\ req[r] \in Asks
    BY DEF Settled, IInv, Decisions
<1>. QED
    BY <1>1, <1>2 DEF Register!Decide, Register!Open, Settled

\* An event appears and a user goes as in the register.
LEMMA TableIsSeen ==
    ASSUME \/ \E e \in Events : SosCommits(e)
           \/ \E u \in Users : DeleteUser(u)
    PROVE  Register!Next
<1>1. ASSUME NEW e \in Events, SosCommits(e)
      PROVE  Register!Appear(e)
    BY <1>1 DEF SosCommits, Register!Appear
<1>2. ASSUME NEW u \in Users, DeleteUser(u)
      PROVE  Register!Remove(u)
    BY <1>2 DEF DeleteUser, Register!Remove, Register!Is, Exists
<1>. QED
    BY <1>1, <1>2 DEF Register!Next

\* A request is asked once.
LEMMA SendIsSeen ==
    ASSUME IInv, NEW r \in Requests, NEW q \in Asks, Send(r, q)
    PROVE  Register!Next
<1>1. Settled' = Settled
    BY DEF Settled, Send, Goto, IInv, TypeOK
<1>2. req[r] = NoAsk
    BY DEF Send, IInv, Decisions
<1>3. Register!Ask(r, q)
    BY <1>1, <1>2 DEF Register!Ask, Send, Settled
<1>. QED
    BY <1>3 DEF Register!Next

\* A refusal is true when the request is rolled back.
LEMMA RefusalIsSeen ==
    ASSUME IInv, NEW r \in Requests,
           \/ Unauthorized(r)  \/ NotFound(r)  \/ InvalidTransition(r)
           \/ ReloadMissing(r) \/ FlushMissing(r) \/ Fault(r)
    PROVE  Register!Next
<1>1. pc[r] \in Handler
    BY DEF Unauthorized, NotFound, InvalidTransition, ReloadMissing, FlushMissing,
           Fault, Handler
<1>2. ASSUME NEW e \in Errors, Abort(r, e),
             e = "unauthorized" => req[r].user \notin users,
             e = "not_found" => Hidden(r),
             e = "invalid_transition" =>
                ~Hidden(r) /\ ~CanTransition(status[Ev(r)], req[r].to)
      PROVE  Register!Next
    <2>1. Register!Decide(r)
        BY <1>1, <1>2, Settling DEF Abort, Handler
    <2>2. Ev(r) \in Events
        BY <1>1 DEF IInv, Decisions, Handler, Asks, Ev
    <2>3. Register!Refuse(r, e)
        BY <1>2, <2>1, <2>2
        DEF Register!Refuse, Register!Is, Register!Mine, Register!Ev, Abort, Hidden,
            Exists, Ev, Errors
    <2>. QED
        BY <2>3 DEF Register!Next, Errors
<1>. QED
    BY <1>2 DEF Unauthorized, NotFound, InvalidTransition, ReloadMissing,
                FlushMissing, Fault, Errors

\* COMMIT publishes the row the request holds, or has nothing to publish: in
\* the register a write that some status of the event allows, or none.
LEMMA PublicationIsSeen ==
    ASSUME IInv, CommitBeforeResponse, NEW r \in Requests, pc[r] = "commit",
           Register!Decide(r), Publish(r) \/ UNCHANGED <<status, held>>,
           UNCHANGED answer \/ answer' = [answer EXCEPT ![r] = "error"],
           Publish(r) \/ answer' = [answer EXCEPT ![r] = "error"]
    PROVE  Register!Next
<1>1. /\ req[r] \in Asks
      /\ Ev(r) \in Events
      /\ owner[Ev(r)] = req[r].user
    BY DEF IInv, Decisions, Ending, Asks, Ev
<1>2. ASSUME Holds(r), Publish(r)
      PROVE  Register!Write(r)
    <2>1. /\ holder[Ev(r)] = r
          /\ \A e \in Events : holder[e] = r => e = Ev(r)
          /\ IsPatch(r)
          /\ Exists(Ev(r))
        BY <1>2 DEF Holds, IInv, Locks
    <2>2. view[r] \in held[Ev(r)] /\ CanTransition(view[r], req[r].to)
        BY <2>1 DEF IInv, Decisions, Ending
    <2>3. /\ status' = [status EXCEPT ![Ev(r)] = req[r].to]
          /\ held' = [held EXCEPT ![Ev(r)] = @ \cup {req[r].to}]
        <3>1. /\ status \in [Events -> RowState]
              /\ held \in [Events -> SUBSET EventStatus]
            BY DEF IInv, TypeOK
        <3>2. \A e \in Events : holder[e] = r <=> e = Ev(r)
            BY <2>1
        <3>3. status' = [e \in Events |-> IF e = Ev(r) THEN req[r].to ELSE status[e]]
            BY <1>2, <3>2 DEF Publish
        <3>4. held' = [e \in Events |-> held[e] \cup (IF e = Ev(r) THEN {req[r].to} ELSE {})]
            BY <1>2, <3>2 DEF Publish
        <3>5. held' = [held EXCEPT ![Ev(r)] = @ \cup {req[r].to}]
            BY <3>1, <3>4
        <3>. QED
            BY <3>1, <3>3, <3>5
    <2>. QED
        BY <1>1, <2>1, <2>2, <2>3
        DEF Register!Write, Register!Mine, Register!Is, Register!Ev, Exists, Ev
<1>3. ASSUME ~Holds(r), Publish(r)
      PROVE  UNCHANGED <<status, held>>
    BY <1>3 DEF Holds, Publish, IInv, TypeOK
<1>4. ASSUME UNCHANGED <<status, held>>
      PROVE  Register!WriteNothing(r) \/ Register!Refuse(r, "error")
    BY <1>4 DEF Register!WriteNothing, Register!Refuse
<1>. QED
    BY <1>2, <1>3, <1>4 DEF Register!Next

\* The commit, whether it succeeds or raises.
LEMMA CommitIsSeen ==
    ASSUME IInv, CommitBeforeResponse, NEW r \in Requests, Commit(r) \/ CommitFails(r)
    PROVE  Register!Next
<1>1. Register!Decide(r)
    BY Settling DEF Commit, CommitFails
<1>. QED
    BY <1>1, PublicationIsSeen DEF Commit, CommitFails

\* The response sends a status that the event has had.
LEMMA ResponseIsSeen ==
    ASSUME IInv, CommitBeforeResponse, NEW r \in Requests, Respond(r)
    PROVE  Register!Next
<1>. DEFINE s == IF IsPatch(r) THEN req[r].to ELSE view[r]
<1>1. /\ pc[r] = "respond"
      /\ req[r] \in Asks
      /\ Ev(r) \in Events
      /\ owner[Ev(r)] = req[r].user
      /\ view[r] \in held[Ev(r)]
      /\ answer[r] = "none"
      /\ IsPatch(r) => req[r].to \in held[Ev(r)]
    BY DEF Respond, IInv, Decisions, Outcomes, Outcome, Ending, Asks, Ev
<1>2. s \in held[Ev(r)] /\ s \in EventStatus
    BY <1>1 DEF IInv, TypeOK
<1>3. r \in Settled /\ Settled' = Settled
    BY <1>1 DEF Settled, Respond, Goto, IInv, TypeOK
<1>4. Register!Grant(r, s)
    BY <1>1, <1>2, <1>3
    DEF Register!Grant, Register!Mine, Register!Ev, Respond, Settled, IsPatch, Ev
<1>. QED
    BY <1>2, <1>4 DEF Register!Next

\* If the commit precedes the response, GET and PATCH implement StatusRegister:
\* overlapping requests look like requests decided one after the other.
THEOREM Refinement ==
    ASSUME CommitBeforeResponse
    PROVE  Spec => KeepsRegister
<1>1. ASSUME IInv, [Next]_vars
      PROVE  [Register!Next]_(Register!registerVars)
    <2>1. CASE \/ \E e \in Events : SosCommits(e)
               \/ \E u \in Users : DeleteUser(u)
        BY <2>1, TableIsSeen
    <2>2. ASSUME NEW r \in Requests, NEW q \in Asks, Send(r, q)
          PROVE  Register!Next
        BY <1>1, <2>2, SendIsSeen
    <2>3. ASSUME NEW r \in Requests,
                 \/ Authenticate(r) \/ Read(r) \/ Validate(r) \/ Reload(r)
                 \/ FlushNothing(r) \/ FlushUpdate(r)
          PROVE  UNCHANGED Register!registerVars
        <3>1. PICK l \in Handler \cup {"commit"} : Goto(r, l)
            BY <2>3 DEF Authenticate, Read, Validate, Reload, FlushNothing, FlushUpdate,
                        AfterHandler, Handler
        <3>2. /\ pc[r] \notin {"respond", "done"}
              /\ UNCHANGED <<users, owner, status, held, req, answer>>
            BY <2>3 DEF Authenticate, Read, Validate, Reload, FlushNothing, FlushUpdate
        <3>. QED
            BY <1>1, <3>1, <3>2, OthersUnseen DEF IInv
    <2>4. ASSUME NEW r \in Requests,
                 \/ Unauthorized(r)  \/ NotFound(r)  \/ InvalidTransition(r)
                 \/ ReloadMissing(r) \/ FlushMissing(r) \/ Fault(r)
          PROVE  Register!Next
        BY <1>1, <2>4, RefusalIsSeen
    <2>5. ASSUME NEW r \in Requests, Commit(r) \/ CommitFails(r) \/ Respond(r)
          PROVE  Register!Next
        BY <1>1, <2>5, CommitIsSeen, ResponseIsSeen
    <2>6. CASE UNCHANGED vars
        BY <2>6 DEF vars, Register!registerVars
    <2>. QED
        BY <1>1, <2>1, <2>2, <2>3, <2>4, <2>5, <2>6 DEF Next, Step
<1>. QED
    BY <1>1, RegisterInit, Invariance, PTL DEF Spec, KeepsRegister, Register!Spec

-----------------------------------------------------------------------------
\* The row of e changes from a terminal status in no other way than by the
\* commit of a PATCH that was decided by an earlier, open status.
ReopenedOnlyByOverlap ==
    [][\A e \in Events :
          status[e] \in Terminal /\ status'[e] \notin {status[e], "erased"}
              => \E r \in Requests :
                    /\ holder[e] = r
                    /\ pc[r] = "commit" /\ pc'[r] # "commit"
                    /\ view[r] \in held[e] \ Terminal]_vars

\* No transition of the lifecycle leaves a terminal status.
LEMMA NothingLeavesTerminal ==
    ASSUME NEW s \in EventStatus, NEW t \in EventStatus, CanTransition(s, t)
    PROVE  s \notin Terminal
BY DEF CanTransition, Terminal

\* TerminalIsFinal does not hold of the code; this is all that can break it: an
\* overlap of two PATCH requests, each of them legal when it was decided.
THEOREM ReopeningNeedsOverlap == Spec => ReopenedOnlyByOverlap
<1>. DEFINE Overwrites(e, r) == /\ holder[e] = r
                                /\ pc[r] = "commit" /\ pc'[r] # "commit"
                                /\ view[r] \in held[e] \ Terminal
            Fine(e) == status[e] \in Terminal /\ status'[e] \notin {status[e], "erased"}
                           => \E r \in Requests : Overwrites(e, r)
<1>1. ASSUME IInv, [Next]_vars, NEW e \in Events
      PROVE  Fine(e)
    <2>1. ASSUME NEW r \in Requests, Commit(r) \/ CommitFails(r)
          PROVE  Fine(e)
        <3>. SUFFICES ASSUME status[e] \in Terminal, status'[e] # status[e]
                      PROVE  Overwrites(e, r)
            OBVIOUS
        <3>1. pc[r] = "commit" /\ pc'[r] # "commit"
            BY <1>1, <2>1 DEF Commit, CommitFails, Goto, IInv, TypeOK
        <3>2. holder[e] = r /\ status'[e] = req[r].to
            BY <1>1, <2>1 DEF Commit, CommitFails, Publish, IInv, TypeOK
        <3>3. /\ view[r] \in held[e]
              /\ CanTransition(view[r], req[r].to)
              /\ view[r] \in EventStatus
              /\ req[r].to \in EventStatus
            BY <1>1, <3>1, <3>2
            DEF IInv, Locks, Decisions, Ending, TypeOK, Asks, Ev, IsPatch
        <3>4. view[r] \notin Terminal
            BY <3>2, <3>3, NothingLeavesTerminal
        <3>. QED
            BY <3>1, <3>2, <3>3, <3>4
    <2>2. ASSUME NEW f \in Events, SosCommits(f)
          PROVE  Fine(e)
        BY <1>1, <2>2 DEF SosCommits, Terminal, EventStatus, IInv, TypeOK
    <2>3. ASSUME NEW u \in Users, DeleteUser(u)
          PROVE  Fine(e)
        BY <1>1, <2>3 DEF DeleteUser, IInv, TypeOK
    <2>4. CASE status' = status
        BY <2>4
    <2>. QED
        BY <1>1, <2>1, <2>2, <2>3, <2>4
        DEF Next, Step, vars, Send, Authenticate, Unauthorized, NotFound, Read,
            Validate, InvalidTransition, Reload, ReloadMissing, FlushNothing,
            FlushUpdate, FlushMissing, Respond, Fault, Abort
<1>2. IInv /\ [Next]_vars => [\A e \in Events : Fine(e)]_vars
    BY <1>1
<1>. QED
    BY <1>2, Invariance, PTL DEF Spec, ReopenedOnlyByOverlap

\* r waits for the lock of its row.
Waits(r) == pc[r] = "flush" /\ base[r] # req[r].to /\ holder[Ev(r)] # NoOne

\* Whoever it waits for has left its handler, and waits for nobody.
BlockersRun == \A r \in Requests : Waits(r) => Ending(holder[Ev(r)])

\* Overlapping updates never wait for each other in a ring
\* (event_repository.py:67-78).
THEOREM NoRingOfUpdates == Spec => []BlockersRun
<1>1. IInv => BlockersRun
    BY DEF IInv, TypeOK, Locks, Decisions, BlockersRun, Waits, Ending, Asks, Ev
<1>. QED
    BY <1>1, Invariance, PTL

=============================================================================
