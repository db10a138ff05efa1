------------------------ MODULE BackendStatusProofs -------------------------
(***************************************************************************)
(* What the pools and the status line guarantee for any number of          *)
(* requests, threads, connections and outages.                             *)
(***************************************************************************)
EXTENDS BackendStatus, FiniteSetTheorems, TLAPS

-----------------------------------------------------------------------------
\* A readiness probe has no session, and is answered "ok" by ping only.
Probe(e) ==
    /\ stage[e] \in {"idle", "queued", "asking", "querying", "done"}
    /\ answer[e] = "ok" => e \in up

PoolInv ==
    /\ PoolTypeOK
    /\ NothingLeaks
    /\ \A e \in Ready : Probe(e)

\* Only the last effect of a mounted instance may set its state, and once it
\* is settled the state is its own.
PageInv ==
    /\ TypeOK
    /\ instance \cap active \subseteq (IF mounted THEN {latest} ELSE {})
    /\ mounted /\ kind # "loading" => by = latest /\ latest \notin pending
    /\ OkWasTrue

IInv == PoolInv /\ PageInv

-----------------------------------------------------------------------------
\* What a request takes, there was.
LEMMA Taking ==
    ASSUME NEW S, NEW r, NEW N \in Nat, IsFiniteSet(S), Cardinality(S) < N
    PROVE  Cardinality(S \cup {r}) <= N
<1>1. Cardinality(S) \in Nat
  BY FS_CardinalityType
<1>2. Cardinality(S \cup {r}) = Cardinality(S) \/ Cardinality(S \cup {r}) = Cardinality(S) + 1
  BY FS_AddElement
<1> QED
  BY <1>1, <1>2

\* What it gives back, leaves no more.
LEMMA Giving ==
    ASSUME NEW S, NEW r, NEW N \in Nat, IsFiniteSet(S), Cardinality(S) <= N
    PROVE  Cardinality(S \ {r}) <= N
<1>1. IsFiniteSet(S \ {r}) /\ Cardinality(S \ {r}) <= Cardinality(S)
  BY FS_Subset
<1>2. Cardinality(S) \in Nat /\ Cardinality(S \ {r}) \in Nat
  BY <1>1, FS_CardinalityType
<1> QED
  BY <1>1, <1>2

\* The threads and connections in use are finitely many.
LEMMA Finite == ASSUME PoolTypeOK PROVE IsFiniteSet(threads) /\ IsFiniteSet(conns)
<1> QED
  BY ConstantsAssumption, FS_Subset DEF PoolTypeOK


\* A request arrives.
LEMMA ArrivesKeeps ==
    ASSUME PoolInv, NEW r \in Requests, Arrive(r)
    PROVE  PoolInv'
<1> USE DEF Goto, pool, database, Stages, Answers
<1>1. PoolTypeOK'
  BY ConstantsAssumption DEF PoolInv, PoolTypeOK, Arrive
<1>2. threads' = {s \in Requests : stage'[s] \in InThread}
  BY DEF PoolInv, PoolTypeOK, NothingLeaks, InThread, Arrive
<1>3. conns' = {s \in Requests : stage'[s] \in Connected}
  BY DEF PoolInv, PoolTypeOK, NothingLeaks, Connected, Arrive
<1>4. Cardinality(threads') <= Threads
  BY DEF PoolInv, NothingLeaks, Arrive
<1>5. Cardinality(conns') <= Conns
  BY DEF PoolInv, NothingLeaks, Arrive
<1>6. ASSUME NEW e \in Ready PROVE Probe(e)'
  BY ConstantsAssumption DEF PoolInv, PoolTypeOK, Probe, Requests, Arrive
<1> QED
  BY <1>1, <1>2, <1>3, <1>4, <1>5, <1>6 DEF PoolInv, NothingLeaks

\* A liveness probe is answered.
LEMMA AnswerLiveKeeps ==
    ASSUME PoolInv, NEW r \in Requests, AnswerLive(r)
    PROVE  PoolInv'
<1> USE DEF Goto, pool, database, Stages, Answers
<1>1. PoolTypeOK'
  BY ConstantsAssumption DEF PoolInv, PoolTypeOK, AnswerLive, End, LeaveThread, Disconnect
<1>2. threads' = {s \in Requests : stage'[s] \in InThread}
  BY DEF PoolInv, PoolTypeOK, NothingLeaks, InThread, AnswerLive, End, LeaveThread, Disconnect
<1>3. conns' = {s \in Requests : stage'[s] \in Connected}
  BY DEF PoolInv, PoolTypeOK, NothingLeaks, Connected, AnswerLive, End, LeaveThread, Disconnect
<1>4. Cardinality(threads') <= Threads
  BY ConstantsAssumption, Finite, Giving DEF PoolInv, NothingLeaks, AnswerLive, End, LeaveThread, Disconnect
<1>5. Cardinality(conns') <= Conns
  BY ConstantsAssumption, Finite, Giving DEF PoolInv, NothingLeaks, AnswerLive, End, LeaveThread, Disconnect
<1>6. ASSUME NEW e \in Ready PROVE Probe(e)'
  BY ConstantsAssumption DEF PoolInv, PoolTypeOK, Probe, Requests, AnswerLive, End, LeaveThread, Disconnect
<1> QED
  BY <1>1, <1>2, <1>3, <1>4, <1>5, <1>6 DEF PoolInv, NothingLeaks

\* A request takes its first thread.
LEMMA TakeThreadKeeps ==
    ASSUME PoolInv, NEW r \in Requests, TakeThread(r)
    PROVE  PoolInv'
<1> USE DEF Goto, pool, database, Stages, Answers
<1>1. PoolTypeOK'
  BY ConstantsAssumption DEF PoolInv, PoolTypeOK, TakeThread
<1>2. threads' = {s \in Requests : stage'[s] \in InThread}
  BY DEF PoolInv, PoolTypeOK, NothingLeaks, InThread, TakeThread
<1>3. conns' = {s \in Requests : stage'[s] \in Connected}
  BY DEF PoolInv, PoolTypeOK, NothingLeaks, Connected, TakeThread
<1>4. Cardinality(threads') <= Threads
  BY ConstantsAssumption, Finite, Taking DEF PoolInv, FreeThread, TakeThread
<1>5. Cardinality(conns') <= Conns
  BY DEF PoolInv, NothingLeaks, TakeThread
<1>6. ASSUME NEW e \in Ready PROVE Probe(e)'
  BY ConstantsAssumption DEF PoolInv, PoolTypeOK, Probe, Requests, TakeThread
<1> QED
  BY <1>1, <1>2, <1>3, <1>4, <1>5, <1>6 DEF PoolInv, NothingLeaks

\* A request checks a connection out.
LEMMA CheckOutKeeps ==
    ASSUME PoolInv, NEW r \in Requests, CheckOut(r)
    PROVE  PoolInv'
<1> USE DEF Goto, pool, database, Stages, Answers
<1>1. PoolTypeOK'
  BY ConstantsAssumption DEF PoolInv, PoolTypeOK, CheckOut
<1>2. threads' = {s \in Requests : stage'[s] \in InThread}
  BY DEF PoolInv, PoolTypeOK, NothingLeaks, InThread, CheckOut
<1>3. conns' = {s \in Requests : stage'[s] \in Connected}
  BY DEF PoolInv, PoolTypeOK, NothingLeaks, Connected, CheckOut
<1>4. Cardinality(threads') <= Threads
  BY DEF PoolInv, NothingLeaks, CheckOut
<1>5. Cardinality(conns') <= Conns
  BY ConstantsAssumption, Finite, Taking DEF PoolInv, FreeConn, CheckOut
<1>6. ASSUME NEW e \in Ready PROVE Probe(e)'
  BY ConstantsAssumption DEF PoolInv, PoolTypeOK, Probe, Requests, CheckOut
<1> QED
  BY <1>1, <1>2, <1>3, <1>4, <1>5, <1>6 DEF PoolInv, NothingLeaks

\* A request gives up waiting for a connection.
LEMMA PoolTimeoutKeeps ==
    ASSUME PoolInv, NEW r \in Requests, PoolTimeout(r)
    PROVE  PoolInv'
<1> USE DEF Goto, pool, database, Stages, Answers
<1>1. PoolTypeOK'
  BY ConstantsAssumption DEF PoolInv, PoolTypeOK, PoolTimeout, End, LeaveThread, Disconnect
<1>2. threads' = {s \in Requests : stage'[s] \in InThread}
  BY DEF PoolInv, PoolTypeOK, NothingLeaks, InThread, PoolTimeout, End, LeaveThread, Disconnect
<1>3. conns' = {s \in Requests : stage'[s] \in Connected}
  BY DEF PoolInv, PoolTypeOK, NothingLeaks, Connected, PoolTimeout, End, LeaveThread, Disconnect
<1>4. Cardinality(threads') <= Threads
  BY ConstantsAssumption, Finite, Giving DEF PoolInv, NothingLeaks, PoolTimeout, End, LeaveThread, Disconnect
<1>5. Cardinality(conns') <= Conns
  BY ConstantsAssumption, Finite, Giving DEF PoolInv, NothingLeaks, PoolTimeout, End, LeaveThread, Disconnect
<1>6. ASSUME NEW e \in Ready PROVE Probe(e)'
  BY ConstantsAssumption DEF PoolInv, PoolTypeOK, Probe, Requests, PoolTimeout, End, LeaveThread, Disconnect
<1> QED
  BY <1>1, <1>2, <1>3, <1>4, <1>5, <1>6 DEF PoolInv, NothingLeaks

\* A request gives its first thread back.
LEMMA AuthenticatedKeeps ==
    ASSUME PoolInv, NEW r \in Requests, Authenticated(r)
    PROVE  PoolInv'
<1> USE DEF Goto, pool, database, Stages, Answers
<1>1. PoolTypeOK'
  BY ConstantsAssumption DEF PoolInv, PoolTypeOK, Authenticated, LeaveThread
<1>2. threads' = {s \in Requests : stage'[s] \in InThread}
  BY DEF PoolInv, PoolTypeOK, NothingLeaks, InThread, Authenticated, LeaveThread
<1>3. conns' = {s \in Requests : stage'[s] \in Connected}
  BY DEF PoolInv, PoolTypeOK, NothingLeaks, Connected, Authenticated, LeaveThread
<1>4. Cardinality(threads') <= Threads
  BY ConstantsAssumption, Finite, Giving DEF PoolInv, NothingLeaks, Authenticated, LeaveThread
<1>5. Cardinality(conns') <= Conns
  BY DEF PoolInv, NothingLeaks, Authenticated, LeaveThread
<1>6. ASSUME NEW e \in Ready PROVE Probe(e)'
  BY ConstantsAssumption DEF PoolInv, PoolTypeOK, Probe, Requests, Authenticated, LeaveThread
<1> QED
  BY <1>1, <1>2, <1>3, <1>4, <1>5, <1>6 DEF PoolInv, NothingLeaks

\* A request takes its second thread.
LEMMA TakeThreadAgainKeeps ==
    ASSUME PoolInv, NEW r \in Requests, TakeThreadAgain(r)
    PROVE  PoolInv'
<1> USE DEF Goto, pool, database, Stages, Answers
<1>1. PoolTypeOK'
  BY ConstantsAssumption DEF PoolInv, PoolTypeOK, TakeThreadAgain
<1>2. threads' = {s \in Requests : stage'[s] \in InThread}
  BY DEF PoolInv, PoolTypeOK, NothingLeaks, InThread, TakeThreadAgain
<1>3. conns' = {s \in Requests : stage'[s] \in Connected}
  BY DEF PoolInv, PoolTypeOK, NothingLeaks, Connected, TakeThreadAgain
<1>4. Cardinality(threads') <= Threads
  BY ConstantsAssumption, Finite, Taking DEF PoolInv, FreeThread, TakeThreadAgain
<1>5. Cardinality(conns') <= Conns
  BY DEF PoolInv, NothingLeaks, TakeThreadAgain
<1>6. ASSUME NEW e \in Ready PROVE Probe(e)'
  BY ConstantsAssumption DEF PoolInv, PoolTypeOK, Probe, Requests, TakeThreadAgain
<1> QED
  BY <1>1, <1>2, <1>3, <1>4, <1>5, <1>6 DEF PoolInv, NothingLeaks

\* An endpoint returns.
LEMMA WorkKeeps ==
    ASSUME PoolInv, NEW r \in Requests, Work(r)
    PROVE  PoolInv'
<1> USE DEF Goto, pool, database, Stages, Answers
<1>1. PoolTypeOK'
  BY ConstantsAssumption DEF PoolInv, PoolTypeOK, Work, LeaveThread
<1>2. threads' = {s \in Requests : stage'[s] \in InThread}
  BY DEF PoolInv, PoolTypeOK, NothingLeaks, InThread, Work, LeaveThread
<1>3. conns' = {s \in Requests : stage'[s] \in Connected}
  BY DEF PoolInv, PoolTypeOK, NothingLeaks, Connected, Work, LeaveThread
<1>4. Cardinality(threads') <= Threads
  BY ConstantsAssumption, Finite, Giving DEF PoolInv, NothingLeaks, Work, LeaveThread
<1>5. Cardinality(conns') <= Conns
  BY DEF PoolInv, NothingLeaks, Work, LeaveThread
<1>6. ASSUME NEW e \in Ready PROVE Probe(e)'
  BY ConstantsAssumption DEF PoolInv, PoolTypeOK, Probe, Requests, Work, LeaveThread
<1> QED
  BY <1>1, <1>2, <1>3, <1>4, <1>5, <1>6 DEF PoolInv, NothingLeaks

\* A session is closed.
LEMMA CloseKeeps ==
    ASSUME PoolInv, NEW r \in Requests, Close(r)
    PROVE  PoolInv'
<1> USE DEF Goto, pool, database, Stages, Answers
<1>1. PoolTypeOK'
  BY ConstantsAssumption DEF PoolInv, PoolTypeOK, Close, End, LeaveThread, Disconnect
<1>2. threads' = {s \in Requests : stage'[s] \in InThread}
  BY DEF PoolInv, PoolTypeOK, NothingLeaks, InThread, Close, End, LeaveThread, Disconnect
<1>3. conns' = {s \in Requests : stage'[s] \in Connected}
  BY DEF PoolInv, PoolTypeOK, NothingLeaks, Connected, Close, End, LeaveThread, Disconnect
<1>4. Cardinality(threads') <= Threads
  BY ConstantsAssumption, Finite, Giving DEF PoolInv, NothingLeaks, Close, End, LeaveThread, Disconnect
<1>5. Cardinality(conns') <= Conns
  BY ConstantsAssumption, Finite, Giving DEF PoolInv, NothingLeaks, Close, End, LeaveThread, Disconnect
<1>6. ASSUME NEW e \in Ready PROVE Probe(e)'
  BY ConstantsAssumption DEF PoolInv, PoolTypeOK, Probe, Requests, Close, End, LeaveThread, Disconnect
<1> QED
  BY <1>1, <1>2, <1>3, <1>4, <1>5, <1>6 DEF PoolInv, NothingLeaks

\* A readiness probe is answered.
LEMMA PingAnsweredKeeps ==
    ASSUME PoolInv, NEW r \in Requests, PingAnswered(r)
    PROVE  PoolInv'
<1> USE DEF Goto, pool, database, Stages, Answers
<1>1. PoolTypeOK'
  BY ConstantsAssumption DEF PoolInv, PoolTypeOK, PingAnswered, End, LeaveThread, Disconnect
<1>2. threads' = {s \in Requests : stage'[s] \in InThread}
  BY DEF PoolInv, PoolTypeOK, NothingLeaks, InThread, PingAnswered, End, LeaveThread, Disconnect
<1>3. conns' = {s \in Requests : stage'[s] \in Connected}
  BY DEF PoolInv, PoolTypeOK, NothingLeaks, Connected, PingAnswered, End, LeaveThread, Disconnect
<1>4. Cardinality(threads') <= Threads
  BY ConstantsAssumption, Finite, Giving DEF PoolInv, NothingLeaks, PingAnswered, End, LeaveThread, Disconnect
<1>5. Cardinality(conns') <= Conns
  BY ConstantsAssumption, Finite, Giving DEF PoolInv, NothingLeaks, PingAnswered, End, LeaveThread, Disconnect
<1>6. ASSUME NEW e \in Ready PROVE Probe(e)'
  BY ConstantsAssumption DEF PoolInv, PoolTypeOK, Probe, Requests, PingAnswered, End, LeaveThread, Disconnect
<1> QED
  BY <1>1, <1>2, <1>3, <1>4, <1>5, <1>6 DEF PoolInv, NothingLeaks

\* A readiness probe is refused.
LEMMA PingRefusedKeeps ==
    ASSUME PoolInv, NEW r \in Requests, PingRefused(r)
    PROVE  PoolInv'
<1> USE DEF Goto, pool, database, Stages, Answers
<1>1. PoolTypeOK'
  BY ConstantsAssumption DEF PoolInv, PoolTypeOK, PingRefused, End, LeaveThread, Disconnect
<1>2. threads' = {s \in Requests : stage'[s] \in InThread}
  BY DEF PoolInv, PoolTypeOK, NothingLeaks, InThread, PingRefused, End, LeaveThread, Disconnect
<1>3. conns' = {s \in Requests : stage'[s] \in Connected}
  BY DEF PoolInv, PoolTypeOK, NothingLeaks, Connected, PingRefused, End, LeaveThread, Disconnect
<1>4. Cardinality(threads') <= Threads
  BY ConstantsAssumption, Finite, Giving DEF PoolInv, NothingLeaks, PingRefused, End, LeaveThread, Disconnect
<1>5. Cardinality(conns') <= Conns
  BY ConstantsAssumption, Finite, Giving DEF PoolInv, NothingLeaks, PingRefused, End, LeaveThread, Disconnect
<1>6. ASSUME NEW e \in Ready PROVE Probe(e)'
  BY ConstantsAssumption DEF PoolInv, PoolTypeOK, Probe, Requests, PingRefused, End, LeaveThread, Disconnect
<1> QED
  BY <1>1, <1>2, <1>3, <1>4, <1>5, <1>6 DEF PoolInv, NothingLeaks

\* A step ends in an exception.
LEMMA FailsKeeps ==
    ASSUME PoolInv, NEW r \in Requests, Fails(r)
    PROVE  PoolInv'
<1> USE DEF Goto, pool, database, Stages, Answers
<1>1. PoolTypeOK'
  BY ConstantsAssumption DEF PoolInv, PoolTypeOK, Fails, LeaveThread
<1>2. threads' = {s \in Requests : stage'[s] \in InThread}
  BY DEF PoolInv, PoolTypeOK, NothingLeaks, InThread, Fails, LeaveThread
<1>3. conns' = {s \in Requests : stage'[s] \in Connected}
  BY DEF PoolInv, PoolTypeOK, NothingLeaks, Connected, Fails, LeaveThread
<1>4. Cardinality(threads') <= Threads
  BY ConstantsAssumption, Finite, Giving DEF PoolInv, NothingLeaks, Fails, LeaveThread
<1>5. Cardinality(conns') <= Conns
  BY DEF PoolInv, NothingLeaks, Fails, LeaveThread
<1>6. ASSUME NEW e \in Ready PROVE Probe(e)'
  BY ConstantsAssumption DEF PoolInv, PoolTypeOK, Probe, Requests, Fails, LeaveThread
<1> QED
  BY <1>1, <1>2, <1>3, <1>4, <1>5, <1>6 DEF PoolInv, NothingLeaks

\* A session is closed after an exception.
LEMMA UnwindKeeps ==
    ASSUME PoolInv, NEW r \in Requests, Unwind(r)
    PROVE  PoolInv'
<1> USE DEF Goto, pool, database, Stages, Answers
<1>1. PoolTypeOK'
  BY ConstantsAssumption DEF PoolInv, PoolTypeOK, Unwind, End, LeaveThread, Disconnect
<1>2. threads' = {s \in Requests : stage'[s] \in InThread}
  BY DEF PoolInv, PoolTypeOK, NothingLeaks, InThread, Unwind, End, LeaveThread, Disconnect
<1>3. conns' = {s \in Requests : stage'[s] \in Connected}
  BY DEF PoolInv, PoolTypeOK, NothingLeaks, Connected, Unwind, End, LeaveThread, Disconnect
<1>4. Cardinality(threads') <= Threads
  BY ConstantsAssumption, Finite, Giving DEF PoolInv, NothingLeaks, Unwind, End, LeaveThread, Disconnect
<1>5. Cardinality(conns') <= Conns
  BY ConstantsAssumption, Finite, Giving DEF PoolInv, NothingLeaks, Unwind, End, LeaveThread, Disconnect
<1>6. ASSUME NEW e \in Ready PROVE Probe(e)'
  BY ConstantsAssumption DEF PoolInv, PoolTypeOK, Probe, Requests, Unwind, End, LeaveThread, Disconnect
<1> QED
  BY <1>1, <1>2, <1>3, <1>4, <1>5, <1>6 DEF PoolInv, NothingLeaks

\* A request is refused before its first statement.
LEMMA TurnedAwayKeeps ==
    ASSUME PoolInv, NEW r \in Requests, TurnedAway(r)
    PROVE  PoolInv'
<1> USE DEF Goto, pool, database, Stages, Answers
<1>1. PoolTypeOK'
  BY ConstantsAssumption DEF PoolInv, PoolTypeOK, TurnedAway, End, LeaveThread, Disconnect
<1>2. threads' = {s \in Requests : stage'[s] \in InThread}
  BY DEF PoolInv, PoolTypeOK, NothingLeaks, InThread, TurnedAway, End, LeaveThread, Disconnect
<1>3. conns' = {s \in Requests : stage'[s] \in Connected}
  BY DEF PoolInv, PoolTypeOK, NothingLeaks, Connected, TurnedAway, End, LeaveThread, Disconnect
<1>4. Cardinality(threads') <= Threads
  BY ConstantsAssumption, Finite, Giving DEF PoolInv, NothingLeaks, TurnedAway, End, LeaveThread, Disconnect
<1>5. Cardinality(conns') <= Conns
  BY ConstantsAssumption, Finite, Giving DEF PoolInv, NothingLeaks, TurnedAway, End, LeaveThread, Disconnect
<1>6. ASSUME NEW e \in Ready PROVE Probe(e)'
  BY ConstantsAssumption DEF PoolInv, PoolTypeOK, Probe, Requests, TurnedAway, End, LeaveThread, Disconnect
<1> QED
  BY <1>1, <1>2, <1>3, <1>4, <1>5, <1>6 DEF PoolInv, NothingLeaks

\* A liveness probe is given up.
LEMMA ProbeTimeoutKeeps ==
    ASSUME PoolInv, NEW r \in Requests, ProbeTimeout(r)
    PROVE  PoolInv'
<1> USE DEF Goto, pool, database, Stages, Answers
<1>1. PoolTypeOK'
  BY ConstantsAssumption DEF PoolInv, PoolTypeOK, ProbeTimeout, End, LeaveThread, Disconnect
<1>2. threads' = {s \in Requests : stage'[s] \in InThread}
  BY DEF PoolInv, PoolTypeOK, NothingLeaks, InThread, ProbeTimeout, End, LeaveThread, Disconnect
<1>3. conns' = {s \in Requests : stage'[s] \in Connected}
  BY DEF PoolInv, PoolTypeOK, NothingLeaks, Connected, ProbeTimeout, End, LeaveThread, Disconnect
<1>4. Cardinality(threads') <= Threads
  BY ConstantsAssumption, Finite, Giving DEF PoolInv, NothingLeaks, ProbeTimeout, End, LeaveThread, Disconnect
<1>5. Cardinality(conns') <= Conns
  BY ConstantsAssumption, Finite, Giving DEF PoolInv, NothingLeaks, ProbeTimeout, End, LeaveThread, Disconnect
<1>6. ASSUME NEW e \in Ready PROVE Probe(e)'
  BY ConstantsAssumption DEF PoolInv, PoolTypeOK, Probe, Requests, ProbeTimeout, End, LeaveThread, Disconnect
<1> QED
  BY <1>1, <1>2, <1>3, <1>4, <1>5, <1>6 DEF PoolInv, NothingLeaks

\* The pools keep their invariant in every step of the server and its clients.
LEMMA PoolKeeps == ASSUME PoolInv, [PoolNext]_poolVars PROVE PoolInv'
<1>1. CASE DatabaseFails
  BY <1>1, ConstantsAssumption DEF DatabaseFails, pool, PoolInv, PoolTypeOK, NothingLeaks,
     Probe
<1>2. CASE DatabaseRecovers
  BY <1>2 DEF DatabaseRecovers, pool, PoolInv, PoolTypeOK, NothingLeaks, Probe
<1>3. CASE UNCHANGED poolVars
  BY <1>3 DEF poolVars, pool, database, PoolInv, PoolTypeOK, NothingLeaks, Probe
<1>4. ASSUME NEW l \in Live, ProbeTimeout(l) PROVE PoolInv'
  BY <1>4, ProbeTimeoutKeeps DEF Requests
<1>5. ASSUME NEW r \in Requests, Serve(r) \/ Arrive(r) PROVE PoolInv'
  BY <1>5, ArrivesKeeps, AnswerLiveKeeps, TakeThreadKeeps, CheckOutKeeps, PoolTimeoutKeeps,
     AuthenticatedKeeps, TakeThreadAgainKeeps, WorkKeeps, CloseKeeps, PingAnsweredKeeps,
     PingRefusedKeeps, FailsKeeps, UnwindKeeps, TurnedAwayKeeps DEF Serve
<1> QED
  BY <1>1, <1>2, <1>3, <1>4, <1>5 DEF PoolNext, PoolStep

\* Whatever the page does, the pools see a step of theirs or none.
LEMMA PoolSteps == [Next]_vars => [PoolNext]_poolVars
<1> QED
  BY DEF Next, vars, page, poolVars, PoolNext, OtherArrives, Mount, RunAgain, Effect, Unmount,
     Settle, Fail, Requests

\* No step of the server takes back that a ping was answered.
LEMMA AnsweredStays == ASSUME PoolInv, [PoolNext]_poolVars PROVE up \subseteq up'
<1> QED
  BY DEF PoolNext, PoolStep, poolVars, pool, database, Serve, Arrive, AnswerLive, TakeThread,
     CheckOut, PoolTimeout, Authenticated, TakeThreadAgain, Work, Close, PingAnswered,
     PingRefused, Fails, Unwind, TurnedAway, ProbeTimeout, DatabaseFails, DatabaseRecovers

\* The initial state satisfies the invariant.
LEMMA IInvInit == Init => IInv
<1> SUFFICES ASSUME Init PROVE IInv
  OBVIOUS
<1>1. PoolTypeOK
  BY ConstantsAssumption DEF Init, PoolInit, PoolTypeOK, Stages, Answers
<1>2. NothingLeaks
  BY ConstantsAssumption, FS_EmptySet DEF Init, PoolInit, NothingLeaks, InThread, Connected
<1>3. \A e \in Ready : Probe(e)
  BY DEF Init, PoolInit, Probe, Requests
<1>4. PageInv
  BY <1>1 DEF Init, PageInv, TypeOK, Kinds, OkWasTrue
<1> QED
  BY <1>1, <1>2, <1>3, <1>4 DEF IInv, PoolInv


\* An instance is mounted.
LEMMA MountingKeeps ==
    ASSUME IInv, NEW e \in Ready, Mount(e), PoolTypeOK', up \subseteq up'
    PROVE  PageInv'
<1>1. TypeOK'
  BY DEF IInv, PageInv, TypeOK, Kinds, Mount, Effect
<1>2. (instance \cap active \subseteq (IF mounted THEN {latest} ELSE {}))'
  BY DEF IInv, PageInv, TypeOK, Mount, Effect
<1>3. (mounted /\ kind # "loading" => by = latest /\ latest \notin pending)'
  BY DEF IInv, PageInv, TypeOK, Mount, Effect
<1>4. OkWasTrue'
  BY DEF IInv, PageInv, TypeOK, OkWasTrue, PoolInv, Probe, poolVars, pool, database, Mount, Effect
<1> QED
  BY <1>1, <1>2, <1>3, <1>4 DEF PageInv

\* StrictMode runs the effect again.
LEMMA RunningAgainKeeps ==
    ASSUME IInv, NEW e \in Ready, RunAgain(e), PoolTypeOK', up \subseteq up'
    PROVE  PageInv'
<1>1. TypeOK'
  BY DEF IInv, PageInv, TypeOK, Kinds, RunAgain, Effect
<1>2. (instance \cap active \subseteq (IF mounted THEN {latest} ELSE {}))'
  BY DEF IInv, PageInv, TypeOK, RunAgain, Effect
<1>3. (mounted /\ kind # "loading" => by = latest /\ latest \notin pending)'
  BY DEF IInv, PageInv, TypeOK, RunAgain, Effect
<1>4. OkWasTrue'
  BY DEF IInv, PageInv, TypeOK, OkWasTrue, PoolInv, Probe, poolVars, pool, database, RunAgain, Effect
<1> QED
  BY <1>1, <1>2, <1>3, <1>4 DEF PageInv

\* A response arrives.
LEMMA SettlingKeeps ==
    ASSUME IInv, NEW e \in Ready, Settle(e), PoolTypeOK', up \subseteq up'
    PROVE  PageInv'
<1>1. TypeOK'
  BY DEF IInv, PageInv, TypeOK, Kinds, Settle, SetState, Applies, Outcome
<1>2. (instance \cap active \subseteq (IF mounted THEN {latest} ELSE {}))'
  BY DEF IInv, PageInv, TypeOK, Settle, SetState, Applies, Outcome
<1>3. (mounted /\ kind # "loading" => by = latest /\ latest \notin pending)'
  BY DEF IInv, PageInv, TypeOK, Settle, SetState, Applies, Outcome
<1>4. OkWasTrue'
  BY DEF IInv, PageInv, TypeOK, OkWasTrue, PoolInv, Probe, poolVars, pool, database, Settle, SetState, Applies, Outcome
<1> QED
  BY <1>1, <1>2, <1>3, <1>4 DEF PageInv

\* A request of the page fails.
LEMMA FailingKeeps ==
    ASSUME IInv, NEW e \in Ready, Fail(e), PoolTypeOK', up \subseteq up'
    PROVE  PageInv'
<1>1. TypeOK'
  BY DEF IInv, PageInv, TypeOK, Kinds, Fail, SetState, Applies
<1>2. (instance \cap active \subseteq (IF mounted THEN {latest} ELSE {}))'
  BY DEF IInv, PageInv, TypeOK, Fail, SetState, Applies
<1>3. (mounted /\ kind # "loading" => by = latest /\ latest \notin pending)'
  BY DEF IInv, PageInv, TypeOK, Fail, SetState, Applies
<1>4. OkWasTrue'
  BY DEF IInv, PageInv, TypeOK, OkWasTrue, PoolInv, Probe, poolVars, pool, database, Fail, SetState, Applies
<1> QED
  BY <1>1, <1>2, <1>3, <1>4 DEF PageInv

\* Every step preserves the invariant.
LEMMA IInvStep == IInv /\ [Next]_vars => IInv'
<1> SUFFICES ASSUME IInv, [Next]_vars PROVE IInv'
  OBVIOUS
<1>1. [PoolNext]_poolVars
  BY PoolSteps
<1>2. PoolInv' /\ up \subseteq up'
  BY <1>1, PoolKeeps, AnsweredStays DEF IInv
<1>3. PoolTypeOK'
  BY <1>2 DEF PoolInv
<1>4. CASE UNCHANGED page
  BY <1>2, <1>3, <1>4 DEF page, IInv, PageInv, TypeOK, OkWasTrue
<1>5. CASE Unmount
  BY <1>2, <1>3, <1>5 DEF Unmount, IInv, PageInv, TypeOK, OkWasTrue
<1>6. ASSUME NEW e \in Ready, Mount(e) \/ RunAgain(e) \/ Settle(e) \/ Fail(e)
      PROVE  PageInv'
  BY <1>2, <1>3, <1>6, MountingKeeps, RunningAgainKeeps, SettlingKeeps, FailingKeeps
<1>7. PageInv'
  BY <1>4, <1>5, <1>6, <1>2 DEF Next, vars, IInv
<1> QED
  BY <1>2, <1>7 DEF IInv

-----------------------------------------------------------------------------
\* The invariant holds in every reachable state.
THEOREM Invariance == Spec => []IInv
<1>1. Init => IInv
  BY IInvInit
<1>2. IInv /\ [Next]_vars => IInv'
  BY IInvStep
<1> QED
  BY <1>1, <1>2, PTL DEF Spec


\* Every variable keeps its type.
THEOREM TypeCorrect == Spec => []TypeOK
<1>1. IInv => TypeOK
  BY DEF IInv, PoolInv, PageInv, TypeOK, ShowsTheLatest
<1> QED
  BY <1>1, Invariance, PTL

\* Threads and connections are with whom they should be, and never more than
\* there are (deps.py:69-84).
THEOREM NoLeak == Spec => []NothingLeaks
<1>1. IInv => NothingLeaks
  BY DEF IInv, PoolInv, PageInv, TypeOK, ShowsTheLatest
<1> QED
  BY <1>1, Invariance, PTL

\* Only the effect that ran last shows (BackendStatus.tsx:25-33).
THEOREM LatestShows == Spec => []ShowsTheLatest
<1>1. IInv => ShowsTheLatest
  BY DEF IInv, PoolInv, PageInv, TypeOK, ShowsTheLatest
<1> QED
  BY <1>1, Invariance, PTL

\* "Backend ready" follows an answer of the database to this very effect.
THEOREM GreenWasTrue == Spec => []OkWasTrue
<1>1. IInv => OkWasTrue
  BY DEF IInv, PoolInv, PageInv, TypeOK, ShowsTheLatest
<1> QED
  BY <1>1, Invariance, PTL

-----------------------------------------------------------------------------
\* r can take its next step of Serve while the database answers or refuses; the
\* timeout of the pool is left aside, and an exception as well.
Moves(r) ==
    \/ stage[r] \in {"queued", "between"} /\ FreeThread
    \/ stage[r] = "asking" /\ FreeConn
    \/ stage[r] \in {"querying", "working", "closing", "failing"}

\* Requests are under way and none of them can move.
Gridlock ==
    /\ \E r \in Requests : stage[r] \notin {"idle", "done"}
    /\ \A r \in Requests : ~Moves(r)

\* Every thread waits for a connection and every connection for a thread.
CircularWait ==
    /\ Cardinality(threads) = Threads
    /\ Cardinality(conns) = Conns
    /\ \A r \in threads : stage[r] = "asking"
    /\ \A r \in conns : stage[r] = "between"

\* What stands still, short of a database that hangs, is a circular wait.
GridlockIsCircular == db # "hung" /\ Gridlock => CircularWait

\* Unless the database hangs, requests block each other in one way only: those
\* between get_current_user and the endpoint keep the connections, those that
\* wait for a connection keep the threads.  The latter are where the timeout of
\* the pool ends the wait: 30 s, as create_engine is not told otherwise
\* (session.py:54).
THEOREM OneGridlock == Spec => []GridlockIsCircular
<1>1. IInv => GridlockIsCircular
  <2> SUFFICES ASSUME IInv, Gridlock
               PROVE  CircularWait
    BY DEF GridlockIsCircular
  <2>1. /\ Threads \in Nat \ {0} /\ Conns \in Nat \ {0}
        /\ Cardinality(threads) \in Nat /\ Cardinality(conns) \in Nat
    BY ConstantsAssumption, Finite, FS_CardinalityType DEF IInv, PoolInv
  <2>2. \A r \in Requests :
           stage[r] \in Stages /\ stage[r] \notin {"querying", "working", "closing", "failing"}
    BY DEF Gridlock, Moves, IInv, PoolInv, PoolTypeOK
  <2>3. /\ threads = {r \in Requests : stage[r] = "asking"}
        /\ conns = {r \in Requests : stage[r] = "between"}
        /\ Cardinality(threads) <= Threads
        /\ Cardinality(conns) <= Conns
    BY <2>2 DEF IInv, PoolInv, NothingLeaks, InThread, Connected
  <2>4. ~FreeThread
    <3> SUFFICES ASSUME FreeThread PROVE FALSE
      OBVIOUS
    <3>1. \A r \in Requests : stage[r] \notin {"queued", "between"}
      BY DEF Gridlock, Moves
    <3>2. conns = {}
      BY <2>3, <3>1
    <3>3. FreeConn
      BY <2>1, <3>2, FS_EmptySet DEF FreeConn
    <3>4. \A r \in Requests : stage[r] # "asking"
      BY <3>3 DEF Gridlock, Moves
    <3> QED
      BY <2>2, <3>1, <3>4 DEF Gridlock, Stages
  <2>5. Cardinality(threads) = Threads
    BY <2>1, <2>3, <2>4 DEF FreeThread
  <2>6. threads # {}
    BY <2>1, <2>5, FS_EmptySet
  <2>7. ~FreeConn
    BY <2>3, <2>6 DEF Gridlock, Moves
  <2>8. Cardinality(conns) = Conns
    BY <2>1, <2>3, <2>7 DEF FreeConn
  <2> QED
    BY <2>3, <2>5, <2>8 DEF CircularWait
<1> QED
  BY <1>1, Invariance, PTL

=============================================================================
