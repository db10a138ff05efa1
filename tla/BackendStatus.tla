--------------------------- MODULE BackendStatus ----------------------------
(***************************************************************************)
(* The status line of the home page and the server it probes: the React    *)
(* component BackendStatus composed with RequestPool.                      *)
(*                                                                         *)
(* An effect of the component is named by the readiness request it sends.  *)
(* An instance of the component lives from its mount to its unmount, and   *)
(* StrictMode runs its effect twice: effect, cleanup, effect.              *)
(***************************************************************************)
EXTENDS RequestPool

CONSTANT None       \* no effect

VARIABLES
    mounted,    \* is an instance mounted?
    latest,     \* the effect it ran last
    instance,   \* the effects the mounted instance has run
    active,     \* the effects whose flag `active` is true
    pending,    \* the effects whose promise is not settled
    kind,       \* state.kind
    by          \* history: the effect that set it

page == <<mounted, latest, instance, active, pending, kind, by>>
vars == <<poolVars, page>>

-----------------------------------------------------------------------------
Kinds == {"loading", "ok", "error"}

\* Mutant: the callbacks do not test `active`.
Applies_Always(e) == e \in instance

\* The callbacks of e set the state: of their own instance, if still active.
Applies(e) == e \in instance /\ e \in active

\* Mutant: apiRequest looks at the body only.
Outcome_AnyBody(e) == IF answer[e] \in {"ok", "unavailable"} THEN "ok" ELSE "error"

\* Mutant: the envelope is displayed without a look into it.
Outcome_NotUnwrapped(e) == answer[e]

\* apiRequest unwraps the envelope, or throws an ApiError: the status is not
\* ok, success is false, or data is null.
Outcome(e) == IF answer[e] = "ok" THEN "ok" ELSE "error"

SetState(e, k) ==
    /\ kind' = IF Applies(e) THEN k ELSE kind
    /\ by' = IF Applies(e) THEN e ELSE by

-----------------------------------------------------------------------------
Init ==
    /\ PoolInit
    /\ mounted = FALSE
    /\ latest = None
    /\ instance = {}
    /\ active = {}
    /\ pending = {}
    /\ kind = "loading"
    /\ by = None

\* An effect starts: the flag is set and the request goes out.
Effect(e) ==
    /\ Arrive(e)
    /\ latest' = e
    /\ pending' = pending \cup {e}

\* useState and the first effect of a new instance.
Mount(e) ==
    /\ ~mounted
    /\ mounted' = TRUE
    /\ Effect(e)
    /\ instance' = {e}
    /\ active' = active \cup {e}
    /\ kind' = "loading"
    /\ by' = None

\* reactStrictMode: the effect of the same instance is cleaned up and run again,
\* before any callback of the first can run.
RunAgain(e) ==
    /\ mounted
    /\ instance = {latest}
    /\ latest \in pending
    /\ Effect(e)
    /\ instance' = instance \cup {e}
    /\ active' = (active \ {latest}) \cup {e}
    /\ UNCHANGED <<mounted, kind, by>>

\* The cleanup of the effect that ran last.
Unmount ==
    /\ mounted
    /\ mounted' = FALSE
    /\ active' = active \ {latest}
    /\ UNCHANGED <<poolVars, latest, instance, pending, kind, by>>

\* The response arrives, perhaps long after the effect was cleaned up.
Settle(e) ==
    /\ e \in pending
    /\ answer[e] # "none"
    /\ pending' = pending \ {e}
    /\ SetState(e, Outcome(e))
    /\ UNCHANGED <<poolVars, mounted, latest, instance, active>>

\* Mutant: no .catch, a rejected promise sets nothing.
Fail_NotCaught(e) ==
    /\ e \in pending
    /\ pending' = pending \ {e}
    /\ UNCHANGED <<poolVars, mounted, latest, instance, active, kind, by>>

\* fetch rejects, or the body is no JSON: network_error, invalid_response.
Fail(e) ==
    /\ e \in pending
    /\ pending' = pending \ {e}
    /\ SetState(e, "error")
    /\ UNCHANGED <<poolVars, mounted, latest, instance, active>>

\* Requests of other clients arrive as they please.
OtherArrives == \E r \in Requests \ Ready : Arrive(r)

Next ==
    \/ PoolStep /\ UNCHANGED page
    \/ OtherArrives /\ UNCHANGED page
    \/ \E e \in Ready : Mount(e) \/ RunAgain(e) \/ Settle(e) \/ Fail(e)
    \/ Unmount

Spec == Init /\ [][Next]_vars

\* Threads run, the pool times out, and what the server has answered arrives;
\* nothing makes the database recover, clients send or networks fail.
FairSpec ==
    /\ Spec
    /\ \A r \in Requests : WF_vars(Serve(r) /\ UNCHANGED page)
    /\ \A e \in Ready : WF_vars(Settle(e))

-----------------------------------------------------------------------------
\* Every variable has its type.
TypeOK ==
    /\ PoolTypeOK
    /\ mounted \in BOOLEAN
    /\ latest \in Ready \cup {None}
    /\ instance \subseteq Ready
    /\ active \subseteq Ready
    /\ pending \subseteq Ready
    /\ kind \in Kinds
    /\ by \in Ready \cup {None}

\* What is displayed comes from the effect that ran last: an answer to an
\* effect that was cleaned up, by StrictMode or by leaving the page, never
\* shows, however late it comes (BackendStatus.tsx:25-33).
ShowsTheLatest == mounted /\ kind # "loading" => by = latest

\* "Backend ready" is displayed only if the database answered a statement made
\* for this very effect: nothing cached, no envelope mistaken for success
\* ("so the status reflects reality", health.ts:7).
OkWasTrue == mounted /\ kind = "ok" => latest \in up

\* If the database does not hang for ever, every request ends: a request that
\* waits for a connection times out, which frees the threads the holders of
\* the connections wait for.
EveryRequestEnds ==
    <>[](db # "hung") => <>[](\A r \in Requests : stage[r] \in {"idle", "done"})

\* And then the component does not say "Checking backend" for ever.
StatusSettles == <>[](db # "hung") => <>[](mounted => kind # "loading")

=============================================================================
