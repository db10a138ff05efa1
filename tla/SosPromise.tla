----------------------------- MODULE SosPromise -----------------------------
(***************************************************************************)
(* What POST /emergency/sos promises its clients, without the database,    *)
(* the threads and the notifications: a register that records at most one  *)
(* event per Idempotency-Key and never grants what it has not recorded.    *)
(***************************************************************************)

CONSTANTS Requests, Keys, NoKey, NoEvent

VARIABLES
    asked,      \* the requests made
    key,        \* the key of each request
    recorded,   \* the events ever recorded, named by their request
    reply       \* the answer to each request

promiseVars == <<asked, key, recorded, reply>>

Unanswered(r) == r \in asked /\ reply[r].status = "none"
Sibling(q, r) == key[q] = key[r] /\ key[r] # NoKey

Init ==
    /\ asked = {}
    /\ key = [r \in Requests |-> NoKey]
    /\ recorded = {}
    /\ reply = [r \in Requests |-> [status |-> "none", event |-> NoEvent]]

Ask(r, k) ==
    /\ r \notin asked
    /\ asked' = asked \cup {r}
    /\ key' = [key EXCEPT ![r] = k]
    /\ UNCHANGED <<recorded, reply>>

\* The event enters the register unless its key has one.
Enter(r) ==
    /\ Unanswered(r)
    /\ r \notin recorded
    /\ \A e \in recorded : ~Sibling(e, r)
    /\ recorded' = recorded \cup {r}

Record(r) == Enter(r) /\ UNCHANGED <<asked, key, reply>>

\* The server recorded the event and does not know it: the client is told of
\* an error and may find the event by retrying.
RecordUnknown(r) ==
    /\ Enter(r)
    /\ reply' = [reply EXCEPT ![r] = [status |-> "error", event |-> NoEvent]]
    /\ UNCHANGED <<asked, key>>

Created(r) ==
    /\ Unanswered(r)
    /\ r \in recorded
    /\ reply' = [reply EXCEPT ![r] = [status |-> "created", event |-> r]]
    /\ UNCHANGED <<asked, key, recorded>>

Replayed(r, e) ==
    /\ Unanswered(r)
    /\ r \notin recorded
    /\ e \in recorded
    /\ Sibling(e, r)
    /\ reply' = [reply EXCEPT ![r] = [status |-> "replayed", event |-> e]]
    /\ UNCHANGED <<asked, key, recorded>>

\* A refused request has recorded nothing.
Refused(r, s) ==
    /\ Unanswered(r)
    /\ r \notin recorded
    /\ reply' = [reply EXCEPT ![r] = [status |-> s, event |-> NoEvent]]
    /\ UNCHANGED <<asked, key, recorded>>

Next ==
    \E r \in Requests :
        \/ \E k \in Keys \cup {NoKey} : Ask(r, k)
        \/ Record(r) \/ RecordUnknown(r)
        \/ Created(r)
        \/ \E e \in Requests : Replayed(r, e)
        \/ \E s \in {"unauthorized", "conflict", "error"} : Refused(r, s)

Spec == Init /\ [][Next]_promiseVars

=============================================================================
