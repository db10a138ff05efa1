--------------------------- MODULE StatusRegister ---------------------------
(***************************************************************************)
(* What GET and PATCH of an event promise their clients, without           *)
(* transactions, locks and the two look-ups: every request is decided in   *)
(* one step, in which it writes once or not at all.  A PATCH is measured   *)
(* by some status the event has had, not by the one it replaces: that much *)
(* is lost when two of them overlap.                                       *)
(***************************************************************************)

CONSTANTS
    Requests, Users, Events,
    Asks, NoAsk,            \* what a request may ask, and nothing
    EventStatus,
    CanTransition(_, _)     \* the lifecycle of an event

VARIABLES
    users,      \* the accounts that exist
    owner,      \* the user of each event
    status,     \* the status of each event, "unborn" before, "erased" after
    held,       \* every status it has had
    req,        \* what each request asks
    decided,    \* the requests that will write no more
    answer      \* the answers

registerVars == <<users, owner, status, held, req, decided, answer>>

Ev(r)   == req[r].event
Mine(r) == Ev(r) \in Events /\ owner[Ev(r)] = req[r].user
Open(r) == req[r] \in Asks /\ r \notin decided
Is(e)   == status[e] \in EventStatus

Init ==
    /\ users = Users
    /\ owner \in [Events -> Users]
    /\ status = [e \in Events |-> "unborn"]
    /\ held = [e \in Events |-> {}]
    /\ req = [r \in Requests |-> NoAsk]
    /\ decided = {}
    /\ answer = [r \in Requests |-> "none"]

Appear(e) ==
    /\ status[e] = "unborn"
    /\ status' = [status EXCEPT ![e] = "active"]
    /\ held' = [held EXCEPT ![e] = {"active"}]
    /\ UNCHANGED <<users, owner, req, decided, answer>>

\* A user goes, and the events with it.
Remove(u) ==
    /\ users' = users \ {u}
    /\ status' = [e \in Events |-> IF owner[e] = u /\ Is(e) THEN "erased" ELSE status[e]]
    /\ UNCHANGED <<owner, held, req, decided, answer>>

Ask(r, q) ==
    /\ req[r] = NoAsk
    /\ req' = [req EXCEPT ![r] = q]
    /\ UNCHANGED <<users, owner, status, held, decided, answer>>

Decide(r) == Open(r) /\ decided' = decided \cup {r} /\ UNCHANGED <<users, owner, req>>

\* The client may be told of an error although the write is done.
Write(r) ==
    /\ Decide(r)
    /\ Mine(r)
    /\ Is(Ev(r))
    /\ \E s \in held[Ev(r)] : CanTransition(s, req[r].to)
    /\ status' = [status EXCEPT ![Ev(r)] = req[r].to]
    /\ held' = [held EXCEPT ![Ev(r)] = @ \cup {req[r].to}]
    /\ UNCHANGED answer \/ answer' = [answer EXCEPT ![r] = "error"]

\* A GET, or a PATCH to the status there is.
WriteNothing(r) == Decide(r) /\ UNCHANGED <<status, held, answer>>

Grant(r, s) ==
    /\ r \in decided
    /\ answer[r] = "none"
    /\ Mine(r)
    /\ s \in held[Ev(r)]
    /\ req[r].to \in {"read", s}
    /\ answer' = [answer EXCEPT ![r] = s]
    /\ UNCHANGED <<users, owner, status, held, req, decided>>

Refuse(r, e) ==
    /\ Decide(r)
    /\ CASE e = "unauthorized" -> req[r].user \notin users
         [] e = "not_found" -> ~Is(Ev(r)) \/ ~Mine(r)
         [] e = "invalid_transition" ->
                Mine(r) /\ Is(Ev(r)) /\ ~CanTransition(status[Ev(r)], req[r].to)
         [] e = "error" -> TRUE
    /\ answer' = [answer EXCEPT ![r] = e]
    /\ UNCHANGED <<status, held>>

Next ==
    \/ \E e \in Events : Appear(e)
    \/ \E u \in Users : Remove(u)
    \/ \E r \in Requests :
          \/ \E q \in Asks : Ask(r, q)
          \/ Write(r) \/ WriteNothing(r)
          \/ \E s \in EventStatus : Grant(r, s)
          \/ \E e \in {"unauthorized", "not_found", "invalid_transition", "error"} : Refuse(r, e)

Spec == Init /\ [][Next]_registerVars

=============================================================================
