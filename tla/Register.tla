------------------------------ MODULE Register ------------------------------
(***************************************************************************)
(* What a table with a unique name promises the clients that add to it,    *)
(* without the database, threads and look-ups: at most one entry of a name *)
(* at a time, nothing granted that is not entered, nothing entered that is *)
(* refused, and no refusal for a name that is free.                        *)
(***************************************************************************)

CONSTANTS
    Requests,       \* the requests to enter something
    Granted, Taken, \* how a request is answered that is entered, or whose
    Refusals,       \* name is taken, or for any other reason is not entered
    Failed          \* what it is told when nobody knows

VARIABLES
    name,       \* the name each request asks for
    entered,    \* the entries there are
    erased,     \* those there were
    reply       \* the answers, "none" before

registerVars == <<name, entered, erased, reply>>

Ever == entered \cup erased

Init ==
    /\ entered = {}
    /\ erased = {}
    /\ reply = [r \in Requests |-> "none"]

\* The entry is made unless its name is taken or its request answered; when
\* nobody knows that it has been made, the client is told that it failed.
Enter(r) ==
    /\ entered' = entered \cup {r}
    /\ reply[r] = "none"
    /\ \A e \in entered : name[e] # name[r]
    /\ UNCHANGED reply \/ reply' = [reply EXCEPT ![r] = Failed]
    /\ UNCHANGED <<name, erased>>

Answer(r, s) ==
    /\ reply[r] = "none"
    /\ reply' = [reply EXCEPT ![r] = s]
    /\ UNCHANGED <<name, entered, erased>>

\* At the moment of this refusal another entry has the name.
RefuseTaken(r) ==
    /\ Answer(r, Taken)
    /\ \E e \in entered : name[e] = name[r]

\* Entries may go for reasons of their own.
Erase ==
    /\ entered' \subseteq entered
    /\ erased' = erased \cup (entered \ entered')
    /\ UNCHANGED <<name, reply>>

\* Only what has never been entered is entered or refused.
Next ==
    \/ Erase
    \/ \E r \in Requests \ Ever :
          Enter(r) \/ RefuseTaken(r) \/ \E s \in Refusals : Answer(r, s)
    \/ \E r \in Ever : Answer(r, Granted)

Spec == Init /\ [][Next]_registerVars

=============================================================================
