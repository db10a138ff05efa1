--------------------------- MODULE SchemaHistory ----------------------------
(***************************************************************************)
(* What migrations promise to whoever uses the database, without           *)
(* containers, transactions and failures: the schema goes from one whole   *)
(* revision to a later one, and is served only when it has been reached.   *)
(***************************************************************************)
EXTENDS Naturals

CONSTANTS
    Head,           \* the last revision
    SchemaOf(_),    \* the tables of each revision
    Servers         \* who may serve the schema

VARIABLES
    version,    \* the revision reached
    tables,     \* the tables there are
    serves      \* the revision each server relies on, 0 for none

historyVars == <<version, tables, serves>>

Init ==
    /\ version = 0
    /\ tables = {}
    /\ serves = [c \in Servers |-> 0]

Upgrade(v) ==
    /\ version < v
    /\ version' = v
    /\ tables' = SchemaOf(v)
    /\ UNCHANGED serves

Serve(c, v) ==
    /\ serves[c] = 0
    /\ v <= version
    /\ serves' = [serves EXCEPT ![c] = v]
    /\ UNCHANGED <<version, tables>>

Stop(c) ==
    /\ serves[c] # 0
    /\ serves' = [serves EXCEPT ![c] = 0]
    /\ UNCHANGED <<version, tables>>

Next ==
    \/ \E v \in 1..Head : Upgrade(v)
    \/ \E c \in Servers : Stop(c) \/ \E v \in 1..Head : Serve(c, v)

Spec == Init /\ [][Next]_historyVars

=============================================================================
