----------------------------- MODULE Deployment -----------------------------
(***************************************************************************)
(* The start of API containers on one PostgreSQL database: the settings,   *)
(* "alembic upgrade head" (Dockerfile:41), the application factory.        *)
(*                                                                         *)
(* Several containers may start at once, from images of different ages,    *)
(* fail anywhere and be started again.  Alembic runs all missing revisions *)
(* in one transaction; PostgreSQL's DDL is transactional, and creating a   *)
(* table another open transaction has created waits for its end.           *)
(***************************************************************************)
EXTENDS Naturals, FiniteSets

CONSTANTS
    Containers,     \* containers of the API
    MaxStarts       \* bound on the starts of containers

ASSUME ConstantsAssumption == MaxStarts \in Nat

VARIABLES
    stage,      \* how far each container has come
    image,      \* the newest revision its image knows
    config,     \* what its environment is worth
    base,       \* the revision it found in the database
    made,       \* tables created in its open transaction
    exit,       \* why it ended
    version,    \* the revision in alembic_version, 0 before the first
    tables,     \* the tables of the committed schema
    starts      \* starts so far

container == <<stage, image, config, base, made, exit>>
schema    == <<version, tables>>
vars      == <<container, schema, starts>>

-----------------------------------------------------------------------------
Head == 3

\* Tables are numbered in the order the revisions create them: alembic_version
\* and users, emergency_contacts and emergency_events, location_history.
LastTable == [v \in 0..Head |-> CASE v = 0 -> 0 [] v = 1 -> 2 [] v = 2 -> 4 [] v = 3 -> 5]

SchemaOf(v) == 1..LastTable[v]

Stages  == {"exited", "settings", "heads", "migrating", "booting", "serving"}
Configs == {"ok", "insecure", "malformed"}
Exits   == {"none", "invalid", "unknown", "conflict", "failed", "insecure", "killed"}

\* The tables c still has to create, and the first of them.
Missing(c)    == (SchemaOf(image[c]) \ SchemaOf(base[c])) \ made[c]
IsNext(c, t)  == t \in Missing(c) /\ \A u \in Missing(c) : t <= u

\* Mutant: the second CREATE TABLE fails at once instead of waiting.
Taken_ByAnyone(c, t) == t \in tables \/ \E d \in Containers \ {c} : t \in made[d]

\* t exists: CREATE TABLE raises.
Taken(c, t) == t \in tables

\* An open transaction of another container has created t.
Contended(c, t) == \E d \in Containers \ {c} : t \in made[d]

-----------------------------------------------------------------------------
Init ==
    /\ stage = [c \in Containers |-> "exited"]
    /\ image = [c \in Containers |-> Head]
    /\ config = [c \in Containers |-> "ok"]
    /\ base = [c \in Containers |-> 0]
    /\ made = [c \in Containers |-> {}]
    /\ exit = [c \in Containers |-> "none"]
    /\ version = 0
    /\ tables = {}
    /\ starts = 0

Goto(c, s) == stage' = [stage EXCEPT ![c] = s]

\* Mutant: the transaction of a container that ended stays open.
Exit_NotRolledBack(c, why) ==
    /\ Goto(c, "exited")
    /\ exit' = [exit EXCEPT ![c] = why]
    /\ UNCHANGED <<image, config, base, made, starts>>

\* The process ends; what it has not committed is rolled back.
Exit(c, why) ==
    /\ Goto(c, "exited")
    /\ exit' = [exit EXCEPT ![c] = why]
    /\ made' = [made EXCEPT ![c] = {}]
    /\ UNCHANGED <<image, config, base, starts>>

\* A container is started, of whatever image and with whatever environment.
Start(c, i, cf) ==
    /\ stage[c] = "exited"
    /\ starts < MaxStarts
    /\ starts' = starts + 1
    /\ image' = [image EXCEPT ![c] = i]
    /\ config' = [config EXCEPT ![c] = cf]
    /\ base' = [base EXCEPT ![c] = 0]
    /\ exit' = [exit EXCEPT ![c] = "none"]
    /\ Goto(c, "settings")
    /\ UNCHANGED <<made, schema>>

-----------------------------------------------------------------------------
\* env.py asks for the settings: Settings() validates every single value, but
\* not what depends on the environment.
SettingsInvalid(c) ==
    /\ stage[c] = "settings"
    /\ config[c] = "malformed"
    /\ Exit(c, "invalid")
    /\ UNCHANGED schema

LoadSettings(c) ==
    /\ stage[c] = "settings"
    /\ config[c] # "malformed"
    /\ Goto(c, "heads")
    /\ UNCHANGED <<image, config, base, made, exit, schema, starts>>

\* The database is ahead of the image: "Can't locate revision".
RevisionUnknown(c) ==
    /\ stage[c] = "heads"
    /\ version > image[c]
    /\ Exit(c, "unknown")
    /\ UNCHANGED schema

\* "a no-op when the schema is already current" (Dockerfile:40)
AlreadyCurrent(c) ==
    /\ stage[c] = "heads"
    /\ version = image[c]
    /\ base' = [base EXCEPT ![c] = version]
    /\ Goto(c, "booting")
    /\ UNCHANGED <<image, config, made, exit, schema, starts>>

BeginUpgrade(c) ==
    /\ stage[c] = "heads"
    /\ version < image[c]
    /\ base' = [base EXCEPT ![c] = version]
    /\ Goto(c, "migrating")
    /\ UNCHANGED <<image, config, made, exit, schema, starts>>

\* Mutant: every CREATE TABLE commits, as DDL does in other databases.
CreateTable_Autocommit(c) ==
    /\ stage[c] = "migrating"
    /\ \E t \in SchemaOf(Head) :
        /\ IsNext(c, t)
        /\ ~Taken(c, t)
        /\ ~Contended(c, t)
        /\ made' = [made EXCEPT ![c] = @ \cup {t}]
        /\ tables' = tables \cup {t}
    /\ UNCHANGED <<stage, image, config, base, exit, version, starts>>

\* The next op.create_table, with its indexes.
CreateTable(c) ==
    /\ stage[c] = "migrating"
    /\ \E t \in SchemaOf(Head) :
        /\ IsNext(c, t)
        /\ ~Taken(c, t)
        /\ ~Contended(c, t)
        /\ made' = [made EXCEPT ![c] = @ \cup {t}]
    /\ UNCHANGED <<stage, image, config, base, exit, schema, starts>>

\* Another container was faster.
CreateRejected(c) ==
    /\ stage[c] = "migrating"
    /\ \E t \in SchemaOf(Head) : IsNext(c, t) /\ Taken(c, t)
    /\ Exit(c, "conflict")
    /\ UNCHANGED schema

\* Mutant: the stamp counts the tables and not the revisions.
Apply_CountsTables(c) ==
    /\ tables' = tables \cup made[c]
    /\ version' = version + Cardinality(made[c])

\* The transaction of all revisions: the tables and alembic_version.
Apply(c) ==
    /\ tables' = tables \cup made[c]
    /\ version' = image[c]

Commit(c) ==
    /\ stage[c] = "migrating"
    /\ Missing(c) = {}
    /\ Apply(c)
    /\ made' = [made EXCEPT ![c] = {}]
    /\ Goto(c, "booting")
    /\ UNCHANGED <<image, config, base, exit, starts>>

\* COMMIT raises although the database has applied it.
CommitUnknown(c) ==
    /\ stage[c] = "migrating"
    /\ Missing(c) = {}
    /\ Apply(c)
    /\ Exit(c, "failed")

\* A statement fails, or the connection is lost.
StatementFails(c) ==
    /\ stage[c] \in {"heads", "migrating"}
    /\ Exit(c, "failed")
    /\ UNCHANGED schema

-----------------------------------------------------------------------------
\* Mutant: create_app does not call validate_runtime.
Insecure_NotChecked(c) == FALSE

\* validate_runtime: a placeholder secret or cheap hashes in production.
Insecure(c) == config[c] = "insecure"

\* create_app refuses, after the migration.
FactoryRefuses(c) ==
    /\ stage[c] = "booting"
    /\ Insecure(c)
    /\ Exit(c, "insecure")
    /\ UNCHANGED schema

Boot(c) ==
    /\ stage[c] = "booting"
    /\ ~Insecure(c)
    /\ Goto(c, "serving")
    /\ UNCHANGED <<image, config, base, made, exit, schema, starts>>

\* Stopped or killed, at any time.
Kill(c) ==
    /\ stage[c] # "exited"
    /\ Exit(c, "killed")
    /\ UNCHANGED schema

\* What a container does by itself.
Progress(c) ==
    \/ SettingsInvalid(c) \/ LoadSettings(c)
    \/ RevisionUnknown(c) \/ AlreadyCurrent(c) \/ BeginUpgrade(c)
    \/ CreateTable(c) \/ CreateRejected(c) \/ Commit(c)
    \/ FactoryRefuses(c) \/ Boot(c)

Next ==
    \E c \in Containers :
        \/ \E i \in 1..Head, cf \in Configs : Start(c, i, cf)
        \/ Progress(c)
        \/ CommitUnknown(c) \/ StatementFails(c) \/ Kill(c)

Spec == Init /\ [][Next]_vars

\* Processes run and the database answers; nobody has to start a container.
FairSpec == Spec /\ \A c \in Containers : WF_vars(Progress(c))

-----------------------------------------------------------------------------
\* Every variable has its type.
TypeOK ==
    /\ stage \in [Containers -> Stages]
    /\ image \in [Containers -> 1..Head]
    /\ config \in [Containers -> Configs]
    /\ base \in [Containers -> 0..Head]
    /\ made \in [Containers -> SUBSET SchemaOf(Head)]
    /\ exit \in [Containers -> Exits]
    /\ version \in 0..Head
    /\ tables \subseteq SchemaOf(Head)
    /\ starts \in 0..MaxStarts

\* Whoever migrates, from whichever images, and wherever it dies: the committed
\* schema is exactly that of the revision it is stamped with, never half of one.
SchemaWhole == tables = SchemaOf(version)

\* A container that serves has every table its image expects, also while other
\* containers migrate or older ones are started again, and its configuration
\* is secure ("before serving any request", main.py:47).
ServesItsSchema ==
    \A c \in Containers :
        stage[c] = "serving" => SchemaOf(image[c]) \subseteq tables /\ config[c] = "ok"

\* A container that lost the race for a table lost it to a finished upgrade:
\* started again, it begins at a later revision.
ConflictMeansUpgraded ==
    \A c \in Containers : exit[c] = "conflict" => version > base[c]

\* However many start at once, every container comes to serve or to an end: no
\* migration waits for ever for the transaction of another.
EveryStartEnds ==
    \A c \in Containers : stage[c] = "settings" ~> stage[c] \in {"serving", "exited"}

-----------------------------------------------------------------------------
History == INSTANCE SchemaHistory WITH
    Servers <- Containers,
    serves  <- [c \in Containers |-> IF stage[c] = "serving" THEN image[c] ELSE 0]

\* Whatever starts, races, fails and dies: users of the database see the schema
\* go from revision to later revision in single steps, never back, and nobody
\* serves a revision that has not been reached.
KeepsHistory == History!Spec

=============================================================================
