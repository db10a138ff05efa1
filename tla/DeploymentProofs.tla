-------------------------- MODULE DeploymentProofs --------------------------
(***************************************************************************)
(* What Deployment guarantees for every set of containers and any number   *)
(* of starts.                                                              *)
(***************************************************************************)
EXTENDS Deployment, TLAPS

-----------------------------------------------------------------------------
\* The table an upgrade creates first.
First(c) == LastTable[base[c]] + 1

\* What the stage of a container says of it.
Phase(c) ==
    /\ stage[c] # "exited" => exit[c] = "none"
    /\ stage[c] # "migrating" => made[c] = {}
    /\ stage[c] \in {"heads", "migrating", "booting", "serving"} => config[c] # "malformed"
    /\ stage[c] \in {"booting", "serving"} => image[c] <= version
    /\ stage[c] = "serving" => config[c] = "ok"

\* A container that has created a table has created the one after the
\* committed schema, and nobody has committed since it looked.
Upgrading(c) ==
    stage[c] = "migrating" =>
        /\ base[c] < image[c]
        /\ base[c] <= version
        /\ made[c] \subseteq SchemaOf(image[c]) \ SchemaOf(base[c])
        /\ made[c] # {} => base[c] = version /\ First(c) \in made[c]

\* Two open transactions never create the same table.
Exclusive == \A c, d \in Containers : c # d => made[c] \cap made[d] = {}

IInv ==
    /\ TypeOK
    /\ SchemaWhole
    /\ ConflictMeansUpgraded
    /\ Exclusive
    /\ \A c \in Containers : Phase(c) /\ Upgrading(c)

-----------------------------------------------------------------------------
\* Every revision creates at least one table.
LEMMA Monotone ==
    /\ \A v \in 0..Head : LastTable[v] \in Nat /\ LastTable[v] <= LastTable[Head]
    /\ \A v, w \in 0..Head : v < w => LastTable[v] < LastTable[w]
<1>1. LastTable[0] = 0 /\ LastTable[1] = 2 /\ LastTable[2] = 4 /\ LastTable[3] = 5
  BY DEF LastTable, Head
<1>2. \A v \in 0..Head : v = 0 \/ v = 1 \/ v = 2 \/ v = 3
  BY DEF Head
<1> QED
  BY <1>1, <1>2 DEF Head

\* The tables of a revision are among those of the last one, and contain those
\* of every earlier one.
LEMMA Schemas ==
    /\ \A v \in 0..Head : SchemaOf(v) \subseteq SchemaOf(Head)
    /\ \A v, w \in 0..Head : v <= w => SchemaOf(v) \subseteq SchemaOf(w)
    /\ \A v, w \in 0..Head :
           v < w => LastTable[v] + 1 \in SchemaOf(w) \ SchemaOf(v)
<1>1. Head \in 0..Head
  BY DEF Head
<1>2. \A v, w \in 0..Head : v <= w => v = w \/ v < w
  BY DEF Head
<1>3. \A v, w \in 0..Head : v < w => LastTable[v] + 1 \in SchemaOf(w) \ SchemaOf(v)
  BY Monotone DEF SchemaOf
<1> QED
  BY <1>1, <1>2, <1>3, Monotone DEF SchemaOf

\* If the tables of revision v contain one that revision w lacks, v is later.
LEMMA LaterRevision ==
    ASSUME NEW v \in 0..Head, NEW w \in 0..Head, NEW t \in SchemaOf(v), t \notin SchemaOf(w)
    PROVE  w < v
<1>1. v <= w \/ w < v
  BY DEF Head
<1> QED
  BY <1>1, Schemas

\* The first table a container lacks is the one after those it found.
LEMMA FirstIsNext ==
    ASSUME IInv, NEW c \in Containers, stage[c] = "migrating", made[c] = {},
           NEW t, IsNext(c, t)
    PROVE  t = First(c)
<1>1. base[c] \in 0..Head /\ image[c] \in 0..Head /\ base[c] < image[c]
  BY DEF IInv, TypeOK, Upgrading, Head
<1>2. First(c) \in Missing(c)
  BY <1>1, Schemas DEF Missing, First
<1>3. t \in SchemaOf(image[c]) /\ t \notin SchemaOf(base[c]) /\ t <= First(c)
  BY <1>2 DEF IsNext, Missing
<1>4. LastTable[base[c]] \in Nat /\ LastTable[image[c]] \in Nat
  BY <1>1, Monotone
<1> QED
  BY <1>3, <1>4 DEF SchemaOf, First

\* A container that may commit has created all tables of its image on top of
\* the committed schema, and no other has created any.
LEMMA ReadyToCommit ==
    ASSUME IInv, NEW c \in Containers, stage[c] = "migrating", Missing(c) = {}
    PROVE  /\ base[c] = version
           /\ version < image[c]
           /\ tables \cup made[c] = SchemaOf(image[c])
           /\ \A d \in Containers \ {c} : made[d] = {}
<1>1. /\ base[c] \in 0..Head /\ image[c] \in 0..Head /\ base[c] < image[c]
      /\ made[c] \subseteq SchemaOf(image[c]) \ SchemaOf(base[c])
      /\ made[c] # {} => base[c] = version
  BY DEF IInv, TypeOK, Upgrading, Head
<1>2. made[c] = SchemaOf(image[c]) \ SchemaOf(base[c])
  BY <1>1 DEF Missing
<1>3. First(c) \in made[c]
  BY <1>1, <1>2, Schemas DEF First
<1>4. base[c] = version
  BY <1>1, <1>3
<1>5. tables \cup made[c] = SchemaOf(image[c])
  <2>1. tables = SchemaOf(base[c])
    BY <1>4 DEF IInv, SchemaWhole
  <2>2. SchemaOf(base[c]) \subseteq SchemaOf(image[c])
    BY <1>1, Schemas DEF Head
  <2> QED
    BY <1>2, <2>1, <2>2
<1>6. ASSUME NEW d \in Containers \ {c}, made[d] # {}
      PROVE  FALSE
  <2>1. stage[d] = "migrating"
    BY <1>6 DEF IInv, Phase
  <2>2. base[d] = version /\ First(d) \in made[d]
    BY <1>6, <2>1 DEF IInv, Upgrading
  <2>3. First(d) = First(c)
    BY <1>4, <2>2 DEF First
  <2> QED
    BY <1>3, <2>2, <2>3 DEF IInv, Exclusive
<1> QED
  BY <1>1, <1>4, <1>5, <1>6

\* The initial state satisfies the invariant.
LEMMA IInvInit == Init => IInv
<1> SUFFICES ASSUME Init PROVE IInv
  OBVIOUS
<1>1. SchemaOf(0) = {}
  BY Monotone DEF SchemaOf, LastTable, Head
<1> QED
  BY <1>1, ConstantsAssumption
  DEF Init, IInv, TypeOK, SchemaWhole, ConflictMeansUpgraded, Exclusive, Phase, Upgrading,
      Head, Stages, Configs, Exits


\* A container starts.
LEMMA StartKeeps ==
    ASSUME IInv, NEW c \in Containers, NEW i \in 1..Head, NEW cf \in Configs, Start(c, i, cf)
    PROVE  IInv'
<1> USE ConstantsAssumption DEF Goto, container, schema, Stages, Configs, Exits, Head
<1>1. TypeOK'
  BY DEF IInv, TypeOK, Start
<1>2. SchemaWhole'
  BY DEF IInv, SchemaWhole, Start
<1>3. ConflictMeansUpgraded'
  BY DEF IInv, TypeOK, Phase, ConflictMeansUpgraded, Start
<1>4. Exclusive'
  BY DEF IInv, TypeOK, Exclusive, Start
<1>5. ASSUME NEW d \in Containers PROVE (Phase(d) /\ Upgrading(d))'
  BY DEF IInv, TypeOK, Phase, Upgrading, First, SchemaOf, Start
<1> QED
  BY <1>1, <1>2, <1>3, <1>4, <1>5 DEF IInv

\* The settings are loaded or refused.
LEMMA SettingsKeeps ==
    ASSUME IInv, NEW c \in Containers, SettingsInvalid(c) \/ LoadSettings(c)
    PROVE  IInv'
<1> USE ConstantsAssumption DEF Goto, container, schema, Stages, Configs, Exits, Head
<1>1. TypeOK'
  BY DEF IInv, TypeOK, SettingsInvalid, LoadSettings, Exit
<1>2. SchemaWhole'
  BY DEF IInv, SchemaWhole, SettingsInvalid, LoadSettings, Exit
<1>3. ConflictMeansUpgraded'
  BY DEF IInv, TypeOK, Phase, ConflictMeansUpgraded, SettingsInvalid, LoadSettings, Exit
<1>4. Exclusive'
  BY DEF IInv, TypeOK, Exclusive, SettingsInvalid, LoadSettings, Exit
<1>5. ASSUME NEW d \in Containers PROVE (Phase(d) /\ Upgrading(d))'
  BY DEF IInv, TypeOK, Phase, Upgrading, First, SchemaOf, SettingsInvalid, LoadSettings, Exit
<1> QED
  BY <1>1, <1>2, <1>3, <1>4, <1>5 DEF IInv

\* The stored revision is compared with that of the image.
LEMMA HeadsKeeps ==
    ASSUME IInv, NEW c \in Containers, RevisionUnknown(c) \/ AlreadyCurrent(c) \/ BeginUpgrade(c)
    PROVE  IInv'
<1> USE ConstantsAssumption DEF Goto, container, schema, Stages, Configs, Exits, Head
<1>1. TypeOK'
  BY DEF IInv, TypeOK, RevisionUnknown, AlreadyCurrent, BeginUpgrade, Exit
<1>2. SchemaWhole'
  BY DEF IInv, SchemaWhole, RevisionUnknown, AlreadyCurrent, BeginUpgrade, Exit
<1>3. ConflictMeansUpgraded'
  BY DEF IInv, TypeOK, Phase, ConflictMeansUpgraded, RevisionUnknown, AlreadyCurrent, BeginUpgrade, Exit
<1>4. Exclusive'
  BY DEF IInv, TypeOK, Exclusive, RevisionUnknown, AlreadyCurrent, BeginUpgrade, Exit
<1>5. ASSUME NEW d \in Containers PROVE (Phase(d) /\ Upgrading(d))'
  BY DEF IInv, TypeOK, Phase, Upgrading, First, SchemaOf, RevisionUnknown, AlreadyCurrent, BeginUpgrade, Exit
<1> QED
  BY <1>1, <1>2, <1>3, <1>4, <1>5 DEF IInv

\* A statement fails, or the process is killed.
LEMMA FailureKeeps ==
    ASSUME IInv, NEW c \in Containers, StatementFails(c) \/ Kill(c)
    PROVE  IInv'
<1> USE ConstantsAssumption DEF Goto, container, schema, Stages, Configs, Exits, Head
<1>1. TypeOK'
  BY DEF IInv, TypeOK, StatementFails, Kill, Exit
<1>2. SchemaWhole'
  BY DEF IInv, SchemaWhole, StatementFails, Kill, Exit
<1>3. ConflictMeansUpgraded'
  BY DEF IInv, TypeOK, Phase, ConflictMeansUpgraded, StatementFails, Kill, Exit
<1>4. Exclusive'
  BY DEF IInv, TypeOK, Exclusive, StatementFails, Kill, Exit
<1>5. ASSUME NEW d \in Containers PROVE (Phase(d) /\ Upgrading(d))'
  BY DEF IInv, TypeOK, Phase, Upgrading, First, SchemaOf, StatementFails, Kill, Exit
<1> QED
  BY <1>1, <1>2, <1>3, <1>4, <1>5 DEF IInv

\* The application factory refuses the configuration or serves.
LEMMA FactoryKeeps ==
    ASSUME IInv, NEW c \in Containers, FactoryRefuses(c) \/ Boot(c)
    PROVE  IInv'
<1> USE ConstantsAssumption DEF Goto, container, schema, Stages, Configs, Exits, Head
<1>1. TypeOK'
  BY DEF IInv, TypeOK, FactoryRefuses, Boot, Insecure, Exit
<1>2. SchemaWhole'
  BY DEF IInv, SchemaWhole, FactoryRefuses, Boot, Insecure, Exit
<1>3. ConflictMeansUpgraded'
  BY DEF IInv, TypeOK, Phase, ConflictMeansUpgraded, FactoryRefuses, Boot, Insecure, Exit
<1>4. Exclusive'
  BY DEF IInv, TypeOK, Exclusive, FactoryRefuses, Boot, Insecure, Exit
<1>5. ASSUME NEW d \in Containers PROVE (Phase(d) /\ Upgrading(d))'
  BY DEF IInv, TypeOK, Phase, Upgrading, First, SchemaOf, FactoryRefuses, Boot, Insecure, Exit
<1> QED
  BY <1>1, <1>2, <1>3, <1>4, <1>5 DEF IInv

\* A table is created in the open transaction of a container.
LEMMA CreateTableKeeps ==
    ASSUME IInv, NEW c \in Containers, CreateTable(c)
    PROVE  IInv'
<1>1. PICK t \in SchemaOf(Head) :
        /\ IsNext(c, t)
        /\ ~Taken(c, t)
        /\ ~Contended(c, t)
        /\ made' = [made EXCEPT ![c] = @ \cup {t}]
  BY DEF CreateTable
<1>2. /\ stage[c] = "migrating"
      /\ UNCHANGED <<stage, image, config, base, exit, version, tables, starts>>
  BY DEF CreateTable, schema
<1>3. TypeOK'
  BY <1>1, <1>2 DEF IInv, TypeOK
<1>4. SchemaWhole' /\ ConflictMeansUpgraded'
  BY <1>2 DEF IInv, SchemaWhole, ConflictMeansUpgraded
<1>5. Exclusive'
  BY <1>1 DEF IInv, TypeOK, Exclusive, Contended
<1>6. t \in SchemaOf(image[c]) /\ t \notin SchemaOf(base[c])
  BY <1>1 DEF IsNext, Missing
<1>7. base[c] \in 0..Head /\ version \in 0..Head /\ base[c] < image[c] /\ base[c] <= version
  BY <1>2 DEF IInv, TypeOK, Upgrading
<1>8. base[c] = version /\ First(c) \in made[c] \cup {t}
  <2>1. CASE made[c] # {}
    BY <1>2, <2>1 DEF IInv, Upgrading
  <2>2. CASE made[c] = {}
    <3>1. t = First(c)
      BY <1>1, <1>2, <2>2, FirstIsNext
    <3>2. t \notin SchemaOf(version)
      BY <1>1 DEF IInv, SchemaWhole, Taken
    <3>3. base[c] = version \/ base[c] < version
      BY <1>7 DEF Head
    <3>4. base[c] < version => First(c) \in SchemaOf(version)
      BY <1>7, Schemas DEF First
    <3> QED
      BY <3>1, <3>2, <3>3, <3>4
  <2> QED
    BY <2>1, <2>2
<1>9. ASSUME NEW d \in Containers PROVE (Phase(d) /\ Upgrading(d))'
  <2>1. CASE d = c
    <3>1. made'[c] = made[c] \cup {t}
      BY <1>1 DEF IInv, TypeOK
    <3>2. made[c] \subseteq SchemaOf(image[c]) \ SchemaOf(base[c])
      BY <1>2 DEF IInv, Upgrading
    <3>3. Phase(c)'
      BY <1>2 DEF IInv, Phase
    <3>4. First(c)' = First(c)
      BY <1>2 DEF First
    <3>5. Upgrading(c)'
      BY <1>2, <1>6, <1>7, <1>8, <3>1, <3>2, <3>4 DEF Upgrading
    <3> QED
      BY <2>1, <3>3, <3>5
  <2>2. CASE d # c
    <3>1. made'[d] = made[d] /\ (First(d)' = First(d))
      BY <1>1, <1>2, <2>2 DEF IInv, TypeOK, First
    <3> QED
      BY <1>2, <3>1 DEF IInv, Phase, Upgrading
  <2> QED
    BY <2>1, <2>2
<1> QED
  BY <1>3, <1>4, <1>5, <1>9 DEF IInv

\* The loser of a race ends; the winner has committed a later revision.
LEMMA CreateRejectedKeeps ==
    ASSUME IInv, NEW c \in Containers, CreateRejected(c)
    PROVE  IInv'
<1> USE DEF Goto, Stages, Configs, Exits, Head
<1>1. TypeOK'
  BY DEF IInv, TypeOK, CreateRejected, Exit, schema
<1>2. SchemaWhole'
  BY DEF IInv, SchemaWhole, CreateRejected, schema
<1>3. version > base[c]
  <2>1. PICK t : t \in Missing(c) /\ t \in tables
    BY DEF CreateRejected, IsNext, Taken
  <2>2. t \in SchemaOf(version) /\ t \notin SchemaOf(base[c])
    BY <2>1 DEF IInv, SchemaWhole, Missing
  <2>3. base[c] \in 0..Head /\ version \in 0..Head
    BY DEF IInv, TypeOK
  <2>4. base[c] < version
    BY <2>2, <2>3, LaterRevision
  <2> QED
    BY <2>3, <2>4
<1>4. ConflictMeansUpgraded'
  BY <1>3 DEF IInv, TypeOK, ConflictMeansUpgraded, CreateRejected, Exit, schema
<1>5. Exclusive'
  BY DEF IInv, TypeOK, Exclusive, CreateRejected, Exit
<1>6. ASSUME NEW d \in Containers PROVE (Phase(d) /\ Upgrading(d))'
  BY DEF IInv, TypeOK, Phase, Upgrading, First, SchemaOf, CreateRejected, Exit, schema
<1> QED
  BY <1>1, <1>2, <1>4, <1>5, <1>6 DEF IInv

\* The upgrade is committed, whether the container learns of it or not.
LEMMA CommitKeeps ==
    ASSUME IInv, NEW c \in Containers, Commit(c) \/ CommitUnknown(c)
    PROVE  IInv'
<1> USE DEF Goto, Stages, Configs, Exits, Head
<1>1. /\ stage[c] = "migrating" /\ Missing(c) = {}
      /\ tables' = tables \cup made[c] /\ version' = image[c]
      /\ made' = [made EXCEPT ![c] = {}]
      /\ UNCHANGED <<image, config, base, starts>>
      /\ \/ stage' = [stage EXCEPT ![c] = "booting"] /\ UNCHANGED exit
         \/ /\ stage' = [stage EXCEPT ![c] = "exited"]
            /\ exit' = [exit EXCEPT ![c] = "failed"]
  BY DEF Commit, CommitUnknown, Apply, Exit
<1>2. /\ base[c] = version /\ version < image[c]
      /\ tables \cup made[c] = SchemaOf(image[c])
      /\ \A d \in Containers \ {c} : made[d] = {}
  BY <1>1, ReadyToCommit
<1>3. SchemaOf(image[c]) \subseteq SchemaOf(Head) /\ image[c] \in 0..Head
  BY Schemas DEF IInv, TypeOK
<1>4. TypeOK'
  BY <1>1, <1>2, <1>3 DEF IInv, TypeOK
<1>5. SchemaWhole'
  BY <1>1, <1>2 DEF SchemaWhole, SchemaOf
<1>6. ConflictMeansUpgraded'
  BY <1>1, <1>2 DEF IInv, TypeOK, ConflictMeansUpgraded
<1>7. made' = [d \in Containers |-> {}]
  BY <1>1, <1>2 DEF IInv, TypeOK
<1>8. Exclusive'
  BY <1>7 DEF Exclusive
<1>9. ASSUME NEW d \in Containers PROVE (Phase(d) /\ Upgrading(d))'
  BY <1>1, <1>2, <1>7 DEF IInv, TypeOK, Phase, Upgrading
<1> QED
  BY <1>4, <1>5, <1>6, <1>8, <1>9 DEF IInv

\* Every step preserves the invariant.
LEMMA IInvStep == IInv /\ [Next]_vars => IInv'
<1> SUFFICES ASSUME IInv, [Next]_vars PROVE IInv'
  OBVIOUS
<1>1. ASSUME NEW c \in Containers, NEW i \in 1..Head, NEW cf \in Configs, Start(c, i, cf)
      PROVE  IInv'
  BY <1>1, StartKeeps
<1>2. ASSUME NEW c \in Containers, Progress(c) PROVE IInv'
  BY <1>2, SettingsKeeps, HeadsKeeps, CreateTableKeeps, CreateRejectedKeeps, CommitKeeps,
     FactoryKeeps DEF Progress
<1>3. ASSUME NEW c \in Containers, CommitUnknown(c) \/ StatementFails(c) \/ Kill(c)
      PROVE  IInv'
  BY <1>3, CommitKeeps, FailureKeeps
<1>4. CASE UNCHANGED vars
  BY <1>4 DEF vars, container, schema, IInv, TypeOK, SchemaWhole, ConflictMeansUpgraded,
     Exclusive, Phase, Upgrading, First, SchemaOf
<1> QED
  BY <1>1, <1>2, <1>3, <1>4 DEF Next

-----------------------------------------------------------------------------
\* The invariant holds in every reachable state.
THEOREM Invariance == Spec => []IInv
<1>1. Init => IInv
  BY IInvInit
<1>2. IInv /\ [Next]_vars => IInv'
  BY IInvStep
<1> QED
  BY <1>1, <1>2, PTL DEF Spec

\* Every variable keeps its type.
THEOREM TypeCorrect == Spec => []TypeOK
<1>1. IInv => TypeOK
  BY DEF IInv
<1> QED
  BY <1>1, Invariance, PTL

\* The committed schema is always exactly that of one revision
\* (alembic/env.py:66: one transaction around all revisions).
THEOREM WholeRevisions == Spec => []SchemaWhole
<1>1. IInv => SchemaWhole
  BY DEF IInv
<1> QED
  BY <1>1, Invariance, PTL

\* Who serves has its tables and a secure configuration (main.py:47-48).
THEOREM ServingIsSafe == Spec => []ServesItsSchema
<1>1. IInv => ServesItsSchema
  <2> SUFFICES ASSUME IInv, NEW c \in Containers, stage[c] = "serving"
               PROVE  SchemaOf(image[c]) \subseteq tables /\ config[c] = "ok"
    BY DEF ServesItsSchema
  <2>1. image[c] <= version /\ config[c] = "ok"
    BY DEF IInv, Phase
  <2>2. image[c] \in 0..Head /\ version \in 0..Head
    BY DEF IInv, TypeOK, Head
  <2> QED
    BY <2>1, <2>2, Schemas DEF IInv, SchemaWhole
<1> QED
  BY <1>1, Invariance, PTL

\* A race for a table is lost only to a finished upgrade.
THEOREM RacesHaveWinners == Spec => []ConflictMeansUpgraded
<1>1. IInv => ConflictMeansUpgraded
  BY DEF IInv
<1> QED
  BY <1>1, Invariance, PTL

-----------------------------------------------------------------------------
\* No container serves at first, and there is no schema.
LEMMA HistoryInit == Init => History!Init
BY DEF Init, History!Init

\* A step that changes neither the schema nor who serves what is invisible.
LEMMA Unseen ==
    ASSUME UNCHANGED schema,
           \A c \in Containers :
              (IF stage[c] = "serving" THEN image[c] ELSE 0)'
                  = IF stage[c] = "serving" THEN image[c] ELSE 0
    PROVE  UNCHANGED History!historyVars
BY DEF schema, History!historyVars

\* Before they serve, containers leave what they serve alone.
LEMMA BeforeServing ==
    ASSUME IInv, NEW c \in Containers,
           \/ \E i \in 1..Head, cf \in Configs : Start(c, i, cf)
           \/ SettingsInvalid(c) \/ LoadSettings(c)
           \/ RevisionUnknown(c) \/ AlreadyCurrent(c) \/ BeginUpgrade(c)
           \/ CreateTable(c) \/ CreateRejected(c) \/ StatementFails(c) \/ FactoryRefuses(c)
    PROVE  UNCHANGED History!historyVars
<1>1. /\ stage[c] # "serving" /\ stage'[c] # "serving"
      /\ UNCHANGED schema
      /\ \A d \in Containers \ {c} : stage'[d] = stage[d] /\ image'[d] = image[d]
  BY DEF IInv, TypeOK, Start, SettingsInvalid, LoadSettings, RevisionUnknown, AlreadyCurrent,
     BeginUpgrade, CreateTable, CreateRejected, StatementFails, FactoryRefuses, Exit, Goto, schema
<1> QED
  BY <1>1, Unseen

\* A committed upgrade is one step of the history.
LEMMA CommitIsUpgrade ==
    ASSUME IInv, NEW c \in Containers, Commit(c) \/ CommitUnknown(c)
    PROVE  History!Next
<1>1. version < image[c] /\ tables \cup made[c] = SchemaOf(image[c])
  BY ReadyToCommit DEF Commit, CommitUnknown
<1>2. version' = image[c] /\ tables' = SchemaOf(image[c])
  BY <1>1 DEF Commit, CommitUnknown, Apply
<1>3. /\ stage[c] # "serving" /\ stage'[c] # "serving"
      /\ \A d \in Containers \ {c} : stage'[d] = stage[d] /\ image'[d] = image[d]
  BY DEF IInv, TypeOK, Commit, CommitUnknown, Exit, Goto
<1>4. image[c] \in 1..Head
  BY DEF IInv, TypeOK
<1>5. History!Upgrade(image[c])
  BY <1>1, <1>2, <1>3 DEF History!Upgrade
<1> QED
  BY <1>4, <1>5 DEF History!Next

\* A container that comes to serve has been migrated to.
LEMMA BootIsServe ==
    ASSUME IInv, NEW c \in Containers, Boot(c)
    PROVE  History!Next
<1>1. /\ stage[c] = "booting" /\ stage' = [stage EXCEPT ![c] = "serving"]
      /\ UNCHANGED <<image, version, tables>>
  BY DEF Boot, Goto, schema
<1>2. image[c] \in 1..Head /\ image[c] <= version
  BY <1>1 DEF IInv, TypeOK, Phase
<1>3. History!Serve(c, image[c])
  BY <1>1, <1>2 DEF IInv, TypeOK, History!Serve
<1>4. \E v \in 1..Head : History!Serve(c, v)
  BY <1>2, <1>3 DEF History!Serve
<1> QED
  BY <1>4 DEF History!Next

\* A container that is killed stops serving, or was not.
LEMMA KillIsStop ==
    ASSUME IInv, NEW c \in Containers, Kill(c)
    PROVE  [History!Next]_(History!historyVars)
<1>1. stage' = [stage EXCEPT ![c] = "exited"] /\ UNCHANGED <<image, version, tables>>
  BY DEF Kill, Exit, Goto, schema
<1>2. CASE stage[c] = "serving"
  <2>1. image[c] # 0
    BY DEF IInv, TypeOK
  <2>2. History!Stop(c)
    BY <1>1, <1>2, <2>1 DEF IInv, TypeOK, History!Stop
  <2> QED
    BY <2>2 DEF History!Next
<1>3. CASE stage[c] # "serving"
  BY <1>1, <1>3, Unseen DEF IInv, TypeOK, schema
<1> QED
  BY <1>2, <1>3

\* Deployment implements SchemaHistory: the schema moves from revision to later
\* revision in single steps, and nobody serves one that has not been reached.
THEOREM Refinement == Spec => KeepsHistory
<1>1. ASSUME IInv, [Next]_vars
      PROVE  [History!Next]_(History!historyVars)
  <2>1. ASSUME NEW c \in Containers, NEW i \in 1..Head, NEW cf \in Configs, Start(c, i, cf)
        PROVE  UNCHANGED History!historyVars
    BY <1>1, <2>1, BeforeServing
  <2>2. ASSUME NEW c \in Containers, Progress(c)
        PROVE  [History!Next]_(History!historyVars)
    BY <1>1, <2>2, BeforeServing, CommitIsUpgrade, BootIsServe DEF Progress
  <2>3. ASSUME NEW c \in Containers, CommitUnknown(c) \/ StatementFails(c) \/ Kill(c)
        PROVE  [History!Next]_(History!historyVars)
    BY <1>1, <2>3, BeforeServing, CommitIsUpgrade, KillIsStop
  <2>4. CASE UNCHANGED vars
    BY <2>4, Unseen DEF vars, container, schema
  <2> QED
    BY <1>1, <2>1, <2>2, <2>3, <2>4 DEF Next
<1> QED
  BY <1>1, HistoryInit, Invariance, PTL DEF Spec, KeepsHistory, History!Spec

-----------------------------------------------------------------------------
\* c waits for the end of another migration.
Waits(c) == stage[c] = "migrating" /\ \E t \in SchemaOf(Head) : IsNext(c, t) /\ Contended(c, t)

\* A container that waits has created nothing.
WaitersHoldNothing == \A c \in Containers : Waits(c) => made[c] = {}

\* Of several migrations one at most holds tables, and it waits for none: they
\* never wait for each other in a ring (alembic/env.py:66).
THEOREM NoRingOfMigrations == Spec => []WaitersHoldNothing
<1>1. IInv => WaitersHoldNothing
  <2> SUFFICES ASSUME IInv, NEW c \in Containers, Waits(c), made[c] # {}
               PROVE  FALSE
    BY DEF WaitersHoldNothing
  <2>1. PICK t \in SchemaOf(Head) : Contended(c, t)
    BY DEF Waits
  <2>2. PICK d \in Containers \ {c} : t \in made[d]
    BY <2>1 DEF Contended
  <2>3. stage[c] = "migrating" /\ stage[d] = "migrating"
    BY <2>2 DEF Waits, IInv, Phase
  <2>4. /\ base[c] = version /\ First(c) \in made[c]
        /\ base[d] = version /\ First(d) \in made[d]
    BY <2>2, <2>3 DEF IInv, Upgrading
  <2>5. First(c) = First(d)
    BY <2>4 DEF First
  <2> QED
    BY <2>4, <2>5 DEF IInv, Exclusive
<1> QED
  BY <1>1, Invariance, PTL

=============================================================================
