--------------------------- MODULE RecordsProofs ----------------------------
(***************************************************************************)
(* Proofs about Records for every set of requests and numbers, every page  *)
(* size, any number of failures and both orders of the teardown.           *)
(***************************************************************************)
EXTENDS Records, FiniteSetTheorems, TLAPS

-----------------------------------------------------------------------------
\* The inductive invariant, in parts.

\* Each kind of request has its path, and no answer comes before the end.
Paths ==
    /\ \A a \in Adds : pc[a] # "stamp"
    /\ \A s \in Samples : pc[s] # "check"
    /\ \A r \in Writes : pc[r] \notin {"list", "count", "next"} /\ answer[r] # "listed"
    /\ \A w \in Walks :
          /\ pc[w] \in {"idle", "auth", "list", "count", "next", "done"}
          /\ pc[w] = "idle" => page[w] = 1 /\ known[w] = {}
    /\ \A r \in Requests :
          answer[r] # "none"
              => pc[r] = "done" \/ (pc[r] = "commit" /\ ~CommitBeforeResponse)

\* A write has a row from its INSERT on and a key from its start, and the row is
\* open until the transaction ends.
Rows ==
    \A r \in Writes :
        /\ pc[r] \in {"idle", "auth", "check", "stamp"} => row[r] = "none" /\ id[r] = 0
        /\ pc[r] = "insert" => row[r] = "none"
        /\ pc[r] = "commit" => row[r] = "pending"
        /\ row[r] = "pending" => pc[r] \in {"commit", "respond"}
        /\ pc[r] \in {"commit", "respond"} => id[r] # 0
        /\ pc[r] = "respond" => IF CommitBeforeResponse THEN row[r] \in {"durable", "erased"}
                                 ELSE row[r] = "pending"
        /\ row[r] \in {"pending", "durable"} \/ answer[r] = "created" => id[r] # 0

\* The rows that have taken a key; keys and timestamps lie in the past.
Keyed == {x \in Writes : id[x] # 0}

KeysBounded ==
    /\ \A x \in Writes : id[x] <= Cardinality(Keyed)
    /\ \A s \in Samples : stamp[s] <= now

\* A write that follows the answer to another is keyed and dated after it.
Follows ==
    \A y \in Writes : \A x \in known[y] :
        /\ x \in Writes
        /\ y \in Adds <=> x \in Adds
        /\ id[x] # 0
        /\ id[y] # 0 => id[x] < id[y]
        /\ y \in Samples /\ (pc[y] = "insert" \/ id[y] # 0) => stamp[x] <= stamp[y]

\* A row that was stored when w began and that w has not seen lies on the page
\* w asks for next, or on a later one, and is in the total.
Walked(w) ==
    /\ known[w] \subseteq RowsOf(table[w])
    /\ \A x \in known[w] : row[x] \in {"durable", "erased"}
    /\ \A x \in known[w] :
          row[x] = "durable" /\ x \notin seen[w] =>
              /\ pc[w] \in {"auth", "list"} => Position(table[w], x) >= Offset(w)
              /\ pc[w] \in {"count", "next"} => Position(table[w], x) >= Offset(w) + Limit
              /\ pc[w] = "next" => total[w] > Offset(w) + Limit
              /\ answer[w] # "listed"

AllWalked == \A w \in Walks : Walked(w)

IInv ==
    /\ TypeOK
    /\ Paths
    /\ Rows
    /\ OneContactPerNumber
    /\ RefusalHasHolder
    /\ KeysBounded
    /\ Follows
    /\ AllWalked

-----------------------------------------------------------------------------
\* Positions are counts over finite sets.

\* Any set of writes is finite.
LEMMA WritesFinite ==
    ASSUME NEW S \in SUBSET Writes
    PROVE  IsFiniteSet(S) /\ Cardinality(S) \in Nat
BY FS_Subset, FS_CardinalityType, ConstantsAssumption

\* Lists are finite.
LEMMA Counts ==
    ASSUME NEW t, NEW x
    PROVE  /\ IsFiniteSet(Visible(t))
           /\ Cardinality(Visible(t)) \in Nat
           /\ Position(t, x) \in Nat
<1>1. Visible(t) \in SUBSET Writes
    BY DEF Visible, RowsOf, Writes
<1>2. {y \in Visible(t) : Before(t, y, x)} \in SUBSET Writes
    BY <1>1
<1>. QED  BY <1>1, <1>2, WritesFinite DEF Position

\* The same after a step.
LEMMA CountsAfter ==
    ASSUME NEW t, NEW x
    PROVE  Position(t, x)' \in Nat
<1>. {y \in Visible(t) : Before(t, y, x)}' \in SUBSET Writes
    BY DEF Visible, RowsOf, Writes
<1>. QED  BY WritesFinite DEF Position

\* A finite set with an element more has more elements.
LEMMA StrictlyFewer ==
    ASSUME NEW t \in Tables, NEW S \in SUBSET Visible(t), NEW T \in SUBSET Visible(t),
           S \subseteq T, NEW x \in T, x \notin S
    PROVE  Cardinality(S) < Cardinality(T)
<1>1. IsFiniteSet(T) /\ IsFiniteSet(S)
    BY Counts, FS_Subset
<1>2. Cardinality(S) \in Nat /\ Cardinality(T) \in Nat
    BY <1>1, FS_CardinalityType
<1>. QED  BY <1>1, <1>2, FS_Subset

\* The total a page reports is a number.
LEMMA TotalType ==
    ASSUME TypeOK
    PROVE  \A w \in Walks : Total(w) \in Nat
BY Counts DEF Total, TypeOK

\* The total counts a stored row and all that come before it.
LEMMA TotalCovers ==
    ASSUME TypeOK, NEW t \in Tables, NEW x \in Visible(t)
    PROVE  Position(t, x) < Cardinality(Visible(t))
<1>. DEFINE Above == {y \in Visible(t) : Before(t, y, x)}
<1>1. x \notin Above
    <2>. x \in RowsOf(t) /\ RowsOf(t) \subseteq Writes
        BY DEF Visible, RowsOf, Writes
    <2>. CASE t = "contacts"
        BY DEF Before, TypeOK
    <2>. CASE t = "history"
        BY ConstantsAssumption DEF Before, TypeOK, Visible, RowsOf
    <2>. QED  BY DEF Tables
<1>2. IsFiniteSet(Visible(t)) /\ Cardinality(Visible(t)) \in Nat
    BY Counts
<1>3. Above \in SUBSET Visible(t)
    OBVIOUS
<1>4. Cardinality(Above) <= Cardinality(Visible(t)) /\ Cardinality(Above) # Cardinality(Visible(t))
    BY <1>1, <1>2, <1>3, FS_Subset
<1>5. Cardinality(Above) \in Nat
    BY <1>2, <1>3, FS_Subset, FS_CardinalityType
<1>. QED  BY <1>2, <1>4, <1>5 DEF Position

\* The next key is a number above the count of the keys given.
LEMMA NextKey ==
    ASSUME TypeOK
    PROVE  /\ IsFiniteSet(Keyed)
           /\ Cardinality(Keyed) \in Nat
           /\ NextId = Cardinality(Keyed) + 1
           /\ NextId \in Nat \ {0}
<1>. IsFiniteSet(Keyed)
    BY FS_Subset, ConstantsAssumption DEF Keyed
<1>. Cardinality(Keyed) \in Nat
    BY FS_CardinalityType
<1>. QED  BY DEF NextId, Keyed

\* Taking a key counts it.
LEMMA KeyTaken ==
    ASSUME TypeOK, NEW r \in Writes, id[r] = 0, id' = [id EXCEPT ![r] = NextId]
    PROVE  Cardinality(Keyed)' = NextId
<1>1. Keyed' = Keyed \cup {r}
    BY NextKey DEF Keyed, TypeOK
<1>2. r \notin Keyed
    BY DEF Keyed
<1>. QED  BY <1>1, <1>2, NextKey, FS_AddElement

\* What is stored stays stored, with its keys, unless the user and all go.
Stays ==
    /\ \A y \in Writes : row[y] = "erased" => row'[y] = "erased"
    /\ \A y \in Writes : row[y] = "durable" => row'[y] \in {"durable", "erased"}
    /\ \/ \A y \in Writes : row'[y] # "durable"
       \/ \A y \in Writes :
             row[y] = "durable" =>
                 /\ row'[y] = "durable"
                 /\ id'[y] = id[y]
                 /\ y \in Samples => stamp'[y] = stamp[y]

\* Every step preserves the types.
LEMMA TypeOKStep ==
    ASSUME TypeOK, Paths, [Next]_vars
    PROVE  TypeOK'
<1>. USE DEF TypeOK, Requests, Writes, PCs, Fates, Tables, RowsOf, Answers,
            Paths
<1>1. ASSUME NEW r \in Requests, Send(r) PROVE TypeOK'
    BY <1>1, ConstantsAssumption DEF Send, Goto, walking, Visible, TableOf
<1>2. ASSUME NEW r \in Requests, Authenticate(r) PROVE TypeOK'
    BY <1>2, ConstantsAssumption DEF Authenticate, Goto, walking
<1>3. ASSUME NEW r \in Requests, Unauthorized(r) PROVE TypeOK'
    BY <1>3, ConstantsAssumption
    DEF Unauthorized, Abort, Goto, RolledBack, walking
<1>4. ASSUME NEW r \in Requests, Fault(r) PROVE TypeOK'
    BY <1>4, ConstantsAssumption DEF Fault, Abort, Goto, RolledBack, walking
<1>5. ASSUME NEW a \in Adds, NumberTaken(a) PROVE TypeOK'
    BY <1>5, ConstantsAssumption
    DEF NumberTaken, Abort, Goto, RolledBack, walking
<1>6. ASSUME NEW a \in Adds, NumberFree(a) PROVE TypeOK'
    BY <1>6, ConstantsAssumption DEF NumberFree, Goto, walking
<1>7. ASSUME NEW s \in Samples, Stamp(s) PROVE TypeOK'
    BY <1>7, ConstantsAssumption DEF Stamp, Goto, walking
<1>8. ASSUME NEW r \in Writes, Insert(r) PROVE TypeOK'
    BY <1>8, ConstantsAssumption, NextKey DEF Insert, Key, Goto, walking, AfterHandler
<1>9. ASSUME NEW r \in Writes, InsertRejected(r) PROVE TypeOK'
    BY <1>9, ConstantsAssumption, NextKey
    DEF InsertRejected, Key, Abort, Goto, RolledBack, walking
<1>10. ASSUME NEW r \in Writes, Commit(r) PROVE TypeOK'
    BY <1>10, ConstantsAssumption DEF Commit, Goto, walking
<1>11. ASSUME NEW r \in Writes, Respond(r) PROVE TypeOK'
    BY <1>11, ConstantsAssumption DEF Respond, Goto, walking
<1>12. ASSUME NEW r \in Writes, CommitFails(r) PROVE TypeOK'
    BY <1>12, ConstantsAssumption DEF CommitFails, Goto, walking
<1>13. ASSUME NEW w \in Walks, ListRows(w) PROVE TypeOK'
    BY <1>13, ConstantsAssumption DEF ListRows, Goto, PageRows, Visible
<1>14. ASSUME NEW w \in Walks, CountRows(w) PROVE TypeOK'
    BY <1>14, ConstantsAssumption, TotalType DEF CountRows, Goto
<1>15. ASSUME NEW w \in Walks, NextPage(w) PROVE TypeOK'
    BY <1>15, ConstantsAssumption DEF NextPage, Goto
<1>16. ASSUME NEW w \in Walks, LastPage(w) PROVE TypeOK'
    BY <1>16, ConstantsAssumption DEF LastPage, Goto, walking
<1>17. CASE DeleteUser
    BY <1>17, ConstantsAssumption DEF DeleteUser, walking
<1>18. ASSUME NEW a \in Adds, Wait(a) PROVE TypeOK'
    BY <1>18, ConstantsAssumption, NextKey DEF Wait, walking
<1>19. CASE UNCHANGED vars
    BY <1>19 DEF vars, walking
<1>. QED
    BY <1>1, <1>2, <1>3, <1>4, <1>5, <1>6, <1>7, <1>8, <1>9, <1>10, <1>11,
       <1>12, <1>13, <1>14, <1>15, <1>16, <1>17, <1>18, <1>19
    DEF Next

\* A request keeps to the path of its kind.
LEMMA PathStep ==
    ASSUME TypeOK, Paths, [Next]_vars
    PROVE  Paths'
<1>. USE DEF TypeOK, Requests, Writes, PCs, Fates, Tables, RowsOf, Paths
<1>1. ASSUME NEW r \in Requests, Send(r) PROVE Paths'
    BY <1>1, ConstantsAssumption DEF Send, Goto, walking, Visible, TableOf
<1>2. ASSUME NEW r \in Requests, Authenticate(r) PROVE Paths'
    BY <1>2, ConstantsAssumption DEF Authenticate, Goto, walking
<1>3. ASSUME NEW r \in Requests, Unauthorized(r) PROVE Paths'
    BY <1>3, ConstantsAssumption
    DEF Unauthorized, Abort, Goto, RolledBack, walking
<1>4. ASSUME NEW r \in Requests, Fault(r) PROVE Paths'
    BY <1>4, ConstantsAssumption DEF Fault, Abort, Goto, RolledBack, walking
<1>5. ASSUME NEW a \in Adds, NumberTaken(a) PROVE Paths'
    BY <1>5, ConstantsAssumption
    DEF NumberTaken, Abort, Goto, RolledBack, walking
<1>6. ASSUME NEW a \in Adds, NumberFree(a) PROVE Paths'
    BY <1>6, ConstantsAssumption DEF NumberFree, Goto, walking
<1>7. ASSUME NEW s \in Samples, Stamp(s) PROVE Paths'
    BY <1>7, ConstantsAssumption DEF Stamp, Goto, walking
<1>8. ASSUME NEW r \in Writes, Insert(r) PROVE Paths'
    BY <1>8, ConstantsAssumption, NextKey DEF Insert, Key, Goto, walking, AfterHandler
<1>9. ASSUME NEW r \in Writes, InsertRejected(r) PROVE Paths'
    BY <1>9, ConstantsAssumption, NextKey
    DEF InsertRejected, Key, Abort, Goto, RolledBack, walking
<1>10. ASSUME NEW r \in Writes, Commit(r) PROVE Paths'
    BY <1>10, ConstantsAssumption DEF Commit, Goto, walking
<1>11. ASSUME NEW r \in Writes, Respond(r) PROVE Paths'
    BY <1>11, ConstantsAssumption DEF Respond, Goto, walking
<1>12. ASSUME NEW r \in Writes, CommitFails(r) PROVE Paths'
    BY <1>12, ConstantsAssumption DEF CommitFails, Goto, walking
<1>13. ASSUME NEW w \in Walks, ListRows(w) PROVE Paths'
    BY <1>13, ConstantsAssumption DEF ListRows, Goto, PageRows, Visible
<1>14. ASSUME NEW w \in Walks, CountRows(w) PROVE Paths'
    BY <1>14, ConstantsAssumption DEF CountRows, Goto
<1>15. ASSUME NEW w \in Walks, NextPage(w) PROVE Paths'
    BY <1>15, ConstantsAssumption DEF NextPage, Goto
<1>16. ASSUME NEW w \in Walks, LastPage(w) PROVE Paths'
    BY <1>16, ConstantsAssumption DEF LastPage, Goto, walking
<1>17. CASE DeleteUser
    BY <1>17, ConstantsAssumption DEF DeleteUser, walking
<1>18. ASSUME NEW a \in Adds, Wait(a) PROVE Paths'
    BY <1>18, ConstantsAssumption, NextKey DEF Wait, walking
<1>19. CASE UNCHANGED vars
    BY <1>19 DEF vars, walking
<1>. QED
    BY <1>1, <1>2, <1>3, <1>4, <1>5, <1>6, <1>7, <1>8, <1>9, <1>10, <1>11,
       <1>12, <1>13, <1>14, <1>15, <1>16, <1>17, <1>18, <1>19
    DEF Next

\* The row of a write follows its program counter.
LEMMA RowStep ==
    ASSUME TypeOK, Paths, Rows, [Next]_vars
    PROVE  Rows'
<1>. USE DEF TypeOK, Requests, Writes, PCs, Fates, Tables, RowsOf, Paths, Rows
<1>1. ASSUME NEW r \in Requests, Send(r) PROVE Rows'
    BY <1>1, ConstantsAssumption DEF Send, Goto, walking, Visible, TableOf
<1>2. ASSUME NEW r \in Requests, Authenticate(r) PROVE Rows'
    BY <1>2, ConstantsAssumption DEF Authenticate, Goto, walking
<1>3. ASSUME NEW r \in Requests, Unauthorized(r) PROVE Rows'
    BY <1>3, ConstantsAssumption
    DEF Unauthorized, Abort, Goto, RolledBack, walking
<1>4. ASSUME NEW r \in Requests, Fault(r) PROVE Rows'
    BY <1>4, ConstantsAssumption DEF Fault, Abort, Goto, RolledBack, walking
<1>5. ASSUME NEW a \in Adds, NumberTaken(a) PROVE Rows'
    BY <1>5, ConstantsAssumption
    DEF NumberTaken, Abort, Goto, RolledBack, walking
<1>6. ASSUME NEW a \in Adds, NumberFree(a) PROVE Rows'
    BY <1>6, ConstantsAssumption DEF NumberFree, Goto, walking
<1>7. ASSUME NEW s \in Samples, Stamp(s) PROVE Rows'
    BY <1>7, ConstantsAssumption DEF Stamp, Goto, walking
<1>8. ASSUME NEW r \in Writes, Insert(r) PROVE Rows'
    BY <1>8, ConstantsAssumption, NextKey DEF Insert, Key, Goto, walking, AfterHandler
<1>9. ASSUME NEW r \in Writes, InsertRejected(r) PROVE Rows'
    BY <1>9, ConstantsAssumption, NextKey
    DEF InsertRejected, Key, Abort, Goto, RolledBack, walking
<1>10. ASSUME NEW r \in Writes, Commit(r) PROVE Rows'
    BY <1>10, ConstantsAssumption DEF Commit, Goto, walking
<1>11. ASSUME NEW r \in Writes, Respond(r) PROVE Rows'
    BY <1>11, ConstantsAssumption DEF Respond, Goto, walking
<1>12. ASSUME NEW r \in Writes, CommitFails(r) PROVE Rows'
    BY <1>12, ConstantsAssumption DEF CommitFails, Goto, walking
<1>13. ASSUME NEW w \in Walks, ListRows(w) PROVE Rows'
    BY <1>13, ConstantsAssumption DEF ListRows, Goto, PageRows, Visible
<1>14. ASSUME NEW w \in Walks, CountRows(w) PROVE Rows'
    BY <1>14, ConstantsAssumption DEF CountRows, Goto
<1>15. ASSUME NEW w \in Walks, NextPage(w) PROVE Rows'
    BY <1>15, ConstantsAssumption DEF NextPage, Goto
<1>16. ASSUME NEW w \in Walks, LastPage(w) PROVE Rows'
    BY <1>16, ConstantsAssumption DEF LastPage, Goto, walking
<1>17. CASE DeleteUser
    BY <1>17, ConstantsAssumption DEF DeleteUser, walking
<1>18. ASSUME NEW a \in Adds, Wait(a) PROVE Rows'
    BY <1>18, ConstantsAssumption, NextKey DEF Wait, walking
<1>19. CASE UNCHANGED vars
    BY <1>19 DEF vars, walking
<1>. QED
    BY <1>1, <1>2, <1>3, <1>4, <1>5, <1>6, <1>7, <1>8, <1>9, <1>10, <1>11,
       <1>12, <1>13, <1>14, <1>15, <1>16, <1>17, <1>18, <1>19
    DEF Next

\* No step stores a second contact of a number.
LEMMA UniqueStep ==
    ASSUME TypeOK, Paths, Rows, OneContactPerNumber, [Next]_vars
    PROVE  OneContactPerNumber'
<1>. USE DEF TypeOK, Requests, Writes, PCs, Fates, Tables, RowsOf, Paths, Rows,
            OneContactPerNumber
<1>1. ASSUME NEW r \in Requests, Send(r) PROVE OneContactPerNumber'
    BY <1>1, ConstantsAssumption DEF Send, Goto, walking, Visible, TableOf
<1>2. ASSUME NEW r \in Requests, Authenticate(r) PROVE OneContactPerNumber'
    BY <1>2, ConstantsAssumption DEF Authenticate, Goto, walking
<1>3. ASSUME NEW r \in Requests, Unauthorized(r) PROVE OneContactPerNumber'
    BY <1>3, ConstantsAssumption
    DEF Unauthorized, Abort, Goto, RolledBack, walking
<1>4. ASSUME NEW r \in Requests, Fault(r) PROVE OneContactPerNumber'
    BY <1>4, ConstantsAssumption DEF Fault, Abort, Goto, RolledBack, walking
<1>5. ASSUME NEW a \in Adds, NumberTaken(a) PROVE OneContactPerNumber'
    BY <1>5, ConstantsAssumption
    DEF NumberTaken, Abort, Goto, RolledBack, walking
<1>6. ASSUME NEW a \in Adds, NumberFree(a) PROVE OneContactPerNumber'
    BY <1>6, ConstantsAssumption DEF NumberFree, Goto, walking
<1>7. ASSUME NEW s \in Samples, Stamp(s) PROVE OneContactPerNumber'
    BY <1>7, ConstantsAssumption DEF Stamp, Goto, walking
<1>8. ASSUME NEW r \in Writes, Insert(r) PROVE OneContactPerNumber'
    BY <1>8, ConstantsAssumption, NextKey
    DEF Insert, Key, Goto, walking, AfterHandler, Contended, Rejected, Holders,
        Visible
<1>9. ASSUME NEW r \in Writes, InsertRejected(r) PROVE OneContactPerNumber'
    BY <1>9, ConstantsAssumption, NextKey
    DEF InsertRejected, Key, Abort, Goto, RolledBack, walking
<1>10. ASSUME NEW r \in Writes, Commit(r) PROVE OneContactPerNumber'
    BY <1>10, ConstantsAssumption DEF Commit, Goto, walking
<1>11. ASSUME NEW r \in Writes, Respond(r) PROVE OneContactPerNumber'
    BY <1>11, ConstantsAssumption DEF Respond, Goto, walking
<1>12. ASSUME NEW r \in Writes, CommitFails(r) PROVE OneContactPerNumber'
    BY <1>12, ConstantsAssumption DEF CommitFails, Goto, walking
<1>13. ASSUME NEW w \in Walks, ListRows(w) PROVE OneContactPerNumber'
    BY <1>13, ConstantsAssumption DEF ListRows, Goto, PageRows, Visible
<1>14. ASSUME NEW w \in Walks, CountRows(w) PROVE OneContactPerNumber'
    BY <1>14, ConstantsAssumption DEF CountRows, Goto
<1>15. ASSUME NEW w \in Walks, NextPage(w) PROVE OneContactPerNumber'
    BY <1>15, ConstantsAssumption DEF NextPage, Goto
<1>16. ASSUME NEW w \in Walks, LastPage(w) PROVE OneContactPerNumber'
    BY <1>16, ConstantsAssumption DEF LastPage, Goto, walking
<1>17. CASE DeleteUser
    BY <1>17, ConstantsAssumption DEF DeleteUser, walking
<1>18. ASSUME NEW a \in Adds, Wait(a) PROVE OneContactPerNumber'
    BY <1>18, ConstantsAssumption, NextKey DEF Wait, walking
<1>19. CASE UNCHANGED vars
    BY <1>19 DEF vars, walking
<1>. QED
    BY <1>1, <1>2, <1>3, <1>4, <1>5, <1>6, <1>7, <1>8, <1>9, <1>10, <1>11,
       <1>12, <1>13, <1>14, <1>15, <1>16, <1>17, <1>18, <1>19
    DEF Next

\* What a contact was refused for stays on record.
LEMMA RefusalStep ==
    ASSUME TypeOK, Paths, Rows, RefusalHasHolder, [Next]_vars
    PROVE  RefusalHasHolder'
<1>. USE DEF TypeOK, Requests, Writes, PCs, Fates, Tables, RowsOf, Paths, Rows,
            RefusalHasHolder
<1>1. ASSUME NEW r \in Requests, Send(r) PROVE RefusalHasHolder'
    BY <1>1, ConstantsAssumption DEF Send, Goto, walking, Visible, TableOf
<1>2. ASSUME NEW r \in Requests, Authenticate(r) PROVE RefusalHasHolder'
    BY <1>2, ConstantsAssumption DEF Authenticate, Goto, walking
<1>3. ASSUME NEW r \in Requests, Unauthorized(r) PROVE RefusalHasHolder'
    BY <1>3, ConstantsAssumption
    DEF Unauthorized, Abort, Goto, RolledBack, walking
<1>4. ASSUME NEW r \in Requests, Fault(r) PROVE RefusalHasHolder'
    BY <1>4, ConstantsAssumption DEF Fault, Abort, Goto, RolledBack, walking
<1>5. ASSUME NEW a \in Adds, NumberTaken(a) PROVE RefusalHasHolder'
    BY <1>5, ConstantsAssumption
    DEF NumberTaken, Abort, Goto, RolledBack, walking, Holders, Visible
<1>6. ASSUME NEW a \in Adds, NumberFree(a) PROVE RefusalHasHolder'
    BY <1>6, ConstantsAssumption DEF NumberFree, Goto, walking
<1>7. ASSUME NEW s \in Samples, Stamp(s) PROVE RefusalHasHolder'
    BY <1>7, ConstantsAssumption DEF Stamp, Goto, walking
<1>8. ASSUME NEW r \in Writes, Insert(r) PROVE RefusalHasHolder'
    BY <1>8, ConstantsAssumption DEF Insert, Goto, walking, AfterHandler
<1>9. ASSUME NEW r \in Writes, InsertRejected(r) PROVE RefusalHasHolder'
  <2>1. /\ \A b \in Adds : row[b] = "durable" => row'[b] = "durable"
        /\ alive' = alive /\ phone' = phone /\ faults' = faults
        /\ answer' = [answer EXCEPT ![r] = "error"]
    BY <1>9 DEF InsertRejected, Abort, RolledBack
  <2>2. r \in Adds => ~alive \/ \E b \in Adds \ {r} : row[b] = "durable" /\ phone[b] = phone[r]
    BY <1>9 DEF InsertRejected, Rejected, Holders, Visible
  <2>. QED  BY <2>1, <2>2
<1>10. ASSUME NEW r \in Writes, Commit(r) PROVE RefusalHasHolder'
    BY <1>10, ConstantsAssumption DEF Commit, Goto, walking
<1>11. ASSUME NEW r \in Writes, Respond(r) PROVE RefusalHasHolder'
    BY <1>11, ConstantsAssumption DEF Respond, Goto, walking
<1>12. ASSUME NEW r \in Writes, CommitFails(r) PROVE RefusalHasHolder'
    BY <1>12, ConstantsAssumption DEF CommitFails, Goto, walking
<1>13. ASSUME NEW w \in Walks, ListRows(w) PROVE RefusalHasHolder'
    BY <1>13, ConstantsAssumption DEF ListRows, Goto, PageRows, Visible
<1>14. ASSUME NEW w \in Walks, CountRows(w) PROVE RefusalHasHolder'
    BY <1>14, ConstantsAssumption DEF CountRows, Goto
<1>15. ASSUME NEW w \in Walks, NextPage(w) PROVE RefusalHasHolder'
    BY <1>15, ConstantsAssumption DEF NextPage, Goto
<1>16. ASSUME NEW w \in Walks, LastPage(w) PROVE RefusalHasHolder'
    BY <1>16, ConstantsAssumption DEF LastPage, Goto, walking
<1>17. CASE DeleteUser
    BY <1>17, ConstantsAssumption DEF DeleteUser, walking
<1>18. ASSUME NEW a \in Adds, Wait(a) PROVE RefusalHasHolder'
    BY <1>18, ConstantsAssumption DEF Wait, walking
<1>19. CASE UNCHANGED vars
    BY <1>19 DEF vars, walking
<1>. QED
    BY <1>1, <1>2, <1>3, <1>4, <1>5, <1>6, <1>7, <1>8, <1>9, <1>10, <1>11,
       <1>12, <1>13, <1>14, <1>15, <1>16, <1>17, <1>18, <1>19
    DEF Next

\* A stored row keeps its place: it stays stored with its keys, unless all go.
LEMMA StaysStep ==
    ASSUME TypeOK, Paths, Rows, [Next]_vars
    PROVE  Stays
<1>. USE DEF TypeOK, Requests, Writes, PCs, Fates, Tables, RowsOf, Paths, Rows,
            Stays
<1>1. ASSUME NEW r \in Requests, Send(r) PROVE Stays
    BY <1>1, ConstantsAssumption DEF Send, Goto, walking, Visible, TableOf
<1>2. ASSUME NEW r \in Requests, Authenticate(r) PROVE Stays
    BY <1>2, ConstantsAssumption DEF Authenticate, Goto, walking
<1>3. ASSUME NEW r \in Requests, Unauthorized(r) PROVE Stays
    BY <1>3, ConstantsAssumption
    DEF Unauthorized, Abort, Goto, RolledBack, walking
<1>4. ASSUME NEW r \in Requests, Fault(r) PROVE Stays
    BY <1>4, ConstantsAssumption DEF Fault, Abort, Goto, RolledBack, walking
<1>5. ASSUME NEW a \in Adds, NumberTaken(a) PROVE Stays
    BY <1>5, ConstantsAssumption
    DEF NumberTaken, Abort, Goto, RolledBack, walking
<1>6. ASSUME NEW a \in Adds, NumberFree(a) PROVE Stays
    BY <1>6, ConstantsAssumption DEF NumberFree, Goto, walking
<1>7. ASSUME NEW s \in Samples, Stamp(s) PROVE Stays
    BY <1>7, ConstantsAssumption DEF Stamp, Goto, walking
<1>8. ASSUME NEW r \in Writes, Insert(r) PROVE Stays
    BY <1>8, ConstantsAssumption, NextKey DEF Insert, Key, Goto, walking, AfterHandler
<1>9. ASSUME NEW r \in Writes, InsertRejected(r) PROVE Stays
    BY <1>9, ConstantsAssumption, NextKey
    DEF InsertRejected, Key, Abort, Goto, RolledBack, walking
<1>10. ASSUME NEW r \in Writes, Commit(r) PROVE Stays
    BY <1>10, ConstantsAssumption DEF Commit, Goto, walking
<1>11. ASSUME NEW r \in Writes, Respond(r) PROVE Stays
    BY <1>11, ConstantsAssumption DEF Respond, Goto, walking
<1>12. ASSUME NEW r \in Writes, CommitFails(r) PROVE Stays
    BY <1>12, ConstantsAssumption DEF CommitFails, Goto, walking
<1>13. ASSUME NEW w \in Walks, ListRows(w) PROVE Stays
    BY <1>13, ConstantsAssumption DEF ListRows, Goto, PageRows, Visible
<1>14. ASSUME NEW w \in Walks, CountRows(w) PROVE Stays
    BY <1>14, ConstantsAssumption DEF CountRows, Goto
<1>15. ASSUME NEW w \in Walks, NextPage(w) PROVE Stays
    BY <1>15, ConstantsAssumption DEF NextPage, Goto
<1>16. ASSUME NEW w \in Walks, LastPage(w) PROVE Stays
    BY <1>16, ConstantsAssumption DEF LastPage, Goto, walking
<1>17. CASE DeleteUser
    BY <1>17, ConstantsAssumption DEF DeleteUser, walking
<1>18. ASSUME NEW a \in Adds, Wait(a) PROVE Stays
    BY <1>18, ConstantsAssumption, NextKey DEF Wait, walking
<1>19. CASE UNCHANGED vars
    BY <1>19 DEF vars, walking
<1>. QED
    BY <1>1, <1>2, <1>3, <1>4, <1>5, <1>6, <1>7, <1>8, <1>9, <1>10, <1>11,
       <1>12, <1>13, <1>14, <1>15, <1>16, <1>17, <1>18, <1>19
    DEF Next

\* Every key lies below the next one.
LEMMA KeyStep ==
    ASSUME TypeOK, Paths, Rows, KeysBounded, [Next]_vars
    PROVE  KeysBounded'
<1>. USE DEF TypeOK, Requests, Writes
<1>1. id' = id \/ \E r \in Writes : id[r] = 0 /\ id' = [id EXCEPT ![r] = NextId]
    BY DEF Next, vars, Send, Authenticate, Unauthorized, Fault, NumberTaken, NumberFree, Stamp,
        Wait, Insert, InsertRejected, Key, Commit, Respond, CommitFails, ListRows, CountRows,
        NextPage, LastPage, DeleteUser
<1>2. \A x \in Writes : id'[x] <= Cardinality(Keyed)'
    <2>1. CASE id' = id
        <3>. Cardinality(Keyed)' = Cardinality(Keyed)
            BY <2>1 DEF Keyed
        <3>. QED  BY <2>1 DEF KeysBounded
    <2>2. ASSUME NEW r \in Writes, id[r] = 0, id' = [id EXCEPT ![r] = NextId]
          PROVE  \A x \in Writes : id'[x] <= Cardinality(Keyed)'
        <3>1. Cardinality(Keyed)' = NextId
            BY <2>2, KeyTaken
        <3>. QED  BY <2>2, <3>1, NextKey DEF KeysBounded
    <2>. QED  BY <1>1, <2>1, <2>2
<1>3. \A s \in Samples : stamp'[s] <= now'
    <2>1. (stamp' = stamp /\ now' = now) \/ \E s \in Samples : Stamp(s)
        BY DEF Next, vars, Send, Authenticate, Unauthorized, Fault, NumberTaken, NumberFree,
            Wait, Insert, InsertRejected, Commit, Respond, CommitFails, ListRows, CountRows,
            NextPage, LastPage, DeleteUser, Abort
    <2>2. ASSUME NEW s \in Samples, Stamp(s) PROVE \A q \in Samples : stamp'[q] <= now'
        BY <2>2, ConstantsAssumption DEF Stamp, KeysBounded
    <2>. QED  BY <2>1, <2>2 DEF KeysBounded
<1>. QED  BY <1>2, <1>3 DEF KeysBounded


\* Keys and timestamps follow the order of the requests.
LEMMA FollowStep ==
    ASSUME TypeOK, Paths, Rows, KeysBounded, Follows, [Next]_vars
    PROVE  Follows'
<1>. USE DEF TypeOK, Requests, Writes, PCs, Fates, Tables, RowsOf, Paths, Rows,
            KeysBounded, Follows
<1>1. ASSUME NEW r \in Requests, Send(r) PROVE Follows'
    BY <1>1, ConstantsAssumption DEF Send, Goto, walking, Visible, TableOf
<1>2. ASSUME NEW r \in Requests, Authenticate(r) PROVE Follows'
    BY <1>2, ConstantsAssumption DEF Authenticate, Goto, walking
<1>3. ASSUME NEW r \in Requests, Unauthorized(r) PROVE Follows'
    BY <1>3, ConstantsAssumption
    DEF Unauthorized, Abort, Goto, RolledBack, walking
<1>4. ASSUME NEW r \in Requests, Fault(r) PROVE Follows'
    BY <1>4, ConstantsAssumption DEF Fault, Abort, Goto, RolledBack, walking
<1>5. ASSUME NEW a \in Adds, NumberTaken(a) PROVE Follows'
    BY <1>5, ConstantsAssumption
    DEF NumberTaken, Abort, Goto, RolledBack, walking
<1>6. ASSUME NEW a \in Adds, NumberFree(a) PROVE Follows'
    BY <1>6, ConstantsAssumption DEF NumberFree, Goto, walking
<1>7. ASSUME NEW s \in Samples, Stamp(s) PROVE Follows'
    BY <1>7, ConstantsAssumption DEF Stamp, Goto, walking
<1>8. ASSUME NEW r \in Writes, Insert(r) PROVE Follows'
    BY <1>8, ConstantsAssumption, NextKey DEF Insert, Key, Goto, walking, AfterHandler
<1>9. ASSUME NEW r \in Writes, InsertRejected(r) PROVE Follows'
    BY <1>9, ConstantsAssumption, NextKey
    DEF InsertRejected, Key, Abort, Goto, RolledBack, walking
<1>10. ASSUME NEW r \in Writes, Commit(r) PROVE Follows'
    BY <1>10, ConstantsAssumption DEF Commit, Goto, walking
<1>11. ASSUME NEW r \in Writes, Respond(r) PROVE Follows'
    BY <1>11, ConstantsAssumption DEF Respond, Goto, walking
<1>12. ASSUME NEW r \in Writes, CommitFails(r) PROVE Follows'
    BY <1>12, ConstantsAssumption DEF CommitFails, Goto, walking
<1>13. ASSUME NEW w \in Walks, ListRows(w) PROVE Follows'
    BY <1>13, ConstantsAssumption DEF ListRows, Goto, PageRows, Visible
<1>14. ASSUME NEW w \in Walks, CountRows(w) PROVE Follows'
    BY <1>14, ConstantsAssumption DEF CountRows, Goto
<1>15. ASSUME NEW w \in Walks, NextPage(w) PROVE Follows'
    BY <1>15, ConstantsAssumption DEF NextPage, Goto
<1>16. ASSUME NEW w \in Walks, LastPage(w) PROVE Follows'
    BY <1>16, ConstantsAssumption DEF LastPage, Goto, walking
<1>17. CASE DeleteUser
    BY <1>17, ConstantsAssumption DEF DeleteUser, walking
<1>18. ASSUME NEW a \in Adds, Wait(a) PROVE Follows'
    BY <1>18, ConstantsAssumption, NextKey DEF Wait, walking
<1>19. CASE UNCHANGED vars
    BY <1>19 DEF vars, walking
<1>. QED
    BY <1>1, <1>2, <1>3, <1>4, <1>5, <1>6, <1>7, <1>8, <1>9, <1>10, <1>11,
       <1>12, <1>13, <1>14, <1>15, <1>16, <1>17, <1>18, <1>19
    DEF Next
\* No row moves towards the front of its list.
LEMMA NoneMovesUp ==
    ASSUME TypeOK, TypeOK', Stays, NEW t \in Tables, NEW x \in RowsOf(t),
           row[x] = "durable", row'[x] = "durable"
    PROVE  Position(t, x) <= Position(t, x)'
<1>. DEFINE Above == {y \in Visible(t) : Before(t, y, x)}
<1>. RowsOf(t) \subseteq Writes
    BY DEF RowsOf, Writes
<1>1. \A y \in Writes :
          row[y] = "durable" =>
              /\ row'[y] = "durable"
              /\ id'[y] = id[y]
              /\ y \in Samples => stamp'[y] = stamp[y]
    BY DEF Stays
<1>2. Above \in SUBSET (Above')
    <2>. SUFFICES ASSUME NEW y \in Visible(t), Before(t, y, x)
                  PROVE  y \in Visible(t)' /\ Before(t, y, x)'
        OBVIOUS
    <2>1. y \in RowsOf(t) /\ row[y] = "durable"
        BY DEF Visible
    <2>2. y \in Visible(t)'
        BY <1>1, <2>1 DEF Visible
    <2>3. id'[y] = id[y] /\ id'[x] = id[x]
        BY <1>1, <2>1
    <2>4. CASE t = "contacts"
        BY <2>3, <2>4, <2>2 DEF Before
    <2>5. CASE t = "history"
        <3>1. stamp'[y] = stamp[y] /\ stamp'[x] = stamp[x]
            BY <1>1, <2>1, <2>5 DEF RowsOf
        <3>. QED  BY <3>1, <2>3, <2>5, <2>2 DEF Before
    <2>. QED  BY <2>4, <2>5 DEF Tables
<1>3. IsFiniteSet(Above')
    <2>. Above' \in SUBSET Writes
        BY DEF Visible, RowsOf, Writes
    <2>. QED  BY FS_Subset, ConstantsAssumption
<1>4. Cardinality(Above) <= Cardinality(Above')
    BY <1>2, <1>3, FS_Subset
<1>. QED  BY <1>4 DEF Position

\* Where a walk stands, in numbers.
LEMMA Offsets ==
    ASSUME TypeOK, NEW w \in Walks
    PROVE  /\ Offset(w) \in Nat
           /\ page[w] * Limit = Offset(w) + Limit
           /\ page[w] = 1 => Offset(w) = 0
BY ConstantsAssumption DEF TypeOK, Offset

\* A step of w, or of anybody else, leaves no row behind that w has to see.
LEMMA WalkStep ==
    ASSUME TypeOK, TypeOK', Paths, AllWalked, Stays, [Next]_vars
    PROVE  AllWalked'
<1>. SUFFICES ASSUME NEW w \in Walks PROVE Walked(w)'
    BY DEF AllWalked
<1>. USE DEF TypeOK, Requests
<1>a. Walked(w)
    BY DEF AllWalked
<1>d. Offset(w) \in Nat /\ Limit \in Nat /\ page[w] * Limit = Offset(w) + Limit
          /\ (page[w] = 1 => Offset(w) = 0)
    BY Offsets, ConstantsAssumption
<1>e. table' = table
    BY DEF Next, vars, walking, Send, Authenticate, Unauthorized, Fault, NumberTaken, NumberFree,
        Stamp, Wait, Insert, InsertRejected, Commit, Respond, CommitFails, ListRows, CountRows,
        NextPage, LastPage, DeleteUser, Abort
<1>t. PICK t \in Tables : t = table[w] /\ t = table'[w]
    BY <1>e
<1>b. \A x \in RowsOf(t) :
          row[x] = "durable" /\ row'[x] = "durable" => Position(t, x) <= Position(t, x)'
    BY NoneMovesUp
<1>c. \A x : Position(t, x) \in Nat /\ Position(t, x)' \in Nat
    BY Counts, CountsAfter
<1>f. /\ \A x \in known[w] : x \in Writes /\ x \in RowsOf(t)
      /\ \A x \in known[w] : row'[x] \in {"durable", "erased"}
      /\ \A x \in known[w] : row'[x] = "durable" => row[x] = "durable"
    BY <1>a, <1>t DEF Walked, Stays, RowsOf, Writes
<1>. DEFINE Standing ==
        /\ page'[w] = page[w]
        /\ seen'[w] = seen[w]
        /\ known'[w] = known[w]
<1>g. ASSUME Standing PROVE Offset(w)' = Offset(w)
    BY <1>g DEF Offset
<1>h. ASSUME Standing, pc'[w] = pc[w], total'[w] = total[w], answer'[w] = answer[w]
      PROVE  Walked(w)'
    BY <1>h, <1>g, <1>a, <1>b, <1>c, <1>d, <1>t, <1>f DEF Walked
\* A step that ends the walk without its last page.
<1>i. ASSUME Standing, pc'[w] = "done", answer'[w] # "listed" PROVE Walked(w)'
    BY <1>i, <1>g, <1>t, <1>f DEF Walked
<1>1. ASSUME NEW r \in Requests, Send(r) PROVE Walked(w)'
    <2>1. CASE r = w
        <3>1. pc[w] = "idle" /\ page[w] = 1 /\ answer[w] = "none"
            BY <1>1, <2>1 DEF Paths, Send
        <3>2. page' = page /\ seen' = seen /\ answer' = answer /\ row' = row
              /\ pc'[w] = "auth" /\ known'[w] = Visible(t)
            BY <1>1, <2>1, <1>t, ConstantsAssumption DEF Send, Goto, walking
        <3>3. Offset(w)' = 0
            BY <3>1, <3>2, <1>d DEF Offset
        <3>4. \A x : Position(t, x)' \in Nat
            BY <1>c
        <3>. QED  BY <3>1, <3>2, <3>3, <3>4, <1>t DEF Walked, Visible
    <2>2. CASE r # w
        BY <1>1, <2>2, <1>h DEF Send, Goto, walking
    <2>. QED  BY <2>1, <2>2
<1>2. ASSUME NEW r \in Requests, Authenticate(r) PROVE Walked(w)'
    <2>1. CASE r = w
        <3>1. pc[w] = "auth" /\ pc'[w] = "list" /\ Standing /\ answer'[w] = answer[w]
            BY <1>2, <2>1, ConstantsAssumption DEF Authenticate, Goto, walking, Writes
        <3>2. answer[w] = "none"
            BY <3>1 DEF Paths
        <3>. QED
            BY <3>1, <3>2, <1>g, <1>a, <1>b, <1>c, <1>d, <1>t, <1>f DEF Walked
    <2>2. CASE r # w
        BY <1>2, <2>2, <1>h DEF Authenticate, Goto, walking
    <2>. QED  BY <2>1, <2>2
<1>3. ASSUME NEW r \in Requests, Unauthorized(r) PROVE Walked(w)'
    <2>1. CASE r = w
        BY <1>3, <2>1, <1>i DEF Unauthorized, Abort, Goto, walking
    <2>2. CASE r # w
        BY <1>3, <2>2, <1>h DEF Unauthorized, Abort, Goto, walking
    <2>. QED  BY <2>1, <2>2
<1>4. ASSUME NEW r \in Requests, Fault(r) PROVE Walked(w)'
    <2>1. CASE r = w
        BY <1>4, <2>1, <1>i DEF Fault, Abort, Goto, walking
    <2>2. CASE r # w
        BY <1>4, <2>2, <1>h DEF Fault, Abort, Goto, walking
    <2>. QED  BY <2>1, <2>2
<1>5. ASSUME NEW r \in Writes,
             \/ r \in Adds /\ (NumberTaken(r) \/ NumberFree(r) \/ Wait(r))
             \/ r \in Samples /\ Stamp(r)
             \/ Insert(r) \/ InsertRejected(r) \/ Commit(r) \/ Respond(r) \/ CommitFails(r)
      PROVE  Walked(w)'
    <2>. r # w
        BY ConstantsAssumption
    <2>. QED
        BY <1>5, <1>h DEF NumberTaken, NumberFree, Stamp, Wait, Insert, InsertRejected, Commit,
            Respond, CommitFails, Abort, Goto, walking
<1>6. ASSUME NEW v \in Walks, ListRows(v) PROVE Walked(w)'
    <2>1. CASE v = w
        <3>1. /\ pc[w] = "list" /\ pc'[w] = "count" /\ answer'[w] = answer[w]
              /\ page' = page /\ known' = known /\ row' = row /\ id' = id /\ stamp' = stamp
              /\ seen'[w] = seen[w] \cup PageRows(w)
            BY <1>6, <2>1 DEF ListRows, Goto
        <3>2. Offset(w)' = Offset(w)
            BY <3>1 DEF Offset
        <3>3. answer[w] = "none"
            BY <3>1 DEF Paths
        <3>4. ASSUME NEW x \in known[w], row[x] = "durable", x \notin seen'[w]
              PROVE  Position(t, x)' >= Offset(w) + Limit
            <4>1. x \in Visible(t) /\ x \notin PageRows(w) /\ x \notin seen[w]
                BY <3>1, <3>4, <1>f DEF Visible
            <4>2. Position(t, x) >= Offset(w)
                BY <4>1, <3>1, <3>4, <1>a, <1>t DEF Walked
            <4>3. Position(t, x) \notin Offset(w)..(Offset(w) + Limit - 1)
                BY <4>1, <1>t DEF PageRows
            <4>4. Position(t, x) >= Offset(w) + Limit
                BY <4>2, <4>3, <1>c, <1>d
            <4>5. Position(t, x)' \in Nat /\ Position(t, x) <= Position(t, x)'
                BY <1>b, <1>t, <1>c, <1>f, <3>1, <3>4
            <4>. QED  BY <4>4, <4>5, <1>c, <1>d
        <3>. QED  BY <3>1, <3>2, <3>3, <3>4, <1>t, <1>f DEF Walked
    <2>2. CASE v # w
        BY <1>6, <2>2, <1>h DEF ListRows, Goto
    <2>. QED  BY <2>1, <2>2
<1>7. ASSUME NEW v \in Walks, CountRows(v) PROVE Walked(w)'
    <2>1. CASE v = w
        <3>1. /\ pc[w] = "count" /\ pc'[w] = "next" /\ answer'[w] = answer[w] /\ Standing
              /\ row' = row /\ total'[w] = Cardinality(Visible(t))
            BY <1>7, <2>1, <1>t DEF CountRows, Goto, Total
        <3>2. answer[w] = "none"
            BY <3>1 DEF Paths
        <3>3. ASSUME NEW x \in known[w], row[x] = "durable", x \notin seen[w]
              PROVE  total'[w] > Offset(w) + Limit /\ Position(t, x)' >= Offset(w) + Limit
            <4>1. Position(t, x) >= Offset(w) + Limit
                BY <3>1, <3>3, <1>a, <1>t DEF Walked
            <4>2. x \in Visible(t)
                BY <3>3, <1>f DEF Visible
            <4>3. Position(t, x) < Cardinality(Visible(t))
                BY <4>2, TotalCovers
            <4>4. Position(t, x)' \in Nat /\ Position(t, x) <= Position(t, x)'
                BY <1>b, <1>t, <1>c, <1>f, <3>1, <3>3
            <4>5. Cardinality(Visible(t)) \in Nat
                BY Counts
            <4>. QED  BY <4>1, <4>3, <4>4, <4>5, <1>c, <1>d, <3>1
        <3>. QED  BY <3>1, <3>2, <3>3, <1>g, <1>t, <1>f DEF Walked
    <2>2. CASE v # w
        BY <1>7, <2>2, <1>h DEF CountRows, Goto
    <2>. QED  BY <2>1, <2>2
<1>8. ASSUME NEW v \in Walks, NextPage(v) PROVE Walked(w)'
    <2>1. CASE v = w
        <3>1. /\ pc[w] = "next" /\ pc'[w] = "auth" /\ answer'[w] = answer[w]
              /\ row' = row /\ seen' = seen /\ known' = known /\ page'[w] = page[w] + 1
            BY <1>8, <2>1 DEF NextPage, Goto
        <3>2. answer[w] = "none"
            BY <3>1 DEF Paths
        <3>3. Offset(w)' = Offset(w) + Limit
            <4>. page'[w] - 1 = page[w]
                BY <3>1
            <4>. QED  BY <1>d DEF Offset
        <3>. QED
            BY <3>1, <3>2, <3>3, <1>a, <1>b, <1>c, <1>d, <1>t, <1>f DEF Walked
    <2>2. CASE v # w
        BY <1>8, <2>2, <1>h DEF NextPage, Goto
    <2>. QED  BY <2>1, <2>2
<1>9. ASSUME NEW v \in Walks, LastPage(v) PROVE Walked(w)'
    <2>1. CASE v = w
        <3>1. /\ pc[w] = "next" /\ pc'[w] = "done" /\ Standing /\ row' = row
              /\ page[w] * Limit >= total[w]
            BY <1>9, <2>1 DEF LastPage, Goto, walking
        <3>2. \A x \in known[w] : row[x] = "durable" => x \in seen[w]
            BY <3>1, <1>a, <1>d DEF Walked
        <3>. QED  BY <3>1, <3>2, <1>t, <1>f DEF Walked
    <2>2. CASE v # w
        BY <1>9, <2>2, <1>h DEF LastPage, Goto, walking
    <2>. QED  BY <2>1, <2>2
<1>10. CASE DeleteUser
    BY <1>10, <1>h DEF DeleteUser, walking
<1>11. CASE UNCHANGED vars
    BY <1>11, <1>h DEF vars, walking
<1>. QED
    BY <1>1, <1>2, <1>3, <1>4, <1>5, <1>6, <1>7, <1>8, <1>9, <1>10, <1>11 DEF Next, Writes

-----------------------------------------------------------------------------
\* The initial state satisfies the invariant.
LEMMA IInvInit == Init => IInv
<1>. SUFFICES ASSUME Init PROVE IInv
    OBVIOUS
<1>. USE ConstantsAssumption DEF Init, Requests, Writes
<1>1. TypeOK
    BY DEF TypeOK, PCs, Fates, Tables, Answers
<1>2. Paths /\ Rows
    BY DEF Paths, Rows
<1>3. OneContactPerNumber /\ RefusalHasHolder
    BY DEF OneContactPerNumber, RefusalHasHolder
<1>4. KeysBounded
    BY <1>1, NextKey DEF KeysBounded
<1>5. Follows /\ AllWalked
    BY DEF Follows, AllWalked, Walked
<1>. QED  BY <1>1, <1>2, <1>3, <1>4, <1>5 DEF IInv

\* Every step preserves the invariant.
LEMMA IInvStep == IInv /\ [Next]_vars => IInv'
<1>. SUFFICES ASSUME IInv, [Next]_vars PROVE IInv'
    OBVIOUS
<1>1. TypeOK'
    BY TypeOKStep DEF IInv
<1>2. Paths' /\ Rows' /\ Stays
    BY PathStep, RowStep, StaysStep DEF IInv
<1>3. OneContactPerNumber' /\ RefusalHasHolder'
    BY UniqueStep, RefusalStep DEF IInv
<1>4. KeysBounded' /\ Follows'
    BY KeyStep, FollowStep DEF IInv
<1>5. AllWalked'
    BY <1>1, <1>2, WalkStep DEF IInv
<1>. QED  BY <1>1, <1>2, <1>3, <1>4, <1>5 DEF IInv

\* The invariant holds in every reachable state.
THEOREM Invariance == Spec => []IInv
BY IInvInit, IInvStep, PTL DEF Spec

\* Types, for every instance.
THEOREM TypeCorrect == Spec => []TypeOK
BY Invariance, PTL DEF IInv

\* A user never has two contacts of one number, however additions overlap.
THEOREM UniqueNumbers == Spec => []OneContactPerNumber
BY Invariance, PTL DEF IInv

\* A refused contact was refused for a reason that is still there.
THEOREM RefusalsAreJustified == Spec => []RefusalHasHolder
BY Invariance, PTL DEF IInv

\* A walk through either list shows every row stored when it began, for every
\* page size and however many rows are added meanwhile.
THEOREM WalksSkipNothing == Spec => []NoneSkipped
<1>1. IInv => NoneSkipped
    BY DEF IInv, AllWalked, Walked, NoneSkipped
<1>. QED  BY <1>1, Invariance, PTL

\* If y's key and timestamp follow x's, then so does its place.
LEMMA FollowerIsListedAfter ==
    ASSUME IInv, NEW y \in Writes, NEW x \in known[y], row[x] = "durable", row[y] = "durable"
    PROVE  IF y \in Adds THEN Position("contacts", x) < Position("contacts", y)
           ELSE Position("history", y) < Position("history", x)
<1>. USE DEF IInv
<1>1. /\ x \in Writes /\ (y \in Adds <=> x \in Adds) /\ id[x] < id[y]
      /\ (y \in Samples => x \in Samples /\ stamp[x] <= stamp[y])
    <2>1. id[y] # 0
        BY DEF Rows
    <2>. QED  BY <2>1, ConstantsAssumption DEF Follows, Writes
<1>2. CASE y \in Adds
    <2>. DEFINE Above(z) == {v \in Visible("contacts") : Before("contacts", v, z)}
    <2>1. x \in Visible("contacts") /\ y \in Visible("contacts") /\ Visible("contacts") \subseteq Writes
        BY <1>1, <1>2 DEF Visible, RowsOf, Writes
    <2>2. Above(x) \subseteq Above(y) /\ x \in Above(y) /\ x \notin Above(x)
        BY <1>1, <2>1 DEF Before, TypeOK
    <2>3. Cardinality(Above(x)) < Cardinality(Above(y))
        BY <2>2, StrictlyFewer, Counts DEF Tables
    <2>. QED  BY <1>2, <2>3 DEF Position
<1>3. CASE y \notin Adds
    <2>. DEFINE Above(z) == {v \in Visible("history") : Before("history", v, z)}
    <2>1. y \in Samples /\ x \in Samples /\ x \in Visible("history") /\ y \in Visible("history")
          /\ Visible("history") \subseteq Samples
        BY <1>1, <1>3 DEF Visible, RowsOf, Writes
    <2>2. Above(y) \subseteq Above(x) /\ y \in Above(x) /\ y \notin Above(y)
        BY <1>1, <2>1 DEF Before, TypeOK, Writes
    <2>3. Cardinality(Above(y)) < Cardinality(Above(x))
        BY <2>2, StrictlyFewer, Counts DEF Tables
    <2>. QED  BY <1>3, <2>3 DEF Position
<1>. QED  BY <1>2, <1>3

\* Lists are in the order of the requests: whoever was answered before another
\* was sent is listed as the earlier of the two.
THEOREM ListsFollowRequests == Spec => []ListedInRequestOrder
<1>1. IInv => ListedInRequestOrder
    BY FollowerIsListedAfter DEF ListedInRequestOrder
<1>. QED  BY <1>1, Invariance, PTL

-----------------------------------------------------------------------------
\* Records implements Register if the commit precedes the response.

\* At first there is no contact and no answer.
LEMMA BookInit == Init => Book!Init
BY DEF Init, Book!Init, Requests, Writes

\* A step that neither stores, erases nor answers a contact is invisible.
LEMMA Unseen ==
    ASSUME UNCHANGED phone,
           \A a \in Adds :
              /\ (row[a] = "durable")' <=> row[a] = "durable"
              /\ (row[a] = "erased")' <=> row[a] = "erased"
              /\ answer'[a] = answer[a]
    PROVE  UNCHANGED Book!registerVars
BY DEF Book!registerVars

\* A step of another request is invisible.
LEMMA OthersUnseen ==
    ASSUME UNCHANGED phone, \A a \in Adds : row'[a] = row[a] /\ answer'[a] = answer[a]
    PROVE  UNCHANGED Book!registerVars
BY Unseen

\* A step that changes nothing but a contact's answer answers it.
LEMMA Answering ==
    ASSUME NEW a \in Adds, NEW s,
           answer[a] = "none",
           answer'[a] = s,
           \A b \in Adds \ {a} : answer'[b] = answer[b],
           UNCHANGED phone,
           \A b \in Adds :
              /\ (row[b] = "durable")' <=> row[b] = "durable"
              /\ (row[b] = "erased")' <=> row[b] = "erased"
    PROVE  Book!Answer(a, s)
BY DEF Book!Answer

\* A request that aborts before its INSERT has stored nothing; if it adds a
\* contact, it is told so.
LEMMA AbortIsRefusal ==
    ASSUME IInv, NEW r \in Requests, NEW s \in {"duplicate", "unauthorized", "error"},
           Abort(r, s), pc[r] \in {"auth", "check", "insert", "list", "count"}
    PROVE  /\ r \notin Adds => UNCHANGED Book!registerVars
           /\ r \in Adds => r \notin Book!Ever /\ Book!Answer(r, s)
<1>1. /\ \A a \in Adds : row'[a] = row[a]
      /\ UNCHANGED phone
      /\ answer' = [answer EXCEPT ![r] = s]
    BY DEF Abort, RolledBack, IInv, TypeOK, Rows, Writes
<1>2. CASE r \notin Adds
    BY <1>1, <1>2, OthersUnseen DEF IInv, TypeOK, Requests, Writes
<1>3. CASE r \in Adds
    <2>1. row[r] = "none" /\ answer[r] = "none"
        BY <1>3 DEF IInv, Rows, Paths, Requests, Writes
    <2>2. answer'[r] = s /\ \A a \in Adds \ {r} : answer'[a] = answer[a]
        BY <1>1, <1>3 DEF IInv, TypeOK, Requests, Writes
    <2>3. Book!Answer(r, s)
        BY <1>1, <1>3, <2>1, <2>2, Answering
    <2>. QED
        BY <1>3, <2>1, <2>3 DEF Book!Ever
<1>. QED
    BY <1>2, <1>3

\* A refusal for a reason of its own.
LEMMA RefusalIsSeen ==
    ASSUME IInv, NEW r \in Requests, Unauthorized(r) \/ Fault(r)
    PROVE  [Book!Next]_(Book!registerVars)
<1>1. PICK s \in {"unauthorized", "error"} : Abort(r, s)
    BY DEF Unauthorized, Fault
<1>2. pc[r] \in {"auth", "check", "insert", "list", "count"}
    BY DEF Unauthorized, Fault
<1>. QED
    BY <1>1, <1>2, AbortIsRefusal DEF Book!Next

\* The number of a contact is looked up.
LEMMA LookupIsSeen ==
    ASSUME IInv, NEW a \in Adds, NumberTaken(a) \/ NumberFree(a)
    PROVE  [Book!Next]_(Book!registerVars)
<1>1. CASE NumberTaken(a)
    <2>1. a \notin Book!Ever /\ Book!Answer(a, "duplicate")
        BY <1>1, AbortIsRefusal DEF NumberTaken, Requests, Writes
    <2>2. \E b \in Adds : row[b] = "durable" /\ phone[b] = phone[a]
        BY <1>1 DEF NumberTaken, Holders, Visible, RowsOf
    <2>3. Book!RefuseTaken(a)
        BY <2>1, <2>2 DEF Book!RefuseTaken
    <2>. QED
        BY <2>1, <2>3 DEF Book!Next
<1>2. CASE NumberFree(a)
    BY <1>2, OthersUnseen DEF NumberFree
<1>. QED
    BY <1>1, <1>2

\* A write inserts its uncommitted row, or is rejected.
LEMMA InsertIsSeen ==
    ASSUME IInv, NEW r \in Writes, Insert(r) \/ InsertRejected(r)
    PROVE  [Book!Next]_(Book!registerVars)
<1>1. CASE Insert(r)
    <2>1. /\ row[r] = "none" /\ row'[r] = "pending"
          /\ \A q \in Writes \ {r} : row'[q] = row[q]
        BY <1>1 DEF Insert, IInv, Rows, TypeOK
    <2>. QED
        BY <1>1, <2>1, Unseen DEF Insert, Writes
<1>2. CASE InsertRejected(r)
    <2>1. Abort(r, "error") /\ pc[r] = "insert" /\ r \in Requests
        BY <1>2 DEF InsertRejected, Requests
    <2>. QED
        BY <2>1, AbortIsRefusal DEF Book!Next
<1>. QED
    BY <1>1, <1>2

\* A commit that applies stores the contact; no other has its number.
LEMMA Entering ==
    ASSUME IInv, NEW a \in Adds, row[a] = "pending",
           row' = [row EXCEPT ![a] = "durable"],
           answer[a] = "none",
           UNCHANGED answer \/ answer' = [answer EXCEPT ![a] = "error"],
           UNCHANGED phone
    PROVE  Book!Next
<1>1. a \notin Book!Ever
    BY DEF Book!Ever
<1>2. \A b \in Adds : row[b] = "durable" => phone[b] # phone[a]
    BY DEF IInv, OneContactPerNumber
<1>3. /\ {b \in Adds : row[b] = "durable"}' = {b \in Adds : row[b] = "durable"} \cup {a}
      /\ {b \in Adds : row[b] = "erased"}' = {b \in Adds : row[b] = "erased"}
    BY DEF IInv, TypeOK, Writes
<1>4. \/ \A b \in Adds : answer'[b] = answer[b]
      \/ answer'[a] = "error" /\ \A b \in Adds \ {a} : answer'[b] = answer[b]
    BY DEF IInv, TypeOK, Requests, Writes
<1>5. Book!Enter(a)
    BY <1>2, <1>3, <1>4 DEF Book!Enter
<1>. QED
    BY <1>1, <1>5 DEF Book!Next

\* The end of a write: its row is stored, then the client is told.
LEMMA EndIsSeen ==
    ASSUME IInv, CommitBeforeResponse, NEW r \in Writes,
           Commit(r) \/ Respond(r) \/ CommitFails(r)
    PROVE  [Book!Next]_(Book!registerVars)
<1>1. CASE r \notin Adds
    <2>1. UNCHANGED phone /\ \A a \in Adds : row'[a] = row[a] /\ answer'[a] = answer[a]
        BY <1>1 DEF Commit, Respond, CommitFails, IInv, TypeOK, Requests, Writes
    <2>. QED
        BY <2>1, OthersUnseen
<1>2. CASE r \in Adds
    <2>1. answer[r] = "none"
        BY DEF Commit, Respond, CommitFails, IInv, Paths, Requests
    <2>2. CASE Respond(r)
        <3>1. /\ row[r] \in {"durable", "erased"}
              /\ answer'[r] = "created"
              /\ \A a \in Adds \ {r} : answer'[a] = answer[a]
              /\ UNCHANGED <<row, phone>>
            BY <1>2, <2>2 DEF Respond, IInv, Rows, TypeOK, Requests, Writes
        <3>2. Book!Answer(r, "created")
            BY <1>2, <2>1, <3>1, Answering
        <3>3. r \in Book!Ever
            BY <1>2, <3>1 DEF Book!Ever
        <3>. QED
            BY <3>2, <3>3 DEF Book!Next
    <2>3. ASSUME Commit(r) \/ CommitFails(r)
          PROVE  Book!Next
        <3>1. /\ row[r] = "pending"
              /\ row' = [row EXCEPT ![r] = "durable"] \/ row' = [row EXCEPT ![r] = "rolledback"]
              /\ row' = [row EXCEPT ![r] = "rolledback"]
                    => answer' = [answer EXCEPT ![r] = "error"]
              /\ UNCHANGED answer \/ answer' = [answer EXCEPT ![r] = "error"]
              /\ UNCHANGED phone
            BY <2>3 DEF Commit, CommitFails, IInv, Rows, TypeOK
        <3>2. CASE row' = [row EXCEPT ![r] = "durable"]
            BY <1>2, <2>1, <3>1, <3>2, Entering
        <3>3. CASE row' = [row EXCEPT ![r] = "rolledback"]
            <4>1. /\ row'[r] = "rolledback" /\ answer'[r] = "error"
                  /\ \A a \in Adds \ {r} : row'[a] = row[a] /\ answer'[a] = answer[a]
                BY <1>2, <3>1, <3>3 DEF IInv, TypeOK, Requests, Writes
            <4>2. Book!Answer(r, "error") /\ r \notin Book!Ever
                BY <1>2, <2>1, <3>1, <4>1, Answering DEF Book!Ever
            <4>. QED
                BY <1>2, <4>2 DEF Book!Next
        <3>. QED
            BY <3>1, <3>2, <3>3
    <2>. QED
        BY <2>2, <2>3
<1>. QED
    BY <1>1, <1>2

\* The contacts go with their user.
LEMMA DeletionIsSeen ==
    ASSUME IInv, DeleteUser
    PROVE  Book!Next
<1>1. /\ {a \in Adds : row[a] = "durable"}' = {}
      /\ {a \in Adds : row[a] = "erased"}'
              = {a \in Adds : row[a] = "erased"} \cup {a \in Adds : row[a] = "durable"}
      /\ UNCHANGED <<phone, answer>>
    BY DEF DeleteUser, IInv, TypeOK, Writes
<1>2. Book!Erase
    BY <1>1 DEF Book!Erase
<1>. QED
    BY <1>2 DEF Book!Next

\* If the commit precedes the response, the contacts of Records implement
\* Register: what a client is told of a contact is true of the table.
THEOREM Refinement ==
    ASSUME CommitBeforeResponse
    PROVE  Spec => KeepsBook
<1>1. ASSUME IInv, [Next]_vars
      PROVE  [Book!Next]_(Book!registerVars)
    <2>1. ASSUME NEW r \in Requests, Unauthorized(r) \/ Fault(r)
          PROVE  [Book!Next]_(Book!registerVars)
        BY <1>1, <2>1, RefusalIsSeen
    <2>2. ASSUME NEW a \in Adds, NumberTaken(a) \/ NumberFree(a)
          PROVE  [Book!Next]_(Book!registerVars)
        BY <1>1, <2>2, LookupIsSeen
    <2>3. ASSUME NEW r \in Writes,
                 Insert(r) \/ InsertRejected(r) \/ Commit(r) \/ Respond(r) \/ CommitFails(r)
          PROVE  [Book!Next]_(Book!registerVars)
        BY <1>1, <2>3, InsertIsSeen, EndIsSeen
    <2>4. CASE DeleteUser
        BY <1>1, <2>4, DeletionIsSeen
    <2>5. ASSUME \/ \E r \in Requests : Send(r) \/ Authenticate(r)
                 \/ \E s \in Samples : Stamp(s)
                 \/ \E a \in Adds : Wait(a)
                 \/ \E w \in Walks : ListRows(w) \/ CountRows(w) \/ NextPage(w)
                 \/ UNCHANGED vars
          PROVE  UNCHANGED Book!registerVars
        BY <2>5, OthersUnseen DEF Send, Authenticate, Stamp, Wait, ListRows, CountRows, NextPage,
            vars
    <2>6. ASSUME NEW w \in Walks, LastPage(w)
          PROVE  UNCHANGED Book!registerVars
        <3>1. w \notin Adds
            BY ConstantsAssumption DEF Writes
        <3>. QED
            BY <1>1, <2>6, <3>1, OthersUnseen DEF LastPage, IInv, TypeOK, Requests, Writes
    <2>. QED
        BY <1>1, <2>1, <2>2, <2>3, <2>4, <2>5, <2>6 DEF Next
<1>. QED
    BY <1>1, BookInit, Invariance, PTL DEF Spec, KeepsBook, Book!Spec

=============================================================================
