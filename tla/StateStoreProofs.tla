--------------------------- MODULE StateStoreProofs ---------------------------
(* Proofs about StateStore, for any number of clients.  That the schema backs the *)
(* marker holds whatever overlaps; the rest needs that one client at a time opens, *)
(* and rests on an invariant with the same two parts.                             *)
EXTENDS StateStore, FiniteSetTheorems, TLAPS

Opened  == {"open", "insert", "done"}
BackedUp == {"migrate", "verify", "restore"}
Changing == {"stamp", "backup"} \cup BackedUp

\* What every opener finds below it, alone or not.
BaseOK ==
    /\ \A c \in Client : pc[c] \in Opening => 2 \in schema
    /\ \A c \in Client : pc[c] \in Opening \ {"base"} => 1 \in schema
    /\ \A c \in Client : pc[c] \in BackedUp =>
           /\ {1, 2} \subseteq snapshot[c].schema
           /\ snapshot[c].marker >= 3 => 3 \in snapshot[c].schema
    /\ SchemaBacksMarker

\* The work of one opener at a time.
SoleOK ==
    Overlap = FALSE =>
        /\ \A c, d \in Client : pc[c] \in Opening /\ pc[d] \in Opening => c = d
        /\ \A c, d \in Client : pc[c] \in Changing => pc[d] \notin Opened
        /\ OpenedIsCurrent
        /\ StaysMigratable
        /\ \A c \in Client : pc[c] = "stamp" => marker = 0
        /\ \A c \in Client : pc[c] \in {"backup", "migrate", "verify"} => marker = reached[c]
        /\ \A c \in Client : pc[c] = "backup" => reached[c] < 3
        /\ \A c \in Client : pc[c] \in BackedUp =>
               /\ snapshot[c].rows = rows
               /\ 3 \in snapshot[c].schema => snapshot[c].marker >= 3

\* One row for the key: who is about to insert it found none and is the only one.
RowsOK ==
    Overlap = FALSE =>
        /\ \A a, b \in rows : a = b
        /\ \A c \in Client : pc[c] = "insert" => rows = {}
        /\ \A c, d \in Client : pc[c] = "insert" /\ pc[d] = "insert" => c = d

Inv == StoreTypeOK /\ BaseOK /\ SoleOK /\ RowsOK
--------------------------------------------------------------------------------
LEMMA InitInv == Init => Inv
<1> SUFFICES ASSUME Init PROVE Inv OBVIOUS
<1> USE DEF Init, Versions, AllSteps, CURRENT_SCHEMA_VERSION
<1>1. StoreTypeOK
  <2>1. marker \in Versions /\ schema \in SUBSET AllSteps /\ rows \in SUBSET Client OBVIOUS
  <2>2. [marker |-> 0, schema |-> {}, rows |-> {}] \in Disk BY DEF Disk
  <2> QED BY <2>1, <2>2 DEF StoreTypeOK, Disk, PC
<1>2. BaseOK BY DEF BaseOK, SchemaBacksMarker, Opening, BackedUp
<1>3. SoleOK BY DEF SoleOK, Opening, Opened, Changing, BackedUp, OpenedIsCurrent, StaysMigratable
<1>4. RowsOK BY DEF RowsOK
<1> QED BY <1>1, <1>2, <1>3, <1>4 DEF Inv

\* Types.
LEMMA TypeStep == Inv /\ [Next]_vars => StoreTypeOK'
<1> SUFFICES ASSUME Inv, [Next]_vars PROVE StoreTypeOK' OBVIOUS
<1> USE StoreAssumption DEF Inv, StoreTypeOK, Disk, PC, Opening, Versions, AllSteps, CURRENT_SCHEMA_VERSION, Go, disk
<1>1. ASSUME NEW c \in Client, OpenRunStore(c) PROVE StoreTypeOK'
  BY <1>1 DEF OpenRunStore
<1>2. ASSUME NEW c \in Client, CreateBase(c) PROVE StoreTypeOK'
  BY <1>2 DEF CreateBase
<1>3. ASSUME NEW c \in Client, LookForMarker(c) PROVE StoreTypeOK'
  BY <1>3 DEF LookForMarker
<1>4. ASSUME NEW c \in Client, StampBase(c) PROVE StoreTypeOK'
  BY <1>4 DEF StampBase
<1>5. ASSUME NEW c \in Client, ReadVersion(c) PROVE StoreTypeOK'
  BY <1>5 DEF ReadVersion
<1>6. ASSUME NEW c \in Client, Backup(c) PROVE StoreTypeOK'
  BY <1>6 DEF Backup
<1>7. ASSUME NEW c \in Client, Migrate(c) PROVE StoreTypeOK'
  BY <1>7 DEF Migrate
<1>8. ASSUME NEW c \in Client, MigrateFails(c) PROVE StoreTypeOK'
  BY <1>8 DEF MigrateFails
<1>9. ASSUME NEW c \in Client, Migrated(c) PROVE StoreTypeOK'
  BY <1>9 DEF Migrated
<1>10. ASSUME NEW c \in Client, Verify(c) PROVE StoreTypeOK'
  BY <1>10 DEF Verify
<1>11. ASSUME NEW c \in Client, Restore(c) PROVE StoreTypeOK'
  BY <1>11 DEF Restore
<1>12. ASSUME NEW c \in Client, FindKey(c) PROVE StoreTypeOK'
  BY <1>12 DEF FindKey
<1>13. ASSUME NEW c \in Client, CreateRun(c) PROVE StoreTypeOK'
  BY <1>13 DEF CreateRun
<1>14. ASSUME NEW c \in Client, End(c) PROVE StoreTypeOK'
  BY <1>14 DEF End
<1>15. CASE UNCHANGED vars
  BY <1>15 DEF vars
<1> QED
  BY <1>1, <1>2, <1>3, <1>4, <1>5, <1>6, <1>7, <1>8, <1>9, <1>10, <1>11, <1>12, <1>13, <1>14, <1>15 DEF Next, Open

\* Tables that are there stay there.
LEMMA BaseStep == Inv /\ [Next]_vars => BaseOK'
<1> SUFFICES ASSUME Inv, [Next]_vars PROVE BaseOK' OBVIOUS
<1> USE StoreAssumption DEF Inv, StoreTypeOK, Disk, PC, Opening, Versions, AllSteps, CURRENT_SCHEMA_VERSION, Go, disk, BaseOK, BackedUp, SchemaBacksMarker
<1>1. ASSUME NEW c \in Client, OpenRunStore(c) PROVE BaseOK'
  BY <1>1 DEF OpenRunStore
<1>2. ASSUME NEW c \in Client, CreateBase(c) PROVE BaseOK'
  BY <1>2 DEF CreateBase
<1>3. ASSUME NEW c \in Client, LookForMarker(c) PROVE BaseOK'
  BY <1>3 DEF LookForMarker
<1>4. ASSUME NEW c \in Client, StampBase(c) PROVE BaseOK'
  BY <1>4 DEF StampBase
<1>5. ASSUME NEW c \in Client, ReadVersion(c) PROVE BaseOK'
  BY <1>5 DEF ReadVersion
<1>6. ASSUME NEW c \in Client, Backup(c) PROVE BaseOK'
  BY <1>6 DEF Backup
<1>7. ASSUME NEW c \in Client, Migrate(c) PROVE BaseOK'
  BY <1>7 DEF Migrate
<1>8. ASSUME NEW c \in Client, MigrateFails(c) PROVE BaseOK'
  BY <1>8 DEF MigrateFails
<1>9. ASSUME NEW c \in Client, Migrated(c) PROVE BaseOK'
  BY <1>9 DEF Migrated
<1>10. ASSUME NEW c \in Client, Verify(c) PROVE BaseOK'
  BY <1>10 DEF Verify
<1>11. ASSUME NEW c \in Client, Restore(c) PROVE BaseOK'
  BY <1>11 DEF Restore
<1>12. ASSUME NEW c \in Client, FindKey(c) PROVE BaseOK'
  BY <1>12 DEF FindKey
<1>13. ASSUME NEW c \in Client, CreateRun(c) PROVE BaseOK'
  BY <1>13 DEF CreateRun
<1>14. ASSUME NEW c \in Client, End(c) PROVE BaseOK'
  BY <1>14 DEF End
<1>15. CASE UNCHANGED vars
  BY <1>15 DEF vars
<1> QED
  BY <1>1, <1>2, <1>3, <1>4, <1>5, <1>6, <1>7, <1>8, <1>9, <1>10, <1>11, <1>12, <1>13, <1>14, <1>15 DEF Next, Open

\* One opener at a time.
LEMMA SoleStep == Inv /\ [Next]_vars => SoleOK'
<1> SUFFICES ASSUME Inv, [Next]_vars PROVE SoleOK' OBVIOUS
<1> USE StoreAssumption DEF Inv, StoreTypeOK, Disk, PC, Opening, Versions, AllSteps, CURRENT_SCHEMA_VERSION, Go, disk, BaseOK, SoleOK, BackedUp, Changing, Opened, Alone, OpenedIsCurrent, StaysMigratable, SchemaBacksMarker
<1>1. ASSUME NEW c \in Client, OpenRunStore(c) PROVE SoleOK'
  BY <1>1 DEF OpenRunStore
<1>2. ASSUME NEW c \in Client, CreateBase(c) PROVE SoleOK'
  BY <1>2 DEF CreateBase
<1>3. ASSUME NEW c \in Client, LookForMarker(c) PROVE SoleOK'
  BY <1>3 DEF LookForMarker
<1>4. ASSUME NEW c \in Client, StampBase(c) PROVE SoleOK'
  BY <1>4 DEF StampBase
<1>5. ASSUME NEW c \in Client, ReadVersion(c) PROVE SoleOK'
  BY <1>5 DEF ReadVersion
<1>6. ASSUME NEW c \in Client, Backup(c) PROVE SoleOK'
  BY <1>6 DEF Backup
<1>7. ASSUME NEW c \in Client, Migrate(c) PROVE SoleOK'
  BY <1>7 DEF Migrate
<1>8. ASSUME NEW c \in Client, MigrateFails(c) PROVE SoleOK'
  BY <1>8 DEF MigrateFails
<1>9. ASSUME NEW c \in Client, Migrated(c) PROVE SoleOK'
  BY <1>9 DEF Migrated
<1>10. ASSUME NEW c \in Client, Verify(c) PROVE SoleOK'
  BY <1>10 DEF Verify
<1>11. ASSUME NEW c \in Client, Restore(c) PROVE SoleOK'
  BY <1>11 DEF Restore
<1>12. ASSUME NEW c \in Client, FindKey(c) PROVE SoleOK'
  BY <1>12 DEF FindKey
<1>13. ASSUME NEW c \in Client, CreateRun(c) PROVE SoleOK'
  BY <1>13 DEF CreateRun
<1>14. ASSUME NEW c \in Client, End(c) PROVE SoleOK'
  BY <1>14 DEF End
<1>15. CASE UNCHANGED vars
  BY <1>15 DEF vars
<1> QED
  BY <1>1, <1>2, <1>3, <1>4, <1>5, <1>6, <1>7, <1>8, <1>9, <1>10, <1>11, <1>12, <1>13, <1>14, <1>15 DEF Next, Open

\* One row per key.
LEMMA RowsStep == Inv /\ [Next]_vars => RowsOK'
<1> SUFFICES ASSUME Inv, [Next]_vars PROVE RowsOK' OBVIOUS
<1> USE StoreAssumption DEF Inv, StoreTypeOK, Disk, PC, Opening, Versions, AllSteps, CURRENT_SCHEMA_VERSION, Go, disk, SoleOK, RowsOK, BackedUp, Changing, Opened, Alone
<1>1. ASSUME NEW c \in Client, OpenRunStore(c) PROVE RowsOK'
  BY <1>1 DEF OpenRunStore
<1>2. ASSUME NEW c \in Client, CreateBase(c) PROVE RowsOK'
  BY <1>2 DEF CreateBase
<1>3. ASSUME NEW c \in Client, LookForMarker(c) PROVE RowsOK'
  BY <1>3 DEF LookForMarker
<1>4. ASSUME NEW c \in Client, StampBase(c) PROVE RowsOK'
  BY <1>4 DEF StampBase
<1>5. ASSUME NEW c \in Client, ReadVersion(c) PROVE RowsOK'
  BY <1>5 DEF ReadVersion
<1>6. ASSUME NEW c \in Client, Backup(c) PROVE RowsOK'
  BY <1>6 DEF Backup
<1>7. ASSUME NEW c \in Client, Migrate(c) PROVE RowsOK'
  BY <1>7 DEF Migrate
<1>8. ASSUME NEW c \in Client, MigrateFails(c) PROVE RowsOK'
  BY <1>8 DEF MigrateFails
<1>9. ASSUME NEW c \in Client, Migrated(c) PROVE RowsOK'
  BY <1>9 DEF Migrated
<1>10. ASSUME NEW c \in Client, Verify(c) PROVE RowsOK'
  BY <1>10 DEF Verify
<1>11. ASSUME NEW c \in Client, Restore(c) PROVE RowsOK'
  BY <1>11 DEF Restore
<1>12. ASSUME NEW c \in Client, FindKey(c) PROVE RowsOK'
  BY <1>12 DEF FindKey
<1>13. ASSUME NEW c \in Client, CreateRun(c) PROVE RowsOK'
  BY <1>13 DEF CreateRun
<1>14. ASSUME NEW c \in Client, End(c) PROVE RowsOK'
  BY <1>14 DEF End
<1>15. CASE UNCHANGED vars
  BY <1>15 DEF vars
<1> QED
  BY <1>1, <1>2, <1>3, <1>4, <1>5, <1>6, <1>7, <1>8, <1>9, <1>10, <1>11, <1>12, <1>13, <1>14, <1>15 DEF Next, Open

\* The inductive invariant holds (migrations.py, StateDB._init).
THEOREM StoreInvariant == Spec => []Inv
<1>1. Inv /\ [Next]_vars => Inv' BY TypeStep, BaseStep, SoleStep, RowsStep DEF Inv
<1> QED BY InitInv, <1>1, PTL DEF Spec

\* Whoever opens the database at the same time, it has what its marker says
\* (apply_migrations).
THEOREM MarkerIsBacked == Spec => []SchemaBacksMarker
<1>1. Inv => SchemaBacksMarker BY DEF Inv, BaseOK
<1> QED BY StoreInvariant, <1>1, PTL

\* With one opener at a time an open database is current (_verify): nobody works on a
\* schema that another is still migrating.
THEOREM OpenedDatabaseIsCurrent == ASSUME Overlap = FALSE PROVE Spec => []OpenedIsCurrent
<1>1. Inv => OpenedIsCurrent BY DEF Inv, SoleOK
<1> QED BY StoreInvariant, <1>1, PTL

\* With one opener at a time a database that is not current can be migrated again
\* (_execute_script_transactionally).
THEOREM MigrationCanBeRepeated == ASSUME Overlap = FALSE PROVE Spec => []StaysMigratable
<1>1. Inv => StaysMigratable BY DEF Inv, SoleOK
<1> QED BY StoreInvariant, <1>1, PTL

\* With one opener at a time a key has one run, however many ask for it
\* (find_by_idempotency_key).
THEOREM KeyHasOneRun == ASSUME Overlap = FALSE PROVE Spec => []OneRunPerKey
<1>1. Inv => OneRunPerKey
  <2> SUFFICES ASSUME Inv PROVE OneRunPerKey OBVIOUS
  <2>1. CASE rows = {} BY <2>1, FS_EmptySet DEF OneRunPerKey
  <2>2. CASE rows # {}
    <3> PICK c \in rows : TRUE BY <2>2
    <3>1. rows = {c} BY DEF Inv, RowsOK
    <3> QED BY <3>1, FS_Singleton DEF OneRunPerKey
  <2> QED BY <2>1, <2>2
<1> QED BY StoreInvariant, <1>1, PTL

\* With one opener at a time a failed migration takes no run with it (_sqlite_restore).
THEOREM NoRunIsLost == ASSUME Overlap = FALSE PROVE Spec => NoRunLost
<1>1. Inv /\ [Next]_vars => [rows \subseteq rows']_vars
  <2> SUFFICES ASSUME Inv, Next PROVE rows \subseteq rows' BY DEF vars, disk
  <2> PICK c \in Client : Open(c) \/ FindKey(c) \/ CreateRun(c) \/ End(c) BY DEF Next
  <2>1. CASE Restore(c) BY <2>1 DEF Restore, Inv, SoleOK, BackedUp
  <2>2. CASE ~Restore(c)
    BY <2>2 DEF disk, Open, OpenRunStore, CreateBase, LookForMarker, StampBase, ReadVersion, Backup,
                Migrate, MigrateFails, Migrated, Verify, FindKey, CreateRun, End
  <2> QED BY <2>1, <2>2
<1>2. []Inv /\ [][Next]_vars => [][rows \subseteq rows']_vars BY <1>1, PTL
<1> QED BY StoreInvariant, <1>2 DEF Spec, NoRunLost

\* ... and the marker moves forward, except when a snapshot is put back (_set_version).
THEOREM MarkerIsNeverReset == ASSUME Overlap = FALSE PROVE Spec => MarkerMovesForward
<1> DEFINE Forward == marker' < marker =>
               \E c \in Client : pc[c] = "restore" /\ pc'[c] = "closed"
<1>1. Inv /\ [Next]_vars => [Forward]_vars
  <2> SUFFICES ASSUME Inv, Next PROVE Forward BY DEF vars, disk
  <2> PICK c \in Client : Open(c) \/ FindKey(c) \/ CreateRun(c) \/ End(c) BY DEF Next
  <2> USE DEF Inv, StoreTypeOK, Disk, Versions, CURRENT_SCHEMA_VERSION
  <2>1. CASE Restore(c) BY <2>1 DEF Restore, Go
  <2>2. CASE StampBase(c) BY <2>2 DEF StampBase, SoleOK
  <2>3. CASE Migrate(c) BY <2>3 DEF Migrate, SoleOK
  <2>4. CASE ~(Restore(c) \/ StampBase(c) \/ Migrate(c))
    BY <2>4 DEF disk, Open, OpenRunStore, CreateBase, LookForMarker, ReadVersion, Backup,
                MigrateFails, Migrated, Verify, FindKey, CreateRun, End
  <2> QED BY <2>1, <2>2, <2>3, <2>4
<1>2. []Inv /\ [][Next]_vars => [][Forward]_vars BY <1>1, PTL
<1> QED BY StoreInvariant, <1>2 DEF Spec, MarkerMovesForward, Forward
================================================================================
