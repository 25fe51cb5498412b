------------------------------ MODULE StateStore ------------------------------
(* The state database and how processes open it (migrations.py, StateDB._init,    *)
(* RunStore._init): the base schema is created, a fresh database is stamped, the  *)
(* missing steps are applied one transaction each, and on a failure the snapshot  *)
(* taken before the first of them is put back.  After that a client runs one      *)
(* command: hca run with an idempotency key, which looks the key up and inserts   *)
(* a run if it finds none (service.py, run.py).  A process may die at any point    *)
(* and the command be given again.                                                *)
(*                                                                                *)
(* A schema is the set of the steps whose tables and columns exist: 1 the base     *)
(* schema, 2 the run tables, which RunStore creates as well, 3 the column for the  *)
(* start ticks, which can be added only once.  All clients use one key.            *)
EXTENDS Naturals, FiniteSets

CONSTANTS Client,    \* processes; each inserts at most one run, named like itself
          Overlap    \* may two be opening, or looking the key up, at the same time?

ASSUME StoreAssumption == Overlap \in BOOLEAN

CURRENT_SCHEMA_VERSION == 3
Versions == 0 .. CURRENT_SCHEMA_VERSION + 1    \* one is of a newer build
AllSteps == 1 .. CURRENT_SCHEMA_VERSION

VARIABLES
    marker,    \* meta.schema_version, 0 while there is none
    schema,    \* the steps whose tables and columns are there
    rows,      \* hca_runs: the clients whose run is in it
    pc,        \* of a client: its next step
    reached,   \* the version it read, then the version it has migrated to
    snapshot   \* its backup file

disk == <<marker, schema, rows>>
vars == <<disk, pc, reached, snapshot>>

Opening == {"base", "stamp?", "stamp", "version", "backup", "migrate", "verify", "restore"}
PC == {"closed", "open", "insert", "done"} \cup Opening

Disk == [marker : Versions, schema : SUBSET AllSteps, rows : SUBSET Client]

\* What earlier builds and this one leave behind.
Init ==
    /\ marker \in Versions
    /\ schema = {s \in AllSteps : s <= marker}
    /\ rows \in {{}} \cup IF marker >= 2 THEN {{c} : c \in Client} ELSE {}
    /\ pc = [c \in Client |-> "closed"]
    /\ reached = [c \in Client |-> 0]
    /\ snapshot = [c \in Client |-> [marker |-> 0, schema |-> {}, rows |-> {}]]

Go(c, step) == pc' = [pc EXCEPT ![c] = step]

\* Nobody else is doing what is done in these steps.
Alone(c, steps) == Overlap \/ \A d \in Client \ {c} : pc[d] \notin steps
--------------------------------------------------------------------------------
(* Opening.                                                                       *)

\* RunStore._init: the run tables, whatever the version.
OpenRunStore(c) ==
    /\ pc[c] = "closed" /\ Alone(c, Opening)
    /\ schema' = schema \cup {2}
    /\ Go(c, "base")
    /\ UNCHANGED <<marker, rows, reached, snapshot>>

\* StateDB._init: the base schema.
CreateBase(c) ==
    /\ pc[c] = "base"
    /\ schema' = schema \cup {1}
    /\ Go(c, "stamp?")
    /\ UNCHANGED <<marker, rows, reached, snapshot>>

\* (Mutant: the base version is stamped on every open.)
StampAlways(c) ==
    /\ pc[c] = "stamp?"
    /\ Go(c, "stamp")
    /\ UNCHANGED <<disk, reached, snapshot>>

LookForMarker(c) ==
    /\ pc[c] = "stamp?"
    /\ Go(c, IF marker = 0 THEN "stamp" ELSE "version")
    /\ UNCHANGED <<disk, reached, snapshot>>

\* (Mutant: a fresh database is stamped with the current version.)
StampCurrent(c) ==
    /\ pc[c] = "stamp"
    /\ marker' = CURRENT_SCHEMA_VERSION
    /\ Go(c, "version")
    /\ UNCHANGED <<schema, rows, reached, snapshot>>

StampBase(c) ==
    /\ pc[c] = "stamp"
    /\ marker' = 1
    /\ Go(c, "version")
    /\ UNCHANGED <<schema, rows, reached, snapshot>>

\* (Mutant: a newer database is opened.)
ReadNewer(c) ==
    /\ pc[c] = "version"
    /\ reached' = [reached EXCEPT ![c] = marker]
    /\ Go(c, IF marker >= CURRENT_SCHEMA_VERSION THEN "open" ELSE "backup")
    /\ UNCHANGED <<disk, snapshot>>

\* apply_migrations: nothing to do, or refuse what a newer build has written.
ReadVersion(c) ==
    /\ pc[c] = "version"
    /\ reached' = [reached EXCEPT ![c] = marker]
    /\ Go(c, CASE marker = CURRENT_SCHEMA_VERSION -> "open"
               [] marker > CURRENT_SCHEMA_VERSION -> "closed"
               [] OTHER -> "backup")
    /\ UNCHANGED <<disk, snapshot>>

\* (Mutant: the snapshot has the tables but not their contents.)
BackupSchema(c) ==
    /\ pc[c] = "backup"
    /\ snapshot' = [snapshot EXCEPT ![c] = [marker |-> marker, schema |-> schema, rows |-> {}]]
    /\ Go(c, "migrate")
    /\ UNCHANGED <<disk, reached>>

Backup(c) ==
    /\ pc[c] = "backup"
    /\ snapshot' = [snapshot EXCEPT ![c] = [marker |-> marker, schema |-> schema, rows |-> rows]]
    /\ Go(c, "migrate")
    /\ UNCHANGED <<disk, reached>>

\* (Mutant: the marker is not part of the transaction, as with executescript.)
MigrateUnmarked(c) ==
    /\ pc[c] = "migrate" /\ reached[c] < CURRENT_SCHEMA_VERSION
    /\ reached' = [reached EXCEPT ![c] = @ + 1]
    /\ schema' = schema \cup {reached[c] + 1}
    /\ Go(c, "migrate")
    /\ UNCHANGED <<marker, rows, snapshot>>

\* One step and its marker in one transaction; a column is not added twice.
Migrate(c) ==
    LET step == reached[c] + 1 IN
    /\ pc[c] = "migrate" /\ step <= CURRENT_SCHEMA_VERSION
    /\ step = 3 => 3 \notin schema
    /\ reached' = [reached EXCEPT ![c] = step]
    /\ schema' = schema \cup {step}
    /\ marker' = step
    /\ Go(c, "migrate")
    /\ UNCHANGED <<rows, snapshot>>

\* The step is refused, or fails for a reason of its own: the transaction is rolled back.
MigrateFails(c) ==
    /\ pc[c] = "migrate" /\ reached[c] < CURRENT_SCHEMA_VERSION
    /\ Go(c, "restore")
    /\ UNCHANGED <<disk, reached, snapshot>>

Migrated(c) ==
    /\ pc[c] = "migrate" /\ reached[c] = CURRENT_SCHEMA_VERSION
    /\ Go(c, "verify")
    /\ UNCHANGED <<disk, reached, snapshot>>

Verify(c) ==
    /\ pc[c] = "verify"
    /\ Go(c, IF marker = CURRENT_SCHEMA_VERSION /\ {2, 3} \subseteq schema
             THEN "open" ELSE "restore")
    /\ UNCHANGED <<disk, reached, snapshot>>

\* The snapshot is put back and MigrationError raised.
Restore(c) ==
    /\ pc[c] = "restore"
    /\ marker' = snapshot[c].marker
    /\ schema' = snapshot[c].schema
    /\ rows' = snapshot[c].rows
    /\ Go(c, "closed")
    /\ UNCHANGED <<reached, snapshot>>

Open(c) ==
    \/ OpenRunStore(c) \/ CreateBase(c) \/ LookForMarker(c) \/ StampBase(c) \/ ReadVersion(c)
    \/ Backup(c) \/ Migrate(c) \/ MigrateFails(c) \/ Migrated(c) \/ Verify(c) \/ Restore(c)
--------------------------------------------------------------------------------
(* hca run with the key.                                                          *)

\* (Mutant: the goal is compared, not the key.)
FindNothing(c) ==
    /\ pc[c] = "open" /\ Alone(c, {"insert"})
    /\ Go(c, "insert")
    /\ UNCHANGED <<disk, reached, snapshot>>

\* find_by_idempotency_key: the run of an earlier call is returned.
FindKey(c) ==
    /\ pc[c] = "open" /\ Alone(c, {"insert"})
    /\ Go(c, IF rows # {} THEN "done" ELSE "insert")
    /\ UNCHANGED <<disk, reached, snapshot>>

\* create_run.
CreateRun(c) ==
    /\ pc[c] = "insert"
    /\ rows' = rows \cup {c}
    /\ Go(c, "done")
    /\ UNCHANGED <<marker, schema, reached, snapshot>>

\* The process dies, or has ended; the command may be given again.
End(c) ==
    /\ pc[c] # "closed"
    /\ Go(c, "closed")
    /\ UNCHANGED <<disk, reached, snapshot>>

Next == \E c \in Client : Open(c) \/ FindKey(c) \/ CreateRun(c) \/ End(c)

Spec == Init /\ [][Next]_vars
--------------------------------------------------------------------------------
\* The marker, the schema and what each client holds of them (migrations.py).
StoreTypeOK ==
    /\ [marker |-> marker, schema |-> schema, rows |-> rows] \in Disk
    /\ pc \in [Client -> PC]
    /\ reached \in [Client -> Versions]
    /\ snapshot \in [Client -> Disk]

\* Whoever opens it, and wherever it stops, the database has everything that the marker
\* says it has (migrations.py: "apply each step in its own transaction").
SchemaBacksMarker == \A s \in AllSteps : s <= marker => s \in schema

\* A process that has opened the database finds the schema it was written for, however
\* many migrations failed, or were cut short, before (_verify).
OpenedIsCurrent ==
    \A c \in Client : pc[c] \in {"open", "insert", "done"} =>
        marker = CURRENT_SCHEMA_VERSION /\ schema = AllSteps

\* Wherever a migration stops, the database can be migrated again: the step that cannot be
\* applied twice is never there without its marker (_execute_script_transactionally).
StaysMigratable == 3 \in schema => marker >= 3

\* "This never resets the version marker" (state.py:137): except for a migration that
\* failed and puts its snapshot back, the marker moves forward.
MarkerMovesForward ==
    [][marker' < marker => \E c \in Client : pc[c] = "restore" /\ pc'[c] = "closed"]_vars

\* A migration that fails and puts its snapshot back takes no run with it (_sqlite_restore).
NoRunLost == [][rows \subseteq rows']_vars

\* "identical key returns the same run" (plugin_schemas.py:104): a command that is given
\* again after it died, at any point, does not start a second run.
OneRunPerKey == Cardinality(rows) <= 1
================================================================================
