---------------------------- MODULE EicMigration ----------------------------
(***************************************************************************)
(* The program that copies the e-mail registrations from SurrealDB to      *)
(* PostgreSQL (bcr-wdc-eic-service, bin/migrate.rs) next to the running    *)
(* service.  It dumps the registrations, imports the dump in one           *)
(* transaction and then sets the marker that makes the service refuse      *)
(* writes.  It may be killed at any point and be run again.                *)
(***************************************************************************)
EXTENDS EicService

VARIABLES
    migrator,  \* the next step of the program, "idle" when it does not run
    dump,      \* [Key -> address]: what it read from SurrealDB
    pg,        \* [Key -> address]: email_registrations in PostgreSQL
    late       \* history: keys whose registration changed after the dump

migratorVars == <<migrator, dump, pg>>
allVars == <<vars, migratorVars, late>>

Addresses == [Key -> Email \cup {NoEmail}]
Rows(table) == {k \in Key : table[k] # NoEmail}

MigrationTypeOK ==
    /\ migrator \in {"idle", "import", "mark"}
    /\ dump \in Addresses
    /\ pg \in Addresses
    /\ late \in SUBSET Key
    /\ migrator = "mark" => \A k \in Rows(dump) : pg[k] = dump[k]

\* PostgreSQL may already hold registrations: of an earlier run of the
\* program, or written by a service that was started on it.
MigrationInit ==
    /\ Init
    /\ migrated = FALSE
    /\ migrator = "idle"
    /\ dump = [k \in Key |-> NoEmail]
    /\ pg \in Addresses
    /\ late = {}

\* The program starts, unless SurrealDB is migrated already, and reads all
\* registrations.  (A dry run ends here and changes nothing.)
Dump ==
    /\ migrator = "idle"
    /\ ~migrated
    /\ migrator' = "import"
    /\ dump' = registrations
    /\ late' = {}
    /\ UNCHANGED <<vars, pg>>

\* (mutant) Rows that exist already are overwritten.
ImportOverwriting ==
    /\ migrator = "import"
    /\ pg' = [k \in Key |-> IF k \in Rows(dump) THEN dump[k] ELSE pg[k]]
    /\ migrator' = "mark"
    /\ UNCHANGED <<vars, dump, late>>

\* One transaction of strict inserts: a single registration that is already
\* there rolls everything back and ends the program.
Import ==
    /\ migrator = "import"
    /\ IF Rows(dump) \cap Rows(pg) = {}
       THEN /\ pg' = [k \in Key |-> IF k \in Rows(dump) THEN dump[k] ELSE pg[k]]
            /\ migrator' = "mark"
       ELSE /\ pg' = pg
            /\ migrator' = "idle"
    /\ UNCHANGED <<vars, dump, late>>

\* (mutant) The marker does not wait for the import.
MarkMigratedEarly ==
    /\ migrator \in {"import", "mark"}
    /\ migrator' = "idle"
    /\ migrated' = TRUE
    /\ UNCHANGED <<now, challenges, confirmations, registrations, ens, process,
                   lastChallenge, lastIssue, history, dump, pg, late>>

MarkMigrated ==
    /\ migrator = "mark"
    /\ migrator' = "idle"
    /\ migrated' = TRUE
    /\ UNCHANGED <<now, challenges, confirmations, registrations, ens, process,
                   lastChallenge, lastIssue, history, dump, pg, late>>

\* A database error, or the program is killed.
MigratorFail ==
    /\ migrator # "idle"
    /\ migrator' = "idle"
    /\ UNCHANGED <<vars, dump, pg, late>>

\* A step of the service, which goes on using SurrealDB.
Serve ==
    /\ Next
    /\ late' = late \cup {k \in Key : registrations'[k] # registrations[k]}
    /\ UNCHANGED migratorVars

MigrationNext == Serve \/ Dump \/ Import \/ MarkMigrated \/ MigratorFail

MigrationSpec == MigrationInit /\ [][MigrationNext]_allVars
-----------------------------------------------------------------------------
(* Properties *)

\* Requests that read the marker before it was set and will still write.
Stragglers == {r \in Req : pc[r] \in {"insert", "wrong", "bind", "remove"}}

\* Once the marker is set and the writes that had already passed the check
\* are through, SurrealDB never changes again and no request gets to write:
\* every path that writes reads the marker first (DBEmails::ensure_writable).
FrozenOnceDrained ==
    [][migrated /\ Stragglers = {}
        => /\ UNCHANGED <<confirmations, registrations>>
           /\ Stragglers' = {}]_allVars

\* PostgreSQL gets the whole dump or nothing, never overwrites a row it has,
\* and a second run after a crash cannot import over the first.
ImportAllOrNothing ==
    [][pg' # pg => \A k \in Key :
           IF k \in Rows(dump) THEN pg[k] = NoEmail /\ pg'[k] = dump[k]
                               ELSE pg'[k] = pg[k]]_allVars

\* A registration that the finished migration left behind, or copied in an
\* older version, was written after the dump; whatever the crashes and
\* repeated runs before, nothing older is lost.
OnlyLateRegistrationsMissing ==
    migrated => \A k \in Rows(registrations) \ late : pg[k] = registrations[k]

\* The comment on the program: it copies the data that must survive.
NoRegistrationLost ==
    migrated => \A k \in Rows(registrations) : pg[k] = registrations[k]
=============================================================================
