---------------------------- MODULE ProjectStorage ----------------------------
(***************************************************************************)
(* Opening mail.db (agent/runtime/project_storage.py): a new database is    *)
(* made, one of the previous version is migrated, any other is refused.     *)
(* Several processes open the same file, and each may die at any step.      *)
(*                                                                         *)
(* The preflight reads through a connection of its own, before anything is  *)
(* locked.  executescript() commits what is pending, so the rows of a       *)
(* migration are committed before the guard triggers and the version.       *)
(***************************************************************************)
EXTENDS Naturals

CONSTANTS
    Opener,       \* processes that open the mailbox of the project
    Mail,         \* rows of mail_messages
    MaxOpenFault  \* bound: opens that die on the way

ASSUME StorageAssumption == MaxOpenFault \in Nat

VARIABLES
    db,       \* the file: its tables, triggers, version and identity
    rows,     \* the table mail_messages
    opener,   \* where each process is, and the rows its preflight read; seen is
              \* history: the version they had
    legacy,   \* history: the rows of the previous version, if there was one
    touched,  \* history: rows an open mailbox has changed
    openFaults

storageVars == <<db, rows, opener, legacy, touched, openFaults>>

(* Addresses, payload and timestamps of a row: as this version writes them,  *)
(* as an earlier one did (agent://name, any JSON, any ISO time), or neither. *)
Form == {"canonical", "legacy", "bad"}

(* lease: which of owner, token and expiry are not NULL.                    *)
MailRow == [status: {"pending", "leased", "retry_wait", "delivered"},
            retry: BOOLEAN, lease: {"none", "part", "full"}, form: Form]

NoMailRow == [status |-> "absent", retry |-> FALSE, lease |-> "none", form |-> "canonical"]
NoRows == [m \in {} |-> NoMailRow]

(* The row enqueue() inserts from an envelope.                              *)
NewMail == [NoMailRow EXCEPT !.status = "pending"]

(* _canonical_address_guard_sql() and _strict_utc_guard_sql() hold.          *)
WellFormed(r) == r.form = "canonical"

(* What the CHECKs and the triggers of version 2 demand of a row.           *)
Guarded(r) ==
    /\ WellFormed(r)
    /\ r.retry = (r.status = "retry_wait")
    /\ r.lease = IF r.status = "leased" THEN "full" ELSE "none"

(* Fault: the lease columns of a pending row are not looked at.             *)
LeaseUnchecked(r) ==
    /\ r.form # "bad"
    /\ CASE r.status = "pending" -> TRUE
         [] r.status = "retry_wait" -> r.retry /\ r.lease = "none"
         [] r.status = "delivered" -> ~r.retry /\ r.lease = "none"
         [] r.status = "leased" -> ~r.retry /\ r.lease = "full"

(* Fault: an address that already has the new form is not recognised.       *)
LegacyFormOnly(r) ==
    /\ r.form = "legacy"
    /\ CASE r.status = "pending" -> r.lease = "none"
         [] r.status = "retry_wait" -> r.retry /\ r.lease = "none"
         [] r.status = "delivered" -> ~r.retry /\ r.lease = "none"
         [] r.status = "leased" -> ~r.retry /\ r.lease = "full"

(* _validate_legacy_state() and the conversions of a row succeed.            *)
Migratable(r) ==
    /\ r.form # "bad"
    /\ CASE r.status = "pending" -> r.lease = "none"
         [] r.status = "retry_wait" -> r.retry /\ r.lease = "none"
         [] r.status = "delivered" -> ~r.retry /\ r.lease = "none"
         [] r.status = "leased" -> ~r.retry /\ r.lease = "full"

(* A canonical address parses to itself; agent://name becomes generation 1  *)
(* of the project.                                                          *)
Canonicalised(form) == IF form = "bad" THEN form ELSE "canonical"

(* A pending row that waits for a retry has a status of its own now.        *)
Normal(r) ==
    [r EXCEPT !.form = Canonicalised(r.form),
              !.status = IF r.status = "pending" /\ r.retry THEN "retry_wait" ELSE r.status]

(* Fault: the columns of the retry are not carried over.                    *)
UpdatedWithoutRetry(r, new) ==
    [r EXCEPT !.status = IF new.status = "retry_wait" THEN "pending" ELSE new.status,
              !.retry = FALSE, !.form = "canonical"]

(* The UPDATE writes every converted column, but of the lease only the      *)
(* expiry.                                                                  *)
Updated(r, new) ==
    [r EXCEPT !.status = new.status, !.retry = new.retry, !.form = new.form,
              !.lease = IF r.lease = new.lease THEN r.lease ELSE "part"]

Present == {m \in Mail : rows[m].status # "absent"}

LegacyRows == {r \in MailRow : Migratable(r) \/ r.lease = "part"}

StorageInit ==
    /\ \/ /\ db = [file |-> FALSE, kind |-> "none", table |-> FALSE, guards |-> FALSE, version |-> 0]
          /\ rows = [m \in Mail |-> NoMailRow] /\ legacy = NoRows
       \/ /\ db \in [file: {TRUE}, kind: {"own", "foreign"}, table: {TRUE}, guards: {FALSE}, version: {0}]
          /\ rows \in [Mail -> LegacyRows \cup {NoMailRow}] /\ legacy = rows
    /\ opener = [o \in Opener |-> [at |-> "idle", read |-> NoRows, seen |-> 0]]
    /\ touched = {} /\ openFaults = 0

OpenerGoes(o, at) == opener' = [opener EXCEPT ![o].at = at]

-----------------------------------------------------------------------------
(* There is no file yet: this process will make the database.               *)
FindNoFile(o) ==
    /\ opener[o].at = "idle" /\ ~db.file
    /\ opener' = [opener EXCEPT ![o] = [at |-> "create", read |-> NoRows, seen |-> 0]]
    /\ UNCHANGED <<db, rows, legacy, touched, openFaults>>

Refused ==
    \/ ~db.table
    \/ db.kind # "own"
    \/ db.version = 0 /\ \E m \in Present : ~Migratable(rows[m])

(* Fault: a database that is already migrated is migrated again.            *)
PreflightAgain(o) ==
    /\ opener[o].at = "idle" /\ db.file
    /\ opener' = [opener EXCEPT ![o] =
                    IF Refused THEN [at |-> "refused", read |-> NoRows, seen |-> 0]
                    ELSE [at |-> "migrate", read |-> [m \in Present |-> Normal(rows[m])],
                          seen |-> db.version]]
    /\ UNCHANGED <<db, rows, legacy, touched, openFaults>>

(* _preflight_mail_database(): it only reads, and the tables only grow.     *)
Preflight(o) ==
    /\ opener[o].at = "idle" /\ db.file
    /\ opener' = [opener EXCEPT ![o] =
                    IF Refused THEN [at |-> "refused", read |-> NoRows, seen |-> 0]
                    ELSE IF db.version = 2 THEN [at |-> "metadata", read |-> NoRows, seen |-> 0]
                    ELSE [at |-> "migrate", read |-> [m \in Present |-> Normal(rows[m])],
                          seen |-> db.version]]
    /\ UNCHANGED <<db, rows, legacy, touched, openFaults>>

(* _initialize_new_mail_database(): the statements commit one by one, and    *)
(* what another process already made is left as it is.                      *)
CreateFile(o) ==
    /\ opener[o].at = "create"
    /\ db' = [db EXCEPT !.file = TRUE]
    /\ OpenerGoes(o, "table")
    /\ UNCHANGED <<rows, legacy, touched, openFaults>>

CreateTable(o) ==
    /\ opener[o].at = "table"
    /\ db' = [db EXCEPT !.table = TRUE]
    /\ OpenerGoes(o, "guards")
    /\ UNCHANGED <<rows, legacy, touched, openFaults>>

(* _migrate_mail_database() writes what the preflight read.  A guard that    *)
(* another process has made refuses a row that has moved on meanwhile.      *)
MigrateRows(o) ==
    LET read == opener[o].read
        after == [m \in Mail |-> IF m \in DOMAIN read THEN Updated(rows[m], read[m]) ELSE rows[m]]
        aborted == db.guards /\ \E m \in DOMAIN read : ~Guarded(after[m])
    IN  /\ opener[o].at = "migrate"
        /\ rows' = IF aborted THEN rows ELSE after
        /\ OpenerGoes(o, IF aborted THEN "failed" ELSE "guards")
        /\ UNCHANGED <<db, legacy, touched, openFaults>>

CreateGuards(o) ==
    /\ opener[o].at = "guards"
    /\ db' = [db EXCEPT !.guards = TRUE]
    /\ OpenerGoes(o, "version")
    /\ UNCHANGED <<rows, legacy, touched, openFaults>>

SetVersion(o) ==
    /\ opener[o].at = "version"
    /\ db' = [db EXCEPT !.version = 2]
    /\ OpenerGoes(o, "metadata")
    /\ UNCHANGED <<rows, legacy, touched, openFaults>>

(* INSERT OR IGNORE of store_kind and project_id.                           *)
WriteMetadata(o) ==
    /\ opener[o].at = "metadata"
    /\ db' = [db EXCEPT !.kind = IF @ = "none" THEN "own" ELSE @]
    /\ OpenerGoes(o, "open")
    /\ UNCHANGED <<rows, legacy, touched, openFaults>>

(* The process dies, or a statement fails: store_open_failed.               *)
OpenFails(o) ==
    /\ opener[o].at \notin {"idle", "refused", "failed", "open"}
    /\ openFaults < MaxOpenFault
    /\ openFaults' = openFaults + 1
    /\ opener' = [opener EXCEPT ![o] = [at |-> "failed", read |-> NoRows, seen |-> 0]]
    /\ UNCHANGED <<db, rows, legacy, touched>>

(* Whoever was refused or failed tries again; an open mailbox is reopened.  *)
OpenAgain(o) ==
    /\ opener[o].at \in {"refused", "failed", "open"}
    /\ opener' = [opener EXCEPT ![o] = [at |-> "idle", read |-> NoRows, seen |-> 0]]
    /\ UNCHANGED <<db, rows, legacy, touched, openFaults>>

(* An open mailbox at work: enqueue, claim, ack and nack.                   *)
UseMailbox(o, m) ==
    /\ opener[o].at = "open"
    /\ \E r \in {NewMail} \cup {q \in MailRow : Guarded(q)} :
         /\ CASE rows[m].status = "absent" -> r = NewMail
              [] rows[m].status = "delivered" -> FALSE
              [] rows[m].status = "leased" -> r.status # "leased"
              [] OTHER -> r.status = "leased"
         /\ rows' = [rows EXCEPT ![m] = r]
    /\ touched' = touched \cup {m}
    /\ UNCHANGED <<db, opener, legacy, openFaults>>

StorageNext ==
    \E o \in Opener :
        \/ FindNoFile(o) \/ Preflight(o)
        \/ CreateFile(o) \/ CreateTable(o) \/ MigrateRows(o) \/ CreateGuards(o)
        \/ SetVersion(o) \/ WriteMetadata(o)
        \/ OpenFails(o) \/ OpenAgain(o)
        \/ \E m \in Mail : UseMailbox(o, m)

StorageSpec == StorageInit /\ [][StorageNext]_storageVars

-----------------------------------------------------------------------------
StorageTypeOK ==
    /\ db \in [file: BOOLEAN, kind: {"none", "own", "foreign"}, table: BOOLEAN,
               guards: BOOLEAN, version: {0, 2}]
    /\ rows \in [Mail -> MailRow \cup {NoMailRow}]
    /\ \A o \in Opener :
         /\ opener[o].at \in {"idle", "create", "table", "migrate", "guards", "version",
                              "metadata", "open", "refused", "failed"}
         /\ \A m \in DOMAIN opener[o].read : opener[o].read[m] \in MailRow
    /\ touched \subseteq Mail
    /\ openFaults \in 0 .. MaxOpenFault

(* A database that says it is version 2 keeps the delivery contract of       *)
(* version 2: its triggers are there and every row satisfies them, wherever *)
(* a migration died and however two of them interleaved                     *)
(* (_migrate_mail_database() against executescript()'s commits).            *)
ContractHolds ==
    db.version = 2 => db.guards /\ \A m \in Present : Guarded(rows[m])

(* However often a migration is repeated, a message no mailbox has used      *)
(* still says what the previous version said of it: it is not due earlier,  *)
(* not delivered, not handed to someone else (_validate_legacy_state() on    *)
(* rows an interrupted migration already converted).                        *)
MigrationKeeps ==
    \A m \in DOMAIN legacy \ touched : rows[m] \in {legacy[m], Normal(legacy[m])}

(* A database of this project is refused only if its rows never made sense   *)
(* or its creation has not finished: no interrupted or concurrent migration *)
(* makes a good mailbox unusable (_preflight_mail_database()).              *)
RefusedForCause ==
    \A o \in Opener : opener[o].at = "refused" =>
        \/ db.kind = "foreign"
        \/ DOMAIN legacy = {}
        \/ \E m \in DOMAIN legacy : legacy[m] # NoMailRow /\ ~Migratable(legacy[m])

(* What a mailbox has finished is not undone by opening the database, unless *)
(* a process read the old rows before another one migrated them and writes  *)
(* them afterwards.                                                         *)
FinishedStays ==
    [][(\A o \in Opener : ~(opener[o].at = "migrate" /\ opener[o].seen < db.version))
         => \A m \in Mail : rows[m].status = "delivered" => rows'[m].status = "delivered"]_storageVars

(* Whoever opens the database and dies on the way, it can be opened again    *)
(* and says what it said before.                                            *)
MigrationSafe == StorageTypeOK /\ ContractHolds /\ MigrationKeeps /\ RefusedForCause
=============================================================================
