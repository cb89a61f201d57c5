----------------------------- MODULE Deployment -----------------------------
(***************************************************************************)
(* Bringing the service up on a database: railway-entry.js and the scripts *)
(* it runs, the application it starts whatever became of them, and the     *)
(* commands an operator runs by hand.  TypeORM executes all pending        *)
(* migrations in one transaction and records them in the same transaction; *)
(* run-migrations.js has a branch that executes them without.              *)
(***************************************************************************)
EXTENDS Schema

CONSTANT Databases      \* the databases a service may be brought up on

ASSUME DatabasesAssumption ==
  Databases \subseteq {"empty", "before the buffer column", "migrated"}

VARIABLES
  catalog,   \* the objects in the database
  journal,   \* TypeORM's table of executed migrations, oldest first
  phase,     \* how far the deployment is
  lost       \* tables were dropped behind the journal's back (history)

vars == <<catalog, journal, phase, lost>>

(* The journal and the catalogue of a database. *)
JournalOf(d) ==
  CASE d = "empty" -> <<>>
    [] d = "before the buffer column" -> <<Initial>>
    [] d = "migrated" -> <<Initial, ChargebackBuffer>>

(* What a list of migrations makes of an empty database. *)
Built(ms) == Execute(FlattenSeq([i \in DOMAIN ms |-> Up(ms[i])]), {}).catalog

Init ==
  /\ \E d \in Databases : journal = JournalOf(d) /\ catalog = Built(JournalOf(d))
  /\ phase = "down"
  /\ lost = FALSE

-----------------------------------------------------------------------------
(* TypeORM *)

Pending ==
  LET IfPending(m) == IF m \in ToSet(journal) THEN <<>> ELSE <<m>>
  IN IfPending(ByTimestamp[1]) \o IfPending(ByTimestamp[2])

PendingUp == FlattenSeq([i \in DOMAIN Pending |-> Up(Pending[i])])

Applicable == Execute(PendingUp, catalog).ok

(* runMigrations: all of them and their journal rows, or nothing. *)
RunMigrations ==
  /\ catalog' = Execute(PendingUp, catalog).catalog
  /\ journal' = journal \o Pending

(* undoLastMigration: the youngest row of the journal. *)
Undo == Execute(Down(Last(journal)), catalog)

-----------------------------------------------------------------------------
(* railway-entry.js *)

Deploy ==
  /\ phase = "down"
  /\ phase' \in {"migrating", "booting"}       \* the Procfile starts the application alone
  /\ UNCHANGED <<catalog, journal, lost>>

(* The step after run-migrations.js: it exits with 0 whatever happened.     *)
(* `npm run start:prod` has no more steps before the application.           *)
ScriptExits == phase = "migrating" /\ phase' \in {"fixing", "booting"}

ScriptMigrates ==
  /\ ScriptExits
  /\ Pending # <<>> /\ Applicable
  /\ RunMigrations
  /\ UNCHANGED lost

(* The migrations are refused; or no DATABASE_URL, no compiled data source,   *)
(* five connections that failed.                                              *)
ScriptGivesUp ==
  /\ ScriptExits
  /\ UNCHANGED <<catalog, journal, lost>>

(* Nothing pending and no users table: the script calls every migration's    *)
(* up() itself, in the order of the files' names, which is that of the        *)
(* timestamps, outside any transaction, and catches what each throws.         *)
UsersTableExists == Namesakes(TableObject("users")) \intersect catalog # {}

Forcing == Pending = <<>> /\ ~UsersTableExists

Forced(blocks) == Execute(blocks, Execute(ChargebackBufferUp, catalog).catalog).catalog

ScriptForces ==
  /\ ScriptExits
  /\ Forcing
  /\ catalog' = Forced(InitialUp)
  /\ UNCHANGED <<journal, lost>>

(* The script's process is killed: a transaction is rolled back, forced      *)
(* statements stay (here: some of the blocks and the first of the next one).  *)
(* Only now does railway-entry.js try the fallback; `npm` gives up.           *)
CutShort ==
  {Forced(SubSeq(InitialUp, 1, n)) : n \in 0 .. Len(InitialUp)} \union
  {Forced(SubSeq(InitialUp, 1, n)
            \o <<Create(SubSeq(InitialUp[n + 1].objects, 1, 1))>>) : n \in 0 .. Len(InitialUp) - 1}

ScriptKilled ==
  /\ phase = "migrating"
  /\ phase' \in {"falling back", "down"}
  /\ catalog' \in {catalog} \union (IF Forcing THEN CutShort ELSE {})
  /\ UNCHANGED <<journal, lost>>

(* manual-schema-creation.js: four tables in a transaction, unless there is *)
(* a users table.  Its failure is caught.                                   *)
FallBack ==
  /\ phase = "falling back"
  /\ phase' = "fixing"
  /\ catalog' \in {catalog,
                   IF UsersTableExists THEN catalog
                   ELSE LET made == Execute(ManualUp, catalog)
                        IN IF made.ok THEN made.catalog ELSE catalog}
  /\ UNCHANGED <<journal, lost>>

(* fix-wallet-schema.js exits with 1 without a wallets table; that is caught. *)
FixWallets ==
  /\ phase = "fixing"
  /\ phase' = "booting"
  /\ catalog' \in {catalog, Execute(ChargebackBufferUp, catalog).catalog}
  /\ UNCHANGED <<journal, lost>>

-----------------------------------------------------------------------------
(* The application runs no migrations (AppModule's data source lists none,  *)
(* and DatabaseModule, which has migrationsRun, is not imported) and looks  *)
(* at no table before it listens: it serves on the schema it finds.         *)

BootServes ==
  /\ phase = "booting"
  /\ phase' = "serving"
  /\ UNCHANGED <<catalog, journal, lost>>

(* The database cannot be reached, or another error: bootstrap exits with 1. *)
BootFails ==
  /\ phase = "booting"
  /\ phase' = "down"
  /\ UNCHANGED <<catalog, journal, lost>>

Stop ==
  /\ phase = "serving"
  /\ phase' = "down"
  /\ UNCHANGED <<catalog, journal, lost>>

-----------------------------------------------------------------------------
(* The operator, while no deployment is under way *)

Quiet == phase \in {"down", "serving"}

MigrationRun ==
  /\ Quiet
  /\ Pending # <<>> /\ Applicable
  /\ RunMigrations
  /\ UNCHANGED <<phase, lost>>

MigrationRevert ==
  /\ Quiet
  /\ journal # <<>>
  /\ Undo.ok
  /\ catalog' = Undo.catalog
  /\ journal' = Front(journal)
  /\ UNCHANGED <<phase, lost>>

(* Someone drops the tables and types, and leaves the journal. *)
LoseTables ==
  /\ phase = "down"
  /\ journal # <<>> /\ ~lost
  /\ catalog' = {}
  /\ lost' = TRUE
  /\ UNCHANGED <<journal, phase>>

Next ==
  \/ Deploy \/ ScriptMigrates \/ ScriptGivesUp \/ ScriptForces \/ ScriptKilled
  \/ FallBack \/ FixWallets \/ BootServes \/ BootFails \/ Stop
  \/ MigrationRun \/ MigrationRevert \/ LoseTables

Spec == Init /\ [][Next]_vars

-----------------------------------------------------------------------------
(* Unless tables were dropped behind its back, the journal is right both ways: *)
(* everything a recorded migration creates is there, and nothing of an initial *)
(* migration it does not record, so that running that one meets no namesake.   *)
(* (The column may be there without its row: fix-wallet-schema.js adds it.)    *)
SchemaMatchesJournal ==
  ~lost =>
    /\ \A m \in ToSet(journal) : ObjectsOf(m) \subseteq catalog
    /\ Initial \in ToSet(journal) \/ ObjectsOf(Initial) \intersect catalog = {}

(* Whatever the scripts did, the youngest migration can be reverted: no      *)
(* statement of its down() names an object that is not there or one that     *)
(* another still needs.                                                      *)
RevertPossible == ~lost /\ journal # <<>> => Undo.ok

(* A database whose journal is empty is never migrated: the column's          *)
(* migration bears an earlier timestamp than the one that creates its table,  *)
(* one refused statement undoes all of them, and no order of deployments,      *)
(* fallback scripts, killed scripts and operator's commands gets around it.    *)
NeverMigratedFromScratch == [][journal = <<>> => journal' = <<>>]_vars
=============================================================================
