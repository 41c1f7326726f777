------------------------------ MODULE Startup -------------------------------
(***************************************************************************)
(* How 142bot comes up: main constructs the Bot, which connects to the     *)
(* database, runs every file of ./migrations in one transaction, prepares  *)
(* the statements the modules use and loads the modules, of which spotify  *)
(* reads and creates its settings; then bot.start serves.  The database    *)
(* outlives the process: it is lost, killed and restarted at any point,    *)
(* and the connection may be lost at any point too.                        *)
(***************************************************************************)
EXTENDS Naturals, Sequences, FiniteSets

CONSTANTS
  Config,      \* "modules" of config.json: a sequence of names
  Values,      \* values of a setting
  Default,     \* the values spotify's constructor creates, per setting
  Databases,   \* databases the first boot may find: [schema, rows]
  MaxFaults    \* bound: outages, kills and statements of the owner

Settings   == DOMAIN Default
Migrations == {"0001-init", "0002-state", "0003-unique-state-key"}
Full       == {"spotify", "bot_state", "setting_unique"}
Statements == {"state", "update_state"}

\* rows: per setting, the values of its rows in bot_state, oldest first.
Database == [schema : SUBSET Full, rows : [Settings -> Seq(Values)]]

ASSUME StartupAssumption ==
  /\ Config \in Seq(STRING)
  /\ Default \in [Settings -> Values]
  /\ Databases \subseteq Database
  /\ MaxFaults \in Nat

\* What PostgreSQL keeps true of a database: the constraint is one of bot_state,
\* and while it stands no setting has two rows.
Constrained(d) ==
  "setting_unique" \in d.schema =>
    "bot_state" \in d.schema /\ \A s \in Settings : Len(d.rows[s]) <= 1

ASSUME DatabasesAssumption == \A d \in Databases : Constrained(d)

NoTx == [schema |-> {}, rows |-> <<>>]

VARIABLES
  phase,     \* where main is
  conn,      \* "none", "open" or "lost"
  db,        \* the committed database
  tx,        \* the open transaction's view of it, or NoTx
  todo,      \* migrations directory_iterator has still to yield
  prepared,  \* the connection's prepared statements
  modlist,   \* modules load_all has still to load
  loaded,    \* modules load_all has loaded
  cause,     \* why the last process ended
  faults     \* faults so far

vars == <<phase, conn, db, tx, todo, prepared, modlist, loaded, cause, faults>>

Phases == {"down", "connect", "migrate", "prepare", "load_all", "serve"}

TypeOK ==
  /\ phase \in Phases
  /\ conn \in {"none", "open", "lost"}
  /\ db \in Database
  /\ tx \in Database \cup {NoTx}
  /\ todo \subseteq Migrations
  /\ prepared \subseteq Statements
  /\ modlist \in Seq(STRING)
  /\ loaded \subseteq STRING
  /\ cause \in {"none", "killed", "outage", "database"}
  /\ faults \in 0 .. MaxFaults

Init ==
  /\ phase = "down"
  /\ conn = "none"
  /\ db \in Databases
  /\ tx = NoTx
  /\ todo = {}
  /\ prepared = {}
  /\ modlist = <<>>
  /\ loaded = {}
  /\ cause = "none"
  /\ faults = 0

-----------------------------------------------------------------------------
(* The migrations and the statements, as PostgreSQL runs them *)

\* Mutant of Applicable: 0003 drops its constraint without IF EXISTS and the
\* two before it create their tables without IF NOT EXISTS.
ApplicableOnce(m, d) ==
  CASE m = "0001-init" -> "spotify" \notin d.schema
    [] m = "0002-state" -> "bot_state" \notin d.schema
    [] OTHER -> "bot_state" \in d.schema /\ \A s \in Settings : Len(d.rows[s]) <= 1

\* CREATE TABLE IF NOT EXISTS always succeeds; ALTER TABLE needs the table, and
\* ADD CONSTRAINT UNIQUE (setting) no setting in two rows.
Applicable(m, d) ==
  m = "0003-unique-state-key" =>
    "bot_state" \in d.schema /\ \A s \in Settings : Len(d.rows[s]) <= 1

Creates(m) == CASE m = "0001-init" -> "spotify"
                [] m = "0002-state" -> "bot_state"
                [] OTHER -> "setting_unique"

\* Does "state", "update_state" run in d?  ON CONFLICT (setting) needs the constraint.
Readable(d) == "state" \in prepared /\ "bot_state" \in d.schema
Writable(d) == "update_state" \in prepared /\ {"bot_state", "setting_unique"} \subseteq d.schema

\* Mutant of Stored: the value read is not looked at, the default is written.
StoredAlways(rows) == [s \in Settings |-> <<Default[s]>>]

Missing(rows) == {s \in Settings : Len(rows[s]) # 1}

\* Mutant of Stored: the default is written under a name nobody reads.
StoredMisspelt(rows) ==
  IF Missing(rows) = {} THEN rows
  ELSE [s \in Settings \cup {"default_acount"} |->
          IF s \in Settings THEN rows[s] ELSE <<Default[CHOOSE m \in Missing(rows) : TRUE]>>]

\* exec_prepared1 wants exactly one row; for any other number the constructor
\* writes the default: an insert, or an update of the row in conflict.
Stored(rows) == [s \in Settings |-> IF Len(rows[s]) = 1 THEN rows[s] ELSE <<Default[s]>>]

\* The process ends: its connection is closed and the server rolls back.
Ends(why) ==
  /\ phase' = "down"
  /\ conn' = "none"
  /\ tx' = NoTx
  /\ todo' = {}
  /\ prepared' = {}
  /\ modlist' = <<>>
  /\ loaded' = {}
  /\ cause' = why

-----------------------------------------------------------------------------
(* main and the constructor of Bot *)

Boot ==
  /\ phase = "down"
  /\ phase' = "connect"
  /\ UNCHANGED <<conn, db, tx, todo, prepared, modlist, loaded, cause, faults>>

\* db::connect, and the transaction that run_database_migrations begins.
Connect ==
  /\ phase = "connect"
  /\ conn' = "open"
  /\ tx' = db
  /\ todo' = Migrations
  /\ phase' = "migrate"
  /\ UNCHANGED <<db, prepared, modlist, loaded, cause, faults>>

\* db::connect rethrows; nothing catches it above main.
ConnectFails ==
  /\ phase = "connect"
  /\ faults < MaxFaults
  /\ faults' = faults + 1
  /\ Ends("outage")
  /\ UNCHANGED db

\* Mutant of Migrate: each file is committed by itself.
MigrateAutocommit(m) ==
  /\ phase = "migrate"
  /\ conn = "open"
  /\ m \in todo
  /\ Applicable(m, tx)
  /\ tx' = [tx EXCEPT !.schema = @ \cup {Creates(m)}]
  /\ db' = tx'
  /\ todo' = todo \ {m}
  /\ UNCHANGED <<phase, conn, prepared, modlist, loaded, cause, faults>>

\* directory_iterator yields the files in no particular order.
Migrate(m) ==
  /\ phase = "migrate"
  /\ conn = "open"
  /\ m \in todo
  /\ Applicable(m, tx)
  /\ tx' = [tx EXCEPT !.schema = @ \cup {Creates(m)}]
  /\ todo' = todo \ {m}
  /\ UNCHANGED <<phase, conn, db, prepared, modlist, loaded, cause, faults>>

\* exec0 throws: abort, return false, which the constructor ignores.  No
\* statement is prepared and load_all runs all the same.
MigrateFails(m) ==
  /\ phase = "migrate"
  /\ m \in todo
  /\ conn = "lost" \/ ~Applicable(m, tx)
  /\ tx' = NoTx
  /\ todo' = {}
  /\ modlist' = Config
  /\ phase' = "load_all"
  /\ UNCHANGED <<conn, db, prepared, loaded, cause, faults>>

Commit ==
  /\ phase = "migrate"
  /\ conn = "open"
  /\ todo = {}
  /\ db' = tx
  /\ tx' = NoTx
  /\ phase' = "prepare"
  /\ UNCHANGED <<conn, todo, prepared, modlist, loaded, cause, faults>>

\* w.commit throws on a lost connection, outside the try block; the server may
\* or may not have committed before it was lost.
CommitFails ==
  /\ phase = "migrate"
  /\ conn = "lost"
  /\ todo = {}
  /\ db' \in {db, tx}
  /\ Ends("outage")
  /\ UNCHANGED faults

\* create_queries: PREPARE parses the statement, so bot_state must exist.
Prepare ==
  /\ phase = "prepare"
  /\ conn = "open" /\ "bot_state" \in db.schema
  /\ prepared' = Statements
  /\ modlist' = Config
  /\ phase' = "load_all"
  /\ UNCHANGED <<conn, db, tx, todo, loaded, cause, faults>>

PrepareFails ==
  /\ phase = "prepare"
  /\ conn = "lost" \/ "bot_state" \notin db.schema
  /\ Ends(IF conn = "lost" THEN "outage" ELSE "database")
  /\ UNCHANGED <<db, faults>>

\* The module is loaded already, or dlopen does not find it: load returns false,
\* which load_all ignores.
LoadFails ==
  /\ phase = "load_all"
  /\ modlist # <<>>
  /\ modlist' = Tail(modlist)
  /\ UNCHANGED <<phase, conn, db, tx, todo, prepared, loaded, cause, faults>>

LoadNext(module) ==
  /\ phase = "load_all"
  /\ modlist # <<>>
  /\ Head(modlist) = module
  /\ module \notin loaded
  /\ modlist' = Tail(modlist)
  /\ loaded' = loaded \cup {module}
  /\ UNCHANGED <<phase, conn, tx, todo, prepared, cause, faults>>

\* A module without a hand in the database.
LoadOther ==
  /\ \E i \in DOMAIN Config : Config[i] # "spotify" /\ LoadNext(Config[i])
  /\ UNCHANGED db

\* Mutant of LoadSpotify: a constructor that cannot read its settings goes on.
LoadSpotifyAnyway ==
  /\ LoadNext("spotify")
  /\ UNCHANGED db

\* SpotifyModule's constructor, one transaction (what it keeps in memory is
\* Spotify's).
LoadSpotify ==
  /\ LoadNext("spotify")
  /\ conn = "open"
  /\ Readable(db)
  /\ Missing(db.rows) # {} => Writable(db)
  /\ db' = [db EXCEPT !.rows = Stored(@)]

\* The constructor throws and nothing above load_all catches.  A connection
\* lost in its commit may have committed.
SpotifyThrows ==
  /\ phase = "load_all"
  /\ modlist # <<>>
  /\ Head(modlist) = "spotify" /\ "spotify" \notin loaded
  /\ \/ conn = "lost" /\ Ends("outage")
     \/ /\ conn = "open"
        /\ ~Readable(db) \/ (Missing(db.rows) # {} /\ ~Writable(db))
        /\ Ends("database")
  /\ db' \in {db} \cup (IF conn = "lost" /\ Readable(db) /\ Writable(db)
                        THEN {[db EXCEPT !.rows = Stored(@)]} ELSE {})
  /\ UNCHANGED faults

\* The events are bound and bot.start waits.
Start ==
  /\ phase = "load_all"
  /\ modlist = <<>>
  /\ phase' = "serve"
  /\ UNCHANGED <<conn, db, tx, todo, prepared, modlist, loaded, cause, faults>>

-----------------------------------------------------------------------------
(* The world *)

\* spotify account, spotify device: the owner changes a setting ("update_state").
OwnerSets ==
  /\ phase = "serve"
  /\ conn = "open"
  /\ Writable(db)
  /\ \E s \in Settings, v \in Values : db' = [db EXCEPT !.rows[s] = <<v>>]
  /\ UNCHANGED <<phase, conn, tx, todo, prepared, modlist, loaded, cause, faults>>

\* sudo sql: the owner deletes a row of bot_state.
OwnerDeletes ==
  /\ phase = "serve"
  /\ conn = "open"
  /\ "bot_state" \in db.schema
  /\ faults < MaxFaults
  /\ faults' = faults + 1
  /\ \E s \in Settings : db' = [db EXCEPT !.rows[s] = <<>>]
  /\ UNCHANGED <<phase, conn, tx, todo, prepared, modlist, loaded, cause>>

Outage ==
  /\ conn = "open"
  /\ faults < MaxFaults
  /\ faults' = faults + 1
  /\ conn' = "lost"
  /\ UNCHANGED <<phase, db, tx, todo, prepared, modlist, loaded, cause>>

\* A crash, a signal, or sudo restart, which exits.
Kill ==
  /\ phase # "down"
  /\ faults < MaxFaults
  /\ faults' = faults + 1
  /\ Ends("killed")
  /\ UNCHANGED db

-----------------------------------------------------------------------------

Main ==
  \/ Connect \/ Commit \/ CommitFails \/ Prepare \/ PrepareFails
  \/ LoadFails \/ LoadOther \/ LoadSpotify \/ SpotifyThrows \/ Start
  \/ \E m \in Migrations : Migrate(m) \/ MigrateFails(m)

Next ==
  \/ Boot \/ Main \/ ConnectFails
  \/ OwnerSets \/ OwnerDeletes \/ Outage \/ Kill

Spec == Init /\ [][Next]_vars

\* The process runs, and something starts it again when it has ended: sudo
\* restart, which only exits, relies on it.
FairSpec == Spec /\ WF_vars(Boot) /\ WF_vars(Main)

-----------------------------------------------------------------------------
(* Properties *)

\* Once spotify is loaded the bot has its statements and its schema, and it
\* begins to serve with exactly one row for every setting, although the result of
\* the migrations is ignored (bot.cpp:32) and load_all runs after any failure.
\* (When spotify itself cannot be loaded the bot serves whatever it found.)
ServesMigrated ==
  "spotify" \in loaded =>
    /\ prepared = Statements /\ db.schema = Full
    /\ phase = "load_all" => \A s \in Settings : Len(db.rows[s]) = 1

\* Whatever order the migrations come in, wherever they fail and wherever the
\* process dies, the schema goes from what it was to all of it in one step.
SchemaAllOrNothing == [][db'.schema # db.schema => db'.schema = Full]_vars

\* A start never changes a setting that the table holds, and never leaves one
\* twice where it was once: only the owner does, of a serving bot.
StartKeepsSettings ==
  [][\A s \in Settings :
       phase # "serve" /\ Len(db.rows[s]) = 1 => db'.rows[s] = db.rows[s]]_vars

\* Once the database is migrated, every later boot gets through by itself,
\* in every order of the migrations: only an outage or a kill stops it.
MigratedBoots == [][phase # "down" /\ phase' = "down" /\ cause' = "database"
                      => db.schema # Full]_vars

\* A migrated database has its bot serving again, whatever outages and kills
\* there were before, once they cease.
Recovers == db.schema = Full ~> phase = "serve"

=============================================================================
