--------------------------- MODULE StartupProofs ---------------------------
(***************************************************************************)
(* Proofs about Startup, for every configuration, every set of settings    *)
(* and any number of faults, of any kind in any order.                     *)
(*                                                                         *)
(* TxInv says what the migrations' transaction has done so far: its schema *)
(* is the committed one and the tables of the files it is through with,    *)
(* its rows are the committed ones.  BootInv carries what a boot has       *)
(* reached from phase to phase: what Commit made is there in prepare, what *)
(* Prepare made is there, or its failure is known, in load_all; and what   *)
(* spotify's constructor needed and wrote is there once spotify is loaded. *)
(***************************************************************************)
EXTENDS Startup, TLAPS

TxInv ==
  phase = "migrate" =>
    /\ tx \in Database
    /\ tx.rows = db.rows
    /\ tx.schema = db.schema \cup {Creates(m) : m \in Migrations \ todo}

ConstraintInv ==
  /\ Constrained(db)
  /\ phase = "migrate" => Constrained(tx)

BootInv ==
  /\ phase \in {"down", "connect", "migrate", "prepare"} => prepared = {}
  /\ prepared \in {{}, Statements}
  /\ phase = "prepare" \/ prepared = Statements => db.schema = Full
  /\ phase \in {"load_all", "serve"} /\ prepared = {} => conn = "lost" \/ db.schema # Full
  /\ phase \in {"down", "connect", "migrate", "prepare"} => loaded = {}
  /\ "spotify" \in loaded => prepared = Statements
  /\ "spotify" \in loaded /\ phase = "load_all" => \A s \in Settings : Len(db.rows[s]) = 1

IInv == TypeOK /\ TxInv /\ ConstraintInv /\ BootInv

-----------------------------------------------------------------------------
(* Databases and what is done to them *)

\* A database is what its two fields are.
LEMMA Fields ==
  ASSUME NEW d \in Database
  PROVE  /\ d.schema \subseteq Full
         /\ d.rows \in [Settings -> Seq(Values)]
         /\ d = [schema |-> d.schema, rows |-> d.rows]
  BY DEF Database

\* Changing one field leaves the other.
LEMMA Changed ==
  ASSUME NEW d \in Database, NEW x
  PROVE  /\ [d EXCEPT !.schema = x] = [schema |-> x, rows |-> d.rows]
         /\ [d EXCEPT !.rows = x] = [schema |-> d.schema, rows |-> x]
  BY DEF Database

\* The files of migrations make the whole schema, and nothing else.
LEMMA Made ==
  /\ \A m \in Migrations : Creates(m) \in Full
  /\ {Creates(m) : m \in Migrations} = Full
  <1>1. Creates("0001-init") = "spotify" /\ Creates("0002-state") = "bot_state"
          /\ Creates("0003-unique-state-key") = "setting_unique"
    BY DEF Creates
  <1>2. QED BY <1>1 DEF Migrations, Full

\* What spotify's constructor stores are rows, one of each setting, and those
\* that were alone already are as they were.
LEMMA StoredRows ==
  ASSUME NEW rows \in [Settings -> Seq(Values)]
  PROVE  /\ Stored(rows) \in [Settings -> Seq(Values)]
         /\ \A s \in Settings : Len(Stored(rows)[s]) = 1
         /\ \A s \in Settings : Len(rows[s]) = 1 => Stored(rows)[s] = rows[s]
  <1>1. \A s \in Settings : Default[s] \in Values
    BY StartupAssumption DEF Settings
  <1>2. \A s \in Settings : <<Default[s]>> \in Seq(Values) /\ Len(<<Default[s]>>) = 1
    BY <1>1
  <1>3. QED BY <1>2 DEF Stored

\* The constructor leaves a database of the same schema.
LEMMA StoredDatabase ==
  ASSUME NEW d \in Database, Constrained(d)
  PROVE  LET new == [d EXCEPT !.rows = Stored(@)]
         IN  /\ new \in Database
             /\ new.schema = d.schema
             /\ new.rows = Stored(d.rows)
             /\ Constrained(new)
  <1> DEFINE new == [d EXCEPT !.rows = Stored(@)]
  <1>1. new = [schema |-> d.schema, rows |-> Stored(d.rows)]
    BY Changed
  <1>2. new \in Database
    BY <1>1, Fields, StoredRows DEF Database
  <1>3. Constrained(new)
    <2>1. \A s \in Settings : Len(Stored(d.rows)[s]) = 1
      BY Fields, StoredRows
    <2>2. new.schema = d.schema /\ new.rows = Stored(d.rows)
      BY <1>1
    <2>3. ASSUME NEW s \in Settings PROVE Len(new.rows[s]) <= 1
      <3>1. Len(new.rows[s]) = 1
        BY <2>1, <2>2, Zenon
      <3> HIDE DEF new
      <3>2. QED BY <3>1
    <2>4. QED BY <2>2, <2>3 DEF Constrained
  <1>4. QED BY <1>1, <1>2, <1>3

\* One row more or less of a setting, at most one altogether, is no conflict.
LEMMA OneRow ==
  ASSUME NEW d \in Database, Constrained(d), NEW s \in Settings,
         NEW row \in Seq(Values), Len(row) <= 1
  PROVE  LET new == [d EXCEPT !.rows[s] = row]
         IN  new \in Database /\ new.schema = d.schema /\ Constrained(new)
  <1> DEFINE new == [d EXCEPT !.rows[s] = row]
  <1>1. new = [schema |-> d.schema, rows |-> [d.rows EXCEPT ![s] = row]]
    BY Changed
  <1>2. new \in Database
    BY <1>1, Fields DEF Database
  <1>3. \A t \in Settings : [d.rows EXCEPT ![s] = row][t] = IF t = s THEN row ELSE d.rows[t]
    BY Fields
  <1>4. Constrained(new)
    <2>1. new.schema = d.schema /\ new.rows = [d.rows EXCEPT ![s] = row]
      BY <1>1
    <2>2. ASSUME NEW t \in Settings, Len(d.rows[t]) <= 1 PROVE Len(new.rows[t]) <= 1
      BY <1>3, <2>1, <2>2
    <2>3. QED BY <2>1, <2>2 DEF Constrained
  <1>5. QED BY <1>1, <1>2, <1>4

-----------------------------------------------------------------------------
(* The invariant: it holds at first, and every action keeps it *)

LEMMA InitInv == Init => IInv
  <1> SUFFICES ASSUME Init PROVE IInv
    OBVIOUS
  <1>1. db \in Database /\ Constrained(db)
    BY StartupAssumption, DatabasesAssumption DEF Init
  <1>2. <<>> \in Seq(STRING)
    OBVIOUS
  <1>3. TypeOK
    BY <1>1, <1>2, StartupAssumption DEF Init, TypeOK, Phases
  <1>4. TxInv /\ ConstraintInv /\ BootInv
    BY <1>1 DEF Init, TxInv, ConstraintInv, BootInv, Statements
  <1>5. QED BY <1>3, <1>4 DEF IInv

\* The process ends: whatever it had is gone and the database is as it is.
LEMMA EndsInv ==
  ASSUME IInv, NEW why \in {"killed", "outage", "database"}, Ends(why),
         db' \in Database, Constrained(db'), faults' \in 0 .. MaxFaults
  PROVE  IInv'
  <1>1. <<>> \in Seq(STRING)
    OBVIOUS
  <1>2. TypeOK'
    BY <1>1 DEF Ends, TypeOK, Phases
  <1>3. (TxInv /\ ConstraintInv /\ BootInv)'
    BY DEF Ends, TxInv, ConstraintInv, BootInv, Constrained, Statements
  <1>4. QED BY <1>2, <1>3 DEF IInv

\* Every step of main keeps the invariant.
LEMMA MainInv == IInv /\ Main => IInv'
  <1> SUFFICES ASSUME IInv, Main PROVE IInv'
    OBVIOUS
  <1> USE DEF IInv
  <1>t. /\ db \in Database /\ Constrained(db)
        /\ faults \in 0 .. MaxFaults /\ MaxFaults \in Nat
        /\ modlist \in Seq(STRING) /\ Config \in Seq(STRING)
    BY StartupAssumption DEF TypeOK, ConstraintInv
  <1>1. CASE Connect
    <2>1. (TypeOK /\ ConstraintInv)'
      BY <1>1, <1>t DEF Connect, TypeOK, Phases, ConstraintInv, Constrained
    <2>2. (TxInv /\ BootInv)'
      BY <1>1, <1>t DEF Connect, TxInv, BootInv
    <2>3. QED BY <2>1, <2>2
  <1>2. CASE Commit
    <2>1. tx \in Database /\ Constrained(tx) /\ tx.schema = Full
      <3>1. tx.schema = db.schema \cup Full
        BY <1>2, Made DEF Commit, TxInv
      <3>2. QED BY <1>2, <1>t, <3>1, Fields DEF Commit, TxInv, ConstraintInv
    <2>2. (TypeOK /\ TxInv /\ ConstraintInv)'
      BY <1>2, <1>t, <2>1 DEF Commit, TypeOK, Phases, TxInv, ConstraintInv, Constrained
    <2>3. BootInv'
      BY <1>2, <2>1 DEF Commit, BootInv, Statements
    <2>4. QED BY <2>2, <2>3
  <1>3. CASE CommitFails
    <2>1. db' \in Database /\ Constrained(db')
      BY <1>3, <1>t DEF CommitFails, TxInv, ConstraintInv, Constrained
    <2>2. QED BY <1>3, <1>t, <2>1, EndsInv DEF CommitFails
  <1>4. CASE Prepare
    <2>1. (TypeOK /\ TxInv /\ ConstraintInv)'
      BY <1>4, <1>t DEF Prepare, TypeOK, Phases, TxInv, ConstraintInv, Constrained
    <2>2. BootInv'
      BY <1>4 DEF Prepare, BootInv, Statements
    <2>3. QED BY <2>1, <2>2
  <1>5. CASE PrepareFails
    BY <1>5, <1>t, EndsInv DEF PrepareFails, Constrained
  <1>l. ASSUME modlist # <<>>, modlist' = Tail(modlist) PROVE modlist' \in Seq(STRING)
    BY <1>l, <1>t
  <1>6. CASE LoadFails \/ LoadOther
    <2>1. /\ phase = "load_all" /\ modlist' \in Seq(STRING)
          /\ UNCHANGED <<phase, conn, db, tx, todo, prepared, cause, faults>>
      BY <1>6, <1>l DEF LoadFails, LoadOther, LoadNext
    <2>2. loaded' \subseteq STRING /\ ("spotify" \in loaded' => "spotify" \in loaded)
      <3>1. CASE LoadFails
        BY <3>1 DEF LoadFails, TypeOK
      <3>2. CASE LoadOther
        <4>1. PICK i \in DOMAIN Config : Config[i] # "spotify" /\ LoadNext(Config[i])
          BY <3>2 DEF LoadOther
        <4>2. Config[i] \in STRING
          BY <1>t
        <4> QED BY <4>1, <4>2 DEF LoadNext, TypeOK
      <3> QED BY <1>6, <3>1, <3>2
    <2>3. (TypeOK /\ TxInv /\ ConstraintInv)'
      BY <1>t, <2>1, <2>2 DEF TypeOK, Phases, TxInv, ConstraintInv, Constrained
    <2>4. BootInv'
      BY <2>1, <2>2 DEF BootInv
    <2>5. QED BY <2>3, <2>4
  <1>7. CASE LoadSpotify
    <2>1. modlist' \in Seq(STRING) /\ loaded' = loaded \cup {"spotify"}
      BY <1>7, <1>l DEF LoadSpotify, LoadNext
    <2>2. db' \in Database /\ db'.schema = db.schema /\ Constrained(db')
      BY <1>7, <1>t, StoredDatabase DEF LoadSpotify, Constrained
    <2>3. (TypeOK /\ TxInv /\ ConstraintInv)'
      BY <1>7, <1>t, <2>1, <2>2
      DEF LoadSpotify, LoadNext, TypeOK, Phases, TxInv, ConstraintInv, Constrained
    <2>4. prepared = Statements
      BY <1>7 DEF LoadSpotify, Readable, BootInv
    <2>5. \A s \in Settings : Len(db'.rows[s]) = 1
      <3>1. db'.rows = Stored(db.rows)
        BY <1>7, <1>t, StoredDatabase DEF LoadSpotify
      <3>2. db.rows \in [Settings -> Seq(Values)]
        BY <1>t, Fields
      <3>3. \A s \in Settings : Len(Stored(db.rows)[s]) = 1
        BY <3>2, StoredRows
      <3>4. QED BY <3>1, <3>3, Zenon
    <2>6. BootInv'
      BY <1>7, <2>2, <2>4, <2>5 DEF LoadSpotify, LoadNext, BootInv, Statements
    <2>7. QED BY <2>3, <2>6
  <1>8. CASE SpotifyThrows
    <2>1. db' \in Database /\ Constrained(db')
      BY <1>8, <1>t, StoredDatabase DEF SpotifyThrows, Constrained
    <2>2. QED BY <1>8, <1>t, <2>1, EndsInv DEF SpotifyThrows
  <1>9. CASE Start
    <2>1. (TypeOK /\ TxInv /\ ConstraintInv)'
      BY <1>9, <1>t DEF Start, TypeOK, Phases, TxInv, ConstraintInv, Constrained
    <2>2. BootInv'
      BY <1>9 DEF Start, BootInv
    <2>3. QED BY <2>1, <2>2
  <1>10. ASSUME NEW m \in Migrations, Migrate(m) PROVE IInv'
    <2>1. tx \in Database /\ tx' = [schema |-> tx.schema \cup {Creates(m)}, rows |-> tx.rows]
      BY <1>10, Changed DEF Migrate, TxInv
    <2>2. tx' \in Database
      BY <2>1, Fields, Made DEF Database
    <2>3. TypeOK'
      BY <1>10, <2>2 DEF Migrate, TypeOK
    <2>4. {Creates(x) : x \in Migrations \ todo'}
            = {Creates(x) : x \in Migrations \ todo} \cup {Creates(m)}
      BY <1>10 DEF Migrate
    <2>5. TxInv'
      BY <1>10, <2>1, <2>2, <2>4 DEF Migrate, TxInv
    <2>6. Constrained(tx')
      BY <1>10, <2>1 DEF Migrate, ConstraintInv, Constrained, Applicable, Creates, Migrations
    <2>7. ConstraintInv'
      BY <1>10, <2>6 DEF Migrate, ConstraintInv, Constrained
    <2>8. BootInv'
      BY <1>10 DEF Migrate, BootInv
    <2>9. QED BY <2>3, <2>5, <2>7, <2>8
  <1>11. ASSUME NEW m \in Migrations, MigrateFails(m) PROVE IInv'
    <2>1. (TypeOK /\ TxInv /\ ConstraintInv)'
      BY <1>11, <1>t DEF MigrateFails, TypeOK, Phases, TxInv, ConstraintInv, Constrained
    <2>2. conn = "lost" \/ db.schema # Full
      <3>1. SUFFICES ASSUME conn # "lost" PROVE db.schema # Full
        OBVIOUS
      <3>2. ~Applicable(m, tx) /\ tx.rows = db.rows /\ db.schema \subseteq tx.schema
        BY <1>11, <3>1 DEF MigrateFails, TxInv
      <3>3. QED BY <1>t, <3>2 DEF Applicable, Constrained, Full
    <2>3. BootInv'
      BY <1>11, <2>2 DEF MigrateFails, BootInv, Statements
    <2>4. QED BY <2>1, <2>3
  <1>12. QED
    BY <1>1, <1>2, <1>3, <1>4, <1>5, <1>6, <1>7, <1>8, <1>9, <1>10, <1>11 DEF Main

\* What the owner and the world do to a serving bot, or to one that is coming up.
LEMMA WorldInv == IInv /\ (Boot \/ ConnectFails \/ OwnerSets \/ OwnerDeletes \/ Outage \/ Kill) => IInv'
  <1> SUFFICES ASSUME IInv, Boot \/ ConnectFails \/ OwnerSets \/ OwnerDeletes \/ Outage \/ Kill
               PROVE  IInv'
    OBVIOUS
  <1> USE DEF IInv
  <1>t. /\ db \in Database /\ Constrained(db)
        /\ faults \in 0 .. MaxFaults /\ MaxFaults \in Nat
    BY StartupAssumption DEF TypeOK, ConstraintInv
  <1>f. ASSUME faults < MaxFaults, faults' = faults + 1 PROVE faults' \in 0 .. MaxFaults
    BY <1>t, <1>f
  <1>1. CASE Boot
    BY <1>1 DEF Boot, TypeOK, Phases, TxInv, ConstraintInv, Constrained, BootInv, Statements
  <1>2. CASE ConnectFails
    BY <1>2, <1>t, <1>f, EndsInv DEF ConnectFails, Constrained
  <1>3. CASE Kill
    BY <1>3, <1>t, <1>f, EndsInv DEF Kill, Constrained
  <1>4. CASE Outage
    <2>1. (TypeOK /\ TxInv /\ ConstraintInv)'
      BY <1>4, <1>f DEF Outage, TypeOK, TxInv, ConstraintInv, Constrained
    <2>2. BootInv'
      BY <1>4 DEF Outage, BootInv
    <2>3. QED BY <2>1, <2>2
  <1>5. CASE OwnerSets
    <2>1. PICK s \in Settings, v \in Values : db' = [db EXCEPT !.rows[s] = <<v>>]
      BY <1>5 DEF OwnerSets
    <2>2. <<v>> \in Seq(Values) /\ Len(<<v>>) <= 1
      OBVIOUS
    <2>3. db' \in Database /\ db'.schema = db.schema /\ Constrained(db')
      BY <1>t, <2>1, <2>2, OneRow
    <2>4. (TypeOK /\ TxInv /\ ConstraintInv /\ BootInv)'
      BY <1>5, <2>3 DEF OwnerSets, TypeOK, TxInv, ConstraintInv, Constrained, BootInv
    <2>5. QED BY <2>4
  <1>6. CASE OwnerDeletes
    <2>1. PICK s \in Settings : db' = [db EXCEPT !.rows[s] = <<>>]
      BY <1>6 DEF OwnerDeletes
    <2>2. <<>> \in Seq(Values) /\ Len(<<>>) <= 1
      OBVIOUS
    <2>3. db' \in Database /\ db'.schema = db.schema /\ Constrained(db')
      BY <1>t, <2>1, <2>2, OneRow
    <2>4. (TypeOK /\ TxInv /\ ConstraintInv /\ BootInv)'
      BY <1>6, <1>f, <2>3 DEF OwnerDeletes, TypeOK, TxInv, ConstraintInv, Constrained, BootInv
    <2>5. QED BY <2>4
  <1>7. QED BY <1>1, <1>2, <1>3, <1>4, <1>5, <1>6

\* Nothing that leaves the variables alone disturbs it.
LEMMA StutterInv == IInv /\ UNCHANGED vars => IInv'
  BY DEF vars, IInv, TypeOK, TxInv, ConstraintInv, Constrained, BootInv

\* The invariant is one of the specification.
THEOREM Invariant == Spec => []IInv
  <1>1. IInv /\ [Next]_vars => IInv'
    BY MainInv, WorldInv, StutterInv DEF Next
  <1>2. QED BY InitInv, <1>1, PTL DEF Spec

-----------------------------------------------------------------------------
(* The properties *)

\* Every variable keeps its type; what spotify stores are rows of the table.
THEOREM TypeCorrect == Spec => []TypeOK
  BY Invariant, PTL DEF IInv

\* Once spotify is loaded the bot has its statements and its schema, and a row for
\* every setting when it begins to serve, whatever failed before (bot.cpp:32
\* ignores whether the migrations worked, load_all whether a module was loaded).
THEOREM ServingMigrated == Spec => []ServesMigrated
  <1>1. IInv => ServesMigrated
    BY DEF IInv, BootInv, ServesMigrated
  <1>2. QED BY Invariant, <1>1, PTL

\* Nothing but the commit of all the migrations changes the schema.
THEOREM SchemaAtomic == Spec => SchemaAllOrNothing
  <1>1. IInv /\ [Next]_vars => [db'.schema # db.schema => db'.schema = Full]_vars
    <2> SUFFICES ASSUME IInv, [Next]_vars, db'.schema # db.schema PROVE db'.schema = Full
      OBVIOUS
    <2>t. db \in Database /\ Constrained(db) /\ (phase = "migrate" => tx \in Database)
      BY DEF IInv, TypeOK, ConstraintInv, TxInv
    <2>1. ASSUME phase = "migrate", todo = {} PROVE tx.schema = Full
      <3>1. tx.schema = db.schema \cup Full
        BY <2>1, Made DEF IInv, TxInv
      <3>2. QED BY <2>t, <3>1, Fields
    <2>2. CASE Commit \/ CommitFails
      BY <2>1, <2>2 DEF Commit, CommitFails
    <2>3. CASE LoadSpotify \/ SpotifyThrows
      BY <2>t, <2>3, StoredDatabase DEF LoadSpotify, SpotifyThrows
    <2>4. CASE OwnerSets
      <3>1. PICK s \in Settings, v \in Values : db' = [db EXCEPT !.rows[s] = <<v>>]
        BY <2>4 DEF OwnerSets
      <3>2. db'.schema = db.schema
        BY <2>t, <3>1, Changed
      <3>3. QED BY <3>2
    <2>5. CASE OwnerDeletes
      <3>1. PICK s \in Settings : db' = [db EXCEPT !.rows[s] = <<>>]
        BY <2>5 DEF OwnerDeletes
      <3>2. db'.schema = db.schema
        BY <2>t, <3>1, Changed
      <3>3. QED BY <3>2
    <2>6. QED
      BY <2>2, <2>3, <2>4, <2>5
      DEF Next, Main, Boot, Connect, ConnectFails, Migrate, MigrateFails, Prepare,
          PrepareFails, LoadFails, LoadOther, LoadNext, Start, Outage, Kill, vars
  <1>2. QED BY Invariant, <1>1, PTL DEF Spec, SchemaAllOrNothing

\* A setting the table holds once is the owner's alone to change: neither the
\* migrations nor spotify's constructor, in whatever state they fail, touch it.
THEOREM SettingsKept == Spec => StartKeepsSettings
  <1>1. IInv /\ [Next]_vars =>
          [\A s \in Settings :
             phase # "serve" /\ Len(db.rows[s]) = 1 => db'.rows[s] = db.rows[s]]_vars
    <2> SUFFICES ASSUME IInv, [Next]_vars, NEW s \in Settings,
                        phase # "serve", Len(db.rows[s]) = 1
                 PROVE  db'.rows[s] = db.rows[s]
      OBVIOUS
    <2>t. db \in Database /\ Constrained(db)
      BY DEF IInv, TypeOK, ConstraintInv
    <2>1. CASE Commit \/ CommitFails
      BY <2>1 DEF Commit, CommitFails, IInv, TxInv
    <2>2. CASE LoadSpotify \/ SpotifyThrows
      <3>1. Stored(db.rows)[s] = db.rows[s]
        BY <2>t, Fields, StoredRows
      <3>2. [db EXCEPT !.rows = Stored(@)].rows = Stored(db.rows)
        BY <2>t, StoredDatabase
      <3>3. QED BY <2>2, <3>1, <3>2 DEF LoadSpotify, SpotifyThrows
    <2>3. QED
      BY <2>1, <2>2
      DEF Next, Main, Boot, Connect, ConnectFails, Migrate, MigrateFails, Prepare,
          PrepareFails, LoadFails, LoadOther, LoadNext, Start, Outage, Kill, OwnerSets, OwnerDeletes, vars
  <1>2. QED BY Invariant, <1>1, PTL DEF Spec, StartKeepsSettings

\* A boot of a migrated database ends by an outage or a kill or not at all: its
\* migrations apply in any order, PREPARE finds its tables, and spotify its
\* statements.
THEOREM MigratedComesUp == Spec => MigratedBoots
  <1>1. IInv /\ [Next]_vars =>
          [phase # "down" /\ phase' = "down" /\ cause' = "database" => db.schema # Full]_vars
    <2> SUFFICES ASSUME IInv, [Next]_vars,
                        phase # "down", phase' = "down", cause' = "database"
                 PROVE  db.schema # Full
      OBVIOUS
    <2>1. CASE PrepareFails
      BY <2>1 DEF PrepareFails, Ends, Full
    <2>2. CASE SpotifyThrows
      <3>1. conn = "open" /\ (~Readable(db) \/ ~Writable(db)) /\ phase = "load_all"
        BY <2>2 DEF SpotifyThrows, Ends
      <3>2. CASE prepared = {}
        BY <3>1, <3>2 DEF IInv, BootInv
      <3>3. CASE prepared = Statements
        BY <3>1, <3>3 DEF Readable, Writable, Statements, Full
      <3>4. QED BY <3>2, <3>3 DEF IInv, BootInv
    <2>3. QED
      BY <2>1, <2>2
      DEF Next, Main, Ends, Boot, Connect, ConnectFails, Migrate, MigrateFails, Commit,
          CommitFails, Prepare, LoadFails, LoadOther, LoadSpotify, LoadNext, Start, Outage, Kill, OwnerSets,
          OwnerDeletes, vars
  <1>2. QED BY Invariant, <1>1, PTL DEF Spec, MigratedBoots

=============================================================================
