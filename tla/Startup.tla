------------------------------ MODULE Startup -------------------------------
(***************************************************************************)
(* What the server does before it listens (main.go): waiting for the       *)
(* database, the registered migrations in order (migration/migrate.go),    *)
(* the seed.  A statement of the database is a step; none of this runs in  *)
(* a transaction.  A statement may fail, the process may die anywhere, and *)
(* the container starts it again.                                          *)
(***************************************************************************)
EXTENDS Naturals, Sequences, FiniteSets, SequencesExt

CONSTANT Permissions  \* names of the permissions

ASSUME StartupAssumption == Permissions # {} /\ IsFiniteSet(Permissions)

VARIABLES
  schema,    \* tables and the columns that migrations are about
  recorded,  \* table schema_migrations
  markets,   \* the texts of each market: one of old, one of this version
  names,     \* table permissions
  admin,     \* the user "admin" of the seed
  boss,      \* permissions of a former user of type ADMIN
  fills,     \* whether a new column with a default fills existing rows
  main,      \* the process
  lost       \* history: a migration went on after a failure

database == <<schema, recorded, markets, names, admin, boss>>
startupVars == <<database, fills, main, lost>>

-----------------------------------------------------------------------------
(* The migrations, sorted by id, as statements.                            *)

Create(x) == [do |-> "create", what |-> x]
Fill(x) == [do |-> "fill", what |-> x]
Row(x) == [do |-> "row", what |-> x]
Grant(x) == [do |-> "grant", what |-> x]
HasUserType == [do |-> "has", what |-> "user_type"]
FindAdmins == [do |-> "find", what |-> "user_type"]
DropUserType == [do |-> "drop", what |-> "user_type"]

Each(Op(_), s) == [i \in DOMAIN s |-> Op(s[i])]
PermissionList == SetToSeq(Permissions)
TextColumns == {"yes_label", "no_label", "category"}

CoreModels == <<Create("users"), Create("markets"), Create("bets")>>
AddMarketLabels ==
  <<Create("yes_label"), Create("no_label"),
    Fill("yes_label"), Fill("no_label")>>
AddMarketCategory == <<Create("category"), Fill("category")>>

(* Mutant: the old column goes before its holders have their permissions.  *)
DropFirst ==
  <<Create("permissions"), Create("user_permissions")>>
    \o Each(Row, PermissionList)
    \o <<HasUserType, FindAdmins, DropUserType>>
    \o Each(Grant, PermissionList)

AddPermissions ==
  <<Create("permissions"), Create("user_permissions")>>
    \o Each(Row, PermissionList)
    \o <<HasUserType, FindAdmins>> \o Each(Grant, PermissionList)
    \o <<DropUserType>>

AddMarketImage == <<Create("image_url")>>

Up == <<CoreModels, AddMarketLabels, AddMarketCategory, AddPermissions,
        AddMarketImage>>
Ids == DOMAIN Up

(* AutoMigrate makes all that the models of this version have.             *)
Makes(x) ==
  CASE x = "users" -> {"users", "permissions", "user_permissions"}
    [] x = "markets" -> {"markets", "image_url"} \cup TextColumns
    [] OTHER -> {x}

(* What a migration that is recorded has made, its columns in the order of *)
(* their versions; the old schema has a column that the fourth one drops.  *)
Old == {"users", "markets", "bets", "user_type"}
Made(id) ==
  CASE id = 1 -> {"users", "markets", "bets"}
    [] id = 2 -> {"yes_label", "no_label"}
    [] id = 3 -> {"category"}
    [] id = 4 -> {"permissions", "user_permissions"}
    [] id = 5 -> {"image_url"}
Complete == UNION {Made(id) : id \in Ids}

-----------------------------------------------------------------------------
(* The process: what it does next, the migration and statement it is at,   *)
(* the ids it has loaded, whether it found user_type and its holder,       *)
(* whether all went well so far, and whether the seed knows the admin.     *)
Main ==
  [at : {"down", "connect", "load", "up", "record", "seed", "first",
         "insert", "replace", "serve"},
   id : Ids \cup {0}, step : Nat, applied : SUBSET Ids,
   typed : BOOLEAN, found : BOOLEAN, clean : BOOLEAN,
   listed : SUBSET Permissions, known : BOOLEAN]

Down == [at |-> "down", id |-> 0, step |-> 0, applied |-> {},
         typed |-> FALSE, found |-> FALSE, clean |-> TRUE,
         listed |-> {}, known |-> FALSE]

(* blank is an empty or absent text; own is one that a creator chose.      *)
Texts == {"none", "blank", "default", "own"}
Admin == [exists : BOOLEAN, password : {"seeded", "own"},
          perms : SUBSET Permissions]

(* The rights that version n has in its tables: the fourth moves them.     *)
Granted(n) == IF n < 4 THEN {} ELSE Permissions

(* An empty database, or one that an earlier version has left, with the    *)
(* first n migrations on record.                                           *)
StartupInit ==
  /\ main = Down /\ lost = FALSE
  /\ \/ /\ schema = {} /\ recorded = {} /\ fills = TRUE
        /\ markets = [m \in {} |-> [c \in TextColumns |-> "none"]]
        /\ names = {} /\ boss = {}
        /\ admin = [exists |-> FALSE, password |-> "seeded", perms |-> {}]
     \/ \E n \in 0..4 :
          /\ recorded = 1..n /\ fills \in BOOLEAN
          /\ schema = (IF n < 4 THEN Old ELSE Old \ {"user_type"})
                         \cup UNION {Made(i) : i \in 1..n}
          /\ markets = [m \in {"old"} |-> [c \in TextColumns |->
               IF c \in schema THEN "own" ELSE "none"]]
          /\ names = Granted(n) /\ boss = Granted(n)
          /\ admin = [exists |-> TRUE, password |-> "own",
                      perms |-> Granted(n)]

Goes(m) == main' = m /\ UNCHANGED <<fills, lost>>

Start ==
  /\ main.at = "down"
  /\ Goes([Down EXCEPT !.at = "connect"])
  /\ UNCHANGED database

(* A crash, a failing check of the database, a new deployment.             *)
Stop ==
  /\ main.at # "down"
  /\ Goes(Down)
  /\ UNCHANGED database

(* EnsureDBReady tries twenty times; then the process gives up (Stop).     *)
Connect ==
  /\ main.at = "connect"
  /\ Goes([main EXCEPT !.at = "load"])
  /\ UNCHANGED database

-----------------------------------------------------------------------------
(* MigrateDB.  Its error is only a warning: the seed follows.              *)

Warn == Goes([Down EXCEPT !.at = "seed", !.step = 1, !.clean = FALSE])

(* The first migration after id that is not applied; the seed after all.   *)
NextUp(id, applied) ==
  LET todo == {i \in Ids : i > id /\ i \notin applied}
  IN  IF todo = {}
      THEN [Down EXCEPT !.at = "seed", !.step = 1, !.clean = main.clean]
      ELSE [Down EXCEPT !.at = "up", !.step = 1, !.clean = main.clean,
                        !.applied = applied,
                        !.id = CHOOSE i \in todo : \A j \in todo : i <= j]

(* The tracking table and the ids in it.                                   *)
LoadApplied ==
  /\ main.at = "load"
  /\ Goes(NextUp(0, recorded)) \/ Warn
  /\ UNCHANGED database

Statement == Up[main.id][main.step]

(* On to the next statement; without user_type nothing follows the look.   *)
Past(m) ==
  IF /\ main.step < Len(Up[main.id])
     /\ Statement.do = "has" => m.typed
  THEN [m EXCEPT !.step = @ + 1]
  ELSE [m EXCEPT !.at = "record"]

(* AutoMigrate, or AddColumn if HasColumn is false.                        *)
CreateMissing(x) ==
  /\ schema' = schema \cup Makes(x)
  /\ markets' = [m \in DOMAIN markets |-> [c \in TextColumns |->
       IF markets[m][c] # "none" \/ c \notin schema' THEN markets[m][c]
       ELSE IF fills THEN "default" ELSE "blank"]]

Filled(t) == IF t = "blank" THEN "default" ELSE t

(* What a statement does when it succeeds; the grants of a permission to   *)
(* all former administrators are one statement here.                       *)
Effect(s) ==
  CASE s.do = "create" ->
         /\ CreateMissing(s.what)
         /\ UNCHANGED <<recorded, names, admin, boss>>
    [] s.do = "fill" ->
         /\ markets' = [m \in DOMAIN markets |->
              [markets[m] EXCEPT ![s.what] = Filled(@)]]
         /\ UNCHANGED <<schema, recorded, names, admin, boss>>
    [] s.do = "row" ->
         /\ names' = names \cup {s.what}
         /\ UNCHANGED <<schema, recorded, markets, admin, boss>>
    [] s.do = "grant" /\ main.found ->
         /\ boss' = boss \cup {s.what}
         /\ admin' = [admin EXCEPT !.perms = @ \cup {s.what}]
         /\ UNCHANGED <<schema, recorded, markets, names>>
    [] s.do = "drop" ->
         /\ schema' = schema \ {s.what}
         /\ UNCHANGED <<recorded, markets, names, admin, boss>>
    [] OTHER -> UNCHANGED database

(* What the process learns from it.                                        *)
Learns(s) ==
  CASE s.do = "has" -> [main EXCEPT !.typed = s.what \in schema]
    [] s.do = "find" -> [main EXCEPT !.found = TRUE]
    [] OTHER -> main

(* Mutant: columns are added without looking whether they are there, so    *)
(* that the second attempt at a migration fails.                           *)
MigrateBlindly ==
  /\ main.at = "up"
  /\ IF Statement.do = "create" /\ main.id \in {2, 3, 5}
        /\ Statement.what \in schema
     THEN Goes([Down EXCEPT !.at = "seed", !.step = 1]) /\ UNCHANGED database
     ELSE Effect(Statement) /\ Goes(Past(Learns(Statement)))

Migrate ==
  /\ main.at = "up"
  /\ Effect(Statement) /\ Goes(Past(Learns(Statement)))

(* HasColumn answers false, Find finds nobody, and the errors of the       *)
(* grants are dropped: with these the migration goes on.                   *)
Swallowed == {"has", "find", "grant"}

MigrateFails ==
  /\ main.at = "up"
  /\ IF Statement.do \in Swallowed
     THEN /\ main' = Past([main EXCEPT !.clean = FALSE])
          /\ lost' = (lost \/ "user_type" \in schema)
          /\ UNCHANGED fills
     ELSE Warn
  /\ UNCHANGED database

(* Mutant: a failure to apply counts as applied.                           *)
RecordMigrationAnyway ==
  /\ main.at \in {"up", "record"}
  /\ recorded' = recorded \cup {main.id}
  /\ Goes(NextUp(main.id, main.applied))
  /\ UNCHANGED <<schema, markets, names, admin, boss>>

RecordMigration ==
  /\ main.at = "record"
  /\ \/ /\ recorded' = recorded \cup {main.id}
        /\ Goes(NextUp(main.id, main.applied))
     \/ Warn /\ UNCHANGED recorded
  /\ UNCHANGED <<schema, markets, names, admin, boss>>

-----------------------------------------------------------------------------
(* SeedUsers; of its errors only those of the configuration end it.        *)

(* FirstOrCreate of each permission; a failure leaves it without an id.    *)
SeedPermission ==
  /\ main.at = "seed" /\ main.step <= Len(PermissionList)
  /\ LET p == PermissionList[main.step]
     IN  \/ /\ "permissions" \in schema
            /\ names' = names \cup {p}
            /\ Goes([main EXCEPT !.step = @ + 1, !.listed = @ \cup {p}])
         \/ /\ UNCHANGED names
            /\ Goes([main EXCEPT !.step = @ + 1, !.clean = FALSE])
  /\ UNCHANGED <<schema, recorded, markets, admin, boss>>

(* First: an admin, nobody, or an error, which counts as nobody.           *)
FindAdmin ==
  /\ main.at = "seed" /\ main.step > Len(PermissionList)
  /\ \/ admin.exists /\ Goes([main EXCEPT !.at = "replace", !.known = TRUE])
     \/ ~admin.exists /\ Goes([main EXCEPT !.at = "insert"])
     \/ Goes([main EXCEPT !.at = "insert", !.clean = FALSE])
  /\ UNCHANGED database

(* Mutant: Save instead of Create, for which any row of that name will do. *)
SaveAdmin ==
  /\ main.at = "insert"
  /\ admin' = [admin EXCEPT !.exists = TRUE, !.password = "seeded"]
  /\ Goes([main EXCEPT !.at = "replace", !.known = TRUE])
  /\ UNCHANGED <<schema, recorded, markets, names, boss>>

(* Create, which the unique user name refuses if there is an admin.        *)
CreateAdmin ==
  /\ main.at = "insert"
  /\ \/ /\ ~admin.exists /\ "users" \in schema
        /\ admin' = [exists |-> TRUE, password |-> "seeded", perms |-> {}]
        /\ Goes([main EXCEPT !.at = "replace", !.known = TRUE])
     \/ /\ Goes([main EXCEPT !.at = "replace", !.clean = FALSE])
        /\ UNCHANGED admin
  /\ UNCHANGED <<schema, recorded, markets, names, boss>>

Serve(clean) == Goes([Down EXCEPT !.at = "serve", !.clean = clean])

(* Replace gives the admin the listed permissions.  What it does with one  *)
(* that has no id is open.                                                 *)
ReplacePermissions ==
  /\ main.at = "replace"
  /\ \/ /\ main.known /\ "user_permissions" \in schema
        /\ \E ps \in IF main.listed = Permissions THEN {Permissions}
                      ELSE SUBSET Permissions :
             admin' = [admin EXCEPT !.perms = ps]
        /\ Serve(main.clean)
     \/ /\ Serve(FALSE)
        /\ UNCHANGED admin
  /\ UNCHANGED <<schema, recorded, markets, names, boss>>

-----------------------------------------------------------------------------
(* Requests that leave something for the next start to respect.            *)

(* CreateMarketHandler with labels and a category of its own.              *)
NewMarket ==
  /\ main.at = "serve" /\ "new" \notin DOMAIN markets
  /\ Made(1) \cup Made(5) \cup TextColumns \subseteq schema
  /\ markets' = [m \in DOMAIN markets \cup {"new"} |->
       IF m = "new" THEN [c \in TextColumns |-> "own"] ELSE markets[m]]
  /\ UNCHANGED <<schema, recorded, names, admin, boss, fills, main, lost>>

ChangeAdminPassword ==
  /\ main.at = "serve" /\ admin.exists
  /\ admin' = [admin EXCEPT !.password = "own"]
  /\ UNCHANGED <<schema, recorded, markets, names, boss, fills, main, lost>>

StartupNext ==
  \/ Start \/ Connect \/ LoadApplied
  \/ Migrate \/ MigrateFails \/ RecordMigration
  \/ SeedPermission \/ FindAdmin \/ CreateAdmin \/ ReplacePermissions
  \/ NewMarket \/ ChangeAdminPassword

-----------------------------------------------------------------------------
(* The values the variables take; no column exists without its table.      *)
StartupTypeOK ==
  /\ schema \subseteq Old \cup Complete /\ recorded \subseteq Ids
  /\ DOMAIN markets \subseteq {"old", "new"}
  /\ \A m \in DOMAIN markets : markets[m] \in [TextColumns -> Texts]
  /\ names \subseteq Permissions /\ admin \in Admin
  /\ boss \subseteq Permissions /\ main \in Main /\ lost \in BOOLEAN
  /\ fills \in BOOLEAN
  /\ TextColumns \cap schema # {} => "markets" \in schema

(* Whatever failed or died in earlier starts, a migration is on record     *)
(* only after all before it, with its columns in place and no empty text   *)
(* in them.                                                                *)
RecordedIsApplied ==
  \A i \in recorded :
    /\ 1..i \subseteq recorded /\ Made(i) \subseteq schema
    /\ \A c \in Made(i) \cap TextColumns, m \in DOMAIN markets :
         markets[m][c] \notin {"none", "blank"}

(* A start without a failure of its own completes what earlier ones left   *)
(* half done: the schema, the record, and an admin with all permissions.   *)
CleanStartCompletes ==
  (main.at = "serve" /\ main.clean) =>
    /\ recorded = Ids /\ Complete \subseteq schema
    /\ names = Permissions
    /\ admin.exists /\ admin.perms = Permissions

(* The administrators of the old version have all permissions in this one, *)
(* unless the migration went on after a failure: dying in the middle of it *)
(* loses nobody's rights.                                                  *)
AdminsKeepRights ==
  ("old" \in DOMAIN markets /\ 4 \in recorded /\ ~lost) =>
    boss = Permissions

(* No start takes back what users have set: texts of markets, and the      *)
(* password of the admin.                                                  *)
SettingsSurvive ==
  [][/\ \A m \in DOMAIN markets, c \in TextColumns :
          markets[m][c] = "own" => markets'[m][c] = "own"
     /\ admin.password = "own" => admin'.password = "own"]_database
=============================================================================
