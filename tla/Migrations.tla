----------------------------- MODULE Migrations -----------------------------
(***************************************************************************)
(* The schema of the database and the containers that bring it up to date: *)
(* entrypoint.sh, migration/env.py and the revisions under                 *)
(* migration/versions.                                                     *)
(*                                                                         *)
(* A container tries `alembic upgrade head' a number of times before it    *)
(* serves or exits, and is restarted when it exits.  An attempt is one     *)
(* transaction: it reads the revision of the database (Begin), runs every  *)
(* revision from there to the head on what it finds then, and records the  *)
(* head, if the recorded revision is still the one it read (Commit).       *)
(* Several containers start at the same time: servers, and the service     *)
(* `migrate' of a deployment, which goes through the same entrypoint.  An  *)
(* operator may load places with a script at any time, and downgrade while *)
(* nothing runs.                                                           *)
(*                                                                         *)
(* The schema is a set of facts <<table, what the table has>>: the tables, *)
(* columns, constraints and rows that some revision looks at or changes.   *)
(* Revisions are numbered along the chain.  The second revision found two  *)
(* kinds of database: one made by the first revision as it is now, and one *)
(* with the names that later revisions still rename (cities, school).      *)
(***************************************************************************)
EXTENDS Naturals

CONSTANTS
  Containers,
  Servers,      \* the containers that are restarted by themselves
  Releases,     \* the heads of the releases that are deployed
  MaxRetries,   \* MIGRATION_MAX_RETRIES
  MaxFaults     \* bound of lost connections and killed containers

Head == 14

ASSUME ServersAssumption == Servers \subseteq Containers
ASSUME ReleasesAssumption == Releases \subseteq 1 .. Head
ASSUME BoundsAssumption == MaxRetries \in Nat \ {0} /\ MaxFaults \in Nat

VARIABLES
  schema,     \* what the database has
  rev,        \* table alembic_version, 0 when there is none
  release,    \* the head of the migrations that are deployed
  server,     \* what each container does
  faults,
  legacy,     \* history: whether the database began with the older names
  touched     \* history: whether an operator has changed the schema by hand

vars == <<schema, rev, release, server, faults, legacy, touched>>
----------------------------------------------------------------------------
(* Facts.  A revision makes a set of schemas: one, or none when it raises. *)

Table(t) == <<t, "table">>
Tables(ts) == {Table(t) : t \in ts}

When(ok, s) == IF ok THEN {s} ELSE {}

RenameTable(s, old, new) ==
  IF Table(old) \in s /\ Table(new) \notin s
    THEN {IF f[1] = old THEN <<new, f[2]>> ELSE f : f \in s}
    ELSE s

RenameColumn(s, t, old, new) ==
  IF <<t, old>> \in s /\ <<t, new>> \notin s THEN (s \ {<<t, old>>}) \cup {<<t, new>>} ELSE s

FirstTables == {"permissions", "regions", "roles", "settlements", "role2permission",
                "schools", "users"}

Seeds == <<"roles", "admin_student">>

RegionConstraint == <<"regions", "constraint">>
RegionIndex      == <<"regions", "index">>
UniqueName       == <<"settlements", "unique_name">>
NaturalKey       == <<"settlements", "natural_key">>
SameNames        == <<"settlements", "rows_of_one_name">>
SchoolRows       == <<"schools", "rows">>
FullName         == <<"schools", "full_name">>
ShortName        == <<"schools", "short_name">>
OldName          == <<"schools", "school">>
QuestionType     == <<"question_type_enum", "type">>
NavigationType   == <<"navigation_method_enum", "type">>
----------------------------------------------------------------------------
(* upgrade() of the revisions.                                             *)

InitialRevision(s) ==
  When(s \cap Tables(FirstTables) = {},
       s \cup Tables(FirstTables)
         \cup {FullName, <<"users", "first_name">>, <<"users", "unique">>})

\* A second run would insert pairs of role2permission that are there.
AddPermissions(s) ==
  When(Tables({"permissions", "roles", "role2permission"}) \subseteq s /\ Seeds \notin s,
       s \cup {Seeds})

RenamedCity(s) ==
  LET renamed == RenameTable(s, "cities", "settlements")
  IN  When(Table("settlements") \in renamed, renamed \cup {<<"settlements", "type">>})

\* A full name that is added is filled from the old name, and may then not be empty.
UpdatedSchools(s) ==
  When(Table("schools") \in s /\ (SchoolRows \in s => FullName \in s \/ OldName \in s),
       RenameColumn(s, "schools", "school", "short_name") \cup {FullName})

AddedUnique(s) ==
  LET region == IF Table("regions") \in s /\ RegionIndex \notin s THEN {RegionConstraint} ELSE {}
      name   == IF Table("settlements") \in s THEN {UniqueName} ELSE {}
  IN  When(SameNames \notin s, s \cup region \cup name)

UnitedNames(s) ==
  {IF Table("users") \in s
     THEN (s \ {<<"users", "first_name">>}) \cup {<<"users", "full_name">>} ELSE s}

AlignedIndexes(s) ==
  {IF Table("regions") \in s THEN (s \ {RegionConstraint}) \cup {RegionIndex} ELSE s}

\* What each table has that the revision creates if it is missing.
BankTable ==
  [t \in FirstTables \cup {"categories", "questions"} |->
     {Table(t)} \cup
       CASE t = "settlements" -> {<<t, "type">>}
         [] t = "schools"     -> {FullName, ShortName}
         [] t = "users"       -> {<<t, "full_name">>, <<t, "unique">>}
         [] t = "questions"   -> {<<t, "market_out_of">>, QuestionType}
         [] OTHER             -> {}]

WithMissing(s) ==
  s \cup (UNION {BankTable[t] : t \in {u \in DOMAIN BankTable : Table(u) \notin s}})
    \cup {NaturalKey} \cup (IF RegionConstraint \in s THEN {} ELSE {RegionIndex})

\* Mutated form: the type of the column is created only if it is missing.
CheckedType(s) == {WithMissing(s)}

\* The type of the column is created with the table, whether or not it exists.
QuestionBankTables(s) ==
  When(Table("questions") \in s \/ QuestionType \notin s, WithMissing(s))

FixMark(s) == {RenameColumn(s, "questions", "market_out_of", "mark_out_of")}

TestsTables(s) ==
  LET new == Tables({"tests", "test_questions"}) \ s
  IN  When(/\ Table("tests") \in new => NavigationType \notin s
           /\ Table("test_questions") \in new => Table("questions") \in s,
           s \cup new \cup (IF Table("tests") \in new THEN {NavigationType} ELSE {})
             \cup (IF Table("test_questions") \in new
                     THEN {<<"test_questions", "id">>, <<"test_questions", "unique">>} ELSE {}))

FixPk(s) ==
  {IF Table("test_questions") \in s THEN s \cup {<<"test_questions", "id">>} ELSE s}

\* The ninth to the eleventh revision are empty.
Up(n, s) ==
  CASE n = 1  -> InitialRevision(s)
    [] n = 2  -> AddPermissions(s)
    [] n = 3  -> RenamedCity(s)
    [] n = 4  -> UpdatedSchools(s)
    [] n = 5  -> AddedUnique(s)
    [] n = 6  -> UnitedNames(s)
    [] n = 7  -> AlignedIndexes(s)
    [] n = 8  -> QuestionBankTables(s)
    [] n = 12 -> FixMark(s)
    [] n = 13 -> TestsTables(s)
    [] n = 14 -> FixPk(s)
    [] OTHER  -> {s}

Upgraded(from, to, s) ==
  LET made[n \in from .. to] ==
        IF n = from THEN {s} ELSE UNION {Up(n, t) : t \in made[n - 1]}
  IN  made[to]
----------------------------------------------------------------------------
(* downgrade() of the revisions.                                           *)

Without(s, ts) == {f \in s : f[1] \notin ts}

DropInitial(s) == When(Tables(FirstTables) \subseteq s, Without(s, FirstTables))

\* The roles may not be deleted while a user has one of them.
RemovePermissions(s) ==
  When(/\ Tables({"permissions", "roles", "role2permission"}) \subseteq s
       /\ <<"users", "rows">> \notin s,
       s \ {Seeds})

RenameToCity(s) == {RenameTable(s \ {<<"settlements", "type">>}, "settlements", "cities")}

RevertSchools(s) ==
  {RenameColumn(s, "schools", "short_name", "school") \ {FullName}}

\* It raises when a school has no short name; the set is what is left when it does not.
DropUnique(s) == {s \ {RegionConstraint, UniqueName}}

DivideNames(s) ==
  {IF Table("users") \in s
     THEN (s \ {<<"users", "full_name">>}) \cup {<<"users", "first_name">>} ELSE s}

UnalignIndexes(s) ==
  {IF Table("regions") \in s THEN (s \ {RegionIndex}) \cup {RegionConstraint} ELSE s}

\* All tables are dropped, also those that the revision found.
DropQuestionBank(s) == {Without(s, DOMAIN BankTable)}

BreakMark(s) == {RenameColumn(s, "questions", "mark_out_of", "market_out_of")}

\* Mutated form: the tables are dropped and their type is left.
TypeLeft(s) == {Without(s, {"tests", "test_questions"})}

DropTests(s) == {Without(s, {"tests", "test_questions", "navigation_method_enum"})}

UnfixPk(s) == {s \ {<<"test_questions", "id">>}}

Down(n, s) ==
  CASE n = 1  -> DropInitial(s)
    [] n = 2  -> RemovePermissions(s)
    [] n = 3  -> RenameToCity(s)
    [] n = 4  -> RevertSchools(s)
    [] n = 5  -> DropUnique(s)
    [] n = 6  -> DivideNames(s)
    [] n = 7  -> UnalignIndexes(s)
    [] n = 8  -> DropQuestionBank(s)
    [] n = 12 -> BreakMark(s)
    [] n = 13 -> DropTests(s)
    [] n = 14 -> UnfixPk(s)
    [] OTHER  -> {s}

Downgraded(from, to, s) ==
  LET made[k \in 0 .. from - to] ==
        IF k = 0 THEN {s} ELSE UNION {Down(from - k + 1, t) : t \in made[k - 1]}
  IN  made[from - to]
----------------------------------------------------------------------------
(* Containers.                                                             *)

\* Mutated form: a container that has given up is not restarted.
OnlyNew(c) == server[c].doing = "nothing"

\* Started by a deployment, or by restart: always of compose.prod.yaml.
Idle(c) == server[c].doing \in {"nothing", "exited"}

Stopped == [doing |-> "nothing", tries |-> 0, from |-> 0, to |-> 0]

Start(c) ==
  /\ Idle(c)
  /\ server' = [server EXCEPT ![c] = [Stopped EXCEPT !.doing = "retry", !.tries = 1]]
  /\ UNCHANGED <<schema, rev, release, faults, legacy, touched>>

\* A transaction is opened, and reads the revision of the database.
Begin(c) ==
  /\ server[c].doing = "retry"
  /\ server' = [server EXCEPT ![c] = [@ EXCEPT !.doing = "migrate", !.from = rev, !.to = release]]
  /\ UNCHANGED <<schema, rev, release, faults, legacy, touched>>

\* Mutated form: the version is overwritten, whatever it is.
Unchecked(c) == TRUE

\* The update of alembic_version must meet one row; without work there is none.
Current(c) == rev = server[c].from \/ server[c].from = server[c].to

Results(c) == Upgraded(server[c].from, server[c].to, schema)

\* The command of the container is executed when the transaction is committed.
Commit(c) ==
  /\ server[c].doing = "migrate"
  /\ Current(c)
  /\ schema' \in Results(c)
  /\ rev' = IF server[c].from = server[c].to THEN rev ELSE server[c].to
  /\ server' = [server EXCEPT ![c] = [@ EXCEPT !.doing = "serve"]]
  /\ UNCHANGED <<release, faults, legacy, touched>>

\* Mutated form: each revision is a transaction, but the version is written at the end.
HalfWay(c) == {schema} \cup UNION {Upgraded(server[c].from, n, schema) :
                                     n \in server[c].from .. server[c].to}

\* What is left of an attempt that fails.
RolledBack(c) == {schema}

\* Mutated form: one try too many.
OneMore(c) == server[c].tries <= MaxRetries

MayRetry(c) == server[c].tries < MaxRetries

\* The container tries again, or exits when that was the last try.
Fails(c) ==
  /\ server[c].doing = "migrate"
  /\ schema' \in RolledBack(c)
  /\ server' = [server EXCEPT ![c] =
       IF MayRetry(c)
         THEN [Stopped EXCEPT !.doing = "retry", !.tries = server[c].tries + 1]
         ELSE [Stopped EXCEPT !.doing = "exited"]]
  /\ UNCHANGED <<rev, release, legacy, touched>>

Attempt(c) ==
  \/ Commit(c)
  \/ /\ ~Current(c) \/ Results(c) = {}
     /\ Fails(c)
     /\ UNCHANGED faults

LostConnection(c) ==
  /\ faults < MaxFaults
  /\ Fails(c)
  /\ faults' = faults + 1

Kill(c) ==
  /\ faults < MaxFaults
  /\ ~Idle(c)
  /\ server' = [server EXCEPT ![c] = Stopped]
  /\ faults' = faults + 1
  /\ UNCHANGED <<schema, rev, release, legacy, touched>>
----------------------------------------------------------------------------
(* People.                                                                 *)

\* A container is taken down, or made anew from another release.
Stop(c) ==
  /\ server[c].doing = "serve"
  /\ server' = [server EXCEPT ![c] = Stopped]
  /\ UNCHANGED <<schema, rev, release, faults, legacy, touched>>

\* The release on the host changes; containers that run are not stopped by that.
Deploy(h) ==
  /\ release < h
  /\ release' = h
  /\ UNCHANGED <<schema, rev, server, faults, legacy, touched>>

SignUp ==
  /\ \E c \in Containers : server[c].doing = "serve"
  /\ {Table("users"), Seeds} \subseteq schema
  /\ schema' = schema \cup {<<"users", "rows">>}
  /\ UNCHANGED <<rev, release, server, faults, legacy, touched>>

\* Schools are written by hand: no code of the repository does.
AddSchools ==
  /\ Table("schools") \in schema
  /\ schema' = schema \cup {SchoolRows}
  /\ UNCHANGED <<rev, release, server, faults, legacy, touched>>

\* load_cities_and_regions.sql; psql goes on after a statement that fails.
LoadPlaces ==
  /\ schema' = (schema \ {UniqueName})
       \cup (IF Table("regions") \in schema /\ RegionConstraint \notin schema
               THEN {RegionIndex} ELSE {})
       \cup (IF <<"settlements", "type">> \in schema THEN {NaturalKey, SameNames} ELSE {})
  /\ touched' = TRUE
  /\ UNCHANGED <<rev, release, server, faults, legacy>>

\* alembic downgrade, while nothing runs.
Downgrade(to) ==
  /\ \A c \in Containers : Idle(c)
  /\ to < rev
  /\ schema' \in Downgraded(rev, to, schema)
  /\ rev' = to
  /\ touched' = TRUE
  /\ UNCHANGED <<release, server, faults, legacy>>
----------------------------------------------------------------------------
FirstSchema == UNION InitialRevision({})

\* What the first two revisions made when they had the older names.
OlderSchema ==
  (Without(FirstSchema, {"settlements"}) \ {FullName})
    \cup {Table("cities"), OldName, Seeds}

Init ==
  /\ legacy \in BOOLEAN
  /\ rev = IF legacy THEN 2 ELSE 0
  /\ schema = IF legacy THEN OlderSchema ELSE {}
  /\ release \in {h \in Releases : rev <= h}
  /\ server = [c \in Containers |-> Stopped]
  /\ faults = 0
  /\ touched = FALSE

Next ==
  \/ \E c \in Containers : Start(c) \/ Begin(c) \/ Attempt(c) \/ LostConnection(c) \/ Kill(c)
                               \/ Stop(c)
  \/ \E h \in Releases : Deploy(h)
  \/ SignUp
  \/ AddSchools
  \/ LoadPlaces
  \/ \E to \in 0 .. Head : Downgrade(to)

\* Servers are restarted, a container that has started tries, and an attempt ends: each
\* of its statements ends or raises.
Fairness == /\ \A c \in Servers : WF_vars(Start(c))
            /\ \A c \in Containers : WF_vars(Begin(c)) /\ WF_vars(Attempt(c))

Spec == Init /\ [][Next]_vars /\ Fairness
----------------------------------------------------------------------------
Server == [doing : {"nothing", "exited", "retry", "migrate", "serve"}, tries : 0 .. MaxRetries,
           from : 0 .. Head, to : 0 .. Head]

\* Versions and containers have their types.
TypeOK ==
  /\ rev \in 0 .. Head
  /\ release \in Releases
  /\ server \in [Containers -> Server]
  /\ faults \in 0 .. MaxFaults
  /\ {legacy, touched} \subseteq BOOLEAN

\* The columns, constraints and rows that the modules of this directory rely on, and
\* the declarations of the models that revisions have changed their mind about.
Declared ==
  Tables(FirstTables \cup {"categories", "questions", "tests", "test_questions"})
    \cup {Seeds, RegionIndex, NaturalKey, QuestionType,
          <<"users", "unique">>, <<"users", "full_name">>,
          FullName, ShortName, <<"settlements", "type">>, <<"questions", "mark_out_of">>,
          <<"test_questions", "id">>, <<"test_questions", "unique">>}

\* What a server of the newest release lacks, however containers meet each other, and
\* whatever was loaded, downgraded and upgraded again: nothing where the database began
\* with the older names; and on every other one exactly the column short_name of
\* schools, which the models declare and no revision ever adds to it.
ServedComplete ==
  \A c \in Containers :
    server[c].doing = "serve" /\ server[c].to = Head =>
      Declared \ schema = IF legacy THEN {} ELSE {ShortName}

Rows == {<<"users", "rows">>, SchoolRows}

\* Without an operator the database is what the recorded revision makes of the first
\* one: attempts that fail, die, or overtake each other leave no trace.
WholeRevisions ==
  ~touched =>
    schema \ Rows \in
      (IF legacy THEN Upgraded(2, rev, OlderSchema) ELSE Upgraded(0, rev, {}))

Blocked == rev < release /\ Upgraded(rev, release, schema) = {}

\* What a downgrade of the eighth revision leaves behind, what the script loads, and
\* schools whose full name the downgrade of the fourth has dropped, with no older name.
LeftoverType == rev < 8 /\ QuestionType \in schema
LoadedEarly  == rev < 5 /\ \E f \in schema : f[2] = "rows_of_one_name"
NamesLost    == rev < 4 /\ SchoolRows \in schema /\ {FullName, OldName} \cap schema = {}

\* Only these three keep a release from migrating the database, and only after an
\* operator brought them about: no failure, race, account, rename or other downgrade.
NothingElseBlocks == Blocked => touched /\ (LeftoverType \/ LoadedEarly \/ NamesLost)

\* Whatever fails or meets another attempt, each server serves again, unless the schema
\* has come into a state from which there is no upgrade.
ServesAgain ==
  \A c \in Servers : server[c].doing # "serve" ~> (server[c].doing = "serve" \/ Blocked)
=============================================================================
