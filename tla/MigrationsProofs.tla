-------------------------- MODULE MigrationsProofs --------------------------
(***************************************************************************)
(* Containers that migrate one database, for any number of containers,     *)
(* releases, tries and failures.                                           *)
(*                                                                         *)
(* What a server of the newest release has and lacks follows from what is  *)
(* said of the schema at every revision (Standing): each upgrade carries   *)
(* it one revision on and each downgrade one back.  What an attempt        *)
(* runs is a chain of upgrades, defined by recursion; the lemmas about     *)
(* chains are inductions on their length.                                  *)
(***************************************************************************)
EXTENDS Migrations, WellFoundedInduction, TLAPS

FirstName   == <<"users", "first_name">>
UserName    == <<"users", "full_name">>
UniqueUser  == <<"users", "unique">>
UserRows    == <<"users", "rows">>
PlaceType   == <<"settlements", "type">>
Misspelled  == <<"questions", "market_out_of">>
MarkOutOf   == <<"questions", "mark_out_of">>
PaperId     == <<"test_questions", "id">>
PaperUnique == <<"test_questions", "unique">>

Types == {"question_type_enum", "navigation_method_enum"}

\* Whatever belongs to a table is there only with its table.
Closed(s) == \A f \in s : f[1] \in Types \/ Table(f[1]) \in s

\* What no schema has at revision n.
Clear(n, s) ==
  /\ n = 0 => \A t \in FirstTables : Table(t) \notin s
  /\ n < 2 => Seeds \notin s
  /\ n < 8 => Table("questions") \notin s
  /\ n < 13 => /\ Table("tests") \notin s /\ Table("test_questions") \notin s
               /\ NavigationType \notin s

\* What every schema has at revision n, along the way it is made.
Built(n, s) ==
  /\ n >= 1 => Tables(FirstTables \ {"settlements"}) \cup {UniqueUser} \subseteq s
  /\ n = 1 \/ n = 2 => Table("settlements") \in s \/ Table("cities") \in s
  /\ n >= 2 => Seeds \in s
  /\ n >= 3 => {Table("settlements"), PlaceType} \subseteq s
  /\ n >= 4 => FullName \in s
  /\ n >= 6 => UserName \in s
  /\ n >= 7 => RegionIndex \in s /\ RegionConstraint \notin s
  /\ n >= 8 => {Table("categories"), Table("questions"), NaturalKey, QuestionType} \subseteq s
  /\ n \in 8 .. 11 => Misspelled \in s /\ MarkOutOf \notin s
  /\ n >= 12 => MarkOutOf \in s /\ Misspelled \notin s
  /\ n >= 13 => {Table("tests"), Table("test_questions"), PaperUnique} \subseteq s
  /\ n >= 14 => PaperId \in s

\* The same of a database that began with the older names.
Renamed(n, s) ==
  /\ n >= 1
  /\ n < 3 => Table("cities") \in s /\ Table("settlements") \notin s
  /\ n >= 3 => Table("cities") \notin s
  /\ n < 4 => OldName \in s /\ ShortName \notin s
  /\ n >= 4 => ShortName \in s /\ OldName \notin s

\* And of one that did not: its schools have neither a short name nor the older one.
Unrenamed(s) == {ShortName, OldName} \cap s = {}

\* A downgrade has dropped the tables of questions and left their type: there is
\* no upgrade any more.
Stuck(n, s) == n < 8 /\ QuestionType \in s

Standing(n, s) ==
  /\ Closed(s)
  /\ Clear(n, s)
  /\ Stuck(n, s) \/ (Built(n, s) /\ IF legacy THEN Renamed(n, s) ELSE Unrenamed(s))

\* An attempt goes on from a revision that the database has not gone behind, and a
\* server has the revision of its release behind it.
Ahead ==
  /\ rev <= release
  /\ \A c \in Containers :
       /\ server[c].doing = "migrate" => /\ server[c].from <= rev
                                         /\ server[c].from <= server[c].to
                                         /\ server[c].to <= release
       /\ server[c].doing = "serve" => server[c].to <= rev

\* Where the database began, and what it was then.
First == IF legacy THEN 2 ELSE 0
Base  == IF legacy THEN OlderSchema ELSE {}

Forward == ~touched => First <= rev

IInv == TypeOK /\ Ahead /\ Standing(rev, schema) /\ Forward /\ WholeRevisions

----------------------------------------------------------------------------
(* Upgrades, one revision at a time.                                       *)

USE DEF Table, OldName, ShortName, FirstName, UserName, UniqueUser, UserRows, FullName,
        SchoolRows, Rows, PlaceType, Misspelled, MarkOutOf, PaperId, PaperUnique, Seeds,
        RegionConstraint, RegionIndex, UniqueName, NaturalKey, SameNames, QuestionType,
        NavigationType

\* A table that is renamed takes what belongs to it along.
LEMMA RenamedFacts ==
  ASSUME NEW s, NEW old, NEW new, old # new, NEW u, u = RenameTable(s, old, new)
  PROVE  /\ \A f \in s : f[1] # old => f \in u
         /\ \A f \in u : f[1] # new => f \in s
         /\ Closed(s) => Closed(u)
         /\ Table(new) \in u <=> Table(new) \in s \/ Table(old) \in s
         /\ Table(new) \notin s => Table(old) \notin u
<1>1. CASE Table(old) \in s /\ Table(new) \notin s
  <2>1. u = {IF f[1] = old THEN <<new, f[2]>> ELSE f : f \in s}
    BY <1>1 DEF RenameTable
  <2>2. \A f \in s : f[1] # old => f \in u
    BY <2>1
  <2>3. \A f \in u : f[1] # old /\ (f[1] # new => f \in s)
    BY <2>1
  <2>4. Table(new) \in u /\ Table(old) \notin u
    <3>1. Table(old)[1] = old /\ Table(old)[2] = "table"
      OBVIOUS
    <3>2. \A f \in s : (IF f[1] = old THEN <<new, f[2]>> ELSE f) \in u
      BY <2>1
    <3>3. Table(new) \in u
      BY <1>1, <3>1, <3>2
    <3> QED BY <2>3, <3>1, <3>3
  <2>5. ASSUME Closed(s), NEW f \in u PROVE f[1] \in Types \/ Table(f[1]) \in u
    <3>1. CASE f[1] = new
      BY <2>4, <3>1
    <3>2. CASE f[1] # new
      <4>1. f \in s /\ f[1] # old
        BY <2>3, <3>2
      <4>2. f[1] \in Types \/ Table(f[1]) \in s
        BY <2>5, <4>1 DEF Closed
      <4> QED BY <2>2, <4>1, <4>2
    <3> QED BY <3>1, <3>2
  <2> QED BY <1>1, <2>2, <2>3, <2>4, <2>5 DEF Closed
<1>2. CASE ~(Table(old) \in s /\ Table(new) \notin s)
  <2>1. u = s
    BY <1>2 DEF RenameTable
  <2> QED BY <1>2, <2>1
<1> QED BY <1>1, <1>2

\* A column that is renamed leaves the rest alone.
LEMMA RenamedColumns ==
  ASSUME NEW s, NEW t, NEW old, NEW new, old # new, new # "table", NEW u,
         u = RenameColumn(s, t, old, new)
  PROVE  /\ \A f \in s : f # <<t, old>> => f \in u
         /\ \A f \in u : f # <<t, new>> => f \in s
         /\ old # "table" => (Closed(s) => Closed(u))
         /\ <<t, old>> \in s /\ <<t, new>> \notin s => <<t, new>> \in u /\ <<t, old>> \notin u
<1>1. CASE <<t, old>> \in s /\ <<t, new>> \notin s
  <2>1. u = (s \ {<<t, old>>}) \cup {<<t, new>>}
    BY <1>1 DEF RenameColumn
  <2>2. ASSUME old # "table", Closed(s), NEW f \in u PROVE f[1] \in Types \/ Table(f[1]) \in u
    <3>1. CASE f = <<t, new>>
      <4>1. t \in Types \/ Table(t) \in s
        BY <1>1, <2>2 DEF Closed
      <4> QED BY <2>1, <2>2, <3>1, <4>1
    <3>2. CASE f # <<t, new>>
      <4>1. f[1] \in Types \/ Table(f[1]) \in s
        BY <2>1, <2>2, <3>2 DEF Closed
      <4> QED BY <2>1, <2>2, <4>1
    <3> QED BY <3>1, <3>2
  <2> QED BY <1>1, <2>1, <2>2 DEF Closed
<1>2. CASE ~(<<t, old>> \in s /\ <<t, new>> \notin s)
  BY <1>2 DEF RenameColumn
<1> QED BY <1>1, <1>2

\* Facts that are added with their tables, and facts that are no tables taken away.
LEMMA ChangedFacts ==
  ASSUME NEW s, NEW u, Closed(s),
         \A f \in u \ s : f[1] \in Types \/ Table(f[1]) \in u,
         \A f \in s \ u : f[2] # "table"
  PROVE  Closed(u)
<1> SUFFICES ASSUME NEW f \in u, f[1] \notin Types PROVE Table(f[1]) \in u
  BY DEF Closed
<1>1. CASE f \in s
  <2>1. Table(f[1]) \in s /\ Table(f[1])[2] = "table"
    BY <1>1 DEF Closed
  <2> QED BY <2>1
<1> QED BY <1>1

LEMMA Up1 ==
  ASSUME NEW s, Standing(0, s), NEW u \in InitialRevision(s) PROVE Standing(1, u)
<1>1. /\ s \subseteq u /\ Tables(FirstTables) \cup {FullName, FirstName, UniqueUser} \subseteq u
      /\ \A f \in u \ s : f \in Tables(FirstTables) \cup {FullName, FirstName, UniqueUser}
  BY DEF InitialRevision, When
<1>2. Closed(u)
  <2>1. Table("schools") \in u /\ Table("users") \in u
    BY <1>1 DEF Tables, FirstTables
  <2> QED BY <1>1, <2>1, ChangedFacts DEF Tables, FirstTables, Standing
<1>3. Clear(1, u)
  BY <1>1 DEF Clear, Standing, Tables, FirstTables
<1>4. Stuck(0, s) => Stuck(1, u)
  BY <1>1 DEF Stuck
<1>5. Built(1, u)
  <2>1. Table("settlements") \in u
    BY <1>1 DEF Tables, FirstTables
  <2> QED BY <1>1, <2>1 DEF Built, Tables
<1>6. ~Renamed(0, s) /\ (Unrenamed(s) => Unrenamed(u))
  BY <1>1 DEF Renamed, Unrenamed, Tables
<1> QED BY <1>2, <1>3, <1>4, <1>5, <1>6 DEF Standing

LEMMA Up2 ==
  ASSUME NEW s, Standing(1, s), NEW u \in AddPermissions(s) PROVE Standing(2, u)
<1>1. u = s \cup {Seeds} /\ Table("roles") \in s
  BY DEF AddPermissions, When, Tables
<1>2. Closed(u)
  BY <1>1, ChangedFacts DEF Standing
<1>3. Clear(2, u) /\ (Stuck(1, s) => Stuck(2, u))
  BY <1>1 DEF Clear, Stuck, Standing
<1>4. Built(1, s) => Built(2, u)
  <2> SUFFICES ASSUME Built(1, s) PROVE Built(2, u)
    OBVIOUS
  <2>1. Table("settlements") \in s \/ Table("cities") \in s
    BY DEF Built
  <2>2. Tables(FirstTables \ {"settlements"}) \cup {UniqueUser} \subseteq s
    BY DEF Built
  <2> QED BY <1>1, <2>1, <2>2 DEF Built
<1>5. /\ (Renamed(1, s) => Renamed(2, u))
      /\ (Unrenamed(s) => Unrenamed(u))
  BY <1>1 DEF Renamed, Unrenamed
<1> QED BY <1>2, <1>3, <1>4, <1>5 DEF Standing

LEMMA Up3 ==
  ASSUME NEW s, Standing(2, s), NEW u \in RenamedCity(s) PROVE Standing(3, u)
<1> DEFINE w == RenameTable(s, "cities", "settlements")
<1>1. u = w \cup {PlaceType} /\ Table("settlements") \in w
  BY DEF RenamedCity, When
<1>2. /\ \A f \in s : f[1] # "cities" => f \in w
      /\ \A f \in w : f[1] # "settlements" => f \in s
      /\ Closed(s) => Closed(w)
      /\ Table("settlements") \notin s => Table("cities") \notin w
  <2>1. w = RenameTable(s, "cities", "settlements") /\ "cities" # "settlements"
    OBVIOUS
  <2> HIDE DEF w
  <2>2. PICK old, new : old = "cities" /\ new = "settlements"
    OBVIOUS
  <2>3. /\ \A f \in s : f[1] # old => f \in w
        /\ \A f \in w : f[1] # new => f \in s
        /\ Closed(s) => Closed(w)
        /\ Table(new) \notin s => Table(old) \notin w
    BY <2>1, <2>2, RenamedFacts
  <2> QED BY <2>2, <2>3
<1> HIDE DEF w
<1>3. Closed(u)
  BY <1>1, <1>2, ChangedFacts DEF Standing
<1>4. Clear(3, u) /\ (Stuck(2, s) => Stuck(3, u))
  BY <1>1, <1>2 DEF Clear, Stuck, Standing
<1>5. Built(2, s) => Built(3, u)
  <2>1. \A t \in FirstTables \ {"settlements"} : Table(t) \in s => Table(t) \in u
    BY <1>1, <1>2 DEF FirstTables
  <2> QED BY <1>1, <1>2, <2>1 DEF Built, Tables
<1>6. /\ (Renamed(2, s) => Renamed(3, u))
      /\ (Unrenamed(s) => Unrenamed(u))
  BY <1>1, <1>2 DEF Renamed, Unrenamed
<1> QED BY <1>3, <1>4, <1>5, <1>6 DEF Standing

LEMMA Up4 ==
  ASSUME NEW s, Standing(3, s), NEW u \in UpdatedSchools(s) PROVE Standing(4, u)
<1> DEFINE w == RenameColumn(s, "schools", "school", "short_name")
<1>1. u = w \cup {FullName} /\ Table("schools") \in s
  BY DEF UpdatedSchools, When
<1>2. /\ \A f \in s : f # OldName => f \in w
      /\ \A f \in w : f # ShortName => f \in s
      /\ Closed(s) => Closed(w)
      /\ OldName \in s /\ ShortName \notin s => ShortName \in w /\ OldName \notin w
  BY RenamedColumns
<1>3. Unrenamed(s) => w = s
  BY DEF Unrenamed, RenameColumn
<1> HIDE DEF w
<1>4. Closed(u)
  BY <1>1, <1>2, ChangedFacts DEF Standing
<1>5. Clear(4, u) /\ (Stuck(3, s) => Stuck(4, u))
  BY <1>1, <1>2 DEF Clear, Stuck, Standing
<1>6. Built(3, s) => Built(4, u)
  <2>1. \A t : Table(t) \in s => Table(t) \in u
    BY <1>1, <1>2
  <2> QED BY <1>1, <1>2, <2>1 DEF Built, Tables
<1>7. Renamed(3, s) => Renamed(4, u)
  BY <1>1, <1>2 DEF Renamed
<1>8. Unrenamed(s) => Unrenamed(u)
  BY <1>1, <1>3 DEF Unrenamed
<1> QED BY <1>4, <1>5, <1>6, <1>7, <1>8 DEF Standing

LEMMA Up5 ==
  ASSUME NEW s, Standing(4, s), NEW u \in AddedUnique(s) PROVE Standing(5, u)
<1>1. /\ s \subseteq u /\ u \subseteq s \cup {RegionConstraint, UniqueName}
      /\ RegionConstraint \in u \ s => Table("regions") \in s
      /\ UniqueName \in u \ s => Table("settlements") \in s
  BY DEF AddedUnique, When
<1>2. Closed(u)
  BY <1>1, ChangedFacts DEF Standing
<1>3. Clear(5, u) /\ (Stuck(4, s) => Stuck(5, u))
  BY <1>1 DEF Clear, Stuck, Standing
<1>4. /\ (Built(4, s) => Built(5, u))
      /\ (Renamed(4, s) => Renamed(5, u))
      /\ (Unrenamed(s) => Unrenamed(u))
  BY <1>1 DEF Built, Renamed, Unrenamed
<1> QED BY <1>2, <1>3, <1>4 DEF Standing

LEMMA Up6 ==
  ASSUME NEW s, Standing(5, s), NEW u \in UnitedNames(s) PROVE Standing(6, u)
<1>1. /\ \A f \in s : f # FirstName => f \in u
      /\ \A f \in u : f # UserName => f \in s
      /\ Table("users") \in s => UserName \in u
      /\ UserName \in u \ s => Table("users") \in s
  BY DEF UnitedNames
<1>2. Closed(u)
  BY <1>1, ChangedFacts DEF Standing
<1>3. Clear(6, u) /\ (Stuck(5, s) => Stuck(6, u))
  BY <1>1 DEF Clear, Stuck, Standing
<1>4. Built(5, s) => Built(6, u)
  <2>1. \A t : Table(t) \in s => Table(t) \in u
    BY <1>1
  <2>2. Built(5, s) => Table("users") \in s
    BY DEF Built, Tables, FirstTables
  <2> QED BY <1>1, <2>1, <2>2 DEF Built, Tables
<1>5. /\ (Renamed(5, s) => Renamed(6, u))
      /\ (Unrenamed(s) => Unrenamed(u))
  BY <1>1 DEF Renamed, Unrenamed
<1> QED BY <1>2, <1>3, <1>4, <1>5 DEF Standing

LEMMA Up7 ==
  ASSUME NEW s, Standing(6, s), NEW u \in AlignedIndexes(s) PROVE Standing(7, u)
<1>1. /\ \A f \in s : f # RegionConstraint => f \in u
      /\ \A f \in u : f # RegionIndex => f \in s
      /\ Table("regions") \in s => RegionIndex \in u /\ RegionConstraint \notin u
      /\ RegionIndex \in u \ s => Table("regions") \in s
  BY DEF AlignedIndexes
<1>2. Closed(u)
  BY <1>1, ChangedFacts DEF Standing
<1>3. Clear(7, u) /\ (Stuck(6, s) => Stuck(7, u))
  BY <1>1 DEF Clear, Stuck, Standing
<1>4. Built(6, s) => Built(7, u)
  <2>1. \A t : Table(t) \in s => Table(t) \in u
    BY <1>1
  <2>2. Built(6, s) => Table("regions") \in s
    BY DEF Built, Tables, FirstTables
  <2> QED BY <1>1, <2>1, <2>2 DEF Built, Tables
<1>5. /\ (Renamed(6, s) => Renamed(7, u))
      /\ (Unrenamed(s) => Unrenamed(u))
  BY <1>1 DEF Renamed, Unrenamed
<1> QED BY <1>2, <1>3, <1>4, <1>5 DEF Standing

BankNames == FirstTables \cup {"categories", "questions"}

\* What a table gets that is created with the questions.
LEMMA BankTables ==
  /\ DOMAIN BankTable = BankNames
  /\ \A t \in BankNames : /\ Table(t) \in BankTable[t]
                          /\ \A f \in BankTable[t] : f[1] = t \/ f = QuestionType
                          /\ Rows \cap BankTable[t] = {}
  /\ {Misspelled, QuestionType} \subseteq BankTable["questions"]
  /\ MarkOutOf \notin BankTable["questions"]
  /\ BankTable["categories"] = {Table("categories")}
  /\ PlaceType \in BankTable["settlements"]
<1>1. DOMAIN BankTable = BankNames
  BY DEF BankTable, BankNames
<1>2. /\ BankTable["questions"] = {Table("questions"), Misspelled, QuestionType}
      /\ BankTable["settlements"] = {Table("settlements"), PlaceType}
      /\ BankTable["schools"] = {Table("schools"), FullName, ShortName}
      /\ BankTable["users"] = {Table("users"), UserName, UniqueUser}
  BY DEF BankTable, FirstTables
<1>3. /\ BankTable["categories"] = {Table("categories")}
      /\ BankTable["permissions"] = {Table("permissions")}
      /\ BankTable["regions"] = {Table("regions")}
      /\ BankTable["roles"] = {Table("roles")}
      /\ BankTable["role2permission"] = {Table("role2permission")}
  BY DEF BankTable, FirstTables
<1>4. ASSUME NEW t \in BankNames
      PROVE  /\ Table(t) \in BankTable[t]
             /\ \A f \in BankTable[t] : f[1] = t \/ f = QuestionType
             /\ Rows \cap BankTable[t] = {}
  <2>1. CASE t = "questions"  BY <1>2, <2>1
  <2>2. CASE t = "settlements"  BY <1>2, <2>2
  <2>3. CASE t = "schools"  BY <1>2, <2>3
  <2>4. CASE t = "users"  BY <1>2, <2>4
  <2>5. CASE t = "categories"  BY <1>3, <2>5
  <2>6. CASE t = "permissions"  BY <1>3, <2>6
  <2>7. CASE t = "regions"  BY <1>3, <2>7
  <2>8. CASE t = "roles"  BY <1>3, <2>8
  <2>9. CASE t = "role2permission"  BY <1>3, <2>9
  <2> QED BY <2>1, <2>2, <2>3, <2>4, <2>5, <2>6, <2>7, <2>8, <2>9 DEF BankNames, FirstTables
<1> QED BY <1>1, <1>2, <1>3, <1>4

LEMMA Up8 ==
  ASSUME NEW s, Standing(7, s), NEW u \in QuestionBankTables(s) PROVE Standing(8, u)
<1>1. QuestionType \notin s /\ Table("questions") \notin s
  BY DEF QuestionBankTables, When, Standing, Clear
<1>2. u = WithMissing(s)
  BY DEF QuestionBankTables, When
<1> DEFINE absent == {t \in DOMAIN BankTable : Table(t) \notin s}
           made == UNION {BankTable[t] : t \in absent}
           index == IF RegionConstraint \in s THEN {} ELSE {RegionIndex}
<1>3. u = s \cup made \cup {NaturalKey} \cup index
  BY <1>2 DEF WithMissing
<1> HIDE DEF made
<1>4. /\ s \cup {NaturalKey} \subseteq u
      /\ RegionConstraint \notin s => RegionIndex \in u
      /\ \A t \in BankNames : Table(t) \notin s => BankTable[t] \subseteq u
  BY <1>3, BankTables DEF made
<1>5. \A f \in u \ s : \/ f \in {NaturalKey, RegionIndex, QuestionType}
                       \/ f[1] \in BankNames /\ Table(f[1]) \notin s /\ f \in BankTable[f[1]]
  <2> SUFFICES ASSUME NEW f \in u \ s, f \notin {NaturalKey, RegionIndex, QuestionType}
               PROVE  f[1] \in BankNames /\ Table(f[1]) \notin s /\ f \in BankTable[f[1]]
    OBVIOUS
  <2>1. PICK t \in BankNames : Table(t) \notin s /\ f \in BankTable[t]
    <3>1. f \in made
      BY <1>3
    <3>2. \E t \in DOMAIN BankTable : Table(t) \notin s /\ f \in BankTable[t]
      BY <3>1 DEF made
    <3> QED BY <3>2, BankTables
  <2> QED BY <2>1, BankTables
<1>6. \A t \in BankNames : Table(t) \in u
  BY <1>4, BankTables
<1>7. {Misspelled, QuestionType} \subseteq u /\ MarkOutOf \notin u
  <2>1. MarkOutOf \notin s
    BY <1>1 DEF Standing, Closed, Types
  <2> QED BY <1>1, <1>4, <1>5, <2>1, BankTables DEF BankNames
<1>8. Closed(u)
  <2>1. /\ NaturalKey[1] = "settlements" /\ RegionIndex[1] = "regions"
        /\ QuestionType[1] \in Types
    BY DEF Types
  <2>2. Table("settlements") \in u /\ Table("regions") \in u
    BY <1>6 DEF BankNames, FirstTables
  <2>3. \A f \in u \ s : f[1] \in Types \/ Table(f[1]) \in u
    BY <1>5, <1>6, <2>1, <2>2
  <2> QED BY <1>4, <2>3, ChangedFacts DEF Standing
<1>9. Clear(8, u)
  <2>1. \A f \in {Table("tests"), Table("test_questions"), NavigationType} :
          f \notin s /\ f[1] \notin BankNames /\ f \notin {NaturalKey, RegionIndex, QuestionType}
    BY DEF Clear, Standing, BankNames, FirstTables
  <2>2. \A f \in {Table("tests"), Table("test_questions"), NavigationType} : f \notin u
    BY <1>5, <2>1
  <2> QED BY <2>2 DEF Clear
<1>10. Built(7, s) => Built(8, u)
  <2> SUFFICES ASSUME Built(7, s) PROVE Built(8, u)
    OBVIOUS
  <2>1. RegionConstraint \notin u
    <3>1. RegionConstraint \notin s /\ Table("regions") \in s
      BY DEF Built, Tables, FirstTables
    <3>2. RegionConstraint[1] = "regions"
      OBVIOUS
    <3> QED BY <1>5, <3>1, <3>2
  <2> QED BY <1>4, <1>6, <1>7, <2>1 DEF Built, BankNames, FirstTables
<1>11. Built(7, s) /\ Renamed(7, s) => Renamed(8, u)
  <2> SUFFICES ASSUME Built(7, s), Renamed(7, s) PROVE Renamed(8, u)
    OBVIOUS
  <2>1. Table("schools") \in s /\ ShortName \in s
    BY DEF Built, Renamed, Tables, FirstTables
  <2> QED BY <1>4, <1>5, <2>1 DEF Renamed, BankNames, FirstTables
<1>12. Built(7, s) /\ Unrenamed(s) => Unrenamed(u)
  <2> SUFFICES ASSUME Built(7, s), Unrenamed(s) PROVE Unrenamed(u)
    OBVIOUS
  <2>1. Table("schools") \in s /\ ShortName \notin s /\ OldName \notin s
    BY DEF Built, Unrenamed, Tables, FirstTables
  <2>2. ShortName \notin u /\ OldName \notin u
    BY <1>5, <2>1
  <2> QED BY <2>2 DEF Unrenamed
<1> QED BY <1>1, <1>8, <1>9, <1>10, <1>11, <1>12 DEF Standing, Stuck

LEMMA EmptyRevisions ==
  ASSUME NEW n \in 9 .. 11, NEW s
  PROVE  Standing(n - 1, s) <=> Standing(n, s)
<1>1. (n - 1) \in Nat /\ n \in Nat /\ n - 1 >= 8 /\ n - 1 <= 10 /\ n >= 8 /\ n <= 11
  OBVIOUS
<1>2. (Clear(n - 1, s) <=> Clear(n, s)) /\ ~Stuck(n - 1, s) /\ ~Stuck(n, s)
  BY <1>1 DEF Clear, Stuck
<1>3. Built(n - 1, s) <=> Built(n, s)
  <2>1. CASE n = 9  BY <2>1 DEF Built
  <2>2. CASE n = 10  BY <2>2 DEF Built
  <2>3. CASE n = 11  BY <2>3 DEF Built
  <2> QED BY <1>1, <2>1, <2>2, <2>3
<1>4. Renamed(n - 1, s) <=> Renamed(n, s)
  BY <1>1 DEF Renamed
<1> QED BY <1>2, <1>3, <1>4 DEF Standing

LEMMA Up12 ==
  ASSUME NEW s, Standing(11, s), NEW u \in FixMark(s) PROVE Standing(12, u)
<1>1. /\ \A f \in s : f # Misspelled => f \in u
      /\ \A f \in u : f # MarkOutOf => f \in s
      /\ Closed(s) => Closed(u)
      /\ Misspelled \in s /\ MarkOutOf \notin s => MarkOutOf \in u /\ Misspelled \notin u
  BY RenamedColumns DEF FixMark
<1>2. Clear(12, u)
  BY <1>1 DEF Clear, Standing
<1>3. /\ (Built(11, s) => Built(12, u))
      /\ (Renamed(11, s) => Renamed(12, u))
      /\ (Unrenamed(s) => Unrenamed(u))
  BY <1>1 DEF Built, Renamed, Unrenamed, Tables
<1> QED BY <1>1, <1>2, <1>3 DEF Standing, Stuck

LEMMA Up13 ==
  ASSUME NEW s, Standing(12, s), NEW u \in TestsTables(s) PROVE Standing(13, u)
<1>1. u = s \cup {Table("tests"), Table("test_questions"), NavigationType, PaperId, PaperUnique}
  <2>1. Table("tests") \notin s /\ Table("test_questions") \notin s
    BY DEF Standing, Clear
  <2>2. Tables({"tests", "test_questions"}) \ s = {Table("tests"), Table("test_questions")}
    BY <2>1 DEF Tables
  <2> QED BY <2>2 DEF TestsTables, When
<1>2. Closed(u)
  <2>1. \A f \in u \ s : f[1] \in Types \/ Table(f[1]) \in u
    BY <1>1 DEF Types
  <2> QED BY <1>1, <2>1, ChangedFacts DEF Standing
<1>3. Clear(13, u)
  BY DEF Clear
<1>4. /\ (Built(12, s) => Built(13, u))
      /\ (Renamed(12, s) => Renamed(13, u))
      /\ (Unrenamed(s) => Unrenamed(u))
  BY <1>1 DEF Built, Renamed, Unrenamed, Tables
<1> QED BY <1>2, <1>3, <1>4 DEF Standing, Stuck

LEMMA Up14 ==
  ASSUME NEW s, Standing(13, s), NEW u \in FixPk(s) PROVE Standing(14, u)
<1>1. /\ s \subseteq u /\ u \subseteq s \cup {PaperId}
      /\ Table("test_questions") \in s => PaperId \in u
      /\ PaperId \in u \ s => Table("test_questions") \in s
  BY DEF FixPk
<1>2. Closed(u)
  BY <1>1, ChangedFacts DEF Standing
<1>3. Clear(14, u)
  BY DEF Clear
<1>4. /\ (Built(13, s) => Built(14, u))
      /\ (Renamed(13, s) => Renamed(14, u))
      /\ (Unrenamed(s) => Unrenamed(u))
  BY <1>1 DEF Built, Renamed, Unrenamed, Tables
<1> QED BY <1>2, <1>3, <1>4 DEF Standing, Stuck

\* Every upgrade finds what it needs and leaves what the next one needs.
LEMMA UpStands ==
  ASSUME NEW n \in 1 .. Head, NEW s, Standing(n - 1, s), NEW u \in Up(n, s)
  PROVE  Standing(n, u)
<1>1. CASE n = 1
  <2>1. n - 1 = 0 /\ u \in InitialRevision(s)
    BY <1>1 DEF Up
  <2> QED BY <1>1, <2>1, Up1
<1>2. CASE n = 2
  <2>1. n - 1 = 1 /\ u \in AddPermissions(s)
    BY <1>2 DEF Up
  <2> QED BY <1>2, <2>1, Up2
<1>3. CASE n = 3
  <2>1. n - 1 = 2 /\ u \in RenamedCity(s)
    BY <1>3 DEF Up
  <2> QED BY <1>3, <2>1, Up3
<1>4. CASE n = 4
  <2>1. n - 1 = 3 /\ u \in UpdatedSchools(s)
    BY <1>4 DEF Up
  <2> QED BY <1>4, <2>1, Up4
<1>5. CASE n = 5
  <2>1. n - 1 = 4 /\ u \in AddedUnique(s)
    BY <1>5 DEF Up
  <2> QED BY <1>5, <2>1, Up5
<1>6. CASE n = 6
  <2>1. n - 1 = 5 /\ u \in UnitedNames(s)
    BY <1>6 DEF Up
  <2> QED BY <1>6, <2>1, Up6
<1>7. CASE n = 7
  <2>1. n - 1 = 6 /\ u \in AlignedIndexes(s)
    BY <1>7 DEF Up
  <2> QED BY <1>7, <2>1, Up7
<1>8. CASE n = 8
  <2>1. n - 1 = 7 /\ u \in QuestionBankTables(s)
    BY <1>8 DEF Up
  <2> QED BY <1>8, <2>1, Up8
<1>9. CASE n \in 9 .. 11
  <2>1. u = s
    BY <1>9 DEF Up
  <2> QED BY <1>9, <2>1, EmptyRevisions
<1>10. CASE n = 12
  <2>1. n - 1 = 11 /\ u \in FixMark(s)
    BY <1>10 DEF Up
  <2> QED BY <1>10, <2>1, Up12
<1>11. CASE n = 13
  <2>1. n - 1 = 12 /\ u \in TestsTables(s)
    BY <1>11 DEF Up
  <2> QED BY <1>11, <2>1, Up13
<1>12. CASE n = 14
  <2>1. n - 1 = 13 /\ u \in FixPk(s)
    BY <1>12 DEF Up
  <2> QED BY <1>12, <2>1, Up14
<1> QED BY <1>1, <1>2, <1>3, <1>4, <1>5, <1>6, <1>7, <1>8, <1>9, <1>10, <1>11, <1>12 DEF Head

\* No two places of one name that the fifth revision would meet.
NoPlaces(n, s) == n < 5 => \A f \in s : f[2] # "rows_of_one_name"

\* No schools without a name that the fourth revision could give them.
NamesKept(n, s) == n < 4 => (SchoolRows \in s => FullName \in s \/ OldName \in s)

\* A schema from which there is an upgrade.
Passable(n, s) == Standing(n, s) /\ ~Stuck(n, s) /\ NoPlaces(n, s) /\ NamesKept(n, s)

LEMMA UpExists ==
  ASSUME NEW n \in 1 .. Head, NEW s, Passable(n - 1, s)
  PROVE  Up(n, s) # {}
<1>1. /\ Clear(n - 1, s) /\ Built(n - 1, s) /\ (IF legacy THEN Renamed(n - 1, s) ELSE Unrenamed(s))
      /\ ~Stuck(n - 1, s) /\ NoPlaces(n - 1, s) /\ NamesKept(n - 1, s)
  BY DEF Passable, Standing
<1>2. CASE n = 1
  <2>1. s \cap Tables(FirstTables) = {}
    BY <1>1, <1>2 DEF Clear, Tables
  <2>2. InitialRevision(s) # {}
    BY <2>1 DEF InitialRevision, When
  <2> QED BY <1>2, <2>2 DEF Up
<1>3. CASE n = 2
  <2>1. Tables({"permissions", "roles", "role2permission"}) \subseteq s
    BY <1>1, <1>3 DEF Built, Tables, FirstTables
  <2>2. Seeds \notin s
    BY <1>1, <1>3 DEF Clear
  <2>3. AddPermissions(s) # {}
    BY <2>1, <2>2 DEF AddPermissions, When
  <2> QED BY <1>3, <2>3 DEF Up
<1>4. CASE n = 3
  <2>1. Table("settlements") \in s \/ Table("cities") \in s
    BY <1>1, <1>4 DEF Built
  <2> DEFINE w == RenameTable(s, "cities", "settlements")
  <2>2. Table("settlements") \in w
    <3>1. CASE Table("settlements") \in s
      BY <3>1 DEF RenameTable
    <3>2. CASE Table("settlements") \notin s
      <4>1. Table("cities") \in s /\ Table("cities")[1] = "cities" /\ Table("cities")[2] = "table"
        BY <2>1, <3>2
      <4>2. w = {IF f[1] = "cities" THEN <<"settlements", f[2]>> ELSE f : f \in s}
        BY <3>2, <4>1 DEF RenameTable
      <4>3. \A f \in s : (IF f[1] = "cities" THEN <<"settlements", f[2]>> ELSE f) \in w
        BY <4>2
      <4> QED BY <4>1, <4>3
    <3> QED BY <3>1, <3>2
  <2>3. RenamedCity(s) # {}
    BY <2>2 DEF RenamedCity, When
  <2> QED BY <1>4, <2>3 DEF Up
<1>5. CASE n = 4
  <2>1. Table("schools") \in s
    BY <1>1, <1>5 DEF Built, Tables, FirstTables
  <2>2. SchoolRows \in s => FullName \in s \/ OldName \in s
    BY <1>1, <1>5 DEF NamesKept
  <2>3. UpdatedSchools(s) # {}
    BY <2>1, <2>2 DEF UpdatedSchools, When
  <2> QED BY <1>5, <2>3 DEF Up
<1>6. CASE n = 5
  <2>1. SameNames \notin s
    BY <1>1, <1>6 DEF NoPlaces
  <2>2. AddedUnique(s) # {}
    BY <2>1 DEF AddedUnique, When
  <2> QED BY <1>6, <2>2 DEF Up
<1>7. CASE n = 8
  <2>1. QuestionType \notin s
    BY <1>1, <1>7 DEF Stuck
  <2>2. QuestionBankTables(s) # {}
    BY <2>1 DEF QuestionBankTables, When
  <2> QED BY <1>7, <2>2 DEF Up
<1>8. CASE n = 13
  <2>1. NavigationType \notin s /\ Table("questions") \in s
    BY <1>1, <1>8 DEF Clear, Built
  <2>2. TestsTables(s) # {}
    BY <2>1 DEF TestsTables, When
  <2> QED BY <1>8, <2>2 DEF Up
<1>9. CASE n \notin {1, 2, 3, 4, 5, 8, 13}
  BY <1>9 DEF Up, UnitedNames, AlignedIndexes, FixMark, FixPk
<1> QED BY <1>2, <1>3, <1>4, <1>5, <1>6, <1>7, <1>8, <1>9

\* Schools have had a name since the first revision: what no downgrade has touched.
Named(n, s) == n < 4 => (Table("schools") \in s => FullName \in s \/ OldName \in s)

\* Up to the fourth revision no upgrade drops a name of schools or brings schools.
LEMMA UpKeepsNames ==
  ASSUME NEW n \in 1 .. Head, NEW s, NEW u \in Up(n, s)
  PROVE  /\ NamesKept(n - 1, s) => NamesKept(n, u)
         /\ Named(n - 1, s) => Named(n, u)
<1>1. CASE n \in 4 .. Head
  BY <1>1 DEF NamesKept, Named
<1>2. CASE n = 1
  <2>1. FullName \in u
    BY <1>2 DEF Up, InitialRevision, When
  <2> QED BY <2>1 DEF NamesKept, Named
<1>3. CASE n = 2
  <2>1. u = s \cup {Seeds}
    BY <1>3 DEF Up, AddPermissions, When
  <2> QED BY <1>3, <2>1 DEF NamesKept, Named
<1>4. CASE n = 3
  <2> DEFINE w == RenameTable(s, "cities", "settlements")
  <2>1. u = w \cup {PlaceType}
    BY <1>4 DEF Up, RenamedCity, When
  <2>2. \A f \in {SchoolRows, Table("schools"), FullName, OldName} : f \in w <=> f \in s
    BY DEF RenameTable
  <2> HIDE DEF w
  <2> QED BY <1>4, <2>1, <2>2 DEF NamesKept, Named
<1> QED BY <1>1, <1>2, <1>3, <1>4 DEF Head

\* No upgrade leads into a schema from which there is none.
LEMMA UpPasses ==
  ASSUME NEW n \in 1 .. Head, NEW s, Passable(n - 1, s), NEW u \in Up(n, s)
  PROVE  Passable(n, u)
<1>1. Standing(n, u)
  BY UpStands DEF Passable
<1>2. n < 8 => QuestionType \notin s
  BY DEF Passable, Stuck
<1>3. n < 5 => \A f \in s : f[2] # "rows_of_one_name"
  BY DEF Passable, NoPlaces
<1>4. NamesKept(n, u)
  BY UpKeepsNames DEF Passable
<1>5. ASSUME \A f \in u \ s : f # QuestionType /\ f[2] # "rows_of_one_name"
      PROVE  Passable(n, u)
  BY <1>1, <1>2, <1>3, <1>4, <1>5 DEF Passable, Stuck, NoPlaces
<1>6. CASE n = 1
  <2>1. u = s \cup Tables(FirstTables) \cup {FullName, FirstName, UniqueUser}
    BY <1>6 DEF Up, InitialRevision, When
  <2> QED BY <1>5, <2>1 DEF Tables, FirstTables
<1>7. CASE n = 2
  <2>1. u = s \cup {Seeds}
    BY <1>7 DEF Up, AddPermissions, When
  <2> QED BY <1>5, <2>1
<1>8. CASE n = 3
  <2> DEFINE w == RenameTable(s, "cities", "settlements")
  <2>1. u = w \cup {PlaceType}
    BY <1>8 DEF Up, RenamedCity, When
  <2>2. \A f \in w : \/ f \in s
                     \/ \E g \in s : f = <<"settlements", g[2]>>
    BY DEF RenameTable
  <2>3. QuestionType \notin w /\ \A f \in w : f[2] # "rows_of_one_name"
    BY <1>2, <1>3, <1>8, <2>2
  <2> HIDE DEF w
  <2>4. QuestionType \notin u /\ \A f \in u : f[2] # "rows_of_one_name"
    BY <2>1, <2>3
  <2> QED BY <1>1, <1>4, <2>4 DEF Passable, Stuck, NoPlaces
<1>9. CASE n = 4
  <2>1. \A f \in u \ s : f \in {ShortName, FullName}
    BY <1>9 DEF Up, UpdatedSchools, When, RenameColumn
  <2> QED BY <1>5, <2>1
<1>10. CASE n = 5
  <2>1. \A f \in u \ s : f \in {RegionConstraint, UniqueName}
    BY <1>10 DEF Up, AddedUnique, When
  <2> QED BY <1>5, <2>1
<1>11. CASE n = 6
  <2>1. \A f \in u \ s : f = UserName
    BY <1>11 DEF Up, UnitedNames
  <2> QED BY <1>5, <2>1
<1>12. CASE n = 7
  <2>1. \A f \in u \ s : f = RegionIndex
    BY <1>12 DEF Up, AlignedIndexes
  <2> QED BY <1>5, <2>1
<1>13. CASE n \in 8 .. 14
  BY <1>1, <1>4, <1>13 DEF Passable, Stuck, NoPlaces
<1> QED BY <1>6, <1>7, <1>8, <1>9, <1>10, <1>11, <1>12, <1>13 DEF Head

\* No upgrade looks at the rows of users or changes them, and none needs rows of schools.
LEMMA RowsAside ==
  ASSUME NEW n \in Nat, NEW s, NEW u \in Up(n, s)
  PROVE  u \ Rows \in Up(n, s \ Rows)
<1> DEFINE a == s \ Rows
           b == u \ Rows
<1>1. /\ \A t : Table(t) \in s <=> Table(t) \in a
      /\ \A f : f \notin Rows => (f \in s <=> f \in a)
      /\ Rows \cap Tables(FirstTables) = {}
  BY DEF Tables
<1>2. CASE n = 1
  <2>1. u \in InitialRevision(s)
    BY <1>2 DEF Up
  <2>2. b \in InitialRevision(a)
    BY <1>1, <2>1 DEF InitialRevision, When, Tables
  <2> QED BY <1>2, <2>2 DEF Up
<1>3. CASE n = 2
  <2>1. u \in AddPermissions(s)
    BY <1>3 DEF Up
  <2>2. b \in AddPermissions(a)
    BY <1>1, <2>1 DEF AddPermissions, When, Tables
  <2> QED BY <1>3, <2>2 DEF Up
<1>4. CASE n = 3
  <2>1. u \in RenamedCity(s)
    BY <1>4 DEF Up
  <2>2. RenameTable(s, "cities", "settlements") \ Rows = RenameTable(a, "cities", "settlements")
    BY <1>1 DEF RenameTable
  <2> DEFINE w == RenameTable(s, "cities", "settlements")
             v == RenameTable(a, "cities", "settlements")
  <2>3. u = w \cup {PlaceType} /\ Table("settlements") \in w
    BY <2>1 DEF RenamedCity, When
  <2>4. w \ Rows = v
    BY <2>2
  <2> HIDE DEF w, v
  <2>5. b = v \cup {PlaceType} /\ Table("settlements") \in v
    BY <2>3, <2>4
  <2>6. b \in RenamedCity(a)
    BY <2>5 DEF RenamedCity, When, v
  <2> QED BY <1>4, <2>6 DEF Up
<1>5. CASE n = 4
  <2>1. u \in UpdatedSchools(s)
    BY <1>5 DEF Up
  <2>2. RenameColumn(s, "schools", "school", "short_name") \ Rows
          = RenameColumn(a, "schools", "school", "short_name")
    BY DEF RenameColumn
  <2>3. b \in UpdatedSchools(a)
    BY <2>1, <2>2 DEF UpdatedSchools, When
  <2> QED BY <1>5, <2>3 DEF Up
<1>6. CASE n = 5
  <2>1. u \in AddedUnique(s)
    BY <1>6 DEF Up
  <2>2. b \in AddedUnique(a)
    BY <2>1 DEF AddedUnique, When
  <2> QED BY <1>6, <2>2 DEF Up
<1>7. CASE n = 6
  <2>1. u \in UnitedNames(s)
    BY <1>7 DEF Up
  <2>2. b \in UnitedNames(a)
    BY <2>1 DEF UnitedNames
  <2> QED BY <1>7, <2>2 DEF Up
<1>8. CASE n = 7
  <2>1. u \in AlignedIndexes(s)
    BY <1>8 DEF Up
  <2>2. b \in AlignedIndexes(a)
    BY <2>1 DEF AlignedIndexes
  <2> QED BY <1>8, <2>2 DEF Up
<1>9. CASE n = 8
  <2>1. u \in QuestionBankTables(s)
    BY <1>9 DEF Up
  <2> DEFINE made == UNION {BankTable[t] : t \in {v \in DOMAIN BankTable : Table(v) \notin s}}
             index == IF RegionConstraint \in s THEN {} ELSE {RegionIndex}
  <2>2. Rows \cap made = {}
    <3>1. \A v \in DOMAIN BankTable : Rows \cap BankTable[v] = {}
      BY BankTables
    <3> QED BY <3>1
  <2>3. {v \in DOMAIN BankTable : Table(v) \notin s} = {v \in DOMAIN BankTable : Table(v) \notin a}
    BY <1>1
  <2>4. WithMissing(s) = s \cup made \cup {NaturalKey} \cup index
    BY DEF WithMissing
  <2>5. WithMissing(a) = a \cup made \cup {NaturalKey} \cup index
    BY <2>3 DEF WithMissing
  <2> HIDE DEF made
  <2>6. WithMissing(s) \ Rows = WithMissing(a)
    BY <2>2, <2>4, <2>5
  <2>7. b \in QuestionBankTables(a)
    BY <2>1, <2>6 DEF QuestionBankTables, When
  <2> QED BY <1>9, <2>7 DEF Up
<1>10. CASE n = 12
  <2>1. u \in FixMark(s)
    BY <1>10 DEF Up
  <2>2. b \in FixMark(a)
    BY <2>1 DEF FixMark, RenameColumn
  <2> QED BY <1>10, <2>2 DEF Up
<1>11. CASE n = 13
  <2>1. u \in TestsTables(s)
    BY <1>11 DEF Up
  <2> DEFINE new == Tables({"tests", "test_questions"}) \ s
  <2>2. new = Tables({"tests", "test_questions"}) \ a /\ Rows \cap new = {}
    BY DEF Tables
  <2> HIDE DEF new
  <2>3. b \in TestsTables(a)
    BY <2>1, <2>2 DEF TestsTables, When, new
  <2> QED BY <1>11, <2>3 DEF Up
<1>12. CASE n = 14
  <2>1. u \in FixPk(s)
    BY <1>12 DEF Up
  <2>2. b \in FixPk(a)
    BY <2>1 DEF FixPk
  <2> QED BY <1>12, <2>2 DEF Up
<1>13. CASE n \notin {1, 2, 3, 4, 5, 6, 7, 8, 12, 13, 14}
  BY <1>13 DEF Up
<1> QED BY <1>2, <1>3, <1>4, <1>5, <1>6, <1>7, <1>8, <1>9, <1>10, <1>11, <1>12, <1>13
----------------------------------------------------------------------------
(* Downgrades, one revision at a time.                                     *)

\* Tables that are dropped take what belongs to them along.
LEMMA DroppedFacts ==
  ASSUME NEW s, NEW ts, NEW u, u = Without(s, ts)
  PROVE  /\ \A f : f \in u <=> f \in s /\ f[1] \notin ts
         /\ Closed(s) => Closed(u)
<1>1. \A f : f \in u <=> f \in s /\ f[1] \notin ts
  BY DEF Without
<1>2. ASSUME Closed(s), NEW f \in u, f[1] \notin Types PROVE Table(f[1]) \in u
  <2>1. Table(f[1]) \in s /\ f[1] \notin ts
    BY <1>1, <1>2 DEF Closed
  <2>2. Table(f[1])[1] = f[1]
    OBVIOUS
  <2> QED BY <1>1, <2>1, <2>2
<1> QED BY <1>1, <1>2 DEF Closed

LEMMA Down1 ==
  ASSUME NEW s, Standing(1, s), NEW u \in DropInitial(s) PROVE Standing(0, u)
<1>1. u = Without(s, FirstTables) /\ Table("settlements") \in s
  BY DEF DropInitial, When, Tables, FirstTables
<1>2. (\A f : f \in u <=> f \in s /\ f[1] \notin FirstTables) /\ Closed(u)
  BY <1>1, DroppedFacts DEF Standing
<1>3. Clear(0, u) /\ Built(0, u)
  <2>1. Clear(1, s)
    BY DEF Standing
  <2>2. \A t \in FirstTables : Table(t) \notin u
    BY <1>2
  <2>3. Seeds \notin u
    BY <1>2 DEF FirstTables
  <2>4. Clear(0, u)
    BY <1>2, <2>1, <2>2, <2>3 DEF Clear
  <2> QED BY <2>4 DEF Built
<1>4. Stuck(1, s) => Stuck(0, u)
  BY <1>2 DEF Stuck, FirstTables
<1>5. ~Renamed(1, s) /\ (Unrenamed(s) => Unrenamed(u))
  BY <1>1, <1>2 DEF Renamed, Unrenamed
<1> QED BY <1>2, <1>3, <1>4, <1>5 DEF Standing

LEMMA Down2 ==
  ASSUME NEW s, Standing(2, s), NEW u \in RemovePermissions(s) PROVE Standing(1, u)
<1>1. u = s \ {Seeds}
  BY DEF RemovePermissions, When
<1>2. Closed(u)
  BY <1>1, ChangedFacts DEF Standing
<1>3. Clear(1, u) /\ (Stuck(2, s) => Stuck(1, u))
  BY <1>1 DEF Clear, Stuck, Standing
<1>4. /\ (Built(2, s) => Built(1, u))
      /\ (Renamed(2, s) => Renamed(1, u))
      /\ (Unrenamed(s) => Unrenamed(u))
  BY <1>1 DEF Built, Renamed, Unrenamed, Tables
<1> QED BY <1>2, <1>3, <1>4 DEF Standing

LEMMA Down3 ==
  ASSUME NEW s, Standing(3, s), NEW u \in RenameToCity(s) PROVE Standing(2, u)
<1> DEFINE w == s \ {PlaceType}
<1>1. u = RenameTable(w, "settlements", "cities")
  BY DEF RenameToCity
<1>2. Closed(w)
  BY ChangedFacts DEF Standing
<1>3. /\ \A f \in w : f[1] # "settlements" => f \in u
      /\ \A f \in u : f[1] # "cities" => f \in w
      /\ Closed(u)
      /\ Table("settlements") \in w => Table("cities") \in u
      /\ Table("cities") \notin w => Table("settlements") \notin u
  <2> HIDE DEF w
  <2>1. PICK old, new : old = "settlements" /\ new = "cities"
    OBVIOUS
  <2>2. /\ \A f \in w : f[1] # old => f \in u
        /\ \A f \in u : f[1] # new => f \in w
        /\ Closed(u)
        /\ Table(old) \in w => Table(new) \in u
        /\ Table(new) \notin w => Table(old) \notin u
    BY <1>1, <1>2, <2>1, RenamedFacts
  <2> QED BY <2>1, <2>2
<1>4. Clear(2, u) /\ (Stuck(3, s) => Stuck(2, u))
  BY <1>3 DEF Clear, Stuck, Standing
<1>5. Built(3, s) => Built(2, u)
  <2>1. \A t \in FirstTables \ {"settlements"} : Table(t) \in s => Table(t) \in u
    BY <1>3 DEF FirstTables
  <2> QED BY <1>3, <2>1 DEF Built, Tables
<1>6. /\ Built(3, s) /\ Renamed(3, s) => Renamed(2, u)
      /\ Unrenamed(s) => Unrenamed(u)
  BY <1>3 DEF Renamed, Unrenamed, Built
<1> QED BY <1>3, <1>4, <1>5, <1>6 DEF Standing

LEMMA Down4 ==
  ASSUME NEW s, Standing(4, s), NEW u \in RevertSchools(s) PROVE Standing(3, u)
<1> DEFINE w == RenameColumn(s, "schools", "short_name", "school")
<1>1. u = w \ {FullName}
  BY DEF RevertSchools
<1>2. /\ \A f \in s : f # ShortName => f \in w
      /\ \A f \in w : f # OldName => f \in s
      /\ Closed(s) => Closed(w)
      /\ ShortName \in s /\ OldName \notin s => OldName \in w /\ ShortName \notin w
  <2>1. w = RenameColumn(s, "schools", "short_name", "school")
    OBVIOUS
  <2> HIDE DEF w
  <2>2. PICK t, old, new : t = "schools" /\ old = "short_name" /\ new = "school"
    OBVIOUS
  <2>3. /\ \A f \in s : f # <<t, old>> => f \in w
        /\ \A f \in w : f # <<t, new>> => f \in s
        /\ Closed(s) => Closed(w)
        /\ <<t, old>> \in s /\ <<t, new>> \notin s => <<t, new>> \in w /\ <<t, old>> \notin w
    BY <2>1, <2>2, RenamedColumns
  <2> QED BY <2>2, <2>3
<1>3. Unrenamed(s) => w = s
  BY DEF Unrenamed, RenameColumn
<1> HIDE DEF w
<1>4. Closed(u)
  BY <1>1, <1>2, ChangedFacts DEF Standing
<1>5. Clear(3, u) /\ (Stuck(4, s) => Stuck(3, u))
  BY <1>1, <1>2 DEF Clear, Stuck, Standing
<1>6. Built(4, s) => Built(3, u)
  <2>1. \A t : Table(t) \in s => Table(t) \in u
    BY <1>1, <1>2
  <2> QED BY <1>1, <1>2, <2>1 DEF Built, Tables
<1>7. Renamed(4, s) => Renamed(3, u)
  BY <1>1, <1>2 DEF Renamed
<1>8. Unrenamed(s) => Unrenamed(u)
  BY <1>1, <1>3 DEF Unrenamed
<1> QED BY <1>4, <1>5, <1>6, <1>7, <1>8 DEF Standing

LEMMA Down5 ==
  ASSUME NEW s, Standing(5, s), NEW u \in DropUnique(s) PROVE Standing(4, u)
<1>1. u = s \ {RegionConstraint, UniqueName}
  BY DEF DropUnique
<1>2. Closed(u)
  BY <1>1, ChangedFacts DEF Standing
<1>3. Clear(4, u) /\ (Stuck(5, s) => Stuck(4, u))
  BY <1>1 DEF Clear, Stuck, Standing
<1>4. /\ (Built(5, s) => Built(4, u))
      /\ (Renamed(5, s) => Renamed(4, u))
      /\ (Unrenamed(s) => Unrenamed(u))
  BY <1>1 DEF Built, Renamed, Unrenamed, Tables
<1> QED BY <1>2, <1>3, <1>4 DEF Standing

LEMMA Down6 ==
  ASSUME NEW s, Standing(6, s), NEW u \in DivideNames(s) PROVE Standing(5, u)
<1>1. /\ \A f \in s : f # UserName => f \in u
      /\ \A f \in u : f # FirstName => f \in s
      /\ FirstName \in u \ s => Table("users") \in s
  BY DEF DivideNames
<1>2. Closed(u)
  BY <1>1, ChangedFacts DEF Standing
<1>3. Clear(5, u) /\ (Stuck(6, s) => Stuck(5, u))
  BY <1>1 DEF Clear, Stuck, Standing
<1>4. /\ (Built(6, s) => Built(5, u))
      /\ (Renamed(6, s) => Renamed(5, u))
      /\ (Unrenamed(s) => Unrenamed(u))
  BY <1>1 DEF Built, Renamed, Unrenamed, Tables
<1> QED BY <1>2, <1>3, <1>4 DEF Standing

LEMMA Down7 ==
  ASSUME NEW s, Standing(7, s), NEW u \in UnalignIndexes(s) PROVE Standing(6, u)
<1>1. /\ \A f \in s : f # RegionIndex => f \in u
      /\ \A f \in u : f # RegionConstraint => f \in s
      /\ RegionConstraint \in u \ s => Table("regions") \in s
  BY DEF UnalignIndexes
<1>2. Closed(u)
  BY <1>1, ChangedFacts DEF Standing
<1>3. Clear(6, u) /\ (Stuck(7, s) => Stuck(6, u))
  BY <1>1 DEF Clear, Stuck, Standing
<1>4. /\ (Built(7, s) => Built(6, u))
      /\ (Renamed(7, s) => Renamed(6, u))
      /\ (Unrenamed(s) => Unrenamed(u))
  BY <1>1 DEF Built, Renamed, Unrenamed, Tables
<1> QED BY <1>2, <1>3, <1>4 DEF Standing

\* The type of a column is left behind: there is no way up again.
LEMMA Down8 ==
  ASSUME NEW s, Standing(8, s), NEW u \in DropQuestionBank(s) PROVE Standing(7, u)
<1>1. (\A f : f \in u <=> f \in s /\ f[1] \notin BankNames) /\ Closed(u)
  BY BankTables, DroppedFacts DEF DropQuestionBank, Standing
<1>2. Clear(7, u)
  BY <1>1 DEF Clear, Standing, BankNames
<1>3. Stuck(7, u)
  BY <1>1 DEF Stuck, Standing, Built, BankNames, FirstTables
<1> QED BY <1>1, <1>2, <1>3 DEF Standing

LEMMA Down12 ==
  ASSUME NEW s, Standing(12, s), NEW u \in BreakMark(s) PROVE Standing(11, u)
<1>1. /\ \A f \in s : f # MarkOutOf => f \in u
      /\ \A f \in u : f # Misspelled => f \in s
      /\ Closed(s) => Closed(u)
      /\ MarkOutOf \in s /\ Misspelled \notin s => Misspelled \in u /\ MarkOutOf \notin u
  BY RenamedColumns DEF BreakMark
<1>2. Clear(11, u)
  BY <1>1 DEF Clear, Standing
<1>3. /\ (Built(12, s) => Built(11, u))
      /\ (Renamed(12, s) => Renamed(11, u))
      /\ (Unrenamed(s) => Unrenamed(u))
  BY <1>1 DEF Built, Renamed, Unrenamed, Tables
<1> QED BY <1>1, <1>2, <1>3 DEF Standing, Stuck

LEMMA Down13 ==
  ASSUME NEW s, Standing(13, s), NEW u \in DropTests(s) PROVE Standing(12, u)
<1>1. /\ \A f : f \in u <=> f \in s /\ f[1] \notin {"tests", "test_questions", "navigation_method_enum"}
      /\ Closed(u)
  BY DroppedFacts DEF DropTests, Standing
<1>2. Clear(12, u)
  BY <1>1 DEF Clear
<1>3. Built(13, s) => Built(12, u)
  <2>1. \A t \in FirstTables : Table(t) \in s => Table(t) \in u
    BY <1>1 DEF FirstTables
  <2> QED BY <1>1, <2>1 DEF Built, Tables
<1>4. /\ (Renamed(13, s) => Renamed(12, u))
      /\ (Unrenamed(s) => Unrenamed(u))
  BY <1>1 DEF Renamed, Unrenamed
<1> QED BY <1>1, <1>2, <1>3, <1>4 DEF Standing, Stuck

LEMMA Down14 ==
  ASSUME NEW s, Standing(14, s), NEW u \in UnfixPk(s) PROVE Standing(13, u)
<1>1. u = s \ {PaperId}
  BY DEF UnfixPk
<1>2. Closed(u)
  BY <1>1, ChangedFacts DEF Standing
<1>3. Clear(13, u)
  BY DEF Clear
<1>4. /\ (Built(14, s) => Built(13, u))
      /\ (Renamed(14, s) => Renamed(13, u))
      /\ (Unrenamed(s) => Unrenamed(u))
  BY <1>1 DEF Built, Renamed, Unrenamed, Tables
<1> QED BY <1>2, <1>3, <1>4 DEF Standing, Stuck

\* Every downgrade leaves what holds one revision before.
LEMMA DownStands ==
  ASSUME NEW n \in 1 .. Head, NEW s, Standing(n, s), NEW u \in Down(n, s)
  PROVE  Standing(n - 1, u)
<1>1. CASE n = 1
  <2>1. n - 1 = 0 /\ u \in DropInitial(s)
    BY <1>1 DEF Down
  <2> QED BY <1>1, <2>1, Down1
<1>2. CASE n = 2
  <2>1. n - 1 = 1 /\ u \in RemovePermissions(s)
    BY <1>2 DEF Down
  <2> QED BY <1>2, <2>1, Down2
<1>3. CASE n = 3
  <2>1. n - 1 = 2 /\ u \in RenameToCity(s)
    BY <1>3 DEF Down
  <2> QED BY <1>3, <2>1, Down3
<1>4. CASE n = 4
  <2>1. n - 1 = 3 /\ u \in RevertSchools(s)
    BY <1>4 DEF Down
  <2> QED BY <1>4, <2>1, Down4
<1>5. CASE n = 5
  <2>1. n - 1 = 4 /\ u \in DropUnique(s)
    BY <1>5 DEF Down
  <2> QED BY <1>5, <2>1, Down5
<1>6. CASE n = 6
  <2>1. n - 1 = 5 /\ u \in DivideNames(s)
    BY <1>6 DEF Down
  <2> QED BY <1>6, <2>1, Down6
<1>7. CASE n = 7
  <2>1. n - 1 = 6 /\ u \in UnalignIndexes(s)
    BY <1>7 DEF Down
  <2> QED BY <1>7, <2>1, Down7
<1>8. CASE n = 8
  <2>1. n - 1 = 7 /\ u \in DropQuestionBank(s)
    BY <1>8 DEF Down
  <2> QED BY <1>8, <2>1, Down8
<1>9. CASE n \in 9 .. 11
  <2>1. u = s
    BY <1>9 DEF Down
  <2> QED BY <1>9, <2>1, EmptyRevisions
<1>10. CASE n = 12
  <2>1. n - 1 = 11 /\ u \in BreakMark(s)
    BY <1>10 DEF Down
  <2> QED BY <1>10, <2>1, Down12
<1>11. CASE n = 13
  <2>1. n - 1 = 12 /\ u \in DropTests(s)
    BY <1>11 DEF Down
  <2> QED BY <1>11, <2>1, Down13
<1>12. CASE n = 14
  <2>1. n - 1 = 13 /\ u \in UnfixPk(s)
    BY <1>12 DEF Down
  <2> QED BY <1>12, <2>1, Down14
<1> QED BY <1>1, <1>2, <1>3, <1>4, <1>5, <1>6, <1>7, <1>8, <1>9, <1>10, <1>11, <1>12 DEF Head
----------------------------------------------------------------------------
(* Chains of revisions.                                                    *)

Less == {p \in Nat \X Nat : p[1] < p[2]}

LEMMA LessWellFounded == IsWellFoundedOn(Less, Nat)
  BY NatLessThanWellFounded DEF OpToRel, Less

\* Induction, with the set of the numbers it is about in place of a predicate.
LEMMA Induction ==
  ASSUME NEW T, 0 \in T, \A n \in Nat : n \in T => n + 1 \in T
  PROVE  \A n \in Nat : n \in T
<1> DEFINE Rest == Nat \ T
<1> SUFFICES ASSUME Rest # {} PROVE FALSE
  OBVIOUS
<1>1. PICK n \in Rest : \A k \in Rest : <<k, n>> \notin Less
  <2>1. Rest \subseteq Nat
    OBVIOUS
  <2> HIDE DEF Rest
  <2> QED BY <2>1, WFMin, LessWellFounded
<1>2. n \in Nat \ {0} /\ n - 1 \in Nat /\ n - 1 < n /\ (n - 1) + 1 = n
  OBVIOUS
<1>3. <<n - 1, n>> \in Less
  BY <1>2 DEF Less
<1> QED BY <1>1, <1>2, <1>3

\* f[n] is what the revisions after `from' up to n make of s.
Chain(f, from, to, s) ==
  f = [n \in from .. to |-> IF n = from THEN {s} ELSE UNION {Up(n, t) : t \in f[n - 1]}]

LEMMA ChainsExist ==
  ASSUME NEW from \in Nat, NEW s
  PROVE  \A k \in Nat : \E f : Chain(f, from, from + k, s)
<1> DEFINE T == {k \in Nat : \E f : Chain(f, from, from + k, s)}
<1>1. 0 \in T
  <2>1. Chain([n \in from .. from + 0 |-> {s}], from, from + 0, s)
    BY DEF Chain
  <2> QED BY <2>1
<1>2. ASSUME NEW k \in Nat, k \in T PROVE k + 1 \in T
  <2>1. PICK f : Chain(f, from, from + k, s)
    BY <1>2
  <2> DEFINE last == from + (k + 1)
             g == [n \in from .. last |->
                     IF n = last THEN UNION {Up(n, t) : t \in f[n - 1]} ELSE f[n]]
  <2>2. \A n \in from .. last : n # last => g[n] = f[n]
    OBVIOUS
  <2>3. \A n \in from .. last : n # from => g[n - 1] = f[n - 1]
    OBVIOUS
  <2>4. ASSUME NEW n \in from .. last
        PROVE  g[n] = IF n = from THEN {s} ELSE UNION {Up(n, t) : t \in g[n - 1]}
    <3>1. CASE n = last
      <4>1. n # from /\ g[n] = UNION {Up(n, t) : t \in f[n - 1]}
        BY <3>1
      <4> QED BY <2>3, <4>1
    <3>2. CASE n # last
      <4>1. n \in from .. from + k
        BY <3>2
      <4>2. f[n] = IF n = from THEN {s} ELSE UNION {Up(n, t) : t \in f[n - 1]}
        BY <2>1, <4>1 DEF Chain
      <4> QED BY <2>2, <2>3, <3>2, <4>2
    <3> QED BY <3>1, <3>2
  <2>5. Chain(g, from, last, s)
    <3>1. g = [n \in from .. last |-> g[n]]
      OBVIOUS
    <3> HIDE DEF g
    <3> QED BY <2>4, <3>1, Zenon DEF Chain
  <2> QED BY <2>5
<1> HIDE DEF T
<1>3. \A k \in Nat : k \in T
  BY <1>1, <1>2, Induction
<1> QED BY <1>3 DEF T

LEMMA ChainsAgree ==
  ASSUME NEW from \in Nat, NEW s, NEW j \in Nat, NEW k \in Nat, j <= k,
         NEW f, Chain(f, from, from + j, s), NEW g, Chain(g, from, from + k, s)
  PROVE  f[from + j] = g[from + j]
<1> DEFINE T == {i \in Nat : i <= j => f[from + i] = g[from + i]}
<1>1. \A n \in from .. from + j :
        f[n] = IF n = from THEN {s} ELSE UNION {Up(n, t) : t \in f[n - 1]}
  BY DEF Chain
<1>2. \A n \in from .. from + k :
        g[n] = IF n = from THEN {s} ELSE UNION {Up(n, t) : t \in g[n - 1]}
  BY DEF Chain
<1>3. 0 \in T
  <2>1. from + 0 = from /\ from \in from .. from + j /\ from \in from .. from + k
    OBVIOUS
  <2> QED BY <1>1, <1>2, <2>1
<1>4. ASSUME NEW i \in Nat, i \in T PROVE i + 1 \in T
  <2> SUFFICES ASSUME i + 1 <= j PROVE f[from + (i + 1)] = g[from + (i + 1)]
    OBVIOUS
  <2> DEFINE n == from + (i + 1)
  <2>1. n \in from .. from + j /\ n \in from .. from + k /\ n # from /\ n - 1 = from + i
    OBVIOUS
  <2>2. f[n - 1] = g[n - 1]
    BY <1>4, <2>1
  <2> HIDE DEF n
  <2>3. f[n] = UNION {Up(n, t) : t \in f[n - 1]} /\ g[n] = UNION {Up(n, t) : t \in g[n - 1]}
    BY <1>1, <1>2, <2>1
  <2>4. f[n] = g[n]
    BY <2>2, <2>3
  <2> QED BY <2>4 DEF n
<1> HIDE DEF T
<1>5. j \in T
  BY <1>3, <1>4, Induction
<1> QED BY <1>5 DEF T

LEMMA UpgradedIsChain ==
  ASSUME NEW from \in Nat, NEW k \in Nat, NEW s
  PROVE  \E f : Chain(f, from, from + k, s) /\ Upgraded(from, from + k, s) = f[from + k]
<1> DEFINE c == CHOOSE f : Chain(f, from, from + k, s)
<1>1. Chain(c, from, from + k, s)
  BY ChainsExist
<1>2. Upgraded(from, from + k, s) = c[from + k]
  BY DEF Upgraded, Chain
<1> QED BY <1>1, <1>2

\* No revision leaves the schema as it is, and one more is run on what the others make.
LEMMA UpgradedStep ==
  ASSUME NEW from \in Nat, NEW k \in Nat, NEW s
  PROVE  /\ Upgraded(from, from, s) = {s}
         /\ \A u : u \in Upgraded(from, from + (k + 1), s)
                   <=> \E t \in Upgraded(from, from + k, s) : u \in Up(from + (k + 1), t)
<1>1. Upgraded(from, from, s) = {s}
  <2>1. PICK f : Chain(f, from, from + 0, s) /\ Upgraded(from, from + 0, s) = f[from + 0]
    BY UpgradedIsChain
  <2>2. f[from] = {s}
    BY <2>1 DEF Chain
  <2> QED BY <2>1, <2>2
<1>2. PICK f : Chain(f, from, from + k, s) /\ Upgraded(from, from + k, s) = f[from + k]
  BY UpgradedIsChain
<1> DEFINE n == from + (k + 1)
<1>3. PICK g : Chain(g, from, n, s) /\ Upgraded(from, n, s) = g[n]
  BY UpgradedIsChain
<1>4. n \in from .. n /\ n # from /\ n - 1 = from + k
  OBVIOUS
<1>5. f[from + k] = g[from + k]
  BY <1>2, <1>3, ChainsAgree
<1> HIDE DEF n
<1>6. g[n] = UNION {Up(n, t) : t \in g[n - 1]}
  BY <1>3, <1>4 DEF Chain
<1>7. \A u : u \in Upgraded(from, n, s) <=> \E t \in Upgraded(from, from + k, s) : u \in Up(n, t)
  BY <1>2, <1>3, <1>4, <1>5, <1>6
<1> QED BY <1>1, <1>7 DEF n

LEMMA UpgradedStands ==
  ASSUME NEW from \in Nat, NEW k \in Nat, from + k <= Head, NEW s, Standing(from, s),
         NEW t \in Upgraded(from, from + k, s)
  PROVE  Standing(from + k, t)
<1> DEFINE T == {i \in Nat : from + i <= Head =>
                               \A u \in Upgraded(from, from + i, s) : Standing(from + i, u)}
<1>1. 0 \in T
  <2>1. from + 0 = from /\ Upgraded(from, from, s) = {s}
    BY UpgradedStep
  <2> QED BY <2>1
<1>2. ASSUME NEW i \in Nat, i \in T PROVE i + 1 \in T
  <2> DEFINE n == from + (i + 1)
  <2> SUFFICES ASSUME n <= Head, NEW u \in Upgraded(from, n, s) PROVE Standing(n, u)
    OBVIOUS
  <2>1. PICK v \in Upgraded(from, from + i, s) : u \in Up(n, v)
    BY UpgradedStep
  <2>2. n \in 1 .. Head /\ n - 1 = from + i /\ from + i <= Head
    BY DEF Head
  <2>3. Standing(n - 1, v)
    BY <1>2, <2>1, <2>2
  <2> HIDE DEF n
  <2> QED BY <2>1, <2>2, <2>3, UpStands
<1> HIDE DEF T
<1>3. k \in T
  BY <1>1, <1>2, Induction
<1> QED BY <1>3 DEF T

\* From a schema with an upgrade there is one to any later revision, and all of them
\* are such schemas.
LEMMA UpgradedPasses ==
  ASSUME NEW from \in Nat, NEW k \in Nat, from + k <= Head, NEW s, Passable(from, s)
  PROVE  /\ Upgraded(from, from + k, s) # {}
         /\ \A u \in Upgraded(from, from + k, s) : Passable(from + k, u)
<1> DEFINE T == {i \in Nat : from + i <= Head =>
                               /\ Upgraded(from, from + i, s) # {}
                               /\ \A u \in Upgraded(from, from + i, s) : Passable(from + i, u)}
<1>1. 0 \in T
  <2>1. from + 0 = from /\ Upgraded(from, from, s) = {s}
    BY UpgradedStep
  <2> QED BY <2>1
<1>2. ASSUME NEW i \in Nat, i \in T PROVE i + 1 \in T
  <2> DEFINE n == from + (i + 1)
  <2> SUFFICES ASSUME n <= Head
               PROVE  /\ Upgraded(from, n, s) # {}
                      /\ \A u \in Upgraded(from, n, s) : Passable(n, u)
    OBVIOUS
  <2>1. n \in 1 .. Head /\ n - 1 = from + i /\ from + i <= Head
    BY DEF Head
  <2>2. \A u : u \in Upgraded(from, n, s) <=> \E t \in Upgraded(from, n - 1, s) : u \in Up(n, t)
    BY <2>1, UpgradedStep
  <2>3. Upgraded(from, n - 1, s) # {} /\ \A t \in Upgraded(from, n - 1, s) : Passable(n - 1, t)
    BY <1>2, <2>1
  <2> HIDE DEF n
  <2>4. \A t \in Upgraded(from, n - 1, s) : Up(n, t) # {} /\ \A u \in Up(n, t) : Passable(n, u)
    BY <2>1, <2>3, UpExists, UpPasses
  <2> QED BY <2>2, <2>3, <2>4
<1> HIDE DEF T
<1>3. k \in T
  BY <1>1, <1>2, Induction
<1> QED BY <1>3 DEF T

LEMMA UpgradedNamed ==
  ASSUME NEW from \in Nat, NEW k \in Nat, from + k <= Head, NEW s, Named(from, s),
         NEW t \in Upgraded(from, from + k, s)
  PROVE  Named(from + k, t)
<1> DEFINE T == {i \in Nat : from + i <= Head =>
                               \A u \in Upgraded(from, from + i, s) : Named(from + i, u)}
<1>1. 0 \in T
  <2>1. from + 0 = from /\ Upgraded(from, from, s) = {s}
    BY UpgradedStep
  <2> QED BY <2>1
<1>2. ASSUME NEW i \in Nat, i \in T PROVE i + 1 \in T
  <2> DEFINE n == from + (i + 1)
  <2> SUFFICES ASSUME n <= Head, NEW u \in Upgraded(from, n, s) PROVE Named(n, u)
    OBVIOUS
  <2>1. PICK v \in Upgraded(from, from + i, s) : u \in Up(n, v)
    BY UpgradedStep
  <2>2. n \in 1 .. Head /\ n - 1 = from + i /\ from + i <= Head
    BY DEF Head
  <2>3. Named(n - 1, v)
    BY <1>2, <2>1, <2>2
  <2> HIDE DEF n
  <2> QED BY <2>1, <2>2, <2>3, UpKeepsNames
<1> HIDE DEF T
<1>3. k \in T
  BY <1>1, <1>2, Induction
<1> QED BY <1>3 DEF T

\* What is made of what was made is made by the longer chain.
LEMMA UpgradedComposes ==
  ASSUME NEW from \in Nat, NEW i \in Nat, NEW k \in Nat, NEW s,
         NEW u \in Upgraded(from, from + i, s), NEW t \in Upgraded(from + i, (from + i) + k, u)
  PROVE  t \in Upgraded(from, (from + i) + k, s)
<1> DEFINE T == {j \in Nat : Upgraded(from + i, (from + i) + j, u)
                               \subseteq Upgraded(from, (from + i) + j, s)}
<1>1. 0 \in T
  <2>1. (from + i) + 0 = from + i /\ Upgraded(from + i, from + i, u) = {u}
    BY UpgradedStep
  <2> QED BY <2>1
<1>2. ASSUME NEW j \in Nat, j \in T PROVE j + 1 \in T
  <2> DEFINE m == from + i
             n == m + (j + 1)
  <2>1. \A w \in Upgraded(m, n, u) : \E v \in Upgraded(m, m + j, u) : w \in Up(n, v)
    <3>1. m \in Nat
      OBVIOUS
    <3> HIDE DEF m
    <3> QED BY <3>1, UpgradedStep
  <2>2. \A v \in Upgraded(from, m + j, s) : Up(n, v) \subseteq Upgraded(from, n, s)
    <3> DEFINE h == i + j
    <3>1. n = from + (h + 1) /\ m + j = from + h /\ h \in Nat
      OBVIOUS
    <3> HIDE DEF m, n, h
    <3>2. \A v \in Upgraded(from, from + h, s) :
            Up(from + (h + 1), v) \subseteq Upgraded(from, from + (h + 1), s)
      BY <3>1, UpgradedStep
    <3> QED BY <3>1, <3>2
  <2>3. Upgraded(from + i, (from + i) + j, u) \subseteq Upgraded(from, (from + i) + j, s)
    BY <1>2
  <2> HIDE DEF n
  <2>4. Upgraded(m, n, u) \subseteq Upgraded(from, n, s)
    BY <2>1, <2>2, <2>3
  <2> QED BY <2>4 DEF n
<1> HIDE DEF T
<1>3. k \in T
  BY <1>1, <1>2, Induction
<1> QED BY <1>3 DEF T

LEMMA UpgradedRowsAside ==
  ASSUME NEW from \in Nat, NEW k \in Nat, NEW s, NEW t \in Upgraded(from, from + k, s)
  PROVE  t \ Rows \in Upgraded(from, from + k, s \ Rows)
<1> DEFINE a == s \ Rows
           T == {i \in Nat : \A u \in Upgraded(from, from + i, s) :
                               u \ Rows \in Upgraded(from, from + i, a)}
<1> HIDE DEF a
<1>1. 0 \in T
  <2>1. from + 0 = from /\ Upgraded(from, from, s) = {s} /\ Upgraded(from, from, a) = {a}
    BY UpgradedStep
  <2> QED BY <2>1 DEF a
<1>2. ASSUME NEW i \in Nat, i \in T PROVE i + 1 \in T
  <2> DEFINE n == from + (i + 1)
  <2> SUFFICES ASSUME NEW u \in Upgraded(from, n, s) PROVE u \ Rows \in Upgraded(from, n, a)
    OBVIOUS
  <2>1. PICK v \in Upgraded(from, from + i, s) : u \in Up(n, v)
    BY UpgradedStep
  <2>2. v \ Rows \in Upgraded(from, from + i, a)
    BY <1>2, <2>1
  <2>3. u \ Rows \in Up(n, v \ Rows)
    <3>1. n \in Nat
      OBVIOUS
    <3> HIDE DEF n
    <3> QED BY <2>1, <3>1, RowsAside
  <2> QED BY <2>2, <2>3, UpgradedStep
<1> HIDE DEF T
<1>3. k \in T
  BY <1>1, <1>2, Induction
<1> QED BY <1>3 DEF T, a

\* The same for downgrades, of which only the way down matters.
ChainDown(f, from, k, s) ==
  f = [i \in 0 .. k |-> IF i = 0 THEN {s} ELSE UNION {Down(from - i + 1, v) : v \in f[i - 1]}]

LEMMA ChainsDownExist ==
  ASSUME NEW from, NEW s
  PROVE  \A k \in Nat : \E f : ChainDown(f, from, k, s)
<1> DEFINE T == {k \in Nat : \E f : ChainDown(f, from, k, s)}
<1>1. 0 \in T
  <2>1. ChainDown([i \in 0 .. 0 |-> {s}], from, 0, s)
    BY DEF ChainDown
  <2> QED BY <2>1
<1>2. ASSUME NEW k \in Nat, k \in T PROVE k + 1 \in T
  <2>1. PICK f : ChainDown(f, from, k, s)
    BY <1>2
  <2> DEFINE g == [i \in 0 .. k + 1 |->
                     IF i = k + 1 THEN UNION {Down(from - i + 1, v) : v \in f[i - 1]} ELSE f[i]]
  <2>2. \A i \in 0 .. k + 1 : /\ i # k + 1 => g[i] = f[i]
                              /\ i # 0 => g[i - 1] = f[i - 1]
    OBVIOUS
  <2>3. ASSUME NEW i \in 0 .. k + 1
        PROVE  g[i] = IF i = 0 THEN {s} ELSE UNION {Down(from - i + 1, v) : v \in g[i - 1]}
    <3>1. CASE i = k + 1
      <4>1. i # 0 /\ g[i] = UNION {Down(from - i + 1, v) : v \in f[i - 1]}
        BY <3>1
      <4> QED BY <2>2, <4>1
    <3>2. CASE i # k + 1
      <4>1. i \in 0 .. k
        BY <3>2
      <4>2. f[i] = IF i = 0 THEN {s} ELSE UNION {Down(from - i + 1, v) : v \in f[i - 1]}
        BY <2>1, <4>1 DEF ChainDown
      <4> QED BY <2>2, <3>2, <4>2
    <3> QED BY <3>1, <3>2
  <2>4. ChainDown(g, from, k + 1, s)
    <3>1. g = [i \in 0 .. k + 1 |-> g[i]]
      OBVIOUS
    <3> HIDE DEF g
    <3> QED BY <2>3, <3>1, Zenon DEF ChainDown
  <2> QED BY <2>4
<1> HIDE DEF T
<1>3. \A k \in Nat : k \in T
  BY <1>1, <1>2, Induction
<1> QED BY <1>3 DEF T

LEMMA DowngradedStands ==
  ASSUME NEW from \in 0 .. Head, NEW to \in 0 .. Head, to < from, NEW s, Standing(from, s),
         NEW t \in Downgraded(from, to, s)
  PROVE  Standing(to, t)
<1>1. from - to \in Nat /\ from - (from - to) = to
  BY DEF Head
<1> DEFINE c == CHOOSE f : ChainDown(f, from, from - to, s)
<1>2. ChainDown(c, from, from - to, s)
  BY <1>1, ChainsDownExist
<1>3. t \in c[from - to]
  BY DEF Downgraded, ChainDown
<1> HIDE DEF c
<1>4. \A i \in 0 .. from - to :
        c[i] = IF i = 0 THEN {s} ELSE UNION {Down(from - i + 1, v) : v \in c[i - 1]}
  BY <1>2 DEF ChainDown
<1> DEFINE T == {k \in Nat : k <= from - to => \A v \in c[k] : Standing(from - k, v)}
<1>5. 0 \in T
  <2>1. 0 \in 0 .. from - to /\ from - 0 = from
    BY <1>1 DEF Head
  <2>2. c[0] = {s}
    BY <1>4, <2>1
  <2> QED BY <2>1, <2>2
<1>6. ASSUME NEW k \in Nat, k \in T PROVE k + 1 \in T
  <2> SUFFICES ASSUME k + 1 <= from - to, NEW v \in c[k + 1] PROVE Standing(from - (k + 1), v)
    OBVIOUS
  <2> DEFINE n == from - (k + 1) + 1
  <2>1. /\ k + 1 \in 0 .. from - to /\ k + 1 # 0 /\ (k + 1) - 1 = k /\ k <= from - to
        /\ n = from - k /\ n - 1 = from - (k + 1) /\ n \in 1 .. Head
    BY <1>1 DEF Head
  <2>2. c[k + 1] = UNION {Down(n, w) : w \in c[(k + 1) - 1]}
    BY <1>4, <2>1
  <2>3. PICK w \in c[k] : v \in Down(n, w)
    BY <2>1, <2>2
  <2>4. Standing(n, w)
    BY <1>6, <2>1, <2>3
  <2> HIDE DEF n
  <2> QED BY <2>1, <2>3, <2>4, DownStands
<1> HIDE DEF T
<1>7. from - to \in T
  BY <1>1, <1>5, <1>6, Induction
<1> QED BY <1>1, <1>3, <1>7 DEF T
----------------------------------------------------------------------------
(* The invariant.                                                          *)

\* Both kinds of database begin with a schema that every release can migrate.
LEMMA BasePassable == Passable(First, Base) /\ Named(First, Base)
<1>1. CASE legacy
  <2>1. FirstSchema = Tables(FirstTables) \cup {FullName, FirstName, UniqueUser}
    BY DEF FirstSchema, InitialRevision, When
  <2>2. \A f : f \in Base <=> \/ f \in Tables(FirstTables \ {"settlements"})
                              \/ f \in {FirstName, UniqueUser}
                              \/ f \in {Table("cities"), OldName, Seeds}
    BY <1>1, <2>1 DEF Base, OlderSchema, Without, Tables
  <2>3. Closed(Base)
    BY <2>2 DEF Closed, Tables, FirstTables
  <2>4. Clear(2, Base) /\ Renamed(2, Base)
    BY <2>2 DEF Clear, Renamed, Tables, FirstTables
  <2>5. Built(2, Base)
    BY <2>2 DEF Built
  <2>6. NoPlaces(2, Base) /\ ~Stuck(2, Base) /\ NamesKept(2, Base) /\ Named(2, Base)
    BY <2>2 DEF NoPlaces, Stuck, NamesKept, Named, Tables
  <2> QED BY <1>1, <2>3, <2>4, <2>5, <2>6 DEF Passable, Standing, First
<1>2. CASE ~legacy
  BY <1>2 DEF Base, First, Passable, Standing, Stuck, NoPlaces, NamesKept, Named, Closed, Clear,
                Built, Unrenamed
<1> QED BY <1>1, <1>2

LEMMA InitialInvariant == Init => IInv
<1> SUFFICES ASSUME Init PROVE IInv
  OBVIOUS
<1>1. TypeOK
  <2>1. Stopped \in Server
    BY BoundsAssumption DEF Stopped, Server, Head
  <2>2. rev \in 0 .. Head /\ release \in Releases /\ faults \in 0 .. MaxFaults
    BY BoundsAssumption DEF Init, Head
  <2> QED BY <2>1, <2>2 DEF Init, TypeOK
<1>2. Ahead
  BY ReleasesAssumption DEF Init, Ahead, Stopped
<1>3. Standing(rev, schema)
  BY BasePassable DEF Init, Base, First, Passable
<1>4. Forward
  BY DEF Init, Forward, First
<1>5. WholeRevisions
  <2>1. schema \ Rows = schema
    BY DEF Init, OlderSchema, FirstSchema, InitialRevision, When, Without, Tables, FirstTables
  <2>2. Upgraded(rev, rev, schema) = {schema}
    BY UpgradedStep DEF Init
  <2> QED BY <2>1, <2>2 DEF Init, WholeRevisions
<1> QED BY <1>1, <1>2, <1>3, <1>4, <1>5 DEF IInv

\* What an action owes the invariant when it leaves the schema and its version alone.
LEMMA SchemaLeft ==
  ASSUME IInv, UNCHANGED <<schema, rev, legacy, touched>>,
         release' \in Releases, release <= release',
         server' \in [Containers -> Server], faults' \in 0 .. MaxFaults,
         \A c \in Containers :
           \/ server'[c].doing \notin {"migrate", "serve"}
           \/ server'[c] = server[c]
           \/ server'[c].from = rev /\ server'[c].to = release /\ server'[c].doing = "migrate"
  PROVE  IInv'
<1>1. TypeOK'
  BY DEF IInv, TypeOK
<1>2. Ahead'
  <2>1. rev \in Nat /\ release \in Nat /\ release' \in Nat
    BY ReleasesAssumption DEF IInv, TypeOK, Head
  <2>2. rev' <= release'
    BY <2>1 DEF IInv, Ahead
  <2>3. ASSUME NEW c \in Containers
        PROVE  /\ server'[c].doing = "migrate" => /\ server'[c].from <= rev
                                                  /\ server'[c].from <= server'[c].to
                                                  /\ server'[c].to <= release'
               /\ server'[c].doing = "serve" => server'[c].to <= rev
    <3>1. server[c].to \in Nat /\ server'[c].to \in Nat
      BY DEF IInv, TypeOK, Server, Head
    <3> QED BY <2>1, <3>1 DEF IInv, Ahead
  <2> QED BY <2>2, <2>3 DEF Ahead
<1>3. (Standing(rev, schema))' /\ Forward' /\ WholeRevisions'
  BY DEF IInv, Standing, Forward, First, WholeRevisions
<1> QED BY <1>1, <1>2, <1>3 DEF IInv

LEMMA OneContainer ==
  ASSUME IInv, NEW c \in Containers, NEW r \in Server, server' = [server EXCEPT ![c] = r],
         \/ r.doing \notin {"migrate", "serve"}
         \/ r.from = rev /\ r.to = release /\ r.doing = "migrate",
         UNCHANGED <<schema, rev, release, legacy, touched>>, faults' \in 0 .. MaxFaults
  PROVE  IInv'
<1>1. server \in [Containers -> Server] /\ release \in Releases /\ release \in Nat
  BY ReleasesAssumption DEF IInv, TypeOK, Head
<1>2. server' \in [Containers -> Server]
  BY <1>1
<1>3. \A d \in Containers : server'[d] = IF d = c THEN r ELSE server[d]
  BY <1>1
<1>4. release' \in Releases /\ release <= release'
  BY <1>1
<1> QED BY <1>2, <1>3, <1>4, SchemaLeft

\* What an action owes it that changes the schema by hand.
LEMMA SchemaTouched ==
  ASSUME IInv, Standing(rev', schema'), rev' \in 0 .. Head, rev' <= release, touched',
         UNCHANGED <<release, server, faults, legacy>>, touched' \in BOOLEAN,
         rev' = rev \/ \A c \in Containers : Idle(c)
  PROVE  IInv'
<1>1. TypeOK'
  BY DEF IInv, TypeOK, Standing, Closed
<1>2. Ahead'
  BY DEF IInv, Ahead, Idle
<1>3. (Standing(rev, schema))' /\ Forward' /\ WholeRevisions'
  BY DEF Standing, Forward, WholeRevisions
<1> QED BY <1>1, <1>2, <1>3 DEF IInv

\* The facts that the application and a script add or drop.
LEMMA ByHand ==
  ASSUME NEW s, NEW u, NEW n \in 0 .. Head, Standing(n, s),
         \A f \in s : f # UniqueName => f \in u,
         \A f \in u \ s : f \in {UserRows, SchoolRows, RegionIndex, NaturalKey, SameNames},
         UserRows \in u \ s => Table("users") \in s,
         SchoolRows \in u \ s => Table("schools") \in s,
         RegionIndex \in u \ s => Table("regions") \in s,
         NaturalKey \in u \ s \/ SameNames \in u \ s => Table("settlements") \in s
  PROVE  Standing(n, u)
<1>1. Closed(u)
  <2>1. \A f \in u \ s : Table(f[1]) \in u
    OBVIOUS
  <2>2. \A f \in s \ u : f[2] # "table"
    OBVIOUS
  <2> QED BY <2>1, <2>2, ChangedFacts DEF Standing
<1>2. Clear(n, u) /\ (Stuck(n, s) <=> Stuck(n, u))
  BY DEF Clear, Stuck, Standing
<1>3. /\ (Built(n, s) => Built(n, u))
      /\ (Renamed(n, s) => Renamed(n, u))
      /\ (Unrenamed(s) => Unrenamed(u))
  BY DEF Built, Renamed, Unrenamed, Tables
<1> QED BY <1>1, <1>2, <1>3 DEF Standing

LEMMA CommitKeeps ==
  ASSUME IInv, NEW c \in Containers, Commit(c)
  PROVE  IInv'
<1> DEFINE from == server[c].from
           to == server[c].to
           k == to - from
<1>1. /\ from \in 0 .. Head /\ to \in 0 .. Head /\ from <= to /\ to <= release /\ from <= rev
      /\ rev \in 0 .. Head /\ release \in Nat /\ rev <= release
  BY ReleasesAssumption DEF Commit, IInv, TypeOK, Ahead, Server, Head
<1>2. k \in Nat /\ from + k = to /\ from \in Nat /\ to <= Head
  <2> HIDE DEF from, to
  <2> QED BY <1>1 DEF Head
<1>3. /\ schema' \in Upgraded(from, to, schema)
      /\ rev' = IF from = to THEN rev ELSE to
      /\ server' = [server EXCEPT ![c] = [@ EXCEPT !.doing = "serve"]]
      /\ UNCHANGED <<release, faults, legacy, touched>>
      /\ rev = from \/ from = to
  BY DEF Commit, Current, Results
<1>4. server \in [Containers -> Server]
  BY DEF IInv, TypeOK
<1>5. /\ server' \in [Containers -> Server]
      /\ \A d \in Containers : \/ server'[d] = server[d]
                               \/ d = c /\ server'[d].doing = "serve" /\ server'[d].to = to
  BY <1>3, <1>4 DEF Server
<1>6. CASE from = to
  <2>1. Upgraded(from, from, schema) = {schema}
    BY <1>2, UpgradedStep
  <2>2. schema' = schema /\ rev' = rev /\ to <= rev
    BY <1>1, <1>3, <1>6, <2>1
  <2>3. TypeOK'
    BY <1>3, <1>5, <2>2 DEF IInv, TypeOK
  <2>4. Ahead'
    BY <1>3, <1>5, <2>2 DEF IInv, Ahead
  <2>5. (Standing(rev, schema))' /\ Forward' /\ WholeRevisions'
    BY <1>3, <2>2 DEF IInv, Standing, Forward, First, WholeRevisions
  <2> QED BY <2>3, <2>4, <2>5 DEF IInv
<1>7. CASE from # to
  <2>1. rev = from /\ rev' = to /\ rev' >= rev
    BY <1>1, <1>3, <1>7
  <2> HIDE DEF from, to, k
  <2>2. Standing(to, schema')
    BY <1>2, <1>3, <2>1, UpgradedStands DEF IInv
  <2>3. TypeOK'
    BY <1>1, <1>3, <1>5, <2>1, <2>2 DEF IInv, TypeOK, Standing, Closed
  <2>4. Ahead'
    <3>1. rev' <= release'
      BY <1>1, <1>3, <2>1
    <3>2. ASSUME NEW d \in Containers
          PROVE  /\ server'[d].doing = "migrate" => /\ server'[d].from <= rev'
                                                    /\ server'[d].from <= server'[d].to
                                                    /\ server'[d].to <= release'
                 /\ server'[d].doing = "serve" => server'[d].to <= rev'
      <4>1. server[d].to \in Nat /\ server[d].from \in Nat
        BY <1>4 DEF Server, Head
      <4>2. CASE server'[d] = server[d]
        <5>1. /\ server[d].doing = "migrate" => /\ server[d].from <= rev
                                                /\ server[d].from <= server[d].to
                                                /\ server[d].to <= release
              /\ server[d].doing = "serve" => server[d].to <= rev
          BY DEF IInv, Ahead
        <5>2. rev \in Nat /\ rev' \in Nat /\ rev <= rev' /\ release' = release
          BY <1>1, <1>3, <2>1 DEF Head
        <5> QED BY <4>1, <4>2, <5>1, <5>2
      <4>3. CASE server'[d].doing = "serve" /\ server'[d].to = to
        BY <1>1, <2>1, <4>3
      <4> QED BY <1>5, <4>2, <4>3
    <3> QED BY <3>1, <3>2 DEF Ahead
  <2>5. (Standing(rev, schema))'
    BY <1>3, <2>1, <2>2 DEF Standing
  <2>6. Forward'
    BY <1>1, <1>3, <2>1 DEF IInv, Forward, First, Head
  <2>7. WholeRevisions'
    <3> SUFFICES ASSUME ~touched' PROVE schema' \ Rows \in Upgraded(First, to, Base)
      BY <1>3, <2>1 DEF WholeRevisions, First, Base
    <3> DEFINE i == from - First
               a == schema \ Rows
    <3>1. i \in Nat /\ First + i = from /\ First \in Nat
      BY <1>1, <1>3, <2>1 DEF IInv, Forward, First, Head
    <3>2. a \in Upgraded(First, from, Base)
      BY <1>3, <2>1 DEF IInv, WholeRevisions, First, Base
    <3> HIDE DEF i, a
    <3>3. schema' \ Rows \in Upgraded(from, from + k, a)
      BY <1>2, <1>3, UpgradedRowsAside DEF a
    <3> QED BY <1>2, <3>1, <3>2, <3>3, UpgradedComposes
  <2> QED BY <2>3, <2>4, <2>5, <2>6, <2>7 DEF IInv
<1> QED BY <1>6, <1>7

LEMMA Inductive == IInv /\ [Next]_vars => IInv'
<1> SUFFICES ASSUME IInv, [Next]_vars PROVE IInv'
  OBVIOUS
<1>1. /\ TypeOK /\ Standing(rev, schema) /\ release \in Nat /\ Releases \subseteq Nat
      /\ server \in [Containers -> Server] /\ faults \in 0 .. MaxFaults /\ MaxFaults \in Nat
      /\ 1 \in 0 .. MaxRetries /\ 0 \in 0 .. MaxRetries /\ rev \in 0 .. Head /\ rev <= release
      /\ release \in 0 .. Head
  BY ReleasesAssumption, BoundsAssumption DEF IInv, Ahead, TypeOK, Head
<1>2. Stopped \in Server /\ 0 \in 0 .. Head
  BY <1>1 DEF Stopped, Server, Head
<1>3. ASSUME NEW c \in Containers, Start(c) PROVE IInv'
  <2>1. PICK r : r = [Stopped EXCEPT !.doing = "retry", !.tries = 1]
    OBVIOUS
  <2>2. r \in Server /\ r.doing = "retry"
    BY <1>1, <1>2, <2>1 DEF Stopped, Server
  <2>3. /\ server' = [server EXCEPT ![c] = r]
        /\ UNCHANGED <<schema, rev, release, legacy, touched>> /\ faults' \in 0 .. MaxFaults
    BY <1>1, <1>3, <2>1 DEF Start
  <2> QED BY <2>2, <2>3, OneContainer
<1>4. ASSUME NEW c \in Containers, Begin(c) PROVE IInv'
  <2>1. PICK r : r = [server[c] EXCEPT !.doing = "migrate", !.from = rev, !.to = release]
    OBVIOUS
  <2>2. r \in Server /\ r.from = rev /\ r.to = release /\ r.doing = "migrate"
    BY <1>1, <2>1 DEF Server
  <2>3. /\ server' = [server EXCEPT ![c] = r]
        /\ UNCHANGED <<schema, rev, release, legacy, touched>> /\ faults' \in 0 .. MaxFaults
    BY <1>1, <1>4, <2>1 DEF Begin
  <2> QED BY <2>2, <2>3, OneContainer
<1>5. ASSUME NEW c \in Containers, Fails(c), faults' \in 0 .. MaxFaults PROVE IInv'
  <2> DEFINE r == IF MayRetry(c)
                    THEN [Stopped EXCEPT !.doing = "retry", !.tries = server[c].tries + 1]
                    ELSE [Stopped EXCEPT !.doing = "exited"]
  <2>1. r \in Server /\ r.doing \notin {"migrate", "serve"}
    <3>1. server[c].tries \in 0 .. MaxRetries /\ MaxRetries \in Nat
      BY <1>1, BoundsAssumption DEF Server
    <3>2. server[c].tries < MaxRetries => server[c].tries + 1 \in 0 .. MaxRetries
      BY <3>1
    <3> QED BY <1>2, <3>2 DEF Stopped, Server, MayRetry
  <2>2. server' = [server EXCEPT ![c] = r] /\ schema' = schema
        /\ UNCHANGED <<rev, release, legacy, touched>>
    BY <1>5 DEF Fails, RolledBack
  <2> HIDE DEF r
  <2> QED BY <1>5, <2>1, <2>2, OneContainer
<1>6. ASSUME NEW c \in Containers, Attempt(c) PROVE IInv'
  BY <1>1, <1>5, <1>6, CommitKeeps DEF Attempt
<1>7. ASSUME NEW c \in Containers, LostConnection(c) PROVE IInv'
  BY <1>1, <1>5, <1>7 DEF LostConnection
<1>8. ASSUME NEW c \in Containers, Kill(c) PROVE IInv'
  <2>1. Stopped.doing = "nothing"
    BY DEF Stopped
  <2>2. /\ server' = [server EXCEPT ![c] = Stopped]
        /\ UNCHANGED <<schema, rev, release, legacy, touched>> /\ faults' \in 0 .. MaxFaults
    BY <1>1, <1>8 DEF Kill
  <2> QED BY <1>2, <2>1, <2>2, OneContainer
<1>9. ASSUME NEW c \in Containers, Stop(c) PROVE IInv'
  <2>1. Stopped.doing = "nothing"
    BY DEF Stopped
  <2>2. /\ server' = [server EXCEPT ![c] = Stopped]
        /\ UNCHANGED <<schema, rev, release, legacy, touched>> /\ faults' \in 0 .. MaxFaults
    BY <1>1, <1>9 DEF Stop
  <2> QED BY <1>2, <2>1, <2>2, OneContainer
<1>10. ASSUME NEW h \in Releases, Deploy(h) PROVE IInv'
  BY <1>1, <1>10, SchemaLeft DEF Deploy
<1>11. CASE SignUp
  <2>1. Standing(rev, schema')
    BY <1>1, <1>11, ByHand DEF SignUp
  <2>2. TypeOK' /\ Ahead' /\ Forward'
    BY <1>11, <2>1 DEF SignUp, IInv, TypeOK, Ahead, Forward, First, Standing, Closed
  <2>3. (Standing(rev, schema))'
    BY <1>11, <2>1 DEF SignUp, Standing
  <2>4. WholeRevisions'
    <3>1. schema' \ Rows = schema \ Rows
      BY <1>11 DEF SignUp
    <3> QED BY <1>11, <3>1 DEF SignUp, IInv, WholeRevisions
  <2> QED BY <2>2, <2>3, <2>4 DEF IInv
<1>12. CASE AddSchools
  <2>1. Standing(rev, schema')
    BY <1>1, <1>12, ByHand DEF AddSchools
  <2>2. TypeOK' /\ Ahead' /\ Forward'
    BY <1>12, <2>1 DEF AddSchools, IInv, TypeOK, Ahead, Forward, First
  <2>3. (Standing(rev, schema))'
    BY <1>12, <2>1 DEF AddSchools, Standing
  <2>4. WholeRevisions'
    <3>1. schema' \ Rows = schema \ Rows
      BY <1>12 DEF AddSchools
    <3> QED BY <1>12, <3>1 DEF AddSchools, IInv, WholeRevisions
  <2> QED BY <2>2, <2>3, <2>4 DEF IInv
<1>13. CASE LoadPlaces
  <2>1. PlaceType \in schema => Table("settlements") \in schema
    BY <1>1 DEF Standing, Closed, Types
  <2>2. Standing(rev, schema')
    BY <1>1, <1>13, <2>1, ByHand DEF LoadPlaces
  <2> QED BY <1>1, <1>13, <2>2, SchemaTouched DEF LoadPlaces
<1>14. ASSUME NEW to \in 0 .. Head, Downgrade(to) PROVE IInv'
  <2>1. Standing(to, schema')
    BY <1>1, <1>14, DowngradedStands DEF Downgrade
  <2>2. to <= release
    BY <1>1, <1>14 DEF Downgrade, Head
  <2> QED BY <1>14, <2>1, <2>2, SchemaTouched DEF Downgrade
<1>15. CASE UNCHANGED vars
  <2>1. UNCHANGED <<schema, rev, release, server, faults, legacy, touched>>
    BY <1>15 DEF vars
  <2>2. release \in Releases /\ release <= release'
    BY <1>1, <2>1 DEF TypeOK
  <2> QED BY <1>1, <2>1, <2>2, SchemaLeft
<1> QED BY <1>3, <1>4, <1>6, <1>7, <1>8, <1>9, <1>10, <1>11, <1>12, <1>13, <1>14, <1>15 DEF Next

LEMMA InvariantHolds == Spec => []IInv
<1> QED BY InitialInvariant, Inductive, PTL DEF Spec

\* Versions and containers have their types, in every run of any number of containers,
\* of which each makes as many tries as it may.
THEOREM MigrationTypes == Spec => []TypeOK
BY InvariantHolds, PTL DEF IInv

\* Attempts that fail, are killed or overtake each other leave nothing of themselves in
\* the database: it is what the recorded revision makes of the first one.
THEOREM RevisionsAlwaysWhole == Spec => []WholeRevisions
BY InvariantHolds, PTL DEF IInv

\* What a container of the newest release lacks is nothing on a database that began with
\* the older names, and exactly the short name of schools on every other one, also after
\* downgrades, scripts run by hand and upgrades that meet each other.
THEOREM ServedAlwaysComplete == Spec => []ServedComplete
<1>1. IInv => ServedComplete
  <2> SUFFICES ASSUME IInv, NEW c \in Containers, server[c].doing = "serve", server[c].to = Head
               PROVE  Declared \ schema = IF legacy THEN {} ELSE {ShortName}
    BY DEF ServedComplete
  <2>1. rev = Head
    BY DEF IInv, Ahead, TypeOK, Head
  <2>2. Built(14, schema) /\ IF legacy THEN Renamed(14, schema) ELSE Unrenamed(schema)
    BY <2>1 DEF IInv, Standing, Stuck, Head
  <2>3. Declared \ {ShortName} \subseteq schema /\ ShortName \in Declared
    BY <2>2 DEF Built, Declared, Tables, FirstTables
  <2>4. ShortName \in schema <=> legacy
    BY <2>2 DEF Renamed, Unrenamed
  <2> QED BY <2>3, <2>4
<1> QED BY <1>1, InvariantHolds, PTL

\* No release is kept from migrating the database but by what a downgrade of the eighth
\* revision leaves, by the places that a script loaded before the fifth, or by schools
\* whose names the downgrade of the fourth dropped.
THEOREM AlwaysUpgradable == Spec => []NothingElseBlocks
<1>1. IInv => NothingElseBlocks
  <2> SUFFICES ASSUME IInv, Blocked
               PROVE  touched /\ (LeftoverType \/ LoadedEarly \/ NamesLost)
    BY DEF NothingElseBlocks
  <2>1. /\ rev \in Nat /\ release \in Nat /\ rev < release /\ release <= Head
        /\ release - rev \in Nat /\ rev + (release - rev) = release
    BY ReleasesAssumption DEF IInv, TypeOK, Blocked, Head
  <2>2. ~Passable(rev, schema)
    <3>1. Upgraded(rev, release, schema) = {}
      BY DEF Blocked
    <3> QED BY <2>1, <3>1, UpgradedPasses
  <2>3. LeftoverType \/ LoadedEarly \/ NamesLost
    BY <2>2 DEF Passable, IInv, LeftoverType, LoadedEarly, NamesLost, Stuck, NoPlaces, NamesKept
  <2>4. ASSUME ~touched PROVE FALSE
    <3> DEFINE s == schema \ Rows
    <3>1. s \in Upgraded(First, rev, Base) /\ First \in Nat /\ First <= rev
      BY <2>4 DEF IInv, WholeRevisions, Forward, First, Base
    <3>2. Passable(First, Base) /\ Named(First, Base)
      BY BasePassable
    <3>3. rev - First \in Nat /\ First + (rev - First) = rev /\ rev <= Head
      BY <2>1, <3>1 DEF IInv, TypeOK
    <3>4. Passable(rev, s) /\ Named(rev, s)
      <4> HIDE DEF s
      <4> QED BY <3>1, <3>2, <3>3, UpgradedPasses, UpgradedNamed
    <3>5. ~Stuck(rev, schema) /\ NoPlaces(rev, schema)
      BY <3>4 DEF Passable, Stuck, NoPlaces
    <3>6. NamesKept(rev, schema)
      <4>1. SchoolRows \in schema => Table("schools") \in schema
        BY DEF IInv, Standing, Closed, Types
      <4>2. \A f \in {Table("schools"), FullName, OldName} : f \in s <=> f \in schema
        OBVIOUS
      <4> HIDE DEF s
      <4> QED BY <3>4, <4>1, <4>2 DEF Named, NamesKept
    <3>7. Passable(rev, schema)
      BY <3>5, <3>6 DEF Passable, IInv
    <3> QED BY <2>2, <3>7
  <2> QED BY <2>3, <2>4
<1> QED BY <1>1, InvariantHolds, PTL
=============================================================================
