--------------------------- MODULE CatalogProofs ---------------------------
(***************************************************************************)
(* Proofs about Catalog: types, references and positions, for any number   *)
(* of rows, identifiers and overlapping requests.                          *)
(***************************************************************************)
EXTENDS Catalog, TLAPS

(***************************************************************************)
(* The step that writes is one of ten; every other step only reads.        *)
(***************************************************************************)
Writes ==
  \/ \E c \in Cats, name \in Names, parent \in Cats \cup {Null} : CreateCategory(c, name, parent)
  \/ \E x \in Txns : \/ CommitUpdateCategory(x)
                     \/ CommitDeleteCategory(x)
                     \/ \E q \in Questions : CommitCreateQuestion(x, q)
                     \/ CommitUpdateQuestion(x)
                     \/ CommitDeleteTestQuestion(x)
                     \/ CommitUpdateTest(x)
                     \/ CommitDeleteTest(x)
  \/ \E q \in Questions : DeleteQuestion(q)
  \/ \E t \in Tests, ids \in Lists, p \in Patches : CreateTest(t, ids, p)

tables == <<cat, question, test, rows>>

\* A step that writes nothing leaves the tables alone: reads and failures.
LEMMA ReadOrWrite ==
  ASSUME Next PROVE Writes \/ UNCHANGED tables
BY DEF Next, CategoryRequest, QuestionRequest, TestRequest, Writes, tables,
   BeginUpdateCategory, BeginDeleteCategory, BeginCreateQuestion, BeginCreateTestQuestion,
   BeginCreate, Descend, LookAtTest, LookAtQuestion, BeginUpdateQuestion,
   BeginUpdateTestQuestion, BeginUpdate, BeginDeleteTestQuestion, BeginUpdateTest,
   BeginDeleteTest, Fail

\* The local variables of a request, by the operation it carries out.
LEMMA Locals ==
  ASSUME TypeOK, NEW x \in Txns, NEW op, At(x, op)
  PROVE  /\ op = "update category" =>
              /\ txn[x].cat \in Cats /\ txn[x].name \in Names \cup {Unset}
              /\ txn[x].parent \in Cats \cup {Unset} /\ txn[x].seen \in Category
         /\ op = "delete category" =>
              /\ txn[x].cat \in Cats /\ txn[x].questions \in SUBSET Questions
              /\ txn[x].children \in SUBSET Cats
         /\ op = "create question" =>
              /\ txn[x].test \in Tests \cup {Null} /\ txn[x].at \in Cats \cup {Null}
              /\ txn[x].todo \in Seq(Names) /\ txn[x].last \in Nat \cup {Unset}
         /\ op = "update question" =>
              /\ txn[x].question \in Questions /\ txn[x].at \in Cats \cup {Null}
              /\ txn[x].todo \in Seq(Names) /\ txn[x].seen \in Cats \cup {Null, Unset}
         /\ op = "delete test question" =>
              txn[x].test \in Tests /\ txn[x].question \in Questions
         /\ op = "update test" =>
              txn[x].test \in Tests /\ txn[x].patch \in Patch /\ txn[x].seen \in Test
         /\ op = "delete test" =>
              txn[x].test \in Tests /\ txn[x].rows \in SUBSET Row
<1>1. txn[x] \in Transaction
  BY DEF TypeOK, At
<1>2. txn[x].op = op
  BY DEF At
<1> QED
  BY <1>1, <1>2 DEF Transaction

\* Categories made from a path are rows like any other.
LEMMA CreatedType ==
  ASSUME cat \in [Cats -> Category \cup {New, Gone}],
         NEW at \in Cats \cup {Null}, NEW todo \in Seq(Names),
         NEW made \in [1 .. Len(todo) -> Cats]
  PROVE  Created(at, todo, made) \in [Cats -> Category \cup {New, Gone}]
<1> SUFFICES ASSUME NEW c \in Cats PROVE Created(at, todo, made)[c] \in Category \cup {New, Gone}
  BY DEF Created
<1>1. CASE \E i \in DOMAIN made : made[i] = c
  <2> DEFINE i == CHOOSE j \in DOMAIN made : made[j] = c
  <2>1. i \in 1 .. Len(todo)
    BY <1>1
  <2>2. todo[i] \in Names
    BY <2>1
  <2>3. (IF i = 1 THEN at ELSE made[i - 1]) \in Cats \cup {Null}
    BY <2>1
  <2>4. Created(at, todo, made)[c] = [name |-> todo[i], parent |-> IF i = 1 THEN at ELSE made[i - 1]]
    BY <1>1 DEF Created
  <2> QED
    BY <2>2, <2>3, <2>4 DEF Category
<1>2. CASE ~\E i \in DOMAIN made : made[i] = c
  BY <1>2 DEF Created
<1> QED
  BY <1>1, <1>2

\* Positions given to a list of questions after a last position.
LEMMA AddedType ==
  ASSUME NEW t \in Tests, NEW ids \in Seq(Questions), NEW last \in Nat
  PROVE  /\ AddQuestions(t, ids, last) \in SUBSET Row
         /\ \A r \in AddQuestions(t, ids, last) :
              r.test = t /\ \E i \in DOMAIN ids : r.question = ids[i] /\ r.position = last + i
BY DEF AddQuestions, Row

\* Where a question comes to be: the last category of the path, or the given one.
LEMMA HomeType ==
  ASSUME NEW at \in Cats \cup {Null}, NEW todo \in Seq(Names),
         NEW made \in [1 .. Len(todo) -> Cats]
  PROVE  /\ Home(at, made) \in Cats \cup {Null}
         /\ Home(at, made) \in {made[i] : i \in DOMAIN made} \cup {at}
         /\ made = <<>> => Home(at, made) = at
<1>1. made \in Seq(Cats) /\ Len(made) = Len(todo)
  OBVIOUS
<1> QED
  BY <1>1 DEF Home
----------------------------------------------------------------------------
(* Types.                                                                  *)

LEMMA EndType ==
  ASSUME TypeOK, NEW x \in Txns, End(x)
  PROVE  txn' \in [Txns -> Transaction \cup {Idle}]
BY DEF TypeOK, End

LEMMA BeginType ==
  ASSUME TypeOK, NEW x \in Txns, NEW locals \in Transaction, Begin(x, locals)
  PROVE  txn' \in [Txns -> Transaction \cup {Idle}]
BY DEF TypeOK, Begin

LEMMA PlaceType ==
  ASSUME NEW place \in Places \cup {[at |-> Null, todo |-> <<>>]}
  PROVE  place.at \in Cats \cup {Null} /\ place.todo \in Seq(Names)
<1>1. CASE place \in {[at |-> c, todo |-> <<>>] : c \in CatRows \cup {Null}}
  <2>1. PICK c \in CatRows \cup {Null} : place = [at |-> c, todo |-> <<>>]
    BY <1>1
  <2>2. c \in Cats \cup {Null} /\ <<>> \in Seq(Names)
    BY DEF CatRows
  <2> QED
    BY <2>1, <2>2
<1>2. CASE place \in {[at |-> Null, todo |-> path] : path \in Paths}
  <2>1. PICK path \in Paths : place = [at |-> Null, todo |-> path]
    BY <1>2
  <2>2. path \in Seq(Names)
    BY PathsAssumption
  <2> QED
    BY <2>1, <2>2
<1> QED
  BY <1>1, <1>2 DEF Places

\* Each handler reads values of the right types into its local variables.
LEMMA ReadType ==
  ASSUME TypeOK, Next
  PROVE  txn' \in [Txns -> Transaction \cup {Idle}]
<1>1. ASSUME NEW x \in Txns, End(x) PROVE txn' \in [Txns -> Transaction \cup {Idle}]
  BY <1>1, EndType
<1>2. ASSUME NEW x \in Txns, NEW c \in Cats, NEW name \in Names \cup {Unset},
             NEW parent \in Cats \cup {Unset}, BeginUpdateCategory(x, c, name, parent)
      PROVE  txn' \in [Txns -> Transaction \cup {Idle}]
  <2>1. cat[c] \in Category
    BY <1>2 DEF BeginUpdateCategory, TypeOK, CatRows
  <2>2. [op |-> "update category", cat |-> c, name |-> name, parent |-> parent,
         seen |-> cat[c]] \in Transaction
    BY <2>1 DEF Transaction
  <2> QED
    BY <1>2, <2>2, BeginType DEF BeginUpdateCategory
<1>3. ASSUME NEW x \in Txns, NEW c \in Cats, BeginDeleteCategory(x, c)
      PROVE  txn' \in [Txns -> Transaction \cup {Idle}]
  <2>1. [op |-> "delete category", cat |-> c,
         questions |-> {q \in QuestionRows : question[q] = c},
         children  |-> {d \in CatRows \ {c} : cat[d].parent = c}] \in Transaction
    BY DEF Transaction, QuestionRows, CatRows
  <2> QED
    BY <1>3, <2>1, BeginType DEF BeginDeleteCategory
<1>4. ASSUME NEW x \in Txns, NEW t \in Tests \cup {Null}, NEW place \in Places,
             BeginCreate(x, t, place)
      PROVE  txn' \in [Txns -> Transaction \cup {Idle}]
  <2>1. place.at \in Cats \cup {Null} /\ place.todo \in Seq(Names)
    BY PlaceType
  <2>2. [op |-> "create question", test |-> t, at |-> place.at,
         todo |-> place.todo, last |-> Unset] \in Transaction
    BY <2>1 DEF Transaction
  <2> QED
    BY <1>4, <2>2, BeginType DEF BeginCreate
<1>5. ASSUME NEW x \in Txns, NEW q \in Questions, BeginUpdate(x, q)
      PROVE  txn' \in [Txns -> Transaction \cup {Idle}]
  <2>1. PICK place \in Places \cup {[at |-> Null, todo |-> <<>>]} :
          Begin(x, [op |-> "update question", question |-> q, at |-> place.at,
                    todo |-> place.todo, seen |-> Unset])
    BY <1>5 DEF BeginUpdate
  <2>2. place.at \in Cats \cup {Null} /\ place.todo \in Seq(Names)
    BY PlaceType
  <2>3. [op |-> "update question", question |-> q, at |-> place.at,
         todo |-> place.todo, seen |-> Unset] \in Transaction
    BY <2>2 DEF Transaction
  <2> QED
    BY <2>1, <2>3, BeginType
<1>6. ASSUME NEW x \in Txns, Descend(x) PROVE txn' \in [Txns -> Transaction \cup {Idle}]
  <2>1. PICK c \in CatRows : txn' = [txn EXCEPT ![x].at = c, ![x].todo = Tail(@)]
    BY <1>6 DEF Descend
  <2>2. c \in Cats
    BY DEF CatRows
  <2>3. txn[x].todo \in Seq(Names) /\ txn[x].todo # <<>>
    BY <1>6, Locals DEF Descend
  <2>4. Tail(txn[x].todo) \in Seq(Names)
    BY <2>3
  <2>5. [[txn[x] EXCEPT !.at = c] EXCEPT !.todo = Tail(txn[x].todo)] \in Transaction
    <3>1. CASE At(x, "create question")
      <4>1. txn[x] \in [op : {"create question"}, test : Tests \cup {Null}, at : Cats \cup {Null},
                        todo : Seq(Names), last : Nat \cup {Unset}]
        BY <3>1 DEF TypeOK, At, Transaction
      <4> QED
        BY <2>2, <2>4, <4>1 DEF Transaction
    <3>2. CASE At(x, "update question")
      <4>1. txn[x] \in [op : {"update question"}, question : Questions, at : Cats \cup {Null},
                        todo : Seq(Names), seen : Cats \cup {Null, Unset}]
        BY <3>2 DEF TypeOK, At, Transaction
      <4> QED
        BY <2>2, <2>4, <4>1 DEF Transaction
    <3> QED
      BY <1>6, <3>1, <3>2 DEF Descend
  <2>6. txn' = [txn EXCEPT ![x] = [[txn[x] EXCEPT !.at = c] EXCEPT !.todo = Tail(txn[x].todo)]]
    BY <2>1 DEF TypeOK
  <2> QED
    BY <2>5, <2>6 DEF TypeOK
<1>7. ASSUME NEW x \in Txns, LookAtTest(x) PROVE txn' \in [Txns -> Transaction \cup {Idle}]
  <2>1. PICK last \in {0} \cup {r.position : r \in rows} : txn' = [txn EXCEPT ![x].last = last]
    BY <1>7 DEF LookAtTest
  <2>2. last \in Nat
    BY DEF TypeOK, Row
  <2>3. txn[x] \in [op : {"create question"}, test : Tests \cup {Null}, at : Cats \cup {Null},
                    todo : Seq(Names), last : Nat \cup {Unset}]
    BY <1>7 DEF LookAtTest, TypeOK, At, Transaction
  <2>4. [txn[x] EXCEPT !.last = last] \in Transaction
    BY <2>2, <2>3 DEF Transaction
  <2> QED
    BY <2>1, <2>4 DEF TypeOK
<1>8. ASSUME NEW x \in Txns, LookAtQuestion(x) PROVE txn' \in [Txns -> Transaction \cup {Idle}]
  <2>1. question[txn[x].question] \in Cats \cup {Null}
    BY <1>8 DEF LookAtQuestion, QuestionRows, TypeOK
  <2>2. txn[x] \in [op : {"update question"}, question : Questions, at : Cats \cup {Null},
                    todo : Seq(Names), seen : Cats \cup {Null, Unset}]
    BY <1>8 DEF LookAtQuestion, TypeOK, At, Transaction
  <2>3. [txn[x] EXCEPT !.seen = question[txn[x].question]] \in Transaction
    BY <2>1, <2>2 DEF Transaction
  <2> QED
    BY <1>8, <2>3 DEF LookAtQuestion, TypeOK
<1>9. ASSUME NEW x \in Txns, NEW t \in Tests, NEW q \in Questions,
             BeginDeleteTestQuestion(x, t, q)
      PROVE  txn' \in [Txns -> Transaction \cup {Idle}]
  <2>1. [op |-> "delete test question", test |-> t, question |-> q] \in Transaction
    BY DEF Transaction
  <2> QED
    BY <1>9, <2>1, BeginType DEF BeginDeleteTestQuestion
<1>10. ASSUME NEW x \in Txns, NEW t \in Tests, NEW p \in Patches, BeginUpdateTest(x, t, p)
       PROVE  txn' \in [Txns -> Transaction \cup {Idle}]
  <2>1. test[t] \in Test /\ p \in Patch
    BY <1>10, PatchesAssumption DEF BeginUpdateTest, TypeOK, TestRows
  <2>2. [op |-> "update test", test |-> t, patch |-> p, seen |-> test[t]] \in Transaction
    BY <2>1 DEF Transaction
  <2> QED
    BY <1>10, <2>2, BeginType DEF BeginUpdateTest
<1>11. ASSUME NEW x \in Txns, NEW t \in Tests, BeginDeleteTest(x, t)
       PROVE  txn' \in [Txns -> Transaction \cup {Idle}]
  <2>1. [op |-> "delete test", test |-> t, rows |-> {r \in rows : r.test = t}] \in Transaction
    BY DEF Transaction, TypeOK
  <2> QED
    BY <1>11, <2>1, BeginType DEF BeginDeleteTest
<1>12. CASE \E x \in Txns : End(x)
  BY <1>1, <1>12
<1>13. CASE txn' = txn
  BY <1>13 DEF TypeOK
<1> QED
  BY <1>2, <1>3, <1>4, <1>5, <1>6, <1>7, <1>8, <1>9, <1>10, <1>11, <1>12, <1>13
     DEF Next, CategoryRequest, QuestionRequest, TestRequest, CreateCategory,
         CommitUpdateCategory, CommitDeleteCategory, BeginCreateQuestion,
         BeginCreateTestQuestion, TestRows, CommitCreateQuestion, BeginUpdateQuestion,
         BeginUpdateTestQuestion, CommitUpdateQuestion, DeleteQuestion,
         CommitDeleteTestQuestion, CreateTest, CommitUpdateTest, CommitDeleteTest, Fail

\* Each of the ten writes puts rows of the right type into the tables.
LEMMA WriteType ==
  ASSUME TypeOK, Next
  PROVE  /\ cat' \in [Cats -> Category \cup {New, Gone}]
         /\ question' \in [Questions -> Cats \cup {Null, New, Gone}]
         /\ test' \in [Tests -> Test \cup {New, Gone}]
         /\ rows' \in SUBSET Row
<1> DEFINE Typed == /\ cat' \in [Cats -> Category \cup {New, Gone}]
                    /\ question' \in [Questions -> Cats \cup {Null, New, Gone}]
                    /\ test' \in [Tests -> Test \cup {New, Gone}]
                    /\ rows' \in SUBSET Row
<1>1. ASSUME NEW c \in Cats, NEW name \in Names, NEW parent \in Cats \cup {Null},
             CreateCategory(c, name, parent)
      PROVE  Typed
  BY <1>1 DEF CreateCategory, TypeOK, Category
<1>2. ASSUME NEW x \in Txns, CommitUpdateCategory(x) PROVE Typed
  <2> DEFINE c      == txn[x].cat
             name   == Flushed(txn[x].name, txn[x].seen.name, cat[c].name)
             parent == Flushed(txn[x].parent, txn[x].seen.parent, cat[c].parent)
  <2>1. /\ c \in CatRows /\ parent \in CatRows \cup {Null}
        /\ cat' = [cat EXCEPT ![c] = [name |-> name, parent |-> parent]]
        /\ UNCHANGED <<question, test, rows>>
    BY <1>2 DEF CommitUpdateCategory
  <2>2. txn[x].name \in Names \cup {Unset} /\ c \in Cats
    BY <1>2, Locals DEF CommitUpdateCategory
  <2>3. cat[c] \in Category
    BY <2>1 DEF CatRows, TypeOK
  <2>4. name \in Names
    BY <2>2, <2>3 DEF Flushed, Category
  <2>5. [name |-> name, parent |-> parent] \in Category
    BY <2>1, <2>4 DEF Category, CatRows
  <2> QED
    BY <2>1, <2>2, <2>5 DEF TypeOK
<1>3. ASSUME NEW x \in Txns, CommitDeleteCategory(x) PROVE Typed
  <2>1. \A d \in CatRows : [cat[d] EXCEPT !.parent = Null] \in Category
    BY DEF CatRows, TypeOK, Category
  <2>2. cat' \in [Cats -> Category \cup {New, Gone}]
    BY <1>3, <2>1 DEF CommitDeleteCategory, TypeOK
  <2> QED
    BY <1>3, <2>2 DEF CommitDeleteCategory, TypeOK
<1>4. ASSUME NEW x \in Txns, NEW q \in Questions, CommitCreateQuestion(x, q) PROVE Typed
  <2>1. PICK made \in [1 .. Len(txn[x].todo) -> Cats] :
          /\ cat' = Created(txn[x].at, txn[x].todo, made)
          /\ question' = [question EXCEPT ![q] = Home(txn[x].at, made)]
    BY <1>4 DEF CommitCreateQuestion
  <2>2. /\ txn[x].test \in Tests \cup {Null} /\ txn[x].at \in Cats \cup {Null}
        /\ txn[x].todo \in Seq(Names) /\ txn[x].last \in Nat \cup {Unset}
    BY <1>4, Locals DEF CommitCreateQuestion
  <2>3. cat' \in [Cats -> Category \cup {New, Gone}]
    BY <2>1, <2>2, CreatedType DEF TypeOK
  <2>4. Home(txn[x].at, made) \in Cats \cup {Null}
    BY <2>2, HomeType
  <2>5. rows' \in SUBSET Row
    <3>1. CASE rows' = rows
      BY <3>1 DEF TypeOK
    <3>2. CASE /\ txn[x].test \in TestRows /\ txn[x].last # Unset
               /\ rows' = rows \cup AddQuestions(txn[x].test, <<q>>, txn[x].last)
      <4>1. txn[x].test \in Tests /\ txn[x].last \in Nat /\ <<q>> \in Seq(Questions)
        BY <2>2, <3>2 DEF TestRows
      <4>2. AddQuestions(txn[x].test, <<q>>, txn[x].last) \in SUBSET Row
        BY <4>1, AddedType
      <4> QED
        BY <3>2, <4>2 DEF TypeOK
    <3> QED
      BY <1>4, <3>1, <3>2 DEF CommitCreateQuestion
  <2>6. test' = test
    BY <1>4 DEF CommitCreateQuestion
  <2> QED
    BY <2>1, <2>3, <2>4, <2>5, <2>6 DEF TypeOK
<1>5. ASSUME NEW x \in Txns, CommitUpdateQuestion(x) PROVE Typed
  <2> DEFINE q == txn[x].question
  <2>1. PICK made \in [1 .. Len(txn[x].todo) -> Cats] :
          /\ cat' = Created(txn[x].at, txn[x].todo, made)
          /\ question' = [question EXCEPT ![q] =
                            Flushed(Home(txn[x].at, made), txn[x].seen, question[q])]
    BY <1>5 DEF CommitUpdateQuestion
  <2>2. /\ txn[x].at \in Cats \cup {Null} /\ txn[x].todo \in Seq(Names)
        /\ q \in QuestionRows
    BY <1>5, Locals DEF CommitUpdateQuestion
  <2>3. cat' \in [Cats -> Category \cup {New, Gone}]
    BY <2>1, <2>2, CreatedType DEF TypeOK
  <2>4. Home(txn[x].at, made) \in Cats \cup {Null}
    BY <2>2, HomeType
  <2>5. Flushed(Home(txn[x].at, made), txn[x].seen, question[q]) \in Cats \cup {Null}
    BY <2>2, <2>4 DEF Flushed, QuestionRows, TypeOK
  <2>6. test' = test /\ rows' = rows
    BY <1>5 DEF CommitUpdateQuestion
  <2> QED
    BY <2>1, <2>3, <2>5, <2>6 DEF TypeOK
<1>6. ASSUME NEW q \in Questions, DeleteQuestion(q) PROVE Typed
  BY <1>6 DEF DeleteQuestion, TypeOK
<1>7. ASSUME NEW x \in Txns, CommitDeleteTestQuestion(x) PROVE Typed
  BY <1>7 DEF CommitDeleteTestQuestion, TypeOK
<1>8. ASSUME NEW t \in Tests, NEW ids \in Lists, NEW p \in Patches, CreateTest(t, ids, p)
      PROVE  Typed
  <2>1. p \in Patch /\ ids \in Seq(Questions)
    BY PatchesAssumption, ListsAssumption
  <2> DEFINE given(v) == IF v = Unset THEN Null ELSE v
  <2>2. [required |-> given(p.required), start |-> given(p.start), end |-> given(p.end)] \in Test
    BY <2>1 DEF Patch, Test
  <2>3. test' \in [Tests -> Test \cup {New, Gone}]
    BY <1>8, <2>2 DEF CreateTest, TypeOK
  <2>4. AddQuestions(t, ids, 0) \in SUBSET Row
    BY <2>1, AddedType
  <2> QED
    BY <1>8, <2>3, <2>4 DEF CreateTest, TypeOK
<1>9. ASSUME NEW x \in Txns, CommitUpdateTest(x) PROVE Typed
  <2> DEFINE t == txn[x].test
             new(f) == Flushed(txn[x].patch[f], txn[x].seen[f], test[t][f])
  <2>1. /\ t \in TestRows
        /\ test' = [test EXCEPT ![t] = [required |-> new("required"), start |-> new("start"),
                                        end |-> new("end")]]
    BY <1>9 DEF CommitUpdateTest
  <2>2. txn[x].patch \in Patch /\ t \in Tests /\ test[t] \in Test
    BY <1>9, <2>1, Locals DEF CommitUpdateTest, TestRows, TypeOK
  <2>3. /\ new("required") \in Nat \cup {Null}
        /\ new("start") \in Int \cup {Null}
        /\ new("end") \in Int \cup {Null}
    BY <2>2 DEF Flushed, Patch, Test
  <2>4. test' \in [Tests -> Test \cup {New, Gone}]
    BY <2>1, <2>2, <2>3 DEF Test, TypeOK
  <2> QED
    BY <1>9, <2>4 DEF CommitUpdateTest, TypeOK
<1>10. ASSUME NEW x \in Txns, CommitDeleteTest(x) PROVE Typed
  BY <1>10 DEF CommitDeleteTest, TypeOK
<1>11. CASE UNCHANGED tables
  BY <1>11 DEF TypeOK, tables
<1> QED
  BY <1>1, <1>2, <1>3, <1>4, <1>5, <1>6, <1>7, <1>8, <1>9, <1>10, <1>11, ReadOrWrite DEF Writes

LEMMA TypeStep ==
  ASSUME TypeOK, [Next]_vars PROVE TypeOK'
<1>1. CASE Next
  BY <1>1, ReadType, WriteType DEF TypeOK
<1>2. CASE UNCHANGED vars
  BY <1>2 DEF TypeOK, vars
<1> QED
  BY <1>1, <1>2

\* Every table and every local copy keeps its type, with any number of requests.
THEOREM CatalogTypes == Spec => []TypeOK
<1>1. Init => TypeOK
  BY DEF Init, TypeOK
<1> QED
  BY <1>1, TypeStep, PTL DEF Spec
----------------------------------------------------------------------------
(* References.                                                             *)

\* An identifier names a row when the table has a record for it.
LEMMA RowsAre ==
  ASSUME TypeOK
  PROVE  /\ CatRows = {c \in Cats : cat[c] \in Category}
         /\ QuestionRows = {q \in Questions : question[q] \in Cats \cup {Null}}
         /\ TestRows = {t \in Tests : test[t] \in Test}
BY MarkersAssumption DEF TypeOK, CatRows, QuestionRows, TestRows

CatReferences == \A c \in CatRows : cat[c].parent \in CatRows \cup {Null}
QuestionReferences == \A q \in QuestionRows : question[q] \in CatRows \cup {Null}
RowReferences == \A r \in rows : r.test \in TestRows /\ r.question \in QuestionRows

\* A path adds the categories it makes, each with a parent that exists.
LEMMA CreatedReferences ==
  ASSUME TypeOK, TypeOK', CatReferences,
         NEW at, at \in CatRows \cup {Null},
         NEW todo \in Seq(Names), NEW made \in [1 .. Len(todo) -> Cats],
         Creatable(todo, made), cat' = Created(at, todo, made)
  PROVE  /\ CatRows' = CatRows \cup {made[i] : i \in DOMAIN made}
         /\ CatReferences'
<1>1. \A i \in DOMAIN made : made[i] \notin CatRows /\ cat'[made[i]] =
         [name |-> todo[i], parent |-> IF i = 1 THEN at ELSE made[i - 1]]
  <2> SUFFICES ASSUME NEW i \in DOMAIN made
               PROVE  /\ made[i] \notin CatRows
                      /\ cat'[made[i]] = [name |-> todo[i], parent |-> IF i = 1 THEN at ELSE made[i - 1]]
    OBVIOUS
  <2>1. made[i] \notin CatRows
    BY DEF Creatable, CatRows
  <2> DEFINE k == CHOOSE j \in DOMAIN made : made[j] = made[i]
  <2>2. k \in DOMAIN made /\ made[k] = made[i]
    OBVIOUS
  <2>3. k = i
    BY <2>2 DEF Creatable, Injective
  <2>4. cat'[made[i]] = [name |-> todo[k], parent |-> IF k = 1 THEN at ELSE made[k - 1]]
    BY DEF Created
  <2> QED
    BY <2>1, <2>3, <2>4
<1>2. \A i \in DOMAIN made : cat'[made[i]] \in Category
  <2> SUFFICES ASSUME NEW i \in DOMAIN made PROVE cat'[made[i]] \in Category
    OBVIOUS
  <2>1. i \in 1 .. Len(todo) /\ todo[i] \in Names
    OBVIOUS
  <2>2. (IF i = 1 THEN at ELSE made[i - 1]) \in Cats \cup {Null}
    BY <2>1 DEF CatRows
  <2> DEFINE parent == IF i = 1 THEN at ELSE made[i - 1]
  <2>3. cat'[made[i]] = [name |-> todo[i], parent |-> parent]
    BY <1>1
  <2> HIDE DEF parent
  <2> QED
    BY <2>1, <2>2, <2>3 DEF Category, parent
<1>3. \A c \in Cats : (~\E i \in DOMAIN made : made[i] = c) => cat'[c] = cat[c]
  BY DEF Created
<1>4. CatRows' = CatRows \cup {made[i] : i \in DOMAIN made}
  <2>1. CatRows' = {c \in Cats : cat'[c] \in Category}
    BY RowsAre, MarkersAssumption DEF TypeOK, CatRows
  <2>2. CatRows = {c \in Cats : cat[c] \in Category}
    BY RowsAre
  <2> QED
    BY <1>1, <1>2, <1>3, <2>1, <2>2
<1>5. ASSUME NEW c \in CatRows' PROVE cat'[c].parent \in CatRows' \cup {Null}
  <2>1. CASE \E i \in DOMAIN made : made[i] = c
    <3>1. PICK i \in DOMAIN made : made[i] = c
      BY <2>1
    <3> DEFINE parent == IF i = 1 THEN at ELSE made[i - 1]
    <3>2. cat'[c] = [name |-> todo[i], parent |-> parent]
      BY <1>1, <3>1
    <3>3. cat'[c].parent = parent
      <4> HIDE DEF parent
      <4> QED
        BY <3>2
    <3>4. i # 1 => i - 1 \in DOMAIN made
      BY <3>1
    <3> QED
      BY <1>4, <3>3, <3>4
  <2>2. CASE ~\E i \in DOMAIN made : made[i] = c
    BY <1>3, <1>4, <2>2 DEF CatReferences, CatRows
  <2> QED
    BY <2>1, <2>2
<1> QED
  BY <1>4, <1>5 DEF CatReferences

\* No write leaves a reference dangling: what it deletes nothing refers to, and
\* what it inserts refers to rows that exist.
LEMMA ReferenceStep ==
  ASSUME TypeOK, TypeOK', ReferencesExist, [Next]_vars PROVE ReferencesExist'
<1> USE DEF ReferencesExist
<1>1. ASSUME NEW c \in Cats, NEW name \in Names, NEW parent \in Cats \cup {Null},
             CreateCategory(c, name, parent)
      PROVE  ReferencesExist'
  <2>1. cat[c] = New /\ parent \in CatRows \cup {Null}
        /\ cat' = [cat EXCEPT ![c] = [name |-> name, parent |-> parent]]
        /\ UNCHANGED <<question, test, rows>>
    BY <1>1 DEF CreateCategory
  <2>2. c \notin CatRows
    BY <2>1 DEF CatRows
  <2>3. [name |-> name, parent |-> parent] \in Category
    BY DEF Category
  <2>4. CatRows' = CatRows \cup {c}
    BY <2>1, <2>3, MarkersAssumption DEF CatRows, TypeOK
  <2>5. \A d \in CatRows' : cat'[d].parent \in CatRows \cup {Null}
    BY <2>1, <2>2, <2>4 DEF CatRows, TypeOK
  <2>6. QuestionRows' = QuestionRows /\ TestRows' = TestRows
    BY <2>1 DEF QuestionRows, TestRows
  <2> QED
    BY <2>1, <2>4, <2>5, <2>6
<1>2. ASSUME NEW x \in Txns, CommitUpdateCategory(x) PROVE ReferencesExist'
  <2> DEFINE c      == txn[x].cat
             name   == Flushed(txn[x].name, txn[x].seen.name, cat[c].name)
             parent == Flushed(txn[x].parent, txn[x].seen.parent, cat[c].parent)
  <2>1. /\ c \in CatRows /\ parent \in CatRows \cup {Null}
        /\ cat' = [cat EXCEPT ![c] = [name |-> name, parent |-> parent]]
        /\ UNCHANGED <<question, test, rows>>
    BY <1>2 DEF CommitUpdateCategory
  <2>2. cat'[c] = [name |-> name, parent |-> parent] /\ c \in Cats
        /\ \A d \in Cats \ {c} : cat'[d] = cat[d]
    BY <2>1 DEF TypeOK, CatRows
  <2>3. cat'[c] \in Category
    <3>1. txn[x].name \in Names \cup {Unset} /\ cat[c] \in Category
      BY <1>2, <2>1, Locals, RowsAre DEF CommitUpdateCategory
    <3>2. name \in Names
      BY <3>1 DEF Flushed, Category
    <3> QED
      BY <2>1, <2>2, <3>2 DEF Category, CatRows
  <2>4. CatRows' = CatRows
    BY <2>1, <2>2, <2>3, MarkersAssumption DEF CatRows
  <2>5. QuestionRows' = QuestionRows /\ TestRows' = TestRows
    BY <2>1 DEF QuestionRows, TestRows
  <2>6. \A d \in CatRows : cat'[d].parent \in CatRows \cup {Null}
    BY <2>1, <2>2 DEF CatRows
  <2> QED
    BY <2>1, <2>4, <2>5, <2>6
<1>3. ASSUME NEW x \in Txns, CommitDeleteCategory(x) PROVE ReferencesExist'
  <2> DEFINE c    == txn[x].cat
             qs   == txn[x].questions
             kids == txn[x].children
  <2>1. /\ \A q \in qs : ~Used(q, rows)
        /\ Unreferenced(c, qs, kids)
        /\ cat' = [d \in Cats |-> IF d = c THEN Gone
                                  ELSE IF d \in kids \cap CatRows
                                  THEN [cat[d] EXCEPT !.parent = Null] ELSE cat[d]]
        /\ question' = [q \in Questions |-> IF q \in qs THEN Gone ELSE question[q]]
        /\ UNCHANGED <<test, rows>>
    BY <1>3 DEF CommitDeleteCategory
  <2>2. \A d \in CatRows : [cat[d] EXCEPT !.parent = Null] \in Category
                         /\ [cat[d] EXCEPT !.parent = Null].parent = Null
    BY RowsAre DEF Category
  <2>3. CatRows' = CatRows \ {c}
    BY <2>1, <2>2, MarkersAssumption DEF CatRows
  <2>4. QuestionRows' = QuestionRows \ qs
    BY <2>1 DEF QuestionRows
  <2>5. TestRows' = TestRows
    BY <2>1 DEF TestRows
  <2>6. ASSUME NEW d \in CatRows' PROVE cat'[d].parent \in CatRows' \cup {Null}
    <3>1. d \in CatRows /\ d # c /\ d \in Cats
      BY <2>3 DEF CatRows
    <3>2. CASE d \in kids
      BY <2>1, <2>2, <3>1, <3>2
    <3>3. CASE d \notin kids
      <4>1. cat'[d] = cat[d] /\ cat[d].parent # c
        BY <2>1, <3>1, <3>3 DEF Unreferenced
      <4> QED
        BY <2>3, <3>1, <4>1
    <3> QED
      BY <3>2, <3>3
  <2>7. ASSUME NEW q \in QuestionRows' PROVE question'[q] \in CatRows' \cup {Null}
    <3>1. q \in QuestionRows \ qs /\ question'[q] = question[q]
      BY <2>1, <2>4 DEF QuestionRows
    <3>2. question[q] # c
      BY <2>1, <3>1 DEF Unreferenced
    <3> QED
      BY <2>3, <3>1, <3>2
  <2>8. \A r \in rows' : r.test \in TestRows' /\ r.question \in QuestionRows'
    BY <2>1, <2>4, <2>5 DEF Used
  <2> QED
    BY <2>6, <2>7, <2>8
<1>4. ASSUME NEW x \in Txns, NEW q \in Questions, CommitCreateQuestion(x, q)
      PROVE  ReferencesExist'
  <2>1. PICK made \in [1 .. Len(txn[x].todo) -> Cats] :
          /\ Creatable(txn[x].todo, made)
          /\ txn[x].at \in CatRows \cup {Null}
          /\ cat' = Created(txn[x].at, txn[x].todo, made)
          /\ question' = [question EXCEPT ![q] = Home(txn[x].at, made)]
    BY <1>4 DEF CommitCreateQuestion
  <2>2. /\ txn[x].test \in Tests \cup {Null} /\ txn[x].at \in Cats \cup {Null}
        /\ txn[x].todo \in Seq(Names) /\ txn[x].last \in Nat \cup {Unset}
    BY <1>4, Locals DEF CommitCreateQuestion
  <2>3. CatRows' = CatRows \cup {made[i] : i \in DOMAIN made} /\ CatReferences'
    BY <2>1, <2>2, CreatedReferences DEF CatReferences
  <2>4. Home(txn[x].at, made) \in CatRows' \cup {Null}
    BY <2>1, <2>2, <2>3, HomeType
  <2>5. question[q] = New /\ q \notin QuestionRows /\ test' = test
    BY <1>4 DEF CommitCreateQuestion, QuestionRows
  <2>6. QuestionRows' = QuestionRows \cup {q}
    <3>1. Home(txn[x].at, made) \in Cats \cup {Null}
      BY <2>2, HomeType
    <3> QED
      BY <2>1, <3>1, MarkersAssumption DEF QuestionRows, TypeOK
  <2>7. \A p \in QuestionRows' : question'[p] \in CatRows' \cup {Null}
    BY <2>1, <2>3, <2>4, <2>6 DEF TypeOK, QuestionRows
  <2>8. TestRows' = TestRows
    BY <2>5 DEF TestRows
  <2>9. \A r \in rows' : r.test \in TestRows' /\ r.question \in QuestionRows'
    <3>1. CASE rows' = rows
      BY <2>6, <2>8, <3>1
    <3>2. CASE /\ txn[x].test \in TestRows /\ txn[x].last # Unset
               /\ rows' = rows \cup AddQuestions(txn[x].test, <<q>>, txn[x].last)
      <4>1. \A r \in AddQuestions(txn[x].test, <<q>>, txn[x].last) :
               r.test = txn[x].test /\ r.question = q
        BY DEF AddQuestions
      <4> QED
        BY <2>6, <2>8, <3>2, <4>1
    <3> QED
      BY <1>4, <3>1, <3>2 DEF CommitCreateQuestion
  <2> QED
    BY <2>3, <2>7, <2>9 DEF CatReferences
<1>5. ASSUME NEW x \in Txns, CommitUpdateQuestion(x) PROVE ReferencesExist'
  <2> DEFINE q == txn[x].question
  <2>1. PICK made \in [1 .. Len(txn[x].todo) -> Cats] :
          /\ Creatable(txn[x].todo, made)
          /\ made # <<>> => txn[x].at \in CatRows \cup {Null}
          /\ Flushed(Home(txn[x].at, made), txn[x].seen, question[q])
               \in CatRows \cup {Null} \cup {made[i] : i \in DOMAIN made}
          /\ cat' = Created(txn[x].at, txn[x].todo, made)
          /\ question' = [question EXCEPT ![q] =
                            Flushed(Home(txn[x].at, made), txn[x].seen, question[q])]
    BY <1>5 DEF CommitUpdateQuestion
  <2>2. /\ txn[x].todo \in Seq(Names) /\ q \in QuestionRows /\ test' = test /\ rows' = rows
    BY <1>5, Locals DEF CommitUpdateQuestion
  <2>3. CatRows' = CatRows \cup {made[i] : i \in DOMAIN made} /\ CatReferences'
    <3>1. CASE made # <<>>
      BY <2>1, <2>2, <3>1, CreatedReferences DEF CatReferences
    <3>2. CASE made = <<>>
      <4>1. cat' = cat
        BY <2>1, <3>2 DEF Created, TypeOK
      <4>2. CatRows' = CatRows
        BY <4>1 DEF CatRows
      <4> QED
        BY <3>2, <4>1, <4>2 DEF CatReferences
    <3> QED
      BY <3>1, <3>2
  <2>4. q \in Questions /\ question'[q] \in CatRows' \cup {Null}
        /\ \A p \in Questions \ {q} : question'[p] = question[p]
    BY <2>1, <2>2, <2>3 DEF TypeOK, QuestionRows
  <2>5. QuestionRows' = QuestionRows
    <3>1. question'[q] \in Cats \cup {Null}
      BY <2>4 DEF CatRows
    <3> QED
      BY <2>2, <2>4, <3>1, MarkersAssumption DEF QuestionRows
  <2>6. TestRows' = TestRows
    BY <2>2 DEF TestRows
  <2>7. \A p \in QuestionRows' : question'[p] \in CatRows' \cup {Null}
    BY <2>3, <2>4, <2>5 DEF QuestionRows
  <2> QED
    BY <2>2, <2>3, <2>5, <2>6, <2>7 DEF CatReferences
<1>6. ASSUME NEW q \in Questions, DeleteQuestion(q) PROVE ReferencesExist'
  <2>1. /\ ~Used(q, rows) /\ question' = [question EXCEPT ![q] = Gone]
        /\ UNCHANGED <<cat, test, rows>>
    BY <1>6 DEF DeleteQuestion
  <2>2. QuestionRows' = QuestionRows \ {q}
    BY <2>1 DEF QuestionRows, TypeOK
  <2>3. CatRows' = CatRows /\ TestRows' = TestRows
    BY <2>1 DEF CatRows, TestRows
  <2> QED
    BY <2>1, <2>2, <2>3 DEF Used, TypeOK, QuestionRows
<1>7. ASSUME NEW x \in Txns, CommitDeleteTestQuestion(x) PROVE ReferencesExist'
  <2> DEFINE q == txn[x].question
  <2>1. /\ ~Used(q, rows') /\ question' = [question EXCEPT ![q] = Gone]
        /\ rows' \subseteq rows /\ UNCHANGED <<cat, test>>
    BY <1>7 DEF CommitDeleteTestQuestion
  <2>2. QuestionRows' = QuestionRows \ {q}
    BY <2>1 DEF QuestionRows, TypeOK
  <2>3. CatRows' = CatRows /\ TestRows' = TestRows
    BY <2>1 DEF CatRows, TestRows
  <2>4. \A r \in rows' : r.test \in TestRows' /\ r.question \in QuestionRows'
    BY <2>1, <2>2, <2>3 DEF Used
  <2> QED
    BY <2>1, <2>2, <2>3, <2>4 DEF TypeOK, QuestionRows
<1>8. ASSUME NEW t \in Tests, NEW ids \in Lists, NEW p \in Patches, CreateTest(t, ids, p)
      PROVE  ReferencesExist'
  <2>1. /\ \A i \in DOMAIN ids : ids[i] \in QuestionRows
        /\ rows' = rows \cup AddQuestions(t, ids, 0)
        /\ UNCHANGED <<cat, question>>
        /\ \A u \in Tests \ {t} : test'[u] = test[u]
    BY <1>8 DEF CreateTest, TypeOK
  <2>2. test'[t] \in Test /\ t \in TestRows'
    <3>1. test'[t] = [required |-> test'[t].required, start |-> test'[t].start, end |-> test'[t].end]
      BY <1>8 DEF CreateTest, TypeOK
    <3>2. p \in Patch
      BY PatchesAssumption
    <3>3. test'[t] \in Test
      BY <1>8, <3>2 DEF CreateTest, TypeOK, Patch, Test
    <3> QED
      BY <3>3, MarkersAssumption DEF TestRows
  <2>3. TestRows \cup {t} = TestRows'
    BY <2>1, <2>2 DEF TestRows
  <2>4. CatRows' = CatRows /\ QuestionRows' = QuestionRows
    BY <2>1 DEF CatRows, QuestionRows
  <2>5. \A r \in AddQuestions(t, ids, 0) : r.test = t /\ r.question \in QuestionRows
    BY <2>1 DEF AddQuestions
  <2> QED
    BY <2>1, <2>3, <2>4, <2>5
<1>9. ASSUME NEW x \in Txns, CommitUpdateTest(x) PROVE ReferencesExist'
  <2>1. /\ txn[x].test \in TestRows /\ txn[x].test \in Tests
        /\ \A u \in Tests \ {txn[x].test} : test'[u] = test[u]
        /\ test'[txn[x].test] \notin {New, Gone}
    <3>1. txn[x].test \in TestRows /\ txn[x].patch \in Patch /\ test[txn[x].test] \in Test
          /\ txn[x].test \in Tests
      BY <1>9, Locals, RowsAre DEF CommitUpdateTest
    <3> DEFINE new(f) == Flushed(txn[x].patch[f], txn[x].seen[f], test[txn[x].test][f])
    <3>2. test' = [test EXCEPT ![txn[x].test] =
                     [required |-> new("required"), start |-> new("start"), end |-> new("end")]]
      BY <1>9 DEF CommitUpdateTest
    <3>3. /\ new("required") \in Nat \cup {Null}
          /\ new("start") \in Int \cup {Null}
          /\ new("end") \in Int \cup {Null}
      BY <3>1 DEF Flushed, Patch, Test
    <3>4. test'[txn[x].test] \in Test
      BY <3>1, <3>2, <3>3 DEF Test, TypeOK
    <3> QED
      BY <3>1, <3>2, <3>4, MarkersAssumption DEF TypeOK
  <2>2. TestRows' = TestRows
    BY <2>1 DEF TestRows
  <2>3. UNCHANGED <<cat, question, rows>>
    BY <1>9 DEF CommitUpdateTest
  <2>4. CatRows' = CatRows /\ QuestionRows' = QuestionRows
    BY <2>3 DEF CatRows, QuestionRows
  <2> QED
    BY <2>2, <2>3, <2>4
<1>10. ASSUME NEW x \in Txns, CommitDeleteTest(x) PROVE ReferencesExist'
  <2>1. /\ rows' \subseteq rows /\ \A r \in rows' : r.test # txn[x].test
        /\ test' = [test EXCEPT ![txn[x].test] = Gone]
        /\ UNCHANGED <<cat, question>>
    BY <1>10 DEF CommitDeleteTest
  <2>2. CatRows' = CatRows /\ QuestionRows' = QuestionRows
    BY <2>1 DEF CatRows, QuestionRows
  <2>3. TestRows \ {txn[x].test} \subseteq TestRows'
    BY <2>1 DEF TestRows, TypeOK
  <2> QED
    BY <2>1, <2>2, <2>3
<1>11. CASE UNCHANGED tables
  BY <1>11 DEF tables, CatRows, QuestionRows, TestRows
<1>12. CASE UNCHANGED vars
  BY <1>11, <1>12 DEF vars, tables
<1> QED
  BY <1>1, <1>2, <1>3, <1>4, <1>5, <1>6, <1>7, <1>8, <1>9, <1>10, <1>11, <1>12, ReadOrWrite
     DEF Writes

\* However requests overlap, nothing refers to a row that is gone.
THEOREM ReferencesAlwaysExist == Spec => []ReferencesExist
<1>1. Init => TypeOK /\ ReferencesExist
  BY DEF Init, TypeOK, ReferencesExist, CatRows, QuestionRows
<1>2. TypeOK /\ ReferencesExist /\ [Next]_vars => (TypeOK /\ ReferencesExist)'
  BY TypeStep, ReferenceStep
<1> QED
  BY <1>1, <1>2, PTL DEF Spec
----------------------------------------------------------------------------
(* The questions of a test.                                                *)

\* Rows are only added by two writes; the others leave a subset.
LEMMA RowsAddedBy ==
  ASSUME [Next]_vars
  PROVE  \/ rows' \subseteq rows
         \/ \E x \in Txns, q \in Questions : CommitCreateQuestion(x, q)
         \/ \E t \in Tests, ids \in Lists, p \in Patches : CreateTest(t, ids, p)
BY ReadOrWrite DEF Writes, tables, vars, CreateCategory, CommitUpdateCategory,
   CommitDeleteCategory, CommitUpdateQuestion, CommitDeleteTestQuestion, CommitUpdateTest,
   CommitDeleteTest, DeleteQuestion

LEMMA PositionStep ==
  ASSUME TypeOK, ReferencesExist, PositionsDistinct, [Next]_vars PROVE PositionsDistinct'
<1>1. CASE rows' \subseteq rows
  BY <1>1 DEF PositionsDistinct
<1>2. ASSUME NEW x \in Txns, NEW q \in Questions, CommitCreateQuestion(x, q)
      PROVE  PositionsDistinct'
  <2> DEFINE new == AddQuestions(txn[x].test, <<q>>, txn[x].last)
  <2>1. CASE rows' = rows
    BY <2>1 DEF PositionsDistinct
  <2>2. CASE (\A r \in new : Fits(r, rows)) /\ rows' = rows \cup new
    <3>1. new = {[test |-> txn[x].test, question |-> q, position |-> txn[x].last + 1]}
      BY DEF AddQuestions
    <3>2. \A r, s \in new : r = s
      BY <3>1
    <3>3. \A r \in new, s \in rows :
             r.test = s.test => r.question # s.question /\ r.position # s.position
      BY <2>2 DEF Fits
    <3> QED
      BY <2>2, <3>2, <3>3 DEF PositionsDistinct
  <2> QED
    BY <1>2, <2>1, <2>2 DEF CommitCreateQuestion
<1>3. ASSUME NEW t \in Tests, NEW ids \in Lists, NEW p \in Patches, CreateTest(t, ids, p)
      PROVE  PositionsDistinct'
  <2> DEFINE new == AddQuestions(t, ids, 0)
  <2>1. rows' = rows \cup new /\ Injective(ids) /\ test[t] = New
    BY <1>3 DEF CreateTest
  <2>2. t \notin TestRows
    BY <2>1 DEF TestRows
  <2>3. ids \in Seq(Questions)
    BY ListsAssumption
  <2>4. \A r \in new : r.test = t /\ \E i \in DOMAIN ids : r.question = ids[i] /\ r.position = 0 + i
    BY <2>3, AddedType
  <2>5. \A r \in new, s \in rows : r.test # s.test
    BY <2>2, <2>4 DEF ReferencesExist
  <2>6. ASSUME NEW r \in new, NEW s \in new, r.question = s.question \/ r.position = s.position
        PROVE  r = s
    <3>1. PICK i \in DOMAIN ids : r = [test |-> t, question |-> ids[i], position |-> 0 + i]
      BY DEF AddQuestions
    <3>2. PICK j \in DOMAIN ids : s = [test |-> t, question |-> ids[j], position |-> 0 + j]
      BY DEF AddQuestions
    <3>3. i \in Nat /\ j \in Nat
      BY <2>3
    <3>4. i = j
      BY <2>1, <2>6, <3>1, <3>2, <3>3 DEF Injective
    <3> QED
      BY <3>1, <3>2, <3>4
  <2> QED
    BY <2>1, <2>5, <2>6 DEF PositionsDistinct
<1> QED
  BY <1>1, <1>2, <1>3, RowsAddedBy

\* In a test, a question has one position and a position one question.
THEOREM PositionsAlwaysDistinct == Spec => []PositionsDistinct
<1>1. Init => TypeOK /\ ReferencesExist /\ PositionsDistinct
  BY DEF Init, TypeOK, ReferencesExist, CatRows, QuestionRows, PositionsDistinct
<1>2. TypeOK /\ ReferencesExist /\ PositionsDistinct /\ [Next]_vars
        => (TypeOK /\ ReferencesExist /\ PositionsDistinct)'
  BY TypeStep, ReferenceStep, PositionStep
<1> QED
  BY <1>1, <1>2, PTL DEF Spec

(***************************************************************************)
(* What a request that deletes a test will take along are rows of the      *)
(* test: the only thing to know about a local variable.                    *)
(***************************************************************************)
OwnRows == \A x \in Txns : At(x, "delete test") => \A r \in txn[x].rows : r.test = txn[x].test

\* A request has the operation it begins with until it ends.
LEMMA OwnRowsStep ==
  ASSUME TypeOK, OwnRows, [Next]_vars PROVE OwnRows'
<1> SUFFICES ASSUME NEW x \in Txns, At(x, "delete test")', NEW r \in txn'[x].rows
             PROVE  r.test = txn'[x].test
  BY DEF OwnRows
<1>1. CASE txn'[x] = txn[x]
  BY <1>1 DEF OwnRows, At
<1>2. CASE \E y \in Txns, t \in Tests : BeginDeleteTest(y, t)
  <2>1. PICK y \in Txns, t \in Tests : BeginDeleteTest(y, t)
    BY <1>2
  <2>2. CASE x = y
    BY <2>1, <2>2 DEF BeginDeleteTest, Begin, TypeOK
  <2>3. CASE x # y
    BY <1>1, <2>1, <2>3 DEF BeginDeleteTest, Begin, TypeOK
  <2> QED
    BY <2>2, <2>3
<1>3. ASSUME NEW y \in Txns, NEW locals, locals.op # "delete test", Begin(y, locals)
      PROVE  txn'[x] = txn[x]
  BY <1>3 DEF Begin, TypeOK, At
<1>4. ASSUME NEW y \in Txns, End(y) PROVE txn'[x] = txn[x]
  BY <1>4 DEF End, TypeOK, At
<1>5. ASSUME NEW y \in Txns, Descend(y) \/ LookAtTest(y) \/ LookAtQuestion(y)
      PROVE  txn'[x] = txn[x]
  <2>1. CASE x = y
    <3>1. txn[x].op # "delete test"
      BY <1>5, <2>1 DEF Descend, LookAtTest, LookAtQuestion, At
    <3>2. txn'[x].op = txn[x].op
      <4>1. txn[x] \in Transaction
        BY <1>5, <2>1 DEF Descend, LookAtTest, LookAtQuestion, At, TypeOK
      <4>2. CASE Descend(y)
        <5>1. PICK c \in CatRows : txn' = [txn EXCEPT ![y].at = c, ![y].todo = Tail(@)]
          BY <4>2 DEF Descend
        <5>2. txn'[x] = [[txn[x] EXCEPT !.at = c] EXCEPT !.todo = Tail(txn[x].todo)]
          BY <2>1, <5>1 DEF TypeOK
        <5> QED
          BY <4>1, <5>2 DEF Transaction
      <4>3. CASE LookAtTest(y)
        <5>1. PICK last \in {0} \cup {s.position : s \in rows} :
                txn' = [txn EXCEPT ![y].last = last]
          BY <4>3 DEF LookAtTest
        <5>2. txn'[x] = [txn[x] EXCEPT !.last = last]
          BY <2>1, <5>1 DEF TypeOK
        <5> QED
          BY <4>1, <5>2 DEF Transaction
      <4>4. CASE LookAtQuestion(y)
        <5>1. txn'[x] = [txn[x] EXCEPT !.seen = question[txn[x].question]]
          BY <2>1, <4>4 DEF LookAtQuestion, TypeOK
        <5> QED
          BY <4>1, <5>1 DEF Transaction
      <4> QED
        BY <1>5, <4>2, <4>3, <4>4
    <3> QED
      BY <3>1, <3>2 DEF At
  <2>2. CASE x # y
    BY <1>5, <2>2 DEF Descend, LookAtTest, LookAtQuestion, TypeOK
  <2> QED
    BY <2>1, <2>2
<1>6. CASE UNCHANGED txn
  BY <1>1, <1>6
<1>7. CASE \E y \in Txns : End(y)
  BY <1>1, <1>4, <1>7
<1>8. CASE \E y \in Txns : Descend(y) \/ LookAtTest(y) \/ LookAtQuestion(y)
  BY <1>1, <1>5, <1>8
<1>9. CASE \E y \in Txns : \E locals : locals.op # "delete test" /\ Begin(y, locals)
  BY <1>1, <1>3, <1>9
<1> QED
  BY <1>2, <1>6, <1>7, <1>8, <1>9
     DEF vars, Next, CategoryRequest, QuestionRequest, TestRequest, CreateCategory,
         BeginUpdateCategory, CommitUpdateCategory, BeginDeleteCategory, CommitDeleteCategory,
         BeginCreateQuestion, BeginCreateTestQuestion, BeginCreate, CommitCreateQuestion,
         BeginUpdateQuestion, BeginUpdateTestQuestion, BeginUpdate, CommitUpdateQuestion,
         DeleteQuestion, BeginDeleteTestQuestion, CommitDeleteTestQuestion, CreateTest,
         BeginUpdateTest, CommitUpdateTest, CommitDeleteTest, Fail
StayStep ==
  \A r \in rows \ rows' :
    \/ r.test \notin TestRows'
    \/ /\ r.question \notin QuestionRows'
       /\ \A s \in rows : s.question = r.question => s = r

\* A step that takes a row away deletes its test, or its question and no other row.
LEMMA RowsLeave ==
  ASSUME TypeOK, ReferencesExist, PositionsDistinct, OwnRows, [Next]_vars PROVE StayStep
<1>1. ASSUME NEW x \in Txns, CommitDeleteTestQuestion(x) PROVE StayStep
  <2> DEFINE q == txn[x].question
  <2>1. /\ rows' = rows \ RemovedQuestion(txn[x].test, q) /\ ~Used(q, rows')
        /\ question' = [question EXCEPT ![q] = Gone]
    BY <1>1 DEF CommitDeleteTestQuestion
  <2>2. \A r \in rows \ rows' : r.question = q /\ r.test = txn[x].test
    BY <2>1 DEF RemovedQuestion
  <2>3. q \notin QuestionRows'
    BY <2>1 DEF QuestionRows, TypeOK
  <2>4. \A s \in rows : s.question = q => s.test = txn[x].test
    BY <2>1, <2>2 DEF Used
  <2> QED
    BY <2>2, <2>3, <2>4 DEF StayStep, PositionsDistinct
<1>2. ASSUME NEW x \in Txns, CommitDeleteTest(x) PROVE StayStep
  <2>1. \A r \in rows \ rows' : r.test = txn[x].test
    BY <1>2 DEF CommitDeleteTest, OwnRows
  <2>2. txn[x].test \notin TestRows'
    BY <1>2 DEF CommitDeleteTest, TestRows, TypeOK
  <2> QED
    BY <2>1, <2>2 DEF StayStep
<1>3. CASE rows \subseteq rows'
  BY <1>3 DEF StayStep
<1> QED
  BY <1>1, <1>2, <1>3, ReadOrWrite
     DEF Writes, tables, vars, CreateCategory, CommitUpdateCategory, CommitDeleteCategory,
         CommitCreateQuestion, CommitUpdateQuestion, CommitUpdateTest, DeleteQuestion, CreateTest

FieldStep ==
  \A t \in TestRows \cap TestRows' : \A f \in DOMAIN test[t] :
    test'[t][f] # test[t][f] =>
      \E x \in Txns : /\ At(x, "update test")
                      /\ txn[x].test = t
                      /\ txn[x].patch[f] = test'[t][f]

\* Only an update changes the fields of a test, and only those it was sent.
LEMMA FieldsChange ==
  ASSUME TypeOK, [Next]_vars PROVE FieldStep
<1>1. ASSUME NEW x \in Txns, CommitUpdateTest(x) PROVE FieldStep
  <2> DEFINE u == txn[x].test
             new(f) == Flushed(txn[x].patch[f], txn[x].seen[f], test[u][f])
  <2>1. /\ u \in TestRows /\ u \in Tests
        /\ test' = [test EXCEPT ![u] = [required |-> new("required"), start |-> new("start"),
                                        end |-> new("end")]]
    BY <1>1, Locals DEF CommitUpdateTest
  <2>2. test[u] \in Test
    BY <2>1, RowsAre
  <2>3. \A f \in DOMAIN test[u] : test'[u][f] = new(f)
    BY <2>1, <2>2 DEF Test, TypeOK
  <2>4. \A f \in DOMAIN test[u] : test'[u][f] # test[u][f] => txn[x].patch[f] = test'[u][f]
    BY <2>3 DEF Flushed
  <2>5. \A t \in TestRows : t # u => test'[t] = test[t]
    BY <2>1 DEF TestRows, TypeOK
  <2>6. At(x, "update test")
    BY <1>1 DEF CommitUpdateTest
  <2> QED
    BY <2>4, <2>5, <2>6 DEF FieldStep
<1>2. CASE \A t \in TestRows \cap TestRows' : test'[t] = test[t]
  BY <1>2 DEF FieldStep
<1>3. ASSUME NEW t \in Tests, NEW ids \in Lists, NEW p \in Patches, CreateTest(t, ids, p)
      PROVE  FieldStep
  BY <1>2, <1>3 DEF CreateTest, TestRows, TypeOK
<1>4. ASSUME NEW x \in Txns, CommitDeleteTest(x) PROVE FieldStep
  BY <1>2, <1>4 DEF CommitDeleteTest, TestRows, TypeOK
<1> QED
  BY <1>1, <1>2, <1>3, <1>4, ReadOrWrite
     DEF Writes, tables, vars, CreateCategory, CommitUpdateCategory, CommitDeleteCategory,
         CommitCreateQuestion, CommitUpdateQuestion, CommitDeleteTestQuestion, DeleteQuestion

\* No delete, cascade or race takes a question out of the tests that use it.
THEOREM QuestionsAlwaysStay == Spec => QuestionsStay
<1> DEFINE Inv == TypeOK /\ ReferencesExist /\ PositionsDistinct /\ OwnRows
<1>1. Init => Inv
  BY DEF Init, TypeOK, ReferencesExist, CatRows, QuestionRows, PositionsDistinct, OwnRows, At
<1>2. Inv /\ [Next]_vars => Inv'
  BY TypeStep, ReferenceStep, PositionStep, OwnRowsStep
<1>3. Inv /\ [Next]_vars => [StayStep]_vars
  BY RowsLeave
<1>4. QuestionsStay <=> [][StayStep]_vars
  BY PTL DEF QuestionsStay, StayStep
<1> QED
  BY <1>1, <1>2, <1>3, <1>4, PTL DEF Spec

\* Updates of a test that overlap do not undo each other's fields.
THEOREM OnlyAskedFieldsChange == Spec => OnlyAskedFields
<1>1. Init => TypeOK
  BY DEF Init, TypeOK
<1>2. TypeOK /\ [Next]_vars => TypeOK' /\ [FieldStep]_vars
  BY TypeStep, FieldsChange
<1>3. OnlyAskedFields <=> [][FieldStep]_vars
  BY PTL DEF OnlyAskedFields, FieldStep
<1> QED
  BY <1>1, <1>2, <1>3, PTL DEF Spec
=============================================================================
