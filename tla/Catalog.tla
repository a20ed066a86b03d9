------------------------------ MODULE Catalog ------------------------------
(***************************************************************************)
(* Categories, questions and tests: the routers question_bank and tests,   *)
(* the DAOs they call, and the constraints of the tables.                  *)
(*                                                                         *)
(* A request is one database transaction at the level read committed: its  *)
(* statements see what is committed, and what it writes is seen by others  *)
(* when it commits.  A handler first reads (the Begin actions, Descend and *)
(* the Look actions), keeps what it read in local variables and mapped     *)
(* objects (txn), and then flushes and commits (one Commit action): from   *)
(* the flush on, the locks it holds make conflicting transactions wait, so *)
(* that flush and commit are one step.  A request whose writes depend on   *)
(* nothing but the constraints is a single action.  Where a constraint     *)
(* does not hold, or a read finds nothing, the action is disabled and the  *)
(* request can only Fail, which rolls it back.                             *)
(*                                                                         *)
(* The text of a question and the other attributes of a test are left out, *)
(* and so is the owner of a question: requests of others end in Fail.      *)
(***************************************************************************)
EXTENDS Integers, Sequences, FiniteSets

CONSTANTS
  Cats, Questions, Tests,   \* identifiers: a row gets one that was never used
  Names,       \* names of categories
  Txns,        \* slots for requests that are served concurrently
  Paths,       \* category paths a client can send
  Lists,       \* lists of questions a client can make a test of
  Patches,     \* the fields of a test a client can set, see Patch
  Null,        \* the database's NULL, and a parent or position there is none of
  Unset,       \* a field the client left out, a value not yet read
  New, Gone,   \* the states of an identifier that names no row
  Idle

ASSUME PathsAssumption == Paths \subseteq Seq(Names) \ {<<>>}
ASSUME ListsAssumption == Lists \subseteq Seq(Questions)

VARIABLES
  cat,         \* table categories
  question,    \* table questions: the category of each question
  test,        \* table tests
  rows,        \* table test_questions
  txn          \* what each request being served has read so far

vars == <<cat, question, test, rows, txn>>
----------------------------------------------------------------------------
(* The tables.                                                             *)

Category == [name : Names, parent : Cats \cup {Null}]

Test == [required : Nat \cup {Null}, start : Int \cup {Null}, end : Int \cup {Null}]

Row == [test : Tests, question : Questions, position : Nat \ {0}]

CatRows == {c \in Cats : cat[c] \notin {New, Gone}}
QuestionRows == {q \in Questions : question[q] \notin {New, Gone}}
TestRows == {t \in Tests : test[t] \notin {New, Gone}}

\* A payload: Unset is a field it does not have, Null one that it clears.
Patch == [required : Nat \cup {Null, Unset},
          start    : Int \cup {Null, Unset},
          end      : Int \cup {Null, Unset}]

ASSUME PatchesAssumption == Patches \subseteq Patch
ASSUME MarkersAssumption ==
  /\ {New, Gone} \cap (Category \cup Cats \cup {Null} \cup Test) = {}
  /\ Unset \notin Names \cup Cats \cup Int \cup {Null}
  /\ Null \notin Cats \cup Tests \cup Int

(* The constraints of the tables.                                          *)

\* Category.category is unique.
NameFree(name, c) == \A d \in CatRows \ {c} : cat[d].name # name

\* Mutated forms: a constraint that is missing from the table.
UnreferencedByQuestions(c, qs, kids) == \A q \in QuestionRows \ qs : question[q] # c
FitsByQuestion(new, rs) == \A r \in rs : r.test = new.test => r.question # new.question

\* Nothing but the rows that are deleted or cleared with it refers to category c.
Unreferenced(c, qs, kids) ==
  /\ \A q \in QuestionRows \ qs : question[q] # c
  /\ \A d \in CatRows \ (kids \cup {c}) : cat[d].parent # c

\* A question that a test refers to cannot be deleted.
Used(q, rs) == \E r \in rs : r.question = q

\* The two unique constraints of test_questions, for a row that is inserted.
Fits(new, rs) ==
  \A r \in rs : r.test = new.test => r.question # new.question /\ r.position # new.position

(* Mapped objects.  A flush writes the attributes that differ from the     *)
(* values they were loaded with, and leaves the others of the row alone.   *)

\* Mutated form: the whole object is written back.
WholeObject(asked, seen, current) == IF asked = Unset THEN seen ELSE asked

Flushed(asked, seen, current) == IF asked \in {Unset, seen} THEN current ELSE asked

At(x, op) == txn[x] # Idle /\ txn[x].op = op

Begin(x, locals) == txn[x] = Idle /\ txn' = [txn EXCEPT ![x] = locals]

End(x) == txn' = [txn EXCEPT ![x] = Idle]
----------------------------------------------------------------------------
(* Categories.                                                             *)

CreateCategory(c, name, parent) ==
  /\ cat[c] = New
  /\ NameFree(name, c)
  /\ parent \in CatRows \cup {Null}
  /\ cat' = [cat EXCEPT ![c] = [name |-> name, parent |-> parent]]
  /\ UNCHANGED <<question, test, rows, txn>>

\* A parent of None is the same as none given: no update makes a category a root.
BeginUpdateCategory(x, c, name, parent) ==
  /\ c \in CatRows
  /\ name # Unset \/ parent # Unset
  /\ name # Unset => NameFree(name, c)
  /\ Begin(x, [op |-> "update category", cat |-> c, name |-> name, parent |-> parent,
               seen |-> cat[c]])
  /\ UNCHANGED <<cat, question, test, rows>>

CommitUpdateCategory(x) ==
  /\ At(x, "update category")
  /\ LET c      == txn[x].cat
         seen   == txn[x].seen
         name   == Flushed(txn[x].name, seen.name, cat[c].name)
         parent == Flushed(txn[x].parent, seen.parent, cat[c].parent)
     IN  /\ c \in CatRows
         /\ NameFree(name, c)
         /\ parent \in CatRows \cup {Null}
         /\ cat' = [cat EXCEPT ![c] = [name |-> name, parent |-> parent]]
  /\ End(x)
  /\ UNCHANGED <<question, test, rows>>

\* Deleting the object cascades to the questions it finds, and clears its children.
BeginDeleteCategory(x, c) ==
  /\ c \in CatRows
  /\ Begin(x, [op |-> "delete category", cat |-> c,
               questions |-> {q \in QuestionRows : question[q] = c},
               children  |-> {d \in CatRows \ {c} : cat[d].parent = c}])
  /\ UNCHANGED <<cat, question, test, rows>>

\* A question that has left the category since is deleted all the same, and a child
\* that has moved is cleared; whether a child that is gone is noticed (Fail) or not
\* depends on how many rows the statement updates.
CommitDeleteCategory(x) ==
  /\ At(x, "delete category")
  /\ LET c    == txn[x].cat
         qs   == txn[x].questions
         kids == txn[x].children
     IN  /\ \A q \in qs : ~Used(q, rows)
         /\ Unreferenced(c, qs, kids)
         /\ cat' = [d \in Cats |-> IF d = c THEN Gone
                                   ELSE IF d \in kids \cap CatRows THEN [cat[d] EXCEPT !.parent = Null]
                                   ELSE cat[d]]
         /\ question' = [q \in Questions |-> IF q \in qs THEN Gone ELSE question[q]]
  /\ End(x)
  /\ UNCHANGED <<test, rows>>
----------------------------------------------------------------------------
(* get_or_create_path: a request holds the category it has come to (at)    *)
(* and the names that are left (todo).  The names it does not find become  *)
(* new categories (made), each the parent of the next, when it commits.    *)

Descend(x) ==
  /\ At(x, "create question") \/ At(x, "update question")
  /\ txn[x].todo # <<>>
  /\ \E c \in CatRows :
       /\ cat[c].name = Head(txn[x].todo)
       /\ cat[c].parent = txn[x].at
       /\ txn' = [txn EXCEPT ![x].at = c, ![x].todo = Tail(@)]
  /\ UNCHANGED <<cat, question, test, rows>>

Injective(f) == \A i, j \in DOMAIN f : f[i] = f[j] => i = j

Creatable(todo, made) ==
  /\ Injective(made) /\ Injective(todo)
  /\ \A i \in DOMAIN made : cat[made[i]] = New /\ NameFree(todo[i], made[i])

Created(at, todo, made) ==
  [c \in Cats |->
     IF \E i \in DOMAIN made : made[i] = c
     THEN LET i == CHOOSE j \in DOMAIN made : made[j] = c
          IN  [name |-> todo[i], parent |-> IF i = 1 THEN at ELSE made[i - 1]]
     ELSE cat[c]]

Home(at, made) == IF made = <<>> THEN at ELSE made[Len(made)]
----------------------------------------------------------------------------
(* Questions, on their own and as part of a test.                          *)

\* category_id or category_path.
Places == {[at |-> c, todo |-> <<>>] : c \in CatRows}
          \cup {[at |-> Null, todo |-> path] : path \in Paths}

BeginCreate(x, t, place) ==
  /\ Begin(x, [op |-> "create question", test |-> t, at |-> place.at,
               todo |-> place.todo, last |-> Unset])
  /\ UNCHANGED <<cat, question, test, rows>>

BeginCreateQuestion(x) == \E place \in Places : BeginCreate(x, Null, place)

BeginCreateTestQuestion(x, t) ==
  t \in TestRows /\ \E place \in Places : BeginCreate(x, t, place)

\* Mutated form: enumerate() without its start.
AddQuestionsFromZero(t, ids, last) ==
  {[test |-> t, question |-> ids[i], position |-> last + i - 1] : i \in DOMAIN ids}

AddQuestions(t, ids, last) ==
  {[test |-> t, question |-> ids[i], position |-> last + i] : i \in DOMAIN ids}

\* max(position_in_test) of the rows the request sees, or 0.
IsLastPosition(t, last) ==
  LET taken == {r.position : r \in {s \in rows : s.test = t}}
  IN  last \in taken \cup {0} /\ \A p \in taken : p <= last

LookAtTest(x) ==
  /\ At(x, "create question")
  /\ txn[x].test # Null /\ txn[x].last = Unset
  /\ \E last \in {0} \cup {r.position : r \in rows} :
       /\ IsLastPosition(txn[x].test, last)
       /\ txn' = [txn EXCEPT ![x].last = last]
  /\ UNCHANGED <<cat, question, test, rows>>

CommitCreateQuestion(x, q) ==
  /\ At(x, "create question")
  /\ question[q] = New
  /\ \E made \in [1 .. Len(txn[x].todo) -> Cats] :
       LET at   == txn[x].at
           home == Home(at, made)
       IN  /\ Creatable(txn[x].todo, made)
           /\ at \in CatRows \cup {Null}
           /\ cat' = Created(at, txn[x].todo, made)
           /\ question' = [question EXCEPT ![q] = home]
  /\ \/ txn[x].test = Null /\ rows' = rows
     \/ /\ txn[x].test \in TestRows /\ txn[x].last # Unset
        /\ LET new == AddQuestions(txn[x].test, <<q>>, txn[x].last)
           IN  /\ \A r \in new : Fits(r, rows)
               /\ rows' = rows \cup new
  /\ End(x)
  /\ UNCHANGED test

\* The category is the only attribute of a question the model has; an update
\* can clear it.  With a path the identifier in the payload is overwritten.
BeginUpdate(x, q) ==
  /\ \E place \in Places \cup {[at |-> Null, todo |-> <<>>]} :
       Begin(x, [op |-> "update question", question |-> q, at |-> place.at,
                 todo |-> place.todo, seen |-> Unset])
  /\ UNCHANGED <<cat, question, test, rows>>

BeginUpdateQuestion(x, q) == BeginUpdate(x, q)

BeginUpdateTestQuestion(x, t, q) ==
  (\E r \in rows : r.test = t /\ r.question = q) /\ BeginUpdate(x, q)

LookAtQuestion(x) ==
  /\ At(x, "update question")
  /\ txn[x].seen = Unset /\ txn[x].question \in QuestionRows
  /\ txn' = [txn EXCEPT ![x].seen = question[txn[x].question]]
  /\ UNCHANGED <<cat, question, test, rows>>

CommitUpdateQuestion(x) ==
  /\ At(x, "update question")
  /\ txn[x].seen # Unset /\ txn[x].question \in QuestionRows
  /\ \E made \in [1 .. Len(txn[x].todo) -> Cats] :
       LET q    == txn[x].question
           at   == txn[x].at
           home == Flushed(Home(at, made), txn[x].seen, question[q])
       IN  /\ Creatable(txn[x].todo, made)
           /\ made # <<>> => at \in CatRows \cup {Null}
           /\ home \in CatRows \cup {Null} \cup {made[i] : i \in DOMAIN made}
           /\ cat' = Created(at, txn[x].todo, made)
           /\ question' = [question EXCEPT ![q] = home]
  /\ End(x)
  /\ UNCHANGED <<test, rows>>

DeleteQuestion(q) ==
  /\ q \in QuestionRows
  /\ ~Used(q, rows)
  /\ question' = [question EXCEPT ![q] = Gone]
  /\ UNCHANGED <<cat, test, rows, txn>>

BeginDeleteTestQuestion(x, t, q) ==
  /\ \E r \in rows : r.test = t /\ r.question = q
  /\ Begin(x, [op |-> "delete test question", test |-> t, question |-> q])
  /\ UNCHANGED <<cat, question, test, rows>>

\* Mutated form: the row is looked up by its question alone.
RemovedEverywhere(t, q) == {r \in rows : r.question = q}

\* remove_question: finding no row is no error.
RemovedQuestion(t, q) == {r \in rows : r.test = t /\ r.question = q}

\* The question is deleted as well, so no other test may refer to it.
CommitDeleteTestQuestion(x) ==
  /\ At(x, "delete test question")
  /\ LET q    == txn[x].question
         left == rows \ RemovedQuestion(txn[x].test, q)
     IN  /\ q \in QuestionRows
         /\ ~Used(q, left)
         /\ rows' = left
         /\ question' = [question EXCEPT ![q] = Gone]
  /\ End(x)
  /\ UNCHANGED <<cat, test>>
----------------------------------------------------------------------------
(* Tests.                                                                  *)

\* Both validations look at the payload, not at what the test has.
ValidDates(p) == p.start \in Int /\ p.end \in Int => p.start <= p.end
ValidRequired(p, total) == p.required \in Nat => p.required <= total

CreateTest(t, ids, p) ==
  LET given(v) == IF v = Unset THEN Null ELSE v
  IN  /\ test[t] = New
      /\ ValidDates(p)
      /\ Injective(ids)
      /\ ValidRequired(p, Len(ids))
      /\ \A i \in DOMAIN ids : ids[i] \in QuestionRows
      /\ test' = [test EXCEPT ![t] = [required |-> given(p.required),
                                      start    |-> given(p.start),
                                      end      |-> given(p.end)]]
      /\ rows' = rows \cup AddQuestions(t, ids, 0)
      /\ UNCHANGED <<cat, question, txn>>

BeginUpdateTest(x, t, p) ==
  /\ t \in TestRows
  /\ \E f \in DOMAIN p : p[f] # Unset
  /\ ValidDates(p)
  /\ ValidRequired(p, Cardinality({r \in rows : r.test = t}))
  /\ Begin(x, [op |-> "update test", test |-> t, patch |-> p, seen |-> test[t]])
  /\ UNCHANGED <<cat, question, test, rows>>

CommitUpdateTest(x) ==
  /\ At(x, "update test")
  /\ LET t == txn[x].test
         new(f) == Flushed(txn[x].patch[f], txn[x].seen[f], test[t][f])
     IN  /\ t \in TestRows
         /\ test' = [test EXCEPT ![t] = [required |-> new("required"),
                                         start    |-> new("start"),
                                         end      |-> new("end")]]
  /\ End(x)
  /\ UNCHANGED <<cat, question, rows>>

\* Deleting the object cascades to the rows it finds.
BeginDeleteTest(x, t) ==
  /\ t \in TestRows
  /\ Begin(x, [op |-> "delete test", test |-> t, rows |-> {r \in rows : r.test = t}])
  /\ UNCHANGED <<cat, question, test, rows>>

CommitDeleteTest(x) ==
  /\ At(x, "delete test")
  /\ LET left == rows \ txn[x].rows
     IN  /\ \A r \in left : r.test # txn[x].test
         /\ rows' = left
  /\ test' = [test EXCEPT ![txn[x].test] = Gone]
  /\ End(x)
  /\ UNCHANGED <<cat, question>>

\* An error reply, a constraint that does not hold, a deadlock, a lost connection.
Fail(x) ==
  /\ txn[x] # Idle
  /\ End(x)
  /\ UNCHANGED <<cat, question, test, rows>>
----------------------------------------------------------------------------
Init ==
  /\ cat = [c \in Cats |-> New]
  /\ question = [q \in Questions |-> New]
  /\ test = [t \in Tests |-> New]
  /\ rows = {}
  /\ txn = [x \in Txns |-> Idle]

CategoryRequest ==
  \/ \E c \in Cats, name \in Names, parent \in Cats \cup {Null} : CreateCategory(c, name, parent)
  \/ \E x \in Txns, c \in Cats, name \in Names \cup {Unset}, parent \in Cats \cup {Unset} :
        BeginUpdateCategory(x, c, name, parent)
  \/ \E x \in Txns, c \in Cats : BeginDeleteCategory(x, c)
  \/ \E x \in Txns : CommitUpdateCategory(x) \/ CommitDeleteCategory(x)

QuestionRequest ==
  \/ \E x \in Txns : BeginCreateQuestion(x) \/ Descend(x) \/ LookAtQuestion(x)
                     \/ CommitUpdateQuestion(x)
  \/ \E x \in Txns, q \in Questions : BeginUpdateQuestion(x, q) \/ CommitCreateQuestion(x, q)
  \/ \E q \in Questions : DeleteQuestion(q)

TestRequest ==
  \/ \E x \in Txns, t \in Tests :
        BeginCreateTestQuestion(x, t) \/ BeginDeleteTest(x, t)
  \/ \E x \in Txns, t \in Tests, q \in Questions :
        BeginUpdateTestQuestion(x, t, q) \/ BeginDeleteTestQuestion(x, t, q)
  \/ \E t \in Tests, ids \in Lists, p \in Patches : CreateTest(t, ids, p)
  \/ \E x \in Txns, t \in Tests, p \in Patches : BeginUpdateTest(x, t, p)
  \/ \E x \in Txns : LookAtTest(x) \/ CommitDeleteTestQuestion(x)
                     \/ CommitUpdateTest(x) \/ CommitDeleteTest(x)

Next == CategoryRequest \/ QuestionRequest \/ TestRequest \/ \E x \in Txns : Fail(x)

Spec == Init /\ [][Next]_vars
----------------------------------------------------------------------------
(* What a request holds: by the operation it carries out.                  *)

Transaction ==
  [op : {"update category"}, cat : Cats, name : Names \cup {Unset},
   parent : Cats \cup {Unset}, seen : Category]
  \cup [op : {"delete category"}, cat : Cats, questions : SUBSET Questions,
        children : SUBSET Cats]
  \cup [op : {"create question"}, test : Tests \cup {Null}, at : Cats \cup {Null},
        todo : Seq(Names), last : Nat \cup {Unset}]
  \cup [op : {"update question"}, question : Questions, at : Cats \cup {Null},
        todo : Seq(Names), seen : Cats \cup {Null, Unset}]
  \cup [op : {"delete test question"}, test : Tests, question : Questions]
  \cup [op : {"update test"}, test : Tests, patch : Patch, seen : Test]
  \cup [op : {"delete test"}, test : Tests, rows : SUBSET Row]

ASSUME IdleAssumption == Idle \notin Transaction

\* Every table and every local copy has its type.
TypeOK ==
  /\ cat \in [Cats -> Category \cup {New, Gone}]
  /\ question \in [Questions -> Cats \cup {Null, New, Gone}]
  /\ test \in [Tests -> Test \cup {New, Gone}]
  /\ rows \in SUBSET Row
  /\ txn \in [Txns -> Transaction \cup {Idle}]

\* However requests overlap, nothing refers to a row that is gone: the cascades of
\* a category and of a test take along exactly what would be left dangling, or fail.
ReferencesExist ==
  /\ \A c \in CatRows : cat[c].parent \in CatRows \cup {Null}
  /\ \A q \in QuestionRows : question[q] \in CatRows \cup {Null}
  /\ \A r \in rows : r.test \in TestRows /\ r.question \in QuestionRows

\* Two requests that append to a test from the same last position do not both
\* succeed: in a test, a question has one position and a position one question.
PositionsDistinct ==
  \A r, s \in rows :
    r.test = s.test /\ (r.question = s.question \/ r.position = s.position) => r = s

\* A question leaves a test only with the test, or because it is deleted, and then
\* it was in no other test: no delete, cascade or race takes a question out of the
\* other tests that use it.
QuestionsStay ==
  [][\A r \in rows \ rows' :
       \/ r.test \notin TestRows'
       \/ /\ r.question \notin QuestionRows'
          /\ \A s \in rows : s.question = r.question => s = r]_vars

\* An update of a test changes the fields the client sent and no other, whatever
\* other updates were committed since the test was read.
OnlyAskedFields ==
  [][\A t \in TestRows \cap TestRows' : \A f \in DOMAIN test[t] :
       test'[t][f] # test[t][f] =>
         \E x \in Txns : /\ At(x, "update test")
                         /\ txn[x].test = t
                         /\ txn[x].patch[f] = test'[t][f]]_vars
=============================================================================
