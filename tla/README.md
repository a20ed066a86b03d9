# TLA+ specifications of TestingSystem-Backend

A FastAPI backend for school tests.  Teachers keep questions, categories and
tests in PostgreSQL; students take tests in *testing sessions*, each one Redis
hash; results and a leaderboard are computed from the sessions.  This directory
specifies the parts where several requests, or several containers, meet on the
same state: the testing sessions, the leaderboard, the catalogue with its tests,
the users and their logins, the cache of questions, and the migrations of the
schema.  It checks them with TLC and proves the main properties with TLAPS.

Paths below are relative to the repository (`src/` here).  `SessionService` is
`app/services/testing_engine/session_service.py`.

## The system

| component | state it keeps | operations | talks to |
|---|---|---|---|
| testing engine (`services/testing_engine`) | one Redis hash per session: status, answers, counters, pointer, finishing time and duration, score | start, answer, next, prev, submit, close; reads: info, list, question list | tests (questions at start), `QuestionRedis` rows (scoring), question lookup |
| results (`routers/results.py`) | none | result of one session, leaderboard | session hashes, `QuestionRedis` rows, users |
| question lookup (`testing_engine/question_bank`) | a process-wide dictionary that stays empty | get (mock: a random question of a JSON file) | – |
| cache and teacher banks (`core/question_cache.py`, `core/lazy_question.py`, `repositories/question_bank/testBank.py`) | a dictionary of questions per bank; a class-level registry of banks; a list of ids per bank | load, warm up, create, update, delete, registry lookup | question catalogue |
| question catalogue (`repositories/question_bank/question_dao.py`, `routers/question_bank.py`) | questions and a category tree in PostgreSQL | add, update, delete, search, get-or-create path, move | – |
| tests (`repositories/dao/testdao.py`, `routers/tests.py`) | tests and their ordered questions in PostgreSQL | create, update, delete, append, remove | question catalogue |
| authentication (`services/auth`) | signed tokens held by clients; login sessions in Redis; an allow-list for which no store is configured | login, validate, logout | users |
| users (`repositories/dao/userdao.py`) | users, roles, permissions in PostgreSQL | signup, create, update, delete | – |
| migrations (`migration/`) | the schema of the database, its recorded revision | upgrade and downgrade of fourteen revisions | all that is in PostgreSQL |
| startup (`core/databases.py`, `entrypoint.sh`, `scripts/`) | none | retry loops around Redis, migrations, health; deployment; loading of places | migrations |

How they interact: all requests of one process run on one event loop and are
interleaved at every `await`; several workers add real parallelism.  PostgreSQL
work is inside transactions.  Redis work is not: there is no WATCH, no lock and
no version on a session.

What is hard, and what each component must get right:

* **Testing engine.**  Every request is a read-modify-write of the whole hash
  with awaits in between.  Overlapping requests (a double click, two tabs, a
  retry after a timeout) overwrite each other.  The counters, the pointer, the
  status, the outcome and the score are stored redundantly and must agree with
  the answers; a session that is over must stay as it is; a confirmed answer
  must not get lost; a submit must finish the session.
* **Results.**  The leaderboard is read key by key while sessions change.  It
  must have the sessions that were finished throughout, and no session that
  never was; a result's groups must add up to the result.
* **Cache and banks.**  A cache filled after an await, invalidated before the
  commit, must not serve an old question for ever; one owner has one bank; a
  bank lists the questions that exist.
* **Catalogue and tests.**  Transactions at read committed: what a handler read
  may be gone or changed when it writes.  References must stay valid through two
  cascades; positions in a test must be distinct under concurrent appends; a test
  must not lose a question because of another test; an update must not undo
  another one; the number of required questions should stay within the test.
* **Users.**  Addresses are compared and stored in a normal spelling, by each
  operation for itself.  Two accounts must not share an address, an account must be
  found by it, and an update of a profile must not touch the credentials, also not
  by writing back what it read before they changed.
* **Authentication.**  A logout is a sequence of calls with failures passed over
  and other logouts in between.  What it answered must be true; a token that was
  refused must stay so, also when its user was deleted and somebody takes the
  address; a token that is good must not be forgotten.
* **Migrations.**  Several containers run the revisions at the same time, fail,
  die and retry; operators change the schema by hand.  No revision may be left half
  made, it must be known what the schema lacks that a server runs on, and servers
  must come up again.

## Modules

| module | what it is |
|---|---|
| `AtomicSession` | the abstract session: an exam paper on which operations take effect at once; no counters, no requests, no failures |
| `TestSession` | the testing engine in detail: stored records, requests with a copy of a record in memory, failures |
| `MCTestSession` | values of the constants for TLC |
| `TestSessionProofs` | the inductive invariant and its theorems, for any interleaving |
| `SerialSessionProofs` | refinement of `AtomicSession` by serial clients, and what follows |
| `Results` | the leaderboard walk and the results, composed with `TestSession` |
| `MCResults` | values of the constants for TLC |
| `ResultsProofs` | the leaderboard theorems; sums over the groups of a result |
| `Catalog` | categories, questions and tests: four tables, their constraints, and requests as transactions at read committed |
| `MCCatalog` | values of the constants for TLC |
| `CatalogProofs` | the invariants of the tables and what follows for their steps |
| `Accounts` | the table of users and the requests that change it |
| `MCAccounts`, `AccountsProofs` | values for TLC; the invariants and their theorems |
| `Login` | tokens, allow-list and login sessions, composed with `Accounts` |
| `MCLogin`, `LoginProofs` | values for TLC; the invariant and its theorems |
| `QuestionBank` | the registry of banks, their lists and caches, and database sessions around them |
| `MCQuestionBank`, `QuestionBankProofs` | values for TLC; the invariant and its theorems |
| `Migrations` | the schema, the revisions, and the containers that run them |
| `MCMigrations`, `MigrationsProofs` | values for TLC; the invariant, chains of upgrades, and the theorems |

`Results` extends `TestSession` and `Login` extends `Accounts`; the others share
no state in the model.  (A session copies its list of questions when it starts; of
a user the catalogue only has the identifier, and `Accounts` has in turn the set of
users whom questions name.)

### TestSession

`store[s]` is the hash of session `s`, or `NoSession`.  `req[r]` is what the
`r`-th request slot holds: nothing (`Idle`), or a session, an operation and
`snap`, the record it read.  `rows` is the set of positions whose question has a
`QuestionRedis` row (nothing in the repository writes them, so it is chosen once);
`faults` counts failures.

| action | code |
|---|---|
| `Start` | `POST /tests/{testId}/start`, `SessionService.create` |
| `Load` | `_load_user_session` and `SessionService.load`: what every other request begins with |
| `AnswerQuestion`, `NextQuestion`, `PrevQuestion`, `Submit`, `Close` | the rest of the handler: guard, change of the object (`AfterAnswer`, `AfterMove`, `AfterFinish`, `AfterClose`), `save()` |
| `AlreadyDone` | the early returns of `finish()` and `close()` |
| `Refuse` | the error replies: 404 at either end of the questions, 500 for an answer to a session that is not active or a submit without rows |
| `SaveFails`, `Crash` | a Redis command that fails; the server killed and restarted |

`Load` and the step after it are separate because of the awaits between
them; nothing else of a handler can be observed by another one, since a single
HSET is atomic.  `Saved` is what HSET leaves behind: `KeepsNone` says whether a
field that is `None` is left out of the command (an old value then survives) or
written as empty; the proofs hold for both.  `Credited` keeps the two Python
types of a question's position apart (`Str`, `Int_`), because the code compares
them.  Operators commented "Mutated form" are plausible errors; they are not
used by the specification, and show that the properties tell them from the code.

Abstracted: ownership (a request of someone else gets a 404 at `Load`), the
content of questions, times other than whether a session has ended, and
requests that only read (`Info` and `QuestionStatus` are what they show, and the
invariants range over everything they could show).  `CREATED` is never assigned.

### Results

`phase`, `todo`, `found` and `board` are one leaderboard request.
`_load_finished_sessions` first asks for an index on `status`, which the model
does not declare, so it always falls back to the walk over all keys: `BeginWalk`,
`Visit` for each key, `Answer`.  `Visit` reads a session with whatever it holds
by then; it may yield a key twice, and sessions started in between.  `WalkFails`
is the `except` that answers `[]`.  `Ranking` is the stable descending sort.
`steady` and `once` are history variables: the sessions that were finished all
along, and at some time.  `Result` is `_build_result`, `GroupScores` is
`_group_scores`.

### Catalog

`cat`, `question` and `test` map identifiers to rows; an identifier is `New`, a
row, or `Gone`, and never names a second row, as UUIDs do not.  `rows` is
`test_questions`.  `txn[x]` is what the request in slot `x` has read: its
arguments, the mapped object it loaded, or how far it has come on a path.

| action | code |
|---|---|
| `CreateCategory`, `DeleteQuestion`, `CreateTest` | handlers whose writes depend on their arguments and on constraints only: one action each |
| `BeginUpdateCategory`, `BeginDeleteCategory`, `BeginUpdateTest`, `BeginDeleteTest`, `BeginDeleteTestQuestion` | the handler up to the last read: existence and validation, the object it loads, the rows a cascade finds |
| `BeginCreateQuestion`, `BeginUpdateQuestion` and their `...TestQuestion` forms | the same for the handlers that take a category by identifier or by path |
| `Descend` | one round of `get_or_create_path` that finds its name |
| `LookAtTest`, `LookAtQuestion` | `max(position_in_test)`; loading the question |
| `Commit...` | flush and commit, with the constraints as guards; names left on the path become categories here |
| `Fail` | an error reply, a constraint that does not hold, a deadlock, a lost connection: rollback |

Reads and the write are separate actions because each statement of a read
committed transaction sees what others committed before it.  Flush and commit
are one action because a transaction keeps the locks of its writes until it
commits: another one that would conflict waits for it, and one that does not
conflict cannot tell.  A flush writes the attributes that differ from what was
loaded and no others (`Flushed`); this is what makes two updates of different
fields compatible.  `Fits`, `NameFree`, `Used` and `Unreferenced` are the
constraints of the tables.

Two things the model contains and no property forbids, since no sentence of the
repository does: a question that was moved out of a category while the category
is being deleted is deleted with it, and a category can be made its own ancestor.

A test can also be left that requires more questions than it has: only creating
and updating a test look at the number, removing a question does not.

Abstracted: texts, answers and other attributes of questions, tests and
categories; owners (the requests of others end in `Fail`); searches and lists,
which only read.

### Accounts

`account[u]` is the row of user `u`, `New` or `Gone`; `teaches` is the set of
users whom rows of `questions` name; `txn[x]` is the mapped object of a request,
with the row as it was loaded.

| action | code |
|---|---|
| `SignUp`, `Create` | `POST /signup`, `POST /users/create`, `UserDAO.create` |
| `BeginDelete`, `LoadDeleted`, `Delete` | `DELETE /users/{id}`: the lookup in one transaction; in another one, `delete_user_by_id`, the load of the user with the questions, and the flush and commit |
| `BeginDeleteByEmail`, `Delete` | `delete_user_by_email`, which is one transaction |
| `BeginUpdate`, `BeginUpdateByEmail` | `PATCH /users/{id}` and `/users/me`, `update_user_by_id`, `update_user_by_email`: load, filter the payload, set |
| `BeginChangeEmail`, `BeginSetPassword` | `change_email`, `set_password` |
| `Commit`, `Fail` | commit with the unique constraints as guards; rollback |
| `Teach`, `Unteach` | the first question with this author is inserted, the last one is deleted |

`Normal` is `_normalize_email`.  A payload is any set of fields, those included
that an update has to ignore.  A user who is deleted keeps no question: SQLAlchemy
clears the `teacher_id` of those that it finds (`LoadDeleted`), which may not be
NULL, so the delete fails; one that is written between the two transactions, or
after the questions were looked up, is only seen by the foreign key (`Deletable`).
No router calls `change_email`, `set_password` or the operations by address; they
are here as operations of the DAO.  `is_active` is left out since nothing changes
it.

### Login

| state | code |
|---|---|
| `token[k]` | what is signed into the `k`-th pair of tokens: subject, expiry of each |
| `listed[k]` | the entry of the allow-list, as the time at which the store drops it |
| `session[k]` | the login session, one Redis hash |
| `req[r]` | a login or logout in progress: its step, token, and the session it found |
| `hasStore`, `now` | whether there is a token store; the time |
| `refused`, `ended` | history: tokens whose logout was answered with 401, with 204 |
| `unheard`, `swallowed` | history: tokens whose 401 only says that the store failed; tokens for which a failure was passed over |

| action | code |
|---|---|
| `BeginLogin` | `login`: find the user, compare the password |
| `Mint` | `JWTService.create`: sign, list, save the session, the last two best effort |
| `BeginLogout`, `CheckAgain` | `validate`, and again in `validate_refresh_and_get_session`; `Refused` is the 401, `CheckFails` the 401 that a failure of the store is answered with |
| `FindSession` | `Session.validate`, with the scan that gives up |
| `Revoke`, `EndSession` | `revoke_refresh`; `invalidate`, which saves the record that was found |
| `Abort` | an error reply or a killed server at any step |

`Accepts` is what `validate` answers when the store answers; while it does not, every
refresh token is refused, good or not.  With the settings of the repository there is
no store (`settings` has no `redis`), and a refresh token is then good until it
expires, whatever was logged out: that is the run `no_store`.  The model has both
cases and `LogoutComplete` says what holds in each: the token is refused with a
store, and the session is over with or without one.  A logout that
dies between `Revoke` and `EndSession` leaves its session active for good, since
its repetition is refused before it gets that far: the token is of no use by then,
which is `EndedIsRevoked` and `LogoutComplete`.

### QuestionBank

`question` is what is committed; `registered`, `ids` and `cache` are the state of
the process; `open[x]` is a database session: its bank, the objects it has loaded,
what it has flushed (`own`), and the step of a method it is in.  An entry of the
cache is `Missing`, a session (the object of that session), a version (an object
left behind), or `Unreadable` (an object whose values have expired).

| action | code |
|---|---|
| `ForOwner`, `Register` | `TestBank.for_owner` before and after its query |
| `BeginLoad`, `Fill` | `LazyQuestion._load` and `warmup_cache` before and after the query |
| `Create`, `Delete` | `create_question`, `delete_question`: flush, then list and cache |
| `BeginUpdate`, `Update` | `QuestionDAO.update` sets the attributes; flush, then invalidate |
| `Commit`, `Rollback` | the end of a session; `expire_on_commit=False` is `Detached` |

The cache holds mapped objects, so an update changes what is cached before it is
written; that is why `Detached` and `Expired` differ.  A rollback expires the objects
of rows that were there before the session, and nobody reads them again.  An object
that the session has inserted becomes transient and keeps its values: a question that
is created, loaded into the cache and rolled back in one session stays readable there,
and in the list, without a row (`Aborted`).  Whether the identity map still has such an
object when the question is loaded depends on whether its caller does, so `Rollback`
has both (`kept`).  Identifiers are never used twice.

When sessions overlap, the model has what the code allows: two banks for one owner,
and a cache that keeps an old version after its invalidation.  `CacheFresh` and
`BankComplete` are therefore claims about sessions that have come one after the other;
they say what a rollback does not restore, and nothing else may differ.  `NoPhantoms`
is about any sessions.  Only tests make a `TestBank`, so callers are any sequence of
sessions that end by commit or rollback.  A session that is merely closed after a flush
is left out; it would leave uncommitted values behind.

### Migrations

`schema` is a set of facts such as `<<"users", "full_name">>`; a revision maps
a schema to the set of schemas it may result in, which is empty when it raises.
`Up` and `Down` are the fourteen revisions, `Upgraded` a chain of them in one
transaction, as `env.py` has it.  `server[c]` is a container.  A release knows every
revision that the database has when it is first deployed.

| action | code |
|---|---|
| `Start` | `entrypoint.sh` begins; `restart: always` or a deployment |
| `Begin` | a connection, a transaction, and the recorded revision |
| `Commit` | all revisions up to the head, the new version, `exec "$@"` |
| `Fails` in `Attempt`, `LostConnection` | a revision raises, the version row has changed, the connection is lost: another try, or exit |
| `Kill`, `Stop`, `Deploy` | containers die, are taken down; `deploy-staging.sh` with a new release |
| `LoadPlaces`, `Downgrade` | `load_cities_and_regions.sql`; `alembic downgrade` |
| `SignUp`, `AddSchools` | rows in `users`; rows in `schools`, which no code of the repository writes |

Four things the revisions do that no document speaks of, all in the model.  A new
database never gets `schools.short_name`, which `app/models/database.py:79`
declares: it comes from renaming a column that the first revision, as it is now,
does not make; `ServedComplete` says that this column is all that a server of the
newest release ever lacks, and on which databases.  Then there are three ways into a
schema that no upgrade gets through.  After a downgrade below `37b322404fd9` its type
is left that its upgrade creates again, since its downgrade drops tables only
(`LeftoverType`).  The script that loads places, run before `f24f2436b9c9`, leaves rows
that its unique constraint on names forbids (`LoadedEarly`).  And a downgrade below
`033282907fb3` drops the full names of schools, which its upgrade can only fill again
from the older column `school`: on a new database with schools `SET NOT NULL` fails
(`NamesLost`).

## What is checked

| run | specification | checks |
|---|---|---|
| `overlap` | `Spec`, 1 session, 2 questions with one choice each and their rows, 2 requests at a time, 1 failure | `TypeOK`, `CountersMatch`, `PointerInRange`, `OutcomeRecorded`: a record can be out of date, never at odds with itself; `SubmitFinishes`: submitting again and again finishes the session |
| `serial` | `SerialSpec`, 3 questions, 2 request slots, 1 failure, every set of rows | `AnswersKept`, `NoReopen`, `AnswersFrozen`, `ImplementsAtomic` (refinement of `AtomicSession`) |
| `results` | `ResultsSpec`, 2 sessions, 2 questions in 2 groups, rows for all or for one | `BoardComplete`, `BoardWasFinished`, `GroupsAddUp` |
| `shelves` | `Spec` of `Catalog`, 2 categories with 2 names, paths of length 2, 1 question, 1 test, 2 requests | `TypeOK`, `ReferencesExist`: deletes, cascades, moves and paths overlap, and nothing refers to a row that is gone |
| `papers` | `Spec` of `Catalog`, 2 tests over 2 questions, 1 category, 2 requests | `PositionsDistinct`, `QuestionsStay`, `OnlyAskedFields` |
| `accounts` | `Spec` of `Accounts`, 2 users, 3 spellings of 2 addresses, 2 requests | `TypeOK`, `FoundByAddress`, `TeachersStay`, `CredentialsStay` |
| `login` | `LoginSpec`, 1 pair of tokens, 2 requests, 2 users with one address, 4 units of time, with and without a store | `LoginTypeOK`, `LogoutComplete`, `EndedIsRevoked`, `NotForgotten`, `RefusedForGood` |
| `bank` | `Spec` of `QuestionBank`, 1 question with 2 versions, 2 banks, 2 sessions | `TypeOK`, `BankComplete`, `NoPhantoms`, `CacheFresh` |
| `schema` | `Spec` of `Migrations`, a server and a second container, 3 releases, 2 tries, 1 failure, both kinds of database | `TypeOK`, `WholeRevisions`, `ServedComplete`, `NothingElseBlocks`, `ServesAgain` |

Three runs end in a violation.  Each compares the code with a sentence of the
repository; the behaviour TLC prints is one of the program.

| run | the repository says | what happens |
|---|---|---|
| `late_answer` | "Cannot answer questions in a non-active session." (`session_service.py:141`) | an answer read in before a submit and saved after it makes the finished session active, with other answers |
| `score` | "Calculate session score in percent." (`session_service.py:328`) | positions are looked up as `int` in a map keyed by `str`: every score is 0 |
| `no_store` | "Logout by revoking the refresh token (deny future refreshes) and invalidating the server session." (`auth.py:222`) | the token store is `getattr(settings, "redis", None)` (`jwt_service.py:277`), which is `None`: after a 204 the refresh token is accepted as before |

A fourth such sentence is the declaration of `schools.short_name`; there the passing
run `schema` states in `ServedComplete` what the code does instead.

Other behaviour of the engine that its model has and that is worth knowing: two
answers sent without waiting for the reply are both confirmed, and the second write
erases the first; a finished session can be closed, and submitted again after
that; a session whose questions have no `QuestionRedis` rows can never be submitted.

The two sides of `AnswersFrozen` belong together (and `AnswersKept` is alike): it
holds of clients that wait for each reply, and fails as soon as two requests overlap.

### Bounds

* Sessions do not share state, so one session shows everything about the engine;
  the leaderboard needs two to be read at different times.
* Two requests at a time are enough for a write between the read and the write
  of another request; the theorems say that no number of them breaks the invariants.
* Two questions make "first", "last" and "the other one" different; three add a
  question in the middle for the refinement.
* The run `overlap` has one choice per question, so that sheets differ in which
  questions are answered; with a second choice the same run has twenty times the
  states and takes minutes, without another kind of step.  `serial` has both, and
  the theorems hold for any choices.
* `MaxFaults = 1`: one failure or restart at any point.  After it the server is in
  a state that is also reached without it, so more failures repeat the same cases.
* `MaxFound = 2` lets a key be yielded twice as long as the two finished sessions
  still fit.  The run `results` has one request slot: the walk only reads, and
  sessions that go from finished to closed and back show every change it can meet.
* `shelves` and `papers` divide the catalogue: the one has a path and a tree but a
  single question, the other two tests that share questions and one category.
  Two requests at a time let one commit between the reads and the commit of the
  other.  Payloads of an update set one field, required number or end, so that
  there is always another field to leave alone.  Identifiers are used once, hence
  their number bounds the length of a behaviour: when all are used and gone
  nothing can happen, and these runs do not check for deadlock.  The theorems hold
  for any number of each.
* `accounts`: two users compete for an address, one has two spellings of it, and
  two requests let one commit inside the other.  A payload changes the telephone
  number, or is one that may change nothing.  Schools behave like telephone numbers
  without a constraint and are absent.
* `login`: pairs of tokens do not share state, so one is enough; two logouts of it
  overlap.  A time unit passes between any two steps, and the lifetimes are
  different and all end before `MaxTime` (which stops the clock: no check for
  deadlock).  One request at a time works on accounts: `accounts` has two.  Two users with one address give it a new owner after a delete.
* `bank`: no action relates two questions, so one stands for each; two sessions
  and two banks show every overlap of a fill, an update, and the end of a session.
* `schema`: the releases (third, seventh and last revision) are the ones between which
  a script, a downgrade, rows or the older names make a difference: each of the three
  ways to a blocked schema is taken; two tries show a try that is not the last; with two
  containers one can overtake the other; `MaxFaults = 1` as above.

### Fairness

`WF_vars(Serve(r))`: the event loop runs a task that is ready, so a request that
was read in is served.  `SF_vars` on loading a submit is an assumption on the
student, not on the code: a session that nobody submits stays active.  It is
strong because other requests may take the slots in between.  Nothing is assumed
of failures.

`Migrations`: `WF_vars(Start(c))` for servers is `restart: always`, together with
the assumption that a server that was taken down is put up again; `Begin` and
`Attempt` are weakly fair because the loop of `entrypoint.sh` goes on and each
statement ends or raises.  Nothing is assumed of the service `migrate`, of failures
or of people.  `ServesAgain` allows for a schema from which no upgrade succeeds
(`Blocked`); `NothingElseBlocks` says which these are, and that it takes an operator's
script or downgrade to get there.

The other safety properties and the serial specification assume no fairness;
`Catalog`, `Accounts`, `Login` and `QuestionBank` have safety properties only.

## What is proved

For all sets of sessions, request slots and choices, every number of questions,
every key, both meanings of `None`, and any bound on failures.  The assumptions
are the `ASSUME`s of the modules: they give the constants their types and keep
the marker values (`NoSession`, `Idle`, ...) apart from the values they mark.

* `TypeCorrect`, `CountersAlwaysMatch`, `PointerAlwaysInRange`,
  `OutcomeAlwaysRecorded`.  The properties of stored records are not inductive
  alone, since a request may write a copy it read long ago.  The invariant `IInv`
  therefore claims them (`Sound`) of every copy in memory as well, and that
  requests are only served on sessions that exist.  Each service method makes a
  sound record of a sound record (`AnswerSound`, `MoveSound`, `FinishSound`,
  `CloseSound`), and saving one over any other keeps it sound (`SavedSound`):
  that is why no interleaving matters.  `AnsweredAfter` does the counting.
* `SerialImplementsAtomic`.  With `OneAtATime` and `Fresh` (what a request holds
  is what is stored) the write of a request is the abstract operation, and every
  other step leaves the paper alone; failures and restarts are stutters.
* `SerialAnswersKept`, `SerialNoReopen`, `SerialAnswersFrozen` follow from the
  steps of the abstract session through that mapping.
* `BoardAlwaysComplete`, `BoardAlwaysWasFinished`.  The invariant `WalkInv` says
  that a session finished since the walk began is still to be yielded or was found.
  The proof uses nothing of the engine except that sessions are not deleted.
* `CatalogTypes`, `ReferencesAlwaysExist`, `PositionsAlwaysDistinct`.  These
  invariants are inductive given the types, because the database checks its
  constraints when a request commits and not when it read: `ReadOrWrite` reduces
  `Next` to the ten steps that write, and each of them is looked at once.  The
  longest case is a path, whose new categories refer to each other
  (`CreatedReferences`).
* `QuestionsAlwaysStay`.  Needs `OwnRows`: what a request that deletes a test has
  collected are rows of that test (`RowsLeave`).
* `OnlyAskedFieldsChange` is the rule of the flush carried through every step.
* `AccountTypes`, `AlwaysFoundByAddress`, `TeachersAlwaysStay`,
  `CredentialsAlwaysStay`.  That addresses are different is not enough: a request
  may commit one that it set long ago.  The invariant says that rows and mapped
  objects have normal spellings (`RowsSpelled`, `ObjectsSpelled`) and that an object
  differs from its row only in what its request is for (`ObjectsFaithful`); the
  flush does the rest.  `TeachersAlwaysStay` is about the lookup, the load and the
  delete as three steps with questions coming and going in between; it rests on the
  foreign key alone, since what the first two have seen may be out of date.
* `LoginTypes`, `LogoutAlwaysComplete`, `EndedAlwaysRevoked`, `AlwaysRefusedForGood`,
  `NeverForgotten`.  `LogoutAlwaysComplete` promises a refused token only with a store,
  and no more than the end of the session without one.  The invariant `LInv` says what a logout knows at each of its
  steps: past `Revoke` its token is refused or a failure was passed over, and a
  session it has not found valid is over.  A refused token stays so because entries
  are only made with the token and time only grows.
* `BankTypes`, `NeverPhantoms`.  The invariant says of each open session that its
  objects are committed versions, its own flushed ones, or those of an update that
  it has not finished; and that a cache entry which stands for an object belongs to
  an open session of that bank.  Then a commit leaves behind only what it commits, and
  a rollback nothing but objects that it had inserted itself (`RolledBack`).  That their
  rows never come to be needs `LockInv`, one writer of a row at a time and none after it
  is gone, and `RowInv`.
* `BankAlwaysComplete`, `CacheAlwaysFresh`.  Both are about sessions that come one
  after the other, and need to know more than they say: that there is then one open
  session, one bank, that a version left in the cache is the committed row or was never one, that
  the list is what the session sees but for what rollbacks have not restored (`Listed`),
  and that the open session's objects, list and cache differ from the table in what it has
  flushed and in the update it is in, and in nothing else (`Serial`, `SerialSession`).
  `Serial` is inductive together with `IInv`; each action has a lemma of its own.
  `CacheFresh` excepts the one question that the open session is updating and those
  whose creation was rolled back.
* `MigrationTypes`, `RevisionsAlwaysWhole`, `ServedAlwaysComplete`,
  `AlwaysUpgradable`.  `ServedComplete` speaks of the newest release and is not inductive: a database gets there by fourteen
  revisions, and may go back and forth.  `Standing(n, s)` therefore says what a schema
  has and lacks at each revision (`Built`, `Clear`; `Renamed` where the database began
  with the older names, `Unrenamed` where it did not, which is why `ServedComplete` can
  say exactly what is lacking), that nothing is left of a table that is gone
  (`Closed`), and which schemas no upgrade gets through (`Stuck`).
  Every upgrade carries it on by one revision and every downgrade back by one.
  `Ahead` relates the recorded revision to those of the attempts and servers, which
  are read before and used after it changes.  What an attempt runs is a chain of
  upgrades (`Upgraded`); that chains compose, and that accounts and their rows do not
  matter to them, is proved by induction on their length (`Induction`: well-founded
  induction with a set in the place of a predicate).  A schema that is not stuck, has no
  places of one name too early and no schools without a name (`Passable`) is got through
  by every revision, and the result is such a schema again (`UpExists`, `UpPasses`); both
  kinds of database begin with one.  So `ServesAgain`, which TLC checks, has no exception
  but the three that `NothingElseBlocks` names.
* `GroupsAlwaysAddUp`.  The sum is a fold over a set of groups.  Two functions that
  satisfy its recursion agree (`SumsAgree`, by a smallest set on which they would not),
  and counting the questions of the groups in a set satisfies it (`GroupsDivide`), so
  the sum is that count.

Every invariant and every action property of the passing runs is thereby a theorem, and the
refinement of `AtomicSession` too.  Only model-checked are `SubmitFinishes` and
`ServesAgain`, since liveness is out of the prover's reach.

## What is not modelled

What is marked `not_modelled` in `PROJECT.json`: the mock question lookup, which
changes no state, and configuration, logging and helpers, which have none.  Of the
startup, the retries around Redis and the health check of a deployment are left
out; they keep no state that a property could be about.

* Requests that only read (searches, listings, profiles, certificates), except
  where what they would show is what a property is about.
* The contents of permissions: no request changes a role, and no router
  requires a permission.
* Signatures of tokens, which are taken to be perfect.
* A session whose test loses questions while it is taken.  The session has its own
  list, and what the engine does without a question's row is in `TestSession`
  (`rows`), so a composition with `Catalog` would add no new step.

## Plan

1. *Done:* `AtomicSession`, `TestSession`, their proofs; `Results` and its proofs.
2. *Done:* `Catalog` and its proofs.
3. *Done:* `Accounts` and `Login` with their proofs.
4. *Done:* `QuestionBank` with its proofs.
5. *Done:* `Migrations` with its proofs.
6. *Done:* the theorems of `QuestionBank` about sessions that do not overlap, and the
   groups of `Results`.
7. Left: a specification of `Login` by a set of valid tokens that it refines.

## Running

    tlc -config overlap.cfg MCTestSession      # serial, late_answer, score
    tlc -config results.cfg MCResults
    tlc -config shelves.cfg MCCatalog          # papers
    tlc -config accounts.cfg MCAccounts
    tlc -config login.cfg MCLogin              # no_store
    tlc -config bank.cfg MCQuestionBank
    tlc -config schema.cfg MCMigrations
    tlapm TestSessionProofs.tla                # and the other ...Proofs modules
