---------------------------- MODULE TestSession ----------------------------
(***************************************************************************)
(* The testing engine: SessionService and the router that calls it.        *)
(*                                                                         *)
(* A session is one Redis hash.  Every request that changes a session      *)
(*    1. reads the whole hash into an object (Load),                       *)
(*    2. changes the object in memory, and                                 *)
(*    3. writes the whole object back (one of the actions below Load).     *)
(* Between 1 and 3 the event loop, or another worker process, serves other *)
(* requests, and nothing compares the hash with what was read: requests on *)
(* one session are unsynchronised read-modify-write transactions.          *)
(*                                                                         *)
(* Only the owner's requests get past Load (the others are answered with   *)
(* 404), so the user of a request is not represented.  A reply the client  *)
(* never receives is followed, at most, by the same request again, which   *)
(* the specification contains as one more request.                         *)
(***************************************************************************)
EXTENDS Integers, FiniteSets

CONSTANTS
  Sessions,   \* primary keys of session hashes
  Requests,   \* slots for requests that are served concurrently
  N,          \* number of questions in a session
  Choices,    \* answers a client can send
  AnswerKey,  \* the correct answer of the question at each position
  KeepsNone,  \* does saving a field that is None leave the old field in place?
  RowSets,    \* the sets of positions whose question may have a QuestionRedis row
  MaxFaults,  \* bound on the failures of a behaviour
  NoSession, NoAnswer, NoScore, Idle

Idx == 0 .. N - 1

(***************************************************************************)
(* KeepsNone covers both ways the object mapper can save an optional field *)
(* whose value is None: HSET takes no nulls, so the field is either left   *)
(* out of the command, and an older value survives, or written as empty.   *)
(***************************************************************************)
ASSUME NAssumption == N \in Nat \ {0}
ASSUME KeyAssumption == AnswerKey \in [Idx -> Choices]
ASSUME RowSetsAssumption == RowSets \in SUBSET SUBSET Idx
ASSUME KeepsNoneAssumption == KeepsNone \in BOOLEAN
ASSUME MaxFaultsAssumption == MaxFaults \in Nat

VARIABLES
  store,       \* the session hashes
  req,         \* what each request being served holds in memory
  rows,        \* the questions of the session that have a QuestionRedis row
  faults       \* failures so far

vars == <<store, req, rows, faults>>
----------------------------------------------------------------------------
(* The session record.                                                     *)

\* CREATED exists in the enumeration but no code assigns it.
Status == {"ACTIVE", "FINISHED", "CLOSED"}

\* The JSON object of answers: NoAnswer stands for a key that is not there.
Answers == [Idx -> Choices \cup {NoAnswer}]

Answered(ans) == {i \in Idx : ans[i] # NoAnswer}

\* points is the number of correct answers: the stored float is 100 * points / N.
\* sheet, the answers that were scored, is a history component.
Score == [points : 0 .. N, sheet : Answers]

\* ended stands for time_finish and duration, which are always set together.
Session == [status    : Status,
            answers   : Answers,
            answered  : Nat,
            remaining : Nat,
            cur       : Int,
            ended     : BOOLEAN,
            score     : Score \cup {NoScore}]

NewSession == [status    |-> "ACTIVE",
               answers   |-> [i \in Idx |-> NoAnswer],
               answered  |-> 0,
               remaining |-> N,
               cur       |-> 0,
               ended     |-> FALSE,
               score     |-> NoScore]

ASSUME NoAnswerAssumption == NoAnswer \notin Choices
ASSUME NoScoreAssumption == NoScore \notin Score
ASSUME NoSessionAssumption == NoSession \notin Session
----------------------------------------------------------------------------
(* Scoring.                                                                *)

\* Python does not compare a str with an int as equal, whatever they spell.
Str(i) == <<"str", i>>
Int_(i) == <<"int", i>>

\* {q.index: q.correct_answer for q in questions}: QuestionRedis.index is a str.
QuestionMap == [k \in {Str(i) : i \in Idx} |-> AnswerKey[k[2]]]

\* question_map.get(int(question_index)) == answer
Credited(ans) ==
  {i \in Answered(ans) :
     /\ Int_(i) \in DOMAIN QuestionMap
     /\ QuestionMap[Int_(i)] = ans[i]}

ScoreSession(ans) == [points |-> Cardinality(Credited(ans)), sheet |-> ans]
----------------------------------------------------------------------------
(* What each service method makes of the object it was given.              *)

\* Mutated forms: counters that move at every answer, answers that replace the others.
RecountingAnswer(rec, i, c) ==
  [rec EXCEPT !.answers = [@ EXCEPT ![i] = c], !.answered = @ + 1, !.cur = i + 1]
UncheckedAnswer(rec, i, c) ==
  [rec EXCEPT !.answers   = [@ EXCEPT ![i] = c],
              !.answered  = @ + 1,
              !.remaining = @ - 1,
              !.cur       = i + 1]
OnlyAnswer(rec, i, c) ==
  [rec EXCEPT !.answers = [j \in Idx |-> IF j = i THEN c ELSE NoAnswer], !.cur = i + 1]

AfterAnswer(rec, i, c) ==
  LET first == rec.answers[i] = NoAnswer
  IN  [rec EXCEPT !.answers   = [@ EXCEPT ![i] = c],
                  !.answered  = IF first THEN @ + 1 ELSE @,
                  !.remaining = IF first /\ @ > 0 THEN @ - 1 ELSE @,
                  !.cur       = i + 1]

\* Mutated form: moving marks the session as active.
TouchingMove(rec, d) == [rec EXCEPT !.cur = @ + d, !.status = "ACTIVE"]

AfterMove(rec, d) == [rec EXCEPT !.cur = @ + d]

AfterFinish(rec) ==
  [rec EXCEPT !.status = "FINISHED",
              !.ended  = TRUE,
              !.score  = ScoreSession(rec.answers)]

AfterClose(rec) == [rec EXCEPT !.status = "CLOSED", !.ended = TRUE]

\* Mutated forms: guards that are missing or off by one.
AlwaysAnswers(rec) == rec.status \in Status
AnswersUntilClosed(rec) == rec.status # "CLOSED"
NextPastEnd(rec) == rec.cur < N
PrevPastStart(rec) == rec.cur >= 0
IsOver(rec) == rec.status # "ACTIVE"

CanAnswer(rec) == rec.status = "ACTIVE"
CanNext(rec) == rec.cur + 1 < N
CanPrev(rec) == rec.cur - 1 >= 0
IsFinished(rec) == rec.status = "FINISHED"
IsClosed(rec) == rec.status = "CLOSED"

\* Session.save(): one HSET of every field that is not None, over whatever is there.
Saved(old, new) ==
  [new EXCEPT !.ended = @ \/ (KeepsNone /\ old.ended),
              !.score = IF KeepsNone /\ @ = NoScore THEN old.score ELSE @]
----------------------------------------------------------------------------
(* What a client is shown of the object: the reply to most requests, and   *)
(* to those that only read a session, which change nothing.                *)

StatusName == [ACTIVE |-> "active", FINISHED |-> "completed", CLOSED |-> "expired"]

\* has_finish: are time_finish and duration_seconds more than a running clock?
Info(rec) == [status             |-> StatusName[rec.status],
              is_submitted       |-> StatusName[rec.status] = "completed",
              total_questions    |-> rec.answered + rec.remaining,
              questions_answered |-> rec.answered,
              has_finish         |-> rec.ended,
              score              |-> rec.score]

QuestionStatus(rec, i) == IF i \in Answered(rec.answers) THEN "answered" ELSE "unanswered"
----------------------------------------------------------------------------
(* Requests.                                                               *)

AnswerOp(i, c) == [kind |-> "answer", index |-> i, choice |-> c]
PlainOp(k) == [kind |-> k]

PlainKinds == {"next", "prev", "submit", "close"}

Op == [kind : {"answer"}, index : Idx, choice : Choices] \cup [kind : PlainKinds]

Serving == [sid : Sessions, op : Op, snap : Session]

ASSUME IdleAssumption == Idle \notin Serving

Pending(r, kind) == req[r] # Idle /\ req[r].op.kind = kind

Finish(r) == req' = [req EXCEPT ![r] = Idle]

Save(r, new) ==
  /\ store' = [store EXCEPT ![req[r].sid] = Saved(@, new)]
  /\ Finish(r)
  /\ UNCHANGED <<rows, faults>>
----------------------------------------------------------------------------
Init ==
  /\ store = [s \in Sessions |-> NoSession]
  /\ req = [r \in Requests |-> Idle]
  /\ rows \in RowSets
  /\ faults = 0

\* POST /tests/{testId}/start
Start(s) ==
  /\ store[s] = NoSession
  /\ store' = [store EXCEPT ![s] = NewSession]
  /\ UNCHANGED <<req, rows, faults>>

\* _load_user_session: the first half of every request on an existing session.
Load(r, s, op) ==
  /\ req[r] = Idle
  /\ store[s] # NoSession
  /\ req' = [req EXCEPT ![r] = [sid |-> s, op |-> op, snap |-> store[s]]]
  /\ UNCHANGED <<store, rows, faults>>

AnswerQuestion(r) ==
  /\ Pending(r, "answer")
  /\ CanAnswer(req[r].snap)
  /\ Save(r, AfterAnswer(req[r].snap, req[r].op.index, req[r].op.choice))

NextQuestion(r) ==
  /\ Pending(r, "next")
  /\ CanNext(req[r].snap)
  /\ Save(r, AfterMove(req[r].snap, 1))

PrevQuestion(r) ==
  /\ Pending(r, "prev")
  /\ CanPrev(req[r].snap)
  /\ Save(r, AfterMove(req[r].snap, -1))

Submit(r) ==
  /\ Pending(r, "submit")
  /\ ~ IsFinished(req[r].snap)
  /\ rows = Idx
  /\ Save(r, AfterFinish(req[r].snap))

Close(r) ==
  /\ Pending(r, "close")
  /\ ~ IsClosed(req[r].snap)
  /\ Save(r, AfterClose(req[r].snap))

\* finish() of a finished session, close() of a closed one: success, no write.
AlreadyDone(r) ==
  /\ \/ Pending(r, "submit") /\ IsFinished(req[r].snap)
     \/ Pending(r, "close") /\ IsClosed(req[r].snap)
  /\ Finish(r)
  /\ UNCHANGED <<store, rows, faults>>

\* An error reply without a write: 404 at either end of the question list, 500 for
\* an answer to a session that is not active, and 500 for a question without a row.
Refuse(r) ==
  /\ \/ Pending(r, "answer") /\ ~ CanAnswer(req[r].snap)
     \/ Pending(r, "next") /\ ~ CanNext(req[r].snap)
     \/ Pending(r, "prev") /\ ~ CanPrev(req[r].snap)
     \/ Pending(r, "submit") /\ ~ IsFinished(req[r].snap) /\ rows # Idx
  /\ Finish(r)
  /\ UNCHANGED <<store, rows, faults>>

Serve(r) ==
  \/ AnswerQuestion(r)
  \/ NextQuestion(r)
  \/ PrevQuestion(r)
  \/ Submit(r)
  \/ Close(r)
  \/ AlreadyDone(r)
  \/ Refuse(r)

\* The server is killed and restarted: what requests hold in memory is lost.
Crash ==
  /\ faults < MaxFaults
  /\ \E r \in Requests : req[r] # Idle
  /\ faults' = faults + 1
  /\ req' = [r \in Requests |-> Idle]
  /\ UNCHANGED <<store, rows>>

\* Redis refuses the command of one request: 500, and nothing is written.
SaveFails(r) ==
  /\ faults < MaxFaults
  /\ req[r] # Idle
  /\ faults' = faults + 1
  /\ Finish(r)
  /\ UNCHANGED <<store, rows>>

ServerStep ==
  \/ \E s \in Sessions : Start(s)
  \/ \E r \in Requests : Serve(r)
  \/ \E r \in Requests : SaveFails(r)
  \/ Crash

Next == ServerStep \/ \E r \in Requests, s \in Sessions, op \in Op : Load(r, s, op)

(***************************************************************************)
(* Fairness.  The event loop runs every task that is ready, so a request   *)
(* that was read in is eventually served.  That the student submits again  *)
(* and again is an assumption on the client, not on the code.              *)
(***************************************************************************)
Fairness ==
  /\ \A r \in Requests : WF_vars(Serve(r))
  /\ \A s \in Sessions : SF_vars(\E r \in Requests : Load(r, s, PlainOp("submit")))

Spec == Init /\ [][Next]_vars /\ Fairness

\* A client that waits for each reply before its next request on the session.
LoadAlone(r, s, op) ==
  /\ \A q \in Requests : req[q] # Idle => req[q].sid # s
  /\ Load(r, s, op)

SerialNext ==
  ServerStep \/ \E r \in Requests, s \in Sessions, op \in Op : LoadAlone(r, s, op)

SerialSpec == Init /\ [][SerialNext]_vars
----------------------------------------------------------------------------
(* Properties of every behaviour, overlapping requests included.           *)

TypeOK ==
  /\ store \in [Sessions -> Session \cup {NoSession}]
  /\ req \in [Requests -> Serving \cup {Idle}]
  /\ rows \in RowSets
  /\ faults \in 0 .. MaxFaults

\* A predicate of every session record there is, stored or in a request's memory.
EveryRecord(P(_)) ==
  /\ \A s \in Sessions : store[s] # NoSession => P(store[s])
  /\ \A r \in Requests : req[r] # Idle => P(req[r].snap)

CountersAgree(rec) ==
  /\ Info(rec).questions_answered =
       Cardinality({i \in Idx : QuestionStatus(rec, i) = "answered"})
  /\ Info(rec).total_questions = N

\* However requests overlap, repeat or are lost, a reply's questions_answered is the
\* number of questions listed as answered, and its total_questions is always N.
CountersMatch == EveryRecord(CountersAgree)

PointerOnPaper(rec) ==
  /\ rec.cur \in 0 .. N
  /\ rec.cur = N => rec.answers[N - 1] # NoAnswer

\* current_question_index is a question of the session, or one past the last
\* question, and then only when the last question has an answer.
PointerInRange == EveryRecord(PointerOnPaper)

OutcomeOf(rec) ==
  /\ Info(rec).status # "active" => Info(rec).has_finish
  /\ Info(rec).is_submitted => /\ Info(rec).score # NoScore
                               /\ Info(rec).score.sheet = rec.answers

\* A session shown as completed or expired has its finishing time and duration, and
\* a completed one has a score, computed from exactly the answers it shows.
OutcomeRecorded == EveryRecord(OutcomeOf)

\* A student who goes on submitting has the session finished at some time, when
\* the questions can be loaded, even with requests that overlap and fail.
SubmitFinishes ==
  \A s \in Sessions :
    (rows = Idx /\ store[s] # NoSession) ~> (store[s] # NoSession /\ store[s].status = "FINISHED")
----------------------------------------------------------------------------
(* Properties of a client that waits for each reply.                       *)

\* A question whose answer was saved, and so confirmed to the client, stays answered.
AnswersKept ==
  [][\A s \in Sessions :
       store[s] # NoSession => Answered(store[s].answers) \subseteq Answered(store'[s].answers)]_vars

\* A session that was finished or closed is never active again.
NoReopen ==
  [][\A s \in Sessions :
       store[s] # NoSession /\ store[s].status # "ACTIVE" => store'[s].status # "ACTIVE"]_vars

\* "Cannot answer questions in a non-active session."
AnswersFrozen ==
  [][\A s \in Sessions :
       store[s] # NoSession /\ store[s].status # "ACTIVE"
         => store'[s].answers = store[s].answers]_vars

\* "Calculate session score in percent."
ScoreIsPercentCorrect ==
  \A s \in Sessions :
    store[s] # NoSession /\ store[s].status = "FINISHED" =>
      store[s].score.points =
        Cardinality({i \in Idx : store[s].answers[i] = AnswerKey[i]})

\* The abstract session: what the record says, without what it repeats.
Paper(rec) ==
  [status  |-> rec.status,
   answers |-> rec.answers,
   cur     |-> rec.cur,
   graded  |-> IF rec.score = NoScore THEN NoScore ELSE rec.score.sheet]

Papers == [s \in Sessions |-> IF store[s] = NoSession THEN NoSession ELSE Paper(store[s])]

Atomic == INSTANCE AtomicSession WITH NoGrade <- NoScore, paper <- Papers

ASSUME PaperAssumption == NoSession \notin Atomic!Paper

\* Requests that do not overlap take effect at once, or not at all.
ImplementsAtomic == Atomic!Spec
=============================================================================
