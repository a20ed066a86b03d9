------------------------- MODULE TestSessionProofs -------------------------
(***************************************************************************)
(* What holds of TestSession for every number of sessions, of concurrent   *)
(* requests, of questions and of choices, and for both ways of saving      *)
(* None.  The argument is that a write replaces the whole record: it can   *)
(* replace it by one that is out of date, never by one that disagrees with *)
(* itself.  So a property of single records that every service method      *)
(* preserves is an invariant, however requests overlap.                    *)
(***************************************************************************)
EXTENDS TestSession, FiniteSetTheorems, TLAPS

\* The three properties of a single record that are preserved together.
Sound(rec) == CountersAgree(rec) /\ PointerOnPaper(rec) /\ OutcomeOf(rec)

\* Requests are only served for sessions that were started.
ServesStarted == \A r \in Requests : req[r] # Idle => store[req[r].sid] # NoSession

\* The inductive invariant: records in memory are as sound as those in the store.
IInv == TypeOK /\ EveryRecord(Sound) /\ ServesStarted
----------------------------------------------------------------------------
(* Counting answers.                                                       *)

\* The questions of a session are finitely many, and N of them.
LEMMA IdxFinite == IsFiniteSet(Idx) /\ Cardinality(Idx) = N
<1>1. 0 \in Int /\ N - 1 \in Int  BY NAssumption
<1>2. IsFiniteSet(0 .. N - 1) /\ Cardinality(0 .. N - 1) = IF 0 > N - 1 THEN 0 ELSE N - 1 - 0 + 1
  BY <1>1, FS_Interval
<1> QED  BY <1>2, NAssumption DEF Idx

\* Any set of questions is finite and has at most N members.
LEMMA SubsetOfIdx ==
  ASSUME NEW S \in SUBSET Idx
  PROVE  IsFiniteSet(S) /\ Cardinality(S) \in 0 .. N
<1>1. IsFiniteSet(S) /\ Cardinality(S) <= Cardinality(Idx)  BY IdxFinite, FS_Subset
<1>2. Cardinality(S) \in Nat  BY <1>1, FS_CardinalityType
<1> QED  BY <1>1, <1>2, IdxFinite, NAssumption

\* A first answer adds one question to those that are answered; an answer that
\* replaces another leaves them alone.
LEMMA AnsweredAfter ==
  ASSUME NEW ans \in Answers, NEW i \in Idx, NEW c \in Choices
  PROVE  /\ [ans EXCEPT ![i] = c] \in Answers
         /\ ans[i] = NoAnswer =>
              /\ Cardinality(Answered([ans EXCEPT ![i] = c])) = Cardinality(Answered(ans)) + 1
              /\ Cardinality(Answered(ans)) < N
         /\ ans[i] # NoAnswer => Answered([ans EXCEPT ![i] = c]) = Answered(ans)
<1> DEFINE new == [ans EXCEPT ![i] = c]
<1>1. new \in Answers  BY DEF Answers
<1>2. Answered(new) = Answered(ans) \cup {i}
  BY NoAnswerAssumption DEF Answered, Answers
<1>3. ASSUME ans[i] = NoAnswer
      PROVE  Cardinality(Answered(new)) = Cardinality(Answered(ans)) + 1 /\ Cardinality(Answered(ans)) < N
  <2>1. Answered(ans) \in SUBSET Idx /\ i \notin Answered(ans)  BY <1>3 DEF Answered
  <2>2. IsFiniteSet(Answered(ans)) /\ Cardinality(Answered(ans)) \in 0 .. N  BY <2>1, SubsetOfIdx
  <2>3. Cardinality(Answered(ans) \cup {i}) = Cardinality(Answered(ans)) + 1
    BY <2>1, <2>2, FS_AddElement
  <2>4. Answered(ans) \cup {i} \in SUBSET Idx  BY <2>1
  <2>5. Cardinality(Answered(ans) \cup {i}) \in 0 .. N  BY <2>4, SubsetOfIdx
  <2>6. Cardinality(Answered(new)) = Cardinality(Answered(ans)) + 1  BY <1>2, <2>3
  <2>7. Cardinality(Answered(ans)) < N  BY <2>2, <2>3, <2>5, NAssumption
  <2> QED  BY <2>6, <2>7
<1>4. ans[i] # NoAnswer => Answered(new) = Answered(ans)
  BY <1>2 DEF Answered
<1> QED  BY <1>1, <1>3, <1>4

\* What CountersAgree says, without the reply it is read from.
LEMMA CountersAgreeIs ==
  ASSUME NEW rec \in Session
  PROVE  CountersAgree(rec) <=> /\ rec.answered = Cardinality(Answered(rec.answers))
                                /\ rec.answered + rec.remaining = N
<1>1. {i \in Idx : QuestionStatus(rec, i) = "answered"} = Answered(rec.answers)
  BY DEF QuestionStatus, Answered
<1> QED  BY <1>1 DEF CountersAgree, Info

\* What OutcomeOf says, without the reply it is read from.
LEMMA OutcomeOfIs ==
  ASSUME NEW rec \in Session
  PROVE  OutcomeOf(rec) <=> /\ rec.status # "ACTIVE" => rec.ended
                            /\ rec.status = "FINISHED" => /\ rec.score # NoScore
                                                          /\ rec.score.sheet = rec.answers
<1>1. rec.status \in {"ACTIVE", "FINISHED", "CLOSED"}  BY DEF Session, Status
<1>2. rec.ended \in BOOLEAN  BY DEF Session
<1>3. /\ Info(rec).status = StatusName[rec.status]
      /\ Info(rec).is_submitted = (StatusName[rec.status] = "completed")
      /\ Info(rec).has_finish = rec.ended
      /\ Info(rec).score = rec.score
  BY DEF Info
<1>4. /\ StatusName["ACTIVE"] = "active"
      /\ StatusName["FINISHED"] = "completed"
      /\ StatusName["CLOSED"] = "expired"
  BY DEF StatusName
<1>5. (StatusName[rec.status] # "active") <=> (rec.status # "ACTIVE")  BY <1>1, <1>4
<1>6. (StatusName[rec.status] = "completed") <=> (rec.status = "FINISHED")  BY <1>1, <1>4
<1> QED  BY <1>2, <1>3, <1>5, <1>6 DEF OutcomeOf
----------------------------------------------------------------------------
(* Every service method turns a sound record into a sound record.          *)

LEMMA NewSessionSound == NewSession \in Session /\ Sound(NewSession)
<1>1. NewSession \in Session
  BY NAssumption DEF NewSession, Session, Status, Answers
<1>2. Answered(NewSession.answers) = {}  BY DEF NewSession, Answered
<1>3. CountersAgree(NewSession)
  BY <1>1, <1>2, CountersAgreeIs, FS_EmptySet, NAssumption DEF NewSession
<1>4. PointerOnPaper(NewSession)  BY NAssumption DEF PointerOnPaper, NewSession
<1>5. OutcomeOf(NewSession)  BY <1>1, OutcomeOfIs DEF NewSession
<1> QED  BY <1>1, <1>3, <1>4, <1>5 DEF Sound

LEMMA AnswerSound ==
  ASSUME NEW rec \in Session, Sound(rec), CanAnswer(rec), NEW i \in Idx, NEW c \in Choices
  PROVE  AfterAnswer(rec, i, c) \in Session /\ Sound(AfterAnswer(rec, i, c))
<1> DEFINE new == AfterAnswer(rec, i, c)
<1>1. /\ rec.answers \in Answers /\ rec.answered \in Nat /\ rec.remaining \in Nat
      /\ i \in Int
  BY NAssumption DEF Session, Idx
<1>2. new \in Session
  <2>1. [rec.answers EXCEPT ![i] = c] \in Answers  BY <1>1, AnsweredAfter
  <2>2. /\ rec.answered + 1 \in Nat /\ i + 1 \in Int
        /\ rec.remaining > 0 => rec.remaining - 1 \in Nat
    BY <1>1
  <2> QED  BY <1>1, <2>1, <2>2 DEF AfterAnswer, Session
<1>3. /\ new.status = rec.status
      /\ new.answers = [rec.answers EXCEPT ![i] = c]
      /\ new.cur = i + 1
      /\ new.answered = IF rec.answers[i] = NoAnswer THEN rec.answered + 1 ELSE rec.answered
      /\ new.remaining = IF rec.answers[i] = NoAnswer /\ rec.remaining > 0
                           THEN rec.remaining - 1 ELSE rec.remaining
  BY DEF AfterAnswer, Session
<1>4. CountersAgree(new)
  <2>1. rec.answered = Cardinality(Answered(rec.answers)) /\ rec.answered + rec.remaining = N
    BY CountersAgreeIs DEF Sound
  <2>2. CASE rec.answers[i] = NoAnswer
    <3>1. /\ Cardinality(Answered(new.answers)) = rec.answered + 1
          /\ rec.answered < N
      BY <1>1, <1>3, <2>1, <2>2, AnsweredAfter
    <3> QED  BY <1>1, <1>2, <1>3, <2>1, <2>2, <3>1, CountersAgreeIs, NAssumption
  <2>3. CASE rec.answers[i] # NoAnswer
    <3>1. Answered(new.answers) = Answered(rec.answers)  BY <1>1, <1>3, <2>3, AnsweredAfter
    <3> QED  BY <1>2, <1>3, <2>1, <2>3, <3>1, CountersAgreeIs
  <2> QED  BY <2>2, <2>3
<1>5. PointerOnPaper(new)
  <2>1. new.cur \in 0 .. N  BY <1>3, NAssumption DEF Idx
  <2>2. ASSUME new.cur = N PROVE new.answers[N - 1] # NoAnswer
    <3>1. i = N - 1  BY <1>1, <1>3, <2>2, NAssumption
    <3> QED  BY <1>1, <1>3, <3>1, NoAnswerAssumption DEF Answers
  <2> QED  BY <2>1, <2>2 DEF PointerOnPaper
<1>6. OutcomeOf(new)  BY <1>2, <1>3, OutcomeOfIs DEF CanAnswer
<1> QED  BY <1>2, <1>4, <1>5, <1>6 DEF Sound

LEMMA MoveSound ==
  ASSUME NEW rec \in Session, Sound(rec), NEW d \in Int, rec.cur + d \in Idx
  PROVE  AfterMove(rec, d) \in Session /\ Sound(AfterMove(rec, d))
<1> DEFINE new == AfterMove(rec, d)
<1>1. new \in Session  BY DEF AfterMove, Session
<1>2. /\ new.status = rec.status /\ new.answers = rec.answers /\ new.answered = rec.answered
      /\ new.remaining = rec.remaining /\ new.ended = rec.ended /\ new.score = rec.score
      /\ new.cur = rec.cur + d
  BY DEF AfterMove, Session
<1>3. CountersAgree(new)  BY <1>1, <1>2, CountersAgreeIs DEF Sound
<1>4. PointerOnPaper(new)  BY <1>2, NAssumption DEF PointerOnPaper, Idx
<1>5. OutcomeOf(new)  BY <1>1, <1>2, OutcomeOfIs DEF Sound
<1> QED  BY <1>1, <1>3, <1>4, <1>5 DEF Sound

\* The score of any answers is the score of those answers, and a percentage.
LEMMA ScoreType ==
  ASSUME NEW ans \in Answers
  PROVE  ScoreSession(ans) \in Score /\ ScoreSession(ans).sheet = ans
<1>1. Credited(ans) \in SUBSET Idx  BY DEF Credited, Answered
<1>2. Cardinality(Credited(ans)) \in 0 .. N  BY <1>1, SubsetOfIdx
<1> QED  BY <1>2 DEF ScoreSession, Score

LEMMA FinishSound ==
  ASSUME NEW rec \in Session, Sound(rec)
  PROVE  AfterFinish(rec) \in Session /\ Sound(AfterFinish(rec))
<1> DEFINE new == AfterFinish(rec)
<1>1. rec.answers \in Answers  BY DEF Session
<1>2. ScoreSession(rec.answers) \in Score /\ ScoreSession(rec.answers).sheet = rec.answers
  BY <1>1, ScoreType
<1>3. new \in Session  BY <1>2 DEF AfterFinish, Session, Status
<1>4. /\ new.ended /\ new.answers = rec.answers /\ new.answered = rec.answered
      /\ new.remaining = rec.remaining /\ new.cur = rec.cur
      /\ new.score = ScoreSession(rec.answers)
  BY DEF AfterFinish, Session
<1>5. CountersAgree(new)  BY <1>3, <1>4, CountersAgreeIs DEF Sound
<1>6. PointerOnPaper(new)  BY <1>4 DEF PointerOnPaper, Sound
<1>7. OutcomeOf(new)  BY <1>2, <1>3, <1>4, OutcomeOfIs, NoScoreAssumption
<1> QED  BY <1>3, <1>5, <1>6, <1>7 DEF Sound

LEMMA CloseSound ==
  ASSUME NEW rec \in Session, Sound(rec)
  PROVE  AfterClose(rec) \in Session /\ Sound(AfterClose(rec))
<1> DEFINE new == AfterClose(rec)
<1>1. new \in Session  BY DEF AfterClose, Session, Status
<1>2. /\ new.status = "CLOSED" /\ new.ended /\ new.answers = rec.answers
      /\ new.answered = rec.answered /\ new.remaining = rec.remaining /\ new.cur = rec.cur
  BY DEF AfterClose, Session
<1>3. CountersAgree(new)  BY <1>1, <1>2, CountersAgreeIs DEF Sound
<1>4. PointerOnPaper(new)  BY <1>2 DEF PointerOnPaper, Sound
<1>5. OutcomeOf(new)  BY <1>1, <1>2, OutcomeOfIs
<1> QED  BY <1>1, <1>3, <1>4, <1>5 DEF Sound

\* Saving a sound record over any record leaves a sound record: an optional field
\* that survives from the old one is never one that the new status makes a claim of.
LEMMA SavedSound ==
  ASSUME NEW old \in Session, NEW new \in Session, Sound(new)
  PROVE  Saved(old, new) \in Session /\ Sound(Saved(old, new))
<1> DEFINE rec == Saved(old, new)
<1>1. /\ old.ended \in BOOLEAN /\ new.ended \in BOOLEAN /\ KeepsNone \in BOOLEAN
      /\ old.score \in Score \cup {NoScore} /\ new.score \in Score \cup {NoScore}
  BY KeepsNoneAssumption DEF Session
<1>2. /\ rec.status = new.status /\ rec.answers = new.answers /\ rec.answered = new.answered
      /\ rec.remaining = new.remaining /\ rec.cur = new.cur
      /\ rec.ended = (new.ended \/ (KeepsNone /\ old.ended))
      /\ rec.score = IF KeepsNone /\ new.score = NoScore THEN old.score ELSE new.score
  BY DEF Saved, Session
<1>3. rec \in Session  BY <1>1 DEF Saved, Session
<1>4. CountersAgree(rec)  BY <1>2, <1>3, CountersAgreeIs DEF Sound
<1>5. PointerOnPaper(rec)  BY <1>2 DEF PointerOnPaper, Sound
<1>6. OutcomeOf(rec)  BY <1>2, <1>3, OutcomeOfIs DEF Sound
<1> QED  BY <1>3, <1>4, <1>5, <1>6 DEF Sound
----------------------------------------------------------------------------
(* The invariant is inductive.                                             *)

LEMMA InitIInv == Init => IInv
<1> SUFFICES ASSUME Init PROVE IInv  OBVIOUS
<1>1. TypeOK  BY MaxFaultsAssumption DEF Init, TypeOK
<1>2. EveryRecord(Sound)  BY DEF Init, EveryRecord
<1>3. ServesStarted  BY DEF Init, ServesStarted
<1> QED  BY <1>1, <1>2, <1>3 DEF IInv

\* A request that is being served was read from a session, and its record is sound.
LEMMA PendingSound ==
  ASSUME IInv, NEW r \in Requests, req[r] # Idle
  PROVE  /\ req[r] \in Serving
         /\ req[r].sid \in Sessions /\ req[r].op \in Op
         /\ req[r].snap \in Session /\ Sound(req[r].snap)
         /\ store[req[r].sid] \in Session
<1>1. /\ req[r] \in Serving /\ Sound(req[r].snap)
      /\ store[req[r].sid] # NoSession /\ store \in [Sessions -> Session \cup {NoSession}]
  BY DEF IInv, TypeOK, EveryRecord, ServesStarted
<1> QED  BY <1>1 DEF Serving

\* Ending a request, with nothing written, keeps the invariant.
LEMMA FinishPreserves ==
  ASSUME IInv, NEW r \in Requests, Finish(r), UNCHANGED <<store, rows>>, faults' \in 0 .. MaxFaults
  PROVE  IInv'
<1>1. TypeOK'  BY DEF IInv, TypeOK, Finish
<1>2. EveryRecord(Sound)'  BY DEF IInv, TypeOK, EveryRecord, Finish
<1>3. ServesStarted'  BY DEF IInv, TypeOK, ServesStarted, Finish
<1> QED  BY <1>1, <1>2, <1>3 DEF IInv

\* Saving a sound record keeps the invariant, whatever the store holds by now.
LEMMA SavePreserves ==
  ASSUME IInv, NEW r \in Requests, req[r] # Idle, NEW new \in Session, Sound(new), Save(r, new)
  PROVE  IInv'
<1> DEFINE s == req[r].sid
           rec == Saved(store[s], new)
<1>1. s \in Sessions /\ store[s] \in Session  BY PendingSound
<1>2. store \in [Sessions -> Session \cup {NoSession}]  BY DEF IInv, TypeOK
<1>3. rec \in Session /\ Sound(rec)  BY <1>1, SavedSound
<1>4. store' = [store EXCEPT ![s] = rec]  BY DEF Save
<1>5. TypeOK'  BY <1>1, <1>2, <1>3, <1>4 DEF IInv, TypeOK, Save, Finish
<1>6. \A t \in Sessions : store'[t] # NoSession => Sound(store'[t])
  BY <1>1, <1>2, <1>3, <1>4 DEF IInv, EveryRecord
<1>7. \A q \in Requests : req'[q] # Idle => Sound(req'[q].snap)
  BY DEF IInv, TypeOK, EveryRecord, Save, Finish
<1>8. ServesStarted'
  <2>1. \A t \in Sessions : store[t] # NoSession => store'[t] # NoSession
    BY <1>1, <1>2, <1>3, <1>4, NoSessionAssumption
  <2> QED
    BY <2>1 DEF IInv, TypeOK, ServesStarted, Save, Finish, Serving
<1> QED  BY <1>5, <1>6, <1>7, <1>8 DEF IInv, EveryRecord

\* Serving a request writes a sound record, however old the one it starts from is,
\* or only ends the request.
LEMMA ServeSaves ==
  ASSUME IInv, NEW r \in Requests, Serve(r)
  PROVE  \/ req[r] # Idle /\ \E new \in Session : Sound(new) /\ Save(r, new)
         \/ Finish(r) /\ UNCHANGED <<store, rows, faults>>
<1> DEFINE snap == req[r].snap
<1>1. CASE AnswerQuestion(r)
  <2>1. /\ req[r] # Idle /\ req[r].op.kind = "answer" /\ CanAnswer(snap)
        /\ Save(r, AfterAnswer(snap, req[r].op.index, req[r].op.choice))
    BY <1>1 DEF AnswerQuestion, Pending
  <2>2. snap \in Session /\ Sound(snap) /\ req[r].op \in Op  BY <2>1, PendingSound
  <2>3. req[r].op.index \in Idx /\ req[r].op.choice \in Choices
    BY <2>1, <2>2 DEF Op, PlainKinds
  <2>4. /\ AfterAnswer(snap, req[r].op.index, req[r].op.choice) \in Session
        /\ Sound(AfterAnswer(snap, req[r].op.index, req[r].op.choice))
    BY <2>1, <2>2, <2>3, AnswerSound
  <2> QED  BY <2>1, <2>4
<1>2. CASE NextQuestion(r)
  <2>1. req[r] # Idle /\ CanNext(snap) /\ Save(r, AfterMove(snap, 1))
    BY <1>2 DEF NextQuestion, Pending
  <2>2. snap \in Session /\ Sound(snap)  BY <2>1, PendingSound
  <2>3. snap.cur + 1 \in Idx
    BY <2>1, <2>2, NAssumption DEF CanNext, Sound, PointerOnPaper, Idx
  <2>4. AfterMove(snap, 1) \in Session /\ Sound(AfterMove(snap, 1))
    BY <2>2, <2>3, MoveSound
  <2> QED  BY <2>1, <2>4
<1>3. CASE PrevQuestion(r)
  <2>1. req[r] # Idle /\ CanPrev(snap) /\ Save(r, AfterMove(snap, -1))
    BY <1>3 DEF PrevQuestion, Pending
  <2>2. snap \in Session /\ Sound(snap)  BY <2>1, PendingSound
  <2>3. snap.cur + (-1) \in Idx
    BY <2>1, <2>2, NAssumption DEF CanPrev, Sound, PointerOnPaper, Idx
  <2>4. AfterMove(snap, -1) \in Session /\ Sound(AfterMove(snap, -1))
    BY <2>2, <2>3, MoveSound
  <2> QED  BY <2>1, <2>4
<1>4. CASE Submit(r)
  <2>1. req[r] # Idle /\ Save(r, AfterFinish(snap))  BY <1>4 DEF Submit, Pending
  <2>2. AfterFinish(snap) \in Session /\ Sound(AfterFinish(snap))
    BY <2>1, PendingSound, FinishSound
  <2> QED  BY <2>1, <2>2
<1>5. CASE Close(r)
  <2>1. req[r] # Idle /\ Save(r, AfterClose(snap))  BY <1>5 DEF Close, Pending
  <2>2. AfterClose(snap) \in Session /\ Sound(AfterClose(snap))
    BY <2>1, PendingSound, CloseSound
  <2> QED  BY <2>1, <2>2
<1>6. CASE AlreadyDone(r) \/ Refuse(r)  BY <1>6 DEF AlreadyDone, Refuse
<1> QED  BY <1>1, <1>2, <1>3, <1>4, <1>5, <1>6 DEF Serve

LEMMA ServePreserves ==
  ASSUME IInv, NEW r \in Requests, Serve(r)
  PROVE  IInv'
<1>1. CASE req[r] # Idle /\ \E new \in Session : Sound(new) /\ Save(r, new)
  BY <1>1, SavePreserves
<1>2. CASE Finish(r) /\ UNCHANGED <<store, rows, faults>>
  BY <1>2, FinishPreserves DEF IInv, TypeOK
<1> QED  BY <1>1, <1>2, ServeSaves

LEMMA StartPreserves ==
  ASSUME IInv, NEW s \in Sessions, Start(s)
  PROVE  IInv'
<1>1. NewSession \in Session /\ Sound(NewSession)  BY NewSessionSound
<1>2. TypeOK'  BY <1>1 DEF IInv, TypeOK, Start
<1>3. \A t \in Sessions : store'[t] # NoSession => Sound(store'[t])
  BY <1>1 DEF IInv, TypeOK, EveryRecord, Start
<1>4. EveryRecord(Sound)'  BY <1>3 DEF IInv, EveryRecord, Start
<1>5. ServesStarted'
  BY <1>1, NoSessionAssumption DEF IInv, TypeOK, ServesStarted, Start, Serving
<1> QED  BY <1>2, <1>4, <1>5 DEF IInv

LEMMA LoadPreserves ==
  ASSUME IInv, NEW r \in Requests, NEW s \in Sessions, NEW op \in Op, Load(r, s, op)
  PROVE  IInv'
<1> DEFINE held == [sid |-> s, op |-> op, snap |-> store[s]]
<1>1. store[s] \in Session /\ Sound(store[s]) /\ store[s] # NoSession
  BY DEF IInv, TypeOK, EveryRecord, Load
<1>2. held \in Serving /\ held.snap = store[s] /\ held.sid = s  BY <1>1 DEF Serving
<1>3. req' = [req EXCEPT ![r] = held]  BY DEF Load
<1>4. TypeOK'  BY <1>2, <1>3 DEF IInv, TypeOK, Load
<1>5. \A q \in Requests : req'[q] # Idle => Sound(req'[q].snap)
  BY <1>1, <1>2, <1>3 DEF IInv, TypeOK, EveryRecord
<1>6. EveryRecord(Sound)'  BY <1>5 DEF IInv, EveryRecord, Load
<1>7. ServesStarted'
  BY <1>1, <1>2, <1>3 DEF IInv, TypeOK, ServesStarted, Load
<1> QED  BY <1>4, <1>6, <1>7 DEF IInv

LEMMA ServerStepPreserves ==
  ASSUME IInv, ServerStep
  PROVE  IInv'
<1>1. ASSUME NEW s \in Sessions, Start(s) PROVE IInv'  BY <1>1, StartPreserves
<1>2. ASSUME NEW r \in Requests, Serve(r) PROVE IInv'  BY <1>2, ServePreserves
<1>3. ASSUME NEW r \in Requests, SaveFails(r) PROVE IInv'
  <2>1. faults' \in 0 .. MaxFaults
    BY <1>3, MaxFaultsAssumption DEF SaveFails, IInv, TypeOK
  <2> QED  BY <1>3, <2>1, FinishPreserves DEF SaveFails
<1>4. CASE Crash
  <2>1. faults' \in 0 .. MaxFaults
    BY <1>4, MaxFaultsAssumption DEF Crash, IInv, TypeOK
  <2>2. TypeOK'  BY <1>4, <2>1 DEF Crash, IInv, TypeOK
  <2>3. EveryRecord(Sound)'  BY <1>4 DEF Crash, IInv, EveryRecord
  <2>4. ServesStarted'  BY <1>4 DEF Crash, ServesStarted
  <2> QED  BY <2>2, <2>3, <2>4 DEF IInv
<1> QED  BY <1>1, <1>2, <1>3, <1>4 DEF ServerStep

LEMMA StutterPreserves ==
  ASSUME IInv, UNCHANGED vars
  PROVE  IInv'
BY DEF IInv, TypeOK, EveryRecord, ServesStarted, vars

LEMMA NextPreserves == IInv /\ [Next]_vars => IInv'
<1> SUFFICES ASSUME IInv, [Next]_vars PROVE IInv'  OBVIOUS
<1>1. CASE ServerStep  BY <1>1, ServerStepPreserves
<1>2. ASSUME NEW r \in Requests, NEW s \in Sessions, NEW op \in Op, Load(r, s, op)
      PROVE  IInv'
  BY <1>2, LoadPreserves
<1>3. CASE UNCHANGED vars  BY <1>3, StutterPreserves
<1> QED  BY <1>1, <1>2, <1>3 DEF Next

LEMMA InvariantIInv == Spec => []IInv
<1> QED  BY InitIInv, NextPreserves, PTL DEF Spec
----------------------------------------------------------------------------
(* The theorems.                                                           *)

\* Every reachable state, requests in memory included, has the types declared.
THEOREM TypeCorrect == Spec => []TypeOK
<1>1. IInv => TypeOK  BY DEF IInv
<1> QED  BY <1>1, InvariantIInv, PTL

\* The counters of a session are those of its answers, for any number of requests
\* that overlap, and however often they are repeated or lost.
THEOREM CountersAlwaysMatch == Spec => []CountersMatch
<1>1. IInv => CountersMatch  BY DEF IInv, EveryRecord, Sound, CountersMatch
<1> QED  BY <1>1, InvariantIInv, PTL

\* No sequence of moves and answers takes the pointer off the paper.
THEOREM PointerAlwaysInRange == Spec => []PointerInRange
<1>1. IInv => PointerInRange  BY DEF IInv, EveryRecord, Sound, PointerInRange
<1> QED  BY <1>1, InvariantIInv, PTL

\* A session that is not active always has an outcome, and a finished one always has
\* the score of the answers it shows, even after stale writes and failures.
THEOREM OutcomeAlwaysRecorded == Spec => []OutcomeRecorded
<1>1. IInv => OutcomeRecorded  BY DEF IInv, EveryRecord, Sound, OutcomeRecorded
<1> QED  BY <1>1, InvariantIInv, PTL
=============================================================================
