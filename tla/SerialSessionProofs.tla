------------------------ MODULE SerialSessionProofs ------------------------
(***************************************************************************)
(* A client that waits for each reply sees an atomic session, for every    *)
(* number of sessions, request slots, questions and choices.               *)
(*                                                                         *)
(* Only Load differs from TestSession: it waits until no other request is  *)
(* served on the session.  The invariant this adds is that what a request  *)
(* holds in memory is what the store holds, so that the write of a request *)
(* is the abstract operation and everything else is a stutter.             *)
(***************************************************************************)
EXTENDS TestSessionProofs

\* At most one request is served on a session at a time.
OneAtATime ==
  \A q, r \in Requests : req[q] # Idle /\ req[r] # Idle /\ req[q].sid = req[r].sid => q = r

\* Nothing was written to a session since the request being served read it.
Fresh == \A r \in Requests : req[r] # Idle => req[r].snap = store[req[r].sid]

SerialInv == IInv /\ OneAtATime /\ Fresh
----------------------------------------------------------------------------
LEMMA InitSerialInv == Init => SerialInv
<1>1. Init => OneAtATime /\ Fresh  BY DEF Init, OneAtATime, Fresh
<1> QED  BY <1>1, InitIInv DEF SerialInv

\* A serial step is a step of TestSession.
LEMMA SerialIsNext == SerialNext => Next
BY DEF SerialNext, Next, LoadAlone

LEMMA EndPreservesSerial ==
  ASSUME SerialInv, NEW r \in Requests, Finish(r), UNCHANGED store
  PROVE  OneAtATime' /\ Fresh'
BY DEF SerialInv, IInv, TypeOK, OneAtATime, Fresh, Finish

LEMMA SavePreservesSerial ==
  ASSUME SerialInv, NEW r \in Requests, req[r] # Idle, NEW new, Save(r, new)
  PROVE  OneAtATime' /\ Fresh'
<1>1. req' = [req EXCEPT ![r] = Idle] /\ req \in [Requests -> Serving \cup {Idle}]
  BY DEF Save, Finish, SerialInv, IInv, TypeOK
<1>2. \A q \in Requests : req'[q] # Idle =>
        q # r /\ req'[q] = req[q] /\ req[q] # Idle /\ req[q].sid # req[r].sid
  BY <1>1 DEF SerialInv, OneAtATime
<1>3. OneAtATime'  BY <1>2 DEF SerialInv, OneAtATime
<1>4. \A t : t # req[r].sid /\ t \in Sessions => store'[t] = store[t]
  BY DEF Save, SerialInv, IInv, TypeOK
<1>5. \A q \in Requests : req[q] # Idle => req[q].sid \in Sessions
  BY PendingSound DEF SerialInv
<1>6. Fresh'  BY <1>2, <1>4, <1>5 DEF SerialInv, Fresh
<1> QED  BY <1>3, <1>6

LEMMA StartPreservesSerial ==
  ASSUME SerialInv, NEW s \in Sessions, Start(s)
  PROVE  OneAtATime' /\ Fresh'
<1>1. UNCHANGED req /\ store[s] = NoSession /\ \A t \in Sessions : t # s => store'[t] = store[t]
  BY DEF Start, SerialInv, IInv, TypeOK
<1>2. \A q \in Requests : req[q] # Idle => req[q].sid \in Sessions /\ req[q].sid # s
  BY <1>1, PendingSound DEF SerialInv, IInv, ServesStarted
<1> QED  BY <1>1, <1>2 DEF SerialInv, OneAtATime, Fresh

LEMMA LoadPreservesSerial ==
  ASSUME SerialInv, NEW r \in Requests, NEW s \in Sessions, NEW op \in Op, LoadAlone(r, s, op)
  PROVE  OneAtATime' /\ Fresh'
<1> DEFINE held == [sid |-> s, op |-> op, snap |-> store[s]]
<1>1. /\ req' = [req EXCEPT ![r] = held] /\ UNCHANGED store
      /\ held.sid = s /\ held.snap = store[s]
      /\ req \in [Requests -> Serving \cup {Idle}]
      /\ \A q \in Requests : req[q] # Idle => req[q].sid # s
  BY DEF LoadAlone, Load, SerialInv, IInv, TypeOK
<1>2. req'[r] = held /\ \A q \in Requests : q # r => req'[q] = req[q]  BY <1>1
<1>3. OneAtATime'  BY <1>1, <1>2 DEF SerialInv, OneAtATime
<1>4. Fresh'  BY <1>1, <1>2 DEF SerialInv, Fresh
<1> QED  BY <1>3, <1>4

LEMMA SerialNextPreserves == SerialInv /\ [SerialNext]_vars => SerialInv'
<1> SUFFICES ASSUME SerialInv, [SerialNext]_vars PROVE SerialInv'  OBVIOUS
<1>1. IInv'  BY SerialIsNext, NextPreserves DEF SerialInv
<1>2. ASSUME NEW s \in Sessions, Start(s) PROVE OneAtATime' /\ Fresh'
  BY <1>2, StartPreservesSerial
<1>3. ASSUME NEW r \in Requests, Serve(r) PROVE OneAtATime' /\ Fresh'
  <2>1. CASE AlreadyDone(r) \/ Refuse(r)
    BY <2>1, EndPreservesSerial DEF AlreadyDone, Refuse
  <2>2. ASSUME NEW new, req[r] # Idle, Save(r, new) PROVE OneAtATime' /\ Fresh'
    BY <2>2, SavePreservesSerial
  <2>3. CASE AnswerQuestion(r)  BY <2>2, <2>3 DEF AnswerQuestion, Pending
  <2>4. CASE NextQuestion(r)  BY <2>2, <2>4 DEF NextQuestion, Pending
  <2>5. CASE PrevQuestion(r)  BY <2>2, <2>5 DEF PrevQuestion, Pending
  <2>6. CASE Submit(r)  BY <2>2, <2>6 DEF Submit, Pending
  <2>7. CASE Close(r)  BY <2>2, <2>7 DEF Close, Pending
  <2> QED  BY <1>3, <2>1, <2>3, <2>4, <2>5, <2>6, <2>7 DEF Serve
<1>4. ASSUME NEW r \in Requests, SaveFails(r) PROVE OneAtATime' /\ Fresh'
  BY <1>4, EndPreservesSerial DEF SaveFails
<1>5. CASE Crash  BY <1>1, <1>5 DEF SerialInv, Crash, OneAtATime, Fresh
<1>6. ASSUME NEW r \in Requests, NEW s \in Sessions, NEW op \in Op, LoadAlone(r, s, op)
      PROVE  OneAtATime' /\ Fresh'
  BY <1>6, LoadPreservesSerial
<1>7. CASE UNCHANGED vars  BY <1>1, <1>7 DEF vars, SerialInv, OneAtATime, Fresh
<1> QED
  BY <1>1, <1>2, <1>3, <1>4, <1>5, <1>6, <1>7 DEF SerialInv, SerialNext, ServerStep

LEMMA InvariantSerialInv == SerialSpec => []SerialInv
<1> QED  BY InitSerialInv, SerialNextPreserves, PTL DEF SerialSpec
----------------------------------------------------------------------------
(* The refinement mapping.                                                 *)

\* A started session has a paper, which is not the paper of a session not started.
LEMMA PaperType ==
  ASSUME NEW rec \in Session, Sound(rec)
  PROVE  Paper(rec) \in Atomic!Paper /\ Paper(rec) # NoSession
<1>1. rec.score # NoScore => rec.score.sheet \in Answers  BY DEF Session, Score
<1>2. Paper(rec) \in Atomic!Paper
  BY <1>1 DEF Paper, Atomic!Paper, Atomic!Answers, Atomic!Idx, Answers, Idx, Session, Status,
              Sound, PointerOnPaper
<1> QED  BY <1>2, PaperAssumption

\* A write made from what the store holds changes the paper of that session only,
\* into the paper of the object that was written.
LEMMA SaveMaps ==
  ASSUME SerialInv, NEW r \in Requests, req[r] # Idle, NEW new \in Session, Sound(new),
         Save(r, new), new.score # NoScore \/ new.score = req[r].snap.score
  PROVE  /\ req[r].sid \in Sessions
         /\ Papers[req[r].sid] = Paper(req[r].snap) /\ Papers[req[r].sid] # NoSession
         /\ Papers' = [Papers EXCEPT ![req[r].sid] = Paper(new)]
<1> DEFINE s == req[r].sid
           rec == Saved(store[s], new)
<1>1. /\ s \in Sessions /\ store[s] \in Session /\ store[s] = req[r].snap
      /\ Sound(req[r].snap) /\ store[s] # NoSession
  BY PendingSound, NoSessionAssumption DEF SerialInv, Fresh
<1>2. Papers[s] = Paper(req[r].snap) /\ Papers[s] # NoSession  BY <1>1, PaperType DEF Papers
<1>3. rec \in Session /\ rec # NoSession  BY <1>1, SavedSound, NoSessionAssumption
<1>4. /\ rec.status = new.status /\ rec.answers = new.answers /\ rec.cur = new.cur
      /\ rec.score = new.score
  BY <1>1 DEF Saved, Session
<1>5. Paper(rec) = Paper(new)  BY <1>4 DEF Paper
<1>6. store' = [store EXCEPT ![s] = rec] /\ store \in [Sessions -> Session \cup {NoSession}]
  BY DEF Save, SerialInv, IInv, TypeOK
<1>7. \A t \in Sessions : Papers'[t] = IF t = s THEN Paper(new) ELSE Papers[t]
  BY <1>1, <1>3, <1>5, <1>6 DEF Papers
<1>8. Papers' = [Papers EXCEPT ![s] = Paper(new)]  BY <1>7 DEF Papers
<1> QED  BY <1>1, <1>2, <1>8

\* A paper as the abstract operations on answers and on the grading leave it.
LEMMA PaperExcept ==
  ASSUME NEW rec, NEW x, NEW y
  PROVE  /\ [Paper(rec) EXCEPT !.answers = x, !.cur = y] =
              [status |-> rec.status, answers |-> x, cur |-> y, graded |-> Paper(rec).graded]
         /\ [Paper(rec) EXCEPT !.status = x, !.graded = y] =
              [status |-> x, answers |-> rec.answers, cur |-> rec.cur, graded |-> y]
<1> DEFINE p == Paper(rec)
           gr == Paper(rec).graded
<1>1. p = [status |-> rec.status, answers |-> rec.answers, cur |-> rec.cur, graded |-> gr]
  BY DEF Paper
<1> HIDE DEF p, gr
<1>2. [p EXCEPT !.answers = x, !.cur = y] = [[p EXCEPT !.answers = x] EXCEPT !.cur = y]
  OBVIOUS
<1>3. [p EXCEPT !.answers = x] =
        [status |-> rec.status, answers |-> x, cur |-> rec.cur, graded |-> gr]
  BY <1>1
<1>4. [[status |-> rec.status, answers |-> x, cur |-> rec.cur, graded |-> gr] EXCEPT !.cur = y] =
        [status |-> rec.status, answers |-> x, cur |-> y, graded |-> gr]
  OBVIOUS
<1>5. [p EXCEPT !.status = x, !.graded = y] = [[p EXCEPT !.status = x] EXCEPT !.graded = y]
  OBVIOUS
<1>6. [p EXCEPT !.status = x] =
        [status |-> x, answers |-> rec.answers, cur |-> rec.cur, graded |-> gr]
  BY <1>1
<1>7. [[status |-> x, answers |-> rec.answers, cur |-> rec.cur, graded |-> gr]
         EXCEPT !.graded = y] =
        [status |-> x, answers |-> rec.answers, cur |-> rec.cur, graded |-> y]
  OBVIOUS
<1> QED  BY <1>2, <1>3, <1>4, <1>5, <1>6, <1>7, Zenon DEF p, gr

LEMMA StartMaps ==
  ASSUME SerialInv, NEW s \in Sessions, Start(s)
  PROVE  Atomic!Start(s)
<1>1. store[s] = NoSession /\ store' = [store EXCEPT ![s] = NewSession]
      /\ store \in [Sessions -> Session \cup {NoSession}]
  BY DEF Start, SerialInv, IInv, TypeOK
<1>2. NewSession # NoSession  BY NewSessionSound, NoSessionAssumption
<1>3. Paper(NewSession) = Atomic!Blank
  BY DEF Paper, NewSession, Atomic!Blank, Atomic!Idx, Idx
<1>4. \A t \in Sessions : Papers'[t] = IF t = s THEN Atomic!Blank ELSE Papers[t]
  BY <1>1, <1>2, <1>3 DEF Papers
<1>5. Papers' = [Papers EXCEPT ![s] = Atomic!Blank]  BY <1>4 DEF Papers
<1>6. Papers[s] = NoSession  BY <1>1 DEF Papers
<1> QED  BY <1>5, <1>6 DEF Atomic!Start, Atomic!Started, Atomic!Put

\* Serving a request is one step of the abstract session, or leaves it alone.
LEMMA ServeMaps ==
  ASSUME SerialInv, NEW r \in Requests, Serve(r)
  PROVE  (\E s \in Sessions : Atomic!Step(s)) \/ UNCHANGED Papers
<1> DEFINE snap == req[r].snap
           s == req[r].sid
<1>1. CASE AnswerQuestion(r)
  <2> DEFINE i == req[r].op.index
             c == req[r].op.choice
             new == AfterAnswer(snap, i, c)
  <2>1. req[r] # Idle /\ req[r].op.kind = "answer" /\ CanAnswer(snap) /\ Save(r, new)
    BY <1>1 DEF AnswerQuestion, Pending
  <2>2. snap \in Session /\ Sound(snap) /\ req[r].op \in Op  BY <2>1, PendingSound DEF SerialInv
  <2>3. i \in Idx /\ c \in Choices  BY <2>1, <2>2 DEF Op, PlainKinds
  <2>4. new \in Session /\ Sound(new)  BY <2>1, <2>2, <2>3, AnswerSound
  <2>5. new.score = snap.score /\ Paper(new) = [Paper(snap) EXCEPT !.answers = [@ EXCEPT ![i] = c], !.cur = i + 1]
    <3>1. /\ new.status = snap.status /\ new.answers = [snap.answers EXCEPT ![i] = c]
          /\ new.cur = i + 1 /\ new.score = snap.score
      BY <2>2 DEF AfterAnswer, Session
    <3>3. Paper(new) = [status  |-> snap.status,
                        answers |-> [snap.answers EXCEPT ![i] = c],
                        cur     |-> i + 1,
                        graded  |-> Paper(snap).graded]
      BY <3>1 DEF Paper
    <3>4. Paper(snap).answers = snap.answers  BY DEF Paper
    <3>5. ASSUME NEW x, NEW y
          PROVE  [Paper(snap) EXCEPT !.answers = x, !.cur = y] =
                   [status |-> snap.status, answers |-> x, cur |-> y, graded |-> Paper(snap).graded]
      BY PaperExcept, Zenon
    <3> DEFINE sheet == [snap.answers EXCEPT ![i] = c]
               cur == i + 1
    <3>6. Paper(new) = [status |-> snap.status, answers |-> sheet, cur |-> cur,
                        graded |-> Paper(snap).graded]
      BY <3>3
    <3>7. new.score = snap.score  BY <3>1
    <3>8. sheet = [Paper(snap).answers EXCEPT ![i] = c] /\ cur = i + 1  BY <3>4
    <3> HIDE DEF sheet, cur
    <3>9. Paper(new) = [Paper(snap) EXCEPT !.answers = sheet, !.cur = cur]
      BY <3>5, <3>6, Zenon
    <3> QED  BY <3>7, <3>8, <3>9, Zenon
  <2>6. /\ s \in Sessions /\ Papers[s] = Paper(snap) /\ Papers[s] # NoSession
        /\ Papers' = [Papers EXCEPT ![s] = Paper(new)]
    BY <2>1, <2>4, <2>5, SaveMaps
  <2>7. Papers[s].status = "ACTIVE"  BY <2>1, <2>6 DEF CanAnswer, Paper
  <2>8. Atomic!Answer(s, i, c)
    BY <2>5, <2>6, <2>7 DEF Atomic!Answer, Atomic!Started, Atomic!Put
  <2> QED  BY <2>3, <2>6, <2>8 DEF Atomic!Step, Atomic!Idx, Idx
<1>2. CASE NextQuestion(r)
  <2> DEFINE new == AfterMove(snap, 1)
  <2>1. req[r] # Idle /\ CanNext(snap) /\ Save(r, new)  BY <1>2 DEF NextQuestion, Pending
  <2>2. snap \in Session /\ Sound(snap)  BY <2>1, PendingSound DEF SerialInv
  <2>3. snap.cur + 1 \in Idx
    BY <2>1, <2>2, NAssumption DEF CanNext, Sound, PointerOnPaper, Idx
  <2>4. new \in Session /\ Sound(new)  BY <2>2, <2>3, MoveSound
  <2>5. new.score = snap.score /\ Paper(new) = [Paper(snap) EXCEPT !.cur = @ + 1]
    BY <2>2 DEF AfterMove, Session, Paper
  <2>6. /\ s \in Sessions /\ Papers[s] = Paper(snap) /\ Papers[s] # NoSession
        /\ Papers' = [Papers EXCEPT ![s] = Paper(new)]
    BY <2>1, <2>4, <2>5, SaveMaps
  <2>7. Papers[s].cur + 1 < N  BY <2>1, <2>6 DEF CanNext, Paper
  <2>8. Atomic!Next(s)
    BY <2>5, <2>6, <2>7 DEF Atomic!Next, Atomic!Started, Atomic!Put
  <2> QED  BY <2>6, <2>8 DEF Atomic!Step
<1>3. CASE PrevQuestion(r)
  <2> DEFINE new == AfterMove(snap, -1)
  <2>1. req[r] # Idle /\ CanPrev(snap) /\ Save(r, new)  BY <1>3 DEF PrevQuestion, Pending
  <2>2. snap \in Session /\ Sound(snap)  BY <2>1, PendingSound DEF SerialInv
  <2>3. snap.cur \in Int /\ snap.cur + (-1) \in Idx
    BY <2>1, <2>2, NAssumption DEF CanPrev, Sound, PointerOnPaper, Idx
  <2>4. new \in Session /\ Sound(new)  BY <2>2, <2>3, MoveSound
  <2>5. new.score = snap.score /\ Paper(new) = [Paper(snap) EXCEPT !.cur = @ - 1]
    BY <2>2, <2>3 DEF AfterMove, Session, Paper
  <2>6. /\ s \in Sessions /\ Papers[s] = Paper(snap) /\ Papers[s] # NoSession
        /\ Papers' = [Papers EXCEPT ![s] = Paper(new)]
    BY <2>1, <2>4, <2>5, SaveMaps
  <2>7. Papers[s].cur > 0  BY <2>1, <2>3, <2>6 DEF CanPrev, Paper
  <2>8. Atomic!Prev(s)
    BY <2>5, <2>6, <2>7 DEF Atomic!Prev, Atomic!Started, Atomic!Put
  <2> QED  BY <2>6, <2>8 DEF Atomic!Step
<1>4. CASE Submit(r)
  <2> DEFINE new == AfterFinish(snap)
  <2>1. req[r] # Idle /\ ~ IsFinished(snap) /\ Save(r, new)  BY <1>4 DEF Submit, Pending
  <2>2. snap \in Session /\ Sound(snap)  BY <2>1, PendingSound DEF SerialInv
  <2>3. new \in Session /\ Sound(new)  BY <2>2, FinishSound
  <2>4. new.score \in Score /\ new.score.sheet = snap.answers /\ new.score # NoScore
    BY <2>2, ScoreType, NoScoreAssumption DEF AfterFinish, Session
  <2>5. Paper(new) = [Paper(snap) EXCEPT !.status = "FINISHED", !.graded = Paper(snap).answers]
    <3>1. new.status = "FINISHED" /\ new.answers = snap.answers /\ new.cur = snap.cur
      BY <2>2 DEF AfterFinish, Session
    <3>2. Paper(new) = [status |-> "FINISHED", answers |-> snap.answers, cur |-> snap.cur,
                        graded |-> snap.answers]
      BY <2>4, <3>1 DEF Paper
    <3>3. Paper(snap).answers = snap.answers  BY DEF Paper
    <3>4. [Paper(snap) EXCEPT !.status = "FINISHED", !.graded = snap.answers] =
            [status |-> "FINISHED", answers |-> snap.answers, cur |-> snap.cur,
             graded |-> snap.answers]
      BY PaperExcept, Zenon
    <3> QED  BY <3>2, <3>3, <3>4, Zenon
  <2>6. /\ s \in Sessions /\ Papers[s] = Paper(snap) /\ Papers[s] # NoSession
        /\ Papers' = [Papers EXCEPT ![s] = Paper(new)]
    BY <2>1, <2>3, <2>4, SaveMaps
  <2>7. Papers[s].status # "FINISHED"  BY <2>1, <2>6 DEF IsFinished, Paper
  <2>8. Atomic!Submit(s)
    BY <2>5, <2>6, <2>7 DEF Atomic!Submit, Atomic!Started, Atomic!Put
  <2> QED  BY <2>6, <2>8 DEF Atomic!Step
<1>5. CASE Close(r)
  <2> DEFINE new == AfterClose(snap)
  <2>1. req[r] # Idle /\ ~ IsClosed(snap) /\ Save(r, new)  BY <1>5 DEF Close, Pending
  <2>2. snap \in Session /\ Sound(snap)  BY <2>1, PendingSound DEF SerialInv
  <2>3. new \in Session /\ Sound(new)  BY <2>2, CloseSound
  <2>4. new.score = snap.score /\ Paper(new) = [Paper(snap) EXCEPT !.status = "CLOSED"]
    BY <2>2 DEF AfterClose, Session, Paper
  <2>5. /\ s \in Sessions /\ Papers[s] = Paper(snap) /\ Papers[s] # NoSession
        /\ Papers' = [Papers EXCEPT ![s] = Paper(new)]
    BY <2>1, <2>3, <2>4, SaveMaps
  <2>6. Papers[s].status # "CLOSED"  BY <2>1, <2>5 DEF IsClosed, Paper
  <2>7. Atomic!Close(s)
    BY <2>4, <2>5, <2>6 DEF Atomic!Close, Atomic!Started, Atomic!Put
  <2> QED  BY <2>5, <2>7 DEF Atomic!Step
<1>6. CASE AlreadyDone(r) \/ Refuse(r)  BY <1>6 DEF AlreadyDone, Refuse, Papers
<1> QED  BY <1>1, <1>2, <1>3, <1>4, <1>5, <1>6 DEF Serve

LEMMA StepMaps ==
  SerialInv /\ [SerialNext]_vars => [\E s \in Sessions : Atomic!Step(s)]_Papers
<1> SUFFICES ASSUME SerialInv, [SerialNext]_vars
             PROVE  (\E s \in Sessions : Atomic!Step(s)) \/ UNCHANGED Papers
  OBVIOUS
<1>1. ASSUME NEW s \in Sessions, Start(s) PROVE \E t \in Sessions : Atomic!Step(t)
  BY <1>1, StartMaps DEF Atomic!Step
<1>2. ASSUME NEW r \in Requests, Serve(r)
      PROVE  (\E s \in Sessions : Atomic!Step(s)) \/ UNCHANGED Papers
  BY <1>2, ServeMaps
<1>3. ASSUME UNCHANGED store PROVE UNCHANGED Papers  BY <1>3 DEF Papers
<1>4. ASSUME NEW r \in Requests, SaveFails(r) PROVE UNCHANGED Papers
  BY <1>3, <1>4 DEF SaveFails
<1>5. CASE Crash  BY <1>3, <1>5 DEF Crash
<1>6. ASSUME NEW r \in Requests, NEW s \in Sessions, NEW op \in Op, LoadAlone(r, s, op)
      PROVE  UNCHANGED Papers
  BY <1>3, <1>6 DEF LoadAlone, Load
<1>7. CASE UNCHANGED vars  BY <1>3, <1>7 DEF vars
<1> QED  BY <1>1, <1>2, <1>4, <1>5, <1>6, <1>7 DEF SerialNext, ServerStep

LEMMA InitMaps == Init => Atomic!Init
BY DEF Init, Papers, Atomic!Init

\* A client that waits for each reply has an atomic session, with its counters,
\* statuses and grading, however requests fail and whenever the server restarts.
THEOREM SerialImplementsAtomic == SerialSpec => ImplementsAtomic
<1>1. SerialSpec => Atomic!Init /\ [][\E s \in Sessions : Atomic!Step(s)]_Papers
  BY InitMaps, StepMaps, InvariantSerialInv, PTL DEF SerialSpec
<1> QED  BY <1>1 DEF ImplementsAtomic, Atomic!Spec
----------------------------------------------------------------------------
(* What a serial client may rely on follows from the atomic session.       *)

\* What every operation of the atomic session does to a paper p, which becomes q.
Progresses(p, q) ==
  /\ Answered(p.answers) \subseteq Answered(q.answers)
  /\ p.status # "ACTIVE" => q.status # "ACTIVE" /\ q.answers = p.answers

LEMMA PaperProgresses ==
  ASSUME NEW s \in Sessions, Atomic!Step(s), NEW t \in Sessions,
         Papers[t] # NoSession, Papers[t] \in Atomic!Paper
  PROVE  Progresses(Papers[t], Papers'[t])
<1> DEFINE p == Papers[t]
<1>1. Papers = [u \in Sessions |-> Papers[u]]  BY DEF Papers
<1>2. /\ p.answers \in [Idx -> Choices \cup {NoAnswer}]
      /\ DOMAIN p = {"status", "answers", "cur", "graded"}
  BY DEF Atomic!Paper, Atomic!Answers, Atomic!Idx, Idx
<1>3. CASE t # s
  <2>1. \A new : Atomic!Put(s, new) => Papers'[t] = p  BY <1>1, <1>3 DEF Atomic!Put
  <2>2. Papers'[t] = p
    BY <2>1 DEF Atomic!Step, Atomic!Start, Atomic!Answer, Atomic!Next, Atomic!Prev,
                Atomic!Submit, Atomic!Close
  <2> QED  BY <2>2 DEF Progresses
<1>4. CASE t = s
  <2>1. \A new : Atomic!Put(s, new) => Papers'[t] = new  BY <1>1, <1>4 DEF Atomic!Put
  <2>2. ASSUME NEW i \in Idx, NEW c \in Choices, Atomic!Answer(s, i, c)
        PROVE  Progresses(p, Papers'[t])
    <3>1. /\ p.status = "ACTIVE"
          /\ Papers'[t] = [p EXCEPT !.answers = [@ EXCEPT ![i] = c], !.cur = i + 1]
      BY <1>4, <2>1, <2>2 DEF Atomic!Answer
    <3>2. Papers'[t].answers = [p.answers EXCEPT ![i] = c]  BY <1>2, <3>1
    <3>3. Answered(p.answers) \subseteq Answered(Papers'[t].answers)
      BY <1>2, <3>2, NoAnswerAssumption DEF Answered
    <3> QED  BY <3>1, <3>3 DEF Progresses
  <2>3. CASE Atomic!Next(s)
    <3>1. Papers'[t] = [p EXCEPT !.cur = @ + 1]  BY <1>4, <2>1, <2>3 DEF Atomic!Next
    <3> QED  BY <1>2, <3>1 DEF Progresses
  <2>4. CASE Atomic!Prev(s)
    <3>1. Papers'[t] = [p EXCEPT !.cur = @ - 1]  BY <1>4, <2>1, <2>4 DEF Atomic!Prev
    <3> QED  BY <1>2, <3>1 DEF Progresses
  <2>5. CASE Atomic!Submit(s)
    <3>1. Papers'[t] = [p EXCEPT !.status = "FINISHED", !.graded = p.answers]
      BY <1>4, <2>1, <2>5 DEF Atomic!Submit
    <3> QED  BY <1>2, <3>1 DEF Progresses
  <2>6. CASE Atomic!Close(s)
    <3>1. Papers'[t] = [p EXCEPT !.status = "CLOSED"]  BY <1>4, <2>1, <2>6 DEF Atomic!Close
    <3> QED  BY <1>2, <3>1 DEF Progresses
  <2>7. ~ Atomic!Start(s)  BY <1>4 DEF Atomic!Start, Atomic!Started
  <2> QED  BY <2>2, <2>3, <2>4, <2>5, <2>6, <2>7 DEF Atomic!Step, Atomic!Idx, Idx
<1> QED  BY <1>3, <1>4

\* Nothing removes a session from the store.
LEMMA StartedStays ==
  ASSUME SerialInv, [SerialNext]_vars, NEW s \in Sessions, store[s] # NoSession
  PROVE  store'[s] # NoSession
<1>1. store \in [Sessions -> Session \cup {NoSession}]  BY DEF SerialInv, IInv, TypeOK
<1>2. NewSession # NoSession  BY NewSessionSound, NoSessionAssumption
<1>4. ASSUME NEW t \in Sessions, Start(t) PROVE store'[s] # NoSession
  BY <1>1, <1>2, <1>4 DEF Start
<1>5. ASSUME NEW r \in Requests, Serve(r) PROVE store'[s] # NoSession
  <2>1. CASE UNCHANGED store  BY <2>1
  <2>2. ASSUME req[r] # Idle, NEW new \in Session, Sound(new), Save(r, new)
        PROVE  store'[s] # NoSession
    <3>1. store[req[r].sid] \in Session  BY <2>2, PendingSound DEF SerialInv
    <3>2. Saved(store[req[r].sid], new) # NoSession
      BY <2>2, <3>1, SavedSound, NoSessionAssumption
    <3> QED  BY <1>1, <2>2, <3>2 DEF Save
  <2> QED  BY <1>5, <2>1, <2>2, ServeSaves DEF SerialInv
<1>6. CASE UNCHANGED store  BY <1>6
<1> QED
  BY <1>4, <1>5, <1>6 DEF SerialNext, ServerStep, SaveFails, Crash, LoadAlone, Load, vars

LEMMA SerialStepProgresses ==
  ASSUME SerialInv, [SerialNext]_vars, NEW s \in Sessions, store[s] # NoSession
  PROVE  Progresses(store[s], store'[s])
<1>2. store[s] \in Session /\ Sound(store[s])  BY DEF SerialInv, IInv, TypeOK, EveryRecord
<1>3. Papers[s] = Paper(store[s]) /\ Papers[s] # NoSession /\ Papers[s] \in Atomic!Paper
  BY <1>2, PaperType DEF Papers
<1>4. CASE UNCHANGED Papers \/ \E t \in Sessions : Atomic!Step(t)
  <2>1. Progresses(Papers[s], Papers'[s])
    BY <1>3, <1>4, PaperProgresses DEF Progresses
  <2>2. store'[s] # NoSession
    BY <1>2, NoSessionAssumption, StartedStays
  <2>3. Papers'[s] = Paper(store'[s])  BY <2>2 DEF Papers
  <2> QED  BY <1>3, <2>1, <2>3 DEF Progresses, Paper
<1> QED  BY <1>4, StepMaps

\* What was saved, and so confirmed to a client that waits, is never lost.
THEOREM SerialAnswersKept == SerialSpec => AnswersKept
<1>1. SerialInv /\ [SerialNext]_vars =>
        [\A s \in Sessions :
           store[s] # NoSession => Answered(store[s].answers) \subseteq Answered(store'[s].answers)]_vars
  BY SerialStepProgresses DEF Progresses
<1> QED  BY <1>1, InvariantSerialInv, PTL DEF SerialSpec, AnswersKept

\* No request of a client that waits reopens a session that was finished or closed.
THEOREM SerialNoReopen == SerialSpec => NoReopen
<1>1. SerialInv /\ [SerialNext]_vars =>
        [\A s \in Sessions :
           store[s] # NoSession /\ store[s].status # "ACTIVE" => store'[s].status # "ACTIVE"]_vars
  BY SerialStepProgresses DEF Progresses
<1> QED  BY <1>1, InvariantSerialInv, PTL DEF SerialSpec, NoReopen

\* Nor does one change the answers of such a session.
THEOREM SerialAnswersFrozen == SerialSpec => AnswersFrozen
<1>1. SerialInv /\ [SerialNext]_vars =>
        [\A s \in Sessions :
           store[s] # NoSession /\ store[s].status # "ACTIVE"
             => store'[s].answers = store[s].answers]_vars
  BY SerialStepProgresses DEF Progresses
<1> QED  BY <1>1, InvariantSerialInv, PTL DEF SerialSpec, AnswersFrozen
=============================================================================
