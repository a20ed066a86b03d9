--------------------------- MODULE AtomicSession ---------------------------
(***************************************************************************)
(* What a testing session promises to a student whose requests never       *)
(* overlap: an exam paper on which every operation takes effect at once.   *)
(*                                                                         *)
(* There are no counters here: how many questions are answered, and how    *)
(* many remain, is a function of the answers.  Nor are there requests,     *)
(* snapshots or failures: an operation either happens or it does not.      *)
(***************************************************************************)
EXTENDS Integers

CONSTANTS
  Sessions,   \* the sessions that can be started
  N,          \* number of questions of a session
  Choices,    \* what a student can answer
  NoSession,  \* the paper of a session that was not started
  NoAnswer,   \* the answer to a question nobody answered
  NoGrade     \* the grading of a paper that was never graded

VARIABLE paper

Idx == 0 .. N - 1

Answers == [Idx -> Choices \cup {NoAnswer}]

Paper == [status  : {"ACTIVE", "FINISHED", "CLOSED"},
          answers : Answers,
          cur     : 0 .. N,
          graded  : Answers \cup {NoGrade}]

TypeOK == paper \in [Sessions -> Paper \cup {NoSession}]

Blank == [status  |-> "ACTIVE",
          answers |-> [i \in Idx |-> NoAnswer],
          cur     |-> 0,
          graded  |-> NoGrade]

Put(s, p) == paper' = [paper EXCEPT ![s] = p]

Started(s) == paper[s] # NoSession
----------------------------------------------------------------------------
Init == paper = [s \in Sessions |-> NoSession]

Start(s) ==
  /\ ~ Started(s)
  /\ Put(s, Blank)

Answer(s, i, c) ==
  /\ Started(s)
  /\ paper[s].status = "ACTIVE"
  /\ Put(s, [paper[s] EXCEPT !.answers = [@ EXCEPT ![i] = c], !.cur = i + 1])

Next(s) ==
  /\ Started(s)
  /\ paper[s].cur + 1 < N
  /\ Put(s, [paper[s] EXCEPT !.cur = @ + 1])

Prev(s) ==
  /\ Started(s)
  /\ paper[s].cur > 0
  /\ Put(s, [paper[s] EXCEPT !.cur = @ - 1])

\* Submitting grades exactly the answers that are on the paper.
Submit(s) ==
  /\ Started(s)
  /\ paper[s].status # "FINISHED"
  /\ Put(s, [paper[s] EXCEPT !.status = "FINISHED", !.graded = paper[s].answers])

Close(s) ==
  /\ Started(s)
  /\ paper[s].status # "CLOSED"
  /\ Put(s, [paper[s] EXCEPT !.status = "CLOSED"])

Step(s) ==
  \/ Start(s)
  \/ \E i \in Idx, c \in Choices : Answer(s, i, c)
  \/ Next(s)
  \/ Prev(s)
  \/ Submit(s)
  \/ Close(s)

Spec == Init /\ [][\E s \in Sessions : Step(s)]_paper
=============================================================================
