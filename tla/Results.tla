------------------------------ MODULE Results ------------------------------
(***************************************************************************)
(* Results and the leaderboard, read from the sessions while requests go   *)
(* on changing them.                                                       *)
(*                                                                         *)
(* A leaderboard request walks over the keys of all sessions and reads     *)
(* them one by one: the status of a session has no index, so the query     *)
(* for finished sessions is refused and the walk is what always runs.      *)
(* Redis promises that a walk yields every key that was there from its     *)
(* beginning to its end.  A key may be yielded again, and one that was     *)
(* added in between may or may not be.                                     *)
(***************************************************************************)
EXTENDS TestSession, Sequences, Functions

CONSTANTS
  Groups,    \* categories of questions
  Category,  \* the category of the question at each position
  MaxFound   \* bound on the finished sessions, counted repeatedly, of one walk

ASSUME CategoryAssumption == Category \in [Idx -> Groups]
ASSUME MaxFoundAssumption == MaxFound \in Nat

VARIABLES
  phase,   \* of the leaderboard request: "idle", "walk", "answered" or "emptied"
  todo,    \* keys the walk still has to yield
  found,   \* finished sessions, as they were read
  board,   \* the reply
  steady,  \* history: the sessions that were finished ever since the walk began
  once     \* history: the sessions that were finished at some time since then

walk == <<phase, todo, found, board>>
resultsVars == <<vars, walk, steady, once>>
----------------------------------------------------------------------------
(* One result.                                                             *)

\* answers.get(str(index_key)) == correct_answer, of the questions with a row.
Correct(ans) == {i \in rows : ans[i] = AnswerKey[i]}

InGroup(g) == {i \in rows : Category[i] = g}

\* Mutated form: the questions of a group are counted only when they are right.
OnlyRightCount(ans) ==
  [g \in {Category[i] : i \in rows} |->
     [correct |-> Cardinality(InGroup(g) \cap Correct(ans)),
      total   |-> Cardinality(InGroup(g) \cap Correct(ans))]]

GroupScores(ans) ==
  [g \in {Category[i] : i \in rows} |->
     [correct |-> Cardinality(InGroup(g) \cap Correct(ans)),
      total   |-> Cardinality(InGroup(g))]]

\* score is the number of points: the float is 100 * score / N.
Result(rec) ==
  [status          |-> StatusName[rec.status],
   score           |-> IF rec.score = NoScore THEN Cardinality(Correct(rec.answers))
                                              ELSE rec.score.points,
   correct_answers |-> Cardinality(Correct(rec.answers)),
   total_questions |-> N,
   group_scores    |-> GroupScores(rec.answers)]
----------------------------------------------------------------------------
(* The leaderboard request.                                                *)

Started == {s \in Sessions : store[s] # NoSession}

FinishedNow == {s \in Started : store[s].status = "FINISHED"}

\* Mutated forms of the filter.
Scored(rec) == IsFinished(rec) /\ rec.score.points > 0
Ended(rec) == rec.ended

OnBoard(rec) == IsFinished(rec)

Points(f) == Result(f.snap).score

Entry(f) == [sid          |-> f.sid,
             score        |-> Points(f),
             group_scores |-> Result(f.snap).group_scores]

\* entries.sort(reverse=True) is stable: sessions with the same score stay in order.
Ranking(fs) ==
  {p \in Bijection(DOMAIN fs, DOMAIN fs) :
     \A j, k \in DOMAIN fs :
       j < k => \/ Points(fs[p[j]]) > Points(fs[p[k]])
                \/ Points(fs[p[j]]) = Points(fs[p[k]]) /\ p[j] < p[k]}

BeginWalk ==
  /\ phase # "walk"
  /\ phase' = "walk"
  /\ todo' = Started
  /\ found' = <<>>
  /\ board' = <<>>

\* The next key is one the walk owes, or one it yields again or for the first time.
Visit(s) ==
  /\ phase = "walk"
  /\ s \in Started
  /\ s \in todo \/ Len(found) + Cardinality(todo) < MaxFound
  /\ todo' = todo \ {s}
  /\ found' = IF OnBoard(store[s]) THEN Append(found, [sid |-> s, snap |-> store[s]])
                                   ELSE found
  /\ UNCHANGED <<phase, board>>

\* The walk ends, the results are built from what it read, and the reply is sent:
\* rank is the position in it.
Answer ==
  /\ phase = "walk"
  /\ todo = {}
  /\ phase' = "answered"
  /\ \E p \in Ranking(found) : board' = [k \in DOMAIN found |-> Entry(found[p[k]])]
  /\ found' = <<>>
  /\ UNCHANGED todo

\* An error while a session is read: what was found is dropped, and the reply is
\* an empty leaderboard that looks like any other.
WalkFails ==
  /\ phase = "walk"
  /\ faults < MaxFaults
  /\ faults' = faults + 1
  /\ phase' = "emptied"
  /\ todo' = {}
  /\ found' = <<>>
  /\ board' = <<>>
----------------------------------------------------------------------------
ResultsInit ==
  /\ Init
  /\ phase = "idle"
  /\ todo = {}
  /\ found = <<>>
  /\ board = <<>>
  /\ steady = {}
  /\ once = {}

WalkStep ==
  \/ BeginWalk /\ UNCHANGED faults
  \/ (\E s \in Sessions : Visit(s)) /\ UNCHANGED faults
  \/ Answer /\ UNCHANGED faults
  \/ WalkFails

\* The histories begin with the walk and end with the reply.
Remember ==
  IF phase # "walk"
    THEN /\ steady' = IF phase' = "walk" THEN FinishedNow ELSE steady
         /\ once' = IF phase' = "walk" THEN FinishedNow ELSE once
    ELSE /\ steady' = steady \cap FinishedNow'
         /\ once' = once \cup FinishedNow'

ResultsNext ==
  /\ \/ Next /\ UNCHANGED walk
     \/ WalkStep /\ UNCHANGED <<store, req, rows>>
  /\ Remember

ResultsSpec == ResultsInit /\ [][ResultsNext]_resultsVars
----------------------------------------------------------------------------
Entries == {board[k] : k \in DOMAIN board}
Shown == {e.sid : e \in Entries}

\* A session that stayed finished while the leaderboard was read is on it, whatever
\* was started, submitted, closed or overwritten meanwhile; the one exception is the
\* empty leaderboard of a walk that met an error.
BoardComplete == phase = "answered" => steady \subseteq Shown

\* Every entry of a leaderboard is a session that was finished at some time while
\* the leaderboard was read.
BoardWasFinished == phase = "answered" => Shown \subseteq once

FSE == INSTANCE FiniteSetsExt

\* The groups of a result divide up the questions that could be loaded, and the
\* correct answers, of every session record there is.
GroupsOf(rec) ==
  LET res == Result(rec)
      gs  == res.group_scores
  IN  /\ FSE!MapThenSumSet(LAMBDA g : gs[g].total, DOMAIN gs) = Cardinality(rows)
      /\ FSE!MapThenSumSet(LAMBDA g : gs[g].correct, DOMAIN gs) = res.correct_answers
GroupsAddUp == EveryRecord(GroupsOf)
=============================================================================
