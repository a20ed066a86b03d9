--------------------------- MODULE ResultsProofs ---------------------------
(***************************************************************************)
(* The leaderboard is right about who finished, and the groups of a result *)
(* add up, for every number of sessions, requests, repeated keys and       *)
(* questions.                                                              *)
(***************************************************************************)
EXTENDS Results, TestSessionProofs, SequenceTheorems

Found == [sid : Sessions, snap : Session]

FoundIds == {found[k].sid : k \in DOMAIN found}

\* A session that was finished ever since the walk began is either still to be
\* yielded, or was finished, and so found, when it was.
WalkInv ==
  /\ found \in Seq(Found)
  /\ phase = "walk" => /\ steady \subseteq FinishedNow
                       /\ FinishedNow \subseteq once
                       /\ steady \subseteq todo \cup FoundIds
                       /\ FoundIds \subseteq once
  /\ BoardComplete
  /\ BoardWasFinished

ResultsInv == IInv /\ WalkInv
----------------------------------------------------------------------------
LEMMA InitResultsInv == ResultsInit => ResultsInv
<1> SUFFICES ASSUME ResultsInit PROVE ResultsInv  OBVIOUS
<1>1. IInv  BY InitIInv DEF ResultsInit
<1>2. found \in Seq(Found)  BY DEF ResultsInit
<1>3. phase = "idle"  BY DEF ResultsInit
<1> QED  BY <1>1, <1>2, <1>3 DEF ResultsInv, WalkInv, BoardComplete, BoardWasFinished

\* A leaderboard request leaves the testing engine's invariant alone.
LEMMA WalkKeepsEngine ==
  ASSUME IInv, WalkStep, UNCHANGED <<store, req, rows>>
  PROVE  IInv'
<1>1. faults' \in 0 .. MaxFaults
  BY MaxFaultsAssumption DEF IInv, TypeOK, WalkStep, WalkFails
<1> QED  BY <1>1 DEF IInv, TypeOK, EveryRecord, ServesStarted

LEMMA EnginePreserved == IInv /\ [ResultsNext]_resultsVars => IInv'
BY NextPreserves, WalkKeepsEngine, StutterPreserves DEF ResultsNext, resultsVars

\* The sessions on a leaderboard are those that were found, in any order.
LEMMA RankingShowsFound ==
  ASSUME NEW fs, NEW p \in Ranking(fs)
  PROVE  {e.sid : e \in {Entry(fs[p[k]]) : k \in DOMAIN fs}} = {fs[k].sid : k \in DOMAIN fs}
<1>1. /\ p \in [DOMAIN fs -> DOMAIN fs]
      /\ \A j \in DOMAIN fs : \E k \in DOMAIN fs : p[k] = j
  BY DEF Ranking, Bijection, Injection, Surjection
<1>2. \A k \in DOMAIN fs : Entry(fs[p[k]]).sid = fs[p[k]].sid  BY DEF Entry
<1> QED  BY <1>1, <1>2

\* Finding one more session adds it to those that were found.
LEMMA FoundAfter ==
  ASSUME NEW fs \in Seq(Found), NEW f \in Found
  PROVE  /\ Append(fs, f) \in Seq(Found)
         /\ {Append(fs, f)[k].sid : k \in DOMAIN Append(fs, f)} =
              {fs[k].sid : k \in DOMAIN fs} \cup {f.sid}
<1> DEFINE gs == Append(fs, f)
<1>1. /\ gs \in Seq(Found) /\ Len(gs) = Len(fs) + 1 /\ gs[Len(fs) + 1] = f
      /\ \A k \in 1 .. Len(fs) : gs[k] = fs[k]
  BY AppendProperties
<1>2. DOMAIN fs = 1 .. Len(fs) /\ DOMAIN gs = 1 .. Len(fs) + 1 /\ Len(fs) \in Nat
  BY <1>1, LenProperties
<1>3. \A k \in DOMAIN gs : k \in DOMAIN fs \/ k = Len(fs) + 1  BY <1>2
<1>4. DOMAIN fs \subseteq DOMAIN gs /\ Len(fs) + 1 \in DOMAIN gs  BY <1>2
<1> HIDE DEF gs
<1>5. {gs[k].sid : k \in DOMAIN gs} = {fs[k].sid : k \in DOMAIN fs} \cup {f.sid}
  BY <1>1, <1>2, <1>3, <1>4
<1> QED  BY <1>1, <1>5 DEF gs
----------------------------------------------------------------------------
LEMMA BeginPreserves ==
  ASSUME ResultsInv, BeginWalk, Remember, UNCHANGED store
  PROVE  WalkInv'
<1>1. phase # "walk" /\ phase' = "walk" /\ todo' = Started /\ found' = <<>>
  BY DEF BeginWalk
<1>2. steady' = FinishedNow /\ once' = FinishedNow /\ FinishedNow' = FinishedNow
  BY <1>1 DEF Remember, FinishedNow, Started
<1>3. FoundIds' = {} /\ found' \in Seq(Found)  BY <1>1 DEF FoundIds
<1>4. FinishedNow \subseteq Started  BY DEF FinishedNow
<1> QED
  BY <1>1, <1>2, <1>3, <1>4 DEF WalkInv, BoardComplete, BoardWasFinished

LEMMA VisitPreserves ==
  ASSUME ResultsInv, NEW s \in Sessions, Visit(s), Remember, UNCHANGED store
  PROVE  WalkInv'
<1>1. /\ phase = "walk" /\ phase' = "walk" /\ s \in Started /\ todo' = todo \ {s}
  BY DEF Visit
<1>2. FinishedNow' = FinishedNow  BY DEF FinishedNow, Started
<1>3. /\ steady \subseteq FinishedNow /\ FinishedNow \subseteq once
      /\ steady \subseteq todo \cup FoundIds /\ FoundIds \subseteq once
      /\ found \in Seq(Found)
  BY <1>1 DEF ResultsInv, WalkInv
<1>4. steady' = steady /\ once' = once  BY <1>1, <1>2, <1>3 DEF Remember
<1>5. CASE OnBoard(store[s])
  <2>1. store[s] \in Session  BY <1>1 DEF ResultsInv, IInv, TypeOK, Started
  <2>2. s \in FinishedNow  BY <1>1, <1>5 DEF OnBoard, IsFinished, FinishedNow
  <2> DEFINE f == [sid |-> s, snap |-> store[s]]
  <2>3. f \in Found /\ f.sid = s  BY <2>1 DEF Found
  <2>4. found' = Append(found, f)  BY <1>5 DEF Visit
  <2>5. found' \in Seq(Found) /\ FoundIds' = FoundIds \cup {s}
    BY <1>3, <2>3, <2>4, FoundAfter DEF FoundIds
  <2> QED
    BY <1>1, <1>2, <1>3, <1>4, <2>2, <2>5 DEF WalkInv, BoardComplete, BoardWasFinished
<1>6. CASE ~ OnBoard(store[s])
  <2>1. s \notin FinishedNow  BY <1>6 DEF OnBoard, IsFinished, FinishedNow
  <2>2. found' = found /\ FoundIds' = FoundIds  BY <1>6 DEF Visit, FoundIds
  <2> QED
    BY <1>1, <1>2, <1>3, <1>4, <2>1, <2>2 DEF WalkInv, BoardComplete, BoardWasFinished
<1> QED  BY <1>5, <1>6

LEMMA AnswerPreserves ==
  ASSUME ResultsInv, Answer, Remember, UNCHANGED store
  PROVE  WalkInv'
<1>1. phase = "walk" /\ phase' = "answered" /\ todo = {} /\ found' = <<>>
  BY DEF Answer
<1>2. /\ steady \subseteq FinishedNow /\ FinishedNow \subseteq once
      /\ steady \subseteq FoundIds /\ FoundIds \subseteq once
  BY <1>1 DEF ResultsInv, WalkInv
<1>3. FinishedNow' = FinishedNow  BY DEF FinishedNow, Started
<1>4. steady' = steady /\ once' = once  BY <1>1, <1>2, <1>3 DEF Remember
<1>5. PICK p \in Ranking(found) : board' = [k \in DOMAIN found |-> Entry(found[p[k]])]
  BY DEF Answer
<1>6. Shown' = FoundIds
  <2>1. Entries' = {Entry(found[p[k]]) : k \in DOMAIN found}  BY <1>5 DEF Entries
  <2>2. {e.sid : e \in {Entry(found[p[k]]) : k \in DOMAIN found}} = FoundIds
    BY RankingShowsFound DEF FoundIds
  <2> QED  BY <2>1, <2>2, Zenon DEF Shown
<1>7. found' \in Seq(Found)  BY <1>1
<1> QED
  BY <1>1, <1>2, <1>4, <1>6, <1>7 DEF WalkInv, BoardComplete, BoardWasFinished

\* What the testing engine does during a walk can only end a session's being steady.
LEMMA EngineKeepsWalk ==
  ASSUME ResultsInv, UNCHANGED walk, Remember
  PROVE  WalkInv'
<1>1. /\ phase' = phase /\ todo' = todo /\ found' = found /\ board' = board
      /\ FoundIds' = FoundIds /\ Shown' = Shown
  BY DEF walk, FoundIds, Shown, Entries
<1>2. CASE phase = "walk"
  <2>1. steady' = steady \cap FinishedNow' /\ once' = once \cup FinishedNow'
    BY <1>2 DEF Remember
  <2> QED
    BY <1>1, <1>2, <2>1 DEF ResultsInv, WalkInv, BoardComplete, BoardWasFinished
<1>3. CASE phase # "walk"
  <2>1. steady' = steady /\ once' = once  BY <1>1, <1>3 DEF Remember
  <2> QED
    BY <1>1, <1>3, <2>1 DEF ResultsInv, WalkInv, BoardComplete, BoardWasFinished
<1> QED  BY <1>2, <1>3

LEMMA ResultsNextPreserves == ResultsInv /\ [ResultsNext]_resultsVars => ResultsInv'
<1> SUFFICES ASSUME ResultsInv, [ResultsNext]_resultsVars PROVE ResultsInv'  OBVIOUS
<1>1. IInv'  BY EnginePreserved DEF ResultsInv
<1>2. CASE Next /\ UNCHANGED walk /\ Remember  BY <1>1, <1>2, EngineKeepsWalk DEF ResultsInv
<1>3. CASE WalkStep /\ UNCHANGED <<store, req, rows>> /\ Remember
  <2>1. CASE BeginWalk  BY <1>1, <1>3, <2>1, BeginPreserves DEF ResultsInv
  <2>2. ASSUME NEW s \in Sessions, Visit(s) PROVE WalkInv'
    BY <1>3, <2>2, VisitPreserves
  <2>3. CASE Answer  BY <1>1, <1>3, <2>3, AnswerPreserves DEF ResultsInv
  <2>4. CASE WalkFails
    <3>1. phase' = "emptied" /\ found' = <<>>  BY <2>4 DEF WalkFails
    <3>2. found' \in Seq(Found)  BY <3>1
    <3> QED
      BY <1>1, <3>1, <3>2 DEF ResultsInv, WalkInv, BoardComplete, BoardWasFinished
  <2> QED  BY <1>1, <1>3, <2>1, <2>2, <2>3, <2>4 DEF WalkStep, ResultsInv
<1>4. CASE UNCHANGED resultsVars
  <2>1. /\ phase' = phase /\ todo' = todo /\ found' = found /\ board' = board
        /\ steady' = steady /\ once' = once /\ store' = store
    BY <1>4 DEF resultsVars, walk, vars
  <2>2. FoundIds' = FoundIds /\ Shown' = Shown /\ FinishedNow' = FinishedNow
    BY <2>1 DEF FoundIds, Shown, Entries, FinishedNow, Started
  <2> QED
    BY <1>1, <2>1, <2>2 DEF ResultsInv, WalkInv, BoardComplete, BoardWasFinished
<1> QED  BY <1>2, <1>3, <1>4 DEF ResultsNext

LEMMA InvariantResultsInv == ResultsSpec => []ResultsInv
<1> QED  BY InitResultsInv, ResultsNextPreserves, PTL DEF ResultsSpec
----------------------------------------------------------------------------
\* No session that stays finished while the leaderboard is read is missing from it,
\* however many keys there are and however requests overlap meanwhile.
THEOREM BoardAlwaysComplete == ResultsSpec => []BoardComplete
<1>1. ResultsInv => BoardComplete  BY DEF ResultsInv, WalkInv
<1> QED  BY <1>1, InvariantResultsInv, PTL

\* No session is on a leaderboard that was never finished while it was read.
THEOREM BoardAlwaysWasFinished == ResultsSpec => []BoardWasFinished
<1>1. ResultsInv => BoardWasFinished  BY DEF ResultsInv, WalkInv
<1> QED  BY <1>1, InvariantResultsInv, PTL
----------------------------------------------------------------------------
(* The groups of a result.                                                 *)

\* A sum over a finite set, one element at a time, in whatever order they are chosen.
SumsUp(f, w, S) ==
  \A T \in SUBSET S :
    f[T] = IF T = {} THEN 0 ELSE w[CHOOSE x \in T : TRUE] + f[T \ {CHOOSE x \in T : TRUE}]

\* There is only one such sum: of two, a smallest set on which they differ is not empty,
\* and they agree on what is left of it without the chosen element.
LEMMA SumsAgree ==
  ASSUME NEW S, IsFiniteSet(S), NEW w, NEW f, SumsUp(f, w, S), NEW h, SumsUp(h, w, S)
  PROVE  f[S] = h[S]
<1> DEFINE Bad == {T \in SUBSET S : f[T] # h[T]}
<1> SUFFICES ASSUME Bad # {} PROVE FALSE
  OBVIOUS
<1>1. IsWellFoundedOn(StrictSubsetOrdering(S), SUBSET S)
  BY FS_StrictSubsetOrderingWellFounded, FS_FiniteSubsetsOfFinite
<1>2. PICK T \in Bad : \A U \in Bad : <<U, T>> \notin StrictSubsetOrdering(S)
  <2>1. Bad \subseteq SUBSET S
    OBVIOUS
  <2> HIDE DEF Bad
  <2> QED BY <1>1, <2>1, WFMin
<1>3. PICK x : x = CHOOSE y \in T : TRUE
  OBVIOUS
<1>4. /\ f[T] = IF T = {} THEN 0 ELSE w[x] + f[T \ {x}]
      /\ h[T] = IF T = {} THEN 0 ELSE w[x] + h[T \ {x}]
  BY <1>3 DEF SumsUp
<1>5. T # {} /\ f[T \ {x}] # h[T \ {x}]
  BY <1>2, <1>4
<1>6. x \in T
  BY <1>3, <1>5
<1>7. T \ {x} \in Bad /\ <<T \ {x}, T>> \in StrictSubsetOrdering(S)
  BY <1>2, <1>5, <1>6 DEF StrictSubsetOrdering
<1> QED BY <1>2, <1>7

\* The questions of C in the groups T; what one group of R has of C.
Counted(C, T) == Cardinality({i \in C : Category[i] \in T})
Share(R, C, g) == Cardinality({i \in R : Category[i] = g} \cap C)

\* The questions of C in one group of a set, and in the others of it.
LEMMA OneGroupLess ==
  ASSUME NEW R \in SUBSET Idx, NEW C \in SUBSET R, NEW T, NEW g \in T
  PROVE  Counted(C, T) = Share(R, C, g) + Counted(C, T \ {g})
<1> DEFINE A == {i \in R : Category[i] = g} \cap C
           B == {i \in C : Category[i] \in T \ {g}}
<1>1. A \in SUBSET Idx /\ B \in SUBSET Idx
  OBVIOUS
<1>2. {i \in C : Category[i] \in T} = A \cup B /\ A \cap B = {}
  OBVIOUS
<1> HIDE DEF A, B
<1>3. IsFiniteSet(A) /\ IsFiniteSet(B) /\ Cardinality(A) \in Nat /\ Cardinality(B) \in Nat
  BY <1>1, SubsetOfIdx
<1>4. Cardinality(A \cup B) = Cardinality(A) + Cardinality(B) - Cardinality(A \cap B)
  BY <1>3, FS_Union
<1>5. Cardinality(A \cap B) = 0
  BY <1>2, FS_EmptySet
<1>6. Cardinality(A \cup B) = Cardinality(A) + Cardinality(B)
  BY <1>3, <1>4, <1>5
<1>7. Counted(C, T) = Cardinality(A) + Cardinality(B)
  BY <1>2, <1>6 DEF Counted
<1> QED BY <1>7 DEF A, B, Share, Counted

\* What the groups of R have of C comes to C.
LEMMA GroupsDivide ==
  ASSUME NEW R \in SUBSET Idx, NEW C \in SUBSET R, NEW S, S = {Category[i] : i \in R},
         NEW w, \A g \in S : w[g] = Share(R, C, g)
  PROVE  /\ IsFiniteSet(S)
         /\ SumsUp([T \in SUBSET S |-> Counted(C, T)], w, S)
         /\ Counted(C, S) = Cardinality(C)
<1> DEFINE h == [T \in SUBSET S |-> Counted(C, T)]
<1>1. IsFiniteSet(S)
  <2>1. IsFiniteSet(R)
    BY SubsetOfIdx
  <2>2. IsFiniteSet({Category[i] : i \in R})
    <3> DEFINE c == [i \in R |-> Category[i]]
    <3>1. c \in [R -> S] /\ \A g \in S : \E i \in R : c[i] = g
      OBVIOUS
    <3>2. c \in Surjection(R, S)
      BY <3>1 DEF Surjection
    <3> QED BY <2>1, <3>2, FS_Surjection
  <2> QED BY <2>2
<1>2. ASSUME NEW T \in SUBSET S
      PROVE  h[T] = IF T = {} THEN 0 ELSE w[CHOOSE x \in T : TRUE] + h[T \ {CHOOSE x \in T : TRUE}]
  <2> DEFINE g == CHOOSE x \in T : TRUE
  <2> HIDE DEF g
  <2> SUFFICES h[T] = IF T = {} THEN 0 ELSE w[g] + h[T \ {g}]
    BY DEF g
  <2>1. CASE T = {}
    <3>1. {i \in C : Category[i] \in T} = {}
      BY <2>1
    <3> QED BY <2>1, <3>1, FS_EmptySet DEF Counted
  <2>2. CASE T # {}
    <3>1. g \in T /\ T \ {g} \in SUBSET S
      BY <2>2 DEF g
    <3>2. Counted(C, T) = Share(R, C, g) + Counted(C, T \ {g})
      BY <3>1, OneGroupLess
    <3>3. w[g] = Share(R, C, g)
      BY <3>1
    <3>4. /\ h[T] = Counted(C, T)
          /\ h[T \ {g}] = Counted(C, T \ {g})
      BY <3>1
    <3>5. h[T] = w[g] + h[T \ {g}]
      <4> HIDE DEF h
      <4> QED BY <3>2, <3>3, <3>4
    <3> QED BY <2>2, <3>5
  <2> QED BY <2>1, <2>2
<1>3. SumsUp(h, w, S)
  <2> HIDE DEF h
  <2> QED BY <1>2 DEF SumsUp
<1>4. {i \in C : Category[i] \in S} = C
  OBVIOUS
<1> QED BY <1>1, <1>3, <1>4 DEF Counted

\* The sum as a recursive function.
TheSum(h, w, S) ==
  h = [T \in SUBSET S |->
         IF T = {} THEN 0 ELSE w[CHOOSE x \in T : TRUE] + h[T \ {CHOOSE x \in T : TRUE}]]

\* A sum over the groups of R comes to what R has of C.
LEMMA SumOfGroups ==
  ASSUME NEW R \in SUBSET Idx, NEW C \in SUBSET R, NEW S, S = {Category[i] : i \in R},
         NEW w, \A g \in S : w[g] = Share(R, C, g)
  PROVE  \E h : /\ TheSum(h, w, S)
                /\ \A f : SumsUp(f, w, S) => f[S] = Cardinality(C)
<1> DEFINE h == [T \in SUBSET S |-> Counted(C, T)]
<1>1. IsFiniteSet(S) /\ SumsUp(h, w, S)
  BY GroupsDivide
<1>2. h[S] = Cardinality(C)
  BY GroupsDivide
<1>3. h = [T \in SUBSET S |-> h[T]]
  OBVIOUS
<1> HIDE DEF h
<1>4. TheSum(h, w, S)
  BY <1>1, <1>3 DEF SumsUp, TheSum
<1>5. ASSUME NEW f, SumsUp(f, w, S) PROVE f[S] = Cardinality(C)
  BY <1>1, <1>2, <1>5, SumsAgree
<1> QED BY <1>4, <1>5

LEMMA GroupsOfRecord ==
  ASSUME IInv, NEW rec \in Session
  PROVE  GroupsOf(rec)
<1> DEFINE gs == GroupScores(rec.answers)
           S == {Category[i] : i \in rows}
           C == Correct(rec.answers)
<1>1. rows \in SUBSET Idx /\ C \in SUBSET rows
  BY RowSetsAssumption DEF IInv, TypeOK, Correct
<1>2. /\ DOMAIN gs = S
      /\ \A g \in S : /\ gs[g].total = Share(rows, rows, g)
                      /\ gs[g].correct = Share(rows, C, g)
  <2>1. \A g \in S : {i \in rows : Category[i] = g} \cap rows = {i \in rows : Category[i] = g}
    OBVIOUS
  <2> QED BY <2>1 DEF GroupScores, InGroup, Share
<1>3. Result(rec).group_scores = gs /\ Result(rec).correct_answers = Cardinality(C)
  BY DEF Result
<1> HIDE DEF gs, C, S
<1>4. FSE!MapThenSumSet(LAMBDA g : gs[g].total, S) = Cardinality(rows)
  <2> DEFINE Eq(f) == f = [T \in SUBSET S |-> IF T = {} THEN 0
                             ELSE gs[CHOOSE x \in T : TRUE].total + f[T \ {CHOOSE x \in T : TRUE}]]
             c == CHOOSE f : Eq(f)
             w == [g \in S |-> gs[g].total]
  <2>1. FSE!MapThenSumSet(LAMBDA g : gs[g].total, S) = c[S]
    <3> HIDE DEF c
    <3> QED BY DEF FSE!MapThenSumSet, FSE!MapThenFoldSet, c
  <2>2. c[S] = Cardinality(rows)
    <3>1. \A g \in S : w[g] = gs[g].total
      OBVIOUS
    <3> HIDE DEF w, c
    <3>2. PICK h : /\ TheSum(h, w, S)
                   /\ \A f : SumsUp(f, w, S) => f[S] = Cardinality(rows)
      <4>1. rows \in SUBSET rows /\ S = {Category[i] : i \in rows}
        BY DEF S
      <4>2. \A g \in S : w[g] = Share(rows, rows, g)
        BY <1>2, <3>1
      <4> QED BY <1>1, <4>1, <4>2, SumOfGroups
    <3>3. \A T \in SUBSET S : T # {} =>
            w[CHOOSE x \in T : TRUE] = gs[CHOOSE x \in T : TRUE].total
      BY <3>1
    <3>4. Eq(h)
      BY <3>2, <3>3 DEF TheSum
    <3>5. Eq(c)
      BY <3>4 DEF c
    <3>6. SumsUp(c, w, S)
      BY <3>3, <3>5 DEF SumsUp
    <3> QED BY <3>2, <3>6
  <2> QED BY <2>1, <2>2, Zenon
<1>5. FSE!MapThenSumSet(LAMBDA g : gs[g].correct, S) = Cardinality(C)
  <2> DEFINE Eq(f) == f = [T \in SUBSET S |-> IF T = {} THEN 0
                             ELSE gs[CHOOSE x \in T : TRUE].correct + f[T \ {CHOOSE x \in T : TRUE}]]
             c == CHOOSE f : Eq(f)
             w == [g \in S |-> gs[g].correct]
  <2>1. FSE!MapThenSumSet(LAMBDA g : gs[g].correct, S) = c[S]
    <3> HIDE DEF c
    <3> QED BY DEF FSE!MapThenSumSet, FSE!MapThenFoldSet, c
  <2>2. c[S] = Cardinality(C)
    <3>1. \A g \in S : w[g] = gs[g].correct
      OBVIOUS
    <3> HIDE DEF w, c
    <3>2. PICK h : /\ TheSum(h, w, S)
                   /\ \A f : SumsUp(f, w, S) => f[S] = Cardinality(C)
      <4>1. rows \in SUBSET rows /\ S = {Category[i] : i \in rows}
        BY DEF S
      <4>2. \A g \in S : w[g] = Share(rows, C, g)
        BY <1>2, <3>1
      <4> QED BY <1>1, <4>1, <4>2, SumOfGroups
    <3>3. \A T \in SUBSET S : T # {} =>
            w[CHOOSE x \in T : TRUE] = gs[CHOOSE x \in T : TRUE].correct
      BY <3>1
    <3>4. Eq(h)
      BY <3>2, <3>3 DEF TheSum
    <3>5. Eq(c)
      BY <3>4 DEF c
    <3>6. SumsUp(c, w, S)
      BY <3>3, <3>5 DEF SumsUp
    <3> QED BY <3>2, <3>6
  <2> QED BY <2>1, <2>2, Zenon
<1> QED BY <1>2, <1>3, <1>4, <1>5 DEF GroupsOf

\* In every result that can be given the groups divide up the loaded questions and the
\* correct answers, for every number of questions and every division into categories.
THEOREM GroupsAlwaysAddUp == ResultsSpec => []GroupsAddUp
<1>1. ResultsInv => GroupsAddUp
  <2> SUFFICES ASSUME ResultsInv PROVE GroupsAddUp
    OBVIOUS
  <2>1. IInv
    BY DEF ResultsInv
  <2>2. \A rec \in Session : GroupsOf(rec)
    BY <2>1, GroupsOfRecord
  <2>3. /\ \A s \in Sessions : store[s] # NoSession => store[s] \in Session
        /\ \A r \in Requests : req[r] # Idle => req[r].snap \in Session
    BY <2>1 DEF IInv, TypeOK, Serving
  <2> QED BY <2>2, <2>3 DEF GroupsAddUp, EveryRecord
<1> QED BY <1>1, InvariantResultsInv, PTL
=============================================================================
