------------------------ MODULE QuestionBankProofs -------------------------
(***************************************************************************)
(* What a bank's cache and its list can be left with, for any number of    *)
(* questions, banks and sessions.                                          *)
(*                                                                         *)
(* However the sessions overlap: NoPhantoms alone is not inductive, for a  *)
(* cached object is still changed by the session that loaded it.  The      *)
(* invariant says what such an object can be: a version that was           *)
(* committed, the one that its session has flushed, or, in the middle of   *)
(* an update, the one that is about to be.  Row locks are what keeps the   *)
(* identifier of a question whose creation was rolled back from use.       *)
(*                                                                         *)
(* One after the other: BankComplete speaks of the time between sessions,  *)
(* so that the invariant has to say what the list is meanwhile, namely     *)
(* what the open session sees, but for what no rollback restores; and      *)
(* CacheFresh is kept by a rollback only because a session invalidates     *)
(* what it changes before it ends.                                         *)
(***************************************************************************)
EXTENDS QuestionBank, TLAPS

\* An object of session s for question q has a value that may be committed with it.
ObjectInv(s, q) ==
  \/ s.objects[q] \in {None, s.own[q]} \cup past[q]
  \/ s.doing = "update" /\ s.on = q

SessionInv(s) ==
  /\ s.doing = "register" => s.bank = None
  /\ s.doing \in {"load", "same", "update"} => s.bank \in Banks /\ s.on \in Questions
  /\ s.doing = "load" => s.objects[s.on] # None
  /\ \A q \in Questions : ObjectInv(s, q)

\* An entry that stands for an object belongs to a session that uses the bank and has it.
EntryInv ==
  \A b \in Banks, q \in Questions, x \in Sessions :
    cache[b][q] = x => /\ open[x] # Idle
                       /\ open[x].bank = b
                       /\ open[x].objects[q] # None

\* A bank that somebody knows was made, and stays so.
BankInv ==
  /\ registered # None => ids[registered] # None
  /\ \A x \in Sessions : open[x] # Idle /\ open[x].bank # None => ids[open[x].bank] # None

\* A row has been committed since somebody saw it; one that was never committed, and
\* whose creation was rolled back, is gone.
RowInv ==
  \A q \in Questions : /\ question[q] \in Versions => question[q] \in past[q]
                       /\ question[q] = New => past[q] = {}
                       /\ q \in undone /\ past[q] = {} => question[q] = Gone

\* One session at a time writes a row, and none after it is gone.
LockInv ==
  \A x \in Sessions, q \in Questions :
    open[x] # Idle /\ open[x].own[q] # None => question[q] # Gone /\ ~Locked(x, q)

IInv == /\ TypeOK
        /\ BankInv
        /\ EntryInv
        /\ NoPhantoms
        /\ RowInv
        /\ LockInv
        /\ \A x \in Sessions : open[x] # Idle => SessionInv(open[x])

\* What follows is about sessions that come one after the other.
Row(s, q) == IF s.own[q] = None THEN question[q] ELSE s.own[q]

Seen(s) == {q \in Questions : Found(Row(s, q))}

\* What the list has when a session sees some questions.
Listed(seen) == {q \in Questions : IF q \in undone THEN past[q] = {} ELSE q \in seen}

Existing == {q \in Questions : Found(question[q])}

Updating(s, q) == s.doing = "update" /\ s.on = q

\* The session that is open knows the one bank, whose list is the questions that it
\* sees.  It has not changed what an earlier session left in the cache, and its
\* objects are the rows that it sees.
SerialSession(s) ==
  /\ s.bank \in {None, registered}
  /\ s.doing = "register" => registered = None /\ s.ids = Seen(s)
  /\ registered = None => \A q \in Questions : s.own[q] = None
  /\ registered # None => ids[registered] = Listed(Seen(s))
  /\ \A b \in Banks, q \in Questions : cache[b][q] \in Versions => s.own[q] = None
  /\ \A q \in Questions : s.objects[q] \in {None, Row(s, q)} \/ Updating(s, q)
  /\ s.doing = "update" => s.objects[s.on] # None

\* One bank, one session, and a cache that holds nothing but committed rows and what
\* the session stands for.
Alone == \A x, y \in Sessions : open[x] # Idle /\ open[y] # Idle => x = y

OneBank ==
  /\ \A b \in Banks : ids[b] # None => b = registered
  /\ \A b \in Banks, q \in Questions : cache[b][q] # Missing => b = registered

Serial ==
  ~overlapped =>
    /\ Alone
    /\ OneBank
    /\ \A b \in Banks, q \in Questions :
         cache[b][q] \in Versions => cache[b][q] = question[q] \/ Aborted(q)
    /\ Quiet /\ registered # None => ids[registered] = Listed(Existing)
    /\ registered = None => undone = {}
    /\ \A x \in Sessions : open[x] # Idle => SerialSession(open[x])
----------------------------------------------------------------------------
LEMMA InitIInv == Init => IInv
<1> SUFFICES ASSUME Init PROVE IInv
  OBVIOUS
<1>1. TypeOK
  <2>1. /\ question \in [Questions -> Versions \cup {New, Gone}]
        /\ registered \in Banks \cup {None}
        /\ ids \in [Banks -> (SUBSET Questions) \cup {None}]
        /\ open \in [Sessions -> Session \cup {Idle}]
        /\ overlapped \in BOOLEAN /\ undone \subseteq Questions
        /\ past \in [Questions -> SUBSET Versions]
    BY DEF Init
  <2>2. cache \in [Banks -> [Questions -> Versions \cup Sessions \cup {Missing, Unreadable}]]
    BY DEF Init
  <2> QED BY <2>1, <2>2 DEF TypeOK
<1>2. BankInv
  BY DEF Init, BankInv
<1>3. EntryInv
  BY MarkersAssumption DEF Init, EntryInv
<1>4. NoPhantoms
  BY MarkersAssumption DEF Init, NoPhantoms
<1>5. RowInv /\ LockInv
  BY MarkersAssumption DEF Init, RowInv, LockInv
<1>6. \A x \in Sessions : open[x] # Idle => SessionInv(open[x])
  BY DEF Init
<1> QED BY <1>1, <1>2, <1>3, <1>4, <1>5, <1>6 DEF IInv

\* What a statement and what the session itself sees of a row that is there.
LEMMA SeenVersions ==
  ASSUME IInv, NEW x \in Sessions, open[x] # Idle, NEW q \in Questions
  PROVE  /\ open[x] \in Session
         /\ View(x, q) \in Versions \cup {New, Gone}
         /\ Found(View(x, q)) => Object(x, q) \in Versions
<1>1. open[x] \in Session
  BY DEF IInv, TypeOK
<1>2. /\ open[x].own[q] \in Versions \cup {None, Gone}
      /\ open[x].objects[q] \in Versions \cup {None}
  BY <1>1 DEF Session
<1>3. View(x, q) \in Versions \cup {New, Gone}
  BY <1>2 DEF View, IInv, TypeOK
<1> QED BY <1>1, <1>2, <1>3 DEF Found, Object

\* A session writes rows that nobody else has written and that are not gone.
OwnStep(x, s) ==
  \A q \in Questions : \/ s.own[q] = None
                       \/ open[x] # Idle /\ s.own[q] = open[x].own[q]
                       \/ ~Locked(x, q) /\ question[q] # Gone

\* A step of one session that is not its end, and commits nothing.
LEMMA SessionStepKeeps ==
  ASSUME IInv, UNCHANGED <<question, past>>,
         NEW x \in Sessions, NEW s \in Session, open' = [open EXCEPT ![x] = s], SessionInv(s),
         registered' \in Banks \cup {None},
         ids' \in [Banks -> (SUBSET Questions) \cup {None}],
         cache' \in [Banks -> [Questions -> Versions \cup Sessions \cup {Missing, Unreadable}]],
         overlapped' \in BOOLEAN, undone' = undone, OwnStep(x, s),
         \A b \in Banks, q \in Questions : cache'[b][q] \in {cache[b][q], Missing, x},
         \A b \in Banks, q \in Questions :
           cache'[b][q] = x => s.bank = b /\ s.objects[q] # None,
         \A b \in Banks : ids[b] # None => ids'[b] # None,
         registered' # None => ids'[registered'] # None,
         s.bank # None => ids'[s.bank] # None
  PROVE  IInv'
<1>1. s # Idle /\ open'[x] = s /\ \A y \in Sessions : y # x => open'[y] = open[y]
  BY IdleAssumption DEF IInv, TypeOK
<1>2. TypeOK'
  BY DEF IInv, TypeOK
<1>3. EntryInv'
  <2> SUFFICES ASSUME NEW b \in Banks, NEW q \in Questions, NEW y \in Sessions,
                      cache'[b][q] = y
               PROVE  /\ open'[y] # Idle /\ open'[y].bank = b /\ open'[y].objects[q] # None
    BY DEF EntryInv
  <2>1. CASE y = x
    BY <1>1, <2>1
  <2>2. CASE y # x
    BY <1>1, <2>2, MarkersAssumption DEF IInv, EntryInv
  <2> QED BY <2>1, <2>2
<1>4. NoPhantoms'
  BY MarkersAssumption DEF IInv, NoPhantoms, Aborted
<1>5. \A y \in Sessions : (open[y] # Idle => SessionInv(open[y]))'
  <2>1. (open[x] # Idle => SessionInv(open[x]))'
    BY <1>1 DEF SessionInv, ObjectInv
  <2>2. ASSUME NEW y \in Sessions, y # x PROVE (open[y] # Idle => SessionInv(open[y]))'
    BY <1>1, <2>2 DEF IInv, SessionInv, ObjectInv
  <2> QED BY <2>1, <2>2
<1>6. RowInv'
  BY DEF IInv, RowInv
<1>7. LockInv'
  <2> SUFFICES ASSUME NEW y \in Sessions, NEW q \in Questions,
                      open'[y] # Idle, open'[y].own[q] # None
               PROVE  /\ question'[q] # Gone
                      /\ \A z \in Sessions \ {y} : ~(open'[z] # Idle /\ open'[z].own[q] # None)
    BY DEF LockInv, Locked
  <2>1. CASE y = x
    <3>1. ~Locked(x, q) /\ question[q] # Gone
      BY <1>1, <2>1 DEF OwnStep, IInv, LockInv
    <3> QED BY <1>1, <2>1, <3>1 DEF Locked
  <2>2. CASE y # x
    <3>1. open[y] # Idle /\ open[y].own[q] # None /\ ~Locked(y, q) /\ question[q] # Gone
      BY <1>1, <2>2 DEF IInv, LockInv
    <3>2. s.own[q] = None
      BY <2>2, <3>1 DEF OwnStep, Locked
    <3> QED BY <1>1, <2>2, <3>1, <3>2 DEF Locked
  <2> QED BY <2>1, <2>2
<1>8. BankInv'
  <2> SUFFICES ASSUME NEW y \in Sessions, open'[y] # Idle, open'[y].bank # None
               PROVE  ids'[open'[y].bank] # None
    BY DEF BankInv
  <2>1. CASE y = x
    BY <1>1, <2>1
  <2>2. CASE y # x
    <3>1. open'[y] = open[y] /\ open[y].bank \in Banks /\ ids[open[y].bank] # None
      BY <1>1, <2>2 DEF IInv, BankInv, TypeOK, Session
    <3> QED BY <3>1
  <2> QED BY <2>1, <2>2
<1> QED BY <1>2, <1>3, <1>4, <1>5, <1>6, <1>7, <1>8 DEF IInv

\* The same for a step that leaves the caches and the objects of the session alone.
LEMMA QuietStepKeeps ==
  ASSUME IInv, UNCHANGED <<question, cache, overlapped, undone, past>>,
         NEW x \in Sessions, open[x] # Idle,
         NEW s \in Session, open' = [open EXCEPT ![x] = s],
         s.objects = open[x].objects, s.own = open[x].own,
         s.bank = open[x].bank \/ open[x].bank = None,
         s.doing \in {"nothing", "register"}, s.doing = "register" => s.bank = None,
         open[x].doing # "update",
         registered' \in Banks \cup {None},
         ids' \in [Banks -> (SUBSET Questions) \cup {None}],
         \A b \in Banks : ids[b] # None => ids'[b] # None,
         registered' # None => ids'[registered'] # None,
         s.bank # None => ids'[s.bank] # None
  PROVE  IInv'
<1>1. SessionInv(s)
  <2>1. SessionInv(open[x])
    BY DEF IInv
  <2> QED BY <2>1 DEF SessionInv, ObjectInv
<1>2. \A b \in Banks, q \in Questions : cache'[b][q] = x => s.bank = b /\ s.objects[q] # None
  BY MarkersAssumption DEF IInv, EntryInv
<1>3. OwnStep(x, s)
  BY DEF OwnStep
<1> QED BY <1>1, <1>2, <1>3, SessionStepKeeps DEF IInv, TypeOK

LEMMA BeginKeeps == ASSUME IInv, NEW x \in Sessions, Begin(x) PROVE IInv'
<1>1. Opened \in Session /\ SessionInv(Opened) /\ Opened.bank = None
  BY DEF Opened, Nothing, Session, SessionInv, ObjectInv
<1>2. overlapped' \in BOOLEAN
  BY DEF Begin, IInv, TypeOK
<1>3. \A b \in Banks, q \in Questions : cache'[b][q] # x
  BY DEF Begin, process, IInv, EntryInv
<1>4. UNCHANGED <<question, registered, ids, cache, undone, past>> /\ open' = [open EXCEPT ![x] = Opened]
  BY DEF Begin, process
<1>5. /\ registered' \in Banks \cup {None} /\ undone' = undone
      /\ ids' \in [Banks -> (SUBSET Questions) \cup {None}]
      /\ cache' \in [Banks -> [Questions -> Versions \cup Sessions \cup {Missing, Unreadable}]]
  BY <1>4 DEF IInv, TypeOK
<1>6. \A b \in Banks, q \in Questions : cache'[b][q] \in {cache[b][q], Missing, x}
  BY <1>4
<1>7. PICK s \in Session : /\ open' = [open EXCEPT ![x] = s] /\ SessionInv(s) /\ s.bank = None
                           /\ OwnStep(x, s)
  <2>1. OwnStep(x, Opened)
    BY DEF OwnStep, Opened, Nothing
  <2> QED BY <1>1, <1>4, <2>1
<1>8. /\ \A b \in Banks : ids[b] # None => ids'[b] # None
      /\ registered' # None => ids'[registered'] # None
  BY <1>4 DEF IInv, BankInv
<1>9. \A b \in Banks, q \in Questions : cache'[b][q] = x => s.bank = b /\ s.objects[q] # None
  BY <1>3
<1>10. UNCHANGED <<question, past>>
  BY <1>4
<1> QED BY <1>2, <1>5, <1>6, <1>7, <1>8, <1>9, <1>10, SessionStepKeeps

LEMMA ForOwnerKeeps == ASSUME IInv, NEW x \in Sessions, ForOwner(x) PROVE IInv'
<1>1. open[x] # Idle /\ open[x] \in Session /\ open[x].doing = "nothing" /\ open[x].bank = None
  BY DEF ForOwner, Ready, IInv, TypeOK
<1>2. UNCHANGED <<question, registered, ids, cache, overlapped, undone, past>>
  BY DEF ForOwner, process, history
<1>3. /\ \A b \in Banks : ids[b] # None => ids'[b] # None
      /\ registered' # None => ids'[registered'] # None
  BY <1>2 DEF IInv, BankInv
<1>4. CASE registered # None
  <2> DEFINE s == [open[x] EXCEPT !.bank = registered]
  <2>1. /\ s \in Session /\ s.objects = open[x].objects /\ s.own = open[x].own
        /\ s.doing = "nothing" /\ s.bank = registered
    BY <1>1 DEF Session, IInv, TypeOK
  <2>2. open' = [open EXCEPT ![x] = s]
    BY <1>4 DEF ForOwner
  <2> HIDE DEF s
  <2> QED BY <1>1, <1>2, <1>3, <2>1, <2>2, QuietStepKeeps DEF IInv, TypeOK
<1>5. CASE registered = None
  <2> DEFINE t == [open[x] EXCEPT !.doing = "register"]
             s == [t EXCEPT !.ids = Visible(x)]
  <2>1. Visible(x) \in SUBSET Questions
    BY DEF Visible
  <2>2. /\ t \in Session /\ t.objects = open[x].objects /\ t.own = open[x].own
        /\ t.doing = "register" /\ t.bank = open[x].bank
    BY <1>1 DEF Session
  <2>3. open' = [open EXCEPT ![x] = s]
    <3>1. [open[x] EXCEPT !.doing = "register", !.ids = Visible(x)] = s
      BY <1>1, <2>1 DEF Session
    <3> QED BY <1>5, <3>1 DEF ForOwner
  <2> HIDE DEF t
  <2>4. /\ s \in Session /\ s.objects = open[x].objects /\ s.own = open[x].own
        /\ s.doing = "register" /\ s.bank = open[x].bank
    BY <2>1, <2>2 DEF Session
  <2> HIDE DEF s
  <2> QED BY <1>1, <1>2, <1>3, <2>3, <2>4, QuietStepKeeps DEF IInv, TypeOK
<1> QED BY <1>4, <1>5

LEMMA RegisterKeeps ==
  ASSUME IInv, NEW x \in Sessions, NEW b \in Banks, Register(x, b)
  PROVE  IInv'
<1> DEFINE t == [open[x] EXCEPT !.bank = b]
           u == [t EXCEPT !.doing = "nothing"]
           s == [u EXCEPT !.ids = {}]
<1>1. open[x] # Idle /\ open[x] \in Session /\ open[x].doing = "register"
  BY DEF Register, Doing, IInv, TypeOK
<1>2. UNCHANGED <<question, cache, overlapped, undone, past>>
  BY DEF Register, history
<1>3. /\ registered' \in Banks \cup {None}
      /\ ids' \in [Banks -> (SUBSET Questions) \cup {None}]
      /\ registered' = b /\ ids'[b] # None
      /\ \A c \in Banks : ids[c] # None => ids'[c] # None
  <2>1. open[x].ids \in SUBSET Questions
    BY <1>1 DEF Session
  <2>2. open[x].ids # None
    BY <2>1, MarkersAssumption
  <2> QED BY <2>1, <2>2 DEF Register, Entered, IInv, TypeOK
<1>4. open' = [open EXCEPT ![x] = s]
  <2>1. [open[x] EXCEPT !.bank = b, !.doing = "nothing", !.ids = {}] = s
    BY <1>1 DEF Session
  <2> QED BY <2>1 DEF Register
<1>5. t \in Session /\ t.objects = open[x].objects /\ t.own = open[x].own /\ t.bank = b
  BY <1>1 DEF Session
<1> HIDE DEF t
<1>6. /\ u \in Session /\ u.objects = open[x].objects /\ u.own = open[x].own
      /\ u.doing = "nothing" /\ u.bank = b
  BY <1>5 DEF Session
<1> HIDE DEF u
<1>7. /\ s \in Session /\ s.objects = open[x].objects /\ s.own = open[x].own
      /\ s.doing = "nothing" /\ s.bank = b
  BY <1>6 DEF Session
<1> HIDE DEF s
<1>8. open[x].bank = None /\ open[x].doing # "update"
  BY <1>1 DEF IInv, SessionInv
<1> QED BY <1>1, <1>2, <1>3, <1>4, <1>7, <1>8, QuietStepKeeps
----------------------------------------------------------------------------
(* Steps that use a bank.                                                  *)

\* What becomes of a session when a method goes on.
Goes(r, s, d, o) ==
  s \in Session /\ s.bank = r.bank /\ s.doing = d /\ s.on = o

\* If the bank of session x shows its object for q, the session has it still.
Has(x, b, q, s) ==
  open[x].bank = b /\ open[x].objects[q] # None => s.objects[q] # None

LEMMA WorkKeeps ==
  ASSUME IInv, UNCHANGED <<question, registered, overlapped, undone, past>>,
         NEW x \in Sessions, NEW s \in Session, open' = [open EXCEPT ![x] = s],
         open[x] # Idle, s.bank = open[x].bank, SessionInv(s), OwnStep(x, s),
         \A b \in Banks : ids[b] # None => ids'[b] # None,
         ids' \in [Banks -> (SUBSET Questions) \cup {None}],
         cache' \in [Banks -> [Questions -> Versions \cup Sessions \cup {Missing, Unreadable}]],
         \A b \in Banks, q \in Questions :
           \/ cache'[b][q] = Missing
           \/ cache'[b][q] = cache[b][q] /\ Has(x, b, q, s)
           \/ cache'[b][q] = x /\ s.bank = b /\ s.objects[q] # None
  PROVE  IInv'
<1>1. \A b \in Banks, q \in Questions : cache'[b][q] \in {cache[b][q], Missing, x}
  OBVIOUS
<1>2. \A b \in Banks, q \in Questions : cache'[b][q] = x => s.bank = b /\ s.objects[q] # None
  BY MarkersAssumption DEF IInv, EntryInv, Has
<1>3. /\ registered' \in Banks \cup {None} /\ overlapped' \in BOOLEAN /\ undone' = undone
  BY DEF IInv, TypeOK
<1>4. UNCHANGED <<question, past>>
  OBVIOUS
<1>5. registered' # None => ids'[registered'] # None
  BY DEF IInv, BankInv, TypeOK
<1>6. s.bank # None => ids'[s.bank] # None
  BY DEF IInv, BankInv, Session
<1> QED BY <1>1, <1>2, <1>3, <1>4, <1>5, <1>6, SessionStepKeeps

LEMMA Usable ==
  ASSUME IInv, NEW x \in Sessions, NEW b \in Banks, Using(x, b)
  PROVE  /\ open[x] # Idle /\ open[x] \in Session /\ open[x].doing = "nothing"
         /\ open[x].bank = b
         /\ \A q \in Questions : open[x].objects[q] \in {None, open[x].own[q]} \cup past[q]
         /\ SessionInv(open[x])
<1>1. open[x] # Idle /\ open[x] \in Session /\ open[x].doing = "nothing" /\ open[x].bank = b
  BY DEF Using, Ready, IInv, TypeOK
<1>2. SessionInv(open[x])
  BY <1>1 DEF IInv
<1> QED BY <1>1, <1>2 DEF SessionInv, ObjectInv

\* What the session would put into the cache.
LEMMA Loadable ==
  ASSUME IInv, NEW x \in Sessions, NEW b \in Banks, Using(x, b),
         NEW q \in Questions, Found(View(x, q))
  PROVE  Object(x, q) \in Versions /\ Object(x, q) \in {open[x].own[q]} \cup past[q]
<1>1. open[x] # Idle /\ open[x].objects[q] \in {None, open[x].own[q]} \cup past[q]
  BY Usable
<1>2. Object(x, q) \in Versions
  BY <1>1, SeenVersions
<1>3. question[q] \in Versions => question[q] \in past[q]
  BY DEF IInv, RowInv
<1> QED BY <1>1, <1>2, <1>3 DEF Object, View

LEMMA BeginLoadKeeps ==
  ASSUME IInv, NEW x \in Sessions, NEW b \in Banks, NEW q \in Questions, BeginLoad(x, b, q)
  PROVE  IInv'
<1> DEFINE r == open[x]
           v == Object(x, q)
           t == [r EXCEPT !.doing = "load", !.on = q]
           s == [t EXCEPT !.objects = [r.objects EXCEPT ![q] = v]]
<1>1. Using(x, b) /\ Found(View(x, q))
  BY DEF BeginLoad
<1>2. /\ r \in Session /\ r.bank = b
      /\ \A p \in Questions : r.objects[p] \in {None, r.own[p]} \cup past[p]
  BY <1>1, Usable
<1>3. v \in Versions /\ v \in {r.own[q]} \cup past[q] /\ v # None
  BY <1>1, Loadable, MarkersAssumption
<1>4. UNCHANGED <<question, registered, ids, cache, overlapped, undone, past>>
  BY DEF BeginLoad, process, history
<1>5. r.objects \in [Questions -> Versions \cup {None}]
  BY <1>2 DEF Session
<1>6. open' = [open EXCEPT ![x] = s]
  <2>1. [r EXCEPT !.doing = "load", !.on = q, !.objects[q] = v] = s
    BY <1>2 DEF Session
  <2> QED BY <2>1 DEF BeginLoad
<1> HIDE DEF v, r
<1>7. Goes(r, s, "load", q) /\ s.objects = [r.objects EXCEPT ![q] = v] /\ s.own = r.own
  <2>1. Goes(r, t, "load", q) /\ t.objects = r.objects /\ t.own = r.own
    BY <1>2 DEF Goes, Session
  <2>2. [r.objects EXCEPT ![q] = v] \in [Questions -> Versions \cup {None}]
    BY <1>3, <1>5
  <2> HIDE DEF t
  <2> QED BY <2>1, <2>2 DEF Goes, Session
<1> HIDE DEF s
<1>8. \A p \in Questions : /\ s.objects[p] = IF p = q THEN v ELSE r.objects[p]
                           /\ ObjectInv(s, p)
  BY <1>2, <1>3, <1>5, <1>7 DEF ObjectInv
<1>9. s.bank \in Banks /\ s.objects[q] # None
      /\ \A p \in Questions : r.objects[p] # None => s.objects[p] # None
  BY <1>2, <1>3, <1>7, <1>8 DEF Goes
<1>10. /\ ids' \in [Banks -> (SUBSET Questions) \cup {None}]
       /\ cache' \in [Banks -> [Questions -> Versions \cup Sessions \cup {Missing, Unreadable}]]
  BY <1>4 DEF IInv, TypeOK
<1>11. UNCHANGED <<question, registered, overlapped, undone, past>>
  BY <1>4
<1>12. \A c \in Banks, p \in Questions :
         cache'[c][p] = cache[c][p] /\ Has(x, c, p, s)
  BY <1>4, <1>9 DEF r, Has
<1>13. s \in Session /\ s.bank = open[x].bank /\ SessionInv(s)
  BY <1>7, <1>8, <1>9 DEF Goes, SessionInv, r
<1>14. OwnStep(x, s)
  BY <1>1, <1>7 DEF OwnStep, r, Using, Ready
<1>15. open[x] # Idle /\ \A c \in Banks : ids[c] # None => ids'[c] # None
  BY <1>1, <1>4 DEF Using, Ready
<1> QED BY <1>6, <1>10, <1>11, <1>12, <1>13, <1>14, <1>15, WorkKeeps

LEMMA FillKeeps == ASSUME IInv, NEW x \in Sessions, Fill(x) PROVE IInv'
<1> DEFINE r == open[x]
           s == [r EXCEPT !.doing = "nothing", !.on = None]
<1>1. open' = [open EXCEPT ![x] = s]
  BY DEF Fill
<1>2. r # Idle /\ r \in Session /\ r.doing = "load"
  BY DEF Fill, Doing, IInv, TypeOK
<1>3. SessionInv(r)
  BY <1>2 DEF IInv
<1>4. /\ r.bank \in Banks /\ r.on \in Questions /\ r.objects[r.on] # None
  BY <1>2, <1>3 DEF SessionInv
<1>5. UNCHANGED <<question, registered, ids, overlapped, undone, past>>
  BY DEF Fill, history
<1>6. Goes(r, s, "nothing", None) /\ s.objects = r.objects /\ s.own = r.own
  BY <1>2 DEF Goes, Session
<1>7. cache' = [cache EXCEPT ![r.bank][r.on] = x]
  BY DEF Fill
<1> HIDE DEF s, r
<1>8. s \in Session /\ s.bank = open[x].bank /\ SessionInv(s)
  BY <1>2, <1>3, <1>6 DEF SessionInv, ObjectInv, Goes, r
<1>9. \A b \in Banks, q \in Questions :
        \/ cache'[b][q] = cache[b][q] /\ (r.objects[q] # None => s.objects[q] # None)
        \/ cache'[b][q] = x /\ s.bank = b /\ s.objects[q] # None
  BY <1>4, <1>6, <1>7 DEF IInv, TypeOK, Goes
<1>10. /\ cache' \in [Banks -> [Questions -> Versions \cup Sessions \cup {Missing, Unreadable}]]
       /\ ids' \in [Banks -> (SUBSET Questions) \cup {None}]
  BY <1>4, <1>5, <1>7 DEF IInv, TypeOK
<1>11. UNCHANGED <<question, registered, overlapped, undone, past>>
  BY <1>5
<1>12. \A b \in Banks, q \in Questions :
         \/ cache'[b][q] = Missing
         \/ cache'[b][q] = cache[b][q] /\ Has(x, b, q, s)
         \/ cache'[b][q] = x /\ s.bank = b /\ s.objects[q] # None
  BY <1>9 DEF r, Has
<1>13. open[x] # Idle /\ \A c \in Banks : ids[c] # None => ids'[c] # None
  BY <1>2, <1>5 DEF r
<1>14. OwnStep(x, s)
  BY <1>6, <1>13 DEF OwnStep, r
<1> QED BY <1>1, <1>8, <1>10, <1>11, <1>12, <1>13, <1>14, WorkKeeps, Zenon

LEMMA CreateKeeps ==
  ASSUME IInv, NEW x \in Sessions, NEW b \in Banks, NEW q \in Questions, NEW v \in Versions,
         Create(x, b, q, v)
  PROVE  IInv'
<1> DEFINE r == open[x]
           w == [r.own EXCEPT ![q] = v]
           j == [r.objects EXCEPT ![q] = v]
           t == [r EXCEPT !.own = w]
           s == [t EXCEPT !.objects = j]
<1>1. Using(x, b)
  BY DEF Create
<1>2. /\ r \in Session /\ r.doing = "nothing" /\ r.bank = b
      /\ \A p \in Questions : r.objects[p] \in {None, r.own[p]} \cup past[p]
  BY <1>1, Usable
<1>3. open' = [open EXCEPT ![x] = s]
  <2>1. [r EXCEPT !.own[q] = v, !.objects[q] = v] = s
    BY <1>2 DEF Session
  <2> QED BY <2>1 DEF Create
<1>4. /\ w \in [Questions -> Versions \cup {None, Gone}]
      /\ j \in [Questions -> Versions \cup {None}]
      /\ \A p \in Questions : /\ w[p] = IF p = q THEN v ELSE r.own[p]
                              /\ j[p] = IF p = q THEN v ELSE r.objects[p]
  BY <1>2 DEF Session
<1> HIDE DEF r, w, j
<1>5. /\ t \in Session /\ t.bank = b /\ t.doing = "nothing" /\ t.own = w
  BY <1>2, <1>4 DEF Session
<1> HIDE DEF t
<1>6. /\ s \in Session /\ s.bank = b /\ s.doing = "nothing" /\ s.own = w /\ s.objects = j
  BY <1>4, <1>5 DEF Session
<1> HIDE DEF s
<1>7. s \in Session /\ s.bank = open[x].bank /\ SessionInv(s)
  BY <1>2, <1>4, <1>6 DEF SessionInv, ObjectInv, r
<1>8. UNCHANGED <<question, registered, overlapped, undone, past>>
  BY DEF Create, history
<1>9. /\ ids' \in [Banks -> (SUBSET Questions) \cup {None}]
      /\ open[x] # Idle /\ \A c \in Banks : ids[c] # None => ids'[c] # None
  <2>1. open[x] # Idle /\ ids[b] # None
    BY <1>1, Usable, MarkersAssumption DEF IInv, BankInv
  <2>2. ids[b] \cup {q} \in SUBSET Questions
    BY <2>1 DEF IInv, TypeOK
  <2>3. ids[b] \cup {q} # None
    BY <2>2, MarkersAssumption
  <2> QED BY <2>1, <2>2, <2>3 DEF Create, IInv, TypeOK
<1>10. cache' \in [Banks -> [Questions -> Versions \cup Sessions \cup {Missing, Unreadable}]]
  BY DEF Create, IInv, TypeOK
<1>11. \A c \in Banks, p \in Questions :
         \/ cache'[c][p] = Missing
         \/ cache'[c][p] = cache[c][p] /\ Has(x, c, p, s)
         \/ cache'[c][p] = x /\ s.bank = c /\ s.objects[p] # None
  <2>1. v # None
    BY MarkersAssumption
  <2> QED BY <1>4, <1>6, <2>1 DEF Create, r, Has
<1>12. OwnStep(x, s)
  <2>1. ~Locked(x, q) /\ question[q] # Gone
    BY <1>1, MarkersAssumption, Usable, SeenVersions DEF Create, View, IInv, LockInv
  <2> QED BY <1>4, <1>6, <1>9, <2>1 DEF OwnStep, r
<1> QED BY <1>3, <1>7, <1>8, <1>9, <1>10, <1>11, <1>12, WorkKeeps, Zenon

LEMMA BeginUpdateKeeps ==
  ASSUME IInv, NEW x \in Sessions, NEW b \in Banks, NEW q \in Questions, NEW v \in Versions,
         BeginUpdate(x, b, q, v)
  PROVE  IInv'
<1> DEFINE r == open[x]
           d == IF v = Object(x, q) THEN "same" ELSE "update"
           j == [r.objects EXCEPT ![q] = v]
           t == [r EXCEPT !.doing = d, !.on = q]
           s == [t EXCEPT !.objects = j]
<1>1. Using(x, b) /\ Found(View(x, q))
  BY DEF BeginUpdate
<1>2. /\ r \in Session /\ r.doing = "nothing" /\ r.bank = b /\ r # Idle
      /\ \A p \in Questions : r.objects[p] \in {None, r.own[p]} \cup past[p]
  BY <1>1, Usable
<1>3. d \in {"same", "update"} /\ (d = "same" => v \in {r.own[q]} \cup past[q])
  BY <1>1, Loadable
<1>4. open' = [open EXCEPT ![x] = s]
  <2>1. [r EXCEPT !.doing = d, !.on = q, !.objects[q] = v] = s
    BY <1>2 DEF Session
  <2> QED BY <2>1 DEF BeginUpdate
<1>5. /\ j \in [Questions -> Versions \cup {None}]
      /\ \A p \in Questions : j[p] = IF p = q THEN v ELSE r.objects[p]
  BY <1>2 DEF Session
<1> HIDE DEF r, d, j
<1>6. /\ t \in Session /\ t.bank = b /\ t.doing = d /\ t.on = q /\ t.own = r.own
  BY <1>2, <1>3 DEF Session
<1> HIDE DEF t
<1>7. /\ s \in Session /\ s.bank = b /\ s.doing = d /\ s.on = q /\ s.own = r.own
      /\ s.objects = j
  BY <1>5, <1>6 DEF Session
<1> HIDE DEF s
<1>8. s \in Session /\ s.bank = open[x].bank /\ SessionInv(s)
  <2>1. \A p \in Questions : ObjectInv(s, p)
    BY <1>2, <1>3, <1>5, <1>7 DEF ObjectInv
  <2> QED BY <1>2, <1>3, <1>7, <2>1 DEF SessionInv, r
<1>9. UNCHANGED <<question, registered, overlapped, undone, past>>
  BY DEF BeginUpdate, process, history
<1>10. /\ ids' \in [Banks -> (SUBSET Questions) \cup {None}]
       /\ cache' \in [Banks -> [Questions -> Versions \cup Sessions \cup {Missing, Unreadable}]]
       /\ open[x] # Idle /\ \A c \in Banks : ids[c] # None => ids'[c] # None
  BY <1>2 DEF BeginUpdate, process, IInv, TypeOK, r
<1>11. \A c \in Banks, p \in Questions :
         \/ cache'[c][p] = Missing
         \/ cache'[c][p] = cache[c][p] /\ Has(x, c, p, s)
         \/ cache'[c][p] = x /\ s.bank = c /\ s.objects[p] # None
  <2>1. v # None
    BY MarkersAssumption
  <2> QED BY <1>5, <1>7, <2>1 DEF BeginUpdate, process, r, Has
<1>12. OwnStep(x, s)
  BY <1>7, <1>10 DEF OwnStep, r
<1> QED BY <1>4, <1>8, <1>9, <1>10, <1>11, <1>12, WorkKeeps, Zenon

LEMMA UpdateKeeps == ASSUME IInv, NEW x \in Sessions, Update(x) PROVE IInv'
<1> DEFINE r == open[x]
           q == r.on
<1>1. /\ r # Idle /\ r \in Session /\ r.doing \in {"same", "update"} /\ SessionInv(r)
  BY DEF Update, Doing, IInv, TypeOK
<1>2. r.bank \in Banks /\ q \in Questions
  BY <1>1 DEF SessionInv
<1>3. UNCHANGED <<question, registered, overlapped, undone, past>>
  BY DEF Update, history
<1>4. cache' = [cache EXCEPT ![r.bank][q] = Missing]
  BY DEF Update, Invalidated
<1>5. /\ ids' \in [Banks -> (SUBSET Questions) \cup {None}]
      /\ cache' \in [Banks -> [Questions -> Versions \cup Sessions \cup {Missing, Unreadable}]]
      /\ open[x] # Idle /\ \A c \in Banks : ids[c] # None => ids'[c] # None
  BY <1>1, <1>2, <1>4 DEF Update, IInv, TypeOK
<1>6. ASSUME NEW s \in Session, open' = [open EXCEPT ![x] = s], s.bank = r.bank, SessionInv(s),
             s.objects = r.objects, OwnStep(x, s)
      PROVE  IInv'
  <2>1. \A c \in Banks, p \in Questions :
          \/ cache'[c][p] = Missing
          \/ cache'[c][p] = cache[c][p] /\ Has(x, c, p, s)
          \/ cache'[c][p] = x /\ s.bank = c /\ s.objects[p] # None
    BY <1>2, <1>4, <1>6 DEF IInv, TypeOK, Has
  <2>2. s.bank = open[x].bank
    BY <1>6
  <2> QED BY <1>3, <1>5, <1>6, <2>1, <2>2, WorkKeeps, Zenon
<1>7. CASE r.doing = "same"
  <2> DEFINE s == [r EXCEPT !.doing = "nothing", !.on = None]
  <2>1. open' = [open EXCEPT ![x] = s]
    BY <1>7 DEF Update, Doing
  <2>2. /\ s \in Session /\ s.bank = r.bank /\ s.objects = r.objects /\ s.own = r.own
        /\ s.doing = "nothing"
    BY <1>1 DEF Session
  <2> HIDE DEF s
  <2>3. SessionInv(s)
    BY <1>1, <1>7, <2>2 DEF SessionInv, ObjectInv
  <2>4. OwnStep(x, s)
    BY <1>1, <2>2 DEF OwnStep
  <2> QED BY <1>6, <2>1, <2>2, <2>3, <2>4
<1>8. CASE r.doing = "update"
  <2> DEFINE w == [r.own EXCEPT ![q] = r.objects[q]]
             t == [r EXCEPT !.doing = "nothing", !.on = None]
             s == [t EXCEPT !.own = w]
  <2>1. open' = [open EXCEPT ![x] = s]
    <3>1. [r EXCEPT !.doing = "nothing", !.on = None, !.own[q] = r.objects[q]] = s
      BY <1>1 DEF Session
    <3> QED BY <1>8, <3>1 DEF Update, Doing
  <2>2. /\ w \in [Questions -> Versions \cup {None, Gone}]
        /\ \A p \in Questions : w[p] = IF p = q THEN r.objects[q] ELSE r.own[p]
    BY <1>1, <1>2 DEF Session
  <2> HIDE DEF w
  <2>3. t \in Session /\ t.bank = r.bank /\ t.objects = r.objects /\ t.doing = "nothing"
    BY <1>1 DEF Session
  <2> HIDE DEF t
  <2>4. /\ s \in Session /\ s.bank = r.bank /\ s.objects = r.objects /\ s.own = w
        /\ s.doing = "nothing"
    BY <2>2, <2>3 DEF Session
  <2> HIDE DEF s
  <2>5. SessionInv(s)
    BY <1>1, <1>8, <2>2, <2>4 DEF SessionInv, ObjectInv
  <2>6. ~Locked(x, q) /\ question[q] # Gone
    BY <1>1, <1>2, <1>8 DEF Update, Doing, Found, View, IInv, LockInv
  <2>7. OwnStep(x, s)
    BY <1>1, <2>2, <2>4, <2>6 DEF OwnStep
  <2> QED BY <1>6, <2>1, <2>4, <2>5, <2>7
<1> QED BY <1>1, <1>7, <1>8

LEMMA DeleteKeeps ==
  ASSUME IInv, NEW x \in Sessions, NEW b \in Banks, NEW q \in Questions, Delete(x, b, q)
  PROVE  IInv'
<1> DEFINE r == open[x]
           w == [r.own EXCEPT ![q] = Gone]
           j == [r.objects EXCEPT ![q] = None]
           t == [r EXCEPT !.own = w]
           s == [t EXCEPT !.objects = j]
<1>1. Using(x, b)
  BY DEF Delete
<1>2. /\ r \in Session /\ r.doing = "nothing" /\ r.bank = b /\ r # Idle
      /\ \A p \in Questions : r.objects[p] \in {None, r.own[p]} \cup past[p]
  BY <1>1, Usable
<1>3. open' = [open EXCEPT ![x] = s]
  <2>1. [r EXCEPT !.own[q] = Gone, !.objects[q] = None] = s
    BY <1>2 DEF Session
  <2> QED BY <2>1 DEF Delete
<1>4. /\ w \in [Questions -> Versions \cup {None, Gone}]
      /\ j \in [Questions -> Versions \cup {None}]
      /\ \A p \in Questions : /\ w[p] = IF p = q THEN Gone ELSE r.own[p]
                              /\ j[p] = IF p = q THEN None ELSE r.objects[p]
  BY <1>2 DEF Session
<1> HIDE DEF r, w, j
<1>5. /\ t \in Session /\ t.bank = b /\ t.doing = "nothing" /\ t.own = w
  BY <1>2, <1>4 DEF Session
<1> HIDE DEF t
<1>6. /\ s \in Session /\ s.bank = b /\ s.doing = "nothing" /\ s.own = w /\ s.objects = j
  BY <1>4, <1>5 DEF Session
<1> HIDE DEF s
<1>7. s \in Session /\ s.bank = open[x].bank /\ SessionInv(s)
  BY <1>2, <1>4, <1>6 DEF SessionInv, ObjectInv, r
<1>8. UNCHANGED <<question, registered, overlapped, undone, past>>
  BY DEF Delete, history
<1>9. /\ ids' \in [Banks -> (SUBSET Questions) \cup {None}]
      /\ open[x] # Idle /\ \A c \in Banks : ids[c] # None => ids'[c] # None
  <2>1. open[x] # Idle /\ ids[b] # None
    BY <1>1, Usable, MarkersAssumption DEF IInv, BankInv
  <2>2. ids[b] \ {q} \in SUBSET Questions
    BY <2>1 DEF IInv, TypeOK
  <2>3. ids[b] \ {q} # None
    BY <2>2, MarkersAssumption
  <2> QED BY <2>1, <2>2, <2>3 DEF Delete, IInv, TypeOK
<1>10. cache' \in [Banks -> [Questions -> Versions \cup Sessions \cup {Missing, Unreadable}]]
  BY DEF Delete, Invalidated, IInv, TypeOK
<1>11. \A c \in Banks, p \in Questions :
         \/ cache'[c][p] = Missing
         \/ cache'[c][p] = cache[c][p] /\ Has(x, c, p, s)
         \/ cache'[c][p] = x /\ s.bank = c /\ s.objects[p] # None
  BY <1>2, <1>4, <1>6 DEF Delete, Invalidated, IInv, TypeOK, r, Has
<1>12. OwnStep(x, s)
  <2>1. ~Locked(x, q) /\ question[q] # Gone
    BY <1>9 DEF Delete, Found, View, IInv, LockInv
  <2> QED BY <1>4, <1>6, <1>9, <2>1 DEF OwnStep, r
<1> QED BY <1>3, <1>7, <1>8, <1>9, <1>10, <1>11, <1>12, WorkKeeps, Zenon
----------------------------------------------------------------------------
(* The end of a session.                                                   *)

\* A session ends, and leaves nothing in the caches but what was committed, or what
\* will never be.
LEMMA EndKeeps ==
  ASSUME IInv, UNCHANGED <<registered, ids, overlapped>>, undone' \subseteq Questions,
         NEW x \in Sessions, open' = [open EXCEPT ![x] = Idle],
         question' \in [Questions -> Versions \cup {New, Gone}],
         past' \in [Questions -> SUBSET Versions],
         \A q \in Questions :
           /\ past[q] \subseteq past'[q]
           /\ open[x].own[q] = None => question'[q] = question[q] /\ past'[q] = past[q],
         RowInv', open[x] # Idle,
         cache' \in [Banks -> [Questions -> Versions \cup Sessions \cup {Missing, Unreadable}]],
         \A b \in Banks, q \in Questions :
           /\ cache[b][q] = x => \/ cache'[b][q] \in past'[q] \cup {Unreadable}
                                 \/ cache'[b][q] \in Versions /\ (Aborted(q))'
           /\ cache[b][q] # x => cache'[b][q] = cache[b][q]
  PROVE  IInv'
<1>1. open'[x] = Idle /\ \A y \in Sessions : y # x => open'[y] = open[y]
  BY DEF IInv, TypeOK
<1>2. TypeOK'
  <2>1. open' \in [Sessions -> Session \cup {Idle}]
    BY DEF IInv, TypeOK
  <2>2. registered' \in Banks \cup {None} /\ ids' \in [Banks -> (SUBSET Questions) \cup {None}]
    BY DEF IInv, TypeOK
  <2>3. overlapped' \in BOOLEAN
    BY DEF IInv, TypeOK
  <2> QED BY <2>1, <2>2, <2>3 DEF TypeOK
<1>3. BankInv'
  BY <1>1 DEF IInv, BankInv
<1>4. \A q \in Questions : past'[q] \subseteq Versions
  OBVIOUS
<1>5. EntryInv'
  <2> SUFFICES ASSUME NEW b \in Banks, NEW q \in Questions, NEW y \in Sessions,
                      cache'[b][q] = y
               PROVE  /\ open'[y] # Idle /\ open'[y].bank = b /\ open'[y].objects[q] # None
    BY DEF EntryInv
  <2>1. cache[b][q] = y /\ y # x
    BY <1>4, MarkersAssumption
  <2> QED BY <1>1, <2>1 DEF IInv, EntryInv
<1>6. NoPhantoms'
  <2> SUFFICES ASSUME NEW b \in Banks, NEW q \in Questions, cache'[b][q] \in Versions
               PROVE  cache'[b][q] \in past'[q] \/ (Aborted(q))'
    BY DEF NoPhantoms
  <2>1. CASE cache[b][q] = x
    <3>1. cache'[b][q] \in past'[q] \cup {Unreadable} \/ (Aborted(q))'
      BY <2>1
    <3> QED BY <3>1, MarkersAssumption
  <2>2. CASE cache[b][q] # x
    <3>1. cache[b][q] \in past[q] \/ Aborted(q)
      BY <2>2 DEF IInv, NoPhantoms
    <3>2. Aborted(q) => (Aborted(q))'
      BY DEF IInv, LockInv, Aborted
    <3> QED BY <2>2, <3>1, <3>2
  <2> QED BY <2>1, <2>2
<1>7. \A y \in Sessions : (open[y] # Idle => SessionInv(open[y]))'
  <2>1. ASSUME NEW y \in Sessions, y # x PROVE (open[y] # Idle => SessionInv(open[y]))'
    <3>1. open'[y] = open[y] /\ (open[y] # Idle => SessionInv(open[y]))
      BY <1>1, <2>1 DEF IInv
    <3> QED BY <3>1 DEF SessionInv, ObjectInv
  <2> QED BY <1>1, <2>1
<1>8. LockInv'
  <2> SUFFICES ASSUME NEW y \in Sessions, NEW q \in Questions,
                      open'[y] # Idle, open'[y].own[q] # None
               PROVE  /\ question'[q] # Gone
                      /\ \A z \in Sessions \ {y} : ~(open'[z] # Idle /\ open'[z].own[q] # None)
    BY DEF LockInv, Locked
  <2>1. y # x /\ open[y] # Idle /\ open[y].own[q] # None
    BY <1>1
  <2>2. ~Locked(y, q) /\ question[q] # Gone
    BY <2>1 DEF IInv, LockInv
  <2>3. open[x].own[q] = None
    BY <2>1, <2>2 DEF Locked
  <2> QED BY <1>1, <2>2, <2>3 DEF Locked
<1> QED BY <1>2, <1>3, <1>5, <1>6, <1>7, <1>8 DEF IInv

LEMMA CommitKeeps == ASSUME IInv, NEW x \in Sessions, Commit(x) PROVE IInv'
<1>1. open[x] # Idle /\ open[x] \in Session /\ open[x].doing = "nothing" /\ SessionInv(open[x])
  BY DEF Commit, Ready, IInv, TypeOK
<1>2. \A q \in Questions : View(x, q) \in Versions \cup {New, Gone}
  BY <1>1, SeenVersions
<1>3. \A q \in Questions : question'[q] = View(x, q)
  BY DEF Commit
<1>4. question' \in [Questions -> Versions \cup {New, Gone}]
  BY <1>2 DEF Commit
<1>5. \A q \in Questions : past'[q] = past[q] \cup ({View(x, q)} \ {New, Gone})
  BY DEF Commit
<1>6. past' \in [Questions -> SUBSET Versions]
  <2>1. \A q \in Questions : past[q] \cup ({View(x, q)} \ {New, Gone}) \in SUBSET Versions
    BY <1>2 DEF IInv, TypeOK
  <2> QED BY <2>1 DEF Commit
<1>7. \A q \in Questions :
        /\ past[q] \subseteq past'[q]
        /\ open[x].own[q] = None => question'[q] = question[q] /\ past'[q] = past[q]
  <2> SUFFICES ASSUME NEW q \in Questions, open[x].own[q] = None
               PROVE  question'[q] = question[q] /\ past'[q] = past[q]
    BY <1>5
  <2>1. View(x, q) = question[q]
    BY DEF View
  <2>2. question[q] \in past[q] \cup {New, Gone}
    BY <1>2, <2>1 DEF IInv, RowInv
  <2> QED BY <1>3, <1>5, <2>1, <2>2
<1>8. RowInv'
  <2> SUFFICES ASSUME NEW q \in Questions
               PROVE  /\ question'[q] \in Versions => question'[q] \in past'[q]
                      /\ question'[q] = New => past'[q] = {}
                      /\ q \in undone' /\ past'[q] = {} => question'[q] = Gone
    BY DEF RowInv
  <2>1. question'[q] \in Versions => question'[q] \in past'[q]
    BY <1>3, <1>5, MarkersAssumption
  <2>2. open[x].own[q] \in Versions \cup {None, Gone}
    BY <1>1 DEF Session
  <2>3. question'[q] = New => past'[q] = {}
    <3>1. ASSUME question'[q] = New PROVE open[x].own[q] = None
      BY <1>3, <2>2, <3>1, MarkersAssumption DEF View
    <3> QED BY <1>7, <3>1 DEF IInv, RowInv
  <2>4. ASSUME q \in undone', past'[q] = {} PROVE question'[q] = Gone
    <3>1. q \in undone /\ past[q] = {}
      BY <1>7, <2>4 DEF Commit
    <3>2. question[q] = Gone
      BY <3>1 DEF IInv, RowInv
    <3>3. open[x].own[q] = None
      BY <1>1, <3>2 DEF IInv, LockInv
    <3> QED BY <1>7, <3>2, <3>3
  <2> QED BY <2>1, <2>3, <2>4
<1>9. \A b \in Banks, q \in Questions :
        cache'[b][q] = IF cache[b][q] = x THEN open[x].objects[q] ELSE cache[b][q]
  BY DEF Commit, Detached
<1>10. ASSUME NEW b \in Banks, NEW q \in Questions, cache[b][q] = x
       PROVE  open[x].objects[q] \in past'[q]
  <2>1. open[x].objects[q] # None /\ open[x].objects[q] \in Versions
    BY <1>1, <1>10 DEF IInv, EntryInv, Session
  <2>2. open[x].objects[q] \in {open[x].own[q]} \cup past[q]
    BY <1>1, <2>1 DEF SessionInv, ObjectInv
  <2>3. CASE open[x].objects[q] = open[x].own[q]
    <3>1. View(x, q) = open[x].objects[q]
      BY <2>1, <2>3 DEF View
    <3> QED BY <1>5, <2>1, <3>1, MarkersAssumption
  <2> QED BY <1>5, <2>2, <2>3
<1>11. \A b \in Banks, q \in Questions :
         /\ cache[b][q] = x => \/ cache'[b][q] \in past'[q] \cup {Unreadable}
                               \/ cache'[b][q] \in Versions /\ (Aborted(q))'
         /\ cache[b][q] # x => cache'[b][q] = cache[b][q]
  BY <1>9, <1>10
<1>12. cache' \in [Banks -> [Questions -> Versions \cup Sessions \cup {Missing, Unreadable}]]
  <2>1. \A b \in Banks, q \in Questions :
          (IF cache[b][q] = x THEN open[x].objects[q] ELSE cache[b][q])
            \in Versions \cup Sessions \cup {Missing, Unreadable}
    BY <1>6, <1>10 DEF IInv, TypeOK
  <2> QED BY <2>1 DEF Commit, Detached
<1>13. undone' \subseteq Questions
  BY DEF Commit, IInv, TypeOK
<1>14. UNCHANGED <<registered, ids, overlapped>> /\ open' = [open EXCEPT ![x] = Idle]
  BY DEF Commit
<1> QED BY <1>1, <1>4, <1>6, <1>7, <1>8, <1>11, <1>12, <1>13, <1>14, EndKeeps

\* What is left of the rows and of the entries of a session that rolls back.
LEMMA RolledBack ==
  ASSUME IInv, NEW x \in Sessions, Rollback(x)
  PROVE  /\ open[x] # Idle /\ open[x] \in Session
         /\ UNCHANGED <<registered, ids, overlapped, past>>
         /\ \A q \in Questions : question'[q] = IF q \in Inserted(x) THEN Gone ELSE question[q]
         /\ \A q \in Inserted(x) : (Aborted(q))'
         /\ \A b \in Banks, q \in Questions :
              /\ cache[b][q] # x => cache'[b][q] = cache[b][q]
              /\ cache[b][q] = x => \/ cache'[b][q] = Unreadable
                                    \/ /\ q \in Inserted(x) /\ cache'[b][q] = open[x].objects[q]
                                       /\ cache'[b][q] \in Versions
         /\ cache' \in [Banks -> [Questions -> Versions \cup Sessions \cup {Missing, Unreadable}]]
<1>1. open[x] # Idle /\ open[x] \in Session /\ UNCHANGED <<registered, ids, overlapped, past>>
  BY DEF Rollback, IInv, TypeOK
<1>2. \A q \in Questions : question'[q] = IF q \in Inserted(x) THEN Gone ELSE question[q]
  BY DEF Rollback
<1>3. \A q \in Inserted(x) : (Aborted(q))'
  BY <1>1, <1>2 DEF Inserted, Aborted, IInv, RowInv
<1>4. PICK kept \in SUBSET Inserted(x) : cache' = Expired(x, kept)
  BY DEF Rollback
<1>5. \A b \in Banks, q \in Questions :
        cache'[b][q] = IF cache[b][q] = x /\ q \notin kept THEN Unreadable
                       ELSE IF cache[b][q] = x THEN open[x].objects[q] ELSE cache[b][q]
  BY <1>4 DEF Expired, Detached
<1>6. \A b \in Banks, q \in Questions : cache[b][q] = x => open[x].objects[q] \in Versions
  BY <1>1 DEF IInv, EntryInv, Session
<1>7. \A b \in Banks, q \in Questions :
        /\ cache[b][q] # x => cache'[b][q] = cache[b][q]
        /\ cache[b][q] = x => \/ cache'[b][q] = Unreadable
                              \/ /\ q \in Inserted(x) /\ cache'[b][q] = open[x].objects[q]
                                 /\ cache'[b][q] \in Versions
  BY <1>4, <1>5, <1>6
<1>8. cache' \in [Banks -> [Questions -> Versions \cup Sessions \cup {Missing, Unreadable}]]
  <2>1. \A b \in Banks, q \in Questions :
          cache'[b][q] \in Versions \cup Sessions \cup {Missing, Unreadable}
    BY <1>7 DEF IInv, TypeOK
  <2> QED BY <1>4, <2>1 DEF Expired
<1> QED BY <1>1, <1>2, <1>3, <1>7, <1>8

LEMMA RollbackKeeps == ASSUME IInv, NEW x \in Sessions, Rollback(x) PROVE IInv'
<1>1. open[x] # Idle /\ open[x] \in Session /\ UNCHANGED <<registered, ids, overlapped, past>>
  BY RolledBack
<1>2. \A q \in Questions : /\ question'[q] = IF q \in Inserted(x) THEN Gone ELSE question[q]
                           /\ q \in Inserted(x) => (Aborted(q))'
  BY RolledBack
<1>3. undone' = undone \cup {q \in Questions : Found(question[q]) # Found(View(x, q))}
  BY DEF Rollback
<1>4. undone' \subseteq Questions
  BY <1>3 DEF IInv, TypeOK
<1>5. /\ question' \in [Questions -> Versions \cup {New, Gone}]
      /\ past' \in [Questions -> SUBSET Versions]
  BY <1>1 DEF Rollback, IInv, TypeOK
<1>6. \A q \in Questions :
        /\ past[q] \subseteq past'[q]
        /\ open[x].own[q] = None => question'[q] = question[q] /\ past'[q] = past[q]
  BY <1>1, <1>2 DEF Inserted
<1>7. RowInv'
  <2> SUFFICES ASSUME NEW q \in Questions
               PROVE  /\ question'[q] \in Versions => question'[q] \in past'[q]
                      /\ question'[q] = New => past'[q] = {}
                      /\ q \in undone' /\ past'[q] = {} => question'[q] = Gone
    BY DEF RowInv
  <2>1. /\ question'[q] \in Versions => question'[q] \in past'[q]
        /\ question'[q] = New => past'[q] = {}
    BY <1>1, <1>2, MarkersAssumption DEF IInv, RowInv
  <2>2. ASSUME q \in undone', past'[q] = {} PROVE question'[q] = Gone
    <3>1. CASE q \in undone
      <4>1. question[q] = Gone
        BY <1>1, <2>2, <3>1 DEF IInv, RowInv
      <4> QED BY <1>2, <4>1
    <3>2. CASE q \notin undone
      <4>1. Found(question[q]) # Found(View(x, q))
        BY <1>3, <2>2, <3>2
      <4>2. question[q] \notin Versions /\ question[q] \in {New, Gone} /\ open[x].own[q] # None
        BY <1>1, <2>2, <4>1 DEF IInv, RowInv, TypeOK, View
      <4>3. question[q] = New
        BY <1>1, <4>2 DEF IInv, LockInv
      <4> QED BY <1>2, <4>2, <4>3 DEF Inserted
    <3> QED BY <3>1, <3>2
  <2> QED BY <2>1, <2>2
<1>8. \A b \in Banks, q \in Questions :
        /\ cache[b][q] = x => \/ cache'[b][q] \in past'[q] \cup {Unreadable}
                              \/ cache'[b][q] \in Versions /\ (Aborted(q))'
        /\ cache[b][q] # x => cache'[b][q] = cache[b][q]
  BY RolledBack
<1>9. cache' \in [Banks -> [Questions -> Versions \cup Sessions \cup {Missing, Unreadable}]]
  BY RolledBack
<1>10. UNCHANGED <<registered, ids, overlapped>> /\ open' = [open EXCEPT ![x] = Idle]
  BY <1>1 DEF Rollback
<1> QED BY <1>1, <1>4, <1>5, <1>6, <1>7, <1>8, <1>9, <1>10, EndKeeps
----------------------------------------------------------------------------
LEMMA NextKeepsIInv == IInv /\ [Next]_vars => IInv'
<1> SUFFICES ASSUME IInv, [Next]_vars PROVE IInv'
  OBVIOUS
<1>1. CASE UNCHANGED vars
  <2>1. UNCHANGED <<question, registered, ids, cache, open, overlapped, undone, past>>
    BY <1>1 DEF vars, process, history
  <2> QED BY <2>1 DEF IInv, TypeOK, BankInv, EntryInv, NoPhantoms, Aborted, RowInv, LockInv, Locked,
                   SessionInv, ObjectInv
<1>2. ASSUME NEW x \in Sessions, NEW b \in Banks,
             \/ Register(x, b)
             \/ \E q \in Questions :
                  \/ BeginLoad(x, b, q)
                  \/ Delete(x, b, q)
                  \/ \E v \in Versions : Create(x, b, q, v) \/ BeginUpdate(x, b, q, v)
      PROVE  IInv'
  BY <1>2, RegisterKeeps, BeginLoadKeeps, DeleteKeeps, CreateKeeps, BeginUpdateKeeps
<1>3. ASSUME NEW x \in Sessions,
             Begin(x) \/ ForOwner(x) \/ Fill(x) \/ Update(x) \/ Commit(x) \/ Rollback(x)
      PROVE  IInv'
  BY <1>3, BeginKeeps, ForOwnerKeeps, FillKeeps, UpdateKeeps, CommitKeeps, RollbackKeeps
<1> QED BY <1>1, <1>2, <1>3 DEF Next

LEMMA Invariance == Spec => []IInv
  BY InitIInv, NextKeepsIInv, PTL DEF Spec

\* Rows, lists, cache entries and sessions always have their types.
THEOREM BankTypes == Spec => []TypeOK
<1>1. IInv => TypeOK
  BY DEF IInv
<1> QED BY <1>1, Invariance, PTL

\* Whatever sessions overlap, a version left in a cache was committed at some time, or is
\* of a question whose creation was rolled back and that nobody else has seen.
THEOREM NeverPhantoms == Spec => []NoPhantoms
<1>1. IInv => NoPhantoms
  BY DEF IInv
<1> QED BY <1>1, Invariance, PTL
----------------------------------------------------------------------------
(* Sessions that come one after the other.                                 *)

LEMMA InitSerial == Init => Serial
BY MarkersAssumption DEF Init, Serial, Alone, OneBank, Quiet

\* A step of the open session that does not end it.
LEMMA SerialStepKeeps ==
  ASSUME Serial, UNCHANGED <<question, history>>, NEW x \in Sessions, open[x] # Idle,
         open'[x] # Idle, \A y \in Sessions \ {x} : open'[y] = open[y],
         registered' \in {registered} \cup Banks,
         ~overlapped => /\ OneBank' /\ (SerialSession(open[x]))'
                        /\ \A b \in Banks, q \in Questions :
                             cache'[b][q] \in Versions => cache'[b][q] = cache[b][q]
  PROVE  Serial'
<1> SUFFICES ASSUME ~overlapped PROVE Serial'
  BY DEF history, Serial
<1>1. \A y \in Sessions : open'[y] # Idle => y = x
  BY DEF Serial, Alone
<1>2. Alone' /\ ~Quiet'
  BY <1>1 DEF Alone, Quiet
<1>3. \A y \in Sessions : (open[y] # Idle => SerialSession(open[y]))'
  BY <1>1
<1>4. \A b \in Banks, q \in Questions :
        cache'[b][q] \in Versions => cache'[b][q] = question'[q] \/ (Aborted(q))'
  BY DEF Serial, Aborted, history
<1>5. registered' = None => undone' = {}
  BY MarkersAssumption DEF Serial, history
<1> QED BY <1>2, <1>3, <1>4, <1>5 DEF Serial

\* The list is not concerned by a step that changes no row.
LEMMA ListedStays ==
  ASSUME NEW x \in Sessions, UNCHANGED <<question, history>>, open'[x].own = open[x].own
  PROVE  /\ (Listed(Seen(open[x])))' = Listed(Seen(open[x]))
         /\ (Seen(open[x]))' = Seen(open[x])
         /\ \A q \in Questions : (Row(open[x], q))' = Row(open[x], q)
<1>1. \A q \in Questions : (Row(open[x], q))' = Row(open[x], q)
  BY DEF Row
<1>2. (Seen(open[x]))' = Seen(open[x])
  BY <1>1 DEF Seen
<1> QED BY <1>1, <1>2 DEF Listed, history

\* What is known of the open session and of the bank that it uses.
LEMMA SerialFacts ==
  ASSUME IInv, Serial, ~overlapped, NEW x \in Sessions, open[x] # Idle
  PROVE  /\ open[x] \in Session /\ SerialSession(open[x]) /\ OneBank
         /\ Visible(x) = Seen(open[x])
         /\ \A q \in Questions : View(x, q) = Row(open[x], q)
BY DEF IInv, TypeOK, Serial, Visible, Seen, View, Row

LEMMA BeginSerial == ASSUME IInv, Serial, NEW x \in Sessions, Begin(x) PROVE Serial'
<1> SUFFICES ASSUME ~overlapped' PROVE Serial'
  BY DEF Serial
<1>1. ~overlapped /\ \A y \in Sessions : open[y] = Idle
  BY DEF Begin
<1>2. open'[x] = Opened /\ \A y \in Sessions \ {x} : open'[y] = Idle
  BY <1>1 DEF Begin, IInv, TypeOK
<1>3. UNCHANGED <<question, registered, ids, cache, undone, past>>
  BY DEF Begin, process
<1>4. Opened \in Session /\ Opened # Idle
  BY IdleAssumption DEF Opened, Nothing, Session
<1>5. Alone' /\ ~Quiet' /\ OneBank'
  BY <1>1, <1>2, <1>3, <1>4 DEF Alone, Quiet, Serial, OneBank
<1>6. (SerialSession(open[x]))'
  <2>1. /\ Opened.bank = None /\ Opened.doing = "nothing"
        /\ \A q \in Questions : Opened.own[q] = None /\ Opened.objects[q] = None
    BY DEF Opened, Nothing
  <2>2. registered # None => ids[registered] = Listed(Existing)
    BY <1>1 DEF Serial, Quiet
  <2>3. \A q \in Questions : (Row(open[x], q))' = question[q]
    BY <1>2, <1>3, <2>1 DEF Row
  <2>4. (Seen(open[x]))' = Existing
    BY <2>3 DEF Seen, Existing
  <2>5. (Listed(Seen(open[x])))' = Listed(Existing)
    BY <1>3, <2>4 DEF Listed
  <2> QED BY <1>2, <1>3, <2>1, <2>2, <2>3, <2>4, <2>5 DEF SerialSession
<1>7. \A b \in Banks, q \in Questions :
        cache'[b][q] \in Versions => cache'[b][q] = question'[q] \/ (Aborted(q))'
  BY <1>1, <1>3 DEF Serial, Aborted
<1>8. registered' = None => undone' = {}
  BY <1>1, <1>3 DEF Serial
<1> QED BY <1>2, <1>5, <1>6, <1>7, <1>8 DEF Serial

LEMMA ForOwnerSerial == ASSUME IInv, Serial, NEW x \in Sessions, ForOwner(x) PROVE Serial'
<1>1. open[x] # Idle /\ open[x] \in Session /\ open[x].doing = "nothing"
  BY DEF ForOwner, Ready, IInv, TypeOK
<1>2. UNCHANGED <<question, registered, ids, cache>> /\ UNCHANGED history
  BY DEF ForOwner, process
<1>3. /\ open'[x].own = open[x].own /\ open'[x].objects = open[x].objects
      /\ IF registered # None THEN open'[x].bank = registered /\ open'[x].doing = "nothing"
         ELSE /\ open'[x].bank = open[x].bank /\ open'[x].doing = "register"
              /\ open'[x].ids = Visible(x)
      /\ open'[x] \in Session /\ \A y \in Sessions \ {x} : open'[y] = open[y]
  <2>1. Visible(x) \in SUBSET Questions
    BY DEF Visible
  <2> QED BY <1>1, <2>1 DEF ForOwner, IInv, TypeOK, Session
<1>4. open'[x] # Idle
  BY <1>3, IdleAssumption
<1>5. ASSUME ~overlapped PROVE OneBank' /\ (SerialSession(open[x]))'
  <2>1. SerialSession(open[x]) /\ OneBank /\ Visible(x) = Seen(open[x])
    BY <1>1, <1>5, SerialFacts
  <2>2. OneBank'
    BY <1>2, <2>1 DEF OneBank
  <2>3. /\ (Listed(Seen(open[x])))' = Listed(Seen(open[x]))
        /\ (Seen(open[x]))' = Seen(open[x])
        /\ \A q \in Questions : (Row(open[x], q))' = Row(open[x], q)
    BY <1>2, <1>3, ListedStays
  <2>4. (SerialSession(open[x]))'
    BY <1>1, <1>2, <1>3, <2>1, <2>3 DEF SerialSession, Updating, history
  <2> QED BY <2>2, <2>4
<1> QED BY <1>1, <1>2, <1>3, <1>4, <1>5, SerialStepKeeps

LEMMA RegisterSerial ==
  ASSUME IInv, Serial, NEW x \in Sessions, NEW b \in Banks, Register(x, b)
  PROVE  Serial'
<1>1. open[x] # Idle /\ open[x] \in Session /\ open[x].doing = "register"
  BY DEF Register, Doing, IInv, TypeOK
<1>2. UNCHANGED <<question, cache>> /\ UNCHANGED history /\ registered' = b
  BY DEF Register, Entered
<1>3. /\ open'[x].own = open[x].own /\ open'[x].objects = open[x].objects
      /\ open'[x].bank = b /\ open'[x].doing = "nothing"
      /\ open'[x] \in Session /\ \A y \in Sessions \ {x} : open'[y] = open[y]
  BY <1>1 DEF Register, IInv, TypeOK, Session
<1>4. open'[x] # Idle
  BY <1>3, IdleAssumption
<1>5. \A c \in Banks : ids'[c] = IF c = b THEN open[x].ids ELSE ids[c]
  BY DEF Register, IInv, TypeOK
<1>6. ASSUME ~overlapped PROVE OneBank' /\ (SerialSession(open[x]))'
  <2>1. SerialSession(open[x]) /\ OneBank
    BY <1>1, <1>6, SerialFacts
  <2>2. registered = None /\ open[x].ids = Seen(open[x]) /\ undone = {}
    BY <1>1, <1>6, <2>1 DEF SerialSession, Serial
  <2>3. Listed(Seen(open[x])) = Seen(open[x])
    BY <2>2 DEF Listed, Seen
  <2>4. OneBank'
    BY <1>2, <1>5, <2>1, <2>2, MarkersAssumption DEF OneBank
  <2>5. /\ (Listed(Seen(open[x])))' = Listed(Seen(open[x]))
        /\ (Seen(open[x]))' = Seen(open[x])
        /\ \A q \in Questions : (Row(open[x], q))' = Row(open[x], q)
    BY <1>2, <1>3, ListedStays
  <2>6. (SerialSession(open[x]))'
    BY <1>1, <1>2, <1>3, <1>5, <2>1, <2>2, <2>3, <2>5, MarkersAssumption DEF SerialSession, Updating
  <2> QED BY <2>4, <2>6
<1> QED BY <1>1, <1>2, <1>3, <1>4, <1>6, SerialStepKeeps

\* What a session finds that uses a bank while it is the only one.
LEMMA SerialUse ==
  ASSUME IInv, Serial, ~overlapped, NEW x \in Sessions, NEW b \in Banks, Using(x, b)
  PROVE  /\ registered = b /\ registered # None /\ OneBank /\ SerialSession(open[x])
         /\ \A q \in Questions : /\ open[x].objects[q] \in {None, Row(open[x], q)}
                                 /\ View(x, q) = Row(open[x], q)
<1>1. open[x] # Idle /\ open[x].doing = "nothing" /\ open[x].bank = b /\ b # None
  BY Usable DEF Using
<1>2. SerialSession(open[x]) /\ OneBank /\ \A q \in Questions : View(x, q) = Row(open[x], q)
  BY <1>1, SerialFacts
<1> QED BY <1>1, <1>2 DEF SerialSession, Updating

LEMMA BeginLoadSerial ==
  ASSUME IInv, Serial, NEW x \in Sessions, NEW b \in Banks, NEW q \in Questions,
         BeginLoad(x, b, q)
  PROVE  Serial'
<1>1. /\ Using(x, b) /\ open[x] # Idle /\ open[x] \in Session /\ open[x].doing = "nothing"
      /\ Found(View(x, q)) /\ Object(x, q) \in Versions
  BY Usable, Loadable DEF BeginLoad
<1>2. UNCHANGED <<question, registered, ids, cache>> /\ UNCHANGED history
  BY DEF BeginLoad, process
<1>3. /\ open'[x].own = open[x].own /\ open'[x].bank = open[x].bank /\ open'[x].doing = "load"
      /\ \A p \in Questions :
           open'[x].objects[p] = IF p = q THEN Object(x, q) ELSE open[x].objects[p]
      /\ open'[x] \in Session /\ \A y \in Sessions \ {x} : open'[y] = open[y]
  BY <1>1 DEF BeginLoad, IInv, TypeOK, Session
<1>4. open'[x] # Idle
  BY <1>3, IdleAssumption
<1>5. ASSUME ~overlapped PROVE OneBank' /\ (SerialSession(open[x]))'
  <2>1. /\ OneBank /\ SerialSession(open[x])
        /\ \A p \in Questions : /\ open[x].objects[p] \in {None, Row(open[x], p)}
                                /\ View(x, p) = Row(open[x], p)
    BY <1>1, <1>5, SerialUse
  <2>2. OneBank'
    BY <1>2, <2>1 DEF OneBank
  <2>3. /\ (Listed(Seen(open[x])))' = Listed(Seen(open[x]))
        /\ (Seen(open[x]))' = Seen(open[x])
        /\ \A p \in Questions : (Row(open[x], p))' = Row(open[x], p)
    BY <1>2, <1>3, ListedStays
  <2>4. \A p \in Questions : open'[x].objects[p] \in {None, Row(open[x], p)}
    BY <1>3, <2>1 DEF Object
  <2>5. (SerialSession(open[x]))'
    BY <1>2, <1>3, <2>1, <2>3, <2>4 DEF SerialSession, history
  <2> QED BY <2>2, <2>5
<1> QED BY <1>1, <1>2, <1>3, <1>4, <1>5, SerialStepKeeps

LEMMA FillSerial == ASSUME IInv, Serial, NEW x \in Sessions, Fill(x) PROVE Serial'
<1>1. /\ open[x] # Idle /\ open[x] \in Session /\ open[x].doing = "load"
      /\ open[x].bank \in Banks /\ open[x].on \in Questions
  BY DEF Fill, Doing, IInv, TypeOK, SessionInv
<1>2. UNCHANGED <<question, registered, ids>> /\ UNCHANGED history
  BY DEF Fill
<1>3. /\ open'[x].own = open[x].own /\ open'[x].bank = open[x].bank
      /\ open'[x].objects = open[x].objects /\ open'[x].doing = "nothing"
      /\ open'[x] \in Session /\ \A y \in Sessions \ {x} : open'[y] = open[y]
  BY <1>1 DEF Fill, IInv, TypeOK, Session
<1>4. open'[x] # Idle
  BY <1>3, IdleAssumption
<1>5. \A b \in Banks, q \in Questions :
        cache'[b][q] = IF b = open[x].bank /\ q = open[x].on THEN x ELSE cache[b][q]
  BY <1>1 DEF Fill, IInv, TypeOK
<1>6. \A b \in Banks, q \in Questions : cache'[b][q] \in Versions => cache'[b][q] = cache[b][q]
  BY <1>5, MarkersAssumption
<1>7. ASSUME ~overlapped PROVE OneBank' /\ (SerialSession(open[x]))'
  <2>1. SerialSession(open[x]) /\ OneBank
    BY <1>1, <1>7, SerialFacts
  <2>2. open[x].bank = registered
    BY <1>1, <2>1, MarkersAssumption DEF SerialSession
  <2>3. OneBank'
    BY <1>2, <1>5, <2>1, <2>2 DEF OneBank
  <2>4. /\ (Listed(Seen(open[x])))' = Listed(Seen(open[x]))
        /\ (Seen(open[x]))' = Seen(open[x])
        /\ \A q \in Questions : (Row(open[x], q))' = Row(open[x], q)
    BY <1>2, <1>3, ListedStays
  <2>5. (SerialSession(open[x]))'
    BY <1>1, <1>2, <1>3, <1>6, <2>1, <2>4 DEF SerialSession, Updating, history
  <2> QED BY <2>3, <2>5
<1> QED BY <1>1, <1>2, <1>3, <1>4, <1>6, <1>7, SerialStepKeeps

LEMMA CreateSerial ==
  ASSUME IInv, Serial, NEW x \in Sessions, NEW b \in Banks, NEW q \in Questions,
         NEW v \in Versions, Create(x, b, q, v)
  PROVE  Serial'
<1>1. /\ Using(x, b) /\ open[x] # Idle /\ open[x] \in Session /\ open[x].doing = "nothing"
      /\ open[x].bank = b /\ View(x, q) = New /\ Found(v) /\ v # None
  BY Usable, MarkersAssumption DEF Create, Found
<1>2. UNCHANGED <<question, registered, cache>> /\ UNCHANGED history
  BY DEF Create
<1>3. /\ open'[x].bank = b /\ open'[x].doing = "nothing"
      /\ \A p \in Questions :
           /\ open'[x].own[p] = IF p = q THEN v ELSE open[x].own[p]
           /\ open'[x].objects[p] = IF p = q THEN v ELSE open[x].objects[p]
      /\ open'[x] \in Session /\ \A y \in Sessions \ {x} : open'[y] = open[y]
  BY <1>1 DEF Create, IInv, TypeOK, Session
<1>4. open'[x] # Idle
  BY <1>3, IdleAssumption
<1>5. \A c \in Banks : ids'[c] = IF c = b THEN ids[c] \cup {q} ELSE ids[c]
  BY DEF Create, IInv, TypeOK
<1>6. ASSUME ~overlapped PROVE OneBank' /\ (SerialSession(open[x]))'
  <2>1. /\ registered = b /\ registered # None /\ OneBank /\ SerialSession(open[x])
        /\ \A p \in Questions : /\ open[x].objects[p] \in {None, Row(open[x], p)}
                                /\ View(x, p) = Row(open[x], p)
    BY <1>1, <1>6, SerialUse
  <2>2. OneBank'
    BY <1>2, <1>5, <2>1 DEF OneBank
  <2>3. \A p \in Questions : (Row(open[x], p))' = IF p = q THEN v ELSE Row(open[x], p)
    BY <1>1, <1>2, <1>3 DEF Row
  <2>4. (Seen(open[x]))' = Seen(open[x]) \cup {q}
    BY <1>1, <2>3 DEF Seen
  <2>5. (\A c \in Banks : cache[c][q] \notin Versions) /\ q \notin undone
    <3>1. open[x].own[q] \in Versions \cup {None, Gone}
      BY <1>1 DEF Session
    <3>2. question[q] = New
      BY <1>1, <3>1, MarkersAssumption DEF View
    <3>3. q \notin undone
      BY <3>2, MarkersAssumption DEF IInv, RowInv
    <3> QED BY <1>6, <3>2, <3>3, MarkersAssumption DEF Serial, Aborted
  <2>6. (Listed(Seen(open[x])))' = Listed(Seen(open[x])) \cup {q}
    BY <1>2, <2>4, <2>5 DEF Listed, history
  <2>7. /\ ids'[registered'] = (Listed(Seen(open[x])))'
        /\ \A c \in Banks, p \in Questions : cache'[c][p] \in Versions => open'[x].own[p] = None
        /\ \A p \in Questions : open'[x].objects[p] \in {None, (Row(open[x], p))'}
    BY <1>2, <1>3, <1>5, <2>1, <2>3, <2>5, <2>6 DEF SerialSession
  <2>8. (SerialSession(open[x]))'
    BY <1>2, <1>3, <2>1, <2>7 DEF SerialSession
  <2> QED BY <2>2, <2>8
<1> QED BY <1>1, <1>2, <1>3, <1>4, <1>6, SerialStepKeeps

LEMMA BeginUpdateSerial ==
  ASSUME IInv, Serial, NEW x \in Sessions, NEW b \in Banks, NEW q \in Questions,
         NEW v \in Versions, BeginUpdate(x, b, q, v)
  PROVE  Serial'
<1>1. /\ Using(x, b) /\ open[x] # Idle /\ open[x] \in Session /\ open[x].doing = "nothing"
      /\ open[x].bank = b /\ v # None
  BY Usable, MarkersAssumption DEF BeginUpdate
<1>2. UNCHANGED <<question, registered, ids, cache>> /\ UNCHANGED history
  BY DEF BeginUpdate, process
<1>3. /\ open'[x].own = open[x].own /\ open'[x].bank = b /\ open'[x].on = q
      /\ open'[x].doing = IF v = Object(x, q) THEN "same" ELSE "update"
      /\ \A p \in Questions : open'[x].objects[p] = IF p = q THEN v ELSE open[x].objects[p]
      /\ open'[x] \in Session /\ \A y \in Sessions \ {x} : open'[y] = open[y]
  BY <1>1 DEF BeginUpdate, IInv, TypeOK, Session
<1>4. open'[x] # Idle
  BY <1>3, IdleAssumption
<1>5. ASSUME ~overlapped PROVE OneBank' /\ (SerialSession(open[x]))'
  <2>1. /\ registered = b /\ OneBank /\ SerialSession(open[x])
        /\ \A p \in Questions : /\ open[x].objects[p] \in {None, Row(open[x], p)}
                                /\ View(x, p) = Row(open[x], p)
    BY <1>1, <1>5, SerialUse
  <2>2. OneBank'
    BY <1>2, <2>1 DEF OneBank
  <2>3. /\ (Listed(Seen(open[x])))' = Listed(Seen(open[x]))
        /\ (Seen(open[x]))' = Seen(open[x])
        /\ \A p \in Questions : (Row(open[x], p))' = Row(open[x], p)
    BY <1>2, <1>3, ListedStays
  <2>4. Object(x, q) = Row(open[x], q)
    BY <2>1 DEF Object
  <2>5. \A p \in Questions : open'[x].objects[p] \in {None, Row(open[x], p)}
                               \/ (open'[x].doing = "update" /\ open'[x].on = p)
    BY <1>3, <2>1, <2>4
  <2>6. (SerialSession(open[x]))'
    BY <1>1, <1>2, <1>3, <2>1, <2>3, <2>5 DEF SerialSession, Updating, history
  <2> QED BY <2>2, <2>6
<1> QED BY <1>1, <1>2, <1>3, <1>4, <1>5, SerialStepKeeps

LEMMA UpdateSerial == ASSUME IInv, Serial, NEW x \in Sessions, Update(x) PROVE Serial'
<1> DEFINE q == open[x].on
           b == open[x].bank
<1>1. /\ open[x] # Idle /\ open[x] \in Session /\ open[x].doing \in {"same", "update"}
      /\ b \in Banks /\ q \in Questions
  BY DEF Update, Doing, IInv, TypeOK, SessionInv
<1>2. UNCHANGED <<question, registered, ids>> /\ UNCHANGED history
  BY DEF Update
<1>3. \A c \in Banks, p \in Questions :
        cache'[c][p] = IF c = b /\ p = q THEN Missing ELSE cache[c][p]
  BY <1>1 DEF Update, Invalidated, IInv, TypeOK
<1>4. /\ open'[x].bank = b /\ open'[x].doing = "nothing" /\ open'[x].objects = open[x].objects
      /\ open'[x] \in Session /\ \A y \in Sessions \ {x} : open'[y] = open[y]
      /\ \/ open[x].doing = "same" /\ open'[x].own = open[x].own
         \/ /\ open[x].doing = "update" /\ Found(View(x, q))
            /\ \A p \in Questions :
                 open'[x].own[p] = IF p = q THEN open[x].objects[q] ELSE open[x].own[p]
  <2> DEFINE t == [open[x] EXCEPT !.doing = "nothing", !.on = None]
             w == [open[x].own EXCEPT ![q] = open[x].objects[q]]
             s == [t EXCEPT !.own = w]
  <2>1. /\ t \in Session /\ t.bank = b /\ t.doing = "nothing"
        /\ t.objects = open[x].objects /\ t.own = open[x].own
    BY <1>1 DEF Session
  <2>2. /\ w \in [Questions -> Versions \cup {None, Gone}]
        /\ \A p \in Questions : w[p] = IF p = q THEN open[x].objects[q] ELSE open[x].own[p]
    BY <1>1 DEF Session
  <2>3. /\ s \in Session /\ s.bank = b /\ s.doing = "nothing"
        /\ s.objects = open[x].objects /\ s.own = w
    <3> HIDE DEF t, w
    <3> QED BY <2>1, <2>2 DEF Session
  <2>4. [open[x] EXCEPT !.doing = "nothing", !.on = None, !.own[q] = open[x].objects[q]] = s
    BY <1>1 DEF Session
  <2>5. \/ open[x].doing = "same" /\ open' = [open EXCEPT ![x] = t]
        \/ open[x].doing = "update" /\ Found(View(x, q)) /\ open' = [open EXCEPT ![x] = s]
    BY <2>4 DEF Update, Doing
  <2> HIDE DEF s, t
  <2>6. open \in [Sessions -> Session \cup {Idle}]
    BY DEF IInv, TypeOK
  <2>7. CASE open[x].doing = "same"
    BY <2>1, <2>5, <2>6, <2>7
  <2>8. CASE open[x].doing = "update"
    <3> HIDE DEF w
    <3> QED BY <2>2, <2>3, <2>5, <2>6, <2>8
  <2> QED BY <1>1, <2>7, <2>8
<1>5. open'[x] # Idle
  BY <1>4, IdleAssumption
<1>6. \A c \in Banks, p \in Questions : cache'[c][p] \in Versions => cache'[c][p] = cache[c][p]
  BY <1>3, MarkersAssumption
<1>7. ASSUME ~overlapped PROVE OneBank' /\ (SerialSession(open[x]))'
  <2>1. /\ SerialSession(open[x]) /\ OneBank
        /\ \A p \in Questions : View(x, p) = Row(open[x], p)
    BY <1>1, <1>7, SerialFacts
  <2>2. b = registered
    BY <1>1, <2>1, MarkersAssumption DEF SerialSession
  <2>3. OneBank'
    BY <1>2, <1>3, <2>1 DEF OneBank
  <2>4. CASE open[x].doing = "same"
    <3>1. open'[x].own = open[x].own
      BY <1>4, <2>4
    <3>2. /\ (Listed(Seen(open[x])))' = Listed(Seen(open[x]))
          /\ (Seen(open[x]))' = Seen(open[x])
          /\ \A p \in Questions : (Row(open[x], p))' = Row(open[x], p)
      BY <1>2, <3>1, ListedStays
    <3>3. (SerialSession(open[x]))'
      BY <1>2, <1>4, <1>6, <2>1, <2>4, <3>1, <3>2 DEF SerialSession, Updating, history
    <3> QED BY <2>3, <3>3
  <2>5. CASE open[x].doing = "update"
    <3> DEFINE v == open[x].objects[q]
    <3>1. /\ Found(View(x, q)) /\ v \in Versions /\ v # None /\ Found(v)
          /\ \A p \in Questions : open'[x].own[p] = IF p = q THEN v ELSE open[x].own[p]
      <4>1. v # None /\ v \in Versions
        BY <1>1, <2>1, <2>5 DEF SerialSession, Session
      <4> QED BY <1>4, <2>5, <4>1, MarkersAssumption DEF Found
    <3> HIDE DEF v
    <3>2. \A p \in Questions : (Row(open[x], p))' = IF p = q THEN v ELSE Row(open[x], p)
      BY <1>2, <3>1 DEF Row
    <3>3. (Seen(open[x]))' = Seen(open[x])
      <4>1. Found(Row(open[x], q))
        BY <1>1, <2>1, <3>1
      <4> QED BY <3>1, <3>2, <4>1 DEF Seen
    <3>4. (Listed(Seen(open[x])))' = Listed(Seen(open[x]))
      BY <1>2, <3>3 DEF Listed, history
    <3>5. \A c \in Banks : cache'[c][q] \notin Versions
      <4>1. \A c \in Banks : c # b => cache[c][q] = Missing
        BY <1>1, <2>1, <2>2 DEF OneBank
      <4> QED BY <1>1, <1>3, <4>1, MarkersAssumption
    <3>6. \A c \in Banks, p \in Questions : cache'[c][p] \in Versions => open'[x].own[p] = None
      BY <1>6, <2>1, <3>1, <3>5 DEF SerialSession
    <3>7. \A p \in Questions : open'[x].objects[p] \in {None, (Row(open[x], p))'}
      BY <1>4, <2>1, <3>2 DEF SerialSession, Updating, v
    <3>8. registered # None
      BY <1>1, <2>2, MarkersAssumption
    <3>9. (SerialSession(open[x]))'
      BY <1>2, <1>4, <2>1, <3>3, <3>4, <3>6, <3>7, <3>8 DEF SerialSession
    <3> QED BY <2>3, <3>9
  <2> QED BY <1>1, <2>4, <2>5
<1> QED BY <1>1, <1>2, <1>4, <1>5, <1>6, <1>7, SerialStepKeeps

LEMMA DeleteSerial ==
  ASSUME IInv, Serial, NEW x \in Sessions, NEW b \in Banks, NEW q \in Questions, Delete(x, b, q)
  PROVE  Serial'
<1>1. /\ Using(x, b) /\ open[x] # Idle /\ open[x] \in Session /\ open[x].doing = "nothing"
      /\ open[x].bank = b /\ ~Found(Gone) /\ Gone # None
  BY Usable, MarkersAssumption DEF Delete, Found
<1>2. UNCHANGED <<question, registered>> /\ UNCHANGED history
  BY DEF Delete
<1>3. /\ open'[x].bank = b /\ open'[x].doing = "nothing"
      /\ \A p \in Questions :
           /\ open'[x].own[p] = IF p = q THEN Gone ELSE open[x].own[p]
           /\ open'[x].objects[p] = IF p = q THEN None ELSE open[x].objects[p]
      /\ open'[x] \in Session /\ \A y \in Sessions \ {x} : open'[y] = open[y]
  BY <1>1 DEF Delete, IInv, TypeOK, Session
<1>4. open'[x] # Idle
  BY <1>3, IdleAssumption
<1>5. /\ \A c \in Banks : ids'[c] = IF c = b THEN ids[c] \ {q} ELSE ids[c]
      /\ \A c \in Banks, p \in Questions :
           cache'[c][p] = IF c = b /\ p = q THEN Missing ELSE cache[c][p]
  BY DEF Delete, Invalidated, IInv, TypeOK
<1>6. \A c \in Banks, p \in Questions : cache'[c][p] \in Versions => cache'[c][p] = cache[c][p]
  BY <1>5, MarkersAssumption
<1>7. ASSUME ~overlapped PROVE OneBank' /\ (SerialSession(open[x]))'
  <2>1. /\ registered = b /\ registered # None /\ OneBank /\ SerialSession(open[x])
        /\ \A p \in Questions : /\ open[x].objects[p] \in {None, Row(open[x], p)}
                                /\ View(x, p) = Row(open[x], p)
    BY <1>1, <1>7, SerialUse
  <2>2. OneBank'
    <3>1. \A c \in Banks : ids'[c] # None => c = registered'
      BY <1>2, <1>5, <2>1 DEF OneBank
    <3>2. \A c \in Banks, p \in Questions : cache'[c][p] # Missing => c = registered'
      BY <1>2, <1>5, <2>1 DEF OneBank
    <3> QED BY <3>1, <3>2 DEF OneBank
  <2>3. \A p \in Questions : (Row(open[x], p))' = IF p = q THEN Gone ELSE Row(open[x], p)
    BY <1>1, <1>2, <1>3 DEF Row
  <2>4. (Seen(open[x]))' = Seen(open[x]) \ {q}
    BY <1>1, <2>3 DEF Seen
  <2>5. \A c \in Banks : cache'[c][q] \notin Versions
    BY <1>5, <2>1, MarkersAssumption DEF OneBank
  <2>6. q \in undone => past[q] # {}
    <3>1. question[q] # Gone
      BY <1>1, <2>1 DEF Delete, View, IInv, LockInv
    <3> QED BY <3>1 DEF IInv, RowInv
  <2>7. (Listed(Seen(open[x])))' = Listed(Seen(open[x])) \ {q}
    BY <1>2, <2>4, <2>6 DEF Listed, history
  <2>8. /\ ids'[registered'] = (Listed(Seen(open[x])))'
        /\ \A c \in Banks, p \in Questions : cache'[c][p] \in Versions => open'[x].own[p] = None
        /\ \A p \in Questions : open'[x].objects[p] \in {None, (Row(open[x], p))'}
    BY <1>2, <1>3, <1>5, <1>6, <2>1, <2>3, <2>5, <2>7 DEF SerialSession
  <2>9. (SerialSession(open[x]))'
    BY <1>2, <1>3, <2>1, <2>8 DEF SerialSession
  <2> QED BY <2>2, <2>9
<1> QED BY <1>1, <1>2, <1>3, <1>4, <1>6, <1>7, SerialStepKeeps

\* The session ends: what its objects leave in the cache is committed, or never will be.
LEMMA EndSerial ==
  ASSUME Serial, UNCHANGED <<registered, ids, overlapped>>, NEW x \in Sessions,
         open[x] # Idle, open'[x] = Idle, \A y \in Sessions \ {x} : open'[y] = open[y],
         ~overlapped => /\ OneBank'
                        /\ \A b \in Banks, q \in Questions :
                             cache'[b][q] \in Versions => cache'[b][q] = question'[q]
                                                            \/ (Aborted(q))'
                        /\ registered # None => ids[registered] = (Listed(Existing))'
                        /\ registered = None => undone' = {}
  PROVE  Serial'
<1> SUFFICES ASSUME ~overlapped PROVE Serial'
  BY DEF Serial
<1>1. \A y \in Sessions : open'[y] = Idle
  BY DEF Serial, Alone
<1>2. Alone'
  BY <1>1 DEF Alone
<1> QED BY <1>1, <1>2 DEF Serial

LEMMA CommitSerial == ASSUME IInv, Serial, NEW x \in Sessions, Commit(x) PROVE Serial'
<1>1. open[x] # Idle /\ open[x] \in Session /\ open[x].doing = "nothing"
  BY DEF Commit, Ready, IInv, TypeOK
<1>2. UNCHANGED <<registered, ids, overlapped, undone>>
  BY DEF Commit
<1>3. open'[x] = Idle /\ \A y \in Sessions \ {x} : open'[y] = open[y]
  BY DEF Commit, IInv, TypeOK
<1>4. /\ \A q \in Questions : question'[q] = View(x, q)
      /\ \A b \in Banks, q \in Questions :
           cache'[b][q] = IF cache[b][q] = x THEN open[x].objects[q] ELSE cache[b][q]
  BY DEF Commit, Detached
<1>5. \A q \in Questions : question[q] = Gone => question'[q] = Gone /\ past'[q] = past[q]
  <2> SUFFICES ASSUME NEW q \in Questions, question[q] = Gone
               PROVE  question'[q] = Gone /\ past'[q] = past[q]
    OBVIOUS
  <2>1. View(x, q) = Gone
    BY <1>1 DEF View, IInv, LockInv
  <2> QED BY <1>4, <2>1 DEF Commit, IInv, TypeOK
<1>6. ASSUME ~overlapped
      PROVE  /\ OneBank'
             /\ \A b \in Banks, q \in Questions :
                  cache'[b][q] \in Versions => cache'[b][q] = question'[q] \/ (Aborted(q))'
             /\ registered # None => ids[registered] = (Listed(Existing))'
             /\ registered = None => undone' = {}
  <2>1. /\ SerialSession(open[x]) /\ OneBank /\ Visible(x) = Seen(open[x])
        /\ \A q \in Questions : View(x, q) = Row(open[x], q)
    BY <1>1, <1>6, SerialFacts
  <2>2. OneBank'
    BY <1>2, <1>4, <2>1, MarkersAssumption DEF OneBank
  <2>3. ASSUME NEW b \in Banks, NEW q \in Questions, cache'[b][q] \in Versions
        PROVE  cache'[b][q] = question'[q] \/ (Aborted(q))'
    <3>1. CASE cache[b][q] = x
      <4>1. open[x].objects[q] # None
        BY <3>1 DEF IInv, EntryInv
      <4> QED BY <1>1, <1>4, <2>1, <3>1, <4>1 DEF SerialSession, Updating
    <3>2. CASE cache[b][q] # x
      <4>1. cache'[b][q] = cache[b][q] /\ (cache[b][q] = question[q] \/ Aborted(q))
        BY <1>4, <1>6, <2>3, <3>2 DEF Serial
      <4>2. open[x].own[q] = None
        BY <2>1, <2>3, <4>1 DEF SerialSession
      <4>3. CASE cache[b][q] = question[q]
        BY <1>4, <4>1, <4>2, <4>3 DEF View
      <4>4. CASE Aborted(q)
        BY <1>5, <4>4 DEF Aborted
      <4> QED BY <4>1, <4>3, <4>4
    <3> QED BY <3>1, <3>2
  <2>4. Existing' = Seen(open[x])
    BY <1>4, <2>1 DEF Seen, Existing
  <2>5. \A q \in undone : past'[q] = {} <=> past[q] = {}
    BY <1>5 DEF Commit, IInv, TypeOK, RowInv
  <2>6. (Listed(Existing))' = Listed(Seen(open[x]))
    BY <1>2, <2>4, <2>5 DEF Listed
  <2>7. registered # None => ids[registered] = Listed(Seen(open[x]))
    BY <2>1 DEF SerialSession
  <2>8. registered = None => undone' = {}
    BY <1>2, <1>6 DEF Serial
  <2> QED BY <2>2, <2>3, <2>6, <2>7, <2>8
<1> QED BY <1>1, <1>2, <1>3, <1>6, EndSerial

LEMMA RollbackSerial == ASSUME IInv, Serial, NEW x \in Sessions, Rollback(x) PROVE Serial'
<1>1. open[x] # Idle /\ open[x] \in Session
  BY DEF Rollback, IInv, TypeOK
<1>2. UNCHANGED <<registered, ids, overlapped, past>>
  BY DEF Rollback
<1>3. open'[x] = Idle /\ \A y \in Sessions \ {x} : open'[y] = open[y]
  BY DEF Rollback, IInv, TypeOK
<1>4. /\ undone' = undone \cup {q \in Questions : Found(question[q]) # Found(View(x, q))}
      /\ \A q \in Questions : question'[q] = IF q \in Inserted(x) THEN Gone ELSE question[q]
  BY DEF Rollback
<1>5. \A b \in Banks, q \in Questions :
        /\ cache[b][q] # x => cache'[b][q] = cache[b][q]
        /\ cache[b][q] = x => cache'[b][q] = Unreadable \/ q \in Inserted(x)
        /\ q \in Inserted(x) => (Aborted(q))'
  BY RolledBack
<1>6. ASSUME ~overlapped
      PROVE  /\ OneBank'
             /\ \A b \in Banks, q \in Questions :
                  cache'[b][q] \in Versions => cache'[b][q] = question'[q] \/ (Aborted(q))'
             /\ registered # None => ids[registered] = (Listed(Existing))'
             /\ registered = None => undone' = {}
  <2>1. /\ SerialSession(open[x]) /\ OneBank /\ Visible(x) = Seen(open[x])
        /\ \A q \in Questions : View(x, q) = Row(open[x], q)
    BY <1>1, <1>6, SerialFacts
  <2>2. OneBank'
    BY <1>2, <1>5, <2>1, MarkersAssumption DEF OneBank
  <2>3. ASSUME NEW b \in Banks, NEW q \in Questions, cache'[b][q] \in Versions
        PROVE  cache'[b][q] = question'[q] \/ (Aborted(q))'
    <3>1. CASE cache[b][q] = x
      BY <1>5, <2>3, <3>1, MarkersAssumption
    <3>2. CASE cache[b][q] # x
      <4>1. cache'[b][q] = cache[b][q] /\ (cache[b][q] = question[q] \/ Aborted(q))
        BY <1>5, <1>6, <2>3, <3>2 DEF Serial
      <4> QED BY <1>2, <1>4, <1>5, <4>1 DEF Aborted
    <3> QED BY <3>1, <3>2
  <2>4. \A q \in Questions : q \in (Listed(Existing))' <=> q \in Listed(Seen(open[x]))
    <3> SUFFICES ASSUME NEW q \in Questions
                 PROVE  (IF q \in undone' THEN past[q] = {} ELSE Found(question'[q]))
                          <=> (IF q \in undone THEN past[q] = {} ELSE Found(View(x, q)))
      BY <1>2, <2>1 DEF Listed, Existing, Seen
    <3>1. CASE q \in undone
      BY <1>4, <3>1
    <3>2. CASE q \notin undone'
      <4>1. q \notin undone /\ (Found(question[q]) <=> Found(View(x, q)))
        BY <1>4, <3>2 DEF Found
      <4>2. Found(question'[q]) <=> Found(question[q])
        BY <1>4 DEF Found, Inserted
      <4> QED BY <3>2, <4>1, <4>2
    <3>3. CASE q \in undone' /\ q \notin undone
      <4>1. ~(Found(question[q]) <=> Found(View(x, q)))
        BY <1>4, <3>3 DEF Found
      <4>2. question[q] # Gone
        BY <1>1, <4>1 DEF View, IInv, LockInv
      <4>3. past[q] = {} <=> question[q] = New
        BY <4>2 DEF IInv, RowInv, TypeOK
      <4>4. Found(question[q]) <=> question[q] # New
        BY <4>2 DEF Found
      <4> QED BY <3>3, <4>1, <4>3, <4>4
    <3> QED BY <3>1, <3>2, <3>3
  <2>5. (Listed(Existing))' = Listed(Seen(open[x]))
    BY <2>4 DEF Listed
  <2>6. registered # None => ids[registered] = Listed(Seen(open[x]))
    BY <2>1 DEF SerialSession
  <2>7. registered = None => undone' = {}
    <3> SUFFICES ASSUME registered = None PROVE undone' = {}
      OBVIOUS
    <3>1. undone = {} /\ \A q \in Questions : View(x, q) = question[q]
      BY <1>6, <2>1 DEF Serial, SerialSession, View
    <3> QED BY <1>4, <3>1
  <2> QED BY <2>2, <2>3, <2>5, <2>6, <2>7
<1> QED BY <1>1, <1>2, <1>3, <1>6, EndSerial

LEMMA NextKeepsSerial == IInv /\ Serial /\ [Next]_vars => Serial'
<1> SUFFICES ASSUME IInv, Serial, [Next]_vars PROVE Serial'
  OBVIOUS
<1>1. CASE UNCHANGED vars
  <2>1. UNCHANGED <<question, registered, ids, cache, open, overlapped, undone, past>>
    BY <1>1 DEF vars, process, history
  <2> QED BY <2>1 DEF Serial, Alone, OneBank, Quiet, SerialSession, Seen, Row, Updating,
                      Listed, Existing, Aborted
<1>2. ASSUME NEW x \in Sessions, NEW b \in Banks,
             \/ Register(x, b)
             \/ \E q \in Questions :
                  \/ BeginLoad(x, b, q)
                  \/ Delete(x, b, q)
                  \/ \E v \in Versions : Create(x, b, q, v) \/ BeginUpdate(x, b, q, v)
      PROVE  Serial'
  BY <1>2, RegisterSerial, BeginLoadSerial, DeleteSerial, CreateSerial, BeginUpdateSerial
<1>3. ASSUME NEW x \in Sessions,
             Begin(x) \/ ForOwner(x) \/ Fill(x) \/ Update(x) \/ Commit(x) \/ Rollback(x)
      PROVE  Serial'
  BY <1>3, BeginSerial, ForOwnerSerial, FillSerial, UpdateSerial, CommitSerial, RollbackSerial
<1> QED BY <1>1, <1>2, <1>3 DEF Next

LEMMA SerialInvariance == Spec => []Serial
<1>1. Init => IInv /\ Serial
  BY InitIInv, InitSerial
<1>2. IInv /\ Serial /\ [Next]_vars => (IInv /\ Serial)'
  BY NextKeepsIInv, NextKeepsSerial
<1> QED BY <1>1, <1>2, PTL DEF Spec

\* Sessions that come one after the other get one bank.  Its list is the questions that
\* exist, with those whose creation was rolled back and without those whose deletion was.
THEOREM BankAlwaysComplete == Spec => []BankComplete
<1>1. ASSUME IInv, Serial PROVE BankComplete
  <2> SUFFICES ASSUME ~overlapped, Quiet, NEW b \in Banks, ids[b] # None
               PROVE  /\ b = registered
                      /\ ids[b] = {q \in Questions : IF q \in undone THEN Aborted(q)
                                                                    ELSE Found(question[q])}
    BY DEF BankComplete
  <2>1. b = registered /\ registered # None
    BY <1>1, MarkersAssumption DEF Serial, OneBank
  <2>2. ids[b] = Listed(Existing)
    BY <1>1, <2>1 DEF Serial
  <2>3. \A q \in undone : Aborted(q) <=> past[q] = {}
    BY <1>1 DEF IInv, TypeOK, RowInv, Aborted
  <2> QED BY <2>1, <2>2, <2>3 DEF Listed, Existing
<1> QED BY <1>1, Invariance, SerialInvariance, PTL

\* What the cache shows in such sessions is what the open one would read itself, and
\* between sessions what is committed, but for a question whose creation was rolled back.
THEOREM CacheAlwaysFresh == Spec => []CacheFresh
<1>1. ASSUME IInv, Serial PROVE CacheFresh
  <2> SUFFICES ASSUME ~overlapped, NEW b \in Banks, NEW q \in Questions,
                      Shown(b, q) \notin {Missing, Unreadable}
               PROVE  \/ Aborted(q)
                      \/ Quiet /\ Shown(b, q) = question[q]
                      \/ \E x \in Sessions : /\ open[x] # Idle
                                             /\ \/ Shown(b, q) = View(x, q)
                                                \/ Doing(x, "update") /\ open[x].on = q
    BY DEF CacheFresh
  <2>1. CASE cache[b][q] \in Sessions
    <3>1. PICK x \in Sessions : x = cache[b][q] /\ Shown(b, q) = open[x].objects[q]
      BY <2>1 DEF Shown
    <3>2. open[x] # Idle /\ open[x].objects[q] # None
      BY <1>1, <3>1 DEF IInv, EntryInv
    <3>3. SerialSession(open[x]) /\ View(x, q) = Row(open[x], q)
      BY <1>1, <3>2, SerialFacts
    <3> QED BY <3>1, <3>2, <3>3 DEF SerialSession, Updating, Doing
  <2>2. CASE cache[b][q] \notin Sessions
    <3>1. Shown(b, q) = cache[b][q] /\ cache[b][q] \in Versions
      <4>1. cache[b][q] \in Versions \cup Sessions \cup {Missing, Unreadable}
        BY <1>1 DEF IInv, TypeOK
      <4> QED BY <2>2, <4>1 DEF Shown
    <3>2. cache[b][q] = question[q] \/ Aborted(q)
      BY <1>1, <3>1 DEF Serial
    <3>3. ASSUME NEW x \in Sessions, open[x] # Idle PROVE View(x, q) = question[q]
      <4>1. SerialSession(open[x])
        BY <1>1, <3>3, SerialFacts
      <4> QED BY <3>1, <4>1 DEF SerialSession, View
    <3> QED BY <3>1, <3>2, <3>3 DEF Quiet
  <2> QED BY <2>1, <2>2
<1> QED BY <1>1, Invariance, SerialInvariance, PTL
=============================================================================
