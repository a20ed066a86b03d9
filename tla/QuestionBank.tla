---------------------------- MODULE QuestionBank ----------------------------
(***************************************************************************)
(* The questions of one teacher behind TestBank: the registry of banks,    *)
(* the list of identifiers and the QuestionCache of each bank, and the     *)
(* database sessions that go through them.                                 *)
(*                                                                         *)
(* The cache holds mapped objects, not copies.  An object belongs to the   *)
(* session that loaded it, and its attributes change when that session     *)
(* sets them.  When the session commits it is left behind with its values. *)
(* When it rolls back the values of a question that it had loaded expire,  *)
(* and nobody can read them again; but an object that the session itself   *)
(* has inserted becomes transient, and keeps the values of a row that will *)
(* never be.  What a session has flushed is in `own' until it commits.     *)
(*                                                                         *)
(* A method of a bank is several steps where it awaits the database in     *)
(* between: the registry, the cache and the lists belong to the process,   *)
(* and are read and changed by other sessions meanwhile.                   *)
(*                                                                         *)
(* Nothing in the repository but its tests makes a bank, so the sessions   *)
(* are what a caller opens.  They end by a commit or, as in the tests and  *)
(* the handlers of exceptions, by a rollback: a session that is closed     *)
(* after a flush without either leaves its objects behind with values that *)
(* nobody committed.                                                       *)
(*                                                                         *)
(* A question is its identifier and a version of its attributes.  Searches *)
(* and listings only read.  The routers call QuestionDAO, not the bank;    *)
(* here every change goes through the bank.                                *)
(***************************************************************************)
EXTENDS FiniteSets

CONSTANTS
  Questions,   \* identifiers of questions: a row gets one that was never used
  Versions,    \* what the attributes of a question can be
  Banks,       \* the TestBank objects that may be made
  Sessions,    \* slots for database sessions that are open at the same time
  New, Gone,   \* the states of an identifier that names no row
  Missing, Unreadable,  \* cache entries: there is none, its values have expired
  None,
  Idle

ASSUME MarkersAssumption ==
  /\ {New, Gone, Missing, Unreadable, None} \cap Versions = {}
  /\ Sessions \cap (Versions \cup {Missing, Unreadable}) = {}
  /\ New # Gone /\ Gone # None /\ Missing # Unreadable
  /\ None \notin Banks /\ \A list \in SUBSET Questions : list # None

VARIABLES
  question,    \* table questions: what is committed, or what became of the identifier
  registered,  \* _banks: the bank that for_owner answers with
  ids,         \* question_ids of each bank; None of a bank that was not made
  cache,       \* the QuestionCache of each bank; a session stands for its object
  open,        \* what each open session holds
  overlapped,  \* history: whether two sessions were open at the same time
  undone,      \* history: the questions whose creation or deletion was rolled back
  past         \* history: the versions of each question that were committed

process == <<registered, ids, cache>>
history == <<overlapped, undone, past>>
vars == <<question, process, open, history>>
----------------------------------------------------------------------------
Nothing == [q \in Questions |-> None]

Opened == [bank |-> None, objects |-> Nothing, own |-> Nothing, doing |-> "nothing",
           on |-> None, ids |-> {}]

Ready(x) == open[x] # Idle /\ open[x].doing = "nothing"

Using(x, b) == Ready(x) /\ b = open[x].bank /\ b # None

Doing(x, step) == open[x] # Idle /\ open[x].doing = step

\* What a statement of session x sees of question q.
View(x, q) == IF open[x].own[q] = None THEN question[q] ELSE open[x].own[q]

\* Mutated form: the check for a row that is not there is missing.
Anything(row) == TRUE

Found(row) == row \notin {New, Gone}

Visible(x) == {q \in Questions : Found(View(x, q))}

\* A row that another session has written is locked until that one ends.
Locked(x, q) == \E y \in Sessions \ {x} : open[y] # Idle /\ open[y].own[q] # None

\* An object that the session has loaded before is not refreshed by another SELECT.
Object(x, q) == IF open[x].objects[q] = None THEN View(x, q) ELSE open[x].objects[q]

\* Mutated form: the entry is kept.
Kept(c, b, q) == c

Invalidated(c, b, q) == [c EXCEPT ![b][q] = Missing]

\* The objects of session x in the caches are left behind with their values.
Detached(x) ==
  [b \in Banks |-> [q \in Questions |->
     IF cache[b][q] = x THEN open[x].objects[q] ELSE cache[b][q]]]

\* Mutated form: the cache holds copies.
Copied(x, kept) == Detached(x)

\* They are left without, but for those that the session has inserted and still has.
Expired(x, kept) ==
  [b \in Banks |-> [q \in Questions |->
     IF cache[b][q] = x /\ q \notin kept THEN Unreadable ELSE Detached(x)[b][q]]]

\* Where the row is one that session x has written and nobody else has seen.
Inserted(x) == {q \in Questions : question[q] = New /\ open[x].own[q] # None}
----------------------------------------------------------------------------
(* The registry.                                                           *)

Begin(x) ==
  /\ open[x] = Idle
  /\ open' = [open EXCEPT ![x] = Opened]
  /\ overlapped' = (overlapped \/ \E y \in Sessions : open[y] # Idle)
  /\ UNCHANGED <<question, process, undone, past>>

\* for_owner answers with the registered bank, or asks for the questions.
ForOwner(x) ==
  /\ Ready(x) /\ open[x].bank = None
  /\ open' = [open EXCEPT ![x] =
       IF registered # None
         THEN [@ EXCEPT !.bank = registered]
         ELSE [@ EXCEPT !.doing = "register", !.ids = Visible(x)]]
  /\ UNCHANGED <<question, process, history>>

\* Mutated form: the new bank is not put into the registry.
Forgotten(b) == None

Entered(b) == b

Register(x, b) ==
  /\ Doing(x, "register")
  /\ ids[b] = None
  /\ ids' = [ids EXCEPT ![b] = open[x].ids]
  /\ registered' = Entered(b)
  /\ open' = [open EXCEPT ![x] = [@ EXCEPT !.bank = b, !.doing = "nothing", !.ids = {}]]
  /\ UNCHANGED <<question, cache, history>>
----------------------------------------------------------------------------
(* Reading through the cache.                                              *)

\* LazyQuestion and warmup_cache: a question that is not cached is loaded...
BeginLoad(x, b, q) ==
  /\ Using(x, b)
  /\ cache[b][q] = Missing
  /\ Found(View(x, q))
  /\ open' = [open EXCEPT ![x] = [@ EXCEPT !.doing = "load", !.on = q,
                                           !.objects[q] = Object(x, q)]]
  /\ UNCHANGED <<question, process, history>>

\* ... and the object is put into the cache, whatever happened in between.
Fill(x) ==
  /\ Doing(x, "load")
  /\ cache' = [cache EXCEPT ![open[x].bank][open[x].on] = x]
  /\ open' = [open EXCEPT ![x] = [@ EXCEPT !.doing = "nothing", !.on = None]]
  /\ UNCHANGED <<question, registered, ids, history>>
----------------------------------------------------------------------------
(* Changes.                                                                *)

Create(x, b, q, v) ==
  /\ Using(x, b)
  /\ View(x, q) = New /\ ~Locked(x, q)
  /\ open' = [open EXCEPT ![x] = [@ EXCEPT !.own[q] = v, !.objects[q] = v]]
  /\ ids' = [ids EXCEPT ![b] = @ \cup {q}]
  /\ UNCHANGED <<question, registered, cache, history>>

\* The attributes of the object are set; no UPDATE follows if they do not differ.
BeginUpdate(x, b, q, v) ==
  /\ Using(x, b)
  /\ Found(View(x, q))
  /\ open' = [open EXCEPT ![x] =
       [@ EXCEPT !.doing = IF v = Object(x, q) THEN "same" ELSE "update", !.on = q,
                 !.objects[q] = v]]
  /\ UNCHANGED <<question, process, history>>

Update(x) ==
  /\ open[x] # Idle
  /\ LET q == open[x].on
     IN  /\ \/ /\ Doing(x, "same")
               /\ open' = [open EXCEPT ![x] = [@ EXCEPT !.doing = "nothing", !.on = None]]
            \/ /\ Doing(x, "update")
               /\ Found(View(x, q)) /\ ~Locked(x, q)
               /\ open' = [open EXCEPT ![x] = [@ EXCEPT !.doing = "nothing", !.on = None,
                                                        !.own[q] = open[x].objects[q]]]
         /\ cache' = Invalidated(cache, open[x].bank, q)
  /\ UNCHANGED <<question, registered, ids, history>>

Delete(x, b, q) ==
  /\ Using(x, b)
  /\ Found(View(x, q)) /\ ~Locked(x, q)
  /\ open' = [open EXCEPT ![x] = [@ EXCEPT !.own[q] = Gone, !.objects[q] = None]]
  /\ cache' = Invalidated(cache, b, q)
  /\ ids' = [ids EXCEPT ![b] = @ \ {q}]
  /\ UNCHANGED <<question, registered, history>>
----------------------------------------------------------------------------
(* The end of a session.                                                   *)

Commit(x) ==
  /\ Ready(x)
  /\ question' = [q \in Questions |-> View(x, q)]
  /\ past' = [q \in Questions |-> past[q] \cup ({View(x, q)} \ {New, Gone})]
  /\ cache' = Detached(x)
  /\ open' = [open EXCEPT ![x] = Idle]
  /\ UNCHANGED <<registered, ids, overlapped, undone>>

\* Also when a flush or an await in a method of the bank ends in an exception.  An
\* object that its caller let go of may have been loaded again as any other.
Rollback(x) ==
  /\ open[x] # Idle
  /\ \E kept \in SUBSET Inserted(x) : cache' = Expired(x, kept)
  /\ question' = [q \in Questions |-> IF q \in Inserted(x) THEN Gone ELSE question[q]]
  /\ open' = [open EXCEPT ![x] = Idle]
  /\ undone' = undone \cup {q \in Questions : Found(question[q]) # Found(View(x, q))}
  /\ UNCHANGED <<registered, ids, overlapped, past>>
----------------------------------------------------------------------------
Init ==
  /\ question = [q \in Questions |-> New]
  /\ registered = None
  /\ ids = [b \in Banks |-> None]
  /\ cache = [b \in Banks |-> [q \in Questions |-> Missing]]
  /\ open = [x \in Sessions |-> Idle]
  /\ overlapped = FALSE
  /\ undone = {}
  /\ past = [q \in Questions |-> {}]

Next ==
  \E x \in Sessions :
    \/ Begin(x)
    \/ ForOwner(x)
    \/ \E b \in Banks :
         \/ Register(x, b)
         \/ \E q \in Questions :
              \/ BeginLoad(x, b, q)
              \/ Delete(x, b, q)
              \/ \E v \in Versions : Create(x, b, q, v) \/ BeginUpdate(x, b, q, v)
    \/ Fill(x)
    \/ Update(x)
    \/ Commit(x)
    \/ Rollback(x)

Spec == Init /\ [][Next]_vars
----------------------------------------------------------------------------
Session == [bank : Banks \cup {None}, objects : [Questions -> Versions \cup {None}],
            own : [Questions -> Versions \cup {None, Gone}],
            doing : {"nothing", "register", "load", "same", "update"},
            on : Questions \cup {None}, ids : SUBSET Questions]

ASSUME IdleAssumption == Idle \notin Session

\* Rows, lists, cache entries and sessions have their types.
TypeOK ==
  /\ question \in [Questions -> Versions \cup {New, Gone}]
  /\ registered \in Banks \cup {None}
  /\ ids \in [Banks -> (SUBSET Questions) \cup {None}]
  /\ cache \in [Banks -> [Questions -> Versions \cup Sessions \cup {Missing, Unreadable}]]
  /\ open \in [Sessions -> Session \cup {Idle}]
  /\ overlapped \in BOOLEAN /\ undone \subseteq Questions
  /\ past \in [Questions -> SUBSET Versions]

Quiet == \A x \in Sessions : open[x] = Idle

\* What a reader gets from an entry of the cache.
Shown(b, q) == IF cache[b][q] \in Sessions THEN open[cache[b][q]].objects[q] ELSE cache[b][q]

\* Its row was inserted by a session that did not commit it, and will never be there.
Aborted(q) == question[q] = Gone /\ past[q] = {}

\* While sessions have come one after the other, the cache shows the open session what
\* it would read itself, but for a question that it is about to change, and between
\* sessions what is committed, or nothing at all; only a question whose creation was
\* rolled back may be shown for ever.
CacheFresh ==
  ~overlapped =>
    \A b \in Banks, q \in Questions :
      \/ Shown(b, q) \in {Missing, Unreadable}
      \/ Aborted(q)
      \/ Quiet /\ Shown(b, q) = question[q]
      \/ \E x \in Sessions : /\ open[x] # Idle
                             /\ \/ Shown(b, q) = View(x, q)
                                \/ Doing(x, "update") /\ open[x].on = q

\* Sessions that come one after the other get one bank.  Its list is the questions that
\* exist, but for what a rollback does not restore: a question whose creation was
\* rolled back stays in the list, and one whose deletion was stays out of it.
BankComplete ==
  ~overlapped /\ Quiet =>
    \A b \in Banks : ids[b] # None =>
      /\ b = registered
      /\ ids[b] = {q \in Questions : IF q \in undone THEN Aborted(q) ELSE Found(question[q])}

\* Whatever overlaps, a version that is left in a cache when its session has ended was
\* committed at some time, or is of a question that never was: what was rolled back
\* is not shown of a question that others have seen.
NoPhantoms ==
  \A b \in Banks, q \in Questions :
    cache[b][q] \in Versions => cache[b][q] \in past[q] \/ Aborted(q)
=============================================================================
