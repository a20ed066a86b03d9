------------------------------ MODULE Accounts ------------------------------
(***************************************************************************)
(* The table of users: signing up, the requests of the auth router that    *)
(* change a user, and the operations of UserDAO.                           *)
(*                                                                         *)
(* As in Catalog a request is one transaction at read committed.  A user   *)
(* is loaded as a mapped object (the Begin actions), attributes are set on *)
(* the object, and a flush writes the attributes that differ from what was *)
(* loaded (Commit).  Creating depends on its arguments and on constraints  *)
(* only and is one action.  Where a constraint does not hold the request   *)
(* can only Fail, which rolls it back.                                     *)
(*                                                                         *)
(* The route that deletes a user is two transactions.  The first looks the *)
(* user up (BeginDelete).  The second loads the user again, with the       *)
(* questions that name it (LoadDeleted), and deletes the row (Delete).     *)
(* Questions may be written or deleted between any two of these.           *)
(*                                                                         *)
(* Names, age and the flag is_active are left out: every account is active *)
(* from the start and no operation changes that.                           *)
(***************************************************************************)
EXTENDS Naturals, FiniteSets

CONSTANTS
  Users,       \* identifiers: an account gets one that was never used
  Addresses,   \* e-mail addresses as clients spell them
  Normal,      \* the spelling _normalize_email makes of each
  Phones, Schools, Passwords,
  Roles, Student,
  Payloads,    \* what clients send to the update requests, see Payload
  Txns,        \* slots for requests that are served concurrently
  None,        \* the database's NULL
  Unset,       \* a field that a payload does not have
  New, Gone,   \* the states of an identifier that names no row
  Idle

ASSUME NormalAssumption ==
  /\ Normal \in [Addresses -> Addresses]
  /\ \A a \in Addresses : Normal[Normal[a]] = Normal[a]
ASSUME StudentAssumption == Student \in Roles

VARIABLES
  account,     \* table users
  teaches,     \* the users that rows of the table questions refer to
  txn          \* the mapped object of each request being served

vars == <<account, teaches, txn>>
----------------------------------------------------------------------------
Account == [email : Addresses, phone : Phones \cup {None}, password : Passwords,
            role : Roles, school : Schools \cup {None}]

Payload == [email : Addresses \cup {Unset}, phone : Phones \cup {None, Unset},
            password : Passwords \cup {Unset}, role : Roles \cup {Unset},
            school : Schools \cup {None, Unset}]

ASSUME PayloadsAssumption == Payloads \subseteq Payload
ASSUME MarkersAssumption == /\ {New, Gone} \cap Account = {}
                            /\ Unset \notin Phones \cup Schools \cup {None}
                            /\ New # Gone

Present == {u \in Users : account[u] \notin {New, Gone}}

\* The unique constraints of the table; NULL is no value that could be taken twice.
EmailFree(a, u) == \A v \in Present \ {u} : account[v].email # a
PhoneFree(p, u) == p # None => \A v \in Present \ {u} : account[v].phone # p

\* The accounts that are found for an address, in whatever spelling.
ByAddress(a) == {u \in Present : account[u].email = Normal[a]}
----------------------------------------------------------------------------
(* Mapped objects.                                                         *)

\* Mutated form: the whole object is written back.
WholeObject(set, seen, current) == set

\* A flush writes an attribute that differs from its loaded value.
Flushed(set, seen, current) == IF set = seen THEN current ELSE set

\* Mutated form: a field that was not sent is taken for one.
Raw(asked, old) == asked

Given(asked, old) == IF asked = Unset THEN old ELSE asked

\* Mutated form: every attribute of the payload is set.
Assigned(seen, p) ==
  [email |-> Given(p.email, seen.email), phone |-> Given(p.phone, seen.phone),
   password |-> Given(p.password, seen.password), role |-> Given(p.role, seen.role),
   school |-> Given(p.school, seen.school)]

\* An update sets the profile, and ignores whatever else was sent.
AfterUpdate(seen, p) ==
  [seen EXCEPT !.phone = Given(p.phone, seen.phone), !.school = Given(p.school, seen.school)]

\* Mutated form: the new address is stored as it was spelled.
AsSpelled(seen, a) == [seen EXCEPT !.email = a]

AfterChangeEmail(seen, a) == [seen EXCEPT !.email = Normal[a]]

AfterSetPassword(seen, p) == [seen EXCEPT !.password = p]

At(x, op) == txn[x] # Idle /\ txn[x].op = op

Load(x, op, u, object) ==
  /\ txn[x] = Idle
  /\ u \in Present
  /\ txn' = [txn EXCEPT ![x] = [op |-> op, user |-> u, seen |-> account[u], object |-> object]]
  /\ UNCHANGED <<account, teaches>>
----------------------------------------------------------------------------
(* Creating, and the questions that name a user.                           *)

Create(u, a, phone, password, role, school) ==
  /\ account[u] = New
  /\ EmailFree(Normal[a], u) /\ PhoneFree(phone, u)
  /\ account' = [account EXCEPT ![u] = [email |-> Normal[a], phone |-> phone,
                                        password |-> password, role |-> role,
                                        school |-> school]]
  /\ UNCHANGED <<teaches, txn>>

SignUp(u, a, phone, password, school) == Create(u, a, phone, password, Student, school)

\* A question names its author.
Teach(u) ==
  /\ u \in Present \ teaches
  /\ teaches' = teaches \cup {u}
  /\ UNCHANGED <<account, txn>>

\* The last question that names the user is deleted.
Unteach(u) ==
  /\ u \in teaches
  /\ teaches' = teaches \ {u}
  /\ UNCHANGED <<account, txn>>
----------------------------------------------------------------------------
(* Deleting.                                                               *)

BeginDelete(x, u) == Load(x, "delete", u, account[u])

\* The flush would clear teacher_id of the questions that it finds, which is not allowed.
LoadDeleted(x) ==
  /\ At(x, "delete")
  /\ txn[x].user \in Present \ teaches
  /\ txn' = [txn EXCEPT ![x] = [@ EXCEPT !.op = "deleting"]]
  /\ UNCHANGED <<account, teaches>>

\* By address there is one transaction only, which loads the user and the questions.
BeginDeleteByEmail(x, a) ==
  \E u \in ByAddress(a) \ teaches : Load(x, "deleting", u, account[u])

\* Mutated form: the column teacher_id is no foreign key.
Unused(u) == TRUE

\* The foreign key, for the questions that were written since.
Deletable(u) == u \notin teaches

Delete(x) ==
  /\ At(x, "deleting")
  /\ LET u == txn[x].user
     IN  /\ u \in Present
         /\ Deletable(u)
         /\ account' = [account EXCEPT ![u] = Gone]
  /\ txn' = [txn EXCEPT ![x] = Idle]
  /\ UNCHANGED teaches
----------------------------------------------------------------------------
(* Updates.                                                                *)

BeginUpdate(x, u, p) == Load(x, "update", u, AfterUpdate(account[u], p))

BeginUpdateByEmail(x, a, p) == \E u \in ByAddress(a) : BeginUpdate(x, u, p)

BeginChangeEmail(x, u, a) == Load(x, "change email", u, AfterChangeEmail(account[u], a))

BeginSetPassword(x, u, p) == Load(x, "set password", u, AfterSetPassword(account[u], p))

Commit(x) ==
  /\ txn[x] # Idle /\ txn[x].op \notin {"delete", "deleting"}
  /\ LET u      == txn[x].user
         new(f) == Flushed(txn[x].object[f], txn[x].seen[f], account[u][f])
     IN  /\ u \in Present
         /\ EmailFree(new("email"), u) /\ PhoneFree(new("phone"), u)
         /\ account' = [account EXCEPT ![u] =
                          [email |-> new("email"), phone |-> new("phone"),
                           password |-> new("password"), role |-> new("role"),
                           school |-> new("school")]]
  /\ txn' = [txn EXCEPT ![x] = Idle]
  /\ UNCHANGED teaches

\* An error reply, a constraint that does not hold, a lost connection: rollback.  So
\* ends, with status 200, the deletion of a user who is gone when it is loaded again.
Fail(x) ==
  /\ txn[x] # Idle
  /\ txn' = [txn EXCEPT ![x] = Idle]
  /\ UNCHANGED <<account, teaches>>
----------------------------------------------------------------------------
Init ==
  /\ account = [u \in Users |-> New]
  /\ teaches = {}
  /\ txn = [x \in Txns |-> Idle]

Enrol ==
  \E u \in Users, a \in Addresses, p \in Phones \cup {None}, w \in Passwords,
     s \in Schools \cup {None} :
    \/ SignUp(u, a, p, w, s)
    \/ \E role \in Roles : Create(u, a, p, w, role, s)

Serve(x) ==
  \/ \E u \in Users, p \in Payloads : BeginUpdate(x, u, p)
  \/ \E a \in Addresses, p \in Payloads : BeginUpdateByEmail(x, a, p)
  \/ \E u \in Users, a \in Addresses : BeginChangeEmail(x, u, a)
  \/ \E u \in Users, w \in Passwords : BeginSetPassword(x, u, w)
  \/ \E u \in Users : BeginDelete(x, u)
  \/ LoadDeleted(x)
  \/ \E a \in Addresses : BeginDeleteByEmail(x, a)
  \/ Delete(x)
  \/ Commit(x)
  \/ Fail(x)

Next ==
  \/ Enrol
  \/ \E u \in Users : Teach(u) \/ Unteach(u)
  \/ \E x \in Txns : Serve(x)

Spec == Init /\ [][Next]_vars
----------------------------------------------------------------------------
Operations == {"update", "change email", "set password", "delete", "deleting"}

Served == [op : Operations, user : Users, seen : Account, object : Account]

\* Rows and mapped objects have the types of the columns.
TypeOK ==
  /\ account \in [Users -> Account \cup {New, Gone}]
  /\ teaches \subseteq Users
  /\ txn \in [Txns -> Served \cup {Idle}]

\* An account is found by its own address, and no other one is: whatever spelling a
\* user signs up, logs in or changes to, and with requests that overlap.
FoundByAddress == \A u \in Present : ByAddress(account[u].email) = {u}

\* Nobody who is named by a question is deleted, also when the question is written
\* after the request to delete has looked the user up, or has found no questions.
TeachersStay == teaches \subseteq Present

\* While an account lives, its field f changes only when a request that is asked to
\* change it commits, and to what it was asked.
ChangedBy(op, f) ==
  \A u \in Present \cap Present' :
    account'[u][f] # account[u][f] =>
      \E x \in Txns : /\ At(x, op) /\ txn'[x] = Idle
                      /\ txn[x].user = u /\ txn[x].object[f] = account'[u][f]

\* Updating a profile never changes the address, the password or the role, whatever
\* is sent, and does not take back a change of them that commits after it has read.
CredentialsStay ==
  [][/\ ChangedBy("change email", "email")
     /\ ChangedBy("set password", "password")
     /\ ChangedBy("change role", "role")]_vars
=============================================================================
