--------------------------- MODULE AccountsProofs ---------------------------
(***************************************************************************)
(* The invariants of the table of users, for any number of users and of    *)
(* requests that overlap.                                                  *)
(***************************************************************************)
EXTENDS Accounts, TLAPS

\* Addresses are stored, and set on objects, in their normal spelling.
Spelled(a) == Normal[a] = a

RowsSpelled == \A u \in Present : Spelled(account[u].email)

ObjectsSpelled ==
  \A x \in Txns : txn[x] # Idle => Spelled(txn[x].object.email) /\ Spelled(txn[x].seen.email)

\* Different accounts have different addresses.
Distinct == \A u, v \in Present : account[u].email = account[v].email => u = v

\* What a request may set on the object that it has loaded.
Faithful(t) ==
  /\ t.op # "change email" => t.object.email = t.seen.email
  /\ t.op # "set password" => t.object.password = t.seen.password
  /\ t.object.role = t.seen.role

ObjectsFaithful == \A x \in Txns : txn[x] # Idle => Faithful(txn[x])

IInv == /\ TypeOK
        /\ RowsSpelled
        /\ ObjectsSpelled
        /\ Distinct
        /\ TeachersStay
        /\ ObjectsFaithful
----------------------------------------------------------------------------
LEMMA NormalType == \A a \in Addresses : Normal[a] \in Addresses /\ Spelled(Normal[a])
  BY NormalAssumption DEF Spelled

\* A new row, with its fields.
NewRow(a, phone, password, role, school) ==
  [email |-> Normal[a], phone |-> phone, password |-> password, role |-> role, school |-> school]

LEMMA PresentType ==
  ASSUME TypeOK
  PROVE  \A u \in Present : u \in Users /\ account[u] \in Account
  BY DEF TypeOK, Present

\* What attributes a loaded object has after the request has set some.
LEMMA UpdatedObject ==
  ASSUME NEW seen \in Account, NEW p \in Payload
  PROVE  /\ AfterUpdate(seen, p) \in Account
         /\ AfterUpdate(seen, p).email = seen.email
         /\ AfterUpdate(seen, p).password = seen.password
         /\ AfterUpdate(seen, p).role = seen.role
<1> DEFINE ph == Given(p.phone, seen.phone)
           sc == Given(p.school, seen.school)
<1>1. ph \in Phones \cup {None} /\ sc \in Schools \cup {None}
  BY DEF Given, Account, Payload
<1>2. AfterUpdate(seen, p) = [seen EXCEPT !.phone = ph, !.school = sc]
  BY DEF AfterUpdate
<1> HIDE DEF ph, sc
<1> QED BY <1>1, <1>2 DEF Account

LEMMA ReaddressedObject ==
  ASSUME NEW seen \in Account, NEW a \in Addresses
  PROVE  /\ AfterChangeEmail(seen, a) \in Account
         /\ AfterChangeEmail(seen, a).email = Normal[a]
         /\ AfterChangeEmail(seen, a).password = seen.password
         /\ AfterChangeEmail(seen, a).role = seen.role
  BY NormalType DEF AfterChangeEmail, Account

LEMMA RekeyedObject ==
  ASSUME NEW seen \in Account, NEW w \in Passwords
  PROVE  /\ AfterSetPassword(seen, w) \in Account
         /\ AfterSetPassword(seen, w).email = seen.email
         /\ AfterSetPassword(seen, w).password = w
         /\ AfterSetPassword(seen, w).role = seen.role
  BY DEF AfterSetPassword, Account

\* A request that has loaded an object satisfies what IInv says of requests.
LEMMA Loaded ==
  ASSUME IInv, NEW x \in Txns, NEW u \in Users, u \in Present,
         NEW op \in Operations, NEW object \in Account,
         Load(x, op, u, object), Spelled(object.email),
         Faithful([op |-> op, user |-> u, seen |-> account[u], object |-> object])
  PROVE  IInv'
<1> DEFINE t == [op |-> op, user |-> u, seen |-> account[u], object |-> object]
<1>1. account[u] \in Account
  BY PresentType DEF IInv
<1>2. t \in Served /\ Faithful(t) /\ Spelled(t.object.email) /\ Spelled(t.seen.email)
  BY <1>1 DEF Served, IInv, RowsSpelled
<1>3. txn' = [txn EXCEPT ![x] = t] /\ account' = account /\ teaches' = teaches
  BY DEF Load
<1> HIDE DEF t
<1>4. TypeOK'
  BY <1>2, <1>3 DEF IInv, TypeOK
<1>5. ObjectsSpelled' /\ ObjectsFaithful'
  BY <1>2, <1>3 DEF IInv, TypeOK, ObjectsSpelled, ObjectsFaithful, Spelled, Faithful
<1>6. RowsSpelled' /\ Distinct' /\ TeachersStay'
  BY <1>3 DEF IInv, RowsSpelled, Distinct, TeachersStay, Present
<1> QED BY <1>4, <1>5, <1>6 DEF IInv

\* Storing a row of the right type, with an address that is spelled and free.
LEMMA Stored ==
  ASSUME IInv, NEW u \in Users, NEW row \in Account,
         account' = [account EXCEPT ![u] = row], UNCHANGED teaches,
         Spelled(row.email), EmailFree(row.email, u)
  PROVE  /\ account' \in [Users -> Account \cup {New, Gone}]
         /\ RowsSpelled' /\ Distinct' /\ TeachersStay'
<1>1. account \in [Users -> Account \cup {New, Gone}] /\ teaches \subseteq Users
  BY DEF IInv, TypeOK
<1>2. account'[u] = row /\ \A v \in Users \ {u} : account'[v] = account[v]
  BY <1>1
<1>3. row \notin {New, Gone}
  BY MarkersAssumption
<1>4. Present' = Present \cup {u}
  BY <1>2, <1>3 DEF Present
<1>5. account' \in [Users -> Account \cup {New, Gone}]
  BY <1>1
<1>6. RowsSpelled'
  BY <1>2, <1>4 DEF IInv, RowsSpelled, Spelled, Present
<1>7. Distinct'
  BY <1>2, <1>4 DEF IInv, Distinct, EmailFree, Present
<1>8. TeachersStay'
  BY <1>4 DEF IInv, TeachersStay
<1> QED BY <1>5, <1>6, <1>7, <1>8

LEMMA CreateKeeps ==
  ASSUME IInv, NEW u \in Users, NEW a \in Addresses, NEW p \in Phones \cup {None},
         NEW w \in Passwords, NEW role \in Roles, NEW s \in Schools \cup {None},
         Create(u, a, p, w, role, s)
  PROVE  IInv'
<1> DEFINE row == NewRow(a, p, w, role, s)
<1>1. row \in Account /\ row.email = Normal[a]
  BY NormalType DEF NewRow, Account
<1>2. account' = [account EXCEPT ![u] = row] /\ UNCHANGED <<teaches, txn>> /\ EmailFree(Normal[a], u)
  BY DEF Create, NewRow
<1> HIDE DEF row
<1>3. /\ account' \in [Users -> Account \cup {New, Gone}]
      /\ RowsSpelled' /\ Distinct' /\ TeachersStay'
  BY <1>1, <1>2, NormalType, Stored
<1>4. ObjectsSpelled' /\ ObjectsFaithful'
  BY <1>2 DEF IInv, ObjectsSpelled, ObjectsFaithful
<1> QED BY <1>2, <1>3, <1>4 DEF IInv, TypeOK

\* The row that a commit stores.
Written(x) ==
  LET u      == txn[x].user
      new(f) == Flushed(txn[x].object[f], txn[x].seen[f], account[u][f])
  IN  [email |-> new("email"), phone |-> new("phone"), password |-> new("password"),
       role |-> new("role"), school |-> new("school")]

LEMMA CommitWrites ==
  ASSUME IInv, NEW x \in Txns, Commit(x)
  PROVE  /\ txn[x] \in Served /\ txn[x].user \in Present
         /\ Written(x) \in Account
         /\ Spelled(Written(x).email) /\ EmailFree(Written(x).email, txn[x].user)
         /\ account' = [account EXCEPT ![txn[x].user] = Written(x)]
         /\ txn' = [txn EXCEPT ![x] = Idle] /\ teaches' = teaches
<1>1. txn[x] # Idle /\ txn[x] \in Served
  BY DEF IInv, TypeOK, Commit
<1> DEFINE u == txn[x].user
           old == account[u]
           new(f) == Flushed(txn[x].object[f], txn[x].seen[f], old[f])
<1>2. u \in Present /\ EmailFree(new("email"), u)
      /\ account' = [account EXCEPT ![u] =
                       [email |-> new("email"), phone |-> new("phone"),
                        password |-> new("password"), role |-> new("role"),
                        school |-> new("school")]]
      /\ txn' = [txn EXCEPT ![x] = Idle] /\ teaches' = teaches
  BY DEF Commit
<1>3. old \in Account /\ txn[x].object \in Account /\ txn[x].seen \in Account
  BY <1>1, <1>2, PresentType DEF IInv, Served
<1>4. /\ new("email") \in Addresses /\ new("phone") \in Phones \cup {None}
      /\ new("password") \in Passwords /\ new("role") \in Roles
      /\ new("school") \in Schools \cup {None}
  BY <1>3 DEF Flushed, Account
<1>5. Spelled(new("email"))
  BY <1>1, <1>2 DEF IInv, ObjectsSpelled, RowsSpelled, Flushed
<1>6. Written(x) = [email |-> new("email"), phone |-> new("phone"),
                    password |-> new("password"), role |-> new("role"),
                    school |-> new("school")]
  BY DEF Written
<1> HIDE DEF u, old, new
<1>7. Written(x) \in Account /\ Written(x).email = new("email")
  BY <1>4, <1>6 DEF Account
<1>8. account' = [account EXCEPT ![u] = Written(x)]
  BY <1>2, <1>6
<1> QED BY <1>1, <1>2, <1>5, <1>7, <1>8 DEF u

LEMMA TxnEnds ==
  ASSUME IInv, NEW x \in Txns, txn' = [txn EXCEPT ![x] = Idle]
  PROVE  /\ txn' \in [Txns -> Served \cup {Idle}]
         /\ ObjectsSpelled' /\ ObjectsFaithful'
  BY DEF IInv, TypeOK, ObjectsSpelled, ObjectsFaithful

LEMMA CommitKeeps ==
  ASSUME IInv, NEW x \in Txns, Commit(x)
  PROVE  IInv'
<1>1. PICK u \in Present : u = txn[x].user
  BY CommitWrites
<1>2. u \in Users
  BY DEF Present
<1>3. /\ account' \in [Users -> Account \cup {New, Gone}]
      /\ RowsSpelled' /\ Distinct' /\ TeachersStay' /\ teaches' = teaches
  BY <1>1, <1>2, CommitWrites, Stored
<1>4. /\ txn' \in [Txns -> Served \cup {Idle}]
      /\ ObjectsSpelled' /\ ObjectsFaithful'
  BY CommitWrites, TxnEnds
<1> QED BY <1>3, <1>4 DEF IInv, TypeOK

LEMMA FailKeeps ==
  ASSUME IInv, NEW x \in Txns, Fail(x)
  PROVE  IInv'
<1>1. /\ txn' \in [Txns -> Served \cup {Idle}]
      /\ ObjectsSpelled' /\ ObjectsFaithful'
  BY TxnEnds DEF Fail
<1> QED BY <1>1 DEF Fail, IInv, TypeOK, RowsSpelled, Distinct, TeachersStay, Present

LEMMA TeachKeeps ==
  ASSUME IInv, NEW u \in Users, Teach(u)
  PROVE  IInv'
  BY DEF Teach, IInv, TypeOK, RowsSpelled, ObjectsSpelled, Distinct, TeachersStay,
         ObjectsFaithful, Present

LEMMA UnteachKeeps ==
  ASSUME IInv, NEW u \in Users, Unteach(u)
  PROVE  IInv'
  BY DEF Unteach, IInv, TypeOK, RowsSpelled, ObjectsSpelled, Distinct, TeachersStay,
         ObjectsFaithful, Present

LEMMA BeginDeleteKeeps ==
  ASSUME IInv, NEW x \in Txns, NEW u \in Users, NEW op \in {"delete", "deleting"},
         Load(x, op, u, account[u])
  PROVE  IInv'
<1>1. u \in Present /\ account[u] \in Account /\ Spelled(account[u].email)
  BY PresentType DEF Load, IInv, RowsSpelled
<1>2. op \in Operations
  BY DEF Operations
<1>3. Faithful([op |-> op, user |-> u, seen |-> account[u], object |-> account[u]])
  BY DEF Faithful
<1> QED BY <1>1, <1>2, <1>3, Loaded

LEMMA LoadDeletedKeeps ==
  ASSUME IInv, NEW x \in Txns, LoadDeleted(x)
  PROVE  IInv'
<1> DEFINE t == [txn[x] EXCEPT !.op = "deleting"]
<1>1. txn[x] # Idle /\ txn[x].op = "delete" /\ txn[x] \in Served
  BY DEF LoadDeleted, At, IInv, TypeOK
<1>2. t \in Served /\ t.object = txn[x].object /\ t.seen = txn[x].seen /\ t.op = "deleting"
  BY <1>1 DEF Served, Operations
<1>3. Faithful(t) /\ Spelled(t.object.email) /\ Spelled(t.seen.email)
  BY <1>1, <1>2 DEF IInv, ObjectsFaithful, ObjectsSpelled, Faithful
<1>4. txn' = [txn EXCEPT ![x] = t] /\ account' = account /\ teaches' = teaches
  BY DEF LoadDeleted
<1> HIDE DEF t
<1>5. TypeOK'
  BY <1>2, <1>4 DEF IInv, TypeOK
<1>6. ObjectsSpelled' /\ ObjectsFaithful'
  BY <1>3, <1>4 DEF IInv, TypeOK, ObjectsSpelled, ObjectsFaithful, Spelled, Faithful
<1>7. RowsSpelled' /\ Distinct' /\ TeachersStay'
  BY <1>4 DEF IInv, RowsSpelled, Distinct, TeachersStay, Present
<1> QED BY <1>5, <1>6, <1>7 DEF IInv

LEMMA DeleteRemoves ==
  ASSUME IInv, NEW x \in Txns, Delete(x)
  PROVE  \E u \in Users : /\ u = txn[x].user /\ u \notin teaches
                         /\ account' = [account EXCEPT ![u] = Gone]
<1>1. txn[x] # Idle /\ txn[x] \in Served
  BY DEF Delete, At, IInv, TypeOK
<1> QED BY <1>1 DEF Delete, Deletable, Served

LEMMA DeleteKeeps ==
  ASSUME IInv, NEW x \in Txns, Delete(x)
  PROVE  IInv'
<1>1. PICK u \in Users : u \notin teaches /\ account' = [account EXCEPT ![u] = Gone]
  BY DeleteRemoves
<1>2. account \in [Users -> Account \cup {New, Gone}] /\ teaches' = teaches
  BY DEF Delete, IInv, TypeOK
<1>3. Present' = Present \ {u} /\ \A v \in Present' : account'[v] = account[v]
  BY <1>1, <1>2 DEF Present
<1>4. /\ txn' \in [Txns -> Served \cup {Idle}]
      /\ ObjectsSpelled' /\ ObjectsFaithful'
  BY TxnEnds DEF Delete
<1>5. TypeOK'
  BY <1>1, <1>2, <1>4 DEF IInv, TypeOK
<1>6. RowsSpelled' /\ Distinct' /\ TeachersStay'
  BY <1>1, <1>2, <1>3 DEF IInv, RowsSpelled, Distinct, TeachersStay
<1> QED BY <1>4, <1>5, <1>6 DEF IInv
----------------------------------------------------------------------------
LEMMA InitIInv == Init => IInv
  BY DEF Init, IInv, TypeOK, RowsSpelled, ObjectsSpelled, Distinct, TeachersStay,
         ObjectsFaithful, Present

\* The requests that load an object to update it.
LEMMA BeginUpdateKeeps ==
  ASSUME IInv, NEW x \in Txns, NEW u \in Users, NEW p \in Payloads, BeginUpdate(x, u, p)
  PROVE  IInv'
<1> DEFINE object == AfterUpdate(account[u], p)
<1>1. u \in Present /\ Load(x, "update", u, object)
  BY DEF BeginUpdate, Load
<1>2. account[u] \in Account /\ p \in Payload /\ Spelled(account[u].email)
  BY <1>1, PresentType, PayloadsAssumption DEF IInv, RowsSpelled
<1>3. /\ object \in Account /\ object.email = account[u].email
      /\ object.password = account[u].password /\ object.role = account[u].role
  BY <1>2, UpdatedObject
<1> HIDE DEF object
<1>4. Faithful([op |-> "update", user |-> u, seen |-> account[u], object |-> object])
  BY <1>3 DEF Faithful
<1> QED BY <1>1, <1>2, <1>3, <1>4, Loaded DEF Operations

LEMMA BeginChangeEmailKeeps ==
  ASSUME IInv, NEW x \in Txns, NEW u \in Users, NEW a \in Addresses, BeginChangeEmail(x, u, a)
  PROVE  IInv'
<1> DEFINE object == AfterChangeEmail(account[u], a)
<1>1. u \in Present /\ Load(x, "change email", u, object)
  BY DEF BeginChangeEmail, Load
<1>2. account[u] \in Account
  BY <1>1, PresentType DEF IInv
<1>3. /\ object \in Account /\ object.email = Normal[a]
      /\ object.password = account[u].password /\ object.role = account[u].role
  BY <1>2, ReaddressedObject
<1> HIDE DEF object
<1>4. Faithful([op |-> "change email", user |-> u, seen |-> account[u], object |-> object])
  BY <1>3 DEF Faithful
<1>5. Spelled(object.email)
  BY <1>3, NormalType
<1> QED BY <1>1, <1>3, <1>4, <1>5, Loaded DEF Operations

LEMMA BeginSetPasswordKeeps ==
  ASSUME IInv, NEW x \in Txns, NEW u \in Users, NEW w \in Passwords, BeginSetPassword(x, u, w)
  PROVE  IInv'
<1> DEFINE object == AfterSetPassword(account[u], w)
<1>1. u \in Present /\ Load(x, "set password", u, object)
  BY DEF BeginSetPassword, Load
<1>2. account[u] \in Account /\ Spelled(account[u].email)
  BY <1>1, PresentType DEF IInv, RowsSpelled
<1>3. /\ object \in Account /\ object.email = account[u].email /\ object.role = account[u].role
  BY <1>2, RekeyedObject
<1> HIDE DEF object
<1>4. Faithful([op |-> "set password", user |-> u, seen |-> account[u], object |-> object])
  BY <1>3 DEF Faithful
<1> QED BY <1>1, <1>2, <1>3, <1>4, Loaded DEF Operations

LEMMA ServeKeeps ==
  ASSUME IInv, NEW x \in Txns, Serve(x)
  PROVE  IInv'
<1>1. CASE \E u \in Users, p \in Payloads : BeginUpdate(x, u, p)
  BY <1>1, BeginUpdateKeeps
<1>2. CASE \E a \in Addresses, p \in Payloads : BeginUpdateByEmail(x, a, p)
  <2>1. \E u \in Users, p \in Payloads : BeginUpdate(x, u, p)
    BY <1>2 DEF BeginUpdateByEmail, ByAddress, Present
  <2> QED BY <2>1, BeginUpdateKeeps
<1>3. CASE \E u \in Users, a \in Addresses : BeginChangeEmail(x, u, a)
  BY <1>3, BeginChangeEmailKeeps
<1>4. CASE \E u \in Users, w \in Passwords : BeginSetPassword(x, u, w)
  BY <1>4, BeginSetPasswordKeeps
<1>5. CASE Commit(x)
  BY <1>5, CommitKeeps
<1>6. CASE Fail(x)
  BY <1>6, FailKeeps
<1>7. CASE \E u \in Users : BeginDelete(x, u)
  BY <1>7, BeginDeleteKeeps DEF BeginDelete
<1>8. CASE LoadDeleted(x)
  BY <1>8, LoadDeletedKeeps
<1>9. CASE \E a \in Addresses : BeginDeleteByEmail(x, a)
  <2>1. \E u \in Users : Load(x, "deleting", u, account[u])
    BY <1>9 DEF BeginDeleteByEmail, ByAddress, Present
  <2> QED BY <2>1, BeginDeleteKeeps
<1>10. CASE Delete(x)
  BY <1>10, DeleteKeeps
<1> QED BY <1>1, <1>2, <1>3, <1>4, <1>5, <1>6, <1>7, <1>8, <1>9, <1>10 DEF Serve

LEMMA EnrolCreates ==
  ASSUME Enrol
  PROVE  \E u \in Users, a \in Addresses, p \in Phones \cup {None}, w \in Passwords,
            role \in Roles, s \in Schools \cup {None} : Create(u, a, p, w, role, s)
  BY StudentAssumption DEF Enrol, SignUp

LEMMA NextKeepsIInv == IInv /\ [Next]_vars => IInv'
<1> SUFFICES ASSUME IInv, [Next]_vars PROVE IInv'
  OBVIOUS
<1>1. CASE Enrol
  BY <1>1, EnrolCreates, CreateKeeps
<1>2. CASE \E u \in Users : Teach(u) \/ Unteach(u)
  BY <1>2, TeachKeeps, UnteachKeeps
<1>3. CASE \E x \in Txns : Serve(x)
  BY <1>3, ServeKeeps
<1>4. CASE UNCHANGED vars
  BY <1>4 DEF vars, IInv, TypeOK, RowsSpelled, ObjectsSpelled, Distinct, TeachersStay,
              ObjectsFaithful, Present
<1> QED BY <1>1, <1>2, <1>3, <1>4 DEF Next

LEMMA Invariance == Spec => []IInv
  BY InitIInv, NextKeepsIInv, PTL DEF Spec

LEMMA FoundWhenDistinct == IInv => FoundByAddress
<1> SUFFICES ASSUME IInv, NEW u \in Present PROVE ByAddress(account[u].email) = {u}
  BY DEF FoundByAddress
<1> QED BY DEF IInv, RowsSpelled, Spelled, Distinct, ByAddress

\* Rows and mapped objects always have the types of the columns.
THEOREM AccountTypes == Spec => []TypeOK
<1>1. IInv => TypeOK
  BY DEF IInv
<1> QED BY <1>1, Invariance, PTL

\* An account is always found by its address in any spelling, and nobody else is.
THEOREM AlwaysFoundByAddress == Spec => []FoundByAddress
  BY FoundWhenDistinct, Invariance, PTL

\* Nobody who is named by a question is ever deleted, however questions are written and
\* deleted between the lookup, the loading and the deletion of the user.
THEOREM TeachersAlwaysStay == Spec => []TeachersStay
<1>1. IInv => TeachersStay
  BY DEF IInv
<1> QED BY <1>1, Invariance, PTL
----------------------------------------------------------------------------
\* A step changes a field of an account only if it commits a request that set it.
LEMMA CommitChanges ==
  ASSUME IInv, NEW x \in Txns, Commit(x), NEW v \in Present \cap Present',
         NEW f \in {"email", "password", "role"}, account'[v][f] # account[v][f]
  PROVE  /\ txn[x].user = v /\ txn[x].object[f] = account'[v][f]
         /\ txn[x].object[f] # txn[x].seen[f]
<1>1. account \in [Users -> Account \cup {New, Gone}] /\ v \in Users
  BY DEF IInv, TypeOK, Present
<1>2. v = txn[x].user
  BY <1>1, CommitWrites
<1>3. account'[v] = Written(x)
  BY <1>1, <1>2, CommitWrites
<1>4. Written(x)[f] = Flushed(txn[x].object[f], txn[x].seen[f], account[v][f])
  BY <1>2 DEF Written
<1> QED BY <1>2, <1>3, <1>4 DEF Flushed

LEMMA CommitChangedBy ==
  ASSUME IInv, NEW x \in Txns, Commit(x)
  PROVE  /\ ChangedBy("change email", "email")
         /\ ChangedBy("set password", "password")
         /\ ChangedBy("change role", "role")
<1>1. txn[x] # Idle /\ txn'[x] = Idle /\ Faithful(txn[x])
  BY DEF Commit, IInv, TypeOK, ObjectsFaithful
<1>2. ChangedBy("change email", "email")
  BY <1>1, CommitChanges DEF ChangedBy, At, Faithful
<1>3. ChangedBy("set password", "password")
  BY <1>1, CommitChanges DEF ChangedBy, At, Faithful
<1>4. ChangedBy("change role", "role")
  BY <1>1, CommitChanges DEF ChangedBy, At, Faithful
<1> QED BY <1>2, <1>3, <1>4

\* Every other step leaves the accounts alone that live before and after it.
LEMMA OthersKeepAccounts ==
  ASSUME IInv, [Next]_vars, \A x \in Txns : ~Commit(x)
  PROVE  \A v \in Present \cap Present' : account'[v] = account[v]
<1>1. CASE Enrol
  <2>1. PICK u \in Users, a \in Addresses, p \in Phones \cup {None}, w \in Passwords,
            role \in Roles, s \in Schools \cup {None} : Create(u, a, p, w, role, s)
    BY <1>1, EnrolCreates
  <2>2. u \notin Present /\ \A v \in Users \ {u} : account'[v] = account[v]
    BY <2>1 DEF Create, Present, IInv, TypeOK
  <2> QED BY <2>2 DEF Present
<1>2. CASE \E u \in Users : Teach(u) \/ Unteach(u)
  BY <1>2 DEF Teach, Unteach
<1>3. CASE \E x \in Txns : Delete(x)
  <2>1. PICK u \in Users : account' = [account EXCEPT ![u] = Gone]
    BY <1>3, DeleteRemoves
  <2> QED BY <2>1 DEF Present, IInv, TypeOK
<1>4. CASE \E x \in Txns : Serve(x) /\ ~Delete(x)
  BY <1>4 DEF Serve, BeginUpdate, BeginUpdateByEmail, BeginChangeEmail, BeginSetPassword,
              BeginDelete, LoadDeleted, BeginDeleteByEmail, Load, Fail
<1>5. CASE UNCHANGED vars
  BY <1>5 DEF vars
<1> QED BY <1>1, <1>2, <1>3, <1>4, <1>5 DEF Next

\* The address, the password and the role of an account that lives are changed by the
\* requests that are there for it, and by nothing that was sent to another one.
THEOREM CredentialsAlwaysStay == Spec => CredentialsStay
<1> DEFINE A == /\ ChangedBy("change email", "email")
                /\ ChangedBy("set password", "password")
                /\ ChangedBy("change role", "role")
<1>1. ASSUME IInv, [Next]_vars PROVE A
  <2>1. CASE \E x \in Txns : Commit(x)
    BY <1>1, <2>1, CommitChangedBy
  <2>2. CASE \A x \in Txns : ~Commit(x)
    BY <1>1, <2>2, OthersKeepAccounts DEF ChangedBy
  <2> QED BY <2>1, <2>2
<1>2. IInv /\ [Next]_vars => [A]_vars
  BY <1>1
<1> HIDE DEF A
<1>3. Spec => [][A]_vars
  BY <1>2, Invariance, PTL DEF Spec
<1> QED BY <1>3 DEF CredentialsStay, A
=============================================================================
