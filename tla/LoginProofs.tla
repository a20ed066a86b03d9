---------------------------- MODULE LoginProofs ----------------------------
(***************************************************************************)
(* The invariants of logging in and out, for any number of users, tokens   *)
(* and requests, any lifetimes, and with or without a store for the list.  *)
(* The invariant of Accounts is used for one fact: the identifier of a     *)
(* user who was deleted is not given to another one.                       *)
(***************************************************************************)
EXTENDS Login, AccountsProofs

\* The list and the sessions are about tokens that were minted, for users that were
\* created at some time.
TokenInv ==
  \A k \in Tokens :
    IF token[k] = Nothing
      THEN listed[k] = Nothing /\ session[k] = Nothing /\ k \notin refused \cup ended
      ELSE /\ listed[k] \in {token[k].refresh, Nothing}
           /\ token[k].subject \in Users /\ account[token[k].subject] # New

\* What a request has done and found out is still true, unless a failure was passed over.
ReqInv(r) ==
  req[r] # Idle =>
    /\ req[r].step = "mint" => account[req[r].user] # New
    /\ req[r].step # "mint" => token[req[r].token] # Nothing
    /\ req[r].step = "end" /\ hasStore /\ req[r].token \notin swallowed
         => ~Accepts(req[r].token)
    /\ req[r].step \in {"revoke", "end"} /\ req[r].found = Nothing /\ req[r].token \notin swallowed
         => ~Valid(req[r].token)

LInv == /\ IInv
        /\ LoginTypeOK
        /\ TokenInv
        /\ \A r \in Requests : ReqInv(r)
        /\ LogoutComplete
        /\ EndedIsRevoked

\* What no step takes back.
Onward ==
  /\ hasStore' = hasStore
  /\ swallowed \subseteq swallowed'
  /\ \A u \in Users : account[u] # New => account'[u] # New
  /\ \A k \in Tokens : token[k] # Nothing =>
       /\ token'[k] = token[k]
       /\ Accepts(k)' => Accepts(k)
       /\ Valid(k)' => Valid(k)
----------------------------------------------------------------------------
(* Every step goes onward.                                                 *)

LEMMA AccountsOnward ==
  ASSUME IInv, [Next]_vars
  PROVE  \A u \in Users : account[u] # New => account'[u] # New
<1>1. New # Gone /\ New \notin Account /\ account \in [Users -> Account \cup {New, Gone}]
  BY MarkersAssumption DEF IInv, TypeOK
<1>2. CASE Enrol
  <2>1. PICK u \in Users, a \in Addresses, p \in Phones \cup {None}, w \in Passwords,
            role \in Roles, s \in Schools \cup {None} : Create(u, a, p, w, role, s)
    BY <1>2, EnrolCreates
  <2>2. account[u] = New /\ \A v \in Users \ {u} : account'[v] = account[v]
    BY <1>1, <2>1 DEF Create
  <2> QED BY <2>2
<1>3. CASE \E u \in Users : Teach(u) \/ Unteach(u)
  BY <1>1, <1>3 DEF Teach, Unteach
<1>4. CASE \E x \in Txns : Serve(x)
  <2>1. CASE \E x \in Txns : Commit(x)
    BY <1>1, <2>1, CommitWrites
  <2>2. CASE \E x \in Txns : Delete(x)
    BY <1>1, <2>2, DeleteRemoves
  <2>3. CASE \A x \in Txns : ~Commit(x) /\ ~Delete(x)
    BY <1>4, <2>3 DEF Serve, BeginUpdate, BeginUpdateByEmail, BeginChangeEmail,
                      BeginSetPassword, BeginDelete, LoadDeleted, BeginDeleteByEmail, Load, Fail
  <2> QED BY <2>1, <2>2, <2>3
<1>5. CASE UNCHANGED vars
  BY <1>5 DEF vars
<1> QED BY <1>2, <1>3, <1>4, <1>5 DEF Next

LEMMA GoneForGood ==
  ASSUME IInv, [Next]_vars, NEW u \in Users, account[u] = Gone
  PROVE  account'[u] = Gone
<1>1. New # Gone /\ Gone \notin Account /\ account \in [Users -> Account \cup {New, Gone}]
  BY MarkersAssumption DEF IInv, TypeOK
<1>2. CASE Enrol
  <2>1. PICK v \in Users, a \in Addresses, p \in Phones \cup {None}, w \in Passwords,
            role \in Roles, s \in Schools \cup {None} : Create(v, a, p, w, role, s)
    BY <1>2, EnrolCreates
  <2> QED BY <1>1, <2>1 DEF Create
<1>3. CASE \E v \in Users : Teach(v) \/ Unteach(v)
  BY <1>1, <1>3 DEF Teach, Unteach
<1>4. CASE \E x \in Txns : Serve(x)
  <2>1. CASE \E x \in Txns : Commit(x)
    <3>1. u \notin Present
      BY DEF Present
    <3> QED BY <1>1, <2>1, <3>1, CommitWrites
  <2>2. CASE \E x \in Txns : Delete(x)
    BY <1>1, <2>2, DeleteRemoves
  <2>3. CASE \A x \in Txns : ~Commit(x) /\ ~Delete(x)
    BY <1>4, <2>3 DEF Serve, BeginUpdate, BeginUpdateByEmail, BeginChangeEmail,
                      BeginSetPassword, BeginDelete, LoadDeleted, BeginDeleteByEmail, Load, Fail
  <2> QED BY <2>1, <2>2, <2>3
<1>5. CASE UNCHANGED vars
  BY <1>5 DEF vars
<1> QED BY <1>2, <1>3, <1>4, <1>5 DEF Next

\* Steps that leave tokens, lists and sessions alone, or let time pass.
LEMMA OnwardWhenSame ==
  ASSUME LInv, UNCHANGED <<hasStore, now, token, listed, session, account>>,
         swallowed \subseteq swallowed'
  PROVE  /\ Onward
         /\ \A k \in Tokens : Accepts(k)' = Accepts(k) /\ Valid(k)' = Valid(k)
  BY DEF Onward, Accepts, Listed, Valid

LEMMA OnwardWhenTime ==
  ASSUME LInv, Tick, UNCHANGED vars
  PROVE  Onward
<1>1. now \in Nat /\ now' = now + 1
      /\ UNCHANGED <<hasStore, token, listed, session, swallowed, account>>
  BY DEF Tick, LInv, LoginTypeOK, history, vars
<1>2. \A k \in Tokens : /\ token[k] # Nothing => token[k] \in Pair
                        /\ listed[k] # Nothing => listed[k] \in Nat
                        /\ session[k] # Nothing => session[k] \in Session
  BY DEF LInv, LoginTypeOK
<1>3. ASSUME NEW k \in Tokens, Accepts(k)' PROVE Accepts(k)
  BY <1>1, <1>2, <1>3 DEF Accepts, Listed, Pair
<1>4. ASSUME NEW k \in Tokens, Valid(k)' PROVE Valid(k)
  BY <1>1, <1>2, <1>4 DEF Valid, Session
<1> QED BY <1>1, <1>3, <1>4 DEF Onward

LEMMA OnwardWhenMinted ==
  ASSUME LInv, NEW r \in Requests, NEW k \in Tokens, Mint(r, k), UNCHANGED vars
  PROVE  Onward
<1>1. /\ token[k] = Nothing /\ UNCHANGED <<hasStore, now, swallowed, account>>
      /\ \A j \in Tokens \ {k} :
           token'[j] = token[j] /\ listed'[j] = listed[j] /\ session'[j] = session[j]
  BY DEF Mint, LInv, LoginTypeOK, history, vars
<1> QED BY <1>1 DEF Onward, Accepts, Listed, Valid

LEMMA OnwardWhenRevoked ==
  ASSUME LInv, NEW r \in Requests, Revoke(r), UNCHANGED vars
  PROVE  Onward
<1>1. /\ UNCHANGED <<hasStore, now, token, session, account>> /\ swallowed \subseteq swallowed'
      /\ \A k \in Tokens : listed'[k] \in {listed[k], Nothing}
  BY DEF Revoke, LInv, LoginTypeOK, vars
<1> QED BY <1>1 DEF Onward, Accepts, Listed, Valid

\* A session that a request has found is saved as ended.
LEMMA SessionEnds ==
  ASSUME LInv, NEW r \in Requests, EndSession(r)
  PROVE  \A k \in Tokens : \/ session'[k] = session[k]
                           \/ /\ k = req[r].token /\ session'[k] \in Session
                              /\ ~session'[k].active
<1>1. req[r] # Idle /\ req[r].step = "end" /\ req[r] \in LogoutReq
  BY DEF EndSession, At_, LInv, LoginTypeOK, LoginReq
<1>2. req[r].found \in Session \cup {Nothing} /\ req[r].token \in Tokens
  BY <1>1 DEF LogoutReq
<1>3. req[r].found # Nothing => Ended(req[r].found) \in Session /\ ~Ended(req[r].found).active
  BY <1>2 DEF Ended, Session
<1> QED BY <1>2, <1>3 DEF EndSession, LInv, LoginTypeOK

LEMMA OnwardWhenEnded ==
  ASSUME LInv, NEW r \in Requests, EndSession(r), UNCHANGED vars
  PROVE  Onward
<1>1. UNCHANGED <<hasStore, now, token, listed, account>> /\ swallowed \subseteq swallowed'
  BY DEF EndSession, vars
<1>2. \A k \in Tokens : Accepts(k)' => Accepts(k)
  BY <1>1 DEF Accepts, Listed
<1>3. \A k \in Tokens : Valid(k)' => Valid(k)
  BY <1>1, SessionEnds DEF Valid
<1> QED BY <1>1, <1>2, <1>3 DEF Onward
----------------------------------------------------------------------------
(* What goes onward is kept.                                               *)

LEMMA RequestKept ==
  ASSUME LInv, Onward, NEW r \in Requests, req'[r] \in {req[r], Idle}
  PROVE  ReqInv(r)'
<1>1. CASE req'[r] = Idle
  BY <1>1 DEF ReqInv
<1>2. CASE req[r] # Idle /\ req'[r] = req[r] /\ req[r].step = "mint"
  <2>1. req[r].user \in Users /\ account[req[r].user] # New
    BY <1>2 DEF LInv, LoginTypeOK, LoginReq, LogoutReq, Step, ReqInv
  <2> QED BY <1>2, <2>1 DEF Onward, ReqInv
<1>3. CASE req[r] # Idle /\ req'[r] = req[r] /\ req[r].step # "mint"
  <2>1. req[r].token \in Tokens /\ token[req[r].token] # Nothing
    BY <1>3 DEF LInv, LoginTypeOK, LoginReq, LogoutReq, ReqInv
  <2> QED BY <1>3, <2>1 DEF Onward, LInv, ReqInv
<1> QED BY <1>1, <1>2, <1>3

LEMMA LogoutKept ==
  ASSUME LInv, Onward, unheard \subseteq unheard',
         \A k \in Tokens : \/ k \in refused' \ refused /\ k \notin unheard'
                           \/ k \in ended' \ ended /\ k \notin swallowed'
            => (hasStore => ~Accepts(k)'),
         \A k \in Tokens : k \in ended' \ ended /\ k \notin swallowed' => ~Valid(k)',
         refused' \cup ended' \subseteq Tokens
  PROVE  LogoutComplete'
<1>1. \A k \in refused \cup ended : k \in Tokens /\ token[k] # Nothing
  BY DEF LInv, LoginTypeOK, TokenInv
<1>2. hasStore' => \A k \in (refused' \ unheard') \cup (ended' \ swallowed') : ~Accepts(k)'
  <2> SUFFICES ASSUME hasStore, NEW k \in (refused' \ unheard') \cup (ended' \ swallowed')
               PROVE  ~Accepts(k)'
    BY DEF Onward
  <2>1. CASE k \in refused \ unheard \/ k \in ended \ swallowed
    <3>1. ~Accepts(k)
      BY <2>1 DEF LInv, LogoutComplete
    <3>2. k \in Tokens /\ token[k] # Nothing
      BY <1>1, <2>1
    <3> QED BY <3>1, <3>2 DEF Onward
  <2>2. CASE k \notin refused \ unheard /\ k \notin ended \ swallowed
    <3>1. k \in Tokens /\ swallowed \subseteq swallowed'
      BY DEF Onward
    <3>2. \/ k \in refused' \ refused /\ k \notin unheard'
          \/ k \in ended' \ ended /\ k \notin swallowed'
      BY <2>2, <3>1
    <3> QED BY <3>1, <3>2
  <2> QED BY <2>1, <2>2
<1>3. \A k \in ended' \ swallowed' : ~Valid(k)'
  BY <1>1 DEF Onward, LInv, LogoutComplete
<1> QED BY <1>2, <1>3 DEF LogoutComplete

LEMMA EndedKept ==
  ASSUME LInv, Onward, UNCHANGED session
  PROVE  EndedIsRevoked'
  BY DEF Onward, LInv, EndedIsRevoked, TokenInv, LoginTypeOK

LEMMA TokensKept ==
  ASSUME LInv, Onward, UNCHANGED token,
         \A k \in Tokens : /\ listed'[k] \in {listed[k], Nothing}
                           /\ token[k] = Nothing => session'[k] = Nothing,
         \A k \in Tokens : k \in refused' \cup ended' /\ k \notin refused \cup ended
               => token[k] # Nothing
  PROVE  TokenInv'
  BY DEF Onward, LInv, TokenInv

\* A request of which only the record in memory changes, or that is answered.
LEMMA OnlyRequest ==
  ASSUME LInv, UNCHANGED vars, UNCHANGED <<hasStore, now, token, listed, session, refused, unheard, ended>>,
         swallowed \subseteq swallowed', swallowed' \subseteq Tokens,
         NEW r \in Requests, NEW new \in LoginReq \cup LogoutReq \cup {Idle},
         req' = [req EXCEPT ![r] = new], ReqInv(r)'
  PROVE  LInv'
<1>1. Onward
  BY OnwardWhenSame DEF vars
<1>2. IInv'
  BY NextKeepsIInv DEF LInv
<1>3. LoginTypeOK'
  BY DEF LInv, LoginTypeOK
<1>4. \A q \in Requests : ReqInv(q)'
  <2>1. ASSUME NEW q \in Requests PROVE ReqInv(q)'
    <3>1. CASE q = r
      BY <3>1
    <3>2. CASE q # r
      <4>1. req'[q] = req[q]
        BY <3>2 DEF LInv, LoginTypeOK
      <4> QED BY <1>1, <4>1, RequestKept
    <3> QED BY <3>1, <3>2
  <2> QED BY <2>1
<1>5. TokenInv'
  BY DEF LInv, TokenInv, vars
<1>6. LogoutComplete' /\ EndedIsRevoked'
  BY <1>1, LogoutKept, EndedKept DEF LInv, LoginTypeOK
<1> QED BY <1>2, <1>3, <1>4, <1>5, <1>6 DEF LInv
----------------------------------------------------------------------------
(* The steps.                                                              *)

LEMMA BeginLoginKeeps ==
  ASSUME LInv, UNCHANGED vars, NEW r \in Requests, NEW a \in Addresses, NEW w \in Passwords,
         BeginLogin(r, a, w)
  PROVE  LInv'
<1>1. PICK u \in ByAddress(a) : req' = [req EXCEPT ![r] = [step |-> "mint", user |-> u]]
  BY DEF BeginLogin
<1>2. u \in Users /\ account[u] # New
  BY DEF ByAddress, Present
<1> DEFINE new == [step |-> "mint", user |-> u]
<1>3. new \in LoginReq /\ new.step = "mint" /\ new.user = u
  BY <1>2 DEF LoginReq
<1>4. req' = [req EXCEPT ![r] = new] /\ account' = account
      /\ UNCHANGED <<hasStore, now, token, listed, session, refused, unheard, ended, swallowed>>
  BY <1>1 DEF BeginLogin, vars, history
<1> HIDE DEF new
<1>5. ReqInv(r)'
  BY <1>2, <1>3, <1>4 DEF ReqInv, LInv, LoginTypeOK
<1> QED BY <1>3, <1>4, <1>5, OnlyRequest DEF LInv, LoginTypeOK

LEMMA AbortKeeps ==
  ASSUME LInv, UNCHANGED vars, NEW r \in Requests, Abort(r)
  PROVE  LInv'
<1>1. req' = [req EXCEPT ![r] = Idle]
      /\ UNCHANGED <<hasStore, now, token, listed, session, refused, unheard, ended, swallowed>>
  BY DEF Abort, Reply, history
<1>2. ReqInv(r)'
  BY <1>1 DEF ReqInv, LInv, LoginTypeOK
<1> QED BY <1>1, <1>2, OnlyRequest DEF LInv, LoginTypeOK

LEMMA RefusedKeeps ==
  ASSUME LInv, UNCHANGED vars, NEW r \in Requests, NEW k \in Tokens, token[k] # Nothing,
         Refused(r, k)
  PROVE  LInv'
<1>1. /\ req' = [req EXCEPT ![r] = Idle] /\ refused' = refused \cup {k} /\ ~Accepts(k)
      /\ UNCHANGED <<hasStore, now, token, listed, session, unheard, ended, swallowed, account>>
  BY DEF Refused, Reply, vars
<1>2. Onward /\ \A j \in Tokens : Accepts(j)' = Accepts(j)
  BY <1>1, OnwardWhenSame
<1>3. IInv' /\ LoginTypeOK'
  BY <1>1, NextKeepsIInv DEF LInv, LoginTypeOK
<1>4. \A q \in Requests : ReqInv(q)'
  BY <1>1, <1>2, RequestKept DEF LInv, LoginTypeOK
<1>5. TokenInv'
  BY <1>1 DEF LInv, TokenInv
<1>6. LogoutComplete'
  BY <1>1, <1>2, LogoutKept DEF LInv, LoginTypeOK
<1>7. EndedIsRevoked'
  BY <1>1, <1>2, EndedKept
<1> QED BY <1>3, <1>4, <1>5, <1>6, <1>7 DEF LInv

LEMMA CheckFailsKeeps ==
  ASSUME LInv, UNCHANGED vars, NEW r \in Requests, NEW k \in Tokens, token[k] # Nothing,
         CheckFails(r, k)
  PROVE  LInv'
<1>1. /\ req' = [req EXCEPT ![r] = Idle]
      /\ refused' = refused \cup {k} /\ unheard' = unheard \cup {k}
      /\ UNCHANGED <<hasStore, now, token, listed, session, ended, swallowed, account>>
  BY DEF CheckFails, Reply, vars
<1>2. Onward
  BY <1>1, OnwardWhenSame
<1>3. IInv' /\ LoginTypeOK'
  BY <1>1, NextKeepsIInv DEF LInv, LoginTypeOK
<1>4. \A q \in Requests : ReqInv(q)'
  BY <1>1, <1>2, RequestKept DEF LInv, LoginTypeOK
<1>5. TokenInv'
  BY <1>1 DEF LInv, TokenInv
<1>6. LogoutComplete'
  BY <1>1, <1>2, LogoutKept DEF LInv, LoginTypeOK
<1>7. EndedIsRevoked'
  BY <1>1, <1>2, EndedKept
<1> QED BY <1>3, <1>4, <1>5, <1>6, <1>7 DEF LInv

LEMMA BeginLogoutKeeps ==
  ASSUME LInv, UNCHANGED vars, NEW r \in Requests, NEW k \in Tokens, BeginLogout(r, k)
  PROVE  LInv'
<1>1. CASE Refused(r, k)
  BY <1>1, RefusedKeeps DEF BeginLogout
<1>2. CASE CheckFails(r, k)
  BY <1>2, CheckFailsKeeps DEF BeginLogout
<1>3. CASE ~Refused(r, k) /\ ~CheckFails(r, k)
  <2> DEFINE new == [step |-> "check", token |-> k, found |-> Nothing]
  <2>1. new \in LogoutReq /\ new.step = "check" /\ new.token = k
    BY DEF LogoutReq, Step
  <2>2. /\ req' = [req EXCEPT ![r] = new] /\ token[k] # Nothing
        /\ UNCHANGED <<hasStore, now, token, listed, session, refused, unheard, ended, swallowed>>
    BY <1>3 DEF BeginLogout, history
  <2> HIDE DEF new
  <2>3. ReqInv(r)'
    BY <2>1, <2>2 DEF ReqInv, LInv, LoginTypeOK
  <2> QED BY <2>1, <2>2, <2>3, OnlyRequest DEF LInv, LoginTypeOK
<1> QED BY <1>1, <1>2, <1>3

\* The request of a logout, and its token.
LEMMA LogoutRequest ==
  ASSUME LInv, NEW r \in Requests, NEW step \in Step, At_(r, step)
  PROVE  /\ req[r] # Idle /\ req[r] \in LogoutReq /\ req[r].step = step
         /\ req[r].token \in Tokens /\ req[r].found \in Session \cup {Nothing}
         /\ token[req[r].token] # Nothing
<1>1. req[r] # Idle /\ req[r].step = step /\ step # "mint"
  BY DEF At_, Step
<1>2. req[r] \in LogoutReq
  BY <1>1 DEF LInv, LoginTypeOK, LoginReq
<1> QED BY <1>1, <1>2 DEF LogoutReq, LInv, ReqInv

LEMMA GoesOn ==
  ASSUME LInv, NEW r \in Requests, req[r] \in LogoutReq, NEW step \in Step, Go(r, step)
  PROVE  \E new \in LogoutReq : /\ req' = [req EXCEPT ![r] = new] /\ new.step = step
                                /\ new.token = req[r].token /\ new.found = req[r].found
<1> DEFINE new == [req[r] EXCEPT !.step = step]
<1>1. /\ new \in LogoutReq /\ new.step = step
      /\ new.token = req[r].token /\ new.found = req[r].found
  BY DEF LogoutReq
<1>2. req' = [req EXCEPT ![r] = new]
  BY DEF Go
<1> QED BY <1>1, <1>2

LEMMA CheckAgainKeeps ==
  ASSUME LInv, UNCHANGED vars, NEW r \in Requests, CheckAgain(r)
  PROVE  LInv'
<1>1. /\ req[r] \in LogoutReq /\ req[r].token \in Tokens /\ token[req[r].token] # Nothing
  BY LogoutRequest DEF CheckAgain, Step
<1>2. CASE Refused(r, req[r].token)
  <2>1. PICK k \in Tokens : k = req[r].token
    BY <1>1
  <2> QED BY <1>1, <1>2, <2>1, RefusedKeeps
<1>3. CASE CheckFails(r, req[r].token)
  <2>1. PICK k \in Tokens : k = req[r].token
    BY <1>1
  <2> QED BY <1>1, <1>3, <2>1, CheckFailsKeeps
<1>4. CASE ~Refused(r, req[r].token) /\ ~CheckFails(r, req[r].token)
  <2>1. Go(r, "find")
        /\ UNCHANGED <<hasStore, now, token, listed, session, refused, unheard, ended, swallowed>>
    BY <1>4 DEF CheckAgain, history
  <2>2. PICK new \in LogoutReq : /\ req' = [req EXCEPT ![r] = new] /\ new.step = "find"
                                 /\ new.token = req[r].token
    BY <1>1, <2>1, GoesOn DEF Step
  <2>3. ReqInv(r)'
    BY <1>1, <2>1, <2>2 DEF ReqInv, LInv, LoginTypeOK
  <2> QED BY <2>1, <2>2, <2>3, OnlyRequest DEF LInv, LoginTypeOK
<1> QED BY <1>2, <1>3, <1>4

LEMMA FindSessionKeeps ==
  ASSUME LInv, UNCHANGED vars, NEW r \in Requests, FindSession(r)
  PROVE  LInv'
<1> DEFINE k == req[r].token
<1>1. req[r] # Idle /\ req[r] \in LogoutReq /\ k \in Tokens /\ token[k] # Nothing
  BY LogoutRequest DEF FindSession, Step
<1>2. UNCHANGED <<hasStore, now, token, listed, session, refused, unheard, ended, account>>
  BY DEF FindSession, vars
<1>3. CASE /\ Valid(k) /\ swallowed' = swallowed
           /\ req' = [req EXCEPT ![r].step = "revoke", ![r].found = session[k]]
  <2> DEFINE step == [req[r] EXCEPT !.step = "revoke"]
             new == [step EXCEPT !.found = session[k]]
  <2>1. session[k] \in Session /\ session[k] # Nothing
    BY <1>1, <1>3, NothingAssumption DEF Valid, LInv, LoginTypeOK
  <2>2. step \in LogoutReq /\ step.step = "revoke" /\ step.token = k
    BY <1>1 DEF LogoutReq, Step
  <2>3. req' = [req EXCEPT ![r] = new]
    BY <1>1, <1>3 DEF LogoutReq, LInv, LoginTypeOK
  <2> HIDE DEF step
  <2>4. new \in LogoutReq /\ new.step = "revoke" /\ new.token = k /\ new.found # Nothing
    BY <2>1, <2>2 DEF LogoutReq
  <2> HIDE DEF new
  <2>5. ReqInv(r)'
    BY <1>1, <1>2, <2>3, <2>4 DEF ReqInv, LInv, LoginTypeOK
  <2> QED BY <1>2, <1>3, <2>3, <2>4, <2>5, OnlyRequest DEF LInv, LoginTypeOK
<1>4. CASE Go(r, "revoke") /\ swallowed' = IF Valid(k) THEN swallowed \cup {k} ELSE swallowed
  <2>1. PICK new \in LogoutReq : /\ req' = [req EXCEPT ![r] = new] /\ new.step = "revoke"
                                 /\ new.token = k
    BY <1>1, <1>4, GoesOn DEF Step
  <2>2. swallowed \subseteq swallowed' /\ swallowed' \subseteq Tokens
        /\ (Valid(k) => k \in swallowed')
    BY <1>1, <1>4 DEF LInv, LoginTypeOK
  <2>3. \A j \in Tokens : Valid(j)' => Valid(j)
    BY <1>2 DEF Valid
  <2>4. req'[r] = new
    BY <2>1 DEF LInv, LoginTypeOK
  <2>5. ReqInv(r)'
    BY <1>1, <1>2, <2>1, <2>2, <2>3, <2>4 DEF ReqInv
  <2> QED BY <1>2, <2>1, <2>2, <2>5, OnlyRequest
<1> QED BY <1>3, <1>4 DEF FindSession

\* A request goes on, and the list or the sessions change with it.
LEMMA RequestGoesOn ==
  ASSUME LInv, Onward, UNCHANGED <<vars, hasStore, now, token, refused, unheard>>,
         NEW r \in Requests, NEW new \in LogoutReq \cup {Idle}, req' = [req EXCEPT ![r] = new],
         swallowed' \subseteq Tokens, ReqInv(r)',
         \A k \in Tokens : listed'[k] \in {listed[k], Nothing},
         listed' \in [Tokens -> Nat \cup {Nothing}],
         session' \in [Tokens -> Session \cup {Nothing}],
         \A k \in Tokens : token[k] = Nothing => session'[k] = Nothing,
         \A k \in ended' : k \in Tokens /\ (k \notin ended => token[k] # Nothing)
  PROVE  /\ IInv' /\ LoginTypeOK' /\ TokenInv'
         /\ \A q \in Requests : ReqInv(q)'
<1>1. IInv'
  BY NextKeepsIInv DEF LInv
<1>2. LoginTypeOK'
  BY DEF LInv, LoginTypeOK
<1>3. TokenInv'
  BY TokensKept DEF LInv
<1>4. \A q \in Requests : ReqInv(q)'
  <2>1. ASSUME NEW q \in Requests, q # r PROVE ReqInv(q)'
    <3>1. req'[q] = req[q]
      BY <2>1 DEF LInv, LoginTypeOK
    <3> QED BY <2>1, <3>1, RequestKept
  <2> QED BY <2>1
<1> QED BY <1>1, <1>2, <1>3, <1>4

LEMMA RevokeKeeps ==
  ASSUME LInv, UNCHANGED vars, NEW r \in Requests, Revoke(r)
  PROVE  LInv'
<1>1. /\ req[r] # Idle /\ req[r] \in LogoutReq /\ req[r].token \in Tokens
      /\ token[req[r].token] # Nothing /\ req[r].step = "revoke"
  BY LogoutRequest DEF Revoke, Step
<1>2. Onward
  BY OnwardWhenRevoked
<1>3. UNCHANGED <<hasStore, now, token, session, refused, unheard, ended>>
  BY DEF Revoke
<1>4. /\ swallowed' \subseteq Tokens /\ listed' \in [Tokens -> Nat \cup {Nothing}]
      /\ \A k \in Tokens : listed'[k] \in {listed[k], Nothing}
      /\ req[r].token \in swallowed' \/ listed'[req[r].token] = Nothing
  BY <1>1 DEF Revoke, MustRevoke, LInv, LoginTypeOK
<1>5. PICK new \in LogoutReq : /\ req' = [req EXCEPT ![r] = new] /\ new.step = "end"
                               /\ new.token = req[r].token /\ new.found = req[r].found
  BY <1>1, GoesOn DEF Revoke, Step
<1>6. req'[r] = new
  BY <1>5 DEF LInv, LoginTypeOK
<1>7. ReqInv(r)'
  <2>1. PICK k \in Tokens : k = req[r].token
    BY <1>1
  <2>2. k \notin swallowed' /\ hasStore' => ~Accepts(k)'
    BY <1>4, <2>1 DEF Accepts, Listed
  <2>3. new.found = Nothing /\ k \notin swallowed' => ~Valid(k)'
    BY <1>1, <1>2, <1>5, <2>1 DEF Onward, ReqInv, LInv
  <2> QED BY <1>1, <1>3, <1>5, <1>6, <2>1, <2>2, <2>3 DEF ReqInv
<1>8. \A k \in Tokens : token[k] = Nothing => session'[k] = Nothing
  BY <1>3 DEF LInv, TokenInv
<1>9. /\ IInv' /\ LoginTypeOK' /\ TokenInv'
      /\ \A q \in Requests : ReqInv(q)'
  <2>1. session' \in [Tokens -> Session \cup {Nothing}]
        /\ \A k \in ended' : k \in Tokens /\ (k \notin ended => token[k] # Nothing)
    BY <1>3 DEF LInv, LoginTypeOK
  <2> QED BY <1>2, <1>3, <1>4, <1>5, <1>7, <1>8, <2>1, RequestGoesOn
<1>10. LogoutComplete' /\ EndedIsRevoked'
  BY <1>2, <1>3, LogoutKept, EndedKept DEF LInv, LoginTypeOK
<1> QED BY <1>9, <1>10 DEF LInv

LEMMA EndSessionKeeps ==
  ASSUME LInv, UNCHANGED vars, NEW r \in Requests, EndSession(r)
  PROVE  LInv'
<1>1. /\ req[r] # Idle /\ req[r] \in LogoutReq /\ req[r].token \in Tokens
      /\ req[r].found \in Session \cup {Nothing}
      /\ token[req[r].token] # Nothing /\ req[r].step = "end"
  BY LogoutRequest DEF EndSession, Step
<1>2. PICK k \in Tokens : k = req[r].token
  BY <1>1
<1>3. Onward
  BY OnwardWhenEnded
<1>4. /\ UNCHANGED <<hasStore, now, token, listed, refused, unheard>>
      /\ ended' = ended \cup {k} /\ req' = [req EXCEPT ![r] = Idle]
      /\ swallowed \subseteq swallowed' /\ swallowed' \subseteq Tokens
  BY <1>2 DEF EndSession, Reply, LInv, LoginTypeOK
<1>5. \A j \in Tokens : Accepts(j)' = Accepts(j)
  BY <1>4 DEF Accepts, Listed
<1>6. k \notin swallowed' /\ hasStore' => ~Accepts(k)'
  BY <1>1, <1>2, <1>4, <1>5 DEF LInv, ReqInv
<1>7. k \notin swallowed' => ~Valid(k)'
  <2>1. CASE req[r].found = Nothing
    BY <1>1, <1>2, <1>3, <1>4, <2>1 DEF LInv, ReqInv, Onward
  <2>2. CASE req[r].found # Nothing /\ session'[k] # Ended(req[r].found)
    <3>1. k \in swallowed'
      BY <1>2, <2>2 DEF EndSession, LInv, LoginTypeOK
    <3> QED BY <3>1
  <2>3. CASE req[r].found # Nothing /\ session'[k] = Ended(req[r].found)
    BY <1>1, <2>3 DEF Valid, Ended, Session
  <2> QED BY <2>1, <2>2, <2>3
<1>8. /\ session' \in [Tokens -> Session \cup {Nothing}]
      /\ \A j \in Tokens : token[j] = Nothing => session'[j] = Nothing
  <2>1. session' \in [Tokens -> Session \cup {Nothing}]
    <3>1. \A j \in Tokens : session'[j] \in Session \cup {Nothing}
      BY SessionEnds DEF LInv, LoginTypeOK
    <3>2. \/ UNCHANGED session \/ session' = [session EXCEPT ![k] = Ended(req[r].found)]
      BY <1>2 DEF EndSession
    <3> QED BY <3>1, <3>2 DEF LInv, LoginTypeOK
  <2>2. \A j \in Tokens : token[j] = Nothing => session'[j] = Nothing
    BY <1>1, SessionEnds DEF LInv, TokenInv
  <2> QED BY <2>1, <2>2
<1>9. ReqInv(r)'
  BY <1>4 DEF ReqInv, LInv, LoginTypeOK
<1>10. /\ IInv' /\ LoginTypeOK' /\ TokenInv'
       /\ \A q \in Requests : ReqInv(q)'
  <2>1. /\ listed' \in [Tokens -> Nat \cup {Nothing}]
        /\ \A j \in Tokens : listed'[j] \in {listed[j], Nothing}
        /\ \A j \in ended' : j \in Tokens /\ (j \notin ended => token[j] # Nothing)
    BY <1>1, <1>2, <1>4 DEF LInv, LoginTypeOK
  <2> QED BY <1>3, <1>4, <1>8, <1>9, <2>1, RequestGoesOn
<1>11. LogoutComplete'
  BY <1>3, <1>4, <1>6, <1>7, LogoutKept DEF LInv, LoginTypeOK
<1>12. EndedIsRevoked'
  <2> SUFFICES ASSUME hasStore', NEW j \in Tokens, j \notin swallowed',
                      session'[j] # Nothing, ~session'[j].active
               PROVE  ~Accepts(j)'
    BY DEF EndedIsRevoked
  <2>1. CASE session'[j] = session[j]
    BY <1>3, <1>4, <1>5, <2>1 DEF LInv, EndedIsRevoked, Onward
  <2>2. CASE j = k
    BY <1>6, <2>2
  <2> QED BY <1>2, <2>1, <2>2, SessionEnds
<1> QED BY <1>10, <1>11, <1>12 DEF LInv

LEMMA MintKeeps ==
  ASSUME LInv, UNCHANGED vars, NEW r \in Requests, NEW k \in Tokens, Mint(r, k)
  PROVE  LInv'
<1> DEFINE pair == Minted(req[r].user)
<1>1. /\ req[r] # Idle /\ req[r].step = "mint" /\ req[r].user \in Users
      /\ account[req[r].user] # New
  BY DEF Mint, At_, LInv, LoginTypeOK, LoginReq, LogoutReq, Step, ReqInv
<1>2. now \in Nat /\ now + AccessTTL \in Nat /\ now + RefreshTTL \in Nat
      /\ now + SessionTTL \in Nat
  BY TimesAssumption DEF LInv, LoginTypeOK
<1>3. pair \in Pair /\ pair.subject = req[r].user /\ pair # Nothing
  BY <1>1, <1>2, NothingAssumption DEF Minted, Subject, Pair
<1>4. token' = [token EXCEPT ![k] = pair] /\ token[k] = Nothing
      /\ req' = [req EXCEPT ![r] = Idle]
      /\ UNCHANGED <<hasStore, now, refused, unheard, ended, swallowed, account>>
  BY DEF Mint, Reply, history, vars
<1> HIDE DEF pair
<1>5. token'[k] = pair /\ \A j \in Tokens \ {k} : token'[j] = token[j]
  BY <1>4 DEF LInv, LoginTypeOK
<1>6. /\ listed' \in [Tokens -> Nat \cup {Nothing}]
      /\ listed'[k] \in {pair.refresh, Nothing}
      /\ \A j \in Tokens \ {k} : listed'[j] = listed[j]
  BY <1>3, <1>4, <1>5 DEF Mint, Until, LInv, LoginTypeOK, TokenInv, Pair
<1>7. /\ session' \in [Tokens -> Session \cup {Nothing}]
      /\ session'[k] # Nothing => session'[k].active
      /\ \A j \in Tokens \ {k} : session'[j] = session[j]
  <2> DEFINE new == [active |-> TRUE, expires |-> now + SessionTTL]
  <2>1. new \in Session /\ new.active
    BY <1>2 DEF Session
  <2>2. UNCHANGED session \/ session' = [session EXCEPT ![k] = new]
    BY DEF Mint
  <2>3. session[k] = Nothing
    BY <1>4 DEF LInv, TokenInv
  <2> HIDE DEF new
  <2> QED BY <2>1, <2>2, <2>3 DEF LInv, LoginTypeOK
<1>8. Onward
  BY OnwardWhenMinted
<1>9. IInv' /\ LoginTypeOK'
  BY <1>3, <1>4, <1>6, <1>7, NextKeepsIInv DEF LInv, LoginTypeOK
<1>10. \A q \in Requests : ReqInv(q)'
  BY <1>4, <1>8, RequestKept DEF LInv, LoginTypeOK
<1>11. TokenInv'
  BY <1>1, <1>3, <1>4, <1>5, <1>6, <1>7 DEF LInv, TokenInv
<1>12. LogoutComplete'
  BY <1>4, <1>8, LogoutKept DEF LInv, LoginTypeOK
<1>13. EndedIsRevoked'
  <2> SUFFICES ASSUME hasStore', NEW j \in Tokens, j \notin swallowed',
                      session'[j] # Nothing, ~session'[j].active
               PROVE  ~Accepts(j)'
    BY DEF EndedIsRevoked
  <2>1. j # k /\ session'[j] = session[j] /\ token[j] # Nothing
    BY <1>7 DEF LInv, TokenInv
  <2> QED BY <1>4, <1>8, <2>1 DEF LInv, EndedIsRevoked, Onward
<1> QED BY <1>9, <1>10, <1>11, <1>12, <1>13 DEF LInv

\* Time passes, or a step of Accounts is taken.
LEMMA ElseKeeps ==
  ASSUME LInv, Onward, [Next]_vars, now' \in Nat,
         UNCHANGED <<hasStore, token, listed, session, req, history>>
  PROVE  LInv'
<1>1. IInv' /\ LoginTypeOK'
  BY NextKeepsIInv DEF LInv, LoginTypeOK, history
<1>2. \A q \in Requests : ReqInv(q)'
  BY RequestKept
<1>3. TokenInv'
  BY TokensKept DEF history, LInv, TokenInv
<1>4. LogoutComplete' /\ EndedIsRevoked'
  BY LogoutKept, EndedKept DEF history, LInv, LoginTypeOK
<1> QED BY <1>1, <1>2, <1>3, <1>4 DEF LInv
----------------------------------------------------------------------------
\* The steps of AllNext, as the proofs look at them.
LEMMA Steps ==
  ASSUME LInv, [AllNext]_allVars
  PROVE  \/ \E r \in Requests, k \in Tokens : Mint(r, k) /\ UNCHANGED vars
         \/ \E r \in Requests : Revoke(r) /\ UNCHANGED vars
         \/ \E r \in Requests : EndSession(r) /\ UNCHANGED vars
         \/ Tick /\ UNCHANGED vars
         \/ [Next]_vars /\ UNCHANGED loginVars
         \/ /\ UNCHANGED vars /\ UNCHANGED <<hasStore, now, token, listed, session>>
            /\ swallowed \subseteq swallowed'
            /\ \/ \E r \in Requests, a \in Addresses, w \in Passwords : BeginLogin(r, a, w)
               \/ \E r \in Requests, k \in Tokens : BeginLogout(r, k)
               \/ \E r \in Requests : CheckAgain(r) \/ FindSession(r) \/ Abort(r)
<1> DEFINE Goal ==
         \/ \E r \in Requests, k \in Tokens : Mint(r, k) /\ UNCHANGED vars
         \/ \E r \in Requests : Revoke(r) /\ UNCHANGED vars
         \/ \E r \in Requests : EndSession(r) /\ UNCHANGED vars
         \/ Tick /\ UNCHANGED vars
         \/ [Next]_vars /\ UNCHANGED loginVars
         \/ /\ UNCHANGED vars /\ UNCHANGED <<hasStore, now, token, listed, session>>
            /\ swallowed \subseteq swallowed'
            /\ \/ \E r \in Requests, a \in Addresses, w \in Passwords : BeginLogin(r, a, w)
               \/ \E r \in Requests, k \in Tokens : BeginLogout(r, k)
               \/ \E r \in Requests : CheckAgain(r) \/ FindSession(r) \/ Abort(r)
<1> SUFFICES Goal
  OBVIOUS
<1>1. CASE Next /\ UNCHANGED loginVars
  BY <1>1
<1>2. CASE UNCHANGED allVars
  BY <1>2 DEF allVars
<1>3. ASSUME Tick, UNCHANGED vars PROVE Goal
  BY <1>3
<1>4. ASSUME UNCHANGED vars, NEW r \in Requests,
             \/ \E a \in Addresses, w \in Passwords : BeginLogin(r, a, w)
             \/ \E k \in Tokens : Mint(r, k)
             \/ Logout(r)
             \/ Abort(r)
      PROVE  Goal
  <2>1. CASE \E a \in Addresses, w \in Passwords : BeginLogin(r, a, w)
    BY <1>4, <2>1 DEF BeginLogin, history
  <2>2. CASE \E k \in Tokens : Mint(r, k)
    BY <1>4, <2>2
  <2>3. CASE Abort(r)
    BY <1>4, <2>3 DEF Abort, history
  <2>4. CASE \E k \in Tokens : BeginLogout(r, k)
    BY <1>4, <2>4 DEF BeginLogout, Refused, CheckFails, history
  <2>5. CASE CheckAgain(r)
    BY <1>4, <2>5 DEF CheckAgain, Refused, CheckFails, history
  <2>6. CASE FindSession(r)
    BY <1>4, <2>6 DEF FindSession
  <2>7. CASE Revoke(r)
    BY <1>4, <2>7
  <2>8. CASE EndSession(r)
    BY <1>4, <2>8
  <2> QED BY <1>4, <2>1, <2>2, <2>3, <2>4, <2>5, <2>6, <2>7, <2>8 DEF Logout
<1>5. CASE LoginNext /\ UNCHANGED vars
  <2> HIDE DEF Goal
  <2> QED BY <1>3, <1>4, <1>5 DEF LoginNext
<1>6. AllNext \/ UNCHANGED allVars
  OBVIOUS
<1> HIDE DEF Goal
<1> QED BY <1>1, <1>2, <1>5, <1>6 DEF AllNext

LEMMA OnwardStep == LInv /\ [AllNext]_allVars => Onward
<1> SUFFICES ASSUME LInv, [AllNext]_allVars PROVE Onward
  OBVIOUS
<1>1. CASE \E r \in Requests, k \in Tokens : Mint(r, k) /\ UNCHANGED vars
  BY <1>1, OnwardWhenMinted
<1>2. CASE \E r \in Requests : Revoke(r) /\ UNCHANGED vars
  BY <1>2, OnwardWhenRevoked
<1>3. CASE \E r \in Requests : EndSession(r) /\ UNCHANGED vars
  BY <1>3, OnwardWhenEnded
<1>4. CASE Tick /\ UNCHANGED vars
  BY <1>4, OnwardWhenTime
<1>5. CASE [Next]_vars /\ UNCHANGED loginVars
  <2>1. UNCHANGED <<hasStore, now, token, listed, session, swallowed>>
    BY <1>5 DEF loginVars, history
  <2> QED BY <1>5, <2>1, AccountsOnward DEF LInv, Onward, Accepts, Listed, Valid
<1>6. CASE /\ UNCHANGED vars /\ UNCHANGED <<hasStore, now, token, listed, session>>
           /\ swallowed \subseteq swallowed'
  BY <1>6, OnwardWhenSame DEF vars
<1> QED BY <1>1, <1>2, <1>3, <1>4, <1>5, <1>6, Steps

LEMMA StepKeepsLInv == LInv /\ [AllNext]_allVars => LInv'
<1> SUFFICES ASSUME LInv, [AllNext]_allVars PROVE LInv'
  OBVIOUS
<1>1. Onward
  BY OnwardStep
<1>2. CASE \E r \in Requests, k \in Tokens : Mint(r, k) /\ UNCHANGED vars
  BY <1>2, MintKeeps
<1>3. CASE \E r \in Requests : Revoke(r) /\ UNCHANGED vars
  BY <1>3, RevokeKeeps
<1>4. CASE \E r \in Requests : EndSession(r) /\ UNCHANGED vars
  BY <1>4, EndSessionKeeps
<1>5. CASE Tick /\ UNCHANGED vars
  <2>1. now' \in Nat /\ UNCHANGED <<hasStore, token, listed, session, req, history>>
    BY <1>5 DEF Tick, LInv, LoginTypeOK
  <2> QED BY <1>1, <1>5, <2>1, ElseKeeps
<1>6. CASE [Next]_vars /\ UNCHANGED loginVars
  <2>1. now' \in Nat /\ UNCHANGED <<hasStore, token, listed, session, req, history>>
    BY <1>6 DEF loginVars, LInv, LoginTypeOK
  <2> QED BY <1>1, <1>6, <2>1, ElseKeeps
<1>7. CASE /\ UNCHANGED vars
           /\ \/ \E r \in Requests, a \in Addresses, w \in Passwords : BeginLogin(r, a, w)
              \/ \E r \in Requests, k \in Tokens : BeginLogout(r, k)
              \/ \E r \in Requests : CheckAgain(r) \/ FindSession(r) \/ Abort(r)
  BY <1>7, BeginLoginKeeps, BeginLogoutKeeps, CheckAgainKeeps, FindSessionKeeps, AbortKeeps
<1> QED BY <1>2, <1>3, <1>4, <1>5, <1>6, <1>7, Steps

LEMMA InitLInv == LoginInit => LInv
<1> SUFFICES ASSUME LoginInit PROVE LInv
  OBVIOUS
<1>1. IInv
  BY InitIInv DEF LoginInit
<1>2. LoginTypeOK
  BY StoresAssumption DEF LoginInit, LoginTypeOK
<1>3. TokenInv /\ LogoutComplete /\ EndedIsRevoked /\ \A r \in Requests : ReqInv(r)
  BY DEF LoginInit, TokenInv, LogoutComplete, EndedIsRevoked, ReqInv
<1> QED BY <1>1, <1>2, <1>3 DEF LInv

LEMMA LoginInvariance == LoginSpec => []LInv
  BY InitLInv, StepKeepsLInv, PTL DEF LoginSpec
----------------------------------------------------------------------------
\* Tokens, entries, sessions and requests always have their types.
THEOREM LoginTypes == LoginSpec => []LoginTypeOK
<1>1. LInv => LoginTypeOK
  BY DEF LInv
<1> QED BY <1>1, LoginInvariance, PTL

\* With a store, and however logouts of one token overlap, the token of those that have
\* been answered is refused, unless the answer was that of a store that had failed; with
\* or without a store their session is over.
THEOREM LogoutAlwaysComplete == LoginSpec => []LogoutComplete
<1>1. LInv => LogoutComplete
  BY DEF LInv
<1> QED BY <1>1, LoginInvariance, PTL

\* A session is never marked as ended while its token is still accepted.
THEOREM EndedAlwaysRevoked == LoginSpec => []EndedIsRevoked
<1>1. LInv => EndedIsRevoked
  BY DEF LInv
<1> QED BY <1>1, LoginInvariance, PTL

\* No token that was refused once is accepted again, and none is good for an account
\* that was made later.
THEOREM AlwaysRefusedForGood == LoginSpec => RefusedForGood
<1> DEFINE A == \A k \in Tokens :
                  token[k] # Nothing => /\ Accepts(k)' => Accepts(k)
                                        /\ Authenticates(k)' => Authenticates(k)
<1>1. ASSUME LInv, [AllNext]_allVars PROVE A
  <2> SUFFICES ASSUME NEW k \in Tokens, token[k] # Nothing
               PROVE  /\ Accepts(k)' => Accepts(k)
                      /\ Authenticates(k)' => Authenticates(k)
    OBVIOUS
  <2>1. Onward
    BY <1>1, OnwardStep
  <2>2. token'[k] = token[k] /\ token[k] \in Pair
    BY <1>1, <2>1 DEF Onward, LInv, LoginTypeOK
  <2>3. now \in Nat /\ now' \in Nat /\ now <= now'
    <3>1. now \in Nat
      BY <1>1 DEF LInv, LoginTypeOK
    <3>2. now' = now \/ now' = now + 1
      BY <1>1, Steps DEF Mint, Revoke, EndSession, Tick, loginVars
    <3> QED BY <3>1, <3>2
  <2>4. token[k].subject \in Present' => token[k].subject \in Present
    <3>1. token[k].subject \in Users /\ account[token[k].subject] # New
      BY <1>1 DEF LInv, TokenInv
    <3>2. [Next]_vars
      BY <1>1 DEF AllNext, allVars
    <3>3. account[token[k].subject] = Gone => account'[token[k].subject] = Gone
      BY <1>1, <3>1, <3>2, GoneForGood DEF LInv
    <3> QED BY <3>1, <3>3 DEF Present
  <2>5. Authenticates(k)' => Authenticates(k)
    BY <2>2, <2>3, <2>4 DEF Authenticates, Subject, Pair
  <2> QED BY <2>1, <2>5 DEF Onward
<1>2. LInv /\ [AllNext]_allVars => [A]_allVars
  BY <1>1
<1> HIDE DEF A
<1>3. LoginSpec => [][A]_allVars
  BY <1>2, LoginInvariance, PTL DEF LoginSpec
<1> QED BY <1>3 DEF RefusedForGood, A

\* A token that is accepted is so until it expires or a logout revokes it.
THEOREM NeverForgotten == LoginSpec => NotForgotten
<1> DEFINE A == \A k \in Tokens :
                  Accepts(k) => \/ Accepts(k)'
                                \/ token[k].refresh <= now'
                                \/ \E r \in Requests :
                                     At_(r, "revoke") /\ req[r].token = k /\ At_(r, "end")'
<1>1. ASSUME LInv, [AllNext]_allVars PROVE A
  <2> SUFFICES ASSUME NEW k \in Tokens, Accepts(k), ~Accepts(k)', ~(token[k].refresh <= now')
               PROVE  \E r \in Requests : /\ At_(r, "revoke") /\ req[r].token = k
                                          /\ At_(r, "end")'
    OBVIOUS
  <2>1. token[k] # Nothing /\ token[k] \in Pair /\ hasStore' = hasStore /\ token'[k] = token[k]
    BY <1>1, OnwardStep DEF Accepts, LInv, LoginTypeOK, Onward
  <2>2. now' \in Nat /\ now' < token[k].refresh
    <3>1. now' \in Nat
      BY <1>1, StepKeepsLInv DEF LInv, LoginTypeOK
    <3> QED BY <2>1, <3>1 DEF Pair
  <2>3. hasStore /\ listed[k] # Nothing /\ listed'[k] # listed[k]
    BY <1>1, <2>1, <2>2 DEF Accepts, Listed, LInv, TokenInv
  <2>4. PICK r \in Requests : Revoke(r)
    BY <1>1, <2>1, <2>3, Steps DEF Mint, EndSession, Tick, loginVars, LInv, LoginTypeOK
  <2>5. req[r] \in LogoutReq /\ At_(r, "revoke") /\ req' = [req EXCEPT ![r].step = "end"]
    BY <1>1, <2>4, LogoutRequest DEF Revoke, Step, Go, At_
  <2>6. req[r].token = k
    BY <1>1, <2>3, <2>4 DEF Revoke, MustRevoke, LInv, LoginTypeOK
  <2>7. At_(r, "end")'
    <3>1. req'[r] = [req[r] EXCEPT !.step = "end"]
      BY <1>1, <2>5 DEF LInv, LoginTypeOK
    <3>2. req'[r] \in LogoutReq /\ req'[r].step = "end"
      BY <2>5, <3>1 DEF LogoutReq, Step
    <3> QED BY <3>2, IdleAssumption DEF At_
  <2> QED BY <2>5, <2>6, <2>7
<1>2. LInv /\ [AllNext]_allVars => [A]_allVars
  BY <1>1
<1> HIDE DEF A
<1>3. LoginSpec => [][A]_allVars
  BY <1>2, LoginInvariance, PTL DEF LoginSpec
<1> QED BY <1>3 DEF NotForgotten, A
=============================================================================
