------------------------------- MODULE Login -------------------------------
(***************************************************************************)
(* Logging in and out: the routers login and logout, get_current_user,     *)
(* JWTService and the login sessions, composed with Accounts.              *)
(*                                                                         *)
(* A login mints a pair of signed tokens, puts the refresh token on an     *)
(* allow-list that expires by itself, and saves a login session.  Both     *)
(* writes are best effort.  A logout is a sequence of calls with awaits    *)
(* between them: it checks the refresh token (BeginLogout), checks it again *)
(* (CheckAgain), looks for the session (FindSession), takes the token off  *)
(* the list (Revoke) and saves the session as ended (EndSession).  Several *)
(* logouts of one token may overlap, time passes in between, each call to  *)
(* Redis may fail, and a request may end at any step (Abort).  A check of  *)
(* the list that fails is answered like a token that is not on it, with    *)
(* 401 (CheckFails).                                                       *)
(*                                                                         *)
(* The service may have been given a store for the list or not; with the   *)
(* settings of the repository it was not, and then the list lets all pass. *)
(***************************************************************************)
EXTENDS Accounts

CONSTANTS
  Tokens,      \* the pairs of tokens that may be minted
  Requests,    \* slots for logins and logouts that are served concurrently
  Stores,      \* whether there is a store for the list: the cases to look at
  AccessTTL, RefreshTTL, SessionTTL,
  MaxTime,     \* bound of the clock
  Nothing      \* a token not minted, an entry or a session that is not there

ASSUME TimesAssumption == {AccessTTL, RefreshTTL, SessionTTL} \subseteq Nat \ {0}
ASSUME StoresAssumption == Stores \subseteq BOOLEAN

VARIABLES
  hasStore,    \* whether there is a store, chosen once
  now,         \* the time
  token,       \* what is signed into each pair of tokens
  listed,      \* the time at which the store forgets a refresh token
  session,     \* the login session of each pair
  req,         \* what each request being served has found out
  refused,     \* history: the tokens for which a logout was answered with 401
  unheard,     \* history: those of them for which the store had failed
  ended,       \* history: the tokens for which a logout was answered with 204
  swallowed    \* history: the tokens for which a failure of Redis was passed over

history == <<refused, unheard, ended, swallowed>>
loginVars == <<hasStore, now, token, listed, session, req, history>>
allVars == <<vars, loginVars>>
----------------------------------------------------------------------------
Pair == [subject : Users \cup Addresses, access : Nat, refresh : Nat]

Session == [active : BOOLEAN, expires : Nat]

ASSUME NothingAssumption == Nothing \notin Pair \cup Session \cup Nat

\* Mutated form: tokens name the address of their user.
Address(u) == IF u \in Present THEN account[u].email ELSE u

\* Tokens name their user by the identifier.
Subject(u) == u

Minted(u) == [subject |-> Subject(u), access |-> now + AccessTTL, refresh |-> now + RefreshTTL]

\* Mutated form: the list forgets with the access token.
Forgets(k) == token'[k].access

\* Mutated form: setex is called with its arguments in another order.
Owner(k) == token'[k].subject

\* An entry of the list lives as long as the token is valid.
Until(k) == token'[k].refresh

Listed(k) == ~hasStore \/ (listed[k] # Nothing /\ now < listed[k])

\* validate with scope "refresh", when the store answers.
Accepts(k) == token[k] # Nothing /\ now < token[k].refresh /\ Listed(k)

\* get_current_user: the access token is good for an account that is there.
Authenticates(k) ==
  token[k] # Nothing /\ now < token[k].access /\ \E u \in Present : Subject(u) = token[k].subject

\* Session.validate: the session is marked active and has not expired.
Valid(k) == session[k] # Nothing /\ session[k].active /\ now < session[k].expires

At_(r, step) == req[r] # Idle /\ req[r].step = step

Go(r, step) == req' = [req EXCEPT ![r].step = step]

Reply(r) == req' = [req EXCEPT ![r] = Idle]
----------------------------------------------------------------------------
(* Logging in.                                                             *)

BeginLogin(r, a, password) ==
  /\ req[r] = Idle
  /\ \E u \in ByAddress(a) :
       /\ account[u].password = password
       /\ req' = [req EXCEPT ![r] = [step |-> "mint", user |-> u]]
  /\ UNCHANGED <<hasStore, now, token, listed, session, history>>

\* create(): nobody has the tokens before the reply, so this is one step.
Mint(r, k) ==
  /\ At_(r, "mint")
  /\ token[k] = Nothing
  /\ token' = [token EXCEPT ![k] = Minted(req[r].user)]
  /\ \/ listed' = [listed EXCEPT ![k] = IF hasStore THEN Until(k) ELSE Nothing]
     \/ UNCHANGED listed
  /\ \/ session' = [session EXCEPT ![k] = [active |-> TRUE, expires |-> now + SessionTTL]]
     \/ UNCHANGED session
  /\ Reply(r)
  /\ UNCHANGED <<hasStore, now, history>>
----------------------------------------------------------------------------
(* Logging out.                                                            *)

\* A token that is refused is answered with 401.
Refused(r, k) ==
  /\ ~Accepts(k)
  /\ Reply(r)
  /\ refused' = refused \cup {k}
  /\ UNCHANGED <<hasStore, now, token, listed, session, unheard, ended, swallowed>>

\* So is a token that has not expired when the store does not answer.
CheckFails(r, k) ==
  /\ hasStore /\ now < token[k].refresh
  /\ Reply(r)
  /\ refused' = refused \cup {k}
  /\ unheard' = unheard \cup {k}
  /\ UNCHANGED <<hasStore, now, token, listed, session, ended, swallowed>>

BeginLogout(r, k) ==
  /\ req[r] = Idle
  /\ token[k] # Nothing
  /\ \/ Refused(r, k)
     \/ CheckFails(r, k)
     \/ /\ Accepts(k)
        /\ req' = [req EXCEPT ![r] = [step |-> "check", token |-> k, found |-> Nothing]]
        /\ UNCHANGED <<hasStore, now, token, listed, session, history>>

\* validate_refresh_and_get_session begins with the same check.
CheckAgain(r) ==
  /\ At_(r, "check")
  /\ \/ Refused(r, req[r].token)
     \/ CheckFails(r, req[r].token)
     \/ /\ Accepts(req[r].token)
        /\ Go(r, "find")
        /\ UNCHANGED <<hasStore, now, token, listed, session, history>>

\* Mutated form: the session is saved as it was found.
Unended(s) == s

\* invalidate() marks the record that was found and saves all of it.
Ended(s) == [s EXCEPT !.active = FALSE]

\* Mutated form: the session is ended as soon as it is found.
FindAndEnd(r) ==
  /\ At_(r, "find")
  /\ LET k == req[r].token
     IN  /\ Valid(k)
         /\ req' = [req EXCEPT ![r].step = "revoke", ![r].found = session[k]]
         /\ session' = [session EXCEPT ![k] = Ended(@)]
  /\ UNCHANGED <<hasStore, now, token, listed, history>>

\* No session is found when there is none that is valid, or when the scan gives up.
FindSession(r) ==
  /\ At_(r, "find")
  /\ LET k == req[r].token
     IN  \/ /\ Valid(k)
            /\ req' = [req EXCEPT ![r].step = "revoke", ![r].found = session[k]]
            /\ UNCHANGED swallowed
         \/ /\ Go(r, "revoke")
            /\ swallowed' = IF Valid(k) THEN swallowed \cup {k} ELSE swallowed
  /\ UNCHANGED <<hasStore, now, token, listed, session, refused, unheard, ended>>

\* Mutated form: a token without a session is not revoked.
NeedsSession(r) == req[r].found # Nothing

\* Whether or not a session was found.
MustRevoke(r) == TRUE

Revoke(r) ==
  /\ At_(r, "revoke")
  /\ LET k == req[r].token
     IN  \/ /\ listed' = IF MustRevoke(r) THEN [listed EXCEPT ![k] = Nothing] ELSE listed
            /\ UNCHANGED swallowed
         \/ /\ hasStore
            /\ swallowed' = swallowed \cup {k}
            /\ UNCHANGED listed
  /\ Go(r, "end")
  /\ UNCHANGED <<hasStore, now, token, session, refused, unheard, ended>>

EndSession(r) ==
  /\ At_(r, "end")
  /\ LET k == req[r].token
         s == req[r].found
     IN  /\ \/ /\ session' = IF s # Nothing THEN [session EXCEPT ![k] = Ended(s)] ELSE session
               /\ UNCHANGED swallowed
            \/ /\ s # Nothing
               /\ swallowed' = swallowed \cup {k}
               /\ UNCHANGED session
         /\ ended' = ended \cup {k}
  /\ Reply(r)
  /\ UNCHANGED <<hasStore, now, token, listed, refused, unheard>>

\* The times of a session cannot be compared, the server goes down: an error reply, or
\* none.
Abort(r) ==
  /\ req[r] # Idle
  /\ Reply(r)
  /\ UNCHANGED <<hasStore, now, token, listed, session, history>>

Tick ==
  /\ now < MaxTime
  /\ now' = now + 1
  /\ UNCHANGED <<hasStore, token, listed, session, req, history>>
----------------------------------------------------------------------------
LoginInit ==
  /\ Init
  /\ hasStore \in Stores
  /\ now = 0
  /\ token = [k \in Tokens |-> Nothing]
  /\ listed = [k \in Tokens |-> Nothing]
  /\ session = [k \in Tokens |-> Nothing]
  /\ req = [r \in Requests |-> Idle]
  /\ refused = {}
  /\ unheard = {}
  /\ ended = {}
  /\ swallowed = {}

Logout(r) ==
  \/ \E k \in Tokens : BeginLogout(r, k)
  \/ CheckAgain(r)
  \/ FindSession(r)
  \/ Revoke(r)
  \/ EndSession(r)

LoginNext ==
  \/ Tick
  \/ \E r \in Requests :
       \/ \E a \in Addresses, w \in Passwords : BeginLogin(r, a, w)
       \/ \E k \in Tokens : Mint(r, k)
       \/ Logout(r)
       \/ Abort(r)

AllNext == \/ Next /\ UNCHANGED loginVars
           \/ LoginNext /\ UNCHANGED vars

LoginSpec == LoginInit /\ [][AllNext]_allVars
----------------------------------------------------------------------------
Step == {"check", "find", "revoke", "end"}

LoginReq == [step : {"mint"}, user : Users]
LogoutReq == [step : Step, token : Tokens, found : Session \cup {Nothing}]

ASSUME IdleAssumption == Idle \notin LoginReq \cup LogoutReq

\* The types of tokens, entries, sessions and requests.
LoginTypeOK ==
  /\ hasStore \in BOOLEAN
  /\ now \in Nat
  /\ token \in [Tokens -> Pair \cup {Nothing}]
  /\ listed \in [Tokens -> Nat \cup {Nothing}]
  /\ session \in [Tokens -> Session \cup {Nothing}]
  /\ req \in [Requests -> LoginReq \cup LogoutReq \cup {Idle}]
  /\ refused \subseteq Tokens
  /\ unheard \subseteq Tokens
  /\ ended \subseteq Tokens
  /\ swallowed \subseteq Tokens

\* With a store, the refresh token of a logout that has been answered is refused, also
\* when it met another logout of the token or came after the session had expired; and
\* after a 204 the session is over, with or without a store.  Excepted are failures that
\* were passed over, and a 401 that only says that the store had failed.
LogoutComplete ==
  /\ hasStore => \A k \in (refused \ unheard) \cup (ended \ swallowed) : ~Accepts(k)
  /\ \A k \in ended \ swallowed : ~Valid(k)

\* What logout says of itself, of every service: that it revokes the refresh token and
\* denies it from then on.  Without a store it does not.
LogoutRevokes == \A k \in ended \ swallowed : ~Accepts(k)

\* A session is not marked as ended before its refresh token is refused.
EndedIsRevoked ==
  hasStore =>
    \A k \in Tokens \ swallowed :
      session[k] # Nothing /\ ~session[k].active => ~Accepts(k)

\* A refresh token that is accepted stays so until it expires or a logout revokes it.
NotForgotten ==
  [][\A k \in Tokens :
       Accepts(k) => \/ Accepts(k)'
                     \/ token[k].refresh <= now'
                     \/ \E r \in Requests : At_(r, "revoke") /\ req[r].token = k /\ At_(r, "end")']_allVars

\* Once a pair of tokens is of no use it never is again: after an expiry, a logout, or
\* when its user was deleted, even if somebody signs up with the same address.
RefusedForGood ==
  [][\A k \in Tokens :
       token[k] # Nothing => /\ Accepts(k)' => Accepts(k)
                             /\ Authenticates(k)' => Authenticates(k)]_allVars
=============================================================================
