------------------------------- MODULE Accounts -------------------------------
(***************************************************************************)
(* The auth routes: accounts in PostgreSQL, refresh tokens in Redis.  A    *)
(* login begins a session; each refresh takes the session's token out of   *)
(* Redis (GETDEL), looks the user up and stores a new token; a logout      *)
(* deletes it.  create_viewer checks that an address is free, hashes the   *)
(* password and inserts the account.                                       *)
(*                                                                         *)
(* Each request is a coroutine of the API: others run at its awaits, and   *)
(* any of its calls may fail.  Tokens are named by the request that issues *)
(* them; decode_token is an identity check and clocks are left out (a      *)
(* token may expire at any time).                                          *)
(***************************************************************************)
EXTENDS Naturals, FiniteSets

CONSTANTS
  Requests,   \* requests to the auth routes, each made once
  Owner,      \* the account the seed migration inserts
  Emails,     \* addresses as they are typed
  Lower,      \* Lower[e]: str.lower
  SeedEmail   \* SEED_OWNER_EMAIL

Ids == Requests \cup {Owner}
None == "none"

ASSUME AccountsAssumption ==
  /\ Owner \notin Requests
  /\ None \notin Ids /\ None \notin Emails
  /\ Lower \in [Emails -> Emails]
  /\ \A e \in Emails : Lower[Lower[e]] = Lower[e]
  /\ SeedEmail \in Emails

VARIABLES
  users,      \* committed rows of users: [id, email], id by creating request
  active,     \* ids of the users with is_active
  stored,     \* tokens under refresh_token:<jti> in Redis
  received,   \* tokens that have reached a client's cookie jar
  pc,         \* pc[r]: the next await of request r
  email,      \* email[r]: the address create_viewer r is to insert
  user,       \* user[r]: the account r issues a token for
  root,       \* root[r]: the login that began the session of r's token
  ended,      \* history: sessions whose stored token a logout deleted
  late        \* history: refreshes that began after their user's deactivation

vars == <<users, active, stored, received, pc, email, user, root, ended, late>>
session == <<email, user, root>>

Rows == [id : Ids, email : Emails]

TypeOK ==
  /\ users \subseteq Rows
  /\ active \subseteq Ids
  /\ stored \subseteq Requests /\ received \subseteq Requests
  /\ pc \in [Requests -> {"new", "lookup", "issue", "answer", "insert", "done"}]
  /\ email \in [Requests -> Emails \cup {None}]
  /\ user \in [Requests -> Ids \cup {None}]
  /\ root \in [Requests -> Requests \cup {None}]
  /\ ended \subseteq Requests /\ late \subseteq Requests

Init ==
  /\ users = {} /\ active = {}
  /\ stored = {} /\ received = {}
  /\ pc = [r \in Requests |-> "new"]
  /\ email = [r \in Requests |-> None]
  /\ user = [r \in Requests |-> None]
  /\ root = [r \in Requests |-> None]
  /\ ended = {} /\ late = {}

Goto(r, from, to) == pc[r] = from /\ pc' = [pc EXCEPT ![r] = to]

(* get_user_by_email compares the column with what it is given. *)
ByEmail(e) == {u \in users : u.email = e}

-----------------------------------------------------------------------------
(* The seed migration inserts the owner's address as it is given. *)
SeedOwner ==
  /\ Owner \notin {u.id : u \in users} /\ ByEmail(SeedEmail) = {}
  /\ users' = users \cup {[id |-> Owner, email |-> SeedEmail]}
  /\ active' = active \cup {Owner}
  /\ UNCHANGED <<stored, received, pc, session, ended, late>>

(* RequireRole(OWNER, ADMIN): the owner has logged in and is active. *)
OwnerAuthorized == Owner \in active /\ \E t \in received : user[t] = Owner

(* Bug: the address is stored as it was typed. *)
CheckEmailAsTyped(r) ==
  \E e \in Emails :
    /\ OwnerAuthorized
    /\ ByEmail(Lower[e]) = {}
    /\ Goto(r, "new", "insert")
    /\ email' = [email EXCEPT ![r] = e]
    /\ UNCHANGED <<users, active, stored, received, user, root, ended, late>>

(* create_viewer finds the address free. *)
CheckEmail(r) ==
  \E e \in Emails :
    /\ OwnerAuthorized
    /\ ByEmail(Lower[e]) = {}
    /\ Goto(r, "new", "insert")
    /\ email' = [email EXCEPT ![r] = Lower[e]]
    /\ UNCHANGED <<users, active, stored, received, user, root, ended, late>>

(* Bug: the row is inserted without its address. *)
InsertUserWithoutEmail(r) ==
  /\ Goto(r, "insert", "done")
  /\ ByEmail(email[r]) = {}
  /\ users' = users \cup {[id |-> r, email |-> None]}
  /\ active' = active \cup {r}
  /\ UNCHANGED <<stored, received, session, ended, late>>

(* Bug: the email column is not unique. *)
InsertUserUnchecked(r) ==
  /\ Goto(r, "insert", "done")
  /\ users' = users \cup {[id |-> r, email |-> email[r]]}
  /\ active' = active \cup {r}
  /\ UNCHANGED <<stored, received, session, ended, late>>

(* The unique index refuses an address that was inserted meanwhile. *)
InsertUser(r) ==
  /\ Goto(r, "insert", "done")
  /\ ByEmail(email[r]) = {}
  /\ users' = users \cup {[id |-> r, email |-> email[r]]}
  /\ active' = active \cup {r}
  /\ UNCHANGED <<stored, received, session, ended, late>>

(* Another session of the database deactivates an account. *)
Deactivate(u) ==
  /\ u \in active
  /\ active' = active \ {u}
  /\ UNCHANGED <<users, stored, received, pc, session, ended, late>>

-----------------------------------------------------------------------------
(* authenticate: the right password of an active account. *)
Authenticate(r) ==
  \E e \in Emails : \E u \in ByEmail(Lower[e]) :
    /\ u.id \in active
    /\ Goto(r, "new", "issue")
    /\ user' = [user EXCEPT ![r] = u.id]
    /\ root' = [root EXCEPT ![r] = r]
    /\ UNCHANGED <<users, active, stored, received, email, ended, late>>

(* Bug: GET instead of GETDEL. *)
ConsumeByGet(r) ==
  \E t \in received \cap stored :
    /\ Goto(r, "new", "lookup")
    /\ user' = [user EXCEPT ![r] = user[t]]
    /\ root' = [root EXCEPT ![r] = root[t]]
    /\ late' = IF user[t] \in active THEN late ELSE late \cup {r}
    /\ UNCHANGED <<users, active, stored, received, email, ended>>

(* refresh_tokens: GETDEL; a token that is not stored is refused. *)
Consume(r) ==
  \E t \in received \cap stored :
    /\ Goto(r, "new", "lookup")
    /\ stored' = stored \ {t}
    /\ user' = [user EXCEPT ![r] = user[t]]
    /\ root' = [root EXCEPT ![r] = root[t]]
    /\ late' = IF user[t] \in active THEN late ELSE late \cup {r}
    /\ UNCHANGED <<users, active, received, email, ended>>

(* Bug: the account is not looked up again. *)
LookUpNothing(r) ==
  /\ Goto(r, "lookup", "issue")
  /\ UNCHANGED <<users, active, stored, received, session, ended, late>>

(* The token is already consumed when the account proves inactive. *)
LookUp(r) ==
  /\ Goto(r, "lookup", IF user[r] \in active THEN "issue" ELSE "done")
  /\ UNCHANGED <<users, active, stored, received, session, ended, late>>

(* _issue_tokens *)
Issue(r) ==
  /\ Goto(r, "issue", "answer")
  /\ stored' = stored \cup {r}
  /\ UNCHANGED <<users, active, received, session, ended, late>>

(* The answer sets the cookie. *)
Answer(r) ==
  /\ Goto(r, "answer", "done")
  /\ received' = received \cup {r}
  /\ UNCHANGED <<users, active, stored, session, ended, late>>

(* A logout whose token is not stored deletes nothing. *)
Logout(r) ==
  \E t \in received :
    /\ Goto(r, "new", "done")
    /\ stored' = stored \ {t}
    /\ ended' = IF t \in stored THEN ended \cup {root[t]} ELSE ended
    /\ UNCHANGED <<users, active, received, session, late>>

(* A request is refused, raises, or its answer is lost. *)
Fail(r) ==
  /\ \E from \in {"new", "lookup", "issue", "answer", "insert"} : Goto(r, from, "done")
  /\ UNCHANGED <<users, active, stored, received, session, ended, late>>

(* The key's ex runs out. *)
Expire(t) ==
  /\ t \in stored
  /\ stored' = stored \ {t}
  /\ UNCHANGED <<users, active, received, pc, session, ended, late>>

Next ==
  \/ \E r \in Requests :
       \/ CheckEmail(r) \/ InsertUser(r)
       \/ Authenticate(r) \/ Consume(r) \/ LookUp(r) \/ Issue(r) \/ Answer(r)
       \/ Logout(r) \/ Fail(r) \/ Expire(r)
  \/ \E u \in Ids : Deactivate(u)
  \/ SeedOwner

Spec == Init /\ [][Next]_vars

-----------------------------------------------------------------------------
(* Properties. *)

(* However refreshes race, a session has one live token at most: a token   *)
(* is rotated once, or lost with the request that took it (GETDEL).        *)
OneLiveToken == \A t, u \in stored : root[t] = root[u] => t = u

(* A logout that deletes the token of a session ends the session: no       *)
(* refresh that was already under way stores another one.                  *)
LogoutEndsSession == \A t \in stored : root[t] \notin ended

(* A refresh that begins after its user was deactivated issues nothing,    *)
(* whatever the state its token was issued in (test_refresh_inactive_user).*)
NothingForInactive == late \cap (stored \cup received) = {}

(* An address has one account, although create_viewer looks for it and     *)
(* inserts it in two statements.                                           *)
OneAccountPerAddress ==
  \A u, v \in users : Lower[u.email] = Lower[v.email] => u = v

(* Every account can log in, however its address is typed.  README.md:98   *)
(* says of the first: "The bootstrap migration creates the first owner     *)
(* from explicit SEED_OWNER_EMAIL [...] values. After logging in, an       *)
(* owner or admin can provision a viewer".                                 *)
EveryAccountCanLogIn ==
  \A u \in users : \A e \in Emails : Lower[e] = Lower[u.email] => u \in ByEmail(Lower[e])

-----------------------------------------------------------------------------
(* What the proofs of Accounts_proofs add to make these inductive. *)

(* A session is carried by the token it has in Redis or by the request     *)
(* that has taken that token and not stored the next one.                  *)
Carriers == stored \cup {r \in Requests : pc[r] \in {"lookup", "issue"}}

SessionInv ==
  /\ \A t, u \in Carriers : root[t] = root[u] => t = u
  /\ \A t \in Carriers : root[t] \notin ended
  /\ \A r \in Requests :
       r \in stored \cup received \/ pc[r] \in {"lookup", "issue", "answer"}
         => root[r] \in Requests /\ pc[root[r]] # "new"
  /\ \A t \in stored \cup received : pc[t] \in {"answer", "done"}
  /\ \A r \in Requests : pc[r] = "new" => r \notin ended

(* A late refresh finds its user inactive, and users stay inactive. *)
LateInv ==
  /\ \A r \in Requests : user[r] \in {None} \cup {u.id : u \in users}
  /\ \A r \in late : pc[r] \in {"lookup", "done"} /\ user[r] \notin active
  /\ NothingForInactive

(* Ids are used once, and addresses are kept in lower case. *)
AccountInv ==
  /\ active \subseteq {u.id : u \in users}
  /\ \A u, v \in users : u.id = v.id => u = v
  /\ \A u \in users : u.id \in Requests => pc[u.id] = "done" /\ Lower[u.email] = u.email
  /\ \A r \in Requests : pc[r] = "insert" => email[r] \in Emails /\ Lower[email[r]] = email[r]
  /\ \A u \in users : u.id = Owner => u.email = SeedEmail
  /\ \A u, v \in users : u.email = v.email => u = v

AccountsInv == TypeOK /\ SessionInv /\ LateInv /\ AccountInv

=============================================================================
