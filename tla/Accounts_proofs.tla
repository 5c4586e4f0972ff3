--------------------------- MODULE Accounts_proofs ---------------------------
(***************************************************************************)
(* Proofs about Accounts for every set of requests and addresses.          *)
(* The inductive invariant AccountsInv has four parts, each kept by every  *)
(* step: types, sessions, deactivated users, accounts.                     *)
(***************************************************************************)
EXTENDS Accounts, TLAPS

(* The types. *)
LEMMA TypeStep ==
  ASSUME AccountsInv, [Next]_vars
  PROVE  TypeOK'
<1> USE DEF AccountsInv, TypeOK, Goto, session
<1>0. CASE UNCHANGED vars
  BY <1>0 DEF vars
<1>1. ASSUME NEW r \in Requests, CheckEmail(r) \/ Fail(r)
      PROVE  TypeOK'
  BY <1>1, AccountsAssumption DEF CheckEmail, Fail
<1>2. ASSUME NEW r \in Requests, InsertUser(r)
      PROVE  TypeOK'
  <2>1. email[r] \in Emails
    BY <1>2 DEF AccountInv, InsertUser
  <2> QED
    BY <1>2, <2>1 DEF InsertUser, Rows, Ids
<1>3. ASSUME NEW r \in Requests, Authenticate(r)
      PROVE  TypeOK'
  <2>1. \A u \in users : u.id \in Ids
    BY DEF Rows
  <2> QED
    BY <1>3, <2>1 DEF Authenticate, ByEmail
<1>4. ASSUME NEW r \in Requests, Consume(r) \/ LookUp(r) \/ Issue(r) \/ Answer(r) \/ Expire(r)
      PROVE  TypeOK'
  BY <1>4 DEF Consume, LookUp, Issue, Answer, Expire
<1>5. ASSUME NEW r \in Requests, Logout(r)
      PROVE  TypeOK'
  <2>1. \A t \in received : root[t] \in Requests
    BY DEF SessionInv
  <2> QED
    BY <1>5, <2>1 DEF Logout
<1>6. ASSUME NEW u \in Ids, Deactivate(u)
      PROVE  TypeOK'
  BY <1>6 DEF Deactivate
<1>7. CASE SeedOwner
  BY <1>7, AccountsAssumption DEF SeedOwner, Rows, Ids
<1> QED
  BY <1>0, <1>1, <1>2, <1>3, <1>4, <1>5, <1>6, <1>7 DEF Next

(* Sessions: a token enters Redis from the request that carried its        *)
(* session, and leaves it when a request takes it over.                    *)
LEMMA SessionStep ==
  ASSUME AccountsInv, [Next]_vars
  PROVE  SessionInv'
<1> USE DEF AccountsInv, TypeOK, Goto, session
<1>0. CASE UNCHANGED vars
  BY <1>0 DEF vars, SessionInv, Carriers
<1>1. ASSUME NEW r \in Requests, CheckEmail(r) \/ InsertUser(r) \/ Fail(r) \/ LookUp(r)
      PROVE  SessionInv'
  <2>1. /\ UNCHANGED <<stored, received, root, ended, late>>
        /\ Carriers' \subseteq Carriers
        /\ \/ pc'[r] = "done"
           \/ pc[r] = "new" /\ pc'[r] = "insert"
           \/ pc[r] = "lookup" /\ pc'[r] = "issue"
        /\ \A t \in Requests \ {r} : pc'[t] = pc[t]
    BY <1>1 DEF CheckEmail, InsertUser, Fail, LookUp, Carriers
  <2> QED
    BY <2>1 DEF SessionInv
<1>2. ASSUME NEW r \in Requests, Authenticate(r)
      PROVE  SessionInv'
  <2>1. /\ pc[r] = "new" /\ pc'[r] = "issue" /\ root'[r] = r
        /\ UNCHANGED <<stored, received, ended, late>>
        /\ \A t \in Requests \ {r} : pc'[t] = pc[t] /\ root'[t] = root[t]
    BY <1>2 DEF Authenticate
  <2>2. Carriers' \subseteq Carriers \cup {r}
    BY <2>1 DEF Carriers
  <2>3. r \notin Carriers \cup received \cup ended
    BY <2>1 DEF SessionInv, Carriers
  <2>4. \A t \in Carriers \cup received : root[t] # r /\ t \in Requests
    BY <2>1 DEF SessionInv, Carriers
  <2> QED
    BY <2>1, <2>2, <2>3, <2>4 DEF SessionInv
<1>3. ASSUME NEW r \in Requests, Consume(r)
      PROVE  SessionInv'
  <2>1. PICK t \in received \cap stored :
          /\ pc[r] = "new" /\ pc'[r] = "lookup" /\ root'[r] = root[t]
          /\ stored' = stored \ {t} /\ late' \subseteq late \cup {r}
          /\ UNCHANGED <<received, ended>>
          /\ \A u \in Requests \ {r} : pc'[u] = pc[u] /\ root'[u] = root[u]
    BY <1>3 DEF Consume
  <2>2. r \notin Carriers \cup received
    BY <2>1 DEF SessionInv, Carriers
  <2>3. t \in Carriers /\ Carriers' \subseteq (Carriers \ {t}) \cup {r}
    BY <2>1 DEF SessionInv, Carriers
  <2>4. \A u \in Carriers \cup received : u \in Requests
    BY DEF Carriers
  <2> QED
    BY <2>1, <2>2, <2>3, <2>4 DEF SessionInv
<1>4. ASSUME NEW r \in Requests, Issue(r) \/ Answer(r)
      PROVE  SessionInv'
  <2>1. /\ UNCHANGED <<root, ended>> /\ pc'[r] \in {"answer", "done"}
        /\ \A u \in Requests \ {r} : pc'[u] = pc[u]
        /\ stored' \cup received' \subseteq stored \cup received \cup {r}
    BY <1>4 DEF Issue, Answer
  <2>2. Carriers' \subseteq Carriers
    BY <1>4 DEF Issue, Answer, Carriers
  <2>3. root[r] \in Requests /\ pc[root[r]] # "new"
    BY <1>4 DEF Issue, Answer, SessionInv, Carriers
  <2> QED
    BY <2>1, <2>2, <2>3 DEF SessionInv
<1>5. ASSUME NEW r \in Requests, Logout(r)
      PROVE  SessionInv'
  <2>1. PICK t \in received :
          /\ pc[r] = "new" /\ pc'[r] = "done"
          /\ stored' = stored \ {t}
          /\ ended' = IF t \in stored THEN ended \cup {root[t]} ELSE ended
          /\ UNCHANGED <<received, root>>
          /\ \A u \in Requests \ {r} : pc'[u] = pc[u]
    BY <1>5 DEF Logout
  <2>2. Carriers' \subseteq Carriers \ {t}
    BY <2>1 DEF SessionInv, Carriers
  <2>3. t \in stored => t \in Carriers
    BY DEF Carriers
  <2>4. \A u \in Carriers \cup received : u \in Requests
    BY DEF Carriers
  <2> QED
    BY <2>1, <2>2, <2>3, <2>4 DEF SessionInv
<1>6. ASSUME NEW r \in Requests, Expire(r)
      PROVE  SessionInv'
  BY <1>6 DEF Expire, SessionInv, Carriers
<1>7. ASSUME NEW u \in Ids, Deactivate(u)
      PROVE  SessionInv'
  BY <1>7 DEF Deactivate, SessionInv, Carriers
<1>8. CASE SeedOwner
  BY <1>8 DEF SeedOwner, SessionInv, Carriers
<1> QED
  BY <1>0, <1>1, <1>2, <1>3, <1>4, <1>5, <1>6, <1>7, <1>8 DEF Next

(* Deactivated users: nobody becomes active again. *)
LEMMA LateStep ==
  ASSUME AccountsInv, TypeOK', [Next]_vars
  PROVE  LateInv'
<1> USE DEF AccountsInv, TypeOK, Goto, session
<1> DEFINE Inserted == {u.id : u \in users}
<1>0. CASE UNCHANGED vars
  BY <1>0 DEF vars, LateInv, NothingForInactive
<1>1. ASSUME NEW r \in Requests,
             CheckEmail(r) \/ Issue(r) \/ Answer(r) \/ Logout(r) \/ Fail(r) \/ Expire(r)
      PROVE  LateInv'
  BY <1>1 DEF CheckEmail, Issue, Answer, Logout, Fail, Expire, LateInv, NothingForInactive
<1>2. ASSUME NEW r \in Requests, LookUp(r)
      PROVE  LateInv'
  BY <1>2 DEF LookUp, LateInv, NothingForInactive
<1>3. ASSUME NEW r \in Requests, Authenticate(r)
      PROVE  LateInv'
  BY <1>3 DEF Authenticate, ByEmail, LateInv, NothingForInactive
<1>4. ASSUME NEW r \in Requests, Consume(r)
      PROVE  LateInv'
  BY <1>4 DEF Consume, LateInv, NothingForInactive, SessionInv
<1>5. ASSUME NEW r \in Requests, InsertUser(r)
      PROVE  LateInv'
  <2>1. r \notin Inserted
    BY <1>5 DEF InsertUser, AccountInv
  <2>2. \A t \in Requests : user[t] # r
    BY <2>1, AccountsAssumption DEF LateInv, Ids
  <2> QED
    BY <1>5, <2>2 DEF InsertUser, LateInv, NothingForInactive
<1>6. ASSUME NEW u \in Ids, Deactivate(u)
      PROVE  LateInv'
  BY <1>6 DEF Deactivate, LateInv, NothingForInactive
<1>7. CASE SeedOwner
  <2>1. \A t \in Requests : user[t] # Owner
    BY <1>7, AccountsAssumption DEF SeedOwner, LateInv, Ids
  <2> QED
    BY <1>7, <2>1 DEF SeedOwner, LateInv, NothingForInactive
<1> QED
  BY <1>0, <1>1, <1>2, <1>3, <1>4, <1>5, <1>6, <1>7 DEF Next

(* Accounts: only create_viewer and the seed migration insert. *)
LEMMA AccountStep ==
  ASSUME AccountsInv, TypeOK', [Next]_vars
  PROVE  AccountInv'
<1> USE DEF AccountsInv, TypeOK, Goto, session
<1>0. CASE UNCHANGED vars
  BY <1>0 DEF vars, AccountInv
<1>1. ASSUME NEW r \in Requests,
             Authenticate(r) \/ Consume(r) \/ LookUp(r) \/ Issue(r) \/ Answer(r)
               \/ Logout(r) \/ Fail(r) \/ Expire(r)
      PROVE  AccountInv'
  <2>1. /\ UNCHANGED <<users, active, email>>
        /\ \A t \in Requests : pc'[t] \in {"insert", "new"} => pc'[t] = pc[t]
        /\ \A t \in Requests : pc[t] = "done" => pc'[t] = "done"
    BY <1>1 DEF Authenticate, Consume, LookUp, Issue, Answer, Logout, Fail, Expire
  <2> QED
    BY <2>1 DEF AccountInv
<1>2. ASSUME NEW r \in Requests, CheckEmail(r)
      PROVE  AccountInv'
  BY <1>2, AccountsAssumption DEF CheckEmail, AccountInv
<1>3. ASSUME NEW r \in Requests, InsertUser(r)
      PROVE  AccountInv'
  <2>1. \A u \in users : u.id # r /\ u.email # email[r]
    BY <1>3 DEF InsertUser, AccountInv, ByEmail
  <2>2. r # Owner /\ email[r] \in Emails /\ Lower[email[r]] = email[r]
    BY <1>3, AccountsAssumption DEF InsertUser, AccountInv
  <2> DEFINE new == [id |-> r, email |-> email[r]]
  <2>3. /\ users' = users \cup {new} /\ active' = active \cup {r}
        /\ email' = email /\ pc'[r] = "done" /\ \A t \in Requests \ {r} : pc'[t] = pc[t]
    BY <1>3 DEF InsertUser
  <2>4. new.id = r /\ new.email = email[r]
    OBVIOUS
  <2> HIDE DEF new
  <2>5. (active \subseteq {u.id : u \in users})'
    BY <2>3, <2>4 DEF AccountInv
  <2>6. (\A u, v \in users : (u.id = v.id => u = v) /\ (u.email = v.email => u = v))'
    BY <2>1, <2>3, <2>4 DEF AccountInv
  <2>7. (/\ \A u \in users : u.id \in Requests => pc[u.id] = "done" /\ Lower[u.email] = u.email
         /\ \A u \in users : u.id = Owner => u.email = SeedEmail)'
    BY <2>2, <2>3, <2>4 DEF AccountInv
  <2>8. (\A t \in Requests : pc[t] = "insert" => email[t] \in Emails /\ Lower[email[t]] = email[t])'
    BY <2>3 DEF AccountInv
  <2> QED
    BY <2>5, <2>6, <2>7, <2>8 DEF AccountInv
<1>4. ASSUME NEW u \in Ids, Deactivate(u)
      PROVE  AccountInv'
  BY <1>4 DEF Deactivate, AccountInv
<1>5. CASE SeedOwner
  <2> DEFINE new == [id |-> Owner, email |-> SeedEmail]
  <2>1. /\ users' = users \cup {new} /\ active' = active \cup {Owner}
        /\ UNCHANGED <<pc, email>>
        /\ \A u \in users : u.id # Owner /\ u.email # SeedEmail
    BY <1>5 DEF SeedOwner, ByEmail
  <2>2. new.id = Owner /\ new.email = SeedEmail /\ Owner \notin Requests
    BY AccountsAssumption
  <2> HIDE DEF new
  <2>3. (active \subseteq {u.id : u \in users})'
    BY <2>1, <2>2 DEF AccountInv
  <2>4. (\A u, v \in users : (u.id = v.id => u = v) /\ (u.email = v.email => u = v))'
    BY <2>1, <2>2 DEF AccountInv
  <2>5. (/\ \A u \in users : u.id \in Requests => pc[u.id] = "done" /\ Lower[u.email] = u.email
         /\ \A u \in users : u.id = Owner => u.email = SeedEmail)'
    BY <2>1, <2>2 DEF AccountInv
  <2> QED
    BY <2>1, <2>3, <2>4, <2>5 DEF AccountInv
<1> QED
  BY <1>0, <1>1, <1>2, <1>3, <1>4, <1>5 DEF Next

(* No account and no session yet. *)
LEMMA InitialInv == Init => AccountsInv
<1> SUFFICES ASSUME Init PROVE AccountsInv
  OBVIOUS
<1>1. TypeOK
  BY DEF Init, TypeOK, Rows
<1>2. SessionInv /\ LateInv /\ AccountInv
  BY DEF Init, SessionInv, Carriers, LateInv, NothingForInactive, AccountInv
<1> QED
  BY <1>1, <1>2 DEF AccountsInv

(* The inductive invariant of accounts and sessions. *)
THEOREM AccountsInvariant == Spec => []AccountsInv
<1>1. ASSUME AccountsInv, [Next]_vars
      PROVE  AccountsInv'
  BY <1>1, TypeStep, SessionStep, LateStep, AccountStep DEF AccountsInv
<1> QED
  BY InitialInv, <1>1, PTL DEF Spec

(* Every state of the auth routes is well typed. *)
THEOREM TypeCorrect == Spec => []TypeOK
<1>1. AccountsInv => TypeOK
  BY DEF AccountsInv
<1> QED
  BY <1>1, AccountsInvariant, PTL

(* refresh_tokens: a session never has two live tokens. *)
THEOREM OneLiveTokenHolds == Spec => []OneLiveToken
<1>1. AccountsInv => OneLiveToken
  BY DEF AccountsInv, SessionInv, Carriers, OneLiveToken
<1> QED
  BY <1>1, AccountsInvariant, PTL

(* logout: a session whose token was deleted never has one again. *)
THEOREM LogoutEndsSessionHolds == Spec => []LogoutEndsSession
<1>1. AccountsInv => LogoutEndsSession
  BY DEF AccountsInv, SessionInv, Carriers, LogoutEndsSession
<1> QED
  BY <1>1, AccountsInvariant, PTL

(* refresh_tokens: nothing is issued to a user who was inactive before. *)
THEOREM NothingForInactiveHolds == Spec => []NothingForInactive
<1>1. AccountsInv => NothingForInactive
  BY DEF AccountsInv, LateInv
<1> QED
  BY <1>1, AccountsInvariant, PTL

(* If the owner's address is given in lower case, create_viewer keeps      *)
(* every stored address so and no two alike.                               *)
LEMMA AccountsFound ==
  ASSUME Lower[SeedEmail] = SeedEmail, AccountsInv
  PROVE  OneAccountPerAddress /\ EveryAccountCanLogIn
<1>1. \A u \in users : Lower[u.email] = u.email
  BY DEF AccountsInv, TypeOK, Rows, Ids, AccountInv
<1> QED
  BY <1>1 DEF AccountsInv, AccountInv, OneAccountPerAddress, EveryAccountCanLogIn, ByEmail

(* create_viewer, with the unique index behind its check: an address, in   *)
(* whatever spelling, never gets a second account.                         *)
THEOREM OneAccountPerAddressHolds ==
  ASSUME Lower[SeedEmail] = SeedEmail
  PROVE  Spec => []OneAccountPerAddress
<1>1. AccountsInv => OneAccountPerAddress
  BY AccountsFound
<1> QED
  BY <1>1, AccountsInvariant, PTL

(* authenticate finds every account by its address, however it is typed:   *)
(* create_viewer and the login agree on the spelling.                      *)
THEOREM EveryAccountCanLogInHolds ==
  ASSUME Lower[SeedEmail] = SeedEmail
  PROVE  Spec => []EveryAccountCanLogIn
<1>1. AccountsInv => EveryAccountCanLogIn
  BY AccountsFound
<1> QED
  BY <1>1, AccountsInvariant, PTL

=============================================================================
