--------------------------- MODULE Accounts_proofs ---------------------------
(***************************************************************************)
(* The safety of the accounts, for any number of users, requests,          *)
(* confirmations and changes: an administrator remains, a sign-in   *)
(* exchanges a temporary password once, a confirmation runs one change. And*)
(* of the setup that makes the first administrator, for any number of      *)
(* requests, keys, databases and writes of migrations: what the state file *)
(* records is done, a database gets one administrator, and a retry is      *)
(* refused only by a database that a stop left inside a migration.         *)
(***************************************************************************)
EXTENDS Accounts, SetupProcess, FiniteSetTheorems, TLAPS

Changing == {"begin", "locked", "allowed", "revoked"}

States ==
    {Idle} \cup {[at |-> "register"]}
    \cup [at : {"claim", "open", "change", "end"}, user : Users, role : Roles]
    \cup [at : {"challenge", "renew"}, user : Users, role : Roles, epoch : Nat]
    \cup [at : Changing, change : Changes, user : Users]

Challenge == [at : {"renew"}, user : Users, role : Roles, epoch : Nat]

TypeOK ==
    /\ row \in [Users -> Row]
    /\ lock \in [Users -> Requests \cup {Free}]
    /\ challenges \subseteq Challenge
    /\ confirm \subseteq Confirmations
    /\ request \in [Requests -> States]
    /\ issuedFor \in [Confirmations -> {Idle} \cup Confirmable]
    /\ ran \in [Confirmations -> Nat]
    /\ renewed \in [Users \X (0..MaxEpoch) -> Nat]

-----------------------------------------------------------------------------
(* An administrator remains                                                *)

\* A transaction holds the row it will change.
LockOK ==
    \A r \in Requests :
        request[r].at \in {"locked", "allowed", "revoked"} => lock[request[r].user] = r

\* A transaction that may cost an administrator holds another one's row.
GuardOK ==
    \A r \in Requests :
        request[r].at \in {"allowed", "revoked"} /\ CostsAnAdmin(r) =>
            \E a \in Users \ {request[r].user} : IsActiveAdmin(a) /\ lock[a] = r

AdminInv == LockOK /\ GuardOK /\ AnAdminRemains

-----------------------------------------------------------------------------
(* A confirmation runs one change                                          *)

ConfirmInv ==
    \A k \in Confirmations :
        /\ issuedFor[k] = Idle => k \notin confirm /\ ran[k] = 0
        /\ k \in confirm => ran[k] = 0
        /\ ran[k] <= 1

-----------------------------------------------------------------------------
(* Signing in with a temporary password sets one password                  *)

\* x is the right to set the password that follows the temporary one.
Holds(x, u, e) == x.at \in {"challenge", "renew"} /\ x.user = u /\ x.epoch = e

Unheld(u, e) ==
    /\ \A r \in Requests : ~Holds(request[r], u, e)
    /\ \A c \in challenges : ~Holds(c, u, e)

Renewed(u, e) == <<u, e>> \in DOMAIN renewed /\ renewed[<<u, e>>] # 0

\* Nobody holds what was not given up yet: the epochs to come, and the one of a
\* password that still must be changed.
FutureOK ==
    \A u \in Users, e \in Nat :
        e > row[u].epoch \/ (e = row[u].epoch /\ row[u].mustChange) =>
            Unheld(u, e) /\ ~Renewed(u, e)

\* One request or challenge holds it, and only until it was used.
HoldersOK ==
    /\ \A r, q \in Requests, u \in Users, e \in Nat :
          Holds(request[r], u, e) /\ Holds(request[q], u, e) => r = q
    /\ \A c, d \in challenges, u \in Users, e \in Nat :
          Holds(c, u, e) /\ Holds(d, u, e) => c = d
    /\ \A r \in Requests, c \in challenges, u \in Users, e \in Nat :
          ~(Holds(request[r], u, e) /\ Holds(c, u, e))
    /\ \A u \in Users, e \in Nat : Renewed(u, e) => Unheld(u, e)

TemporaryInv == FutureOK /\ HoldersOK /\ RenewedOnce

-----------------------------------------------------------------------------
(* Rows and states                                                         *)

\* A record of Row with another value in one field is one of Row; the changes of
\* the model are made of such changes.
LEMMA WithTemporary ==
    ASSUME NEW old \in Row
    PROVE  /\ Temporary(old) \in Row
           /\ Temporary(old).epoch = old.epoch + 1
           /\ Temporary(old).status = old.status /\ Temporary(old).role = old.role
<1> DEFINE a == [old EXCEPT !.password = "temporary"]
           b == [a EXCEPT !.mustChange = TRUE]
<1>1. a \in Row /\ a.epoch = old.epoch
  BY DEF Row
<1>2. Temporary(old) = [b EXCEPT !.epoch = old.epoch + 1]
  BY DEF Temporary
<1>3. b \in Row
  <2> HIDE DEF a
  <2> QED
    BY <1>1 DEF Row
<1>4. [b EXCEPT !.epoch = old.epoch + 1] \in Row
  <2>1. old.epoch + 1 \in Nat
    BY DEF Row
  <2> HIDE DEF b
  <2> QED
    BY <1>3, <2>1 DEF Row
<1>5. /\ Temporary(old).epoch = old.epoch + 1
      /\ Temporary(old).status = old.status /\ Temporary(old).role = old.role
  BY DEF Temporary, Row
<1> QED
  BY <1>2, <1>4, <1>5

\* Setting a password ends the need to change it, and nothing else.
LEMMA WithPassword ==
    ASSUME NEW old \in Row, NEW password \in {"own", "none"}
    PROVE  LET new == [old EXCEPT !.password = password, !.mustChange = FALSE]
           IN  /\ new \in Row
               /\ new.epoch = old.epoch /\ new.status = old.status /\ new.role = old.role
               /\ new.mustChange = FALSE
<1> DEFINE new == [old EXCEPT !.password = password, !.mustChange = FALSE]
           a == [old EXCEPT !.password = password]
<1>1. a \in Row
  BY DEF Row
<1>2. new = [a EXCEPT !.mustChange = FALSE]
  OBVIOUS
<1>3. [a EXCEPT !.mustChange = FALSE] \in Row
  <2> HIDE DEF a
  <2> QED
    BY <1>1 DEF Row
<1>4. new.epoch = old.epoch /\ new.status = old.status /\ new.role = old.role
  BY DEF Row
<1>5. new.mustChange = FALSE
  BY DEF Row
<1> QED
  BY <1>2, <1>3, <1>4, <1>5

\* The rows there are before and just after an account is made.
LEMMA NewAccount ==
    /\ Absent \in Row /\ Absent.status = "absent" /\ Absent.epoch = 0
    /\ Account("user") \in Row /\ Account("user").role = "user"
    /\ Account("user").epoch = 0 /\ Account("user").mustChange = FALSE
    /\ Account("admin") \in Row
    /\ Account("admin").epoch = 0 /\ Account("admin").mustChange = FALSE
<1>1. Absent \in Row /\ Absent.status = "absent" /\ Absent.epoch = 0
  BY DEF Absent, Row, Statuses, Roles
<1>2. ASSUME NEW role \in Roles
      PROVE  Account(role) \in Row
  <2> DEFINE a == [Absent EXCEPT !.status = "active"]
             b == [a EXCEPT !.role = role]
  <2>1. a \in Row
    BY <1>1 DEF Row, Statuses
  <2>2. Account(role) = [b EXCEPT !.password = "own"]
    BY DEF Account
  <2>3. b \in Row
    <3> HIDE DEF a
    <3> QED
      BY <2>1 DEF Row
  <2>4. [b EXCEPT !.password = "own"] \in Row
    <3> HIDE DEF b
    <3> QED
      BY <2>3 DEF Row
  <2> QED
    BY <2>2, <2>4
<1>3. ASSUME NEW role \in Roles
      PROVE  /\ Account(role).role = role
             /\ Account(role).epoch = 0 /\ Account(role).mustChange = FALSE
  BY DEF Account, Absent
<1> QED
  BY <1>1, <1>2, <1>3 DEF Roles

\* What an administrator's change does to a row: the epoch never goes back, and
\* only three changes take an administrator away.
LEMMA Changed ==
    ASSUME NEW change \in Changes, NEW old \in Row
    PROVE  LET new == After(change, old)
           IN  /\ new \in Row
               /\ new.epoch > old.epoch \/ (new.epoch = old.epoch /\ (new.mustChange => old.mustChange))
               /\ /\ change \notin {"demote", "disable", "delete"}
                  /\ old.status = "active" /\ old.role = "admin"
                  => new.status = "active" /\ new.role = "admin"
<1> DEFINE new == After(change, old)
<1>1. CASE change = "promote"
  <2>1. new = [old EXCEPT !.role = "admin"]
    BY <1>1 DEF After
  <2> QED
    BY <1>1, <2>1 DEF Row, Roles
<1>2. CASE change = "demote"
  <2>1. new = [old EXCEPT !.role = "user"]
    BY <1>2 DEF After
  <2> QED
    BY <1>2, <2>1 DEF Row, Roles
<1>3. CASE change = "enable"
  <2>1. new = [old EXCEPT !.status = "active"]
    BY <1>3 DEF After
  <2> QED
    BY <1>3, <2>1 DEF Row, Statuses
<1>4. CASE change = "disable"
  <2>1. new = [old EXCEPT !.status = "disabled"]
    BY <1>4 DEF After
  <2> QED
    BY <1>4, <2>1 DEF Row, Statuses
<1>5. CASE change = "reset"
  <2>1. new = Temporary(old)
    BY <1>5 DEF After
  <2> QED
    BY <1>5, <2>1, WithTemporary DEF Row
<1>6. CASE change = "delete"
  <2> DEFINE a == [old EXCEPT !.status = "deleted"]
             b == [a EXCEPT !.password = "none", !.mustChange = FALSE]
  <2>1. a \in Row /\ a.epoch = old.epoch
    BY DEF Row, Statuses
  <2>2. new = b
    BY <1>6 DEF After
  <2>3. b \in Row /\ b.epoch = a.epoch /\ b.mustChange = FALSE
    <3> HIDE DEF a
    <3> QED
      BY <2>1, WithPassword
  <2> QED
    BY <1>6, <2>1, <2>2, <2>3
<1> QED
  BY <1>1, <1>2, <1>3, <1>4, <1>5, <1>6, ChangesAssumption

\* What a request is depends on where it is.
LEMMA Shapes ==
    ASSUME TypeOK, NEW r \in Requests
    PROVE  /\ request[r].at \in Changing =>
                 /\ request[r] \in [at : Changing, change : Changes, user : Users]
                 /\ \A at \in Changing : [request[r] EXCEPT !.at = at] \in States
           /\ request[r].at \in {"challenge", "renew"} =>
                 /\ request[r].user \in Users /\ request[r].role \in Roles
                 /\ request[r].epoch \in Nat
                 /\ [request[r] EXCEPT !.at = "renew"] \in Challenge
           /\ request[r].at \in {"claim", "open", "change", "end"} =>
                 /\ request[r].user \in Users /\ request[r].role \in Roles
                 /\ [at |-> "open", user |-> request[r].user, role |-> request[r].role] \in States
<1>1. request[r] \in States
  BY DEF TypeOK
<1>2. ASSUME request[r].at \in Changing
      PROVE  /\ request[r] \in [at : Changing, change : Changes, user : Users]
             /\ \A at \in Changing : [request[r] EXCEPT !.at = at] \in States
  BY <1>1, <1>2 DEF States, Changing, Idle
<1>3. ASSUME request[r].at \in {"challenge", "renew"}
      PROVE  /\ request[r].user \in Users /\ request[r].role \in Roles
             /\ request[r].epoch \in Nat
             /\ [request[r] EXCEPT !.at = "renew"] \in Challenge
  BY <1>1, <1>3 DEF States, Changing, Idle, Challenge
<1>4. ASSUME request[r].at \in {"claim", "open", "change", "end"}
      PROVE  /\ request[r].user \in Users /\ request[r].role \in Roles
             /\ [at |-> "open", user |-> request[r].user, role |-> request[r].role] \in States
  BY <1>1, <1>4 DEF States, Changing, Idle
<1> QED
  BY <1>2, <1>3, <1>4

\* Whose request it is.
LEMMA Person ==
    ASSUME TypeOK, NEW r \in Requests,
           request[r].at \in {"claim", "open", "end", "challenge", "renew", "change"}
    PROVE  /\ request[r].user \in Users /\ request[r].role \in Roles
           /\ row[request[r].user] \in Row /\ row[request[r].user].epoch \in Nat
<1>1. request[r].user \in Users /\ request[r].role \in Roles
  BY Shapes
<1> QED
  BY <1>1 DEF TypeOK, Row

\* A request that has set a password goes on to end the sessions.
LEMMA PasswordSet ==
    ASSUME TypeOK, NEW r \in Requests, UpdatePassword(r)
    PROVE  request'[r].at = "end" /\ \A q \in Requests \ {r} : request'[q] = request[q]
BY DEF UpdatePassword, Goes, TypeOK

-----------------------------------------------------------------------------
(* Types                                                                   *)

\* Every step keeps the types: one step below per action.
LEMMA TypeStep ==
    ASSUME TypeOK, [Next]_vars
    PROVE  TypeOK'
<1>1. ASSUME NEW r \in Requests, Fail(r)
      PROVE  TypeOK'
  BY <1>1 DEF TypeOK, Fail, Goes, Unlocked, States, history
<1>2. ASSUME NEW r \in Requests, ReadMode(r)
      PROVE  TypeOK'
  BY <1>2 DEF TypeOK, ReadMode, Goes, States, history
<1>3. ASSUME NEW r \in Requests, Claim(r)
      PROVE  TypeOK'
  <2> DEFINE u == request[r].user
             new == [row[u] EXCEPT !.password = "none", !.mustChange = FALSE]
  <2>1. u \in Users /\ request[r].role \in Roles /\ row[u] \in Row
    BY <1>3, Person DEF Claim, Is
  <2>2. new \in Row
    BY <2>1, WithPassword
  <2>3. row' = [row EXCEPT ![u] = new]
    BY <1>3 DEF Claim, Update
  <2>4. row' \in [Users -> Row]
    <3> HIDE DEF new
    <3> QED
      BY <2>2, <2>3 DEF TypeOK
  <2>5. [at |-> "challenge", user |-> u, role |-> request[r].role, epoch |-> row[u].epoch] \in States
    BY <2>1 DEF States, Row
  <2> QED
    BY <1>3, <2>4, <2>5 DEF TypeOK, Claim, Goes, history
<1>4. ASSUME NEW r \in Requests, CreateChallenge(r)
      PROVE  TypeOK'
  <2>1. [request[r] EXCEPT !.at = "renew"] \in Challenge
    BY <1>4, Shapes DEF CreateChallenge, Is
  <2>2. Idle \in States
    BY DEF States
  <2> QED
    BY <1>4, <2>1, <2>2 DEF TypeOK, CreateChallenge, Goes, history
<1>5. ASSUME NEW r \in Requests, ConsumeChallenge(r)
      PROVE  TypeOK'
  BY <1>5 DEF TypeOK, ConsumeChallenge, Goes, States, Challenge, history
<1>6. ASSUME NEW r \in Requests, UpdatePassword(r)
      PROVE  TypeOK'
  <2> DEFINE u == request[r].user
             new == [row[u] EXCEPT !.password = "own", !.mustChange = FALSE]
  <2>1. u \in Users /\ request[r].role \in Roles /\ row[u] \in Row
    BY <1>6, Person DEF UpdatePassword
  <2>2. new \in Row
    BY <2>1, WithPassword
  <2>3. row' = [row EXCEPT ![u] = new]
    BY <1>6 DEF UpdatePassword, Update
  <2>4. row' \in [Users -> Row]
    <3> HIDE DEF new
    <3> QED
      BY <2>2, <2>3 DEF TypeOK
  <2>5. [at |-> "end", user |-> u, role |-> request[r].role] \in States
    BY <2>1 DEF States
  <2>6. renewed' \in [Users \X (0..MaxEpoch) -> Nat]
    <3> DEFINE p == <<u, request[r].epoch>>
               domain == Users \X (0..MaxEpoch)
    <3>1. renewed' = renewed \/ renewed' = [renewed EXCEPT ![p] = renewed[p] + 1]
      BY <1>6 DEF UpdatePassword
    <3>2. renewed \in [domain -> Nat]
      BY DEF TypeOK
    <3> HIDE DEF p, domain
    <3>3. renewed' \in [domain -> Nat]
      BY <3>1, <3>2
    <3> QED
      BY <3>3 DEF domain
  <2>7. request' \in [Requests -> States]
    BY <1>6, <2>5 DEF UpdatePassword, Goes, TypeOK
  <2> QED
    BY <1>6, <2>4, <2>6, <2>7 DEF TypeOK, UpdatePassword
<1>7. ASSUME NEW r \in Requests, EndSessions(r)
      PROVE  TypeOK'
  BY <1>7, Shapes DEF TypeOK, EndSessions, Goes, history, Is
<1>8. ASSUME NEW r \in Requests, OpenSession(r)
      PROVE  TypeOK'
  BY <1>8 DEF TypeOK, OpenSession, Goes, States, history
<1>9. ASSUME NEW r \in Requests, LockTarget(r)
      PROVE  TypeOK'
  <2>1. [request[r] EXCEPT !.at = "locked"] \in States
    BY <1>9, Shapes DEF LockTarget, Is, Changing
  <2>2. Idle \in States
    BY DEF States
  <2>3. request' \in [Requests -> States]
    BY <1>9, <2>1, <2>2 DEF TypeOK, LockTarget, Goes, Rollback
  <2>4. lock' \in [Users -> Requests \cup {Free}]
    BY <1>9 DEF TypeOK, LockTarget, Rollback, Unlocked
  <2> QED
    BY <1>9, <2>3, <2>4 DEF TypeOK, LockTarget, history
<1>10. ASSUME NEW r \in Requests, AssertAdminInvariant(r)
      PROVE  TypeOK'
  <2>1. [request[r] EXCEPT !.at = "allowed"] \in States
    BY <1>10, Shapes DEF AssertAdminInvariant, Is, Changing
  <2>2. Idle \in States
    BY DEF States
  <2>3. request' \in [Requests -> States]
    BY <1>10, <2>1, <2>2 DEF TypeOK, AssertAdminInvariant, Goes, Rollback
  <2>4. lock' \in [Users -> Requests \cup {Free}]
    BY <1>10 DEF TypeOK, AssertAdminInvariant, Rollback, Unlocked
  <2> QED
    BY <1>10, <2>3, <2>4 DEF TypeOK, AssertAdminInvariant, history
<1>11. ASSUME NEW r \in Requests, RevokeSessions(r)
      PROVE  TypeOK'
  <2>1. [request[r] EXCEPT !.at = "revoked"] \in States
    BY <1>11, Shapes DEF RevokeSessions, Is, Changing
  <2>2. Idle \in States
    BY DEF States
  <2>3. request' \in [Requests -> States]
    BY <1>11, <2>1, <2>2 DEF TypeOK, RevokeSessions, Goes, Rollback
  <2>4. lock' \in [Users -> Requests \cup {Free}]
    BY <1>11 DEF TypeOK, RevokeSessions, Rollback, Unlocked
  <2> QED
    BY <1>11, <2>3, <2>4 DEF TypeOK, RevokeSessions, history
<1>12. ASSUME NEW r \in Requests, Commit(r)
      PROVE  TypeOK'
  <2> DEFINE new == After(request[r].change, row[request[r].user])
  <2>1. request[r].user \in Users /\ request[r].change \in Changes
    BY <1>12, Shapes DEF Commit, Is, Changing
  <2>2. new \in Row
    BY <2>1, Changed DEF TypeOK
  <2>3. row' \in [Users -> Row]
    <3>1. row' = [row EXCEPT ![request[r].user] = new]
      BY <1>12 DEF Commit
    <3> HIDE DEF new
    <3> QED
      BY <2>2, <3>1 DEF TypeOK
  <2>4. Idle \in States
    BY DEF States
  <2> QED
    BY <1>12, <2>3, <2>4 DEF TypeOK, Commit, Goes, Unlocked, history
<1>13. ASSUME NEW r \in Requests, NEW u \in Users, Register(r, u)
      PROVE  TypeOK'
  <2>1. Idle \in States
    BY DEF States
  <2> QED
    BY <1>13, <2>1, NewAccount DEF TypeOK, Register, Update, Goes, history
<1>14. ASSUME NEW r \in Requests, NEW u \in Users, Login(r, u)
      PROVE  TypeOK'
  BY <1>14 DEF TypeOK, Login, Goes, States, Row, history
<1>15. ASSUME NEW r \in Requests, NEW u \in Users, BeginPasswordChange(r, u)
      PROVE  TypeOK'
  BY <1>15 DEF TypeOK, BeginPasswordChange, Goes, States, Row, history
<1>16. ASSUME NEW u \in Users, CreateTemporaryUser(u)
      PROVE  TypeOK'
  <2>1. Temporary(Account("user")) \in Row
    BY NewAccount, WithTemporary
  <2> QED
    BY <1>16, <2>1 DEF TypeOK, CreateTemporaryUser, Update, history
<1>17. ASSUME NEW u \in Users, Logout(u)
      PROVE  TypeOK'
  BY <1>17 DEF TypeOK, Logout, history
<1>18. ASSUME NEW k \in Confirmations, NEW what \in Confirmable, Issue(k, what)
      PROVE  TypeOK'
  BY <1>18 DEF TypeOK, Issue
<1>19. ASSUME NEW k \in Confirmations, NEW new \in {"open", "closed"}, SetRegistrationMode(k, new)
      PROVE  TypeOK'
  BY <1>19 DEF TypeOK, SetRegistrationMode
<1>20. ASSUME NEW r \in Requests, NEW k \in Confirmations, NEW u \in Users, UpdateUser(r, k, u)
      PROVE  TypeOK'
  <2>1. PICK change \in Changes : Consume(r, k, [at |-> "begin", change |-> change, user |-> u])
    BY <1>20 DEF UpdateUser
  <2>2. [at |-> "begin", change |-> change, user |-> u] \in States
    BY DEF States, Changing
  <2> QED
    BY <2>1, <2>2 DEF TypeOK, Consume, Take, Goes
<1>21. ASSUME NEW r \in Requests, NEW k \in Confirmations, NEW u \in Users, ResetPassword(r, k, u)
      PROVE  TypeOK'
  <2>1. PICK change \in Changes : Consume(r, k, [at |-> "begin", change |-> change, user |-> u])
    BY <1>21 DEF ResetPassword
  <2>2. [at |-> "begin", change |-> change, user |-> u] \in States
    BY DEF States, Changing
  <2> QED
    BY <2>1, <2>2 DEF TypeOK, Consume, Take, Goes
<1>22. ASSUME NEW r \in Requests, NEW k \in Confirmations, NEW u \in Users, DeleteUser(r, k, u)
      PROVE  TypeOK'
  <2>1. PICK change \in Changes : Consume(r, k, [at |-> "begin", change |-> change, user |-> u])
    BY <1>22 DEF DeleteUser
  <2>2. [at |-> "begin", change |-> change, user |-> u] \in States
    BY DEF States, Changing
  <2> QED
    BY <2>1, <2>2 DEF TypeOK, Consume, Take, Goes
<1>23. ASSUME ChallengeExpires
      PROVE  TypeOK'
  BY <1>23 DEF TypeOK, ChallengeExpires, history
<1>24. CASE UNCHANGED vars
  BY <1>24 DEF TypeOK, vars, history
<1> QED
  BY <1>1, <1>2, <1>3, <1>4, <1>5, <1>6, <1>7, <1>8, <1>9, <1>10, <1>11, <1>12, <1>13, <1>14, <1>15, <1>16, <1>17, <1>18, <1>19, <1>20, <1>21, <1>22, <1>23, <1>24 DEF Next

-----------------------------------------------------------------------------
(* An administrator remains                                                *)

Inside == {"locked", "allowed", "revoked"}

\* A step outside the transactions that makes and unmakes no administrator.
LEMMA QuietAdmin ==
    ASSUME TypeOK, AdminInv, lock' = lock,
           \A u \in Users : IsActiveAdmin(u)' <=> IsActiveAdmin(u),
           \A r \in Requests : request'[r].at \in Inside => request'[r] = request[r]
    PROVE  AdminInv'
<1>1. LockOK'
  BY DEF AdminInv, LockOK, Inside
<1>2. GuardOK'
  <2> SUFFICES ASSUME NEW r \in Requests, (request[r].at \in {"allowed", "revoked"} /\ CostsAnAdmin(r))'
               PROVE  (\E a \in Users \ {request[r].user} : IsActiveAdmin(a) /\ lock[a] = r)'
    BY DEF GuardOK
  <2>1. request'[r] = request[r]
    BY DEF Inside
  <2>2. request[r].user \in Users
    BY <2>1, Shapes DEF Changing
  <2>3. CostsAnAdmin(r)
    BY <2>1, <2>2 DEF CostsAnAdmin
  <2>4. PICK a \in Users \ {request[r].user} : IsActiveAdmin(a) /\ lock[a] = r
    BY <2>1, <2>3 DEF AdminInv, GuardOK
  <2> QED
    BY <2>1, <2>4
<1>3. AnAdminRemains'
  BY DEF AdminInv, AnAdminRemains, ActiveAdmins
<1> QED
  BY <1>1, <1>2, <1>3 DEF AdminInv

\* A transaction that rolls back lets its rows go and changes none.
LEMMA RollbackAdmin ==
    ASSUME TypeOK, AdminInv, NEW r \in Requests, Rollback(r), row' = row
    PROVE  AdminInv'
<1>1. ASSUME NEW q \in Requests, request'[q].at \in Inside
      PROVE  q # r /\ request'[q] = request[q] /\ request[q].user \in Users
  <2>1. request'[r] = Idle /\ (q # r => request'[q] = request[q])
    BY DEF TypeOK, Rollback, Goes
  <2>2. q # r
    BY <1>1, <2>1 DEF Idle, Inside
  <2> QED
    BY <1>1, <2>1, <2>2, Shapes DEF Inside, Changing
<1>2. \A u \in Users : lock[u] # r => lock'[u] = lock[u]
  BY DEF Rollback, Unlocked
<1>3. LockOK'
  BY <1>1, <1>2 DEF AdminInv, LockOK, Inside
<1>4. GuardOK'
  <2> SUFFICES ASSUME NEW q \in Requests, (request[q].at \in {"allowed", "revoked"} /\ CostsAnAdmin(q))'
               PROVE  (\E a \in Users \ {request[q].user} : IsActiveAdmin(a) /\ lock[a] = q)'
    BY DEF GuardOK
  <2>1. q # r /\ request'[q] = request[q]
    BY <1>1 DEF Inside
  <2>2. PICK a \in Users \ {request[q].user} : IsActiveAdmin(a) /\ lock[a] = q
    BY <2>1 DEF AdminInv, GuardOK, CostsAnAdmin, IsActiveAdmin
  <2> QED
    BY <1>2, <2>1, <2>2 DEF IsActiveAdmin
<1>5. AnAdminRemains'
  BY DEF AdminInv, AnAdminRemains, ActiveAdmins, IsActiveAdmin
<1> QED
  BY <1>3, <1>4, <1>5 DEF AdminInv

\* The row a transaction takes was free: it is no witness of another.
LEMMA LockTargetAdmin ==
    ASSUME TypeOK, AdminInv, NEW r \in Requests, LockTarget(r)
    PROVE  AdminInv'
<1> DEFINE u == request[r].user
<1>1. u \in Users
  BY Shapes DEF LockTarget, Is, Changing
<1>2. CASE Rollback(r)
  BY <1>2, RollbackAdmin DEF LockTarget
<1>3. CASE ~Rollback(r)
  <2>1. /\ lock[u] = Free /\ lock' = [lock EXCEPT ![u] = r]
        /\ request' = [request EXCEPT ![r] = [request[r] EXCEPT !.at = "locked"]]
        /\ row' = row
    BY <1>3 DEF LockTarget, Goes
  <2>2. request'[r].at = "locked" /\ request'[r].user = u
    BY <2>1, Shapes DEF LockTarget, Is, Changing, TypeOK
  <2>3. \A q \in Requests \ {r} : request'[q] = request[q]
    BY <2>1 DEF TypeOK
  <2>4. LockOK'
    <3> SUFFICES ASSUME NEW q \in Requests, request'[q].at \in {"locked", "allowed", "revoked"}
                 PROVE  lock'[request'[q].user] = q
      BY DEF LockOK
    <3>1. CASE q = r
      BY <1>1, <2>1, <2>2, <3>1 DEF TypeOK
    <3>2. CASE q # r
      <4>1. lock[request[q].user] = q /\ request'[q] = request[q] /\ request[q].user \in Users
        BY <2>3, <3>2, Shapes DEF AdminInv, LockOK, Changing
      <4>2. request[q].user # u
        BY <2>1, <4>1, FreeAssumption
      <4> QED
        BY <2>1, <4>1, <4>2 DEF TypeOK
    <3> QED
      BY <3>1, <3>2
  <2>5. GuardOK'
    <3> SUFFICES ASSUME NEW q \in Requests, (request[q].at \in {"allowed", "revoked"} /\ CostsAnAdmin(q))'
                 PROVE  (\E a \in Users \ {request[q].user} : IsActiveAdmin(a) /\ lock[a] = q)'
      BY DEF GuardOK
    <3>1. q # r /\ request'[q] = request[q]
      BY <2>2, <2>3
    <3>2. PICK a \in Users \ {request[q].user} : IsActiveAdmin(a) /\ lock[a] = q
      BY <2>1, <3>1 DEF AdminInv, GuardOK, CostsAnAdmin, IsActiveAdmin
    <3>3. a # u
      BY <2>1, <3>2, FreeAssumption
    <3>4. lock'[a] = q
      BY <2>1, <3>2, <3>3 DEF TypeOK
    <3> QED
      BY <2>1, <3>1, <3>2, <3>4 DEF IsActiveAdmin
  <2>6. AnAdminRemains'
    BY <2>1 DEF AdminInv, AnAdminRemains, ActiveAdmins, IsActiveAdmin
  <2> QED
    BY <2>4, <2>5, <2>6 DEF AdminInv
<1> QED
  BY <1>2, <1>3

\* The count: whoever may lose an administrator holds a second one.
LEMMA AssertAdmin ==
    ASSUME TypeOK, AdminInv, NEW r \in Requests, AssertAdminInvariant(r)
    PROVE  AdminInv'
<1> DEFINE u == request[r].user
<1>1. u \in Users /\ lock[u] = r
  BY Shapes DEF AssertAdminInvariant, Is, Changing, AdminInv, LockOK
<1>2. CASE Rollback(r)
  BY <1>2, RollbackAdmin DEF AssertAdminInvariant
<1>3. CASE ~Rollback(r)
  <2>1. row' = row /\ request' = [request EXCEPT ![r] = [request[r] EXCEPT !.at = "allowed"]]
    BY <1>3 DEF AssertAdminInvariant, Goes
  <2>2. /\ request'[r].at = "allowed" /\ request'[r].user = u
        /\ request'[r].change = request[r].change
    BY <2>1, Shapes DEF AssertAdminInvariant, Is, Changing, TypeOK
  <2>3. \A q \in Requests \ {r} : request'[q] = request[q]
    BY <2>1 DEF TypeOK
  <2>4. /\ \A v \in Users : lock[v] \notin {Free, r} => lock'[v] = lock[v]
        /\ lock'[u] = r
    BY <1>1, <1>3 DEF AssertAdminInvariant, TypeOK, ActiveAdmins
  <2>5. LockOK'
    <3> SUFFICES ASSUME NEW q \in Requests, request'[q].at \in {"locked", "allowed", "revoked"}
                 PROVE  lock'[request'[q].user] = q
      BY DEF LockOK
    <3>1. CASE q = r
      BY <2>2, <2>4, <3>1
    <3>2. CASE q # r
      <4>1. lock[request[q].user] = q /\ request'[q] = request[q] /\ request[q].user \in Users
        BY <2>3, <3>2, Shapes DEF AdminInv, LockOK, Changing
      <4> QED
        BY <2>4, <3>2, <4>1, FreeAssumption
    <3> QED
      BY <3>1, <3>2
  <2>6. ASSUME CostsAnAdmin(r)
        PROVE  \E a \in Users \ {u} : IsActiveAdmin(a) /\ lock'[a] = r
    <3>1. u \in ActiveAdmins
      BY <1>1, <2>6 DEF CostsAnAdmin, ActiveAdmins
    <3>2. ~(Cardinality(ActiveAdmins) <= 1) /\ lock' = [v \in Users |-> IF v \in ActiveAdmins THEN r ELSE lock[v]]
      BY <1>3, <2>6 DEF AssertAdminInvariant
    <3>3. ActiveAdmins # {u}
      <4>1. Cardinality({u}) = 1
        BY FS_Singleton
      <4> HIDE DEF u
      <4>2. ASSUME ActiveAdmins = {u}
            PROVE  FALSE
        BY <3>2, <4>1, <4>2
      <4> QED
        BY <4>2
    <3>4. PICK a \in ActiveAdmins : a # u
      <4>1. (\A a \in ActiveAdmins : a = u) => ActiveAdmins = {u}
        BY <3>1
      <4> QED
        BY <3>3, <4>1
    <3> QED
      BY <3>2, <3>4 DEF ActiveAdmins
  <2>7. GuardOK'
    <3> SUFFICES ASSUME NEW q \in Requests, (request[q].at \in {"allowed", "revoked"} /\ CostsAnAdmin(q))'
                 PROVE  (\E a \in Users \ {request[q].user} : IsActiveAdmin(a) /\ lock[a] = q)'
      BY DEF GuardOK
    <3>1. CASE q = r
      <4>1. CostsAnAdmin(r)
        BY <2>1, <2>2, <3>1 DEF CostsAnAdmin, IsActiveAdmin
      <4> QED
        BY <2>1, <2>2, <2>6, <3>1, <4>1 DEF IsActiveAdmin
    <3>2. CASE q # r
      <4>1. request'[q] = request[q]
        BY <2>3, <3>2
      <4>2. CostsAnAdmin(q)
        BY <2>1, <4>1 DEF CostsAnAdmin, IsActiveAdmin
      <4>3. PICK a \in Users \ {request[q].user} : IsActiveAdmin(a) /\ lock[a] = q
        BY <4>1, <4>2 DEF AdminInv, GuardOK
      <4>4. lock'[a] = q
        BY <2>4, <3>2, <4>3, FreeAssumption
      <4> QED
        BY <2>1, <4>1, <4>3, <4>4 DEF IsActiveAdmin
    <3> QED
      BY <3>1, <3>2
  <2>8. AnAdminRemains'
    BY <2>1 DEF AdminInv, AnAdminRemains, ActiveAdmins, IsActiveAdmin
  <2> QED
    BY <2>5, <2>7, <2>8 DEF AdminInv
<1> QED
  BY <1>2, <1>3

\* Ending the sessions leaves the rows and their locks alone.
LEMMA RevokeSessionsAdmin ==
    ASSUME TypeOK, AdminInv, NEW r \in Requests, RevokeSessions(r)
    PROVE  AdminInv'
<1>1. CASE Rollback(r)
  BY <1>1, RollbackAdmin DEF RevokeSessions
<1>2. CASE ~Rollback(r)
  <2>1. /\ row' = row /\ lock' = lock
        /\ request' = [request EXCEPT ![r] = [request[r] EXCEPT !.at = "revoked"]]
    BY <1>2 DEF RevokeSessions, Goes
  <2>2. /\ request'[r].at = "revoked" /\ request'[r].user = request[r].user
        /\ request'[r].change = request[r].change
        /\ request[r].at = "allowed"
    BY <2>1, Shapes DEF RevokeSessions, Is, Changing, TypeOK
  <2>3. \A q \in Requests \ {r} : request'[q] = request[q]
    BY <2>1 DEF TypeOK
  <2>4. LockOK'
    BY <2>1, <2>2, <2>3 DEF AdminInv, LockOK
  <2>5. GuardOK'
    <3> SUFFICES ASSUME NEW q \in Requests, (request[q].at \in {"allowed", "revoked"} /\ CostsAnAdmin(q))'
                 PROVE  (\E a \in Users \ {request[q].user} : IsActiveAdmin(a) /\ lock[a] = q)'
      BY DEF GuardOK
    <3>1. /\ request'[q].user = request[q].user /\ request'[q].change = request[q].change
          /\ request[q].at \in {"allowed", "revoked"}
      BY <2>2, <2>3
    <3>2. PICK a \in Users \ {request[q].user} : IsActiveAdmin(a) /\ lock[a] = q
      BY <2>1, <3>1 DEF AdminInv, GuardOK, CostsAnAdmin, IsActiveAdmin
    <3> QED
      BY <2>1, <3>1, <3>2 DEF IsActiveAdmin
  <2>6. AnAdminRemains'
    BY <2>1 DEF AdminInv, AnAdminRemains, ActiveAdmins, IsActiveAdmin
  <2> QED
    BY <2>4, <2>5, <2>6 DEF AdminInv
<1> QED
  BY <1>1, <1>2

\* The change: another administrator is held, or none is lost.
LEMMA CommitAdmin ==
    ASSUME TypeOK, AdminInv, NEW r \in Requests, Commit(r)
    PROVE  AdminInv'
<1> DEFINE u == request[r].user
           new == After(request[r].change, row[u])
<1>1. /\ u \in Users /\ request[r].change \in Changes /\ lock[u] = r
      /\ request[r].at = "revoked"
  BY Shapes DEF Commit, Is, Changing, AdminInv, LockOK
<1>2. /\ \A v \in Users : v # u => row'[v] = row[v]
      /\ row'[u] = new
  BY <1>1 DEF Commit, TypeOK
<1>3. \A v \in Users : lock[v] # r => lock'[v] = lock[v]
  BY DEF Commit, Unlocked
<1>4. ASSUME NEW q \in Requests, request'[q].at \in Inside
      PROVE  /\ q # r /\ request'[q] = request[q] /\ request[q].user \in Users
             /\ lock[request[q].user] = q /\ request[q].user # u
  <2>1. request'[r] = Idle /\ (q # r => request'[q] = request[q])
    BY DEF TypeOK, Commit, Goes
  <2>2. q # r
    BY <1>4, <2>1 DEF Idle, Inside
  <2>3. request'[q] = request[q] /\ request[q].user \in Users
    BY <1>4, <2>1, <2>2, Shapes DEF Inside, Changing
  <2>4. lock[request[q].user] = q
    BY <1>4, <2>3 DEF AdminInv, LockOK, Inside
  <2> QED
    BY <1>1, <2>2, <2>3, <2>4
<1>5. LockOK'
  BY <1>3, <1>4 DEF LockOK, Inside
<1>6. GuardOK'
  <2> SUFFICES ASSUME NEW q \in Requests, (request[q].at \in {"allowed", "revoked"} /\ CostsAnAdmin(q))'
               PROVE  (\E a \in Users \ {request[q].user} : IsActiveAdmin(a) /\ lock[a] = q)'
    BY DEF GuardOK
  <2>1. /\ q # r /\ request'[q] = request[q] /\ request[q].user \in Users
        /\ request[q].user # u
    BY <1>4 DEF Inside
  <2>2. CostsAnAdmin(q)
    BY <1>2, <2>1 DEF CostsAnAdmin, IsActiveAdmin
  <2>3. PICK a \in Users \ {request[q].user} : IsActiveAdmin(a) /\ lock[a] = q
    BY <2>1, <2>2 DEF AdminInv, GuardOK
  <2>4. a # u
    BY <1>1, <2>1, <2>3
  <2>5. row'[a] = row[a] /\ lock'[a] = q
    BY <1>2, <1>3, <2>1, <2>3, <2>4
  <2> QED
    BY <2>1, <2>3, <2>5 DEF IsActiveAdmin
<1>7. AnAdminRemains'
  <2>1. CASE CostsAnAdmin(r)
    <3>1. PICK a \in Users \ {u} : IsActiveAdmin(a)
      BY <1>1, <2>1 DEF AdminInv, GuardOK
    <3>2. row'[a] = row[a]
      BY <1>2, <3>1
    <3> QED
      BY <3>1, <3>2 DEF AnAdminRemains, ActiveAdmins, IsActiveAdmin
  <2>2. CASE ~CostsAnAdmin(r)
    <3>1. PICK a \in Users : IsActiveAdmin(a)
      BY DEF AdminInv, AnAdminRemains, ActiveAdmins
    <3>2. CASE a # u
      BY <1>2, <3>1, <3>2 DEF AnAdminRemains, ActiveAdmins, IsActiveAdmin
    <3>3. CASE a = u
      <4>1. row[u] \in Row /\ row[u].status = "active" /\ row[u].role = "admin"
        BY <1>1, <3>1, <3>3 DEF TypeOK, IsActiveAdmin
      <4>2. request[r].change \notin {"demote", "disable", "delete"}
        BY <2>2, <3>1, <3>3 DEF CostsAnAdmin
      <4>3. new.status = "active" /\ new.role = "admin"
        BY <1>1, <4>1, <4>2, Changed
      <4> QED
        BY <1>1, <1>2, <4>3 DEF AnAdminRemains, ActiveAdmins, IsActiveAdmin
    <3> QED
      BY <3>2, <3>3
  <2> QED
    BY <2>1, <2>2
<1> QED
  BY <1>5, <1>6, <1>7 DEF AdminInv

\* Every step keeps an administrator, one step below per action.
LEMMA AdminStep ==
    ASSUME TypeOK, AdminInv, [Next]_vars
    PROVE  AdminInv'
<1>1. ASSUME NEW r \in Requests, Fail(r)
      PROVE  AdminInv'
  BY <1>1, RollbackAdmin DEF Fail, Rollback
<1>2. ASSUME NEW r \in Requests,
             ReadMode(r) \/ CreateChallenge(r) \/ EndSessions(r) \/ OpenSession(r)
      PROVE  AdminInv'
  <2>1. row' = row /\ lock' = lock
    BY <1>2 DEF ReadMode, CreateChallenge, EndSessions, OpenSession
  <2>2. \A q \in Requests : request'[q] = request[q] \/ request'[q].at \notin Inside
    BY <1>2 DEF ReadMode, CreateChallenge, EndSessions, OpenSession, Goes, Idle, Inside, TypeOK
  <2> QED
    BY <2>1, <2>2, QuietAdmin DEF IsActiveAdmin
<1>3. ASSUME NEW r \in Requests, ConsumeChallenge(r)
      PROVE  AdminInv'
  <2>1. row' = row /\ lock' = lock
    BY <1>3 DEF ConsumeChallenge
  <2>2. \A q \in Requests : request'[q] = request[q] \/ request'[q].at \notin Inside
    BY <1>3 DEF ConsumeChallenge, Goes, TypeOK, Challenge, Inside
  <2> QED
    BY <2>1, <2>2, QuietAdmin DEF IsActiveAdmin
<1>4. ASSUME NEW r \in Requests, Claim(r) \/ UpdatePassword(r)
      PROVE  AdminInv'
  <2> DEFINE u == request[r].user
  <2>1. PICK password \in {"own", "none"} :
          row' = [row EXCEPT ![u] = [row[u] EXCEPT !.password = password, !.mustChange = FALSE]]
    <3>1. CASE Claim(r)
      BY <3>1 DEF Claim, Update
    <3>2. CASE UpdatePassword(r)
      BY <3>2 DEF UpdatePassword, Update
    <3> QED
      BY <1>4, <3>1, <3>2
  <2>2. lock' = lock
    <3>1. Claim(r) => lock' = lock
      BY DEF Claim
    <3>2. UpdatePassword(r) => lock' = lock
      BY DEF UpdatePassword
    <3> QED
      BY <1>4, <3>1, <3>2
  <2>3. ASSUME NEW v \in Users
        PROVE  row'[v].status = row[v].status /\ row'[v].role = row[v].role
    <3>1. row[v] \in Row /\ row \in [Users -> Row]
      BY DEF TypeOK
    <3>2. PICK old, new : old = row[v] /\ new = row'[v]
      OBVIOUS
    <3>3. new = old \/ new = [old EXCEPT !.password = password, !.mustChange = FALSE]
      BY <2>1, <3>1, <3>2
    <3>4. old \in Row
      BY <3>1, <3>2
    <3>5. new.status = old.status /\ new.role = old.role
      <4> HIDE DEF u
      <4> QED
        BY <3>3, <3>4 DEF Row
    <3> QED
      BY <3>2, <3>5
  <2>4. \A q \in Requests : request'[q] = request[q] \/ request'[q].at \notin Inside
    <3>1. CASE Claim(r)
      BY <3>1 DEF Claim, Goes, TypeOK, Inside
    <3>2. CASE UpdatePassword(r)
      BY <3>2, PasswordSet DEF Inside
    <3> QED
      BY <1>4, <3>1, <3>2
  <2> QED
    BY <2>2, <2>3, <2>4, QuietAdmin DEF IsActiveAdmin
<1>5. ASSUME NEW r \in Requests, LockTarget(r)
      PROVE  AdminInv'
  BY <1>5, LockTargetAdmin
<1>6. ASSUME NEW r \in Requests, AssertAdminInvariant(r)
      PROVE  AdminInv'
  BY <1>6, AssertAdmin
<1>7. ASSUME NEW r \in Requests, RevokeSessions(r)
      PROVE  AdminInv'
  BY <1>7, RevokeSessionsAdmin
<1>8. ASSUME NEW r \in Requests, Commit(r)
      PROVE  AdminInv'
  BY <1>8, CommitAdmin
<1>9. ASSUME NEW r \in Requests, NEW u \in Users, Register(r, u)
      PROVE  AdminInv'
  <2>1. lock' = lock /\ row' = [row EXCEPT ![u] = Account("user")] /\ row[u] = Absent
    BY <1>9 DEF Register, Update
  <2>2. \A v \in Users : IsActiveAdmin(v)' <=> IsActiveAdmin(v)
    BY <2>1, NewAccount DEF TypeOK, IsActiveAdmin
  <2>3. \A q \in Requests : request'[q] = request[q] \/ request'[q].at \notin Inside
    BY <1>9 DEF Register, Goes, TypeOK, Idle, Inside
  <2> QED
    BY <2>1, <2>2, <2>3, QuietAdmin
<1>10. ASSUME NEW r \in Requests, NEW u \in Users, Login(r, u) \/ BeginPasswordChange(r, u)
      PROVE  AdminInv'
  <2>1. row' = row /\ lock' = lock
    BY <1>10 DEF Login, BeginPasswordChange
  <2>2. \A q \in Requests : request'[q] = request[q] \/ request'[q].at \notin Inside
    BY <1>10 DEF Login, BeginPasswordChange, Goes, TypeOK, Inside
  <2> QED
    BY <2>1, <2>2, QuietAdmin DEF IsActiveAdmin
<1>11. ASSUME NEW u \in Users, CreateTemporaryUser(u)
      PROVE  AdminInv'
  <2>1. /\ lock' = lock /\ request' = request /\ row[u] = Absent
        /\ row' = [row EXCEPT ![u] = Temporary(Account("user"))]
    BY <1>11 DEF CreateTemporaryUser, Update
  <2>2. Temporary(Account("user")).role = "user"
    BY NewAccount, WithTemporary
  <2>3. \A v \in Users : IsActiveAdmin(v)' <=> IsActiveAdmin(v)
    BY <2>1, <2>2, NewAccount DEF TypeOK, IsActiveAdmin
  <2> QED
    BY <2>1, <2>3, QuietAdmin
<1>12. ASSUME NEW r \in Requests, NEW k \in Confirmations, NEW what, what.at = "begin", Consume(r, k, what)
      PROVE  AdminInv'
  <2>1. row' = row /\ lock' = lock
    BY <1>12 DEF Consume
  <2>2. \A q \in Requests : request'[q] = request[q] \/ request'[q].at \notin Inside
    BY <1>12 DEF Consume, Goes, TypeOK, Inside
  <2> QED
    BY <2>1, <2>2, QuietAdmin DEF IsActiveAdmin
<1>13. ASSUME NEW r \in Requests, NEW k \in Confirmations, NEW u \in Users,
              UpdateUser(r, k, u) \/ ResetPassword(r, k, u) \/ DeleteUser(r, k, u)
       PROVE  AdminInv'
  <2>1. PICK change : Consume(r, k, [at |-> "begin", change |-> change, user |-> u])
    BY <1>13 DEF UpdateUser, ResetPassword, DeleteUser
  <2> QED
    BY <1>12, <2>1
<1>14. ASSUME row' = row, lock' = lock, request' = request
       PROVE  AdminInv'
  BY <1>14, QuietAdmin DEF IsActiveAdmin
<1>15. ASSUME \/ \E u \in Users : Logout(u)
              \/ \E k \in Confirmations, what \in Confirmable : Issue(k, what)
              \/ \E k \in Confirmations, new \in {"open", "closed"} : SetRegistrationMode(k, new)
              \/ ChallengeExpires
              \/ UNCHANGED vars
       PROVE  AdminInv'
  BY <1>14, <1>15 DEF Logout, Issue, SetRegistrationMode, ChallengeExpires, vars
<1> QED
  BY <1>1, <1>2, <1>3, <1>4, <1>5, <1>6, <1>7, <1>8, <1>9, <1>10, <1>11, <1>13, <1>15 DEF Next

-----------------------------------------------------------------------------
(* A confirmation runs one change                                          *)

\* Only issuing and taking touch a confirmation: it is taken while in Redis.
LEMMA ConfirmStep ==
    ASSUME TypeOK, ConfirmInv, [Next]_vars
    PROVE  ConfirmInv'
<1>1. ASSUME NEW k \in Confirmations, NEW what \in Confirmable, Issue(k, what)
      PROVE  ConfirmInv'
  <2>1. what # Idle
    BY DEF Confirmable, Idle
  <2>2. /\ issuedFor[k] = Idle /\ ran' = ran /\ confirm' = confirm \cup {k}
        /\ issuedFor'[k] = what
        /\ \A j \in Confirmations \ {k} : issuedFor'[j] = issuedFor[j]
    BY <1>1 DEF Issue, TypeOK
  <2> QED
    BY <2>1, <2>2 DEF ConfirmInv
<1>2. ASSUME NEW k \in Confirmations, k \in confirm, confirm' = confirm \ {k},
             issuedFor' = issuedFor,
             ran' = ran \/ ran' = [ran EXCEPT ![k] = ran[k] + 1]
      PROVE  ConfirmInv'
  <2>1. \A j \in Confirmations \ {k} : ran'[j] = ran[j]
    BY <1>2 DEF TypeOK
  <2>2. ran[k] = 0 /\ ran'[k] \in {0, 1}
    BY <1>2 DEF TypeOK, ConfirmInv
  <2> QED
    BY <1>2, <2>1, <2>2 DEF ConfirmInv
<1>3. ASSUME NEW k \in Confirmations, NEW new \in {"open", "closed"}, SetRegistrationMode(k, new)
      PROVE  ConfirmInv'
  BY <1>2, <1>3 DEF SetRegistrationMode
<1>4. ASSUME NEW r \in Requests, NEW k \in Confirmations, NEW what, Consume(r, k, what)
      PROVE  ConfirmInv'
  BY <1>2, <1>4 DEF Consume, Take
<1>5. ASSUME NEW r \in Requests, NEW k \in Confirmations, NEW u \in Users,
             UpdateUser(r, k, u) \/ ResetPassword(r, k, u) \/ DeleteUser(r, k, u)
      PROVE  ConfirmInv'
  BY <1>4, <1>5 DEF UpdateUser, ResetPassword, DeleteUser
<1>6. ASSUME UNCHANGED <<confirm, issuedFor, ran>>
      PROVE  ConfirmInv'
  BY <1>6 DEF ConfirmInv
<1>7. ASSUME NEW r \in Requests,
             \/ Fail(r) \/ ReadMode(r) \/ Claim(r) \/ CreateChallenge(r) \/ ConsumeChallenge(r)
             \/ UpdatePassword(r) \/ EndSessions(r) \/ OpenSession(r)
             \/ LockTarget(r) \/ AssertAdminInvariant(r) \/ RevokeSessions(r) \/ Commit(r)
      PROVE  ConfirmInv'
  <2>1. Fail(r) \/ ReadMode(r) \/ Claim(r) \/ CreateChallenge(r) \/ ConsumeChallenge(r)
           => UNCHANGED <<confirm, issuedFor, ran>>
    BY DEF history, Fail, ReadMode, Claim, CreateChallenge, ConsumeChallenge
  <2>2. UpdatePassword(r) \/ EndSessions(r) \/ OpenSession(r)
           => UNCHANGED <<confirm, issuedFor, ran>>
    BY DEF history, UpdatePassword, EndSessions, OpenSession
  <2>3. LockTarget(r) \/ AssertAdminInvariant(r) \/ RevokeSessions(r) \/ Commit(r)
           => UNCHANGED <<confirm, issuedFor, ran>>
    BY DEF history, LockTarget, AssertAdminInvariant, RevokeSessions, Commit
  <2> QED
    BY <1>6, <1>7, <2>1, <2>2, <2>3
<1>8. ASSUME \/ \E r \in Requests, u \in Users :
                   Register(r, u) \/ Login(r, u) \/ BeginPasswordChange(r, u)
             \/ \E u \in Users : CreateTemporaryUser(u) \/ Logout(u)
             \/ ChallengeExpires
             \/ UNCHANGED vars
      PROVE  ConfirmInv'
  <2>1. ASSUME NEW r \in Requests, NEW u \in Users,
               Register(r, u) \/ Login(r, u) \/ BeginPasswordChange(r, u)
        PROVE  UNCHANGED <<confirm, issuedFor, ran>>
    BY <2>1 DEF history, Register, Login, BeginPasswordChange
  <2>2. ASSUME NEW u \in Users, CreateTemporaryUser(u) \/ Logout(u)
        PROVE  UNCHANGED <<confirm, issuedFor, ran>>
    BY <2>2 DEF history, CreateTemporaryUser, Logout
  <2>3. ChallengeExpires \/ UNCHANGED vars => UNCHANGED <<confirm, issuedFor, ran>>
    BY DEF history, vars, ChallengeExpires
  <2> QED
    BY <1>6, <1>8, <2>1, <2>2, <2>3
<1> QED
  BY <1>1, <1>3, <1>5, <1>7, <1>8 DEF Next

-----------------------------------------------------------------------------
(* Signing in with a temporary password sets one password                  *)

\* What may happen to a row while no right to set its password is given: its
\* epoch never goes back, and only a new epoch asks for a change again.
Forward ==
    \A u \in Users :
        \/ row'[u].epoch > row[u].epoch
        \/ row'[u].epoch = row[u].epoch /\ (row'[u].mustChange => row[u].mustChange)

\* What is still to come was already to come, and was neither held nor used.
LEMMA Future ==
    ASSUME TypeOK, TypeOK', TemporaryInv, Forward, NEW u \in Users, NEW e \in Nat,
           e > row'[u].epoch \/ (e = row'[u].epoch /\ row'[u].mustChange)
    PROVE  Unheld(u, e) /\ ~Renewed(u, e)
<1>1. row[u].epoch \in Nat /\ row'[u].epoch \in Nat
  BY DEF TypeOK, Row
<1>2. e > row[u].epoch \/ (e = row[u].epoch /\ row[u].mustChange)
  BY <1>1 DEF Forward
<1> QED
  BY <1>2 DEF TemporaryInv, FutureOK

\* A step that gives nobody the right to set a password.
LEMMA QuietTemporary ==
    ASSUME TypeOK, TypeOK', TemporaryInv, Forward, renewed' = renewed,
           challenges' \subseteq challenges,
           \A r \in Requests :
               request'[r] = request[r] \/ request'[r].at \notin {"challenge", "renew"}
    PROVE  TemporaryInv'
<1>1. \A r \in Requests : \A u, e : Holds(request[r], u, e)' => Holds(request[r], u, e)
  BY DEF Holds
<1>2. \A u, e : Renewed(u, e)' <=> Renewed(u, e)
  BY DEF Renewed
<1>3. \A u, e : Unheld(u, e) => Unheld(u, e)'
  BY <1>1 DEF Unheld, Holds
<1>4. FutureOK'
  BY <1>2, <1>3, Future DEF FutureOK
<1>5. HoldersOK'
  BY <1>1, <1>2, <1>3 DEF TemporaryInv, HoldersOK, Holds
<1>6. RenewedOnce'
  BY DEF TemporaryInv, RenewedOnce
<1> QED
  BY <1>4, <1>5, <1>6 DEF TemporaryInv

\* The right is given to the first who claims the temporary password.
LEMMA ClaimTemporary ==
    ASSUME TypeOK, TypeOK', TemporaryInv, NEW r \in Requests, Claim(r)
    PROVE  TemporaryInv'
<1> DEFINE u == request[r].user
           e == row[u].epoch
           mine == [at |-> "challenge", user |-> u, role |-> request[r].role, epoch |-> e]
           new == [row[u] EXCEPT !.password = "none", !.mustChange = FALSE]
<1>1. u \in Users /\ row[u] \in Row /\ e \in Nat /\ row[u].mustChange
  BY Person DEF Claim, Is
<1>2. new.epoch = e /\ new.mustChange = FALSE
  BY <1>1, WithPassword
<1>3. row' = [row EXCEPT ![u] = new]
  BY DEF Claim, Update
<1>4. /\ \A v \in Users \ {u} : row'[v] = row[v]
      /\ row'[u].epoch = e /\ row'[u].mustChange = FALSE
  <2> HIDE DEF new
  <2> QED
    BY <1>1, <1>2, <1>3 DEF TypeOK
<1>5. Forward
  BY <1>4 DEF Forward
<1>6. /\ request'[r] = mine /\ \A q \in Requests \ {r} : request'[q] = request[q]
      /\ challenges' = challenges /\ renewed' = renewed
  BY DEF Claim, Goes, TypeOK, history
<1>7. Unheld(u, e) /\ ~Renewed(u, e)
  BY <1>1 DEF TemporaryInv, FutureOK
<1>8. \A v, f : Holds(mine, v, f) <=> v = u /\ f = e
  BY DEF Holds
<1>9. \A v, f : Renewed(v, f)' <=> Renewed(v, f)
  BY <1>6 DEF Renewed
<1>10. ASSUME NEW v, NEW f, Unheld(v, f), ~(v = u /\ f = e)
       PROVE  Unheld(v, f)'
  <2> HIDE DEF mine, u, e
  <2> QED
    BY <1>6, <1>8, <1>10 DEF Unheld, Holds
<1>11. FutureOK'
  <2> SUFFICES ASSUME NEW v \in Users, NEW f \in Nat,
                      f > row'[v].epoch \/ (f = row'[v].epoch /\ row'[v].mustChange)
               PROVE  Unheld(v, f)' /\ ~Renewed(v, f)'
    BY DEF FutureOK
  <2>1. Unheld(v, f) /\ ~Renewed(v, f)
    BY <1>5, Future
  <2>2. ~(v = u /\ f = e)
    BY <1>1, <1>4
  <2> QED
    BY <1>9, <1>10, <2>1, <2>2
<1>12. HoldersOK'
  <2>1. \A q \in Requests, v \in Users, f \in Nat :
            Holds(request[q], v, f)' => (q = r /\ v = u /\ f = e) \/ (q # r /\ Holds(request[q], v, f))
    <3> HIDE DEF mine, u, e
    <3> QED
      BY <1>6, <1>8 DEF Holds
  <2>2. /\ \A q \in Requests : ~Holds(request[q], u, e)
        /\ \A c \in challenges : ~Holds(c, u, e)
    BY <1>7 DEF Unheld
  <2> HIDE DEF mine, u, e
  <2>3. \A q, s \in Requests, v \in Users, f \in Nat :
            Holds(request[q], v, f)' /\ Holds(request[s], v, f)' => q = s
    BY <2>1, <2>2 DEF TemporaryInv, HoldersOK
  <2>4. \A q \in Requests, c \in challenges', v \in Users, f \in Nat :
            ~(Holds(request[q], v, f)' /\ Holds(c, v, f))
    BY <1>6, <2>1, <2>2 DEF TemporaryInv, HoldersOK
  <2>5. \A v \in Users, f \in Nat : Renewed(v, f)' => Unheld(v, f)'
    BY <1>7, <1>9, <1>10 DEF TemporaryInv, HoldersOK
  <2> QED
    BY <1>6, <2>3, <2>4, <2>5 DEF TemporaryInv, HoldersOK, Holds
<1>13. RenewedOnce'
  BY <1>6 DEF TemporaryInv, RenewedOnce
<1> QED
  BY <1>11, <1>12, <1>13 DEF TemporaryInv

\* The right moves between a request and the challenges.
LEMMA MoveTemporary ==
    ASSUME TypeOK, TypeOK', TemporaryInv, row' = row, renewed' = renewed,
           NEW r \in Requests, NEW c,
           \A q \in Requests \ {r} : request'[q] = request[q],
           \/ /\ challenges' = challenges \cup {c} /\ request'[r] = Idle
              /\ \A u, e : Holds(c, u, e) <=> Holds(request[r], u, e)
           \/ /\ c \in challenges /\ challenges' = challenges \ {c} /\ request'[r] = c
              /\ request[r] = Idle
    PROVE  TemporaryInv'
<1>1. \A u, e : ~Holds(Idle, u, e)
  BY DEF Holds, Idle
<1>2. Forward
  BY DEF Forward
<1>3. \A u, e : Renewed(u, e)' <=> Renewed(u, e)
  BY DEF Renewed
<1>4. \A q \in Requests : \A u, e : Holds(request[q], u, e)' <=> Holds(request'[q], u, e)
  BY DEF Holds
<1>5. \A u, e : Unheld(u, e) => Unheld(u, e)'
  BY <1>1, <1>4 DEF Unheld, Holds
<1>6. FutureOK'
  BY <1>2, <1>3, <1>5, Future DEF FutureOK
<1>7. \A q, s \in Requests, u \in Users, e \in Nat :
          Holds(request'[q], u, e) /\ Holds(request'[s], u, e) => q = s
  BY <1>1 DEF TemporaryInv, HoldersOK
<1>8. \A b, d \in challenges', u \in Users, e \in Nat :
          Holds(b, u, e) /\ Holds(d, u, e) => b = d
  BY <1>1 DEF TemporaryInv, HoldersOK
<1>9. \A q \in Requests, d \in challenges', u \in Users, e \in Nat :
          ~(Holds(request'[q], u, e) /\ Holds(d, u, e))
  BY <1>1 DEF TemporaryInv, HoldersOK
<1>10. \A u \in Users, e \in Nat : Renewed(u, e)' => Unheld(u, e)'
  BY <1>3, <1>5 DEF TemporaryInv, HoldersOK
<1>11. HoldersOK'
  BY <1>4, <1>7, <1>8, <1>9, <1>10 DEF HoldersOK, Holds
<1>12. RenewedOnce'
  BY DEF TemporaryInv, RenewedOnce
<1> QED
  BY <1>6, <1>11, <1>12 DEF TemporaryInv

\* The right is used: nobody else held it, and it was not used before.
LEMMA RenewTemporary ==
    ASSUME TypeOK, TypeOK', TemporaryInv, NEW r \in Requests, Is(r, "renew"), UpdatePassword(r)
    PROVE  TemporaryInv'
<1>1. PICK u \in Users, e \in Nat :
          u = request[r].user /\ e = request[r].epoch /\ row[u] \in Row /\ Holds(request[r], u, e)
  <2>1. request[r].epoch \in Nat
    BY Shapes DEF Is
  <2> QED
    BY <2>1, Person DEF Is, Holds
<1> DEFINE p == <<u, e>>
           new == [row[u] EXCEPT !.password = "own", !.mustChange = FALSE]
<1>2. new.epoch = row[u].epoch /\ new.mustChange = FALSE
  BY <1>1, WithPassword
<1>3. row' = [row EXCEPT ![u] = new]
  BY <1>1 DEF UpdatePassword, Update
<1>4. Forward
  <2> HIDE DEF new
  <2> QED
    BY <1>1, <1>2, <1>3 DEF TypeOK, Forward
<1>5. /\ request'[r].at = "end" /\ \A q \in Requests \ {r} : request'[q] = request[q]
      /\ challenges' = challenges /\ renewed' = [renewed EXCEPT ![p] = renewed[p] + 1]
  BY <1>1, PasswordSet DEF UpdatePassword, Is
<1>6. ~Renewed(u, e)
  BY <1>1 DEF TemporaryInv, HoldersOK, Unheld
<1>7. /\ DOMAIN renewed' = DOMAIN renewed
      /\ \A x \in DOMAIN renewed : x # p => renewed'[x] = renewed[x]
      /\ p \in DOMAIN renewed => renewed'[p] = 1
  <2>1. p \in DOMAIN renewed => renewed[p] = 0
    BY <1>6 DEF Renewed
  <2> HIDE DEF p
  <2> QED
    BY <1>5, <2>1 DEF TypeOK
<1>8. \A v, f : Renewed(v, f)' => Renewed(v, f) \/ (v = u /\ f = e)
  BY <1>7 DEF Renewed
<1>9. \A q \in Requests : \A v, f : Holds(request[q], v, f)' => q # r /\ Holds(request[q], v, f)
  BY <1>5 DEF Holds
<1>10. \A v, f : Unheld(v, f) => Unheld(v, f)'
  BY <1>5, <1>9 DEF Unheld, Holds
<1>11. Unheld(u, e)'
  <2>1. \A q \in Requests \ {r} : ~Holds(request[q], u, e)
    BY <1>1 DEF TemporaryInv, HoldersOK
  <2>2. \A q \in Requests : ~Holds(request[q], u, e)'
    BY <1>9, <2>1
  <2>3. \A c \in challenges : ~Holds(c, u, e)
    BY <1>1 DEF TemporaryInv, HoldersOK
  <2>4. \A c \in challenges' : ~Holds(c, u, e)
    BY <1>5, <2>3
  <2> QED
    BY <2>2, <2>4 DEF Unheld, Holds
<1>12. FutureOK'
  <2> SUFFICES ASSUME NEW v \in Users, NEW f \in Nat,
                      f > row'[v].epoch \/ (f = row'[v].epoch /\ row'[v].mustChange)
               PROVE  Unheld(v, f)' /\ ~Renewed(v, f)'
    BY DEF FutureOK
  <2>1. Unheld(v, f) /\ ~Renewed(v, f)
    BY <1>4, Future
  <2>2. ~(v = u /\ f = e)
    BY <1>1, <2>1 DEF Unheld
  <2> QED
    BY <1>8, <1>10, <2>1, <2>2
<1>13. HoldersOK'
  <2>1. ASSUME NEW v \in Users, NEW f \in Nat, Renewed(v, f)'
        PROVE  Unheld(v, f)'
    <3>1. CASE v = u /\ f = e
      BY <1>11, <3>1
    <3>2. CASE ~(v = u /\ f = e)
      <4>1. Renewed(v, f)
        BY <1>8, <2>1, <3>2
      <4>2. Unheld(v, f)
        BY <4>1 DEF TemporaryInv, HoldersOK
      <4> QED
        BY <1>10, <4>2
    <3> QED
      BY <3>1, <3>2
  <2> HIDE DEF p, new
  <2> QED
    BY <1>5, <1>9, <2>1 DEF TemporaryInv, HoldersOK, Holds
<1>14. RenewedOnce'
  <2> SUFFICES ASSUME NEW x \in DOMAIN renewed'
               PROVE  renewed'[x] <= 1
    BY DEF RenewedOnce
  <2> HIDE DEF p
  <2> QED
    BY <1>7 DEF TemporaryInv, RenewedOnce
<1> QED
  BY <1>12, <1>13, <1>14 DEF TemporaryInv

\* Every step keeps the rights apart, one step below per action.
LEMMA TemporaryStep ==
    ASSUME TypeOK, TypeOK', TemporaryInv, [Next]_vars
    PROVE  TemporaryInv'
<1>1. ASSUME row' = row, renewed' = renewed, challenges' \subseteq challenges,
             \A r \in Requests :
                 request'[r] = request[r] \/ request'[r].at \notin {"challenge", "renew"}
      PROVE  TemporaryInv'
  BY <1>1, QuietTemporary DEF Forward
<1>2. ASSUME NEW r \in Requests,
             \/ Fail(r) \/ ReadMode(r) \/ OpenSession(r)
             \/ \E u \in Users : Login(r, u) \/ BeginPasswordChange(r, u)
      PROVE  TemporaryInv'
  <2>1. row' = row /\ renewed' = renewed /\ challenges' = challenges
    BY <1>2 DEF Fail, ReadMode, OpenSession, Login, BeginPasswordChange, history
  <2>2. \A q \in Requests : request'[q] = request[q] \/ request'[q].at \notin {"challenge", "renew"}
    BY <1>2 DEF Fail, ReadMode, OpenSession, Login, BeginPasswordChange, Goes, Idle, TypeOK
  <2> QED
    BY <1>1, <2>1, <2>2
<1>3. ASSUME NEW r \in Requests, EndSessions(r)
      PROVE  TemporaryInv'
  <2>1. row' = row /\ renewed' = renewed /\ challenges' = challenges
    BY <1>3 DEF EndSessions, history
  <2>2. \A q \in Requests : request'[q] = request[q] \/ request'[q].at \notin {"challenge", "renew"}
    BY <1>3 DEF EndSessions, Goes, TypeOK
  <2> QED
    BY <1>1, <2>1, <2>2
<1>4. ASSUME NEW r \in Requests, LockTarget(r) \/ AssertAdminInvariant(r) \/ RevokeSessions(r)
      PROVE  TemporaryInv'
  <2>1. row' = row /\ renewed' = renewed /\ challenges' = challenges
    BY <1>4 DEF LockTarget, AssertAdminInvariant, RevokeSessions, history
  <2>2. PICK at \in {"locked", "allowed", "revoked"} :
          Goes(r, Idle) \/ Goes(r, [request[r] EXCEPT !.at = at])
    BY <1>4 DEF LockTarget, AssertAdminInvariant, RevokeSessions, Rollback
  <2> DEFINE next == [request[r] EXCEPT !.at = at]
  <2>3. next.at = at
    <3>1. request[r].at \in Changing
      BY <1>4 DEF LockTarget, AssertAdminInvariant, RevokeSessions, Is, Changing
    <3> QED
      BY <3>1, Shapes
  <2>4. Goes(r, Idle) \/ Goes(r, next)
    BY <2>2
  <2>5. \A q \in Requests : request'[q] = request[q] \/ request'[q].at \notin {"challenge", "renew"}
    <3> HIDE DEF next
    <3> QED
      BY <2>3, <2>4 DEF Goes, Idle, TypeOK
  <2> QED
    BY <1>1, <2>1, <2>5
<1>5. ASSUME NEW r \in Requests, Commit(r)
      PROVE  TemporaryInv'
  <2> DEFINE new == After(request[r].change, row[request[r].user])
  <2>1. request[r].user \in Users /\ request[r].change \in Changes
    BY <1>5, Shapes DEF Commit, Is, Changing
  <2>2. \/ new.epoch > row[request[r].user].epoch
        \/ new.epoch = row[request[r].user].epoch /\ (new.mustChange => row[request[r].user].mustChange)
    BY <2>1, Changed DEF TypeOK
  <2>3. row' = [row EXCEPT ![request[r].user] = new]
    BY <1>5 DEF Commit
  <2>4. Forward
    <3> HIDE DEF new
    <3> QED
      BY <2>1, <2>2, <2>3 DEF Forward, TypeOK
  <2>5. \A q \in Requests : request'[q] = request[q] \/ request'[q].at \notin {"challenge", "renew"}
    BY <1>5 DEF Commit, Goes, Idle, TypeOK
  <2> QED
    BY <1>5, <2>4, <2>5, QuietTemporary DEF Commit, history
<1>6. ASSUME NEW r \in Requests, NEW u \in Users, Register(r, u)
      PROVE  TemporaryInv'
  <2>1. row' = [row EXCEPT ![u] = Account("user")] /\ row[u] = Absent
    BY <1>6 DEF Register, Update
  <2>2. Forward
    BY <2>1, NewAccount DEF Forward, TypeOK
  <2>3. \A q \in Requests : request'[q] = request[q] \/ request'[q].at \notin {"challenge", "renew"}
    BY <1>6 DEF Register, Goes, Idle, TypeOK
  <2> QED
    BY <1>6, <2>2, <2>3, QuietTemporary DEF Register, history
<1>7. ASSUME NEW u \in Users, CreateTemporaryUser(u)
      PROVE  TemporaryInv'
  <2>1. row' = [row EXCEPT ![u] = Temporary(Account("user"))] /\ row[u] = Absent
    BY <1>7 DEF CreateTemporaryUser, Update
  <2>2. Temporary(Account("user")).epoch = 1
    BY NewAccount, WithTemporary
  <2>3. Forward
    BY <2>1, <2>2, NewAccount DEF Forward, TypeOK
  <2> QED
    BY <1>7, <2>3, QuietTemporary DEF CreateTemporaryUser, history
<1>8. ASSUME NEW r \in Requests, Claim(r)
      PROVE  TemporaryInv'
  BY <1>8, ClaimTemporary
<1>9. ASSUME NEW r \in Requests, CreateChallenge(r)
      PROVE  TemporaryInv'
  <2> DEFINE c == [request[r] EXCEPT !.at = "renew"]
  <2>1. /\ challenges' = challenges \cup {c}
        /\ request'[r] = Idle /\ \A q \in Requests \ {r} : request'[q] = request[q]
    BY <1>9 DEF CreateChallenge, Goes, TypeOK
  <2>2. request[r].at = "challenge" /\ request[r] \in States
    BY <1>9 DEF CreateChallenge, Is, TypeOK
  <2>3. c.at = "renew" /\ c.user = request[r].user /\ c.epoch = request[r].epoch
    BY <2>2 DEF States, Changing, Idle
  <2>4. \A u, e : Holds(c, u, e) <=> Holds(request[r], u, e)
    BY <2>2, <2>3 DEF Holds
  <2> HIDE DEF c
  <2> QED
    BY <1>9, <2>1, <2>4, MoveTemporary DEF CreateChallenge, history
<1>10. ASSUME NEW r \in Requests, ConsumeChallenge(r)
       PROVE  TemporaryInv'
  <2>1. PICK c \in challenges : challenges' = challenges \ {c} /\ Goes(r, c)
    BY <1>10 DEF ConsumeChallenge
  <2>2. request[r] = Idle
    BY <1>10 DEF ConsumeChallenge, Is, TypeOK, States, Changing, Idle
  <2>3. request'[r] = c /\ \A q \in Requests \ {r} : request'[q] = request[q]
    BY <2>1 DEF Goes, TypeOK
  <2> QED
    BY <1>10, <2>1, <2>2, <2>3, MoveTemporary DEF ConsumeChallenge, history
<1>11. ASSUME NEW r \in Requests, UpdatePassword(r)
       PROVE  TemporaryInv'
  <2>1. CASE Is(r, "renew")
    BY <1>11, <2>1, RenewTemporary
  <2>2. CASE ~Is(r, "renew")
    <3> DEFINE u == request[r].user
               new == [row[u] EXCEPT !.password = "own", !.mustChange = FALSE]
    <3>1. u \in Users /\ row[u] \in Row
      BY <1>11, Person DEF UpdatePassword
    <3>2. new.epoch = row[u].epoch /\ new.mustChange = FALSE
      BY <3>1, WithPassword
    <3>3. row' = [row EXCEPT ![u] = new]
      BY <1>11 DEF UpdatePassword, Update
    <3>4. Forward
      <4> HIDE DEF new, u
      <4> QED
        BY <3>1, <3>2, <3>3 DEF Forward, TypeOK
    <3>5. \A q \in Requests : request'[q] = request[q] \/ request'[q].at \notin {"challenge", "renew"}
      BY <1>11, PasswordSet
    <3>6. renewed' = renewed /\ challenges' = challenges
      BY <1>11, <2>2 DEF UpdatePassword
    <3> QED
      BY <3>4, <3>5, <3>6, QuietTemporary
  <2> QED
    BY <2>1, <2>2
<1>12. ASSUME NEW r \in Requests, NEW k \in Confirmations, NEW u \in Users,
              UpdateUser(r, k, u) \/ ResetPassword(r, k, u) \/ DeleteUser(r, k, u)
       PROVE  TemporaryInv'
  <2>1. PICK change : Consume(r, k, [at |-> "begin", change |-> change, user |-> u])
    BY <1>12 DEF UpdateUser, ResetPassword, DeleteUser
  <2>2. \A q \in Requests : request'[q] = request[q] \/ request'[q].at \notin {"challenge", "renew"}
    BY <2>1 DEF Consume, Goes, TypeOK
  <2> QED
    BY <1>1, <2>1, <2>2 DEF Consume
<1>13. ASSUME \/ \E u \in Users : Logout(u)
              \/ \E k \in Confirmations, what \in Confirmable : Issue(k, what)
              \/ \E k \in Confirmations, new \in {"open", "closed"} : SetRegistrationMode(k, new)
              \/ ChallengeExpires
              \/ UNCHANGED vars
       PROVE  TemporaryInv'
  BY <1>1, <1>13 DEF Logout, Issue, SetRegistrationMode, ChallengeExpires, vars, history
<1> QED
  BY <1>2, <1>3, <1>4, <1>5, <1>6, <1>7, <1>8, <1>9, <1>10, <1>11, <1>12, <1>13 DEF Next

-----------------------------------------------------------------------------
(* Theorems                                                                *)

\* Every variable keeps its type, for every set of users, requests,
\* confirmations and changes.
THEOREM TypeCorrect == Spec => []TypeOK
<1>1. Init => TypeOK
  BY NewAccount DEF Init, TypeOK, States
<1> QED
  BY <1>1, TypeStep, PTL DEF Spec

\* Whatever administrators demote, disable and delete each other at the same
\* time, and whatever of it fails, an active administrator remains: the locks of
\* #assertAdminInvariant in auth-repository.
THEOREM AdminRemains == Spec => []AnAdminRemains
<1>1. Init => AdminInv
  BY DEF Init, AdminInv, LockOK, GuardOK, AnAdminRemains, Idle
<1>2. TypeOK /\ AdminInv /\ [Next]_vars => AdminInv'
  BY AdminStep
<1>3. AdminInv => AnAdminRemains
  BY DEF AdminInv
<1> QED
  BY <1>1, <1>2, <1>3, TypeCorrect, PTL DEF Spec

\* A confirmation is taken once: one change runs with it.
THEOREM OneConfirmation == Spec => []ConfirmedOnce
<1>1. Init => ConfirmInv
  BY DEF Init, ConfirmInv
<1>2. TypeOK /\ ConfirmInv /\ [Next]_vars => ConfirmInv'
  BY ConfirmStep
<1>3. ConfirmInv => ConfirmedOnce
  BY DEF ConfirmInv, ConfirmedOnce
<1> QED
  BY <1>1, <1>2, <1>3, TypeCorrect, PTL DEF Spec

\* Signing in with a temporary password sets one password, however many sign-ins
\* saw it and whatever is reset, deleted or lost meanwhile: sessions set passwords
\* beside it (POST /auth/password) and do not disturb that.
THEOREM RenewalOnce == Spec => []RenewedOnce
<1>1. Init => TemporaryInv
  <2> SUFFICES ASSUME Init
               PROVE  TemporaryInv
    OBVIOUS
  <2>1. \A u, e : Unheld(u, e) /\ ~Renewed(u, e)
    BY DEF Init, Unheld, Renewed, Holds, Idle
  <2>2. FutureOK
    BY <2>1 DEF FutureOK
  <2>3. HoldersOK
    BY <2>1 DEF HoldersOK, Unheld
  <2>4. RenewedOnce
    BY DEF Init, RenewedOnce
  <2> QED
    BY <2>2, <2>3, <2>4 DEF TemporaryInv
<1>2. TypeOK /\ TypeOK' /\ TemporaryInv /\ [Next]_vars => TemporaryInv'
  BY TemporaryStep
<1>3. TemporaryInv => RenewedOnce
  BY DEF TemporaryInv
<1> QED
  BY <1>1, <1>2, <1>3, TypeCorrect, PTL DEF Spec

-----------------------------------------------------------------------------
(* First-time setup                                                        *)

StepNames == {"unconfigured", "config_staged", "migrating", "schema_ready", "admin_created", "installed"}
SetupStates == [step : StepNames, fence : Nat]
Keyed == {"acquire", "lock", "act", "read", "write", "insert", "finish"}
SetupPlaces == Keyed \cup {"journal", "migrate", "failed", "settle"}
ActiveSetup == [at : SetupPlaces, alone : BOOLEAN, key : Keys \cup {None}, db : Databases,
                state : SetupStates, wrote : 0..Writes]

SetupTypeOK ==
    /\ file \in SetupStates
    /\ staged \in Databases \cup {None}
    /\ schema \in [Databases -> 0..Writes]
    /\ admin \in [Databases -> Keys \cup {None}]
    /\ made \in [Databases -> Nat]
    /\ request \in [Requests -> {Idle} \cup ActiveSetup]
    /\ \A r \in Requests : request[r].at \in Keyed => request[r].key \in Keys

\* What a state of the installation presumes: its configuration, its schema,
\* its administrator.
Presumed(step) ==
    /\ step # "unconfigured" => staged # None
    /\ step \in {"schema_ready", "admin_created", "installed"} => \E d \in Databases : Migrated(d)
    /\ step \in {"admin_created", "installed"} => \E d \in Databases : admin[d] # None

\* What the record of a request that goes on satisfies: its state presumes no
\* more than was done, nor does the next one once its action is done.
SetupSound(x) ==
    /\ Presumed(x.state.step)
    /\ x.at \in {"read", "write"} => Presumed(NextStep(x.state.step))
    /\ x.at \in {"act", "read", "write"} => x.state.step # "installed"
    /\ x.at = "insert" => x.state.step = "schema_ready" /\ schema[x.db] >= Usable
    /\ x.at = "settle" => x.state.step = "admin_created"
    /\ x.at = "journal" => x.key = None
    /\ x.at = "migrate" => schema[x.db] >= x.wrote /\ (x.key # None => x.state.step = "migrating")

ProgressOK ==
    /\ Presumed(file.step)
    /\ \A r \in Requests : request[r] # Idle => SetupSound(request[r])

\* The setting of the administrator, the administrators inserted, and the
\* tables they are in.
InsertedOK ==
    \A d \in Databases :
        /\ made[d] = IF admin[d] = None THEN 0 ELSE 1
        /\ admin[d] # None => schema[d] >= Usable

\* A request that has been alone knows the state file, finds the administrator
\* as it left it, and runs a statement twice only in a half-made schema.
SetupKnows(x) ==
    /\ x.at \in {"lock", "act", "read", "write", "insert"} => file = x.state
    /\ x.at = "migrate" =>
          /\ x.key # None => file = x.state
          /\ schema[x.db] = x.wrote \/ Halfway(x.db)
    /\ x.at = "insert" => admin[x.db] = None
    /\ x.at = "failed" => MetAnother(x) \/ Halfway(x.db)

AloneOK ==
    \A r \in Requests : request[r] # Idle /\ request[r].alone =>
        /\ \A q \in Requests \ {r} : request[q] = Idle
        /\ SetupKnows(request[r])

SetupInv == SetupTypeOK /\ ProgressOK /\ InsertedOK /\ AloneOK

\* The steps are in the order the coordinator takes them.
LEMMA SetupOrder ==
    /\ Rank("unconfigured") = 1 /\ Rank("config_staged") = 2 /\ Rank("migrating") = 3
    /\ Rank("schema_ready") = 4 /\ Rank("admin_created") = 5 /\ Rank("installed") = 6
    /\ NextStep("unconfigured") = "config_staged" /\ NextStep("config_staged") = "migrating"
    /\ NextStep("migrating") = "schema_ready" /\ NextStep("schema_ready") = "admin_created"
    /\ NextStep("admin_created") = "installed"
<1>1. DOMAIN Steps = 1..6
  BY DEF Steps
<1>2. /\ Steps[1] = "unconfigured" /\ Steps[2] = "config_staged" /\ Steps[3] = "migrating"
      /\ Steps[4] = "schema_ready" /\ Steps[5] = "admin_created" /\ Steps[6] = "installed"
  BY DEF Steps
<1>3. ASSUME NEW i \in DOMAIN Steps, NEW step, Steps[i] = step
      PROVE  Rank(step) = i
  <2>1. Rank(step) \in DOMAIN Steps /\ Steps[Rank(step)] = step
    BY <1>3, Zenon DEF Rank
  <2>2. \A j \in DOMAIN Steps : Steps[i] = Steps[j] => i = j
    BY <1>1, <1>2
  <2>. QED  BY <1>3, <2>1, <2>2
<1>4. /\ Rank("unconfigured") = 1 /\ Rank("config_staged") = 2 /\ Rank("migrating") = 3
      /\ Rank("schema_ready") = 4 /\ Rank("admin_created") = 5 /\ Rank("installed") = 6
  BY <1>1, <1>2, <1>3
<1>. QED  BY <1>2, <1>4 DEF NextStep

\* What was done stays done.
Onward ==
    /\ staged # None => staged' # None
    /\ schema' \in [Databases -> 0..Writes]
    /\ \A d \in Databases : schema[d] <= schema'[d]
    /\ \A d \in Databases : admin[d] # None => admin'[d] # None

\* What a state presumes, it goes on presuming.
LEMMA PresumedOn ==
    ASSUME SetupTypeOK, Onward, NEW step, Presumed(step)
    PROVE  Presumed(step)'
<1>1. ASSUME NEW d \in Databases, Migrated(d) PROVE Migrated(d)'
  <2>1. schema[d] = Writes /\ schema'[d] \in 0..Writes /\ schema[d] <= schema'[d]
    BY <1>1 DEF Migrated, Onward
  <2>. QED  BY <2>1, MigrationAssumption DEF Migrated
<1>. QED  BY <1>1 DEF Onward, Presumed

\* A request is idle or goes on with a state.
LEMMA SetupShapes ==
    ASSUME SetupTypeOK, NEW r \in Requests
    PROVE  /\ request[r] \in {Idle} \cup ActiveSetup
           /\ Idle.at = "idle" /\ Idle \notin ActiveSetup
           /\ request[r] # Idle <=> request[r] \in ActiveSetup
           /\ request[r].at # "idle" <=> request[r] \in ActiveSetup
BY DEF SetupTypeOK, ActiveSetup, SetupPlaces, Keyed, Idle

\* A request that becomes idle, or all of them at a restart.
LEMMA SetupEnds ==
    ASSUME SetupInv,
           UNCHANGED <<file, staged, database>>,
           \A q \in Requests : request'[q] \in {request[q], Idle},
           request' \in [Requests -> {Idle} \cup ActiveSetup]
    PROVE  SetupInv'
<1>. USE DEF SetupInv, database
<1>1. SetupTypeOK'
  <2>1. \A q \in Requests : request'[q].at \in Keyed => request'[q].key \in Keys
    BY DEF SetupTypeOK, Idle, Keyed
  <2>. QED  BY <2>1 DEF SetupTypeOK
<1>2. ProgressOK'
  <2>1. Presumed(file.step)'
    BY DEF ProgressOK, Presumed, Migrated
  <2>2. ASSUME NEW q \in Requests, request'[q] # Idle PROVE SetupSound(request[q])'
    <3>1. PICK y : y = request[q]
      OBVIOUS
    <3>2. request'[q] = y /\ SetupSound(y)
      BY <2>2, <3>1 DEF ProgressOK
    <3>3. SetupSound(y)'
      BY <3>2 DEF SetupSound, Presumed, Migrated
    <3>. QED  BY <3>2, <3>3
  <2>. QED  BY <2>1, <2>2 DEF ProgressOK
<1>3. InsertedOK'
  BY DEF InsertedOK
<1>4. AloneOK'
  <2>. SUFFICES ASSUME NEW q \in Requests, request'[q] # Idle, request'[q].alone
                PROVE  /\ \A p \in Requests \ {q} : request'[p] = Idle
                       /\ SetupKnows(request[q])'
    BY DEF AloneOK
  <2>1. PICK y : y = request[q]
    OBVIOUS
  <2>2. request'[q] = y /\ SetupKnows(y) /\ \A p \in Requests \ {q} : request[p] = Idle
    BY <2>1 DEF AloneOK
  <2>3. SetupKnows(y)'
    BY <2>2 DEF SetupKnows, MetAnother, Halfway
  <2>. QED  BY <2>2, <2>3
<1>. QED  BY <1>1, <1>2, <1>3, <1>4

\* A request goes on: its record, and what it did, decide.
LEMMA SetupGoesOn ==
    ASSUME SetupInv, NEW r \in Requests, request[r] \in ActiveSetup,
           NEW x \in ActiveSetup, x.alone = request[r].alone, x.at \in Keyed => x.key \in Keys,
           request' = [request EXCEPT ![r] = x],
           Onward,
           file' \in SetupStates, staged' \in Databases \cup {None},
           admin' \in [Databases -> Keys \cup {None}], made' \in [Databases -> Nat],
           InsertedOK', Presumed(file.step)', SetupSound(x)', x.alone => SetupKnows(x)'
    PROVE  SetupInv'
<1>. USE DEF SetupInv
<1>0. /\ request'[r] = x /\ \A q \in Requests \ {r} : request'[q] = request[q]
      /\ Idle \notin ActiveSetup /\ x # Idle /\ Idle.at = "idle"
  BY SetupShapes DEF SetupTypeOK
<1>1. SetupTypeOK'
  BY <1>0 DEF SetupTypeOK, Onward, Keyed
<1>2. ProgressOK'
  <2>. SUFFICES ASSUME NEW q \in Requests, request'[q] # Idle
                PROVE  SetupSound(request[q])'
    BY DEF ProgressOK, SetupSound
  <2>1. CASE q = r
    BY <1>0, <2>1
  <2>2. CASE q # r
    <3>1. request'[q] = request[q] /\ request[q] # Idle
      BY <1>0, <2>2
    <3>2. SetupSound(request[q])
      BY <3>1 DEF ProgressOK, SetupSound
    <3>3. \A step : Presumed(step) => Presumed(step)'
      BY PresumedOn
    <3>4. PICK y : y = request[q]
      OBVIOUS
    <3>5. y \in ActiveSetup /\ SetupSound(y)
      BY <3>1, <3>2, <3>4, SetupShapes
    <3>6. y.db \in Databases /\ y.wrote \in 0..Writes /\ schema[y.db] \in 0..Writes
          /\ schema'[y.db] \in 0..Writes /\ schema[y.db] <= schema'[y.db]
      BY <3>5 DEF ActiveSetup, SetupTypeOK, Onward
    <3>7. SetupSound(y)'
      BY <3>3, <3>5, <3>6, MigrationAssumption DEF SetupSound
    <3>. QED  BY <3>1, <3>4, <3>7
  <2>. QED  BY <2>1, <2>2
<1>3. AloneOK'
  <2>. SUFFICES ASSUME NEW q \in Requests, request'[q] # Idle, request'[q].alone
                PROVE  /\ \A p \in Requests \ {q} : request'[p] = Idle
                       /\ SetupKnows(request[q])'
    BY DEF AloneOK, SetupKnows, Is
  <2>1. CASE q = r
    <3>1. \A p \in Requests \ {r} : request[p] = Idle
      BY <1>0, <2>1 DEF AloneOK
    <3>. QED  BY <1>0, <2>1, <3>1
  <2>2. CASE q # r
    <3>1. request[r] = Idle
      BY <1>0, <2>2 DEF AloneOK
    <3>. QED  BY <1>0, <3>1
  <2>. QED  BY <2>1, <2>2
<1>. QED  BY <1>1, <1>2, <1>3

\* A request starts: it knows a state that holds, and the others are not
\* alone any more.
LEMMA SetupStarts ==
    ASSUME SetupInv, NEW r \in Requests, request[r] = Idle,
           NEW at \in {"acquire", "settle", "journal"}, NEW k \in Keys \cup {None}, NEW d \in Databases,
           NEW state \in SetupStates, Presumed(state.step),
           at = "acquire" => k \in Keys, at = "settle" => state.step = "admin_created",
           at = "journal" => k = None,
           Starts(r, at, k, d, state),
           UNCHANGED <<file, staged, database>>
    PROVE  SetupInv'
<1>. USE DEF SetupInv, database
<1>. DEFINE alone == \A p \in Requests \ {r} : Is(p, "idle")
            x == [at |-> at, alone |-> alone, key |-> k, db |-> d, state |-> state, wrote |-> 0]
<1>0. x \in ActiveSetup /\ x.alone = alone /\ x.at = at /\ x.key = k /\ x.state = state
  <2>1. alone \in BOOLEAN
    OBVIOUS
  <2>. HIDE DEF alone
  <2>. QED  BY <2>1, MigrationAssumption DEF ActiveSetup, SetupPlaces, Keyed
<1>1. /\ request' = [q \in Requests |->
            IF q = r THEN x
            ELSE IF Is(q, "idle") THEN Idle ELSE [request[q] EXCEPT !.alone = FALSE]]
  BY DEF Starts
<1>. HIDE DEF x
<1>2. request'[r] = x
  BY <1>1
<1>3. ASSUME NEW q \in Requests \ {r}
      PROVE  \/ request[q] = Idle /\ request'[q] = Idle
             \/ /\ request[q] \in ActiveSetup /\ request'[q] \in ActiveSetup /\ request'[q].alone = FALSE
                /\ request'[q].at = request[q].at /\ request'[q].key = request[q].key
                /\ request'[q].db = request[q].db /\ request'[q].state = request[q].state
                /\ request'[q].wrote = request[q].wrote
  <2>1. /\ request[q] \in {Idle} \cup ActiveSetup /\ Idle.at = "idle"
        /\ request[q].at # "idle" <=> request[q] \in ActiveSetup
    BY SetupShapes
  <2>2. CASE request[q] = Idle
    BY <1>1, <2>1, <2>2 DEF Is
  <2>3. CASE request[q] # Idle
    <3>1. request[q] \in ActiveSetup /\ request[q].at # "idle"
      BY <2>1, <2>3
    <3>2. request'[q] = [request[q] EXCEPT !.alone = FALSE]
      BY <1>1, <3>1 DEF Is
    <3>. QED  BY <3>1, <3>2 DEF ActiveSetup
  <2>. QED  BY <2>2, <2>3
<1>4. x # Idle /\ Idle.at = "idle" /\ Idle \notin ActiveSetup
  BY <1>0, SetupShapes
<1>5. SetupTypeOK'
  <2>1. request' \in [Requests -> {Idle} \cup ActiveSetup]
    <3>1. request' = [q \in Requests |-> request'[q]]
      BY <1>1
    <3>2. \A q \in Requests : request'[q] \in {Idle} \cup ActiveSetup
      BY <1>0, <1>2, <1>3
    <3>. QED  BY <3>1, <3>2
  <2>2. \A q \in Requests : request'[q].at \in Keyed => request'[q].key \in Keys
    <3>. SUFFICES ASSUME NEW q \in Requests, request'[q].at \in Keyed
                  PROVE  request'[q].key \in Keys
      OBVIOUS
    <3>1. CASE q = r
      BY <1>0, <1>2, <3>1 DEF Keyed
    <3>2. CASE q # r
      <4>1. request'[q].at = request[q].at /\ request'[q].key = request[q].key
        BY <1>3, <1>4, <3>2
      <4>. QED  BY <4>1 DEF SetupTypeOK
    <3>. QED  BY <3>1, <3>2
  <2>. QED  BY <2>1, <2>2 DEF SetupTypeOK
<1>6. ProgressOK'
  <2>1. SetupSound(x)
    BY <1>0 DEF SetupSound
  <2>2. \A q \in Requests \ {r} : request'[q] # Idle => SetupSound(request'[q])
    <3>. SUFFICES ASSUME NEW q \in Requests \ {r}, request'[q] # Idle
                  PROVE  SetupSound(request'[q])
      OBVIOUS
    <3>1. PICK a, b : a = request[q] /\ b = request'[q]
      OBVIOUS
    <3>2. a # Idle /\ b.at = a.at /\ b.db = a.db /\ b.state = a.state /\ b.key = a.key
          /\ b.wrote = a.wrote
      BY <1>3, <1>4, <3>1
    <3>3. SetupSound(a)
      BY <3>1, <3>2 DEF ProgressOK, SetupSound
    <3>4. SetupSound(b)
      BY <3>2, <3>3 DEF SetupSound
    <3>. QED  BY <3>1, <3>4
  <2>. QED  BY <1>2, <2>1, <2>2 DEF ProgressOK, SetupSound, Presumed, Migrated
<1>7. InsertedOK'
  BY DEF InsertedOK
<1>8. AloneOK'
  <2>1. alone => \A q \in Requests \ {r} : request'[q] = Idle
    BY <1>3, SetupShapes DEF Is
  <2>2. \A q \in Requests \ {r} : request'[q] # Idle => ~request'[q].alone
    BY <1>3
  <2>. HIDE DEF alone
  <2>. QED  BY <1>0, <1>2, <2>1, <2>2 DEF AloneOK, SetupKnows
<1>. QED  BY <1>5, <1>6, <1>7, <1>8

\* Where a request stands, from its action's guard.
LEMMA SetupStanding ==
    ASSUME SetupInv, NEW r \in Requests, request[r].at # "idle"
    PROVE  /\ request[r] \in ActiveSetup /\ SetupSound(request[r])
           /\ request[r].alone => SetupKnows(request[r])
           /\ request[r].at \in Keyed => request[r].key \in Keys
BY SetupShapes DEF SetupInv, SetupTypeOK, ProgressOK, AloneOK

\* The states that follow.
LEMMA SetupFollowing ==
    ASSUME NEW state \in SetupStates
    PROVE  /\ [state EXCEPT !.fence = @ + 1] \in SetupStates
           /\ [state EXCEPT !.fence = @ + 1].step = state.step
           /\ [state EXCEPT !.step = "installed"] \in SetupStates
           /\ [state EXCEPT !.step = "installed"].step = "installed"
           /\ state.step # "installed" =>
                 /\ [state EXCEPT !.step = NextStep(@)] \in SetupStates
                 /\ [state EXCEPT !.step = NextStep(@)].step = NextStep(state.step)
BY SetupOrder DEF SetupStates, StepNames

\* A request that goes on with another record of the same request.
LEMMA SetupRecord ==
    ASSUME NEW y \in ActiveSetup, NEW at \in SetupPlaces
    PROVE  LET x == [y EXCEPT !.at = at]
           IN  /\ x \in ActiveSetup /\ x.at = at /\ x.state = y.state /\ x.alone = y.alone
               /\ x.key = y.key /\ x.db = y.db /\ x.wrote = y.wrote
BY DEF ActiveSetup

\* A request moves on and changes nothing but its own record.
LEMMA SetupMoves ==
    ASSUME SetupInv, NEW r \in Requests, NEW at, MovesTo(r, at),
           request[r].at \in Keyed,
           at \in {"read", "write", "insert", "failed"},
           UNCHANGED file, staged' \in Databases \cup {None},
           admin' \in [Databases -> Keys \cup {None}], made' \in [Databases -> Nat],
           Onward, InsertedOK',
           NEW next, next = NextStep(request[r].state.step),
           at \in {"read", "write"} => request[r].state.step # "installed" /\ Presumed(next)',
           at = "insert" => request[r].state.step = "schema_ready" /\ schema'[request[r].db] >= Usable,
           request[r].alone /\ at \in {"read", "write", "insert"} => file = request[r].state,
           request[r].alone /\ at = "insert" => admin'[request[r].db] = None,
           request[r].alone /\ at = "failed" =>
                 \/ admin'[request[r].db] \notin {None, request[r].key}
                 \/ \E d \in Databases \ {request[r].db} : schema'[d] # 0
    PROVE  SetupInv'
<1>. DEFINE x == [request[r] EXCEPT !.at = at]
<1>1. request[r] \in ActiveSetup /\ SetupSound(request[r]) /\ request[r].key \in Keys
  BY SetupStanding DEF Keyed
<1>2. /\ x \in ActiveSetup /\ x.at = at /\ x.state = request[r].state /\ x.alone = request[r].alone
      /\ x.key = request[r].key /\ x.db = request[r].db
  <2>1. at \in SetupPlaces
    BY DEF SetupPlaces, Keyed
  <2>. QED  BY <1>1, <2>1, SetupRecord
<1>3. request' = [request EXCEPT ![r] = x]
  BY DEF MovesTo
<1>4. PICK y : y = x
  OBVIOUS
<1>. HIDE DEF x
<1>5. SetupSound(y)'
  BY <1>1, <1>2, <1>4, PresumedOn DEF SetupSound, SetupInv, Onward
<1>6. y.alone => SetupKnows(y)'
  BY <1>1, <1>2, <1>4 DEF SetupKnows, MetAnother
<1>7. Presumed(file.step)'
  BY PresumedOn DEF SetupInv, ProgressOK
<1>8. file' \in SetupStates
  BY DEF SetupInv, SetupTypeOK
<1>. QED  BY <1>1, <1>2, <1>3, <1>4, <1>5, <1>6, <1>7, <1>8, SetupGoesOn

\* A request writes the state file, or reads it.
LEMMA SetupWrites ==
    ASSUME SetupInv, NEW r \in Requests, NEW at \in {"lock", "act", "finish"}, NEW state \in SetupStates,
           GoesWith(r, at, state), request[r].at \in Keyed,
           UNCHANGED <<staged, database>>, file' = state, Presumed(state.step),
           at = "act" => state.step # "installed"
    PROVE  SetupInv'
<1>. DEFINE x == [request[r] EXCEPT !.at = at, !.state = state]
<1>1. request[r] \in ActiveSetup /\ request[r].key \in Keys
  BY SetupStanding DEF Keyed
<1>2. /\ x \in ActiveSetup /\ x.at = at /\ x.state = state /\ x.alone = request[r].alone
      /\ x.key = request[r].key /\ x.db = request[r].db
  <2>1. at \in SetupPlaces
    BY DEF SetupPlaces, Keyed
  <2>. QED  BY <1>1, <2>1 DEF ActiveSetup
<1>3. request' = [request EXCEPT ![r] = x]
  BY DEF GoesWith
<1>4. PICK y : y = x
  OBVIOUS
<1>. HIDE DEF x
<1>5. Onward
  BY DEF Onward, database, SetupInv, SetupTypeOK
<1>6. Presumed(state.step)'
  BY <1>5, PresumedOn DEF SetupInv
<1>7. SetupSound(y)' /\ (y.alone => SetupKnows(y)') /\ Presumed(file.step)'
  BY <1>2, <1>4, <1>6 DEF SetupSound, SetupKnows
<1>8. /\ staged' \in Databases \cup {None}
      /\ admin' \in [Databases -> Keys \cup {None}] /\ made' \in [Databases -> Nat] /\ InsertedOK'
  BY DEF SetupInv, SetupTypeOK, InsertedOK, database
<1>. QED  BY <1>1, <1>2, <1>3, <1>4, <1>5, <1>7, <1>8, SetupGoesOn

\* A request of the migration goes on: its record decides.
LEMMA SetupMigrates ==
    ASSUME SetupInv, NEW r \in Requests, NEW at \in {"migrate", "read", "failed"},
           NEW wrote \in 0..Writes, Migrates(r, at, wrote), request[r] \in ActiveSetup,
           at = "read" => request[r].key \in Keys /\ Presumed("schema_ready")',
           request[r].key # None => request[r].state.step = "migrating",
           request[r].key # None /\ request[r].alone => file = request[r].state,
           UNCHANGED <<file, staged, admin, made>>, Onward,
           NEW d, d = request[r].db, at = "migrate" => schema'[d] >= wrote,
           request[r].alone /\ at = "migrate" => schema'[d] = wrote \/ Halfway(d)',
           request[r].alone /\ at = "failed" => Halfway(d)'
    PROVE  SetupInv'
<1>. DEFINE x == [request[r] EXCEPT !.at = at, !.wrote = wrote]
<1>1. request[r].at # "idle" /\ SetupSound(request[r])
  BY SetupShapes, SetupStanding DEF SetupInv
<1>2. /\ x \in ActiveSetup /\ x.at = at /\ x.wrote = wrote /\ x.state = request[r].state
      /\ x.alone = request[r].alone /\ x.key = request[r].key /\ x.db = request[r].db
  BY DEF ActiveSetup, SetupPlaces, Keyed
<1>3. request' = [request EXCEPT ![r] = x]
  BY DEF Migrates
<1>4. PICK y : y = x
  OBVIOUS
<1>5. PICK old : old = request[r]
  OBVIOUS
<1>. HIDE DEF x
<1>6. y \in ActiveSetup /\ y.at = at /\ y.wrote = wrote /\ y.state = old.state
      /\ y.alone = old.alone /\ y.key = old.key /\ y.db = d
  BY <1>2, <1>4, <1>5
<1>7. InsertedOK'
  <2>1. \A e \in Databases : schema[e] \in Nat /\ schema'[e] \in Nat /\ schema[e] <= schema'[e]
    BY MigrationAssumption DEF Onward, SetupInv, SetupTypeOK
  <2>2. InsertedOK
    BY DEF SetupInv
  <2>. QED  BY <2>1, <2>2, MigrationAssumption DEF InsertedOK
<1>8. Presumed(file.step)' /\ Presumed(y.state.step)'
  BY <1>1, <1>5, <1>6, PresumedOn DEF SetupInv, ProgressOK, SetupSound
<1>9. SetupSound(y)'
  BY <1>5, <1>6, <1>8, SetupOrder, NoneAssumption DEF SetupSound
<1>10. y.alone => SetupKnows(y)'
  <2>1. CASE at = "migrate"
    BY <1>5, <1>6, <2>1 DEF SetupKnows
  <2>2. CASE at = "read"
    BY <1>5, <1>6, <2>2, NoneAssumption DEF SetupKnows
  <2>3. CASE at = "failed"
    BY <1>5, <1>6, <2>3 DEF SetupKnows
  <2>. QED  BY <2>1, <2>2, <2>3
<1>11. y.at \in Keyed => y.key \in Keys
  BY <1>5, <1>6 DEF Keyed
<1>12. /\ file' \in SetupStates /\ staged' \in Databases \cup {None}
       /\ admin' \in [Databases -> Keys \cup {None}] /\ made' \in [Databases -> Nat]
  BY DEF SetupInv, SetupTypeOK
<1>. QED  BY <1>3, <1>4, <1>5, <1>6, <1>7, <1>8, <1>9, <1>10, <1>11, <1>12, SetupGoesOn

\* A migration begins where the journal ends.
LEMMA ReadJournalStep ==
    ASSUME SetupInv, NEW r \in Requests, ReadJournal(r)
    PROVE  SetupInv'
<1>1. request[r].at # "idle"
  BY DEF ReadJournal, Is, Acts
<1>2. request[r] \in ActiveSetup /\ SetupSound(request[r])
      /\ (request[r].alone => SetupKnows(request[r]))
  BY <1>1, SetupStanding
<1>3. PICK d : d = request[r].db
  OBVIOUS
<1>4. PICK p \in 0..Writes : LastRow(p, d) /\ Migrates(r, "migrate", p)
  BY <1>3 DEF ReadJournal
<1>5. d \in Databases /\ schema[d] \in 0..Writes
  BY <1>2, <1>3 DEF ActiveSetup, SetupInv, SetupTypeOK
<1>6. UNCHANGED <<file, staged, schema, admin, made>>
  BY DEF ReadJournal, database
<1>7. Onward
  BY <1>6 DEF Onward, SetupInv, SetupTypeOK
<1>8. schema[d] >= p /\ (schema[d] = p \/ Halfway(d))
  BY <1>4, <1>5, MigrationAssumption DEF LastRow, Halfway
<1>9. /\ request[r].key # None => request[r].state.step = "migrating"
      /\ request[r].key # None /\ request[r].alone => file = request[r].state
  <2>1. CASE Is(r, "journal")
    BY <1>2, <2>1 DEF Is, SetupSound
  <2>2. CASE Acts(r, "migrating")
    BY <1>2, <2>2 DEF Acts, Is, SetupKnows
  <2>. QED  BY <2>1, <2>2 DEF ReadJournal
<1>10. schema'[d] >= p /\ (schema'[d] = p \/ Halfway(d)')
  BY <1>6, <1>8 DEF Halfway
<1>. QED  BY <1>2, <1>3, <1>4, <1>6, <1>7, <1>9, <1>10, SetupMigrates

\* A statement is run, or refused because it was run before: the schema is
\* then further than the request, which began at a row of the journal.
LEMMA RunStatementStep ==
    ASSUME SetupInv, NEW r \in Requests, RunStatement(r)
    PROVE  SetupInv'
<1>1. request[r].at = "migrate" /\ request[r].wrote < Writes
  BY DEF RunStatement, Is
<1>2. request[r] \in ActiveSetup /\ SetupSound(request[r])
      /\ (request[r].alone => SetupKnows(request[r]))
  BY <1>1, SetupStanding
<1>3. PICK d, n : d = request[r].db /\ n = request[r].wrote + 1
  OBVIOUS
<1>4. /\ d \in Databases /\ request[r].wrote \in 0..Writes /\ n \in 1..Writes
      /\ schema \in [Databases -> 0..Writes]
  BY <1>1, <1>2, <1>3, MigrationAssumption DEF ActiveSetup, SetupInv, SetupTypeOK
<1>5. UNCHANGED <<file, staged, admin, made>>
  BY DEF RunStatement
<1>6. /\ request[r].key # None => request[r].state.step = "migrating"
      /\ request[r].key # None /\ request[r].alone => file = request[r].state
      /\ request[r].alone => schema[d] = request[r].wrote \/ Halfway(d)
  BY <1>1, <1>2, <1>3 DEF SetupSound, SetupKnows
<1>7. CASE schema[d] >= n
  <2>1. Migrates(r, "failed", 0) /\ schema' = schema
    BY <1>3, <1>7 DEF RunStatement
  <2>2. Onward
    BY <1>4, <1>5, <2>1 DEF Onward
  <2>3. request[r].alone => Halfway(d)
    BY <1>3, <1>4, <1>6, <1>7
  <2>4. request[r].alone => Halfway(d)'
    BY <2>1, <2>3 DEF Halfway
  <2>. QED  BY <1>2, <1>3, <1>4, <1>5, <1>6, <2>1, <2>2, <2>4, MigrationAssumption, SetupMigrates
<1>8. CASE ~(schema[d] >= n)
  <2>1. Migrates(r, "migrate", n) /\ schema' = [schema EXCEPT ![d] = n]
    BY <1>3, <1>8 DEF RunStatement
  <2>2. schema[d] < n /\ schema'[d] = n
    BY <1>4, <1>8, <2>1, MigrationAssumption
  <2>3. Onward
    <3>1. schema' \in [Databases -> 0..Writes]
      BY <1>4, <2>1, MigrationAssumption
    <3>2. \A e \in Databases : schema[e] <= schema'[e]
      <4>. SUFFICES ASSUME NEW e \in Databases PROVE schema[e] <= schema'[e]
        OBVIOUS
      <4>. QED  BY <1>4, <2>1, <2>2, MigrationAssumption
    <3>. QED  BY <1>5, <3>1, <3>2 DEF Onward
  <2>. QED  BY <1>2, <1>3, <1>4, <1>5, <1>6, <2>1, <2>2, <2>3, MigrationAssumption, SetupMigrates
<1>. QED  BY <1>7, <1>8

\* A migration that has run every statement has made the schema.
LEMMA EndMigrationStep ==
    ASSUME SetupInv, NEW r \in Requests, EndMigration(r)
    PROVE  SetupInv'
<1>1. /\ request[r].at = "migrate" /\ request[r].wrote = Writes
      /\ UNCHANGED <<file, staged, schema, admin, made>>
  BY DEF EndMigration, Is, database
<1>2. request[r] \in ActiveSetup /\ SetupSound(request[r])
      /\ (request[r].alone => SetupKnows(request[r]))
  BY <1>1, SetupStanding
<1>3. CASE request[r].key = None
  <2>1. request' = [request EXCEPT ![r] = Idle]
    BY <1>3 DEF EndMigration
  <2>2. request \in [Requests -> {Idle} \cup ActiveSetup]
    BY DEF SetupInv, SetupTypeOK
  <2>. QED  BY <1>1, <2>1, <2>2, SetupEnds DEF database
<1>4. CASE request[r].key # None
  <2>1. Migrates(r, "read", 0) /\ 0 \in 0..Writes
    BY <1>4, MigrationAssumption DEF EndMigration
  <2>2. request[r].key \in Keys /\ request[r].state.step = "migrating"
        /\ (request[r].alone => file = request[r].state)
    BY <1>1, <1>2, <1>4 DEF ActiveSetup, SetupSound, SetupKnows
  <2>3. Onward
    BY <1>1, MigrationAssumption DEF Onward, SetupInv, SetupTypeOK
  <2>4. PICK d \in Databases : d = request[r].db
    BY <1>2 DEF ActiveSetup
  <2>5. schema[d] = Writes
    <3>1. schema[d] \in 0..Writes /\ schema[d] >= Writes
      BY <1>1, <1>2, <2>4 DEF SetupSound, SetupInv, SetupTypeOK
    <3>. QED  BY <3>1, MigrationAssumption
  <2>6. Presumed("migrating")
    BY <1>2, <2>2 DEF SetupSound
  <2>7. Presumed("schema_ready")'
    BY <1>1, <2>5, <2>6 DEF Presumed, Migrated
  <2>. QED  BY <1>1, <1>2, <2>1, <2>2, <2>3, <2>7, SetupMigrates
<1>. QED  BY <1>3, <1>4

\* Every step preserves the inductive invariant.
LEMMA SetupStep == SetupInv /\ [SetupNext]_setupVars => SetupInv'
<1>. SUFFICES ASSUME SetupInv, [SetupNext]_setupVars PROVE SetupInv'
  OBVIOUS
<1>0. /\ file \in SetupStates /\ staged \in Databases \cup {None} /\ schema \in [Databases -> 0..Writes]
      /\ admin \in [Databases -> Keys \cup {None}] /\ made \in [Databases -> Nat]
      /\ request \in [Requests -> {Idle} \cup ActiveSetup] /\ InsertedOK /\ Presumed(file.step)
  BY DEF SetupInv, SetupTypeOK, ProgressOK
<1>1. ASSUME NEW r \in Requests, AcquireRead(r) PROVE SetupInv'
  <2>1. GoesWith(r, "lock", file) /\ request[r].at = "acquire"
        /\ UNCHANGED <<staged, database>> /\ file' = file
    BY <1>1 DEF AcquireRead, Is
  <2>. QED  BY <1>0, <2>1, SetupWrites DEF Keyed
<1>2. ASSUME NEW r \in Requests, AcquireWrite(r) PROVE SetupInv'
  <2>1. request[r].at = "lock" /\ request[r] \in ActiveSetup /\ SetupSound(request[r])
    BY <1>2, SetupStanding DEF AcquireWrite, Is
  <2>. DEFINE state == [request[r].state EXCEPT !.fence = @ + 1]
  <2>2. state \in SetupStates /\ state.step = request[r].state.step
    BY <2>1, SetupFollowing DEF ActiveSetup
  <2>3. file' = state /\ GoesWith(r, Returns(state), state) /\ UNCHANGED <<staged, database>>
    BY <1>2 DEF AcquireWrite
  <2>. HIDE DEF state
  <2>4. Presumed(state.step)
    BY <2>1, <2>2 DEF SetupSound
  <2>5. Returns(state) \in {"act", "finish"} /\ (Returns(state) = "act" => state.step # "installed")
    BY DEF Returns
  <2>. QED  BY <2>1, <2>2, <2>3, <2>4, <2>5, SetupWrites DEF Keyed
<1>3. ASSUME NEW r \in Requests, TransitionRead(r) PROVE SetupInv'
  <2>1. /\ request[r].at = "read" /\ SetupSound(request[r]) /\ (request[r].alone => SetupKnows(request[r]))
    BY <1>3, SetupStanding DEF TransitionRead, Is
  <2>2. Onward /\ InsertedOK' /\ UNCHANGED <<file, staged, database>>
    BY <1>0, <1>3 DEF TransitionRead, Onward, database, InsertedOK
  <2>3. CASE MayMove(request[r].state)
    <3>1. MovesTo(r, "write") /\ file = request[r].state
      BY <1>3, <2>3 DEF TransitionRead, MayMove
    <3>2. PICK next : next = NextStep(request[r].state.step)
      OBVIOUS
    <3>3. request[r].state.step # "installed" /\ Presumed(next)
      BY <2>1, <3>2 DEF SetupSound
    <3>4. Presumed(next)'
      BY <2>2, <3>3, PresumedOn DEF SetupInv
    <3>. QED  BY <1>0, <2>1, <2>2, <3>1, <3>2, <3>3, <3>4, SetupMoves DEF database, Keyed
  <2>4. CASE ~MayMove(request[r].state)
    <3>1. MovesTo(r, "failed") /\ ~request[r].alone
      BY <1>3, <2>1, <2>4 DEF TransitionRead, MayMove, SetupKnows
    <3>. QED  BY <1>0, <2>1, <2>2, <3>1, SetupMoves DEF database, Keyed
  <2>. QED  BY <2>3, <2>4
<1>4. ASSUME NEW r \in Requests, TransitionWrite(r) PROVE SetupInv'
  <2>1. request[r].at = "write" /\ request[r] \in ActiveSetup /\ SetupSound(request[r])
    BY <1>4, SetupStanding DEF TransitionWrite, Is
  <2>. DEFINE state == [request[r].state EXCEPT !.step = NextStep(@)]
  <2>2. state \in SetupStates /\ state.step = NextStep(request[r].state.step)
    BY <2>1, SetupFollowing DEF ActiveSetup, SetupSound
  <2>3. file' = state /\ GoesWith(r, Returns(state), state) /\ UNCHANGED <<staged, database>>
    BY <1>4 DEF TransitionWrite
  <2>. HIDE DEF state
  <2>4. Presumed(state.step)
    BY <2>1, <2>2 DEF SetupSound
  <2>5. Returns(state) \in {"act", "finish"} /\ (Returns(state) = "act" => state.step # "installed")
    BY DEF Returns
  <2>. QED  BY <2>1, <2>2, <2>3, <2>4, <2>5, SetupWrites DEF Keyed
<1>5. ASSUME NEW r \in Requests, Finish(r) \/ Answer(r) \/ Interrupted(r) PROVE SetupInv'
  BY <1>0, <1>5, SetupEnds DEF Finish, Answer, Interrupted
<1>6. CASE Restart
  BY <1>0, <1>6, SetupEnds DEF Restart
<1>7. ASSUME NEW r \in Requests, StageConfiguration(r) PROVE SetupInv'
  <2>1. /\ request[r].at = "act" /\ request[r].state.step = "unconfigured"
        /\ request[r] \in ActiveSetup /\ (request[r].alone => SetupKnows(request[r]))
    BY <1>7, SetupStanding DEF StageConfiguration, Acts, Is
  <2>2. /\ MovesTo(r, "read") /\ UNCHANGED <<file, database>>
        /\ staged' = request[r].db /\ staged' \in Databases /\ staged' # None
    BY <1>7, <2>1, NoneAssumption DEF StageConfiguration, ActiveSetup
  <2>3. Presumed("config_staged")' /\ NextStep(request[r].state.step) = "config_staged"
    BY <2>1, <2>2, SetupOrder DEF Presumed
  <2>4. Onward /\ InsertedOK'
    BY <1>0, <2>2 DEF Onward, InsertedOK, database
  <2>. QED  BY <1>0, <2>1, <2>2, <2>3, <2>4, SetupMoves DEF database, SetupKnows, Keyed
<1>8. ASSUME NEW r \in Requests, StartMigration(r) PROVE SetupInv'
  <2>1. /\ request[r].at = "act" /\ request[r].state.step = "config_staged"
        /\ SetupSound(request[r]) /\ (request[r].alone => SetupKnows(request[r]))
    BY <1>8, SetupStanding DEF StartMigration, Acts, Is
  <2>2. MovesTo(r, "read") /\ UNCHANGED <<file, staged, database>>
    BY <1>8 DEF StartMigration
  <2>3. Presumed("migrating")' /\ NextStep(request[r].state.step) = "migrating"
    BY <2>1, <2>2, SetupOrder DEF Presumed, SetupSound, database
  <2>4. Onward /\ InsertedOK'
    BY <1>0, <2>2 DEF Onward, InsertedOK, database
  <2>. QED  BY <1>0, <2>1, <2>2, <2>3, <2>4, SetupMoves DEF database, SetupKnows, Keyed
<1>9. ASSUME NEW r \in Requests, ReadJournal(r) \/ RunStatement(r) \/ EndMigration(r) PROVE SetupInv'
  BY <1>9, ReadJournalStep, RunStatementStep, EndMigrationStep
<1>10. ASSUME NEW r \in Requests, CheckAdministrator(r) PROVE SetupInv'
  <2>1. /\ request[r].at = "act" /\ request[r].state.step = "schema_ready" /\ request[r] \in ActiveSetup
        /\ SetupSound(request[r]) /\ (request[r].alone => SetupKnows(request[r]))
        /\ request[r].key \in Keys /\ request[r].key # None
    BY <1>10, SetupStanding, NoneAssumption DEF CheckAdministrator, Acts, Is, Keyed
  <2>2. /\ Onward /\ InsertedOK' /\ UNCHANGED <<file, staged, schema, admin, made>>
    BY <1>0, <1>10 DEF CheckAdministrator, Onward, database, InsertedOK
  <2>3. PICK e \in Databases : schema[e] = Writes
    BY <2>1 DEF SetupSound, Presumed, Migrated
  <2>. DEFINE d == request[r].db
  <2>4. CASE ~(schema[d] >= Usable)
    <3>1. MovesTo(r, "failed")
      BY <1>10, <2>4 DEF CheckAdministrator, MovesTo
    <3>2. e \in Databases \ {d} /\ schema'[e] # 0
      BY <2>2, <2>3, <2>4, MigrationAssumption
    <3>. QED  BY <1>0, <2>1, <2>2, <3>1, <3>2, SetupMoves DEF Keyed
  <2>5. CASE schema[d] >= Usable /\ Repeated(r)
    <3>1. MovesTo(r, "read")
      BY <1>10, <2>5 DEF CheckAdministrator, MovesTo
    <3>2. Presumed("admin_created")' /\ NextStep(request[r].state.step) = "admin_created"
      <4>1. d \in Databases /\ admin[d] # None /\ NextStep(request[r].state.step) = "admin_created"
        BY <2>1, <2>5, SetupOrder DEF Repeated, ActiveSetup
      <4>2. Presumed("schema_ready")
        BY <2>1 DEF SetupSound
      <4>. QED  BY <2>2, <4>1, <4>2 DEF Presumed, Migrated
    <3>. QED  BY <1>0, <2>1, <2>2, <3>1, <3>2, SetupMoves DEF SetupKnows, Keyed
  <2>6. CASE schema[d] >= Usable /\ ~Repeated(r) /\ admin[d] = None
    <3>1. MovesTo(r, "insert")
      BY <1>10, <2>6 DEF CheckAdministrator, MovesTo
    <3>. QED  BY <1>0, <2>1, <2>2, <2>6, <3>1, SetupMoves DEF SetupKnows, Keyed
  <2>7. CASE schema[d] >= Usable /\ ~Repeated(r) /\ admin[d] # None
    <3>1. MovesTo(r, "failed")
      BY <1>10, <2>7 DEF CheckAdministrator, MovesTo
    <3>2. admin'[d] \notin {None, request[r].key}
      BY <2>2, <2>7 DEF Repeated
    <3>. QED  BY <1>0, <2>1, <2>2, <3>1, <3>2, SetupMoves DEF Keyed
  <2>. QED  BY <2>4, <2>5, <2>6, <2>7
<1>11. ASSUME NEW r \in Requests, InsertAdministrator(r) PROVE SetupInv'
  <2>1. /\ request[r].at = "insert" /\ request[r] \in ActiveSetup
        /\ SetupSound(request[r]) /\ (request[r].alone => SetupKnows(request[r]))
        /\ request[r].key \in Keys /\ request[r].key # None
    BY <1>11, SetupStanding, NoneAssumption DEF InsertAdministrator, Is, Keyed
  <2>. DEFINE d == request[r].db
  <2>2. d \in Databases /\ schema[d] >= Usable /\ request[r].state.step = "schema_ready"
        /\ UNCHANGED <<file, staged, schema>>
    BY <1>11, <2>1 DEF InsertAdministrator, ActiveSetup, SetupSound
  <2>3. CASE Inserts(d)
    <3>1. /\ admin' = [admin EXCEPT ![d] = request[r].key]
          /\ made' = [made EXCEPT ![d] = @ + 1] /\ MovesTo(r, "read")
      BY <1>11, <2>3 DEF InsertAdministrator
    <3>2. /\ admin' \in [Databases -> Keys \cup {None}] /\ made' \in [Databases -> Nat]
          /\ InsertedOK' /\ Onward /\ admin'[d] # None
      BY <1>0, <2>1, <2>2, <2>3, <3>1 DEF InsertedOK, Onward, Inserts
    <3>3. Presumed("admin_created")' /\ NextStep(request[r].state.step) = "admin_created"
      <4>1. Presumed("schema_ready") /\ NextStep(request[r].state.step) = "admin_created"
        BY <2>1, <2>2, SetupOrder DEF SetupSound
      <4>. QED  BY <2>2, <3>2, <4>1 DEF Presumed, Migrated
    <3>. QED  BY <1>0, <2>1, <2>2, <3>1, <3>2, <3>3, SetupMoves DEF SetupKnows, Keyed
  <2>4. CASE ~Inserts(d)
    <3>1. MovesTo(r, "failed") /\ UNCHANGED <<admin, made>> /\ ~request[r].alone
      BY <1>11, <2>1, <2>4 DEF InsertAdministrator, Inserts, SetupKnows
    <3>2. Onward /\ InsertedOK'
      BY <1>0, <2>2, <3>1 DEF Onward, InsertedOK
    <3>. QED  BY <1>0, <2>1, <2>2, <3>1, <3>2, SetupMoves DEF Keyed
  <2>. QED  BY <2>3, <2>4
<1>12. ASSUME NEW r \in Requests, AdministratorExists(r) PROVE SetupInv'
  <2>1. /\ request[r].at = "act" /\ request[r].state.step = "admin_created" /\ request[r] \in ActiveSetup
        /\ SetupSound(request[r]) /\ (request[r].alone => SetupKnows(request[r]))
    BY <1>12, SetupStanding DEF AdministratorExists, Acts, Is
  <2>2. /\ Onward /\ InsertedOK' /\ UNCHANGED <<file, staged, schema, admin, made>>
    BY <1>0, <1>12 DEF AdministratorExists, Onward, database, InsertedOK
  <2>3. \E d \in Databases : admin[d] # None
    BY <2>1 DEF SetupSound, Presumed
  <2>4. CASE admin[request[r].db] # None
    <3>1. MovesTo(r, "read")
      BY <1>12, <2>4 DEF AdministratorExists
    <3>2. Presumed("installed")' /\ NextStep(request[r].state.step) = "installed"
      <4>1. Presumed("admin_created") /\ NextStep(request[r].state.step) = "installed"
        BY <2>1, SetupOrder DEF SetupSound
      <4>. QED  BY <2>2, <4>1 DEF Presumed, Migrated
    <3>. QED  BY <1>0, <2>1, <2>2, <3>1, <3>2, SetupMoves DEF SetupKnows, Keyed
  <2>5. CASE admin[request[r].db] = None
    <3>1. MovesTo(r, "failed")
      BY <1>12, <2>5 DEF AdministratorExists
    <3>2. PICK e \in Databases : admin[e] # None
      BY <2>3
    <3>3. e \in Databases \ {request[r].db} /\ schema'[e] # 0
      BY <1>0, <2>2, <2>5, <3>2, MigrationAssumption DEF InsertedOK
    <3>. QED  BY <1>0, <2>1, <2>2, <3>1, <3>3, SetupMoves DEF Keyed
  <2>. QED  BY <2>4, <2>5
<1>13. ASSUME NEW r \in Requests, ReconcileWrite(r) PROVE SetupInv'
  <2>1. request[r].at = "settle" /\ request[r] \in ActiveSetup /\ SetupSound(request[r])
    BY <1>13, SetupStanding DEF ReconcileWrite, Is
  <2>2. file' \in SetupStates /\ file'.step = "installed"
    BY <1>13, <2>1, SetupFollowing DEF ReconcileWrite, ActiveSetup
  <2>3. Presumed("installed")
    BY <2>1 DEF SetupSound, Presumed
  <2>4. request' = [request EXCEPT ![r] = Idle] /\ UNCHANGED <<staged, database>>
    BY <1>13 DEF ReconcileWrite
  <2>5. SetupTypeOK'
    <3>1. \A q \in Requests : request'[q].at \in Keyed => request'[q].key \in Keys
      BY <2>4 DEF SetupInv, SetupTypeOK, Idle, Keyed
    <3>. QED  BY <1>0, <2>2, <2>4, <3>1 DEF SetupTypeOK, database
  <2>6. ProgressOK'
    <3>1. \A step : Presumed(step) => Presumed(step)'
      BY <2>4 DEF Presumed, Migrated, database
    <3>2. Presumed(file.step)'
      BY <2>2, <2>3, <3>1
    <3>3. ASSUME NEW q \in Requests, request'[q] # Idle PROVE SetupSound(request[q])'
      <4>1. PICK y : y = request[q]
        OBVIOUS
      <4>2. request'[q] = y /\ SetupSound(y)
        BY <1>0, <2>4, <3>3, <4>1 DEF SetupInv, ProgressOK
      <4>3. SetupSound(y)'
        BY <2>4, <3>1, <4>2 DEF SetupSound, database
      <4>. QED  BY <4>2, <4>3
    <3>. QED  BY <3>2, <3>3 DEF ProgressOK
  <2>7. InsertedOK'
    BY <1>0, <2>4 DEF InsertedOK, database
  <2>8. AloneOK'
    <3>. SUFFICES ASSUME NEW q \in Requests, request'[q] # Idle, request'[q].alone
                  PROVE  FALSE
      BY DEF AloneOK
    <3>1. q # r /\ request'[q] = request[q]
      BY <1>0, <2>4
    <3>2. request[r] = Idle
      BY <3>1 DEF SetupInv, AloneOK
    <3>. QED  BY <2>1, <3>2, SetupShapes DEF SetupInv
  <2>. QED  BY <2>5, <2>6, <2>7, <2>8 DEF SetupInv
<1>14. ASSUME NEW r \in Requests, NEW k \in Keys, NEW d \in Databases, Begin(r, k, d) PROVE SetupInv'
  <2>1. request[r] = Idle /\ Starts(r, "acquire", k, d, NoFile) /\ UNCHANGED <<file, staged, database>>
    BY <1>14, SetupShapes DEF Begin, Is, SetupInv
  <2>2. NoFile \in SetupStates /\ Presumed(NoFile.step)
    BY DEF NoFile, SetupStates, StepNames, Presumed
  <2>. QED  BY <2>1, <2>2, SetupStarts
<1>15. ASSUME NEW r \in Requests, NEW d \in Databases, Reconcile(r, d) PROVE SetupInv'
  <2>1. request[r] = Idle /\ Starts(r, "settle", None, d, file) /\ UNCHANGED <<file, staged, database>>
        /\ file.step = "admin_created"
    BY <1>15, SetupShapes DEF Reconcile, Is, SetupInv
  <2>. QED  BY <1>0, <2>1, SetupStarts
<1>16. CASE IssueSetupSecret \/ SecretExpires \/ UNCHANGED setupVars
  BY <1>0, <1>16, SetupEnds DEF IssueSetupSecret, SecretExpires, setupVars, database
<1>17. ASSUME NEW r \in Requests, NEW d \in Databases, ApplyMigrations(r, d) PROVE SetupInv'
  <2>1. request[r] = Idle /\ Starts(r, "journal", None, d, NoFile) /\ UNCHANGED <<file, staged, database>>
    BY <1>17, SetupShapes DEF ApplyMigrations, Is, SetupInv
  <2>2. NoFile \in SetupStates /\ Presumed(NoFile.step)
    BY DEF NoFile, SetupStates, StepNames, Presumed
  <2>. QED  BY <2>1, <2>2, SetupStarts
<1>. QED
  BY <1>1, <1>2, <1>3, <1>4, <1>5, <1>6, <1>7, <1>8, <1>9, <1>10, <1>11, <1>12, <1>13,
     <1>14, <1>15, <1>16, <1>17 DEF SetupNext

\* The initial state satisfies the inductive invariant.
LEMMA SetupInitially == SetupInit => SetupInv
BY MigrationAssumption DEF SetupInit, SetupInv, SetupTypeOK, ProgressOK, InsertedOK, AloneOK, Presumed,
   SetupStates, StepNames, NoFile, Idle, Keyed

\* The inductive invariant holds throughout.
LEMMA SetupInvariance == SetupSpec => []SetupInv
BY SetupInitially, SetupStep, PTL DEF SetupSpec

\* The state file never records more than was done: for any number of requests,
\* keys, databases, crashes and writes of a file read too early, a step that is
\* recorded has its configuration, schema or administrator.
THEOREM StepHolds == SetupSpec => []RecordedStepHolds
<1>1. SetupInv => RecordedStepHolds
  BY SetupOrder DEF SetupInv, SetupTypeOK, SetupStates, StepNames, ProgressOK, Presumed, RecordedStepHolds, Reached
<1>. QED  BY <1>1, SetupInvariance, PTL

\* Setup inserts at most one administrator into a database, however many
\* requests run side by side.
THEOREM OneAdmin == SetupSpec => []OneAdministrator
<1>1. SetupInv => OneAdministrator
  BY DEF SetupInv, InsertedOK, OneAdministrator
<1>. QED  BY <1>1, SetupInvariance, PTL

\* A request that runs alone, with the connections and the key of the ones
\* before it, is refused only by a database that a stop left inside a migration.
THEOREM RetryIsSafe == SetupSpec => []SafeRetry
<1>1. SetupInv => SafeRetry
  BY DEF SetupInv, AloneOK, SafeRetry, SetupKnows, Is, Idle
<1>. QED  BY <1>1, SetupInvariance, PTL
=============================================================================
