------------------------------ MODULE Accounts ------------------------------
(***************************************************************************)
(* The accounts of the server: registration, sign-in by password, temporary*)
(* passwords, changes of password, and what administrators do to accounts. *)
(* The users table is InnoDB: a plain SELECT reads committed rows, SELECT  *)
(* ... FOR UPDATE and UPDATE wait for row locks, and a transaction may be  *)
(* rolled back at any step (deadlock, time-out, lost connection).  Redis   *)
(* holds the sessions, the challenges of temporary passwords and the       *)
(* confirmations.  A request runs between its awaits like a process.       *)
(***************************************************************************)
EXTENDS Handlers, Naturals, FiniteSets

CONSTANTS
    Users, Confirmations, Free,
    Changes,    \* the administrators' changes a run explores
    MaxEpoch    \* bound: how many temporary passwords a user is given

ASSUME ChangesAssumption ==
    Changes \subseteq {"promote", "demote", "enable", "disable", "reset", "delete"}

ASSUME FreeAssumption == Free \notin Requests

VARIABLES
    row,        \* user -> the row of users, committed
    lock,       \* user -> the request whose transaction holds the row
    mode,       \* registration_mode
    sessions,   \* user -> the roles its sessions carry
    challenges, \* the temporary password challenges in Redis
    confirm,    \* the confirmations in Redis
    issuedFor,  \* history: confirmation -> what it was issued for
    ran,        \* history: confirmation -> the changes begun with it
    renewed     \* history: <<user, epoch>> -> passwords set with that challenge

history == <<issuedFor, ran, renewed>>
vars == <<row, lock, mode, sessions, challenges, confirm, request, history>>

Roles == {"admin", "user"}
Statuses == {"absent", "active", "disabled", "deleted"}
Row == [status : Statuses, role : Roles, password : {"own", "temporary", "none"},
        mustChange : BOOLEAN, epoch : Nat]

Absent == [status |-> "absent", role |-> "user", password |-> "none", mustChange |-> FALSE, epoch |-> 0]
Account(role) == [Absent EXCEPT !.status = "active", !.role = role, !.password = "own"]

IsActiveAdmin(u) == row[u].status = "active" /\ row[u].role = "admin"
ActiveAdmins == {u \in Users : IsActiveAdmin(u)}

\* An installed server: setup created an administrator.
Init ==
    /\ row \in [Users -> {Absent, Account("user"), Account("admin")}]
    /\ ActiveAdmins # {}
    /\ lock = [u \in Users |-> Free]
    /\ mode = "closed"
    /\ sessions = [u \in Users |-> {}]
    /\ challenges = {} /\ confirm = {}
    /\ request = [r \in Requests |-> Idle]
    /\ issuedFor = [k \in Confirmations |-> Idle]
    /\ ran = [k \in Confirmations |-> 0]
    /\ renewed = [p \in Users \X (0..MaxEpoch) |-> 0]

Unlocked(r) == [u \in Users |-> IF lock[u] = r THEN Free ELSE lock[u]]
Update(u, new) == lock[u] = Free /\ row' = [row EXCEPT ![u] = new]

\* The request fails where it is: its transaction rolls back, and nothing
\* else of what it did is undone.
Fail(r) ==
    /\ request[r] # Idle
    /\ Goes(r, Idle) /\ lock' = Unlocked(r)
    /\ UNCHANGED <<row, mode, sessions, challenges, confirm, history>>

-----------------------------------------------------------------------------
(* Registration and new accounts                                           *)

Temporary(old) ==
    [old EXCEPT !.password = "temporary", !.mustChange = TRUE, !.epoch = @ + 1]

ReadMode(r) ==
    /\ Is(r, "idle") /\ mode = "open"
    /\ Goes(r, [at |-> "register"])
    /\ UNCHANGED <<row, lock, mode, sessions, challenges, confirm, history>>

Register(r, u) ==
    /\ Is(r, "register")
    /\ row[u] = Absent /\ Update(u, Account("user"))
    /\ Goes(r, Idle)
    /\ UNCHANGED <<lock, mode, sessions, challenges, confirm, history>>

AnAdministrator == \E a \in Users : "admin" \in sessions[a]

CreateTemporaryUser(u) ==
    /\ AnAdministrator
    /\ row[u] = Absent /\ MaxEpoch > 0 /\ Update(u, Temporary(Account("user")))
    /\ UNCHANGED <<lock, mode, sessions, challenges, confirm, request, history>>

SetRegistrationMode(k, new) ==
    /\ AnAdministrator
    /\ k \in confirm /\ issuedFor[k] = [at |-> "mode"]
    /\ confirm' = confirm \ {k}
    /\ mode' = new
    /\ ran' = [ran EXCEPT ![k] = @ + 1]
    /\ UNCHANGED <<row, lock, sessions, challenges, request, issuedFor, renewed>>

-----------------------------------------------------------------------------
(* Sign-in and passwords                                                   *)

\* PasswordAuthService.login reads the row, then verifies the password.
Login(r, u) ==
    /\ Is(r, "idle")
    /\ row[u].status = "active" /\ row[u].password # "none"
    /\ Goes(r, IF row[u].mustChange THEN [at |-> "claim", user |-> u, role |-> row[u].role]
               ELSE [at |-> "open", user |-> u, role |-> row[u].role])
    /\ UNCHANGED <<row, lock, mode, sessions, challenges, confirm, history>>

\* Mutant: the temporary password is given up by whoever saw it.
ClaimAgain(r) ==
    /\ Is(r, "claim")
    /\ LET u == request[r].user
       IN  /\ Update(u, [row[u] EXCEPT !.password = "none", !.mustChange = FALSE])
           /\ Goes(r, [at |-> "challenge", user |-> u, role |-> request[r].role, epoch |-> row[u].epoch])
    /\ UNCHANGED <<lock, mode, sessions, challenges, confirm, history>>

\* invalidateTemporaryPassword: the row must still ask for a change.
Claim(r) ==
    /\ Is(r, "claim")
    /\ LET u == request[r].user
       IN  /\ row[u].mustChange
           /\ Update(u, [row[u] EXCEPT !.password = "none", !.mustChange = FALSE])
           /\ Goes(r, [at |-> "challenge", user |-> u, role |-> request[r].role, epoch |-> row[u].epoch])
    /\ UNCHANGED <<lock, mode, sessions, challenges, confirm, history>>

CreateChallenge(r) ==
    /\ Is(r, "challenge")
    /\ challenges' = challenges \cup {[request[r] EXCEPT !.at = "renew"]}
    /\ Goes(r, Idle)
    /\ UNCHANGED <<row, lock, mode, sessions, confirm, history>>

ConsumeChallenge(r) ==
    /\ Is(r, "idle")
    /\ \E c \in challenges : challenges' = challenges \ {c} /\ Goes(r, c)
    /\ UNCHANGED <<row, lock, mode, sessions, confirm, history>>

ChallengeExpires ==
    /\ \E c \in challenges : challenges' = challenges \ {c}
    /\ UNCHANGED <<row, lock, mode, sessions, confirm, request, history>>

\* changePassword has found the account active and the current password right,
\* a temporary one too: it asks for neither must_change_password nor expiry.
BeginPasswordChange(r, u) ==
    /\ Is(r, "idle") /\ sessions[u] # {}
    /\ row[u].status = "active" /\ row[u].password # "none"
    /\ Goes(r, [at |-> "change", user |-> u, role |-> row[u].role])
    /\ UNCHANGED <<row, lock, mode, sessions, challenges, confirm, history>>

\* updatePassword: by the identifier of the user alone.
UpdatePassword(r) ==
    /\ request[r].at \in {"change", "renew"}
    /\ LET u == request[r].user
       IN  /\ Update(u, [row[u] EXCEPT !.password = "own", !.mustChange = FALSE])
           /\ renewed' = IF Is(r, "renew")
                         THEN [renewed EXCEPT ![<<u, request[r].epoch>>] = @ + 1]
                         ELSE renewed
           /\ Goes(r, [at |-> "end", user |-> u, role |-> request[r].role])
    /\ UNCHANGED <<lock, mode, sessions, challenges, confirm, issuedFor, ran>>

EndSessions(r) ==
    /\ Is(r, "end")
    /\ sessions' = [sessions EXCEPT ![request[r].user] = {}]
    /\ Goes(r, [at |-> "open", user |-> request[r].user, role |-> request[r].role])
    /\ UNCHANGED <<row, lock, mode, challenges, confirm, history>>

OpenSession(r) ==
    /\ Is(r, "open")
    /\ sessions' = [sessions EXCEPT ![request[r].user] = @ \cup {request[r].role}]
    /\ Goes(r, Idle)
    /\ UNCHANGED <<row, lock, mode, challenges, confirm, history>>

Logout(u) ==
    /\ \E role \in sessions[u] : sessions' = [sessions EXCEPT ![u] = @ \ {role}]
    /\ UNCHANGED <<row, lock, mode, challenges, confirm, request, history>>

-----------------------------------------------------------------------------
(* Confirmations                                                           *)

Confirmable == [at : {"begin"}, change : Changes, user : Users] \cup {[at |-> "mode"]}

Issue(k, what) ==
    /\ AnAdministrator
    /\ issuedFor[k] = Idle
    /\ issuedFor' = [issuedFor EXCEPT ![k] = what]
    /\ confirm' = confirm \cup {k}
    /\ UNCHANGED <<row, lock, mode, sessions, challenges, request, ran, renewed>>

\* Mutant: a confirmation is read and not taken.
TakeAgain(k) == k \in confirm /\ UNCHANGED confirm

\* GETDEL.
Take(k) == k \in confirm /\ confirm' = confirm \ {k}

Consume(r, k, what) ==
    /\ Is(r, "idle") /\ AnAdministrator
    /\ Take(k)
    /\ IF issuedFor[k] = what
       THEN /\ Goes(r, what)
            /\ ran' = [ran EXCEPT ![k] = @ + 1]
       ELSE UNCHANGED <<request, ran>>
    /\ UNCHANGED <<row, lock, mode, sessions, challenges, issuedFor, renewed>>

UpdateUser(r, k, u) ==
    \E change \in Changes \cap {"promote", "demote", "enable", "disable"} :
        Consume(r, k, [at |-> "begin", change |-> change, user |-> u])
ResetPassword(r, k, u) ==
    "reset" \in Changes /\ Consume(r, k, [at |-> "begin", change |-> "reset", user |-> u])
DeleteUser(r, k, u) ==
    "delete" \in Changes /\ Consume(r, k, [at |-> "begin", change |-> "delete", user |-> u])

-----------------------------------------------------------------------------
(* Changes by administrators, in a transaction                             *)

After(change, old) ==
    CASE change = "promote" -> [old EXCEPT !.role = "admin"]
      [] change = "demote"  -> [old EXCEPT !.role = "user"]
      [] change = "enable"  -> [old EXCEPT !.status = "active"]
      [] change = "disable" -> [old EXCEPT !.status = "disabled"]
      [] change = "reset"   -> Temporary(old)
      [] change = "delete"  -> [old EXCEPT !.status = "deleted", !.password = "none",
                                           !.mustChange = FALSE]

Rollback(r) == Goes(r, Idle) /\ lock' = Unlocked(r)

LockTarget(r) ==
    /\ Is(r, "begin")
    /\ LET u == request[r].user
       IN  /\ lock[u] = Free
           /\ request[r].change = "reset" => row[u].epoch < MaxEpoch
           /\ IF row[u].status \in {"absent", "deleted"} THEN Rollback(r)
              ELSE /\ lock' = [lock EXCEPT ![u] = r]
                   /\ Goes(r, [request[r] EXCEPT !.at = "locked"])
    /\ UNCHANGED <<row, mode, sessions, challenges, confirm, history>>

CostsAnAdmin(r) ==
    LET u == request[r].user
    IN  IsActiveAdmin(u) /\ request[r].change \in {"demote", "disable", "delete"}

\* Mutant: the count takes no locks.
AssertUnlocked(r) ==
    /\ Is(r, "locked")
    /\ IF CostsAnAdmin(r) /\ Cardinality(ActiveAdmins) <= 1 THEN Rollback(r)
       ELSE /\ Goes(r, [request[r] EXCEPT !.at = "allowed"])
            /\ UNCHANGED lock
    /\ UNCHANGED <<row, mode, sessions, challenges, confirm, history>>

\* #assertAdminInvariant counts the active administrators FOR UPDATE.
AssertAdminInvariant(r) ==
    /\ Is(r, "locked")
    /\ IF ~CostsAnAdmin(r)
       THEN /\ Goes(r, [request[r] EXCEPT !.at = "allowed"])
            /\ UNCHANGED lock
       ELSE /\ \A u \in ActiveAdmins : lock[u] \in {Free, r}
            /\ IF Cardinality(ActiveAdmins) <= 1 THEN Rollback(r)
               ELSE /\ lock' = [u \in Users |-> IF u \in ActiveAdmins THEN r ELSE lock[u]]
                    /\ Goes(r, [request[r] EXCEPT !.at = "allowed"])
    /\ UNCHANGED <<row, mode, sessions, challenges, confirm, history>>

\* The sessions end before the change is committed.
RevokeSessions(r) ==
    /\ Is(r, "allowed")
    /\ LET u == request[r].user
           new == After(request[r].change, row[u])
       IN  IF request[r].change = "reset" /\ row[u].status # "active"
           THEN Rollback(r) /\ UNCHANGED sessions
           ELSE /\ sessions' = IF new = row[u] THEN sessions ELSE [sessions EXCEPT ![u] = {}]
                /\ Goes(r, [request[r] EXCEPT !.at = "revoked"])
                /\ UNCHANGED lock
    /\ UNCHANGED <<row, mode, challenges, confirm, history>>

Commit(r) ==
    /\ Is(r, "revoked")
    /\ LET u == request[r].user
       IN  row' = [row EXCEPT ![u] = After(request[r].change, row[u])]
    /\ Goes(r, Idle) /\ lock' = Unlocked(r)
    /\ UNCHANGED <<mode, sessions, challenges, confirm, history>>

Next ==
    \/ \E r \in Requests :
          \/ Fail(r) \/ ReadMode(r) \/ Claim(r) \/ CreateChallenge(r) \/ ConsumeChallenge(r)
          \/ UpdatePassword(r) \/ EndSessions(r) \/ OpenSession(r)
          \/ LockTarget(r) \/ AssertAdminInvariant(r) \/ RevokeSessions(r) \/ Commit(r)
    \/ \E r \in Requests, u \in Users : Register(r, u) \/ Login(r, u) \/ BeginPasswordChange(r, u)
    \/ \E u \in Users : CreateTemporaryUser(u) \/ Logout(u)
    \/ \E k \in Confirmations, what \in Confirmable : Issue(k, what)
    \/ \E r \in Requests, k \in Confirmations, u \in Users :
          UpdateUser(r, k, u) \/ ResetPassword(r, k, u) \/ DeleteUser(r, k, u)
    \/ \E k \in Confirmations, new \in {"open", "closed"} : SetRegistrationMode(k, new)
    \/ ChallengeExpires

Spec == Init /\ [][Next]_vars

-----------------------------------------------------------------------------
(* Properties                                                              *)

\* Whatever administrators do to each other at the same time, one of them
\* remains active.
AnAdminRemains == ActiveAdmins # {}

\* Signing in with a temporary password sets one password, whoever signs in
\* with it at the same time, however often the challenge is used.  Changes of
\* password in a session, which take the temporary one for the current one, run
\* beside it and are not counted: such a session may set a password too.
RenewedOnce == \A p \in DOMAIN renewed : renewed[p] <= 1

\* A confirmation lets one change run, the one it was issued for.
ConfirmedOnce == \A k \in Confirmations : ran[k] <= 1
=============================================================================
