---------------------------- MODULE SetupProcess ----------------------------
(***************************************************************************)
(* First-time setup: a coordinator takes the installation through the steps*)
(* of a state file, with a fencing token against the requests it overtook. *)
(* The file is read and written in separate calls, requests run side by    *)
(* side and may stop anywhere, and the operator's commands touch the same  *)
(* file and database.  In compose mode there is one database; in standalone*)
(* mode every request names its own.  MySQL commits the statements of a     *)
(* migration one by one, and the row of its journal comes last.            *)
(***************************************************************************)
EXTENDS Handlers, Naturals, Sequences

CONSTANTS
    Keys, Databases,
    MaxFence,      \* bound: no request starts above this fencing token
    Writes,        \* the writes of all migrations in order, statements and journal rows (43)
    Rows,          \* the journal rows among them (the 41st and the 43rd)
    Usable,        \* the statement that completes the tables setup uses (the 14th)
    None

\* None is no database, no idempotency key.
ASSUME NoneAssumption == None \notin Databases \cup Keys

ASSUME MigrationAssumption ==
    Writes \in Nat \ {0} /\ Rows \subseteq 1..Writes /\ Writes \in Rows /\ Usable \in 1..Writes

VARIABLES
    file,          \* the state file: step and fencing token
    staged,        \* the database the configuration file names, or None
    live,          \* config.mysqlConnection of the running server, or None
    schema,        \* database -> how many writes of the migrations it has
    admin,         \* database -> idempotency key its administrator came with, or None
    made,          \* history: database -> administrators the setup inserted
    secret         \* an unexpired setup secret is in place

setupVars == <<file, staged, live, schema, admin, made, secret, request>>
database == <<schema, admin, made>>

Steps == <<"unconfigured", "config_staged", "migrating", "schema_ready", "admin_created", "installed">>
Rank(step) == CHOOSE i \in DOMAIN Steps : Steps[i] = step
Reached(step) == Rank(file.step) >= Rank(step)

\* Mutant: a step too far, over the migration.
SkipMigration(step) ==
    IF step = "config_staged" THEN "schema_ready" ELSE Steps[Rank(step) + 1]
NextStep(step) == Steps[Rank(step) + 1]

NoFile == [step |-> "unconfigured", fence |-> 0]

SetupInit ==
    /\ file = NoFile
    /\ staged = None /\ live = None
    /\ schema = [d \in Databases |-> 0]
    /\ admin = [d \in Databases |-> None] /\ made = [d \in Databases |-> 0]
    /\ secret = FALSE
    /\ request = [r \in Requests |-> Idle]

MovesTo(r, at) == request' = [request EXCEPT ![r].at = at]
Acts(r, step) == Is(r, "act") /\ request[r].state.step = step

\* What a request goes on with: the state it read or wrote last, and whether
\* it has been alone so far.  One that starts ends the solitude of the others.
Starts(r, at, k, d, state) ==
    LET alone == \A p \in Requests \ {r} : Is(p, "idle")
    IN  request' = [q \in Requests |->
            IF q = r THEN [at |-> at, alone |-> alone, key |-> k, db |-> d, state |-> state, wrote |-> 0]
            ELSE IF Is(q, "idle") THEN Idle ELSE [request[q] EXCEPT !.alone = FALSE]]
GoesWith(r, at, state) ==
    request' = [request EXCEPT ![r] = [@ EXCEPT !.at = at, !.state = state]]

-----------------------------------------------------------------------------
(* POST /api/v1/setup/complete and the fencing token                       *)

Begin(r, k, d) ==
    /\ Is(r, "idle") /\ file.step # "installed" /\ secret
    /\ Starts(r, "acquire", k, d, NoFile)
    /\ UNCHANGED <<file, staged, live, database, secret>>

\* createSetupActions takes over the request's connections, then acquire
\* reads the file.
AcquireRead(r) ==
    /\ Is(r, "acquire") /\ file.fence < MaxFence
    /\ live' = request[r].db
    /\ GoesWith(r, "lock", file)
    /\ UNCHANGED <<file, staged, database, secret>>

Returns(state) == IF state.step = "installed" THEN "finish" ELSE "act"

AcquireWrite(r) ==
    /\ Is(r, "lock")
    /\ LET state == [request[r].state EXCEPT !.fence = @ + 1]
       IN  file' = state /\ GoesWith(r, Returns(state), state)
    /\ UNCHANGED <<staged, live, database, secret>>

\* setup_lock_lost, setup_transition_invalid.
MayMove(state) == file = state

TransitionRead(r) ==
    /\ Is(r, "read") /\ MovesTo(r, IF MayMove(request[r].state) THEN "write" ELSE "failed")
    /\ UNCHANGED <<file, staged, live, database, secret>>

TransitionWrite(r) ==
    /\ Is(r, "write")
    /\ LET state == [request[r].state EXCEPT !.step = NextStep(@)]
       IN  file' = state /\ GoesWith(r, Returns(state), state)
    /\ UNCHANGED <<staged, live, database, secret>>

\* The secret is of no use any more: its file is removed.
Finish(r) ==
    /\ Is(r, "finish")
    /\ secret' = FALSE
    /\ request' = [request EXCEPT ![r] = Idle]
    /\ UNCHANGED <<file, staged, live, database>>

\* The answer to a setup that failed.
Answer(r) ==
    /\ Is(r, "failed") /\ request' = [request EXCEPT ![r] = Idle]
    /\ UNCHANGED <<file, staged, live, database, secret>>

\* A data service, the file system or the hash of the password fails.
Interrupted(r) ==
    /\ request[r] # Idle /\ request' = [request EXCEPT ![r] = Idle]
    /\ UNCHANGED <<file, staged, live, database, secret>>

\* The configuration file is written and never read: the environment decides.
Restart ==
    /\ request' = [r \in Requests |-> Idle] /\ live' = None
    /\ UNCHANGED <<file, staged, database, secret>>

-----------------------------------------------------------------------------
(* The actions of the steps                                                *)

StageConfiguration(r) ==
    /\ Acts(r, "unconfigured")
    /\ staged' = request[r].db /\ MovesTo(r, "read")
    /\ UNCHANGED <<file, live, database, secret>>

StartMigration(r) ==
    /\ Acts(r, "config_staged") /\ MovesTo(r, "read")
    /\ UNCHANGED <<file, staged, live, database, secret>>

Migrated(d) == schema[d] = Writes

\* A statement has been run whose migration has no row in the journal.
Halfway(d) == schema[d] \notin {0} \cup Rows

\* Mutant: the migration begins with the first statement, whatever the journal says.
FirstRow(p, d) == p = 0

\* migrate(): the last row of the journal says where to begin.
LastRow(p, d) ==
    /\ p \in {0} \cup Rows /\ p <= schema[d]
    /\ \A q \in Rows : q <= schema[d] => q <= p

Migrates(r, at, wrote) ==
    request' = [request EXCEPT ![r] = [@ EXCEPT !.at = at, !.wrote = wrote]]

ReadJournal(r) ==
    /\ Is(r, "journal") \/ Acts(r, "migrating")
    /\ \E p \in 0..Writes : LastRow(p, request[r].db) /\ Migrates(r, "migrate", p)
    /\ UNCHANGED <<file, staged, live, database, secret>>

\* CREATE TABLE, ALTER TABLE and CREATE INDEX are refused the second time.
\* A row follows a statement of the same connection: nobody else wrote it.
RunStatement(r) ==
    /\ Is(r, "migrate") /\ request[r].wrote < Writes
    /\ LET d == request[r].db
           n == request[r].wrote + 1
       IN  IF schema[d] >= n
           THEN Migrates(r, "failed", 0) /\ UNCHANGED schema
           ELSE Migrates(r, "migrate", n) /\ schema' = [schema EXCEPT ![d] = n]
    /\ UNCHANGED <<file, staged, live, admin, made, secret>>

\* The operator's command ends here.
EndMigration(r) ==
    /\ Is(r, "migrate") /\ request[r].wrote = Writes
    /\ IF request[r].key = None
       THEN request' = [request EXCEPT ![r] = Idle] ELSE Migrates(r, "read", 0)
    /\ UNCHANGED <<file, staged, live, database, secret>>

Repeated(r) == admin[request[r].db] = request[r].key

\* ensureAdministrator: the transaction reads first, and the primary key of
\* its setting lets one of two concurrent transactions commit.
CheckAdministrator(r) ==
    /\ Acts(r, "schema_ready")
    /\ LET usable == schema[request[r].db] >= Usable
       IN  MovesTo(r, IF usable /\ Repeated(r) THEN "read"
                   ELSE IF usable /\ admin[request[r].db] = None THEN "insert"
                   ELSE "failed")
    /\ UNCHANGED <<file, staged, live, database, secret>>

\* Mutant: the setting has no primary key.
InsertsAny(d) == TRUE
Inserts(d) == admin[d] = None

InsertAdministrator(r) ==
    /\ Is(r, "insert")
    /\ LET d == request[r].db
       IN  IF Inserts(d)
           THEN /\ admin' = [admin EXCEPT ![d] = request[r].key]
                /\ made' = [made EXCEPT ![d] = @ + 1] /\ MovesTo(r, "read")
           ELSE MovesTo(r, "failed") /\ UNCHANGED <<admin, made>>
    /\ UNCHANGED <<file, staged, live, schema, secret>>

AdministratorExists(r) ==
    /\ Acts(r, "admin_created")
    /\ MovesTo(r, IF admin[request[r].db] # None THEN "read" ELSE "failed")
    /\ UNCHANGED <<file, staged, live, database, secret>>

-----------------------------------------------------------------------------
(* The operator's commands                                                 *)

IssueSetupSecret ==
    /\ file.step # "installed" /\ secret' = TRUE
    /\ UNCHANGED <<file, staged, live, database, request>>

SecretExpires ==
    /\ secret /\ secret' = FALSE
    /\ UNCHANGED <<file, staged, live, database, request>>

ApplyMigrations(r, d) ==
    /\ Is(r, "idle") /\ Starts(r, "journal", None, d, NoFile)
    /\ UNCHANGED <<file, staged, live, database, secret>>

\* setup reconcile: the administrators are counted, the file is read ...
Reconcile(r, d) ==
    /\ Is(r, "idle") /\ file.step = "admin_created" /\ admin[d] # None
    /\ Starts(r, "settle", None, d, file)
    /\ UNCHANGED <<file, staged, live, database, secret>>

\* ... and written, whoever has written it since.
ReconcileWrite(r) ==
    /\ Is(r, "settle")
    /\ file' = [request[r].state EXCEPT !.step = "installed"]
    /\ request' = [request EXCEPT ![r] = Idle]
    /\ UNCHANGED <<staged, live, database, secret>>

SetupNext ==
    \/ \E r \in Requests :
          \/ AcquireRead(r) \/ AcquireWrite(r) \/ TransitionRead(r) \/ TransitionWrite(r)
          \/ Finish(r) \/ Answer(r) \/ Interrupted(r)
          \/ StageConfiguration(r) \/ StartMigration(r) \/ ReadJournal(r)
          \/ RunStatement(r) \/ EndMigration(r)
          \/ CheckAdministrator(r) \/ InsertAdministrator(r) \/ AdministratorExists(r)
          \/ ReconcileWrite(r)
    \/ \E r \in Requests, k \in Keys, d \in Databases : Begin(r, k, d)
    \/ \E r \in Requests, d \in Databases : Reconcile(r, d) \/ ApplyMigrations(r, d)
    \/ Restart \/ IssueSetupSecret \/ SecretExpires

SetupSpec == SetupInit /\ [][SetupNext]_setupVars

-----------------------------------------------------------------------------
(* Properties                                                              *)

\* What the state file says is done is done: over crashes, requests with
\* other connections and writes of a file read too early, an installation is
\* never recorded further than its configuration, schema and administrator.
RecordedStepHolds ==
    /\ Reached("config_staged") => staged # None
    /\ Reached("schema_ready") => \E d \in Databases : Migrated(d)
    /\ Reached("admin_created") => \E d \in Databases : admin[d] # None

\* However many requests run side by side or one after the other, with
\* whatever keys, setup inserts one administrator into a database.
OneAdministrator == \A d \in Databases : made[d] <= 1

\* Not the connections or not the key of those before: the administrator came
\* with another key, or another database was used.
MetAnother(x) ==
    \/ admin[x.db] \notin {None, x.key}
    \/ \E d \in Databases \ {x.db} : schema[d] # 0

\* A setup that fails may be retried ("can safely be tried again",
\* system-routes.ts:306), unless it stopped inside a migration: a
\* request that runs alone, with the connections and the idempotency key of
\* the requests before it, is refused only by a database in which a statement
\* of a migration was run and its journal row was not written.
SafeRetry ==
    \A r \in Requests : Is(r, "failed") /\ request[r].alone =>
        MetAnother(request[r]) \/ Halfway(request[r].db)
=============================================================================
