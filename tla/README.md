# TLA+ models of Remote Control Hub

Remote Control Hub lets the owner of several Windows machines send them media,
volume and power commands from a web page.  A Node server (`apps/server`) keeps
accounts, devices and command batches in MySQL and Redis, and holds one
WebSocket per device.  On each machine a Rust service (`agent/apps/agent-service`)
keeps that connection, remembers the commands in a ledger file, and passes them
over a named pipe to a program of the logged-in session, which calls Windows.

These modules model the parts that have to be right when nobody looks.  A command
with a side effect (a shutdown, a key press) travels over two processes, a
socket, a database and a file, each of which may fail at any point.  Who may send
it is decided by sessions, second factors and accounts that several requests read
and write at once.  Setup and the web page's updates are written step by step and
may stop at any of them.  The modules were
written from the source; the `map` of `PROJECT.json` names the lines every
definition translates.  Paths below are relative to the repository.

## 1. The system

### Components, their state and their operations

| component | source | state | operations | what makes it correct |
|---|---|---|---|---|
| agent command ledger | `agent/crates/agent-core/src/lib.rs` | `commands`, `command_order`, `queue`, a snapshot file and its two neighbours | `accept`, `dequeue`, `finish`, `open`, `persist` | a stop or an I/O error at any file-system call leaves the state before or after the call; unfinished commands are never forgotten |
| agent service command path | `agent/apps/agent-service/src/network.rs`, `main.rs` | the ledger, the step of `process_command`, the connection | receive, acknowledge, dequeue, announce, execute, record, report; reconnect; restart | a command is executed at most once, and never after its end was reported |
| command coordinator | `apps/server/src/commands/coordinator.ts` | devices, commands, batches, queues, sequence numbers, all in memory | `createBatch`, `dispatchNext`, `handleAgentResult`, `transition`, `expire`, `restore`, `restoreDeviceSequence`, `upsertDevice` | FIFO per device, no number twice, no terminal state left |
| command runtime and persistence | `command-runtime.ts`, `command-persistence.ts`, `http/command-routes.ts` | `#ready`, rows of batches, commands, results | `createBatch`, `handleAgentResult`, `onDeviceConnected`, `#dispatch`, `#recover` | idempotency per key; a restart loses no open command and repeats no number |
| command delivery | both ends | the messages between them | send, result, lose, reconnect, resend | every command ends; both ends agree on how |
| device connections | `devices/device-service.ts`, `agent-connection.ts`, `device-runtime.ts`, `http/device-routes.ts` | registry (generation and sender per device), challenges, session rows | authenticate, heartbeat, replace, close, delete | one current connection per device; nothing acts for an older generation |
| device administration | `devices/admin-device-service.ts` | device and command rows | disable, revoke, delete | a disabled device has no connection and no open command |
| device enrollment | `device-runtime.ts` | tokens, devices | register | a token is used once, the limit of devices holds |
| browser sessions | `auth/session-store.ts`, the session routes | a Redis key per session, two sorted sets | create, authenticate, strengthen, list, revoke | "revoke all" finds every session that is accepted; the limit counts just those |
| sign-in factors | `auth/*second-factor*`, `*totp*`, `webauthn*` and their routes | challenges with attempts and a busy flag, TOTP counters, recovery codes, passkeys | begin, verify, complete, enroll, replace, reset | every credential is accepted once, a challenge opens one session |
| accounts and authorisation | `auth/account-service.ts`, `admin-user-service.ts`, `auth-service.ts`, `temporary-password.ts`, `action-confirmation.ts` and their routes | user rows, temporary password challenges, confirmations | register, sign in, change password, update, reset, delete | one administrator stays, signing in with a temporary password sets one password, a confirmation serves once |
| first-time setup | `setup/*`, `http/system-routes.ts`, `cli/setup-management.ts` | a state file with a fencing token, the configuration file, the database | acquire, the action of each step, transition, reconcile | the recorded step was done; one administrator; a retry goes on where it stopped, unless that was inside a migration |
| session router | `agent-service/src/ipc.rs` | attached session, pending commands, a channel of 8 | attach, execute, respond, time out, detach | an answer belongs to the command that asked |
| identity, binding, updater, bootstrapper | `agent-service/src/{identity,binding}.rs`, `agent-session`, `agent-bootstrapper` | files | replace by rename, update phases | never without an identity half-way |
| web release updates | `apps/web/src/sw.ts`, `pwa/register.ts` | active release, candidate, lease, manifests, a cache per release | download, validate, navigate, confirm, fail | a release becomes active when a page runs it, and keeps its cache |
| the rest | web pages, wire formats, audit, key rotation, deployment scripts, Windows calls | none, or one transaction | | pure, sequential or outside |

### How they interact

A browser posts a batch with an idempotency key.  `CommandRuntime.createBatch`
looks the key up in the database, lists the devices, lets the coordinator make
the commands, saves the batch and dispatches.  `#dispatch` takes the head of a
device's queue from the coordinator, waits for the row to be updated, and gives
the command to the sender the device's WebSocket registered.  The agent's
`process_command` writes the command to its ledger, reports `accepted`, takes
the head of *its* queue, reports `executing`, asks the session router to execute
it, records the outcome and reports it.  `handleAgentResult` applies each report to the
coordinator, writes the row, and dispatches the next command after a terminal
one.  A reconnection dispatches the head of the queue again, whatever its state.

A page signs in at one route, which the second factor may make two: the password
opens a challenge in Redis, and a code or a passkey opens the session.  From then
on every request reads the session, may write it back with a later expiry, and
goes on with what it read.  Changes of accounts are transactions in MySQL, which
end sessions in Redis before they commit.  The administrator's requests ask for
a confirmation first, drawn for just that action.

The service worker downloads a new release into a cache of its own, tells the
pages, and one of them reloads from it as a candidate.  When that page confirms,
the worker makes the release the active one.

### What is hard

* Every `await` of the runtime lets other requests, results and disconnections
  run; what was read before it may be stale after it.
* Server, agent, connection and database fail independently; the ledger, the
  coordinator and the rows have then to be brought together again.
* The server resends until it hears of an end, the agent may not execute twice.
* Redis and MySQL share no transaction: a request reads in one call and writes in
  a later one, and may stop in between.
* Event handlers of a service worker interleave, and the browser stops it at will.
* Limits (8 unfinished commands per device, 4096 remembered by the agent, 200
  sessions, 1000 challenges) are checked in one step and used in another.

`PROJECT.json` lists these hazards line by line, with the properties that would
notice them going wrong.

## 2. The modules

| module | models | checked by | proved in |
|---|---|---|---|
| `Queues` | filtering a queue in place | | `Queues_proofs` |
| `CommandLedger` | the ledger as a value: each Rust method is an operator from ledger to ledger | | `CommandLedger_proofs` |
| `DurableLedger` | abstract: memory, a durable ledger, a call that commits at one moment | refined by `FileCommandLedger` | |
| `FileCommandLedger` | `open`, `persist` and the callers, one file-system call per action | `FileLedger` | `FileCommandLedger_proofs` |
| `AgentService` | `process_command` and the reconnecting loop over the durable ledger | `AgentExecution` | `AgentService_proofs` |
| `CommandCoordinator` | the methods of the coordinator in any order | `Coordinator` | `CommandCoordinator_proofs` |
| `CommandRuntime` | concurrent tasks over one coordinator and the database; recovery and crashes | `Runtime` | `CommandCoordinator_proofs` |
| `CommandDelivery` | coordinator and agent service composed over one connection | `Delivery` | `AgentService_proofs` |
| `DeviceConnections` | the agents' WebSockets at the server, the registry, and the calls that end connections | `DeviceConnections` | `DeviceConnections_proofs` |
| `SessionRouter` | the executor: the service's router, its handlers, the pipes, and the programs of the sessions | `SessionRouter` | `AgentService_proofs` |
| `BrowserSessions` | session keys, sorted sets, their times to live, and the requests over them | `Sessions` | `SignInFactors_proofs` |
| `Accounts` | accounts, passwords, confirmations, the administrators' transactions | `Accounts` | `Accounts_proofs` |
| `SignInFactors` | second factor, TOTP enrollment, recovery codes, passkeys of a user | `SignInFactors` | `SignInFactors_proofs` |
| `SetupProcess` | the state file, the migrations, the setup requests, the operator's commands | `Setup` | `Accounts_proofs` |
| `WebRelease` | the service worker and the pages | `WebRelease` | `DeviceConnections_proofs` |
| `Handlers` | where the requests of a route stand, shared by three modules above | | |
| `MC*` | bounds and symmetry for TLC | | |

### How state and actions correspond to the code

**CommandLedger.**  A ledger is the record `[commands, order, queue]`.
`order` is the map's `command_order`; a command that is not in the map is
`absent`.  Evicting (`RemoveOldestTerminal`) leaves `queue` alone, as the code
does, and `Recover` is the loop of `open` that turns `executing` into
`outcome_unknown` and rebuilds the queue.

**FileCommandLedger.**  `path`, `previous`, `temporary` are the three files,
each missing, partial or whole.  `persist` is `CreateTemporary`,
`WriteTemporary`, `RemovePrevious`, `RenamePath`, `RenameTemporary`,
`RemoveRecovery`, `SyncParent`, each of which may instead be `IoError`; `Crash`
may come anywhere.  Memory changes before the first of them (`Perform`), so
after an error memory is ahead of the file and the service goes on, as in the
code.  Renames that returned are taken to survive: the *process* stops, the disk
does not lose writes.

**AgentService.**  `agent` is the place in `process_command`.  A ledger call is
`Store`: memory has the result; the snapshot has it too, or the call failed with
the snapshot old or new and the connection is dropped.  This is what
`DurableLedger` allows, and `FileCommandLedger` is shown to implement.
The executor returns any outcome of `ExecutorOutcomes`.  `Expire` is the clock.
The server is any server: it may send any command at any time, except one the
ledger had to forget, which would take 4096 later commands.

**CommandCoordinator.**  `status`, `deviceOf`, `sequenceOf` are the fields of
`#commands`; `queue`, `sequences`, `batches`, `devices` the other maps.  A method
that throws half-way keeps what it had done before it threw: `Create` queues the
commands of the targets before the refused one (`Reached`), and `Expire` the
expiries before the command that may not expire.  Numbers are JavaScript's: a
number past `SafeIntegers` makes the restore throw.  Terminal commands and
batches stay in memory, as in the code.

**CommandRuntime.**  EXTENDS the coordinator: its methods are called by the tasks.  JavaScript runs from one `await` to the next without
interruption, so one action is the code between two awaits.  A call in
progress is a record in `task` with the await it stands at; a transaction takes
effect in an action of its own and may fail before it (`"lost"`) or fail after
it (`"unknown"`: the reply was lost).  `server` is the state of `#ready`, which
recovery sets once per process; `Crash` forgets the memory, the connections and
the tasks, and keeps the rows.  `FailCommands` is the administrator's update of a
device's rows.

**CommandDelivery.**  EXTENDS `AgentService` and instantiates the coordinator:
every step of one end is its action of the component's module, joined with
what it puts on or takes off the connection.  `RefuseCommand` is the step a full
ledger refuses: the connection drops.  The database answers at once and
the agent's disk does not fail, since the two other modules cover that.
`Undisturbed` says that nothing was lost, stopped or expired so far.

**DeviceConnections.**  A socket is one connection attempt; `handler` is the
await at which its `handleMessage` stands, `line` what the server knows of the
socket.  `Hello`, `FindDevice`, `Challenge` are `#begin`; `Authenticate`,
`Record`, `Register` (or `Undo`) are `authenticate` and what the route does in
the same turn of the event loop.  `registry` is `DeviceConnectionRegistry`,
`liveSockets` the route's own map; both hold a generation and a socket.  A socket may
close at any time (`Closed`), also while its handler awaits the database, and
the handler goes on.  A transaction may fail before or after its commit.
The administrator's calls (`Disable`, `RevokeCredentials`, `Delete`) and the
owner's or the device's own (`DeleteDevice`, `UnregisterDevice`) are two steps,
the transaction (`Deactivate`) and `ForceDisconnect`, between which everything else
may run; deleting a user revokes each of its devices, which is as many calls as it
has devices.
`missed` is history: the sockets that such a call could not disconnect.

**SessionRouter.**  `call` is the await `execute` stands at; there is one call
at a time (`StartCall` to `ReceiveReply`), as `process_command` awaits it.  A session is one connection to the
pipe, with the service's handler (`handler`, `channel`, `pending`) and the
program's loop (`performing`, `asking`) at its ends.  `select!` drops the read
that is under way when it takes a command or a request: `ReadHalf`, `HearHalf`
say that a part of a frame was read, and `GiveUpRead` that the rest will be
taken for a frame.  `TimeOut` may come at any time.  The exits of the handler by
`?` end it without detaching (`End`), those by `break` detach first (`Break`,
`Detach`).  A session may hang (it simply does nothing) or go (`Leave`).  `lost`
is history: commands whose handler ended after they were written to the session.
A response for another command than the pending one (the second disjunct of
`ReadResponse`) is modelled too.

**BrowserSessions.**  A session has a key (`keyExpiry`), an entry in its user's
sorted set (`userSet`, with one time to live for the set, `setExpiry`) and one in
the set that is counted (`activeSet`).  The Lua scripts are atomic: `Save` is the
one that creates and updates, `Remove` the ones that revoke.  A request is what
its route awaits: `write` holds the session it read and the moment it read the
clock, which is where revocations and other writes come in between.  `Tick` is the
clock of server and Redis alike; the absolute expiry is taken to be far.  A user
has one passkey.

**Accounts.**  `row` is what is committed; `lock` is InnoDB's row lock, held by a
transaction until `Commit` or `Rollback`.  A plain `SELECT` sees committed rows
(`Login`), a locking one waits.  `AssertAdminInvariant` locks all active
administrators, as its `FOR UPDATE` does, and waits until it can.  `Fail` stops a
request anywhere: its transaction rolls back, what it did in Redis stays.  The
sessions of a user are the set of roles they carry; `EndSessions` and
`OpenSession` are two calls.  A confirmation is issued for one action on one
target, taken with `GETDEL`, and only then compared.  `epoch` numbers the
temporary passwords of a user; a challenge has the one it was given for.
`BeginPasswordChange` takes a temporary password for the current one, as
`changePassword` does.  Two awaits are drawn together: `Consume` looks for the
administrator's session where it takes the confirmation, and
`SetRegistrationMode` sets the mode there.  A passkey, which opens a session
beside a temporary password too, is in `SignInFactors` only.

**SignInFactors.**  All of it is per user, so there is one.  `login` and
`enrollment` hold challenges with `attempts` and `busy`, which the two pairs of
scripts (`MayBegin`/`Begun`, `Finished`) change.  A TOTP code is a pair of an
authenticator and a time step, a recovery code the one code of its batch.  Checking a
TOTP code (`FindTotp`) and recording its counter (`RecordTotpCounter`) are two statements;
`Lost` stops a request between any two of its steps.  Passkeys: `Draw` and
`ConsumeCeremony` are the challenge manager, `FindCredential`, `UpdateCounter` and
`SaveCredential` the rows.  A statement that committed may lose its reply
(`Committed`): then the call throws and the attempt ends as a failed one.  The actions named after routes begin the request: they
stand for the handler with its checks, and the calls it makes are the actions that follow.

**SetupProcess.**  `file` is the state file; `acquire` and `transition` read it
(`AcquireRead`, `TransitionRead`) and write it (`AcquireWrite`,
`TransitionWrite`) in separate calls.  Requests carry a key and a database;
`live` is the connection every request overwrites.  `Interrupted` and `Restart` stop
them anywhere.  `alone` is history: no other request ran while this one did.
A migration is its writes in their order, `Writes` of them, with the journal row of
each migration (`Rows`) after its statements; `schema` counts what a database has.
`ReadJournal` finds the last row, and `RunStatement` runs the next
statement, which fails when its table, column or index is there already.  The two
migrations of `apps/server/drizzle` are 43 writes, with the rows in the places 41 and 43 and the
users table, the last that setup needs, in place 14 (`Usable`); the theorems hold for
any such numbers.  A statement that MySQL still runs after its client has stopped
is not modelled, and `IssueSetupSecret` reads and writes in one step.

**WebRelease.**  A task is one event of the worker at the await it stands at;
`read` in a task is a candidate it will write back.  A navigation has the three
identifiers of its event: `from` (`clientId`), `replaces` (`replacesClientId`, which a
browser may not have: `Absent`) and `to`.  `AssignClient` deletes the candidate's source, so that both are
undefined and equal for the next navigation in such a browser, whatever page it is of
(`StartsCandidate`).  `InspectCandidate` is the read of the manifest, the question to the API and
the count of the cache in one step; so are, for a page that stays with its candidate, the look into the cache and the
manifest.  `page` is what a tab shows and what its page
knows.  `Cut` says that a cache that was deleted while a task held it is another one from
then on.  `raced` is history: when the release was activated, another task was at work on it, or its
cache had been deleted since it was inspected.

### The abstract specification

`DurableLedger` is what `process_command` needs of `FileCommandLedger`: a call
changes memory at once and the durable copy at one moment, or not at all when it
fails; a crash forgets memory; opening recovers from the durable copy.
`RefinesDurableLedger` maps the durable copy to the file `open` would read
(`path` when it exists, else `previous`), so the commit point is
`RenameTemporary`, except that after `RenamePath` the old content is found
in `previous`.

## 3. The runs

| run | bounds | shows |
|---|---|---|
| `FileLedger` | 2 commands, capacity 1, 2 queued | no half-written snapshot is ever read (`NeverTorn`), order, map and queue fit together (`LedgersWellFormed`), unfinished commands are never evicted (`NonTerminalKept`), refinement |
| `AgentExecution` | 3 commands, capacity 2, 3 queued, 2 outcomes | `AtMostOnce`, `HandedIsDurable`, `SettledNotHanded` over resends, write errors, evictions, losses and restarts |
| `Coordinator` | 2 commands, 2 devices, queue limit 2, numbers to 2 | `QueuesAreOpenCommands`, `SequencesUnique`, `SentInOrder` over all orders of the methods, with batches that fail half-way |
| `Runtime` | 2 commands, 2 keys, 2 tasks, both faults, restarts | `PerKeyOnce`, `IdempotentAnswers` under concurrent repetition, lost replies, crashes, disabling; `NumbersFresh`, `RowsRecovered` |
| `Delivery` | 2 commands, one mortal, a ledger of 1, one loss, one stop | both ends agree (`OutcomesAgree`) over losses, stops of the agent and expiry (the server restarts in `Runtime` only); what is undisturbed ends (`EveryCommandEnds`, liveness) |
| `DeviceConnections` | 2 devices, 2 sockets, 2 calls, 1 connection and 1 pending challenge allowed | `RegistryIsCurrent`, `OneOpenConnection`, `DeactivatedIsOffline`, `ErasedOnlyWhenDeleted` over closings, failing transactions and crashes |
| `SessionRouter` | 2 commands, 2 sessions, a channel of 2 | `AnswersAreOwn`, `ExecutedOnce`, `UnavailableNotExecuted`, `ExecutedInOrder` over time-outs, replaced and lost sessions and half-read frames |
| `Sessions` | 2 users, 3 sessions, 2 requests, a limit of 2, clock to 4 | every accepted session is in its user's set (`SessionsReachable`), and the limit counts just the accepted ones (`CountIsExact`), over revocations and expiries between read and write |
| `Accounts` | 2 users, 2 requests, 2 confirmations, 2 temporary passwords | `AnAdminRemains` over concurrent transactions that may roll back, `RenewedOnce`, `ConfirmedOnce` |
| `SignInFactors` | 2 requests, 1 sign-in, 1 ceremony, a passkey at the start, 2 authenticators and batches, 1 time step, 2 signature counters, 2 attempts (a second time step gives 8 million states in four minutes, and holds too) | `AcceptedOnce`, `OneSessionPerChallenge`, `CodesFollowAuthenticator` over replacement, reset and lost requests |
| `Setup` | 2 requests, 2 keys, 2 databases, fencing tokens to 2, two migrations of one statement each (tokens to 3 hold too, in five minutes on four cores) | `RecordedStepHolds`, `OneAdministrator`, `SafeRetry` over restarts, concurrent requests and migrations that stop half-way |
| `WebRelease` | 2 releases of 1 resource, 2 pages, 2 tasks, 1 nonce | `ActivatedRan`, `ActiveKeepsCache` over downloads, failures, deployments, stops of the worker and navigations of any page, with and without `replacesClientId` (5 million states) |

Why these bounds are enough to be interesting.  Two commands with a capacity of
one fill the ledger and evict, or, while the first is open, refuse the second; three with a capacity of two leave one command
in the queue while another is forgotten.  Two commands on a device are needed
for an order, two devices for a batch that fails at its second target.  Two
tasks are the least for an interleaving; two sockets of one device race for
the registry, two sockets of two devices for its last place; two commands are the
least for a late answer, two sessions for a replacement; a request that was answered or crashed
gives its task back, so there is no bound on the number of requests.  One
loss and one stop already separate every pair of steps.  Two administrators are
the fewest who can demote each other; three sessions with a limit of two fill and
overfill it; two databases and two keys are a second request with other data; a token of
2 is a second attempt, and two migrations of a statement and a row each are the least in which one
is done and the other half-done; two
releases are an update, and the way back.  `MaxSequence`,
`MaxQueue`, `MaxLosses`, `MaxStops`, `MaxTime`, `MaxEpoch`, `MaxFence` bound the
counters; the first two through a CONSTRAINT, the others in guards.  Command identifiers, keys and tasks are symmetric; no run of a
liveness property uses symmetry.  Runs whose cfg turns deadlock off are of
systems that may stop: all commands are used up.

### Fairness

Only `CommandDelivery` assumes any.  Weak fairness of the agent's steps
(`process_command` is a loop whose waits have time limits: the session router
answers within 15 seconds, unless its channel is full of eight timed-out
commands, which these runs do not have), of the reconnecting loop (it retries for
ever, `network.rs:225`), of a restart of the service (Windows restarts
it), and of the server's tasks (the event loop).  Nothing is
assumed of users, of the network's failures, or of crashes.

## 4. The proofs

Checked by `tlapm`; nothing is assumed but the named assumptions on the constants.

* **`FileCommandLedger_proofs`**: `TypeOK`, `NeverTorn` and the refinement of
  `DurableLedger`.  The invariant adds to `NeverTorn` what each step of
  `persist` knows of the three files (`StepOK`): for example that `temporary`
  is whole when it is about to be renamed.  Without it the rename could move a
  partial file.  `LedgersWellFormed` (`Bookkeeping`) is inductive over memory and all
  three files once `NeverTorn` is known, and `NonTerminalKept` is an action property
  that needs it: an eviction removes the oldest terminal command and no other,
  only when the order and the map agree.  The step simulation goes action by action: all
  but `RenameTemporary` are stutters of the abstract ledger.
* **`AgentService_proofs`**: `AtMostOnce`, `HandedIsDurable`,
  `SettledNotHanded`.  None is inductive: a command that was executed must be
  kept out of the queues of *both* copies, in memory and on disk, as a crash may
  exchange one for the other at any time.  `Spent(c)` says so, and that the
  command is known, so that a resend cannot queue it again.  The invariant is:
  executed commands are spent, commands whose end is recorded or reported are
  spent, queued commands have not started, and queues have no duplicates.
  `MoveKeeps` shows that a ledger call preserves it whichever of the two copies is
  written; `AcceptMove`, `DequeueMove` and `FinishMove` that the three calls are such moves.

  *Both ends together* (`CommandDelivery`): `OutcomesAgree`, and that the composed
  agent is an agent of `AgentService` (`ServiceInDelivery`), which allows the server
  everything but to send a command the ledger forgot.  Why the server cannot is the heart of both.
  The coordinator sends a command when those before it are over (`ServerInv`); so
  whatever is on its way is later than all the agent has seen, and than all that is on
  its way before it (`Carried`); what the agent forgot is over, and is never sent again.
  Then every result on its way tells how its command ended (`Heard`), which stays so over evictions
  because the copies of the ledger agree on it (`CopiesOK`), and the server's end is one it heard
  (`EndsOK`).  All of it is for any number of commands and devices and any capacity.

  *The session router* (`SessionRouter`): `AnswersAreOwn`, `ExecutedOnce`,
  `UnavailableNotExecuted` and `ExecutedInOrder`, for any commands, sessions and capacity of the
  channel.  What a session executed, its pipe and its channel hold are one line, without
  repetition and in the order of the calls, and no command is in the lines of two sessions
  (`InLine`).  To that come what the pending call says of the command (`CallsOK`), that a dropped one is nowhere (`DroppedOK`),
  and that an outcome on its way back was that of an execution (`OwnOK`).
* **`CommandCoordinator_proofs`**: the queue of a device is exactly its open
  commands in ascending number (`QueuesAreOpenCommands`), which is inductive
  only with `SequencesUnique`: commands of equal numbers have no order.
  From it: `SentInOrder`.  `restore` sorts the queue, which is the hardest step
  (`RestoreIInv`), after `createBatch` over several targets (`CreateIInv`).

  *The runtime* (`CommandRuntime`): `PerKeyOnce`, `IdempotentAnswers`, `NumbersFresh` and
  `RowsRecovered`, for any number of tasks, commands, keys and devices and any faults and crashes.
  Memory and rows are written apart and read apart, so the invariant (`RuntimeInv`) says how far
  each may be from the other.  A batch in memory belongs to its commands, its numbers are
  used up, and it is what the rows of its key hold, if any (`BatchesOK`); rows of two keys
  share no command and no number of a device (`RowsOK`); what memory and rows both
  have of a command is the same (`CommandsOK`).  `CallOK` carries this over the awaits: a call may save
  only what memory still holds, and sends and answers only what has rows.  That
  a command reaches a device only after its row is known to exist is what makes it one per key (`DoneOK`), as
  the foreign key of `Write` refuses a command whose batch was lost.  `PhaseOK`
  follows the restart: until its end nobody runs but the recovery, and what it made known has a row.
  The proof takes from the code that `randomUUID` does not repeat, and that an identifier
  is none of the two words a refused target has in its place (`IdsAssumption`).
  `OrderUnderTasks` is what the coordinator promises (`SentInOrder`, right queues and numbers) in the
  hands of those tasks.
* **`DeviceConnections_proofs`**: the five invariants of the connections, for any
  number of devices, sockets and calls and any limits.  `OneOpenConnection` alone is
  not inductive: that `Register` closes the only other open socket needs that the
  *route* still knows it when the registry does not (`RouteOK`), and that a close event
  takes down no other connection needs that a generation belongs to one socket of a
  device (`GenerationsOK`, `NamesOK`).  For `DeactivatedIsOffline`: a socket that is
  recorded for a device out of use was missed by the call (`MissedOK`), since the
  transaction of `recordAuthenticated` looks at the device under a lock.
  For `ErasedOnlyWhenDeleted`: who read `deleted` stays right, as no row leaves
  that state (`ReasonsOK`).

  *The page's updates* (`WebRelease`): `ActivatedRan` and `ActiveKeepsCache`, for any
  releases, resources, pages and events at once.  A release is promoted on a word that
  travels over three awaits, so the invariant follows it: a navigation is the only one of
  its page (`LoadsOK`), a page that may confirm was started from what it names (`SeatsOK`), and a
  task about to activate holds that word (`WordOK`).  For the cache: a download that stored so many
  resources has a cache of as many, unless it was cut (`StoreOK`), and nothing that would
  delete or rewrite it is at work on the active release, nor does a candidate lead there
  (`ActiveOK`), unless its activation raced.
* **`Accounts_proofs`**: `AnAdminRemains`, `ConfirmedOnce` and
  `RenewedOnce`, for any users, requests, confirmations and any choice of
  changes.  That an administrator remains follows from the locks: a transaction
  that has passed the count and may cost an administrator still holds the row of
  another one (`GuardOK`), and only the holder of a row changes its status or
  role (`LockOK`).  Neither says anything without the other: the count alone
  is stale once it was read.  For temporary passwords `FutureOK` says that
  nobody holds a right to an epoch that was not given up yet, and `HoldersOK`
  that one request or one challenge holds each right, until it is used.  A change
  of password in a session takes the right away and gives none.  A
  reset in the meantime gives a new epoch, and with it a new right.

  *First-time setup* (`SetupProcess`): `RecordedStepHolds`, `OneAdministrator` and
  `SafeRetry`, for any requests, keys, databases, migrations and statements.  `ProgressOK` says that whatever step the file
  has, or any request read from it or will write to it, was done: so a stale write takes the step
  back and never ahead.  An administrator is inserted into a database at most once
  (`InsertedOK`), and while a request is alone nobody replaces what it relies on (`AloneOK`): what the
  database has when it reads the journal is all its statements meet.
* **`SignInFactors_proofs`**: `AcceptedOnce`, `OneSessionPerChallenge` and
  `CodesFollowAuthenticator`, for any number of requests, challenges, authenticators,
  codes, time steps and attempts.  A TOTP code is safe between its check and the
  statement that records it since no later step of the enabled authenticator
  was accepted yet (`TotpOK`), whatever the request read before.  A challenge that
  is not busy has no attempt on its way and opened nothing (`SessionOK`); an attempt that
  is lost leaves it busy, and that is what makes a second one impossible.  The batches
  of recovery codes are drawn in order (`InOrder`), so a new set is always the last.

  *Browser sessions* (`BrowserSessions`): `SessionsReachable` and `CountIsExact`, for
  any users, sessions, requests and times to live.  A session that is accepted is in its user's
  set and in the counted one with its own expiry, its key and the user's set outlive it, and what
  the counted set has besides is over (`KeysOK`); the limit bounds the rest (`CountOK`).  A request that will write a session back
  has read the clock in the past and before its session expires (`InTime`), and that is
  what makes the write agree with the sets whatever was revoked in between.
* **`Queues_proofs`, `CommandLedger_proofs`**: the lemmas on filtering and on
  the ledger's operators that the above cite by name.

Out of the prover's reach, and so only model-checked: liveness
(`EveryCommandEnds`).  Every other property of a run is a theorem.

## 5. Not modelled

Payloads, capabilities other than the type, names, formatting, rate limits, cookies, the audit
trail (one insert per event), the event stream to browsers and read-only queries.
Device enrollment is one transaction under the locks of the rows it reads.  The
agent's identity files are replaced by the same calls as the ledger's snapshot.
The updater, the bootstrapper, the deployment scripts and the rotation of the TOTP
keys are sequences run by one process; the Windows calls are an outcome of
`SessionRouter`.  `loadRecoverable` stops at 8000 open commands (`command-persistence.ts:311`), more than the
models have.  In `BrowserSessions` a set whose time to live was written into the past goes at the next
`Tick` and not at once, a change of password ends the sessions and draws the next one
in one step, and the strength `password_totp` is left out.  Of the service worker, its own installation and
`ACTIVATE_WORKER` are left out.  Where a clock matters (`SecretExpires`,
`LoginExpires`, `TimeOut`, ...) an expiry may come at any time; only
`BrowserSessions` counts.

## 6. What the code does not do

Found while modelling; the properties of section 3 are stated around them, and the hazards
of `PROJECT.json` name them at their lines.

Commands:

* **An expired command is executed.**  `process_command` finishes an expired command
  without taking it off the queue (`network.rs:451`); the `dequeue` for the next
  command takes it, and it is executed, although `README.md:46` gives every command an expiry.
  For the same reason an expired command that was evicted in the meantime
  comes back into the map, which then exceeds its capacity; the next `open` refuses
  such a snapshot.
* **Recovery never ends.**  `expire` throws at an executing command whose time has
  passed (`coordinator.ts:231`), and `#ready` stays rejected for the process.
* **A failed command is open again.**  Disabling a device fails its rows
  (`admin-device-service.ts:190`); the coordinator, which was not told, writes
  them again.
* **A command that never ends.**  After a lost connection the server resends;
  the agent answers with states the server does not allow there, the connection
  is closed, and the same happens again.  A stop of the agent does the same: its
  `outcome_unknown` is refused (`coordinator.ts:200`).  Hence `Undisturbed` in
  `EveryCommandEnds`.
* A batch refused at its second target leaves the command of the first one queued,
  without batch or row (`coordinator.ts:108`).  Of two identical requests at the same time
  the second is answered with a conflict (`command-persistence.ts:413`).  Two updates of
  one command may commit in the other order (`:427`), so that the row is behind
  until the next one.  A command that failed with `device_offline` may be sent by a
  `#dispatch` that had awaited its update (`command-runtime.ts:153`).

Devices and the agent's sessions:

* A socket that closes while `authenticate` awaits the database is registered
  afterwards, and its device counts as online until the next connection, as the heartbeat's
  time-out closes a closed socket (`device-routes.ts:1102`).  A call that
  disables a device and fails after its commit leaves it connected
  (`admin-device-service.ts:113`), and so does an authentication whose transaction came
  before the call's and whose registration came after it.
* A command whose session goes after it called Windows and before it answered
  is reported `failed` (`ipc.rs:113`), where `README.md:47` wants `outcome_unknown`:
  the exception `lost` of `UnavailableNotExecuted`.  A command that timed out is
  executed when its session wakes up, after the agent reported it, and then
  perhaps after commands of the session that replaced it: `ExecutedInOrder` is
  per session.  A call that finds the channel full waits without a limit
  (`ipc.rs:106`).  A handler that leaves by `?` stays attached, and every command
  fails until the next session attaches.

Sign-in and accounts:

* **A temporary password sets two passwords.**  A session opened by a sign-in that
  read the row before an administrator's reset, or by a passkey, may give the temporary password
  as its current one: `changePassword` asks for neither `must_change_password`
  nor the expiry (`account-service.ts:160`), and writes by the identifier of the user alone.  Once this
  request and the sign-in that exchanges the same password are under way, neither stops the other, where
  `account-service.test.ts:114` speaks of a one-time 24-hour credential.  `Accounts` has this behaviour
  (`BeginPasswordChange`); what holds in it is that *signing in* with
  the password sets one (`RenewedOnce`).  Counting the passwords that sessions set with it as well would break the property.
* **A revoked session comes back.**  `authenticate` writes a session back with the
  script that creates one (`session-store.ts:163`): a session revoked between its
  read and its write exists again, where `README.md:55` promises immediate
  revocation.  `SessionsReachable` says that the next "revoke all" finds it.
  The same write takes back a step-up verified in between.
* The sessions of a demoted user end before the commit
  (`admin-user-service.ts:160`); a sign-in that read the old row opens an
  administrator's session after it, which `requireAdminSession` trusts until it ends.
* A stop between the invalidation of a temporary password and its challenge
  (`account-service.ts:120`) leaves the user without either.  `register` reads the mode
  in a statement of its own, so that an account may appear after registration closed.
* The end of an attempt at an old enrollment clears the busy mark of the new one
  (`redis-totp-enrollment.ts:83`): one authenticator may be enabled, disabled and enabled
  again from one challenge, with its last counter empty again.  `AcceptedOnce` counts from the last
  enabling.

Setup and the web page:

* `acquire` and `transition` do not exclude each other: two requests may hold one
  token, and a write of a file read too early takes the step back, even from
  `installed` (`setup-state.ts:71`).  What is recorded was done all the same
  (`RecordedStepHolds`).
* **A setup that stops inside a migration cannot be retried.**  MySQL commits every
  `CREATE TABLE`, `ALTER TABLE` and `CREATE INDEX` by itself, and `migrate` writes
  the journal row of a migration last (`setup-actions.ts:201`); the next `migrate` begins the same migration again and
  fails at the first table that exists, as does the operator's.  `system-routes.ts:306` tells
  the user that a retry is safe, and `setup-coordinator.test.ts:68` resumes a migration that is mocked.
  `SafeRetry` excepts this case (`Halfway`) and says that nothing else stands in the
  way of a retry with the same key and connections; without the exception it fails after a
  stop behind the first statement.
* The page draws a new idempotency key for every click
  (`SetupPanel.tsx:104`): after a stop between the administrator's insert and the
  transition every retry is refused, too.  `SafeRetry` is about retries with the same key.  In standalone
  mode an administrator may be inserted into another database that is only half migrated.  The connections of any request
  replace those in memory (`setup-actions.ts:57`), and the configuration
  file it writes is not read again.
* In a browser without `replacesClientId` any navigation after the first is served the candidate and
  becomes its page, since `undefined === undefined` (`sw.ts:692`): the page that was
  to confirm it no longer may.  `ActivatedRan` holds all the same, as the page that took over runs it too.
* `failCandidate` deletes the candidate it finds (`sw.ts:640`); when it, a download or
  a validation that writes back an old candidate meets the activation of the same
  release, the active release loses its cache.  That is the exception `raced` of
  `ActiveKeepsCache`; pages then load from the network.

## 7. Plan

1. `CommandRuntime` over **DeviceConnections**: a send that goes to a closed
   socket, a connection replaced while a command is dispatched; then the
   runtime's liveness.
2. **BrowserSessions** under **Accounts**: what a session's role is worth when the
   row changed.
3. The router shown to be an executor of `AgentService`.
4. The updater of the session program and the worker's own installation.
