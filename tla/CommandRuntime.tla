--------------------------- MODULE CommandRuntime ---------------------------
(***************************************************************************)
(* The server's command runtime: HTTP requests, device connections and     *)
(* agent results as concurrent tasks over one CommandCoordinator, with the *)
(* database behind every await.  JavaScript runs a task without            *)
(* interruption from one await to the next: that is one action.  A         *)
(* transaction takes effect in the database in one action and the reply    *)
(* resumes the task in another.  The server may crash between any two.     *)
(***************************************************************************)
EXTENDS CommandCoordinator

CONSTANTS
    Owned,         \* the devices the owner has
    Disableable,   \* the devices an administrator may disable
    Results,       \* the statuses agents answer with
    Tasks,         \* the calls that may be in progress at the same time
    Faults,        \* how a transaction may fail: "lost" has no effect, "unknown" has
    None           \* no key, request or command

ASSUME OwnedAssumption == Owned \subseteq Devices
ASSUME ResultsAssumption ==
    Results \subseteq {"accepted", "executing", "succeeded", "failed", "expired", "outcome_unknown"}
ASSUME FaultsAssumption == Faults \subseteq {"lost", "unknown"}
ASSUME NoneAssumption == None \notin Keys
ASSUME IdsAssumption == {"unsupported", "device_offline"} \cap CommandIds = {}

VARIABLES
    server,         \* "down", "restoring", "expiring", "ready", or "stuck": #ready rejected
    late,           \* the expired commands #recover has still to write
    connected,      \* the devices whose connection has a sender
    task,           \* the calls in progress
    saved,          \* the status in the row of each command, or "absent"
    savedBatches,   \* the rows of a batch and its commands, by idempotency key
    keyOf,          \* history: the key each command was created for
    delivered,      \* history: the <<device, command>> pairs given to a sender
    answered        \* history: the batches requests were answered with, by key

rows == <<saved, savedBatches>>
history == <<keyOf, delivered, answered>>
runtime == <<coordinator, server, late, connected, task, rows, history>>

\* A call in progress.  `step` is what it awaits or will do; `rest` the devices
\* createBatch has still to dispatch to; `read` the status an UPDATE carries;
\* `purpose` why the command is written.
Idle == [step |-> "idle", key |-> None, request |-> None, rest |-> {},
         command |-> None, read |-> "absent", purpose |-> "none"]

Set(t, call) == task' = [task EXCEPT ![t] = call]
End(t) == Set(t, Idle)

RuntimeInit ==
    /\ Init
    /\ server = "down" /\ late = {}
    /\ connected = {}
    /\ task = [t \in Tasks |-> Idle]
    /\ saved = [c \in CommandIds |-> "absent"]
    /\ savedBatches = [k \in Keys |-> NoBatch]
    /\ keyOf = [c \in CommandIds |-> None]
    /\ delivered = {}
    /\ answered = [k \in Keys |-> {}]

-----------------------------------------------------------------------------
(* #dispatch, up to the await of updateCommand.  `call` goes on afterwards.*)

GoOn(call) ==
    IF call.key = None THEN Idle
    ELSE [call EXCEPT !.step = "loop", !.command = None, !.read = "absent", !.purpose = "none"]

Dispatch(t, d, call) ==
    IF OpenPlaces(d) = {}
    THEN UNCHANGED coordinator /\ Set(t, GoOn(call))
    ELSE /\ DispatchNext(d)
         /\ Set(t, [call EXCEPT !.step = "update", !.purpose = "send",
                                !.command = FirstOpen(d)])

-----------------------------------------------------------------------------
(* createBatch                                                             *)

CallCreateBatch(t, key, request) ==
    /\ server = "ready" /\ task[t] = Idle
    /\ Set(t, [Idle EXCEPT !.step = "find", !.key = key, !.request = request])
    /\ UNCHANGED <<coordinator, server, late, connected, rows, history>>

Answer(key, batch) == answered' = [answered EXCEPT ![key] = @ \cup {batch}]

\* findBatch: a saved batch answers the request, or refuses it.
FindBatch(t) ==
    LET call == task[t] IN
    /\ call.step = "find"
    /\ \/ savedBatches[call.key] = NoBatch
          /\ Set(t, [call EXCEPT !.step = "list"])
          /\ UNCHANGED answered
       \/ savedBatches[call.key] # NoBatch
          /\ IF savedBatches[call.key].request = call.request
             THEN Answer(call.key, savedBatches[call.key]) /\ End(t)
             ELSE Set(t, [call EXCEPT !.step = "conflict"]) /\ UNCHANGED answered
       \/ Faults # {} /\ End(t) /\ UNCHANGED answered
    /\ UNCHANGED <<coordinator, server, late, connected, rows, keyOf, delivered>>

\* What upsertDevice tells the coordinator of the owner's devices.
Listed ==
    [d \in Devices |->
        IF d \in Owned
        THEN [known |-> TRUE, online |-> d \in connected, capable |-> CommandTypes]
        ELSE devices[d]]

\* The reply of listDevices: the devices are told to the coordinator, which
\* creates the batch or returns the one it has.  randomUUID never repeats.
ListDevices(t) ==
    LET call == task[t] IN
    /\ call.step = "list"
    /\ \/ /\ devices' = Listed
          /\ \/ /\ Create(Listed, call.key, call.request)
                /\ keyOf' = [c \in CommandIds |->
                      IF status[c] = "absent" /\ status'[c] # "absent" THEN call.key ELSE keyOf[c]]
                /\ \A c \in CommandIds :
                      status[c] = "absent" /\ status'[c] # "absent" => keyOf[c] = None
                /\ IF batches'[call.key] = NoBatch
                   THEN End(t)
                   ELSE Set(t, [call EXCEPT !.step = "save"])
             \/ /\ KeyUsed(call.key)
                /\ Set(t, [call EXCEPT !.step =
                      IF batches[call.key].request = call.request THEN "save" ELSE "conflict"])
                /\ UNCHANGED <<status, deviceOf, sequenceOf, queue, sequences, batches, keyOf>>
       \/ Faults # {} /\ End(t) /\ UNCHANGED <<coordinator, keyOf>>
    /\ UNCHANGED <<server, late, connected, rows, delivered, answered>>

\* The rows: a batch has one key, and a row per target.  A target that was
\* refused at once is a failed row for good: only its number counts.
Saved(c, d) == \E k \in Keys : /\ savedBatches[k] # NoBatch
                              /\ d \in savedBatches[k].request.targets
                              /\ savedBatches[k].commands[d] = c

Numbers(d) ==
    {savedBatches[k].numbers[d] :
        k \in {j \in Keys : savedBatches[j] # NoBatch /\ d \in savedBatches[j].request.targets}}

DuplicateRows(key) ==
    \/ savedBatches[key] # NoBatch
    \/ \E d \in batches[key].request.targets : batches[key].numbers[d] \in Numbers(d)

InsertRows(key) ==
    LET Made(c) == \E d \in batches[key].request.targets : batches[key].commands[d] = c IN
    /\ saved' = [c \in CommandIds |-> IF Made(c) THEN status[c] ELSE saved[c]]
    /\ savedBatches' = [savedBatches EXCEPT ![key] = batches[key]]

\* Mutant: an error of the transaction is swallowed.
SaveBatchIgnoringErrors(t) ==
    LET call == task[t] IN
    /\ call.step = "save"
    /\ \/ ~DuplicateRows(call.key) /\ InsertRows(call.key)
       \/ Faults # {} /\ UNCHANGED rows
    /\ Set(t, [call EXCEPT !.step = "loop", !.rest = call.request.targets])
    /\ UNCHANGED <<coordinator, server, late, connected, history>>

SaveBatch(t) ==
    LET call == task[t] IN
    /\ call.step = "save"
    /\ \/ /\ DuplicateRows(call.key)
          /\ Set(t, [call EXCEPT !.step = "conflict"])
          /\ UNCHANGED rows
       \/ /\ ~DuplicateRows(call.key)
          /\ InsertRows(call.key)
          /\ \/ Set(t, [call EXCEPT !.step = "loop", !.rest = call.request.targets])
             \/ "unknown" \in Faults /\ End(t)
       \/ Faults # {} /\ End(t) /\ UNCHANGED rows
    /\ UNCHANGED <<coordinator, server, late, connected, history>>

\* The commands that are still created are dispatched, in the order of their
\* devices, one after the other's send.
Waiting(call) ==
    {d \in call.rest :
        /\ batches[call.key].commands[d] \in CommandIds
        /\ status[batches[call.key].commands[d]] = "created"}

Loop(t) ==
    LET call == task[t] IN
    /\ call.step = "loop"
    /\ IF Waiting(call) = {}
       THEN Answer(call.key, batches[call.key]) /\ End(t) /\ UNCHANGED coordinator
       ELSE \E d \in Waiting(call) :
              /\ \A e \in Waiting(call) : d <= e
              /\ Dispatch(t, d, [call EXCEPT !.rest = {e \in call.rest : e > d}])
              /\ UNCHANGED answered
    /\ UNCHANGED <<server, late, connected, rows, keyOf, delivered>>

\* 409, idempotency_conflict.
Conflict(t) ==
    /\ task[t].step = "conflict"
    /\ End(t)
    /\ UNCHANGED <<coordinator, server, late, connected, rows, history>>

-----------------------------------------------------------------------------
(* updateCommand, and what its caller does with the reply                  *)

\* The connection is open, and the UPDATE leaves with the present status.
Update(t) ==
    LET call == task[t] IN
    /\ call.step = "update"
    /\ \/ Set(t, [call EXCEPT !.step = "write", !.read = status[call.command]])
       \/ Faults # {} /\ End(t)
    /\ UNCHANGED <<coordinator, server, late, connected, rows, history>>

\* Mutant: no foreign key, so that a missing row goes unnoticed.
WriteUnchecked(t) ==
    LET call == task[t] IN
    /\ call.step = "write"
    /\ saved' = [saved EXCEPT ![call.command] = IF @ = "absent" THEN @ ELSE call.read]
    /\ Set(t, [call EXCEPT !.step = "written", !.read = "absent"])
    /\ UNCHANGED <<coordinator, server, late, connected, savedBatches, history>>

\* Without a row the INSERT of the result violates its foreign key.
Write(t) ==
    LET call == task[t] IN
    /\ call.step = "write"
    /\ \/ saved[call.command] = "absent" /\ End(t) /\ UNCHANGED rows
       \/ /\ saved[call.command] # "absent"
          /\ saved' = [saved EXCEPT ![call.command] = call.read]
          /\ UNCHANGED savedBatches
          /\ \/ Set(t, [call EXCEPT !.step = "written", !.read = "absent"])
             \/ "unknown" \in Faults /\ End(t)
       \/ Faults # {} /\ End(t) /\ UNCHANGED rows
    /\ UNCHANGED <<coordinator, server, late, connected, history>>

\* The command goes to the device's sender; without one it fails, unless it
\* ended otherwise, which transition throws at.
Send(t) ==
    LET call == task[t]
        c == call.command
    IN  /\ call.step = "written" /\ call.purpose = "send"
        /\ IF deviceOf[c] \in connected
           THEN /\ delivered' = delivered \cup {<<deviceOf[c], c>>}
                /\ Set(t, GoOn(call))
                /\ UNCHANGED coordinator
           ELSE /\ UNCHANGED delivered
                /\ \/ TransitionInvalid(c, "failed") /\ End(t)
                      /\ UNCHANGED coordinator
                   \/ Transition(c, "failed")
                      /\ Set(t, [call EXCEPT !.step = "update", !.purpose = "fail"])
                   \/ status[c] = "failed" /\ UNCHANGED coordinator
                      /\ Set(t, [call EXCEPT !.step = "update", !.purpose = "fail"])
        /\ UNCHANGED <<server, late, connected, rows, keyOf, answered>>

\* A command failed for want of a connection: nothing else is dispatched.
Failed(t) ==
    /\ task[t].step = "written" /\ task[t].purpose = "fail"
    /\ Set(t, GoOn(task[t]))
    /\ UNCHANGED <<coordinator, server, late, connected, rows, history>>

\* A result was written: a terminal one makes way for the next command.
Resulted(t) ==
    LET c == task[t].command IN
    /\ task[t].step = "written" /\ task[t].purpose = "result"
    /\ IF status[c] \in TerminalStates
       THEN Dispatch(t, deviceOf[c], Idle)
       ELSE End(t) /\ UNCHANGED coordinator
    /\ UNCHANGED <<server, late, connected, rows, history>>

-----------------------------------------------------------------------------
(* handleAgentResult, onDeviceConnected, and the connections               *)

\* A result for a command the device was given.  One the coordinator throws at
\* changes nothing, and its connection is closed: Disconnect.
AgentResult(t, c, result) ==
    /\ server = "ready" /\ task[t] = Idle
    /\ Known(c)
    /\ <<deviceOf[c], c>> \in delivered
    /\ deviceOf[c] \in connected
    /\ HandleAgentResult(deviceOf[c], c, result)
    /\ Set(t, [Idle EXCEPT !.step = "update", !.purpose = "result", !.command = c])
    /\ UNCHANGED <<server, late, connected, rows, history>>

\* An authenticated connection is registered and gets its sender in one turn,
\* in the place of an older one; then onDeviceConnected awaits #ready.
Connect(t, d) ==
    /\ server # "down" /\ task[t] = Idle
    /\ d \in Owned
    /\ connected' = connected \cup {d}
    /\ Set(t, [Idle EXCEPT !.step = "connected", !.rest = {d}])
    /\ UNCHANGED <<coordinator, server, late, rows, history>>

OnDeviceConnected(t) ==
    /\ task[t].step = "connected"
    /\ \/ server = "ready" /\ (\E d \in task[t].rest : Dispatch(t, d, Idle))
       \/ server = "stuck" /\ End(t) /\ UNCHANGED coordinator
    /\ UNCHANGED <<server, late, connected, rows, history>>

Disconnect(d) ==
    /\ d \in connected
    /\ connected' = connected \ {d}
    /\ UNCHANGED <<coordinator, server, late, task, rows, history>>

\* setDisabled, and the revocation or deletion of a device: its open rows
\* fail, the coordinator is not told, and the connection is dropped, which is
\* Disconnect.  The device may be enabled again.
FailCommands(d) ==
    /\ d \in Disableable
    /\ server # "restoring"
    /\ saved' = [c \in CommandIds |->
          IF Saved(c, d) /\ saved[c] \in OpenStates THEN "failed" ELSE saved[c]]
    /\ UNCHANGED <<coordinator, server, late, connected, task, history, savedBatches>>

-----------------------------------------------------------------------------
(* #recover, from the rows one query returned: restoring is one turn       *)

Start ==
    /\ server = "down"
    /\ server' = "restoring"
    /\ UNCHANGED <<coordinator, late, connected, task, rows, history>>

RestoreSequence(d) ==
    /\ server = "restoring"
    /\ \E n \in Numbers(d) :
          /\ \A m \in Numbers(d) : m <= n
          /\ sequences[d] < n
          /\ RestoreDeviceSequence(d, n)
    /\ UNCHANGED <<server, late, connected, task, rows, history>>

\* Mutants: only the open rows are looked at for the last number, and only
\* what the agent has not accepted is restored.
OpenRowsOnly == TRUE
ToRestoreUnaccepted ==
    {c \in CommandIds : saved[c] \in {"created", "sent"} /\ ~Known(c)}

SequencesRestored == \A d \in Devices : \A n \in Numbers(d) : n <= sequences[d]

\* Restore sorts: the order of the rows does not matter.  loadRecoverable stops
\* at 8000 rows; the open commands here are always fewer.
ToRestore == {c \in CommandIds : saved[c] \in OpenStates /\ ~Known(c)}

RestoreCommand(c) ==
    /\ server = "restoring" /\ SequencesRestored
    /\ c \in ToRestore
    /\ \E k \in Keys, d \in Devices :
          /\ savedBatches[k] # NoBatch /\ d \in savedBatches[k].request.targets
          /\ savedBatches[k].commands[d] = c
          /\ Restore(c, d, savedBatches[k].numbers[d], saved[c])
    /\ UNCHANGED <<server, late, connected, task, rows, history>>

\* `passed`: the restored commands whose time has passed.  When expire throws,
\* #ready is rejected, and every call with it from then on.
ExpireLate(passed) ==
    /\ server = "restoring" /\ SequencesRestored /\ ToRestore = {}
    /\ Expire(passed)
    /\ \/ ExpireThrows(passed) /\ server' = "stuck" /\ UNCHANGED late
       \/ ~ExpireThrows(passed) /\ server' = "expiring" /\ late' = passed
    /\ UNCHANGED <<connected, task, rows, history>>

WriteExpired(c) ==
    /\ server = "expiring"
    /\ c \in late
    /\ \/ /\ saved' = [saved EXCEPT ![c] = status[c]]
          /\ late' = late \ {c}
          /\ UNCHANGED <<server, savedBatches>>
       \/ Faults # {} /\ server' = "stuck" /\ late' = {} /\ UNCHANGED rows
    /\ UNCHANGED <<coordinator, connected, task, history>>

Ready ==
    /\ server = "expiring" /\ late = {}
    /\ server' = "ready"
    /\ UNCHANGED <<coordinator, late, connected, task, rows, history>>

Recover == \/ Start
           \/ \E d \in Devices : RestoreSequence(d)
           \/ \E c \in CommandIds : RestoreCommand(c)
           \/ \E passed \in SUBSET {c \in CommandIds : Open(c)} : ExpireLate(passed)
           \/ \E c \in CommandIds : WriteExpired(c)
           \/ Ready

\* Memory and connections are gone; the database stays.
Crash ==
    /\ server # "down"
    /\ server' = "down" /\ late' = {}
    /\ Restart
    /\ connected' = {}
    /\ task' = [t \in Tasks |-> Idle]
    /\ UNCHANGED <<rows, history>>

-----------------------------------------------------------------------------
RuntimeNext ==
    \/ \E t \in Tasks, k \in Keys, request \in Requests :
          CallCreateBatch(t, k, request)
    \/ \E t \in Tasks : \/ FindBatch(t) \/ ListDevices(t) \/ SaveBatch(t) \/ Loop(t)
                        \/ Conflict(t) \/ Update(t) \/ Write(t) \/ Send(t)
                        \/ Failed(t) \/ Resulted(t)
    \/ \E t \in Tasks, c \in CommandIds, result \in Results :
          AgentResult(t, c, result)
    \/ \E t \in Tasks, d \in Devices : Connect(t, d)
    \/ \E t \in Tasks : OnDeviceConnected(t)
    \/ \E d \in Devices : Disconnect(d) \/ FailCommands(d)
    \/ Recover
    \/ Crash

RuntimeSpec == RuntimeInit /\ [][RuntimeNext]_runtime

-----------------------------------------------------------------------------
(* Properties                                                              *)

\* However often a request is repeated, at the same time or after errors and
\* crashes, a device is sent at most one command for its idempotency key.
PerKeyOnce ==
    \A x, y \in delivered : x[1] = y[1] /\ keyOf[x[2]] = keyOf[y[2]] => x = y

\* All the answers a key ever gets name the same batch, before and after a
\* crash, from memory or from the database.
IdempotentAnswers == \A k \in Keys : \A a, b \in answered[k] : a = b

\* The next number of a device is larger than that of every row, also after
\* a restart from the open rows only: saving a batch never fails for it.
NumbersFresh ==
    server = "ready" => \A d \in Devices : \A n \in Numbers(d) : n <= sequences[d]

\* The queues of the coordinator are right after every recovery and every
\* order of the tasks, and no open row is forgotten by it.
RowsRecovered ==
    server = "ready" =>
        /\ QueuesAreOpenCommands
        /\ \A c \in CommandIds : saved[c] \in OpenStates => Known(c)
=============================================================================
