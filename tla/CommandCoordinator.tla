------------------------- MODULE CommandCoordinator -------------------------
(***************************************************************************)
(* The server's in-memory command coordinator: the status of every command *)
(* it created or restored, a FIFO of open commands per device, the device  *)
(* sequence numbers and the idempotency keys of one owner.  A method call  *)
(* runs without interruption, so it is one action; CommandRuntime says in  *)
(* which order the calls come.  Only Expire leaves changes behind when it  *)
(* throws, and CreateBatch, which fails at a device after the others.      *)
(***************************************************************************)
EXTENDS Queues, FiniteSets

CONSTANTS
    CommandIds,    \* identifiers randomUUID may return
    Devices,       \* device identifiers, as numbers in the order sort() gives
    CommandTypes,  \* command types, which are the devices' capabilities
    Keys,          \* idempotency keys of the owner
    NoBatch,       \* the key was not used
    QueueLimit,    \* open commands a device may have (8 in the server)
    SafeIntegers   \* what Number.isSafeInteger accepts of the naturals

ASSUME DevicesAssumption == Devices \subseteq Nat
ASSUME SafeIntegersAssumption == SafeIntegers \subseteq Nat
ASSUME QueueLimitAssumption == QueueLimit \in Nat

TerminalStates == {"succeeded", "failed", "expired", "outcome_unknown"}
OpenStates == {"created", "sent", "accepted", "executing"}
CommandStatus == TerminalStates \cup OpenStates
AgentStatus == CommandStatus \ {"created", "sent"}  \* what the agent says in its result messages

StateTransitions ==
    [s \in CommandStatus |->
        CASE s = "created"   -> {"sent", "failed", "expired"}
          [] s = "sent"      -> {"accepted", "failed", "expired"}
          [] s = "accepted"  -> {"executing", "failed", "expired"}
          [] s = "executing" -> {"succeeded", "failed", "outcome_unknown"}
          [] OTHER           -> {}]

\* A device the coordinator was told of, whether it is connected, and what it
\* can do.
DeviceViews == [known : BOOLEAN, online : BOOLEAN, capable : SUBSET CommandTypes]

Requests == [type : CommandTypes, targets : (SUBSET Devices) \ {{}}]

VARIABLES
    devices,     \* what upsertDevice last said of each device
    status,      \* the status of each command, or "absent"
    deviceOf,    \* the device of each command
    sequenceOf,  \* the sequence number of each command
    queue,       \* for each device, the identifiers of its open commands
    sequences,   \* for each device, the last sequence number used
    batches      \* for each key, the batch it created

commands == <<status, deviceOf, sequenceOf>>
coordinator == <<devices, commands, queue, sequences, batches>>

NoDevice == -1

\* What a new CommandCoordinator starts from.
New == [devices    |-> [d \in Devices |-> [known |-> FALSE, online |-> FALSE, capable |-> {}]],
        status     |-> [c \in CommandIds |-> "absent"],
        deviceOf   |-> [c \in CommandIds |-> NoDevice],
        sequenceOf |-> [c \in CommandIds |-> 0],
        queue      |-> [d \in Devices |-> << >>],
        sequences  |-> [d \in Devices |-> 0],
        batches    |-> [k \in Keys |-> NoBatch]]

Init ==
    /\ devices = New.devices
    /\ status = New.status /\ deviceOf = New.deviceOf /\ sequenceOf = New.sequenceOf
    /\ queue = New.queue /\ sequences = New.sequences /\ batches = New.batches

\* The process is replaced by a new one.
Restart ==
    /\ devices' = New.devices
    /\ status' = New.status /\ deviceOf' = New.deviceOf /\ sequenceOf' = New.sequenceOf
    /\ queue' = New.queue /\ sequences' = New.sequences /\ batches' = New.batches

Known(c) == status[c] # "absent"
Open(c) == status[c] \in OpenStates

-----------------------------------------------------------------------------
(* Devices                                                                 *)

UpsertDevice(d, isOnline, types) ==
    /\ devices' = [devices EXCEPT ![d] =
                     [known |-> TRUE, online |-> isOnline, capable |-> types]]
    /\ UNCHANGED <<commands, queue, sequences, batches>>

-----------------------------------------------------------------------------
(* Batches.  `view` is what the coordinator was told of the devices.       *)

\* A device that gets a queued command, and not one that failed at once.
Queueable(view, d, type) == view[d].online /\ type \in view[d].capable

RefusedAs(view, d) == IF view[d].online THEN "unsupported" ELSE "device_offline"

\* The targets at which #createCommand throws.
Blocked(view, request) ==
    {d \in request.targets :
        \/ ~view[d].known
        \/ Queueable(view, d, request.type) /\ Len(queue[d]) >= QueueLimit}

\* The targets passed before the first throw, and the ones that consumed a
\* sequence number: a full queue is noticed after the number was taken.
Reached(view, request) ==
    {d \in request.targets : \A b \in Blocked(view, request) : d < b}
Numbered(view, request) ==
    Reached(view, request) \cup
    {d \in Blocked(view, request) : view[d].known /\ \A b \in Blocked(view, request) : d <= b}

Queued(view, request) == {d \in Reached(view, request) : Queueable(view, d, request.type)}

KeyUsed(key) == batches[key] # NoBatch

\* Fresh identifiers for the commands that are queued.
NewIds(view, request) ==
    {new \in [Queued(view, request) -> {c \in CommandIds : ~Known(c)}] :
        \A d, e \in Queued(view, request) : new[d] = new[e] => d = e}

Batch(view, request, new) ==
    [request  |-> request,
     numbers  |-> [d \in request.targets |-> sequences[d] + 1],
     commands |-> [d \in request.targets |->
                      IF d \in Queued(view, request) THEN new[d] ELSE RefusedAs(view, d)]]

\* Commands queued before a throw stay, though no batch has them.
Create(view, key, request) ==
    /\ ~KeyUsed(key)
    /\ \E new \in NewIds(view, request) :
         LET made == {new[d] : d \in Queued(view, request)}
             Target(c) == CHOOSE d \in Queued(view, request) : new[d] = c
         IN  /\ status' = [c \in CommandIds |-> IF c \in made THEN "created" ELSE status[c]]
             /\ deviceOf' = [c \in CommandIds |-> IF c \in made THEN Target(c) ELSE deviceOf[c]]
             /\ sequenceOf' = [c \in CommandIds |->
                   IF c \in made THEN sequences[Target(c)] + 1 ELSE sequenceOf[c]]
             /\ queue' = [d \in Devices |->
                   IF d \in Queued(view, request) THEN Append(queue[d], new[d]) ELSE queue[d]]
             /\ batches' = IF Blocked(view, request) = {}
                           THEN [batches EXCEPT ![key] = Batch(view, request, new)]
                           ELSE batches
    /\ sequences' = [d \in Devices |->
          IF d \in Numbered(view, request) THEN sequences[d] + 1 ELSE sequences[d]]

CreateBatch(key, request) == Create(devices, key, request) /\ UNCHANGED devices

-----------------------------------------------------------------------------
(* Status changes                                                          *)

\* Mutant: a command that ended stays in its queue.
TransitionKeepsQueue(c, next) ==
    /\ Known(c)
    /\ next \in StateTransitions[status[c]]
    /\ status' = [status EXCEPT ![c] = next]
    /\ UNCHANGED <<devices, deviceOf, sequenceOf, queue, sequences, batches>>

\* A change the table allows; a terminal one takes the command off its queue.
Transition(c, next) ==
    /\ Known(c)
    /\ next \in StateTransitions[status[c]]
    /\ status' = [status EXCEPT ![c] = next]
    /\ queue' = IF next \in TerminalStates
                THEN [queue EXCEPT ![deviceOf[c]] = Retain(@, CommandIds \ {c})]
                ELSE queue
    /\ UNCHANGED <<devices, deviceOf, sequenceOf, sequences, batches>>

\* What transition throws at: a change that is neither allowed nor a repeat.
TransitionInvalid(c, next) == next \notin StateTransitions[status[c]] \cup {status[c]}

HandleAgentResult(d, c, result) ==
    /\ Known(c) /\ deviceOf[c] = d
    /\ \/ Transition(c, result)
       \/ result = status[c] /\ UNCHANGED coordinator

\* The first open command of the queue, sent when it was only created.
OpenPlaces(d) == {i \in DOMAIN queue[d] : Open(queue[d][i])}
FirstOpen(d) == queue[d][CHOOSE i \in OpenPlaces(d) : \A j \in OpenPlaces(d) : i <= j]

DispatchNext(d) ==
    /\ OpenPlaces(d) # {}
    /\ IF status[FirstOpen(d)] = "created"
       THEN Transition(FirstOpen(d), "sent")
       ELSE UNCHANGED coordinator

\* `late`: the open commands past their expiry.  They are visited in the
\* order they were restored in, until one that is executing: there transition
\* throws.
Before(c, d) ==
    \/ deviceOf[c] < deviceOf[d]
    \/ deviceOf[c] = deviceOf[d] /\ sequenceOf[c] < sequenceOf[d]

ExpireThrows(late) == \E c \in late : status[c] = "executing"

Expire(late) ==
    LET gone == {c \in late : \A e \in late : status[e] = "executing" => Before(c, e)}
    IN  /\ status' = [c \in CommandIds |-> IF c \in gone THEN "expired" ELSE status[c]]
        /\ queue' = [d \in Devices |-> Retain(queue[d], CommandIds \ gone)]
        /\ UNCHANGED <<devices, deviceOf, sequenceOf, sequences, batches>>

-----------------------------------------------------------------------------
(* Recovery                                                                *)

Larger(m, n) == IF m >= n THEN m ELSE n

\* Mutants: the queue is not sorted after the push, the last number of the
\* device is not raised, the device is not recorded.
RestoreUnsorted(c, d, sequence, saved) ==
    /\ ~Known(c)
    /\ status' = [status EXCEPT ![c] = saved]
    /\ deviceOf' = [deviceOf EXCEPT ![c] = d]
    /\ sequenceOf' = [sequenceOf EXCEPT ![c] = sequence]
    /\ sequences' = [sequences EXCEPT ![d] = Larger(@, sequence)]
    /\ queue' = IF saved \in TerminalStates THEN queue
                ELSE [queue EXCEPT ![d] = Append(@, c)]
    /\ UNCHANGED <<devices, batches>>

RestoreKeepsSequence(c, d, sequence, saved) ==
    /\ ~Known(c)
    /\ status' = [status EXCEPT ![c] = saved]
    /\ deviceOf' = [deviceOf EXCEPT ![c] = d]
    /\ sequenceOf' = [sequenceOf EXCEPT ![c] = sequence]
    /\ queue' = IF saved \in TerminalStates THEN queue
                ELSE [queue EXCEPT ![d] = Append(@, c)]
    /\ UNCHANGED <<devices, sequences, batches>>

RestoreWithoutDevice(c, d, sequence, saved) ==
    /\ ~Known(c)
    /\ status' = [status EXCEPT ![c] = saved]
    /\ sequenceOf' = [sequenceOf EXCEPT ![c] = sequence]
    /\ sequences' = [sequences EXCEPT ![d] = Larger(@, sequence)]
    /\ UNCHANGED <<devices, deviceOf, queue, batches>>

\* The queue is sorted again after the push.
Restore(c, d, sequence, saved) ==
    /\ ~Known(c)
    /\ status' = [status EXCEPT ![c] = saved]
    /\ deviceOf' = [deviceOf EXCEPT ![c] = d]
    /\ sequenceOf' = [sequenceOf EXCEPT ![c] = sequence]
    /\ sequences' = [sequences EXCEPT ![d] = Larger(@, sequence)]
    /\ queue' = IF saved \in TerminalStates THEN queue
                ELSE [queue EXCEPT ![d] =
                        Retain(@, {e \in CommandIds : sequenceOf[e] < sequence})
                        \o <<c>> \o
                        Retain(@, {e \in CommandIds : sequenceOf[e] > sequence})]
    /\ UNCHANGED <<devices, batches>>

RestoreDeviceSequence(d, sequence) ==
    /\ sequence \in SafeIntegers \ {0}
    /\ sequences' = [sequences EXCEPT ![d] = Larger(@, sequence)]
    /\ UNCHANGED <<devices, commands, queue, batches>>

-----------------------------------------------------------------------------
(* Any method at any time.  Recovery restores rows, whose device and       *)
(* sequence number are unique in the database.                             *)

Next ==
    \/ \E d \in Devices, isOnline \in BOOLEAN, types \in SUBSET CommandTypes :
          UpsertDevice(d, isOnline, types)
    \/ \E k \in Keys, request \in Requests : CreateBatch(k, request)
    \/ \E d \in Devices : DispatchNext(d)
    \/ \E d \in Devices, c \in CommandIds, result \in AgentStatus :
          HandleAgentResult(d, c, result)
    \/ \E late \in SUBSET {c \in CommandIds : Open(c)} : Expire(late)
    \/ \E c \in CommandIds, d \in Devices, n \in SafeIntegers \ {0}, saved \in CommandStatus :
          /\ \A e \in CommandIds : Known(e) /\ deviceOf[e] = d => sequenceOf[e] # n
          /\ Restore(c, d, n, saved)
    \/ \E d \in Devices, n \in SafeIntegers : RestoreDeviceSequence(d, n)

Spec == Init /\ [][Next]_coordinator

-----------------------------------------------------------------------------
(* Properties                                                              *)

\* Every variable has its type.
TypeOK ==
    /\ devices \in [Devices -> DeviceViews]
    /\ status \in [CommandIds -> CommandStatus \cup {"absent"}]
    /\ deviceOf \in [CommandIds -> Devices \cup {NoDevice}]
    /\ \A c \in CommandIds : Known(c) => deviceOf[c] \in Devices
    /\ sequenceOf \in [CommandIds -> Nat]
    /\ queue \in [Devices -> Seq(CommandIds)]
    /\ sequences \in [Devices -> Nat]
    /\ DOMAIN batches = Keys

\* A device's queue lists exactly its open commands, in the order of their
\* sequence numbers: no command is lost from the queue, left in it after it
\* ended, listed twice or overtaken, whatever was created, restored, expired
\* or answered in between.
QueuesAreOpenCommands ==
    \A d \in Devices :
        /\ \A c \in CommandIds : Holds(queue[d], c) <=> Open(c) /\ deviceOf[c] = d
        /\ Ascending(queue[d], sequenceOf)

\* No two commands of a device have the same sequence number, and the next
\* number given out is a new one.
SequencesUnique ==
    \A c \in CommandIds : Known(c) =>
        /\ sequenceOf[c] <= sequences[deviceOf[c]]
        /\ \A e \in CommandIds \ {c} :
              Known(e) /\ deviceOf[e] = deviceOf[c] => sequenceOf[e] # sequenceOf[c]

\* A command is sent only when every earlier command of its device ended.
SentInOrder ==
    [][\A c \in CommandIds : status[c] = "created" /\ status'[c] = "sent" =>
          \A e \in CommandIds :
              Open(e) /\ deviceOf[e] = deviceOf[c] => sequenceOf[e] >= sequenceOf[c]]_coordinator
=============================================================================
