-------------------------- MODULE CommandDelivery --------------------------
(***************************************************************************)
(* A server's CommandCoordinator and one device's AgentService over a      *)
(* connection that keeps the order of messages and loses those in flight   *)
(* when it breaks.  The database answers at once and no disk call fails:   *)
(* CommandRuntime and AgentService model what happens otherwise.           *)
(***************************************************************************)
EXTENDS AgentService

CONSTANTS
    Devices, CommandTypes, Keys, NoBatch, QueueLimit, SafeIntegers,
    Mortal,     \* the commands whose expiry may pass
    MaxLosses,  \* how often the network may break the connection
    MaxStops    \* how often the agent's process may stop

ASSUME DeliveryAssumption ==
    /\ Devices \subseteq Nat /\ Devices # {}
    /\ SafeIntegers \subseteq Nat /\ QueueLimit \in Nat
    /\ Mortal \subseteq CommandIds
    /\ {"unsupported", "device_offline"} \cap CommandIds = {}

VARIABLES
    devices, status, deviceOf, sequenceOf, queue, sequences, batches,
    connected,  \* the server has a connection of the device
    due,        \* the commands whose creation or end makes #dispatch due
    toAgent,    \* the identifiers of the commands on their way
    toServer,   \* the <<command, status>> results on their way
    losses, stops

Coordinator == INSTANCE CommandCoordinator

server == <<devices, status, deviceOf, sequenceOf, queue, sequences, batches>>
network == <<connected, due, toAgent, toServer>>
counters == <<losses, stops>>
system == <<vars, server, network, counters>>

Device == CHOOSE d \in Devices : TRUE

DeliveryInit ==
    /\ Init
    /\ Coordinator!Init
    /\ connected = FALSE /\ due = {} /\ toAgent = << >> /\ toServer = << >>
    /\ losses = 0 /\ stops = 0

-----------------------------------------------------------------------------
(* The server                                                              *)

\* #dispatch while the device is connected: the head of the queue is sent,
\* again when it was sent before.
Empty == Coordinator!OpenPlaces(Device) = {}
QueueHead == Coordinator!FirstOpen(Device)

SendHead(before) ==
    IF Empty THEN UNCHANGED server /\ toAgent' = before
    ELSE Coordinator!DispatchNext(Device) /\ toAgent' = Append(before, QueueHead)

\* A request of the user for the device: a command of a key of its own.
View == [d \in Devices |-> [known |-> TRUE, online |-> connected, capable |-> CommandTypes]]

CreateCommand(key, type) ==
    /\ connected
    /\ devices' = View
    /\ Coordinator!Create(View, key, [type |-> type, targets |-> {Device}])
    /\ due' = due \cup {c \in CommandIds : status'[c] # status[c]}
    /\ UNCHANGED <<vars, connected, toAgent, toServer, counters>>

\* Mutant: the end of a command does not make way for the next.
DispatchCreatedOnly(c) ==
    /\ c \in due
    /\ due' = due \ {c}
    /\ IF connected /\ status[c] = "created" THEN SendHead(toAgent)
       ELSE UNCHANGED <<server, toAgent>>
    /\ UNCHANGED <<vars, connected, toServer, counters>>

\* createBatch dispatches when its command is still created, handleAgentResult
\* when the command ended.  Without a connection the head of the queue fails.
Dispatch(c) ==
    /\ c \in due
    /\ due' = due \ {c}
    /\ IF status[c] \notin {"created"} \cup Coordinator!TerminalStates
       THEN UNCHANGED <<server, toAgent>>
       ELSE IF connected THEN SendHead(toAgent)
       ELSE /\ IF Empty THEN UNCHANGED server ELSE Coordinator!Transition(QueueHead, "failed")
            /\ UNCHANGED toAgent
    /\ UNCHANGED <<vars, connected, toServer, counters>>

\* A result the coordinator takes.  One that it throws at closes the
\* connection.
TakeResult ==
    /\ toServer # << >>
    /\ LET c == Head(toServer)[1]
           result == Head(toServer)[2]
       IN  /\ Coordinator!HandleAgentResult(Device, c, result)
           /\ due' = IF result \in Coordinator!TerminalStates THEN due \cup {c} ELSE due
    /\ toServer' = Tail(toServer)
    /\ UNCHANGED <<vars, connected, toAgent, counters>>

Rejected(c, result) ==
    \/ ~Coordinator!Known(c)
    \/ Coordinator!TransitionInvalid(c, result)

Disconnected ==
    connected' = FALSE /\ toAgent' = << >> /\ toServer' = << >> /\ UNCHANGED due

RejectResult ==
    /\ toServer # << >>
    /\ Rejected(Head(toServer)[1], Head(toServer)[2])
    /\ Disconnected
    /\ UNCHANGED <<vars, server, counters>>

-----------------------------------------------------------------------------
(* The agent                                                               *)

\* A result is on its way, or lost with the connection.
Say(c, result) ==
    toServer' = IF connected THEN Append(toServer, <<c, result>>) ELSE toServer

ReceiveCommand ==
    /\ toAgent # << >>
    /\ Receive(Head(toAgent))
    /\ agent' # "offline"
    /\ toAgent' = Tail(toAgent)
    /\ IF Finished(ledger, Head(toAgent))
       THEN Say(Head(toAgent), ledger.commands[Head(toAgent)])
       ELSE UNCHANGED toServer
    /\ UNCHANGED <<server, connected, due, counters>>

\* The ledger is full of commands the agent did not finish: the connection
\* drops.
RefuseCommand ==
    /\ toAgent # << >>
    /\ AcceptRefused(ledger, Head(toAgent))
    /\ Receive(Head(toAgent))
    /\ Disconnected
    /\ UNCHANGED <<server, counters>>

SayAccepted == Acknowledge /\ Say(running, "accepted")
SayExecuting == Announce /\ Say(running, "executing")
SayOutcome == ReportOutcome /\ Say(running, outcome)

Work ==
    /\ \/ SayAccepted \/ SayExecuting \/ SayOutcome
       \/ (TakeNext \/ Execute \/ RecordOutcome) /\ agent' # "offline" /\ UNCHANGED toServer
    /\ UNCHANGED <<server, connected, due, toAgent, counters>>

\* Every call on a broken connection fails, sooner or later.
NoticeLoss ==
    /\ ~connected
    /\ LoseConnection
    /\ UNCHANGED <<server, network, counters>>

\* An authenticated connection: onDeviceConnected dispatches.
Reconnect ==
    /\ Connect
    /\ connected' = TRUE /\ toServer' = << >>
    /\ SendHead(<< >>)
    /\ UNCHANGED <<due, counters>>

StopAgent ==
    /\ stops < MaxStops
    /\ Stop
    /\ stops' = stops + 1
    /\ Disconnected
    /\ UNCHANGED <<server, losses>>

StartAgent ==
    /\ Start /\ agent' = "offline"
    /\ UNCHANGED <<server, network, counters>>

-----------------------------------------------------------------------------
(* The world                                                               *)

BreakConnection ==
    /\ connected /\ losses < MaxLosses
    /\ losses' = losses + 1
    /\ Disconnected
    /\ UNCHANGED <<vars, server, stops>>

TimePasses ==
    /\ \E c \in Mortal : Coordinator!Known(c) /\ Expire(c)
    /\ UNCHANGED <<server, network, counters>>

AgentRuns == ReceiveCommand \/ RefuseCommand \/ Work \/ NoticeLoss \/ Reconnect \/ StartAgent
ServerRuns == (\E c \in CommandIds : Dispatch(c)) \/ TakeResult \/ RejectResult

DeliveryNext ==
    \/ \E k \in Keys, type \in CommandTypes : CreateCommand(k, type)
    \/ AgentRuns \/ ServerRuns
    \/ StopAgent \/ BreakConnection \/ TimePasses

\* The agent, its connection loop and the server keep running; users, the
\* network, crashes and the clock owe nothing.
Fairness ==
    /\ WF_system(ReceiveCommand) /\ WF_system(RefuseCommand) /\ WF_system(Work)
    /\ WF_system(NoticeLoss) /\ WF_system(Reconnect) /\ WF_system(StartAgent)
    /\ \A c \in CommandIds : WF_system(Dispatch(c))
    /\ WF_system(TakeResult) /\ WF_system(RejectResult)

DeliverySpec == DeliveryInit /\ [][DeliveryNext]_system /\ Fairness

-----------------------------------------------------------------------------
(* Properties                                                              *)

\* What the server says of a command that ended at the agent is what the
\* agent's ledger says until it forgets the command, and a success was one
\* execution: over losses, resends, restarts and evictions.  "failed" is also
\* the server's own word for a command it could not send, and an expired command
\* may run after all (see the README).
OutcomesAgree ==
    \A c \in CommandIds :
        /\ status[c] \in {"succeeded", "outcome_unknown"} =>
              ledger.commands[c] = status[c] \/ c \in evicted
        /\ status[c] = "succeeded" => handed[c] = 1

\* Every command of a device comes to an end, and so makes way for the ones
\* after it, whatever the order of creation, dispatch, work and results, as
\* long as no connection breaks, the agent does not stop and no command is out
\* of date.  (With a loss in the middle of a command it does not: see the
\* README.)
Undisturbed == losses = 0 /\ stops = 0 /\ expired = {}

EveryCommandEnds ==
    []Undisturbed =>
        \A c \in CommandIds :
            status[c] \in Coordinator!OpenStates ~> status[c] \in Coordinator!TerminalStates
=============================================================================
