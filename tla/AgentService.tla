---------------------------- MODULE AgentService ----------------------------
(***************************************************************************)
(* The command path of the agent's Windows service: process_command, one   *)
(* step per socket call, ledger call or executor call, under the loop that *)
(* reconnects.  The ledger is the durable ledger FileCommandLedger         *)
(* implements, seen from its caller: a call either succeeds with memory    *)
(* and snapshot equal, or fails with the change in memory and perhaps in   *)
(* the snapshot; the process may stop before or after any of the steps.    *)
(***************************************************************************)
EXTENDS CommandLedger

CONSTANTS
    ExecutorOutcomes,  \* the outcomes the executor may return
    NoCommand          \* stands for no command

ASSUME ExecutorOutcomesAssumption == ExecutorOutcomes \subseteq TerminalStates
ASSUME NoCommandAssumption == NoCommand \notin CommandIds

VARIABLES
    ledger,    \* the ledger in memory
    durable,   \* the ledger a restart reads
    agent,     \* "stopped", "offline", or the next step of the connection loop
    running,   \* the command process_command is working on
    outcome,   \* the terminal status it is about to record and report
    expired,   \* the commands whose expires_at has passed
    handed,    \* history: how often each command was handed to the executor
    reported,  \* history: the <<command, status>> pairs sent to the server
    evicted    \* history: the commands the ledger has forgotten

control == <<agent, running, outcome>>
storage == <<ledger, durable>>
history == <<handed, reported>>
vars == <<ledger, durable, agent, running, outcome, expired, handed, reported, evicted>>

Init ==
    /\ ledger = EmptyLedger /\ durable = EmptyLedger
    /\ agent = "stopped" /\ running = NoCommand /\ outcome = "failed"
    /\ expired = {}
    /\ handed = [c \in CommandIds |-> 0]
    /\ reported = {}
    /\ evicted = {}

-----------------------------------------------------------------------------
(* The two kinds of call process_command makes.                            *)

\* A ledger call whose result is `l`.  An error drops the connection, with
\* the change in memory, and on disk or not.
Store(l, next) ==
    /\ ledger' = l
    /\ \/ durable' = l /\ agent' = next
       \/ durable' \in {durable, l} /\ agent' = "offline"
    /\ evicted' = evicted \cup {c \in CommandIds : Known(ledger, c) /\ ~Known(l, c)}

\* A full ledger refuses the command before anything is written.
Refuse(c) ==
    /\ AcceptRefused(ledger, c)
    /\ ledger' = Accept(ledger, c)
    /\ agent' = "offline"
    /\ evicted' = evicted \cup {d \in CommandIds : Known(ledger, d) /\ ~Known(ledger', d)}
    /\ UNCHANGED durable

\* A result message that the socket took.  A send that fails is the loss of
\* the connection at this step.
Report(c, status, next) ==
    /\ reported' = reported \cup {<<c, status>>}
    /\ agent' = next

-----------------------------------------------------------------------------
(* process_command                                                         *)

\* A command that already ended is answered from the ledger.
AnswerFinished(c) ==
    /\ agent = "idle"
    /\ Finished(ledger, c)
    /\ Report(c, ledger.commands[c], "idle")
    /\ UNCHANGED <<storage, running, outcome, expired, handed, evicted>>

\* An expired command is accepted, when it is new, and then finished: two
\* writes, with the queue entry of the first left in place by the second.
ReceiveExpired(c) ==
    /\ agent = "idle"
    /\ ~Finished(ledger, c)
    /\ c \in expired
    /\ running' = c /\ outcome' = "expired"
    /\ \/ Known(ledger, c) /\ agent' = "record" /\ UNCHANGED <<storage, evicted>>
       \/ Refuse(c)
       \/ ~Known(ledger, c) /\ ~AcceptRefused(ledger, c)
          /\ Store(Accept(ledger, c), "record")
    /\ UNCHANGED <<expired, history>>

ReceiveLive(c) ==
    /\ agent = "idle"
    /\ ~Finished(ledger, c)
    /\ c \notin expired
    /\ running' = c
    /\ \/ Refuse(c)
       \/ ~AcceptRefused(ledger, c) /\ Store(Accept(ledger, c), "acknowledge")
    /\ UNCHANGED <<outcome, expired, history>>

Receive(c) == AnswerFinished(c) \/ ReceiveExpired(c) \/ ReceiveLive(c)

Acknowledge ==
    /\ agent = "acknowledge"
    /\ Report(running, "accepted", "dequeue")
    /\ UNCHANGED <<storage, running, outcome, expired, handed, evicted>>

\* Mutant: dequeue does not write the snapshot.
TakeNextInMemory ==
    /\ agent = "dequeue"
    /\ CanDequeue(ledger)
    /\ running' = Head(ledger.queue)
    /\ ledger' = Dequeue(ledger)
    /\ agent' = "announce"
    /\ UNCHANGED <<durable, outcome, expired, history, evicted>>

\* The head of the queue, which need not be the command just acknowledged.
TakeNext ==
    /\ agent = "dequeue"
    /\ \/ CanDequeue(ledger) /\ running' = Head(ledger.queue)
          /\ Store(Dequeue(ledger), "announce")
       \/ ~CanDequeue(ledger) /\ UNCHANGED running
          /\ Store(ledger, "idle")
    /\ UNCHANGED <<outcome, expired, history>>

Announce ==
    /\ agent = "announce"
    /\ Report(running, "executing", "execute")
    /\ UNCHANGED <<storage, running, outcome, expired, handed, evicted>>

\* Mutant: the executor's status is taken without a look at it.
ExecuteUnchecked ==
    /\ agent = "execute"
    /\ handed' = [handed EXCEPT ![running] = @ + 1]
    /\ outcome' \in ExecutorOutcomes \cup {"executing"}
    /\ agent' = "record"
    /\ UNCHANGED <<storage, running, expired, reported, evicted>>

Execute ==
    /\ agent = "execute"
    /\ handed' = [handed EXCEPT ![running] = @ + 1]
    /\ outcome' \in ExecutorOutcomes
    /\ agent' = "record"
    /\ UNCHANGED <<storage, running, expired, reported, evicted>>

\* finish writes nothing when the ledger does not know the command.
RecordOutcome ==
    /\ agent = "record"
    /\ \/ CanFinish(ledger, running) /\ Store(Finish(ledger, running, outcome), "report")
       \/ ~CanFinish(ledger, running) /\ agent' = "report" /\ UNCHANGED <<storage, evicted>>
    /\ UNCHANGED <<running, outcome, expired, history>>

ReportOutcome ==
    /\ agent = "report"
    /\ Report(running, outcome, "idle")
    /\ UNCHANGED <<storage, running, outcome, expired, handed, evicted>>

-----------------------------------------------------------------------------
(* The connection loop and the process                                     *)

Connect ==
    /\ agent = "offline"
    /\ agent' = "idle"
    /\ UNCHANGED <<storage, running, outcome, expired, history, evicted>>

\* A socket call fails, in the loop or in process_command.
LoseConnection ==
    /\ agent \in {"idle", "acknowledge", "announce", "report"}
    /\ agent' = "offline"
    /\ UNCHANGED <<storage, running, outcome, expired, history, evicted>>

Stop ==
    /\ agent # "stopped"
    /\ agent' = "stopped"
    /\ UNCHANGED <<storage, running, outcome, expired, history, evicted>>

\* open writes the recovered snapshot; when it fails the service exits.
Start ==
    /\ agent = "stopped"
    /\ Recoverable(durable)
    /\ ledger' = Recover(durable)
    /\ \/ durable' = ledger' /\ agent' = "offline"
       \/ durable' \in {durable, ledger'} /\ agent' = "stopped"
    /\ UNCHANGED <<running, outcome, expired, history, evicted>>

Expire(c) ==
    /\ c \notin expired
    /\ expired' = expired \cup {c}
    /\ UNCHANGED <<storage, control, history, evicted>>

ServiceStep == \/ Acknowledge \/ TakeNext \/ Announce \/ Execute
               \/ RecordOutcome \/ ReportOutcome

\* The server may send any command at any time and as often as it likes,
\* except one the ledger had to forget: it has at most eight unfinished
\* commands for a device, and the ledger remembers thousands.
Next ==
    \/ \E c \in CommandIds \ evicted : Receive(c)
    \/ \E c \in CommandIds : Expire(c)
    \/ ServiceStep
    \/ Connect \/ LoseConnection \/ Stop \/ Start

Spec == Init /\ [][Next]_vars

-----------------------------------------------------------------------------
(* Properties                                                              *)

AgentSteps == {"stopped", "offline", "idle", "acknowledge", "dequeue", "announce",
               "execute", "record", "report"}
Statuses == TerminalStates \cup NonTerminalStates

\* Every variable has its type.
TypeOK ==
    /\ ledger \in Ledgers /\ durable \in Ledgers
    /\ agent \in AgentSteps
    /\ running \in CommandIds \cup {NoCommand}
    /\ outcome \in TerminalStates
    /\ expired \subseteq CommandIds
    /\ handed \in [CommandIds -> Nat]
    /\ reported \subseteq CommandIds \X Statuses
    /\ evicted \subseteq CommandIds

\* No command is handed to the executor twice, whatever is resent, lost,
\* fails to be written, or crashes in between: the side effects of a command
\* are never repeated.
AtMostOnce == \A c \in CommandIds : handed[c] <= 1

\* Once the server was told how a command ended, other than by expiry, the
\* command is never handed to the executor: in particular not after
\* outcome_unknown, whether it had been handed before the crash or not.
SettledNotHanded ==
    [][\A c \in CommandIds, s \in TerminalStates \ {"expired"} :
          <<c, s>> \in reported => handed'[c] = handed[c]]_vars

\* The executor runs only what the server was told is executing, and what a
\* restart would not run again.
HandedIsDurable ==
    agent = "execute" =>
        /\ <<running, "executing">> \in reported
        /\ \A l \in {ledger, durable} : \A i \in DOMAIN l.queue : l.queue[i] # running
=============================================================================
