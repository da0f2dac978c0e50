--------------------------- MODULE CommandLedger ---------------------------
(***************************************************************************)
(* The agent's in-memory command ledger: the deduplication record of every *)
(* command the agent has been sent and the FIFO of the ones it still has   *)
(* to run.  Pure data: a ledger is a record, an operation is an operator   *)
(* from ledgers to ledgers.  A queued AgentCommand is its identifier: the  *)
(* ledger never looks at the rest of the payload.                          *)
(***************************************************************************)
EXTENDS Queues, SequencesExt, FiniteSets

CONSTANTS
    CommandIds,  \* identifiers of the commands a server may send
    Capacity     \* how many commands the ledger remembers (4096 in the agent)

ASSUME CapacityAssumption == Capacity \in Nat \ {0}

TerminalStates == {"succeeded", "failed", "expired", "outcome_unknown"}
NonTerminalStates == {"accepted", "executing"}
PersistedCommandState == TerminalStates \cup NonTerminalStates

\* "absent": the HashMap has no entry for the identifier.
Ledgers == [commands : [CommandIds -> PersistedCommandState \cup {"absent"}],
            order    : Seq(CommandIds),
            queue    : Seq(CommandIds)]

EmptyLedger == [commands |-> [c \in CommandIds |-> "absent"],
                order    |-> << >>,
                queue    |-> << >>]

Known(l, c) == l.commands[c] # "absent"
Finished(l, c) == l.commands[c] \in TerminalStates

\* commands.len()
Size(l) == Cardinality({c \in CommandIds : Known(l, c)})
Full(l) == Size(l) >= Capacity

-----------------------------------------------------------------------------
(* accept                                                                  *)

\* Mutant: a full ledger forgets its oldest command, whatever its state.
AnyPlaces(l) == DOMAIN l.order

FinishedPlaces(l) == {i \in DOMAIN l.order : Finished(l, l.order[i])}

OldestFinished(l) ==
    CHOOSE i \in FinishedPlaces(l) : \A j \in FinishedPlaces(l) : i <= j

\* Mutant: the evicted identifier stays in `order`.
RemoveFromCommandsOnly(l) ==
    IF Full(l) /\ FinishedPlaces(l) # {}
    THEN [l EXCEPT !.commands = [l.commands EXCEPT ![l.order[OldestFinished(l)]] = "absent"]]
    ELSE l

RemoveOldestTerminal(l) ==
    IF Full(l) /\ FinishedPlaces(l) # {}
    THEN LET i == OldestFinished(l)
         IN  [commands |-> [l.commands EXCEPT ![l.order[i]] = "absent"],
              order    |-> RemoveAt(l.order, i),
              queue    |-> l.queue]
    ELSE l

\* An unknown command finds a full ledger in which nothing is terminal.
AcceptRefused(l, c) == ~Known(l, c) /\ Full(RemoveOldestTerminal(l))

Insert(l, c) == [commands |-> [l.commands EXCEPT ![c] = "accepted"],
                 order    |-> Append(l.order, c),
                 queue    |-> Append(l.queue, c)]

Accept(l, c) ==
    IF Known(l, c) THEN l
    ELSE IF AcceptRefused(l, c) THEN RemoveOldestTerminal(l)
    ELSE Insert(RemoveOldestTerminal(l), c)

-----------------------------------------------------------------------------
(* dequeue and finish                                                      *)

CanDequeue(l) == l.queue # << >>

\* Mutant: the head is read and not popped.
DequeuePeeks(l) ==
    IF CanDequeue(l)
    THEN [l EXCEPT !.commands = [l.commands EXCEPT ![Head(l.queue)] = "executing"]]
    ELSE l

Dequeue(l) ==
    IF CanDequeue(l)
    THEN [commands |-> [l.commands EXCEPT ![Head(l.queue)] = "executing"],
          order    |-> l.order,
          queue    |-> Tail(l.queue)]
    ELSE l

CanFinish(l, c) == Known(l, c)

\* The queue is left as it is, whatever the state of the command was.
Finish(l, c, outcome) ==
    IF CanFinish(l, c)
    THEN [l EXCEPT !.commands = [l.commands EXCEPT ![c] = outcome]]
    ELSE l

-----------------------------------------------------------------------------
(* Recovery from a snapshot, which open refuses when it is larger than the *)
(* capacity.  A command that was executing may or may not have had its     *)
(* effect, and only accepted commands stay queued.                         *)

Recoverable(l) == Size(l) <= Capacity

\* Mutant: an interrupted command is queued again.
RecoverRequeued(l) ==
    LET again == {c \in CommandIds : l.commands[c] \in NonTerminalStates}
    IN  [commands |-> [c \in CommandIds |-> IF c \in again THEN "accepted" ELSE l.commands[c]],
         order    |-> l.order,
         queue    |-> Retain(l.order, again)]

Recover(l) ==
    [commands |-> [c \in CommandIds |-> IF l.commands[c] = "executing"
                                        THEN "outcome_unknown"
                                        ELSE l.commands[c]],
     order    |-> l.order,
     queue    |-> Retain(l.queue, {c \in CommandIds : l.commands[c] = "accepted"})]
=============================================================================
