------------------------- MODULE FileCommandLedger -------------------------
(***************************************************************************)
(* The agent's ledger on disk.  Every call changes memory first and then   *)
(* rewrites the snapshot: a temporary file, the old snapshot moved aside,  *)
(* the new one moved in, the old one removed.  Each file-system call is a  *)
(* step of its own; any of them may return an I/O error, and the process   *)
(* may stop between any two.  A rename or a removal that returned is       *)
(* assumed to survive the stop (the process crashes, not the disk).        *)
(***************************************************************************)
EXTENDS CommandLedger

CONSTANT Outcomes  \* the terminal states callers pass to finish

ASSUME OutcomesAssumption == Outcomes \subseteq TerminalStates

VARIABLES
    ledger,     \* CommandLedger in memory
    path,       \* the snapshot file
    previous,   \* the file the old snapshot is moved to
    temporary,  \* the file the new snapshot is written to
    step,       \* the next file-system call of persist, or "none"
    status      \* "closed", or the call in progress: "opening", "busy", else "idle"

files == <<path, previous, temporary>>
vars == <<ledger, path, previous, temporary, step, status>>

\* A file that was created and not completely written is "partial".  The
\* content of a file that is not whole is the empty ledger: what open starts
\* from when there is no file.
Files == [status : {"missing", "partial", "whole"}, content : Ledgers]
Missing == [status |-> "missing", content |-> EmptyLedger]
Partial == [status |-> "partial", content |-> EmptyLedger]
Whole(l) == [status |-> "whole", content |-> l]
Exists(file) == file.status # "missing"

Init ==
    /\ ledger = EmptyLedger
    /\ path = Missing /\ previous = Missing /\ temporary = Missing
    /\ step = "none"
    /\ status = "closed"

-----------------------------------------------------------------------------
(* open                                                                    *)

Source == IF Exists(path) THEN path ELSE previous

\* A snapshot that does not parse, or holds more than the capacity, is an
\* error: open returns no ledger, and nothing has changed.

Open ==
    /\ status = "closed"
    /\ Source.status # "partial"
    /\ Recoverable(Source.content)
    /\ ledger' = Recover(Source.content)
    /\ status' = "opening"
    /\ step' = "create"
    /\ UNCHANGED files

-----------------------------------------------------------------------------
(* accept, dequeue, finish: the change in memory, then persist             *)

Perform(l) ==
    /\ status = "idle"
    /\ ledger' = l
    /\ status' = "busy"
    /\ step' = "create"
    /\ UNCHANGED files

\* A refused accept persists nothing.  Only in a ledger over its capacity has it
\* evicted in memory first: AgentService, where commands expire, has that (Refuse).
AcceptCommand(c) == ~AcceptRefused(ledger, c) /\ Perform(Accept(ledger, c))

\* dequeue persists even when the queue was empty.
DequeueCommand == Perform(Dequeue(ledger))

FinishCommand(c, outcome) == CanFinish(ledger, c) /\ Perform(Finish(ledger, c, outcome))

-----------------------------------------------------------------------------
(* persist                                                                 *)

\* Mutant: the snapshot is rewritten in place.
TruncatePath ==
    /\ step = "create"
    /\ path' = Partial
    /\ step' = "write"
    /\ UNCHANGED <<ledger, previous, temporary, status>>

CreateTemporary ==
    /\ step = "create"
    /\ temporary' = Partial
    /\ step' = "write"
    /\ UNCHANGED <<ledger, path, previous, status>>

WriteTemporary ==
    /\ step = "write"
    /\ temporary' = Whole(ledger)
    /\ step' = IF ~Exists(path) THEN "rename temporary"
               ELSE IF Exists(previous) THEN "remove previous"
               ELSE "rename path"
    /\ UNCHANGED <<ledger, path, previous, status>>

RemovePrevious ==
    /\ step = "remove previous"
    /\ previous' = Missing
    /\ step' = "rename path"
    /\ UNCHANGED <<ledger, path, temporary, status>>

\* Mutant: the old snapshot is removed, not moved aside.
RemovePath ==
    /\ step = "rename path"
    /\ path' = Missing
    /\ step' = "rename temporary"
    /\ UNCHANGED <<ledger, previous, temporary, status>>

RenamePath ==
    /\ step = "rename path"
    /\ previous' = path
    /\ path' = Missing
    /\ step' = "rename temporary"
    /\ UNCHANGED <<ledger, temporary, status>>

RenameTemporary ==
    /\ step = "rename temporary"
    /\ path' = temporary
    /\ temporary' = Missing
    /\ step' = IF Exists(previous) THEN "remove recovery" ELSE "sync parent"
    /\ UNCHANGED <<ledger, previous, status>>

RemoveRecovery ==
    /\ step = "remove recovery"
    /\ previous' = Missing
    /\ step' = "sync parent"
    /\ UNCHANGED <<ledger, path, temporary, status>>

SyncParent ==
    /\ step = "sync parent"
    /\ step' = "none"
    /\ status' = "idle"
    /\ UNCHANGED <<ledger, files>>

Persist == \/ CreateTemporary \/ WriteTemporary \/ RemovePrevious \/ RenamePath
           \/ RenameTemporary \/ RemoveRecovery \/ SyncParent

\* The call in progress returns the error of a file-system call; memory
\* keeps the change.  A failed open gives its caller no ledger.
IoError ==
    /\ step # "none"
    /\ step' = "none"
    /\ status' = IF status = "opening" THEN "closed" ELSE "idle"
    /\ UNCHANGED <<ledger, files>>

\* A write that fails half-way, or a crash during it, leaves a partial file:
\* the same file as before the write.
Crash ==
    /\ status # "closed"
    /\ status' = "closed"
    /\ step' = "none"
    /\ UNCHANGED <<ledger, files>>

Operation == \/ \E c \in CommandIds : AcceptCommand(c)
             \/ DequeueCommand
             \/ \E c \in CommandIds, outcome \in Outcomes : FinishCommand(c, outcome)

Next == Open \/ Operation \/ Persist \/ IoError \/ Crash

Spec == Init /\ [][Next]_vars

-----------------------------------------------------------------------------
(* Properties                                                              *)

Steps == {"none", "create", "write", "remove previous", "rename path",
          "rename temporary", "remove recovery", "sync parent"}

\* Every variable has its type.
TypeOK ==
    /\ ledger \in Ledgers
    /\ path \in Files /\ previous \in Files /\ temporary \in Files
    /\ step \in Steps
    /\ status \in {"closed", "opening", "idle", "busy"}

\* A restart never finds a half-written snapshot, wherever the previous run
\* stopped: `open` would refuse it and the agent could not start again.
NeverTorn == path.status # "partial" /\ previous.status # "partial"

\* The bookkeeping of a ledger, whatever was finished, evicted, refused or
\* recovered: `order` lists known commands, each once, so that an eviction
\* removes a command completely; and whatever is accepted still waits in the
\* queue.  It holds of memory and of the snapshot a restart reads.
WellFormed(l) ==
    /\ \A i, j \in DOMAIN l.order : l.order[i] = l.order[j] => i = j
    /\ \A i \in DOMAIN l.order : Known(l, l.order[i])
    /\ \A c \in CommandIds : l.commands[c] = "accepted"
                              => \E i \in DOMAIN l.queue : l.queue[i] = c

LedgersWellFormed == WellFormed(ledger) /\ WellFormed(Source.content)

\* What the calls that go on to write the snapshot make of a ledger.
Changes(l) ==
    {Accept(l, c) : c \in {d \in CommandIds : ~AcceptRefused(l, d)}}
    \cup {Dequeue(l)}
    \cup {Finish(l, c, s) : c \in {d \in CommandIds : CanFinish(l, d)}, s \in Outcomes}

\* What survives a crash is the snapshot of the file `open` would read.
Durable == INSTANCE DurableLedger WITH
    durable <- Source.content, Initial <- EmptyLedger, Changes <- Changes

\* The file ledger is a durable ledger: each call ends with the snapshot
\* equal to memory, or with an error and one of the two snapshots, at every
\* crash and I/O error of the rename protocol.
RefinesDurableLedger == Durable!Spec

\* A command that is not terminal is never forgotten while the agent runs,
\* however full the ledger is: only terminal entries are evicted.
NonTerminalKept ==
    [][\A c \in CommandIds :
          status # "closed" /\ Known(ledger, c) /\ ~Finished(ledger, c)
            => Known(ledger', c)]_vars
=============================================================================
