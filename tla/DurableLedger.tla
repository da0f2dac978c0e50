--------------------------- MODULE DurableLedger ---------------------------
(***************************************************************************)
(* What the agent relies on the file ledger for: one copy in memory, one   *)
(* snapshot that survives a crash, and every call either reports success   *)
(* with the snapshot equal to memory or reports an error with the snapshot *)
(* at its old or its new value -- never anything else.                     *)
(***************************************************************************)

CONSTANTS
    Initial,         \* the contents of a ledger nobody has written
    Changes(_),      \* what a call may turn the contents into
    Recover(_),      \* what a restart makes of a snapshot
    Recoverable(_)   \* the snapshots a restart accepts

VARIABLES
    ledger,   \* the copy in memory
    durable,  \* the snapshot a restart reads
    status    \* "closed", "opening", "idle" or "busy": the call in progress

vars == <<ledger, durable, status>>

Init == /\ ledger = Initial
        /\ durable = Initial
        /\ status = "closed"

Reopen == /\ status = "closed"
          /\ Recoverable(durable)
          /\ ledger' = Recover(durable)
          /\ status' = "opening"
          /\ UNCHANGED durable

Apply == /\ status = "idle"
         /\ ledger' \in Changes(ledger)
         /\ status' = "busy"
         /\ UNCHANGED durable

Commit == /\ status \in {"opening", "busy"}
          /\ durable' = ledger
          /\ UNCHANGED <<ledger, status>>

Succeed == /\ status \in {"opening", "busy"}
           /\ durable = ledger
           /\ status' = "idle"
           /\ UNCHANGED <<ledger, durable>>

\* An I/O error: the caller of open gets no ledger, the others keep theirs.
Fail == /\ status \in {"opening", "busy"}
        /\ status' = IF status = "opening" THEN "closed" ELSE "idle"
        /\ UNCHANGED <<ledger, durable>>

Crash == /\ status # "closed"
         /\ status' = "closed"
         /\ UNCHANGED <<ledger, durable>>

Next == Reopen \/ Apply \/ Commit \/ Succeed \/ Fail \/ Crash

Spec == Init /\ [][Next]_vars
=============================================================================
