---------------------- MODULE FileCommandLedger_proofs ----------------------
(***************************************************************************)
(* The rename protocol of the ledger file, for every capacity and set of   *)
(* commands: the snapshot is never torn, and the file ledger implements    *)
(* the durable ledger.                                                     *)
(***************************************************************************)
EXTENDS FileCommandLedger, CommandLedger_proofs

\* What each file-system call of persist finds when it runs.
StepOK ==
    /\ step = "none" <=> status \in {"closed", "idle"}
    /\ step \in {"remove previous", "rename path", "rename temporary"}
          => temporary = Whole(ledger)
    /\ step \in {"remove previous", "rename path"} => Exists(path)
    /\ step = "rename temporary" => ~Exists(path)
    /\ step \in {"remove recovery", "sync parent"} => path = Whole(ledger)

IInv == TypeOK /\ NeverTorn /\ StepOK

-----------------------------------------------------------------------------

\* The three constant files are files.
LEMMA FilesType ==
    /\ Missing \in Files /\ Partial \in Files
    /\ \A l \in Ledgers : Whole(l) \in Files
BY EmptyLedgerType DEF Missing, Partial, Whole, Files

\* The initial state satisfies the inductive invariant.
LEMMA InitIInv == Init => IInv
BY EmptyLedgerType, FilesType
   DEF Init, IInv, TypeOK, NeverTorn, StepOK, Steps, Missing

\* Memory after a call is a ledger.
LEMMA PerformIInv ==
    ASSUME IInv, NEW l \in Ledgers, Perform(l)
    PROVE  IInv'
BY DEF IInv, TypeOK, NeverTorn, StepOK, Steps, Perform, files

\* Every step preserves the inductive invariant.
LEMMA NextIInv == IInv /\ [Next]_vars => IInv'
<1>. SUFFICES ASSUME IInv, [Next]_vars PROVE IInv'
  OBVIOUS
<1>. USE DEF IInv
<1>1. CASE Open
  <2>1. Source.content \in Ledgers
    BY DEF TypeOK, Files, Source
  <2>2. Recover(Source.content) \in Ledgers
    BY <2>1, RecoverProperties
  <2>. QED  BY <1>1, <2>2 DEF Open, TypeOK, NeverTorn, StepOK, Steps, files
<1>2. ASSUME NEW c \in CommandIds, AcceptCommand(c) PROVE IInv'
  <2>1. Accept(ledger, c) \in Ledgers
    BY AcceptProperties DEF TypeOK
  <2>. QED  BY <1>2, <2>1, PerformIInv DEF AcceptCommand
<1>3. CASE DequeueCommand
  <2>1. Dequeue(ledger) \in Ledgers
    BY DequeueType DEF TypeOK
  <2>. QED  BY <1>3, <2>1, PerformIInv DEF DequeueCommand
<1>4. ASSUME NEW c \in CommandIds, NEW outcome \in Outcomes, FinishCommand(c, outcome)
      PROVE  IInv'
  <2>1. Finish(ledger, c, outcome) \in Ledgers
    BY FinishProperties, OutcomesAssumption DEF TypeOK
  <2>. QED  BY <1>4, <2>1, PerformIInv DEF FinishCommand
<1>5. CASE CreateTemporary
  BY <1>5, FilesType DEF CreateTemporary, TypeOK, NeverTorn, StepOK, Steps
<1>6. CASE WriteTemporary
  BY <1>6, FilesType DEF WriteTemporary, TypeOK, NeverTorn, StepOK, Steps
<1>7. CASE RemovePrevious
  BY <1>7, FilesType DEF RemovePrevious, TypeOK, NeverTorn, StepOK, Steps, Missing
<1>8. CASE RenamePath
  BY <1>8, FilesType DEF RenamePath, TypeOK, NeverTorn, StepOK, Steps, Missing, Exists
<1>9. CASE RenameTemporary
  <2>1. path' = Whole(ledger') /\ temporary' = Missing
    BY <1>9 DEF RenameTemporary, StepOK
  <2>2. Whole(ledger').status = "whole"
    BY DEF Whole
  <2>3. step' \in {"remove recovery", "sync parent"}
    BY <1>9 DEF RenameTemporary
  <2>. QED
    BY <1>9, <2>1, <2>2, <2>3, FilesType
       DEF RenameTemporary, TypeOK, NeverTorn, StepOK, Steps
<1>10. CASE RemoveRecovery
  BY <1>10, FilesType DEF RemoveRecovery, TypeOK, NeverTorn, StepOK, Steps, Missing
<1>11. CASE SyncParent
  BY <1>11 DEF SyncParent, TypeOK, NeverTorn, StepOK, Steps, files
<1>12. CASE IoError
  BY <1>12 DEF IoError, TypeOK, NeverTorn, StepOK, Steps, files
<1>13. CASE Crash
  BY <1>13 DEF Crash, TypeOK, NeverTorn, StepOK, Steps, files
<1>14. CASE UNCHANGED vars
  BY <1>14 DEF vars, TypeOK, NeverTorn, StepOK, Exists, Source
<1>. QED
  BY <1>1, <1>2, <1>3, <1>4, <1>5, <1>6, <1>7, <1>8, <1>9, <1>10, <1>11, <1>12,
     <1>13, <1>14
     DEF Next, Operation, Persist

\* The inductive invariant holds throughout.
THEOREM Invariance == Spec => []IInv
BY InitIInv, NextIInv, PTL DEF Spec

\* Every variable always has its type.
THEOREM TypeCorrect == Spec => []TypeOK
<1>1. IInv => TypeOK
  BY DEF IInv
<1>. QED  BY <1>1, Invariance, PTL

\* Neither of the two files a restart may read is ever half-written.
THEOREM SnapshotNeverTorn == Spec => []NeverTorn
<1>1. IInv => NeverTorn
  BY DEF IInv
<1>. QED  BY <1>1, Invariance, PTL

-----------------------------------------------------------------------------
(* The bookkeeping of a ledger                                             *)

\* A ledger without commands is well formed.
LEMMA EmptyWellFormed == WellFormed(EmptyLedger)
BY DEF WellFormed, EmptyLedger, Known

\* An eviction leaves a well-formed ledger: the forgotten command leaves
\* `order` too, and it was not accepted.
LEMMA EvictionWellFormed ==
    ASSUME NEW l \in Ledgers, WellFormed(l)
    PROVE  WellFormed(RemoveOldestTerminal(l))
<1>1. CASE Full(l) /\ FinishedPlaces(l) # {}
  <2>. DEFINE i == OldestFinished(l)
              victim == l.order[i]
              rest == RemoveAt(l.order, i)
  <2>1. i \in DOMAIN l.order /\ victim \in CommandIds
    BY <1>1, OldestFinishedProperties
  <2>2. RemoveOldestTerminal(l) = [commands |-> [l.commands EXCEPT ![victim] = "absent"],
                                   order    |-> rest,
                                   queue    |-> l.queue]
    BY <1>1 DEF RemoveOldestTerminal
  <2>3. Injective(l.order) /\ l.order \in Seq(CommandIds)
    BY DEF WellFormed, Injective, Ledgers
  <2>4. Injective(rest) /\ \A k \in DOMAIN rest : \E j \in DOMAIN l.order : j # i /\ l.order[j] = rest[k]
    <3>. HIDE DEF i
    <3>. QED  BY <2>1, <2>3, RemoveAtProperties
  <2>. HIDE DEF i, rest
  <2>5. \A k \in DOMAIN rest : rest[k] # victim /\ l.commands[rest[k]] # "absent"
    BY <2>1, <2>3, <2>4 DEF WellFormed, Injective, Known, victim
  <2>6. \A k \in DOMAIN rest : rest[k] \in CommandIds
    BY <2>3, <2>4, ElementOfSeq, LenProperties
  <2>. HIDE DEF victim
  <2>. QED
    BY <2>1, <2>2, <2>4, <2>5, <2>6 DEF WellFormed, Injective, Known, Ledgers
<1>2. CASE ~(Full(l) /\ FinishedPlaces(l) # {})
  <2>1. RemoveOldestTerminal(l) = l
    BY <1>2, Zenon DEF RemoveOldestTerminal
  <2>. QED  BY <2>1
<1>. QED  BY <1>1, <1>2

\* Appending an element to a sequence.
LEMMA AppendElements ==
    ASSUME NEW S, NEW s \in Seq(S), NEW x \in S
    PROVE  /\ DOMAIN Append(s, x) = DOMAIN s \cup {Len(s) + 1}
           /\ Len(s) + 1 \notin DOMAIN s
           /\ Append(s, x)[Len(s) + 1] = x
           /\ \A i \in DOMAIN s : Append(s, x)[i] = s[i]
<1>1. Len(s) \in Nat /\ DOMAIN s = 1..Len(s)
  BY LenProperties
<1>2. DOMAIN Append(s, x) = 1..(Len(s) + 1)
  BY <1>1, AppendProperties, LenProperties
<1>. QED  BY <1>1, <1>2, AppendProperties

\* Accepting a command leaves a well-formed ledger.
LEMMA AcceptWellFormed ==
    ASSUME NEW l \in Ledgers, NEW c \in CommandIds, WellFormed(l)
    PROVE  WellFormed(Accept(l, c))
<1>. DEFINE e == RemoveOldestTerminal(l)
<1>1. e \in Ledgers /\ WellFormed(e)
  BY RemoveOldestTerminalProperties, EvictionWellFormed
<1>2. ASSUME ~Known(l, c)
      PROVE  WellFormed(Insert(e, c))
  <2>1. e.commands[c] = "absent"
    BY <1>2, RemoveOldestTerminalProperties DEF Known, Finished
  <2>. HIDE DEF e
  <2>. DEFINE n == Insert(e, c)
  <2>2. /\ n.order = Append(e.order, c) /\ n.queue = Append(e.queue, c)
        /\ n.commands = [e.commands EXCEPT ![c] = "accepted"]
    BY DEF Insert
  <2>3. e.order \in Seq(CommandIds) /\ e.queue \in Seq(CommandIds)
        /\ e.commands \in [CommandIds -> PersistedCommandState \cup {"absent"}]
    BY <1>1 DEF Ledgers
  <2>4. \A i \in DOMAIN e.order : e.order[i] # c
    BY <1>1, <2>1 DEF WellFormed, Known
  <2>5. \A i \in DOMAIN e.order : e.order[i] \in CommandIds
    BY <2>3, ElementOfSeq, LenProperties
  <2>6. /\ DOMAIN n.order = DOMAIN e.order \cup {Len(e.order) + 1}
        /\ Len(e.order) + 1 \notin DOMAIN e.order
        /\ n.order[Len(e.order) + 1] = c
        /\ \A i \in DOMAIN e.order : n.order[i] = e.order[i]
    <3>. HIDE DEF n
    <3>. QED  BY <2>2, <2>3, AppendElements
  <2>7. /\ DOMAIN n.queue = DOMAIN e.queue \cup {Len(e.queue) + 1}
        /\ n.queue[Len(e.queue) + 1] = c
        /\ \A i \in DOMAIN e.queue : n.queue[i] = e.queue[i]
    <3>. HIDE DEF n
    <3>. QED  BY <2>2, <2>3, AppendElements
  <2>. HIDE DEF n
  <2>8. \A i, j \in DOMAIN n.order : n.order[i] = n.order[j] => i = j
    BY <1>1, <2>4, <2>6 DEF WellFormed
  <2>9. \A i \in DOMAIN n.order : Known(n, n.order[i])
    BY <1>1, <2>2, <2>3, <2>4, <2>5, <2>6 DEF WellFormed, Known
  <2>10. \A d \in CommandIds : n.commands[d] = "accepted" => \E i \in DOMAIN n.queue : n.queue[i] = d
    BY <1>1, <2>2, <2>3, <2>7 DEF WellFormed
  <2>. QED  BY <2>8, <2>9, <2>10 DEF WellFormed, n
<1>. QED  BY <1>1, <1>2 DEF Accept

\* Taking the head of the queue leaves a well-formed ledger.
LEMMA DequeueWellFormed ==
    ASSUME NEW l \in Ledgers, WellFormed(l)
    PROVE  WellFormed(Dequeue(l))
<1>1. CASE CanDequeue(l)
  <2>. DEFINE h == Head(l.queue)
              n == Dequeue(l)
  <2>1. /\ h \in CommandIds /\ n.queue = Tail(l.queue) /\ n.order = l.order
        /\ n.commands = [l.commands EXCEPT ![h] = "executing"]
    BY <1>1, DequeueProperties
  <2>2. /\ l.queue \in Seq(CommandIds) /\ l.queue # << >>
        /\ l.commands \in [CommandIds -> PersistedCommandState \cup {"absent"}]
    BY <1>1 DEF Ledgers, CanDequeue
  <2>3. h = l.queue[1]
    BY <2>2, HeadTailProperties
  <2>4. ASSUME NEW i \in DOMAIN l.queue, i # 1
        PROVE  i - 1 \in DOMAIN Tail(l.queue) /\ Tail(l.queue)[i - 1] = l.queue[i]
    <3>1. Len(l.queue) \in Nat /\ DOMAIN l.queue = 1..Len(l.queue)
      BY <2>2, LenProperties
    <3>2. Tail(l.queue) \in Seq(CommandIds) /\ Len(Tail(l.queue)) = Len(l.queue) - 1
          /\ \A k \in 1..Len(Tail(l.queue)) : Tail(l.queue)[k] = l.queue[k + 1]
      BY <2>2, HeadTailProperties
    <3>3. DOMAIN Tail(l.queue) = 1..(Len(l.queue) - 1)
      BY <3>2, LenProperties
    <3>. QED  BY <2>4, <3>1, <3>2, <3>3
  <2>. HIDE DEF h, n
  <2>5. \A i \in DOMAIN l.order : l.order[i] \in CommandIds
    <3>1. l.order \in Seq(CommandIds)
      BY DEF Ledgers
    <3>. QED  BY <3>1, ElementOfSeq, LenProperties
  <2>6. \A d \in CommandIds : n.commands[d] = "accepted" => \E i \in DOMAIN n.queue : n.queue[i] = d
    <3>. SUFFICES ASSUME NEW d \in CommandIds, n.commands[d] = "accepted"
                  PROVE  \E i \in DOMAIN n.queue : n.queue[i] = d
      OBVIOUS
    <3>1. d # h /\ l.commands[d] = "accepted"
      BY <2>1, <2>2
    <3>2. PICK i \in DOMAIN l.queue : l.queue[i] = d
      BY <3>1 DEF WellFormed
    <3>3. i # 1
      BY <2>3, <3>1, <3>2
    <3>4. i - 1 \in DOMAIN n.queue /\ n.queue[i - 1] = d
      BY <2>1, <2>4, <3>2, <3>3
    <3>. QED  BY <3>4
  <2>7. /\ \A i, j \in DOMAIN n.order : n.order[i] = n.order[j] => i = j
        /\ \A i \in DOMAIN n.order : Known(n, n.order[i])
    BY <2>1, <2>2, <2>5 DEF WellFormed, Known
  <2>. QED  BY <2>6, <2>7 DEF WellFormed, n
<1>2. CASE ~CanDequeue(l)
  BY <1>2 DEF Dequeue
<1>. QED  BY <1>1, <1>2

\* Finishing a command leaves a well-formed ledger.
LEMMA FinishWellFormed ==
    ASSUME NEW l \in Ledgers, NEW c \in CommandIds, NEW outcome \in TerminalStates, WellFormed(l)
    PROVE  WellFormed(Finish(l, c, outcome))
<1>. DEFINE n == Finish(l, c, outcome)
<1>1. /\ n.queue = l.queue /\ n.order = l.order
      /\ \A d \in CommandIds : Known(n, d) <=> Known(l, d)
      /\ \A d \in CommandIds \ {c} : n.commands[d] = l.commands[d]
  BY FinishProperties
<1>2. n.commands[c] = "accepted" => l.commands[c] = "accepted"
  BY DEF Finish, CanFinish, Known, TerminalStates, Ledgers
<1>3. \A i \in DOMAIN l.order : l.order[i] \in CommandIds
  <2>1. l.order \in Seq(CommandIds)
    BY DEF Ledgers
  <2>. QED  BY <2>1, ElementOfSeq, LenProperties
<1>. HIDE DEF n
<1>4. WellFormed(n)
  BY <1>1, <1>2, <1>3 DEF WellFormed
<1>. QED  BY <1>4 DEF n

\* Recovery leaves a well-formed ledger.
LEMMA RecoverWellFormed ==
    ASSUME NEW l \in Ledgers, WellFormed(l)
    PROVE  WellFormed(Recover(l))
<1>. DEFINE keep == {c \in CommandIds : l.commands[c] = "accepted"}
            n == Recover(l)
<1>1. /\ n.order = l.order
      /\ \A c \in CommandIds : Known(n, c) <=> Known(l, c)
      /\ \A c \in CommandIds : n.commands[c] = "accepted" => l.commands[c] = "accepted"
  BY RecoverProperties
<1>2. \A i \in DOMAIN l.queue : l.queue[i] \in keep => Holds(n.queue, l.queue[i])
  <2>1. n.queue = Retain(l.queue, keep)
    BY DEF Recover
  <2>2. l.queue \in Seq(CommandIds)
    BY DEF Ledgers
  <2>. HIDE DEF keep, n
  <2>. QED  BY <2>1, <2>2, RetainProperties
<1>3. \A i \in DOMAIN l.order : l.order[i] \in CommandIds
  <2>1. l.order \in Seq(CommandIds)
    BY DEF Ledgers
  <2>. QED  BY <2>1, ElementOfSeq, LenProperties
<1>. HIDE DEF n
<1>4. WellFormed(n)
  BY <1>1, <1>2, <1>3 DEF WellFormed, Holds
<1>. QED  BY <1>4 DEF n

\* Memory and every file are well formed.
AllWellFormed ==
    /\ WellFormed(ledger)
    /\ WellFormed(path.content) /\ WellFormed(previous.content) /\ WellFormed(temporary.content)

\* Files that are missing or partial have the content of the empty ledger.
LEMMA FilesWellFormed ==
    /\ WellFormed(Missing.content) /\ WellFormed(Partial.content)
    /\ \A l : Whole(l).content = l
BY EmptyWellFormed DEF Missing, Partial, Whole

\* Every step keeps memory and the files well formed.
LEMMA WellFormedStep == IInv /\ AllWellFormed /\ [Next]_vars => AllWellFormed'
<1>. SUFFICES ASSUME IInv, AllWellFormed, [Next]_vars PROVE AllWellFormed'
  OBVIOUS
<1>. USE DEF AllWellFormed
<1>0. ledger \in Ledgers
  BY DEF IInv, TypeOK
<1>1. CASE Open
  <2>1. Source.content \in Ledgers /\ WellFormed(Source.content)
    BY DEF Source, IInv, TypeOK, Files
  <2>. QED  BY <1>1, <2>1, RecoverWellFormed DEF Open, files
<1>2. ASSUME NEW c \in CommandIds, AcceptCommand(c) PROVE AllWellFormed'
  BY <1>0, <1>2, AcceptWellFormed DEF AcceptCommand, Perform, files
<1>3. CASE DequeueCommand
  BY <1>0, <1>3, DequeueWellFormed DEF DequeueCommand, Perform, files
<1>4. ASSUME NEW c \in CommandIds, NEW outcome \in Outcomes, FinishCommand(c, outcome)
      PROVE  AllWellFormed'
  BY <1>0, <1>4, FinishWellFormed, OutcomesAssumption DEF FinishCommand, Perform, files
<1>5. CASE Persist
  BY <1>5, FilesWellFormed
     DEF Persist, CreateTemporary, WriteTemporary, RemovePrevious, RenamePath,
         RenameTemporary, RemoveRecovery, SyncParent, files
<1>6. CASE IoError \/ Crash \/ UNCHANGED vars
  BY <1>6 DEF IoError, Crash, vars, files
<1>. QED  BY <1>1, <1>2, <1>3, <1>4, <1>5, <1>6 DEF Next, Operation

\* Whatever was finished, evicted, refused or recovered, memory and the
\* snapshot a restart reads list each known command at most once, and what is
\* accepted waits in the queue.
THEOREM Bookkeeping == Spec => []LedgersWellFormed
<1>1. Init => AllWellFormed
  BY EmptyWellFormed, FilesWellFormed DEF Init, AllWellFormed
<1>2. AllWellFormed => LedgersWellFormed
  BY DEF AllWellFormed, LedgersWellFormed, Source
<1>. QED  BY <1>1, <1>2, WellFormedStep, Invariance, PTL DEF Spec

\* No step of a running agent forgets a command that is not terminal.
LEMMA KeptStep ==
    ASSUME IInv, [Next]_vars,
           NEW c \in CommandIds, status # "closed", Known(ledger, c), ~Finished(ledger, c)
    PROVE  Known(ledger', c)
<1>0. ledger \in Ledgers
  BY DEF IInv, TypeOK
<1>1. ASSUME NEW d \in CommandIds, AcceptCommand(d) PROVE Known(ledger', c)
  <2>1. ledger' = Accept(ledger, d)
    BY <1>1 DEF AcceptCommand, Perform
  <2>2. CASE c = d
    BY <1>0, <2>1, <2>2, AcceptProperties
  <2>3. CASE c # d
    BY <1>0, <2>1, <2>3, AcceptProperties DEF Known
  <2>. QED  BY <2>2, <2>3
<1>2. CASE DequeueCommand
  <2>1. ledger' = Dequeue(ledger)
    BY <1>2 DEF DequeueCommand, Perform
  <2>2. ledger.commands \in [CommandIds -> PersistedCommandState \cup {"absent"}]
    BY <1>0 DEF Ledgers
  <2>. QED  BY <1>0, <2>1, <2>2, DequeueProperties DEF Known, Dequeue
<1>3. ASSUME NEW d \in CommandIds, NEW outcome \in Outcomes, FinishCommand(d, outcome)
      PROVE  Known(ledger', c)
  BY <1>0, <1>3, FinishProperties, OutcomesAssumption DEF FinishCommand, Perform
<1>4. CASE Persist \/ IoError \/ Crash \/ UNCHANGED vars
  <2>1. ledger' = ledger
    BY <1>4 DEF Persist, CreateTemporary, WriteTemporary, RemovePrevious, RenamePath,
                RenameTemporary, RemoveRecovery, SyncParent, IoError, Crash, vars
  <2>. QED  BY <2>1
<1>. QED  BY <1>1, <1>2, <1>3, <1>4 DEF Next, Operation, Open

\* A command that is not terminal is never forgotten while the agent runs,
\* for every capacity: only terminal entries are evicted.
THEOREM OnlyTerminalForgotten == Spec => NonTerminalKept
<1>1. IInv /\ [Next]_vars
        => [\A c \in CommandIds :
              status # "closed" /\ Known(ledger, c) /\ ~Finished(ledger, c)
                => Known(ledger', c)]_vars
  BY KeptStep
<1>. QED  BY <1>1, Invariance, PTL DEF Spec, NonTerminalKept

-----------------------------------------------------------------------------
(* Refinement                                                              *)

\* The initial states of the file ledger are initial states of the durable one.
LEMMA InitRefines == Init => Durable!Init
BY DEF Init, Durable!Init, Source, Exists, Missing

\* A change in memory is a change of the durable ledger.
LEMMA PerformRefines ==
    ASSUME NEW l \in Changes(ledger), Perform(l)
    PROVE  Durable!Apply
BY DEF Perform, Durable!Apply, Source, files

\* Every step of the file ledger is a step of the durable one, or changes
\* nothing of it.
LEMMA NextRefines == IInv /\ [Next]_vars => [Durable!Next]_Durable!vars
<1>. SUFFICES ASSUME IInv, [Next]_vars PROVE [Durable!Next]_Durable!vars
  OBVIOUS
<1>. USE DEF Durable!Next, Durable!vars
<1>1. CASE Open
  BY <1>1 DEF Open, Durable!Reopen, Source, files
<1>2. ASSUME NEW c \in CommandIds, AcceptCommand(c)
      PROVE  Durable!Apply
  <2>1. Accept(ledger, c) \in Changes(ledger)
    BY <1>2 DEF AcceptCommand, Changes
  <2>. QED  BY <1>2, <2>1, PerformRefines DEF AcceptCommand
<1>3. CASE DequeueCommand
  <2>1. Dequeue(ledger) \in Changes(ledger)
    BY DEF Changes
  <2>. QED  BY <1>3, <2>1, PerformRefines DEF DequeueCommand
<1>4. ASSUME NEW c \in CommandIds, NEW outcome \in Outcomes, FinishCommand(c, outcome)
      PROVE  Durable!Apply
  <2>1. Finish(ledger, c, outcome) \in Changes(ledger)
    BY <1>4 DEF FinishCommand, Changes
  <2>. QED  BY <1>4, <2>1, PerformRefines DEF FinishCommand
<1>5. CASE CreateTemporary
  BY <1>5 DEF CreateTemporary, Source
<1>6. CASE WriteTemporary
  BY <1>6 DEF WriteTemporary, Source
<1>7. CASE RemovePrevious
  BY <1>7 DEF RemovePrevious, Source, IInv, StepOK
<1>8. CASE RenamePath
  BY <1>8 DEF RenamePath, Source, IInv, StepOK, Missing, Exists
<1>9. CASE RenameTemporary
  <2>1. path' = Whole(ledger) /\ ledger' = ledger /\ status' = status
    BY <1>9 DEF RenameTemporary, IInv, StepOK
  <2>2. Source'.content = ledger
    BY <2>1 DEF Source, Exists, Whole
  <2>3. status \in {"opening", "busy"}
    BY <1>9 DEF RenameTemporary, IInv, StepOK, TypeOK
  <2>. QED  BY <2>1, <2>2, <2>3 DEF Durable!Commit
<1>10. CASE RemoveRecovery
  <2>1. path = Whole(ledger) /\ path' = path /\ ledger' = ledger /\ status' = status
    BY <1>10 DEF RemoveRecovery, IInv, StepOK
  <2>2. Exists(path) /\ Exists(path')
    BY <2>1 DEF Whole, Exists
  <2>. QED  BY <2>1, <2>2 DEF Source
<1>11. CASE SyncParent
  <2>1. /\ path = Whole(ledger) /\ status \in {"opening", "busy"}
        /\ path' = path /\ ledger' = ledger /\ previous' = previous /\ status' = "idle"
    BY <1>11 DEF SyncParent, IInv, StepOK, TypeOK, files
  <2>2. Exists(path) /\ path.content = ledger
    BY <2>1 DEF Whole, Exists
  <2>. QED  BY <2>1, <2>2 DEF Source, Durable!Succeed
<1>12. CASE IoError
  BY <1>12 DEF IoError, Durable!Fail, Source, IInv, StepOK, TypeOK, files
<1>13. CASE Crash
  BY <1>13 DEF Crash, Durable!Crash, Source, IInv, TypeOK, files
<1>14. CASE UNCHANGED vars
  BY <1>14 DEF vars, Source
<1>. QED
  BY <1>1, <1>2, <1>3, <1>4, <1>5, <1>6, <1>7, <1>8, <1>9, <1>10, <1>11, <1>12,
     <1>13, <1>14
     DEF Next, Operation, Persist

\* The file ledger, with its renames, I/O errors and crashes, is a durable
\* ledger: what a restart reads is the snapshot of the last successful call,
\* or of a later one that did not report success.
THEOREM Refinement == Spec => RefinesDurableLedger
BY InitRefines, NextRefines, Invariance, PTL DEF Spec, RefinesDurableLedger, Durable!Spec
=============================================================================
