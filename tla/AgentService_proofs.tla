------------------------ MODULE AgentService_proofs ------------------------
(***************************************************************************)
(* The agent: at most one hand-over of every command, and none after its   *)
(* end was reported, for every set of commands, capacity and executor.     *)
(* And its session router: whatever sessions attach, hang and go, a command*)
(* is executed once, in the order of the calls, and its caller is told its *)
(* own outcome, for every set of sessions, commands and outcomes and every *)
(* capacity of the channel.                                                *)
(* And both ends of the delivery: they agree on how every command ended.   *)
(***************************************************************************)
EXTENDS CommandDelivery, SessionRouter, CommandLedger_proofs

InQueue(l, c) == \E i \in DOMAIN l.queue : l.queue[i] = c

\* The states of a command that left the queue, other than by expiring.
Started == PersistedCommandState \ {"accepted", "expired"}

\* No command is queued twice; a queued command is known or was forgotten
\* while it was queued, and it has not been started.
QueueOK(l) ==
    /\ Injective(l.queue)
    /\ \A c \in CommandIds :
          InQueue(l, c) => /\ Known(l, c) \/ c \in evicted
                           /\ l.commands[c] \notin Started

\* Neither the memory nor a restart can queue the command any more.
Spent(c) ==
    \A l \in {ledger, durable} : ~InQueue(l, c) /\ (Known(l, c) \/ c \in evicted)

ReportedEnd(c) == \E s \in TerminalStates \ {"expired"} : <<c, s>> \in reported

HandedOK == \A c \in CommandIds : handed[c] <= 1 /\ (handed[c] > 0 => Spent(c))

RunningOK ==
    /\ agent \in {"acknowledge", "announce", "execute", "record", "report"}
          => running \in CommandIds
    /\ agent \in {"announce", "execute"}
          => Spent(running) /\ handed[running] = 0 /\ ~ReportedEnd(running)
    /\ agent = "execute" => <<running, "executing">> \in reported
    /\ agent \in {"record", "report"} /\ outcome # "expired" => handed[running] > 0

Ended == Started \ {"executing"}

EndOK ==
    /\ agent # "stopped" => \A c \in CommandIds :
          ledger.commands[c] \in Ended => Spent(c)
    /\ \A c \in CommandIds : ReportedEnd(c) => Spent(c)

IInv == TypeOK /\ QueueOK(ledger) /\ QueueOK(durable) /\ HandedOK /\ RunningOK /\ EndOK

-----------------------------------------------------------------------------
(* What a ledger call may do to the two copies                             *)

Forgotten(l) == {c \in CommandIds : Known(ledger, c) /\ ~Known(l, c)}

\* `l` is a ledger a call may turn memory into: it queues nothing that was
\* started, and nothing new but commands it never saw.
Move(l) ==
    /\ l \in Ledgers
    /\ Injective(l.queue)
    /\ \A c \in CommandIds : InQueue(l, c) =>
          /\ l.commands[c] \notin Started
          /\ Known(l, c) \/ Known(ledger, c) \/ c \in evicted
          /\ InQueue(ledger, c) \/ (~Known(ledger, c) /\ c \notin evicted)
    /\ \A c \in CommandIds : l.commands[c] \in Ended => Spent(c)

\* Writing such a ledger, to memory or to both, keeps both queues in order
\* and every spent command spent.
LEMMA MoveKeeps ==
    ASSUME IInv, NEW l, Move(l), ledger' = l, durable' \in {durable, l},
           evicted' = evicted \cup Forgotten(l)
    PROVE  /\ ledger' \in Ledgers /\ durable' \in Ledgers /\ evicted' \subseteq CommandIds
           /\ QueueOK(ledger)' /\ QueueOK(durable)'
           /\ \A c \in CommandIds : Spent(c) => Spent(c)'
           /\ \A c \in CommandIds : ledger'.commands[c] \in Ended => Spent(c)'
<1>1. ledger' \in Ledgers /\ durable' \in Ledgers /\ evicted' \subseteq CommandIds
  BY DEF IInv, TypeOK, Move, Forgotten
<1>2. QueueOK(l)'
  BY DEF QueueOK, Move, Forgotten, InQueue, Injective, Known
<1>4. QueueOK(ledger)' /\ QueueOK(durable)'
  <2>1. QueueOK(ledger)'
    BY <1>2 DEF QueueOK, InQueue, Injective, Known
  <2>2. ASSUME durable' = l
        PROVE  QueueOK(durable)'
    BY <1>2, <2>2 DEF QueueOK, InQueue, Injective, Known
  <2>3. ASSUME durable' = durable
        PROVE  QueueOK(durable)'
    <3>1. QueueOK(durable) /\ evicted \subseteq evicted'
      BY DEF IInv
    <3>. QED  BY <2>3, <3>1 DEF QueueOK, InQueue, Injective, Known
  <2>. QED  BY <2>1, <2>2, <2>3
<1>5. ASSUME NEW c \in CommandIds, Spent(c)
      PROVE  Spent(c)'
  <2>1. /\ ~InQueue(ledger, c) /\ (Known(ledger, c) \/ c \in evicted)
        /\ ~InQueue(durable, c) /\ (Known(durable, c) \/ c \in evicted)
    BY <1>5 DEF Spent
  <2>2. ~InQueue(l, c) /\ (Known(l, c) \/ c \in evicted')
    BY <2>1 DEF Move, Forgotten
  <2>. QED  BY <2>1, <2>2 DEF Spent, InQueue, Known
<1>6. \A c \in CommandIds : ledger'.commands[c] \in Ended => Spent(c)'
  BY <1>5 DEF Move
<1>. QED  BY <1>1, <1>4, <1>5, <1>6

\* Accepting a command that was not forgotten.
LEMMA AcceptMove ==
    ASSUME IInv, agent # "stopped", NEW c \in CommandIds, c \notin evicted
    PROVE  Move(Accept(ledger, c))
<1>. DEFINE l == Accept(ledger, c)
<1>1. ledger \in Ledgers /\ QueueOK(ledger)
      /\ \A d \in CommandIds : ledger.commands[d] \in Ended => Spent(d)
  BY DEF IInv, TypeOK, EndOK
<1>2. /\ l \in Ledgers
      /\ \A d \in CommandIds \ {c} :
            l.commands[d] = ledger.commands[d] \/ (Finished(ledger, d) /\ ~Known(l, d))
      /\ Known(ledger, c) => l = ledger
      /\ ~Known(ledger, c) => \/ /\ l.queue = Append(ledger.queue, c)
                                 /\ l.commands[c] = "accepted"
                              \/ l.queue = ledger.queue /\ ~Known(l, c)
  BY <1>1, AcceptProperties
<1>. HIDE DEF l
<1>3. "absent" \notin Ended /\ "accepted" \notin Ended
      /\ "absent" \notin Started /\ "accepted" \notin Started
  BY DEF Ended, Started, PersistedCommandState, TerminalStates, NonTerminalStates
<1>4. ~Known(ledger, c) => ~InQueue(ledger, c)
  BY <1>1 DEF QueueOK
<1>5. \A d \in CommandIds : l.commands[d] \in Ended => Spent(d)
  BY <1>1, <1>2, <1>3 DEF Known
<1>6. ASSUME l.queue = ledger.queue
      PROVE  Move(l)
  <2>1. Injective(l.queue)
    BY <1>1, <1>6 DEF QueueOK
  <2>2. ASSUME NEW d \in CommandIds, InQueue(l, d)
        PROVE  /\ l.commands[d] \notin Started
               /\ Known(l, d) \/ Known(ledger, d) \/ d \in evicted
               /\ InQueue(ledger, d)
    <3>1. InQueue(ledger, d)
      BY <1>6, <2>2 DEF InQueue
    <3>2. ledger.commands[d] \notin Started /\ (Known(ledger, d) \/ d \in evicted)
      BY <1>1, <3>1 DEF QueueOK
    <3>3. l.commands[d] = ledger.commands[d] \/ ~Known(l, d)
      <4>1. CASE d = c
        BY <1>2, <1>4, <3>1, <4>1
      <4>2. CASE d # c
        BY <1>2, <4>2
      <4>. QED  BY <4>1, <4>2
    <3>. QED  BY <1>3, <3>1, <3>2, <3>3 DEF Known
  <2>. QED  BY <1>2, <1>5, <2>1, <2>2 DEF Move
<1>7. ASSUME ~Known(ledger, c), l.queue = Append(ledger.queue, c),
             l.commands[c] = "accepted"
      PROVE  Move(l)
  <2>1. ledger.queue \in Seq(CommandIds) /\ Len(ledger.queue) \in Nat
        /\ DOMAIN ledger.queue = 1..Len(ledger.queue)
    BY <1>1, LenProperties DEF Ledgers
  <2>2. /\ DOMAIN l.queue = 1..(Len(ledger.queue) + 1)
        /\ l.queue[Len(ledger.queue) + 1] = c
        /\ \A i \in 1..Len(ledger.queue) : l.queue[i] = ledger.queue[i]
    BY <1>7, <2>1, AppendProperties, LenProperties
  <2>3. \A i \in 1..Len(ledger.queue) : ledger.queue[i] # c
    BY <1>4, <1>7, <2>1 DEF InQueue
  <2>4. Injective(l.queue)
    <3>. SUFFICES ASSUME NEW i \in 1..(Len(ledger.queue) + 1), NEW j \in 1..(Len(ledger.queue) + 1),
                         l.queue[i] = l.queue[j]
                  PROVE  i = j
      BY <2>2 DEF Injective
    <3>1. \A k \in 1..(Len(ledger.queue) + 1) : k # Len(ledger.queue) + 1 => k \in 1..Len(ledger.queue)
      BY <2>1
    <3>2. \A k, m \in 1..Len(ledger.queue) : ledger.queue[k] = ledger.queue[m] => k = m
      BY <1>1, <2>1 DEF QueueOK, Injective
    <3>. QED  BY <2>2, <2>3, <3>1, <3>2
  <2>5. ASSUME NEW d \in CommandIds, InQueue(l, d)
        PROVE  d = c \/ InQueue(ledger, d)
    BY <2>1, <2>2, <2>5 DEF InQueue
  <2>6. ASSUME NEW d \in CommandIds, InQueue(l, d), d # c
        PROVE  /\ l.commands[d] \notin Started
               /\ Known(l, d) \/ Known(ledger, d) \/ d \in evicted
               /\ InQueue(ledger, d)
    <3>1. InQueue(ledger, d)
      BY <2>5, <2>6
    <3>2. ledger.commands[d] \notin Started /\ (Known(ledger, d) \/ d \in evicted)
      BY <1>1, <3>1 DEF QueueOK
    <3>3. l.commands[d] = ledger.commands[d] \/ ~Known(l, d)
      BY <1>2, <2>6
    <3>. QED  BY <1>3, <3>1, <3>2, <3>3 DEF Known
  <2>7. l.commands[c] \notin Started /\ Known(l, c)
    BY <1>3, <1>7 DEF Known
  <2>. QED  BY <1>2, <1>5, <1>7, <2>4, <2>6, <2>7 DEF Move
<1>. QED  BY <1>2, <1>6, <1>7 DEF l

\* Taking the head of the queue: a command that was not spent, and now is.
LEMMA DequeueMove ==
    ASSUME IInv, agent # "stopped", CanDequeue(ledger)
    PROVE  /\ Move(Dequeue(ledger))
           /\ Head(ledger.queue) \in CommandIds
           /\ InQueue(ledger, Head(ledger.queue))
           /\ ~InQueue(Dequeue(ledger), Head(ledger.queue))
           /\ Known(Dequeue(ledger), Head(ledger.queue))
<1>. DEFINE l == Dequeue(ledger)
            c == Head(ledger.queue)
<1>1. ledger \in Ledgers /\ QueueOK(ledger)
      /\ \A d \in CommandIds : ledger.commands[d] \in Ended => Spent(d)
  BY DEF IInv, TypeOK, EndOK
<1>2. /\ c \in CommandIds
      /\ l \in Ledgers
      /\ l.queue = Tail(ledger.queue)
      /\ l.commands = [ledger.commands EXCEPT ![c] = "executing"]
  BY <1>1, DequeueProperties
<1>3. /\ ledger.queue \in Seq(CommandIds) /\ ledger.queue # << >>
      /\ Len(ledger.queue) \in Nat
      /\ DOMAIN ledger.queue = 1..Len(ledger.queue)
  BY <1>1, LenProperties DEF Ledgers, CanDequeue
<1>4. /\ Len(ledger.queue) >= 1
      /\ c = ledger.queue[1]
      /\ DOMAIN l.queue = 1..(Len(ledger.queue) - 1)
      /\ \A i \in 1..(Len(ledger.queue) - 1) : l.queue[i] = ledger.queue[i + 1]
  <2>1. Tail(ledger.queue) \in Seq(CommandIds) /\ Len(Tail(ledger.queue)) = Len(ledger.queue) - 1
    BY <1>3, HeadTailProperties
  <2>2. \A i \in 1..Len(Tail(ledger.queue)) : Tail(ledger.queue)[i] = ledger.queue[i + 1]
    BY <1>3, HeadTailProperties
  <2>3. c = ledger.queue[1] /\ Len(ledger.queue) >= 1
    BY <1>3, HeadTailProperties, EmptySeq
  <2>. QED  BY <1>2, <2>1, <2>2, <2>3, LenProperties
<1>. HIDE DEF l, c
<1>5. "executing" \notin Ended /\ "executing" # "absent"
  BY DEF Ended
<1>. DEFINE n == Len(ledger.queue)
            q == ledger.queue
<1>a. n \in Nat /\ n >= 1 /\ DOMAIN q = 1..n /\ DOMAIN l.queue = 1..(n - 1)
      /\ Injective(q) /\ c = q[1]
  BY <1>1, <1>3, <1>4 DEF QueueOK
<1>b. \A i \in 1..(n - 1) : i + 1 \in 1..n /\ i + 1 # 1 /\ l.queue[i] = q[i + 1]
  BY <1>a, <1>4
<1>c. InQueue(ledger, c)
  <2>1. 1 \in DOMAIN q
    BY <1>a
  <2>. QED  BY <1>a, <2>1 DEF InQueue
<1>. HIDE DEF n, q
<1>d. ~InQueue(l, c)
  <2>. SUFFICES ASSUME NEW i \in 1..(n - 1), l.queue[i] = c
                PROVE  FALSE
    BY <1>a DEF InQueue
  <2>1. i + 1 \in DOMAIN q /\ 1 \in DOMAIN q /\ q[i + 1] = q[1] /\ i + 1 # 1
    BY <1>a, <1>b
  <2>. QED  BY <1>a, <2>1, Zenon DEF Injective
<1>6. InQueue(ledger, c) /\ ~InQueue(l, c)
  BY <1>c, <1>d
<1>7. Known(l, c)
  BY <1>1, <1>2, <1>5 DEF Known, Ledgers
<1>8. Injective(l.queue)
  <2>. SUFFICES ASSUME NEW i \in 1..(n - 1), NEW j \in 1..(n - 1), l.queue[i] = l.queue[j]
                PROVE  i = j
    BY <1>a DEF Injective
  <2>1. i + 1 \in DOMAIN q /\ j + 1 \in DOMAIN q /\ q[i + 1] = q[j + 1]
    BY <1>a, <1>b
  <2>2. i + 1 = j + 1
    BY <1>a, <2>1, Zenon DEF Injective
  <2>. QED  BY <2>2, <1>a
<1>9. ASSUME NEW d \in CommandIds, InQueue(l, d)
      PROVE  /\ l.commands[d] \notin Started
             /\ Known(ledger, d) \/ d \in evicted
             /\ InQueue(ledger, d)
  <2>1. InQueue(ledger, d)
    <3>1. PICK i \in 1..(n - 1) : l.queue[i] = d
      BY <1>9, <1>a DEF InQueue
    <3>2. i + 1 \in DOMAIN q /\ q[i + 1] = d
      BY <3>1, <1>a, <1>b
    <3>. QED  BY <3>2 DEF InQueue, q
  <2>2. l.commands[d] = ledger.commands[d]
    BY <1>1, <1>2, <1>6, <1>9 DEF Ledgers
  <2>. QED  BY <1>1, <2>1, <2>2 DEF QueueOK
<1>10. \A d \in CommandIds : l.commands[d] \in Ended => Spent(d)
  BY <1>1, <1>2, <1>5 DEF Ledgers
<1>11. Move(l)
  BY <1>2, <1>8, <1>9, <1>10 DEF Move
<1>. QED  BY <1>2, <1>6, <1>7, <1>11 DEF l, c

\* Finishing a spent command, or one as expired.
LEMMA FinishMove ==
    ASSUME IInv, agent # "stopped", NEW c \in CommandIds, NEW s \in TerminalStates,
           s = "expired" \/ Spent(c)
    PROVE  Move(Finish(ledger, c, s))
<1>. DEFINE l == Finish(ledger, c, s)
<1>1. ledger \in Ledgers /\ QueueOK(ledger)
      /\ \A d \in CommandIds : ledger.commands[d] \in Ended => Spent(d)
  BY DEF IInv, TypeOK, EndOK
<1>2. /\ l \in Ledgers
      /\ l.queue = ledger.queue
      /\ \A d \in CommandIds \ {c} : l.commands[d] = ledger.commands[d]
      /\ l.commands[c] = s \/ l = ledger
  BY <1>1, FinishProperties DEF Finish, Ledgers
<1>. HIDE DEF l
<1>3. "expired" \notin Started /\ "expired" \notin Ended
  BY DEF Started, Ended
<1>4. ASSUME NEW d \in CommandIds, InQueue(l, d)
      PROVE  /\ l.commands[d] \notin Started
             /\ Known(ledger, d) \/ d \in evicted
             /\ InQueue(ledger, d)
  <2>1. InQueue(ledger, d)
    BY <1>2, <1>4 DEF InQueue
  <2>2. ledger.commands[d] \notin Started /\ (Known(ledger, d) \/ d \in evicted)
    BY <1>1, <2>1 DEF QueueOK
  <2>3. l.commands[d] = ledger.commands[d] \/ l.commands[d] = "expired"
    <3>1. Spent(c) => d # c
      BY <2>1 DEF Spent
    <3>. QED  BY <1>2, <3>1
  <2>. QED  BY <1>3, <2>1, <2>2, <2>3
<1>5. \A d \in CommandIds : l.commands[d] \in Ended => Spent(d)
  BY <1>1, <1>2, <1>3
<1>6. Move(l)
  BY <1>1, <1>2, <1>4, <1>5 DEF Move, QueueOK
<1>. QED  BY <1>6 DEF l

\* Memory as it is.
LEMMA SameMove ==
    ASSUME IInv, agent # "stopped"
    PROVE  Move(ledger)
BY DEF IInv, TypeOK, EndOK, QueueOK, Move

-----------------------------------------------------------------------------
(* What a step has to show: the variables it moves and RunningOK           *)

Lasting == /\ QueueOK(ledger) /\ QueueOK(durable)
           /\ HandedOK /\ EndOK

\* A step that makes one ledger call.
LEMMA StoreStep ==
    ASSUME IInv, agent # "stopped", NEW l, Move(l), NEW next \in AgentSteps,
           Store(l, next), UNCHANGED history
    PROVE  /\ ledger' \in Ledgers /\ durable' \in Ledgers /\ evicted' \subseteq CommandIds
           /\ Lasting'
           /\ \A c \in CommandIds : Spent(c) => Spent(c)'
           /\ \A c \in CommandIds : ReportedEnd(c)' => ReportedEnd(c)
           /\ agent' = "offline" \/ (agent' = next /\ durable' = l)
           /\ agent' \in AgentSteps
<1>1. ledger' = l /\ durable' \in {durable, l} /\ evicted' = evicted \cup Forgotten(l)
  BY DEF Store, Forgotten
<1>2. /\ ledger' \in Ledgers /\ durable' \in Ledgers /\ evicted' \subseteq CommandIds
      /\ QueueOK(ledger)' /\ QueueOK(durable)'
      /\ \A c \in CommandIds : Spent(c) => Spent(c)'
      /\ \A c \in CommandIds : ledger'.commands[c] \in Ended => Spent(c)'
  BY <1>1, MoveKeeps
<1>3. handed' = handed /\ reported' = reported
  BY DEF history
<1>4. \A c \in CommandIds : ReportedEnd(c)' => ReportedEnd(c)
  BY <1>3 DEF ReportedEnd
<1>5. HandedOK'
  BY <1>2, <1>3 DEF IInv, HandedOK
<1>6. EndOK'
  BY <1>2, <1>4 DEF IInv, EndOK
<1>7. agent' = "offline" \/ (agent' = next /\ durable' = l)
  BY DEF Store
<1>. QED  BY <1>2, <1>4, <1>5, <1>6, <1>7 DEF Lasting, AgentSteps

\* A step that leaves both copies of the ledger alone and may report.
LEMMA QuietStep ==
    ASSUME IInv, UNCHANGED <<storage, handed, evicted>>,
           agent = "stopped" => agent' = "stopped",
           \A c \in CommandIds : ReportedEnd(c)' => Spent(c)
    PROVE  /\ Lasting'
           /\ \A c \in CommandIds : Spent(c) => Spent(c)'
<1>1. ledger' = ledger /\ durable' = durable /\ handed' = handed /\ evicted' = evicted
  BY DEF storage
<1>2. QueueOK(ledger)' /\ QueueOK(durable)'
  BY <1>1 DEF IInv, QueueOK, InQueue, Injective, Known
<1>3. \A c \in CommandIds : Spent(c) => Spent(c)'
  BY <1>1 DEF Spent, InQueue, Known
<1>4. HandedOK'
  BY <1>1, <1>3 DEF IInv, HandedOK
<1>5. EndOK'
  BY <1>1, <1>3 DEF IInv, EndOK
<1>. QED  BY <1>2, <1>3, <1>4, <1>5 DEF Lasting

\* A result message adds its pair and nothing else to the ends reported.
LEMMA ReportStep ==
    ASSUME IInv, NEW c \in CommandIds, NEW s \in Statuses, NEW next, Report(c, s, next),
           s \in TerminalStates \ {"expired"} => Spent(c)
    PROVE  /\ \A d \in CommandIds : ReportedEnd(d)' => Spent(d)
           /\ s \notin TerminalStates =>
                \A d \in CommandIds : ReportedEnd(d)' => ReportedEnd(d)
           /\ reported' \subseteq CommandIds \X Statuses
           /\ reported \subseteq reported' /\ <<c, s>> \in reported' /\ agent' = next
<1>1. reported' = reported \cup {<<c, s>>} /\ agent' = next
  BY DEF Report
<1>2. ASSUME NEW d \in CommandIds, ReportedEnd(d)'
      PROVE  ReportedEnd(d) \/ (d = c /\ s \in TerminalStates \ {"expired"})
  BY <1>1, <1>2 DEF ReportedEnd
<1>3. \A d \in CommandIds : ReportedEnd(d) => Spent(d)
  BY DEF IInv, EndOK
<1>. QED  BY <1>1, <1>2, <1>3 DEF IInv, TypeOK

-----------------------------------------------------------------------------
(* Every action keeps the invariant                                        *)

\* Answering a resent command from the ledger tells an end only of a
\* command that is spent.
LEMMA AnswerFinishedIInv ==
    ASSUME IInv, NEW c \in CommandIds, AnswerFinished(c)
    PROVE  IInv'
<1>1. agent = "idle" /\ ledger.commands[c] \in TerminalStates
      /\ Report(c, ledger.commands[c], "idle")
      /\ UNCHANGED <<storage, running, outcome, expired, handed, evicted>>
  BY DEF AnswerFinished, Finished
<1>2. ledger.commands[c] \in Statuses
  BY <1>1 DEF Statuses
<1>3. ledger.commands[c] # "expired" => Spent(c)
  BY <1>1 DEF IInv, EndOK, Ended, Started, PersistedCommandState, TerminalStates
<1>4. /\ \A d \in CommandIds : ReportedEnd(d)' => Spent(d)
      /\ reported' \subseteq CommandIds \X Statuses /\ agent' = "idle"
  BY <1>1, <1>2, <1>3, ReportStep
<1>5. Lasting'
  BY <1>1, <1>4, QuietStep
<1>6. TypeOK'
  BY <1>1, <1>4 DEF IInv, TypeOK, AgentSteps, storage
<1>7. RunningOK'
  BY <1>4 DEF RunningOK
<1>. QED  BY <1>5, <1>6, <1>7 DEF IInv, Lasting

\* What Refuse leaves: an eviction at most, in memory only.
LEMMA RefuseKeeps ==
    ASSUME IInv, agent # "stopped", NEW c \in CommandIds, c \notin evicted, Refuse(c),
           UNCHANGED history
    PROVE  Lasting' /\ ledger' \in Ledgers /\ durable' \in Ledgers
           /\ evicted' \subseteq CommandIds /\ agent' = "offline"
<1>1. Move(Accept(ledger, c))
  BY AcceptMove
<1>2. ledger' = Accept(ledger, c) /\ durable' = durable /\ agent' = "offline"
      /\ evicted' = evicted \cup Forgotten(Accept(ledger, c))
  BY DEF Refuse, Forgotten
<1>3. /\ ledger' \in Ledgers /\ durable' \in Ledgers /\ evicted' \subseteq CommandIds
      /\ QueueOK(ledger)' /\ QueueOK(durable)'
      /\ \A d \in CommandIds : Spent(d) => Spent(d)'
      /\ \A d \in CommandIds : ledger'.commands[d] \in Ended => Spent(d)'
  BY <1>1, <1>2, MoveKeeps
<1>4. handed' = handed /\ reported' = reported
  BY DEF history
<1>5. HandedOK'
  BY <1>3, <1>4 DEF IInv, HandedOK
<1>6. EndOK'
  BY <1>3, <1>4 DEF IInv, EndOK, ReportedEnd
<1>. QED  BY <1>2, <1>3, <1>5, <1>6 DEF Lasting

\* Recording an expiry keeps the invariant: nothing that was started is
\* queued by it.
LEMMA ReceiveExpiredIInv ==
    ASSUME IInv, NEW c \in CommandIds, c \notin evicted, ReceiveExpired(c)
    PROVE  IInv'
<1>1. agent = "idle" /\ running' = c /\ outcome' = "expired"
      /\ expired' = expired /\ handed' = handed /\ reported' = reported
  BY DEF ReceiveExpired, history
<1>2. CASE agent' = "record" /\ UNCHANGED <<storage, evicted>>
  <2>1. \A d \in CommandIds : ReportedEnd(d)' => Spent(d)
    BY <1>1 DEF IInv, EndOK, ReportedEnd
  <2>2. Lasting'
    BY <1>1, <1>2, <2>1, QuietStep
  <2>3. TypeOK'
    BY <1>1, <1>2 DEF IInv, TypeOK, AgentSteps, storage, TerminalStates
  <2>4. RunningOK'
    BY <1>1, <1>2 DEF RunningOK
  <2>. QED  BY <2>2, <2>3, <2>4 DEF IInv, Lasting
<1>3. CASE Refuse(c)
  <2>1. Lasting' /\ ledger' \in Ledgers /\ durable' \in Ledgers
        /\ evicted' \subseteq CommandIds /\ agent' = "offline"
    BY <1>1, <1>3, RefuseKeeps DEF history
  <2>2. TypeOK'
    BY <1>1, <2>1 DEF IInv, TypeOK, AgentSteps, TerminalStates
  <2>3. RunningOK'
    BY <2>1 DEF RunningOK
  <2>. QED  BY <2>1, <2>2, <2>3 DEF IInv, Lasting
<1>4. CASE Store(Accept(ledger, c), "record")
  <2>1. Move(Accept(ledger, c))
    BY <1>1, AcceptMove
  <2>2. /\ ledger' \in Ledgers /\ durable' \in Ledgers /\ evicted' \subseteq CommandIds
        /\ Lasting'
        /\ agent' \in {"offline", "record"}
    BY <1>1, <1>4, <2>1, StoreStep DEF history, AgentSteps
  <2>3. TypeOK'
    BY <1>1, <2>2 DEF IInv, TypeOK, AgentSteps, TerminalStates
  <2>4. RunningOK'
    BY <1>1, <2>2 DEF RunningOK
  <2>. QED  BY <2>2, <2>3, <2>4 DEF IInv, Lasting
<1>. QED  BY <1>2, <1>3, <1>4 DEF ReceiveExpired

\* Accepting, or refusing, a live command keeps the invariant.
LEMMA ReceiveLiveIInv ==
    ASSUME IInv, NEW c \in CommandIds, c \notin evicted, ReceiveLive(c)
    PROVE  IInv'
<1>1. agent = "idle" /\ running' = c /\ outcome' = outcome
      /\ expired' = expired /\ handed' = handed /\ reported' = reported
  BY DEF ReceiveLive, history
<1>2. CASE Refuse(c)
  <2>1. Lasting' /\ ledger' \in Ledgers /\ durable' \in Ledgers
        /\ evicted' \subseteq CommandIds /\ agent' = "offline"
    BY <1>1, <1>2, RefuseKeeps DEF history
  <2>2. TypeOK'
    BY <1>1, <2>1 DEF IInv, TypeOK, AgentSteps
  <2>3. RunningOK'
    BY <2>1 DEF RunningOK
  <2>. QED  BY <2>1, <2>2, <2>3 DEF IInv, Lasting
<1>3. CASE Store(Accept(ledger, c), "acknowledge")
  <2>1. Move(Accept(ledger, c))
    BY <1>1, AcceptMove
  <2>2. /\ ledger' \in Ledgers /\ durable' \in Ledgers /\ evicted' \subseteq CommandIds
        /\ Lasting'
        /\ agent' \in {"offline", "acknowledge"}
    BY <1>1, <1>3, <2>1, StoreStep DEF history, AgentSteps
  <2>3. TypeOK'
    BY <1>1, <2>2 DEF IInv, TypeOK, AgentSteps
  <2>4. RunningOK'
    BY <1>1, <2>2 DEF RunningOK
  <2>. QED  BY <2>2, <2>3, <2>4 DEF IInv, Lasting
<1>. QED  BY <1>2, <1>3 DEF ReceiveLive

\* The accepted message tells no end.
LEMMA AcknowledgeIInv ==
    ASSUME IInv, Acknowledge
    PROVE  IInv'
<1>1. agent = "acknowledge" /\ running \in CommandIds /\ Report(running, "accepted", "dequeue")
      /\ UNCHANGED <<storage, running, outcome, expired, handed, evicted>>
  BY DEF Acknowledge, IInv, RunningOK
<1>2. "accepted" \in Statuses /\ "accepted" \notin TerminalStates
  BY DEF Statuses, TerminalStates, NonTerminalStates
<1>3. /\ \A d \in CommandIds : ReportedEnd(d)' => Spent(d)
      /\ reported' \subseteq CommandIds \X Statuses /\ agent' = "dequeue"
  BY <1>1, <1>2, ReportStep
<1>4. Lasting'
  BY <1>1, <1>3, QuietStep
<1>5. TypeOK'
  BY <1>1, <1>3 DEF IInv, TypeOK, AgentSteps, storage
<1>6. RunningOK'
  BY <1>3 DEF RunningOK
<1>. QED  BY <1>4, <1>5, <1>6 DEF IInv, Lasting

\* The command taken was queued, so it was neither handed over nor reported;
\* once the snapshot is written no restart queues it again.
LEMMA TakeNextIInv ==
    ASSUME IInv, TakeNext
    PROVE  IInv'
<1>1. agent = "dequeue" /\ outcome' = outcome
      /\ expired' = expired /\ handed' = handed /\ reported' = reported
  BY DEF TakeNext, history
<1>2. ASSUME CanDequeue(ledger), running' = Head(ledger.queue),
             Store(Dequeue(ledger), "announce")
      PROVE  IInv'
  <2>0. PICK c, l : c = Head(ledger.queue) /\ l = Dequeue(ledger)
    OBVIOUS
  <2>1. Move(l) /\ c \in CommandIds /\ InQueue(ledger, c) /\ ~InQueue(l, c) /\ Known(l, c)
    BY <1>1, <1>2, <2>0, DequeueMove
  <2>2. running' = c /\ Store(l, "announce")
    BY <1>2, <2>0
  <2>3. /\ ledger' \in Ledgers /\ durable' \in Ledgers /\ evicted' \subseteq CommandIds
        /\ Lasting'
        /\ \A d \in CommandIds : ReportedEnd(d)' => ReportedEnd(d)
        /\ agent' = "offline" \/ (agent' = "announce" /\ durable' = l)
    BY <1>1, <2>1, <2>2, StoreStep DEF history, AgentSteps
  <2>4. TypeOK'
    BY <1>1, <2>1, <2>2, <2>3 DEF IInv, TypeOK, AgentSteps
  <2>5. ~Spent(c)
    BY <2>1 DEF Spent
  <2>6. handed[c] = 0 /\ ~ReportedEnd(c)
    BY <2>1, <2>5 DEF IInv, HandedOK, EndOK, TypeOK
  <2>7. ASSUME agent' = "announce"
        PROVE  Spent(c)'
    <3>1. ledger' = l /\ durable' = l
      BY <2>2, <2>3, <2>7 DEF Store
    <3>. QED  BY <2>1, <3>1 DEF Spent, InQueue, Known
  <2>8. RunningOK'
    <3>1. CASE agent' = "offline"
      BY <3>1 DEF RunningOK
    <3>2. CASE agent' = "announce"
      <4>1. Spent(running)'
        BY <2>2, <2>7, <3>2 DEF Spent
      <4>2. ~ReportedEnd(running)'
        BY <2>1, <2>2, <2>3, <2>6 DEF ReportedEnd
      <4>3. running' \in CommandIds /\ handed'[running'] = 0
        BY <1>1, <2>1, <2>2, <2>6
      <4>. QED  BY <3>2, <4>1, <4>2, <4>3 DEF RunningOK
    <3>. QED  BY <2>3, <3>1, <3>2
  <2>. QED  BY <2>3, <2>4, <2>8 DEF IInv, Lasting
<1>3. ASSUME UNCHANGED running, Store(ledger, "idle")
      PROVE  IInv'
  <2>1. Move(ledger)
    BY <1>1, SameMove
  <2>2. /\ ledger' \in Ledgers /\ durable' \in Ledgers /\ evicted' \subseteq CommandIds
        /\ Lasting'
        /\ agent' \in {"offline", "idle"}
    BY <1>1, <1>3, <2>1, StoreStep DEF history, AgentSteps
  <2>3. TypeOK'
    BY <1>1, <1>3, <2>2 DEF IInv, TypeOK, AgentSteps
  <2>4. RunningOK'
    BY <2>2 DEF RunningOK
  <2>. QED  BY <2>2, <2>3, <2>4 DEF IInv, Lasting
<1>. QED  BY <1>2, <1>3 DEF TakeNext

\* The executing message tells no end, and its command is the one taken.
LEMMA AnnounceIInv ==
    ASSUME IInv, Announce
    PROVE  IInv'
<1>1. agent = "announce" /\ running \in CommandIds /\ Report(running, "executing", "execute")
      /\ Spent(running) /\ handed[running] = 0 /\ ~ReportedEnd(running)
      /\ UNCHANGED <<storage, running, outcome, expired, handed, evicted>>
  BY DEF Announce, IInv, RunningOK
<1>2. "executing" \in Statuses /\ "executing" \notin TerminalStates
  BY DEF Statuses, TerminalStates, NonTerminalStates
<1>3. /\ \A d \in CommandIds : ReportedEnd(d)' => Spent(d)
      /\ \A d \in CommandIds : ReportedEnd(d)' => ReportedEnd(d)
      /\ reported' \subseteq CommandIds \X Statuses /\ agent' = "execute"
      /\ <<running, "executing">> \in reported'
  BY <1>1, <1>2, ReportStep
<1>4. Lasting'
  BY <1>1, <1>3, QuietStep
<1>5. TypeOK'
  BY <1>1, <1>3 DEF IInv, TypeOK, AgentSteps, storage
<1>6. RunningOK'
  <2>1. running' = running /\ handed' = handed /\ ledger' = ledger /\ durable' = durable
        /\ evicted' = evicted
    BY <1>1 DEF storage
  <2>2. Spent(running)'
    BY <1>1, <2>1 DEF Spent, InQueue, Known
  <2>3. ~ReportedEnd(running)'
    BY <1>1, <1>3, <2>1 DEF ReportedEnd
  <2>. QED  BY <1>1, <1>3, <2>1, <2>2, <2>3 DEF RunningOK
<1>. QED  BY <1>4, <1>5, <1>6 DEF IInv, Lasting

\* The one step that hands a command over: never for the second time.
LEMMA ExecuteIInv ==
    ASSUME IInv, Execute
    PROVE  IInv'
<1>1. agent = "execute" /\ running \in CommandIds /\ Spent(running) /\ handed[running] = 0
      /\ handed' = [handed EXCEPT ![running] = @ + 1]
      /\ outcome' \in TerminalStates /\ agent' = "record"
      /\ UNCHANGED <<storage, running, expired, reported, evicted>>
  BY ExecutorOutcomesAssumption DEF Execute, IInv, RunningOK
<1>2. ledger' = ledger /\ durable' = durable /\ reported' = reported /\ evicted' = evicted
      /\ running' = running /\ expired' = expired
  BY <1>1 DEF storage
<1>3. QueueOK(ledger)' /\ QueueOK(durable)'
  BY <1>2 DEF IInv, QueueOK, InQueue, Injective, Known
<1>4. \A c \in CommandIds : Spent(c) => Spent(c)'
  BY <1>2 DEF Spent, InQueue, Known
<1>5. handed' \in [CommandIds -> Nat] /\ handed'[running] = 1
      /\ \A c \in CommandIds \ {running} : handed'[c] = handed[c]
  BY <1>1 DEF IInv, TypeOK
<1>6. HandedOK'
  BY <1>1, <1>4, <1>5 DEF IInv, HandedOK
<1>7. EndOK'
  BY <1>1, <1>2, <1>4 DEF IInv, EndOK, ReportedEnd
<1>8. TypeOK'
  BY <1>1, <1>2, <1>5 DEF IInv, TypeOK, AgentSteps
<1>9. RunningOK'
  BY <1>1, <1>2, <1>5 DEF RunningOK
<1>. QED  BY <1>3, <1>6, <1>7, <1>8, <1>9 DEF IInv

\* What finish records is an expiry or the end of a command handed over.
LEMMA RecordOutcomeIInv ==
    ASSUME IInv, RecordOutcome
    PROVE  IInv'
<1>1. agent = "record" /\ running \in CommandIds
      /\ (outcome # "expired" => handed[running] > 0)
      /\ running' = running /\ outcome' = outcome
      /\ expired' = expired /\ handed' = handed /\ reported' = reported
  BY DEF RecordOutcome, history, IInv, RunningOK
<1>2. ASSUME Store(Finish(ledger, running, outcome), "report")
      PROVE  IInv'
  <2>1. outcome \in TerminalStates /\ (outcome = "expired" \/ Spent(running))
    BY <1>1 DEF IInv, TypeOK, HandedOK
  <2>2. Move(Finish(ledger, running, outcome))
    BY <1>1, <2>1, FinishMove
  <2>3. /\ ledger' \in Ledgers /\ durable' \in Ledgers /\ evicted' \subseteq CommandIds
        /\ Lasting'
        /\ agent' \in {"offline", "report"}
    BY <1>1, <1>2, <2>2, StoreStep DEF history, AgentSteps
  <2>4. TypeOK'
    BY <1>1, <2>3 DEF IInv, TypeOK, AgentSteps
  <2>5. RunningOK'
    BY <1>1, <2>3 DEF RunningOK
  <2>. QED  BY <2>3, <2>4, <2>5 DEF IInv, Lasting
<1>3. ASSUME agent' = "report", UNCHANGED <<storage, evicted>>
      PROVE  IInv'
  <2>1. \A d \in CommandIds : ReportedEnd(d)' => Spent(d)
    BY <1>1 DEF IInv, EndOK, ReportedEnd
  <2>2. Lasting'
    BY <1>1, <1>3, <2>1, QuietStep
  <2>3. TypeOK'
    BY <1>1, <1>3 DEF IInv, TypeOK, AgentSteps, storage
  <2>4. RunningOK'
    BY <1>1, <1>3 DEF RunningOK
  <2>. QED  BY <2>2, <2>3, <2>4 DEF IInv, Lasting
<1>. QED  BY <1>2, <1>3 DEF RecordOutcome

\* What is reported as ended, other than expired, was handed over.
LEMMA ReportOutcomeIInv ==
    ASSUME IInv, ReportOutcome
    PROVE  IInv'
<1>1. agent = "report" /\ running \in CommandIds /\ Report(running, outcome, "idle")
      /\ (outcome # "expired" => handed[running] > 0)
      /\ UNCHANGED <<storage, running, outcome, expired, handed, evicted>>
  BY DEF ReportOutcome, IInv, RunningOK
<1>2. outcome \in Statuses /\ (outcome # "expired" => Spent(running))
  BY <1>1 DEF IInv, TypeOK, Statuses, HandedOK
<1>3. /\ \A d \in CommandIds : ReportedEnd(d)' => Spent(d)
      /\ reported' \subseteq CommandIds \X Statuses /\ agent' = "idle"
  BY <1>1, <1>2, ReportStep
<1>4. Lasting'
  BY <1>1, <1>3, QuietStep
<1>5. TypeOK'
  BY <1>1, <1>3 DEF IInv, TypeOK, AgentSteps, storage
<1>6. RunningOK'
  BY <1>3 DEF RunningOK
<1>. QED  BY <1>4, <1>5, <1>6 DEF IInv, Lasting

\* The steps of the loop, the process and the clock touch no ledger.
LEMMA LoopIInv ==
    ASSUME IInv,
           UNCHANGED <<storage, history, evicted>>, running' = running, outcome' = outcome,
           expired' \subseteq CommandIds,
           agent' = agent \/ (agent' \in {"idle", "offline"} /\ agent # "stopped")
                          \/ agent' = "stopped"
    PROVE  IInv'
<1>1. ledger' = ledger /\ durable' = durable /\ handed' = handed /\ reported' = reported
      /\ evicted' = evicted
  BY DEF storage, history
<1>2. \A d \in CommandIds : ReportedEnd(d)' => Spent(d)
  BY <1>1 DEF IInv, EndOK, ReportedEnd
<1>3. Lasting' /\ \A c \in CommandIds : Spent(c) => Spent(c)'
  BY <1>1, <1>2, QuietStep
<1>4. TypeOK'
  BY <1>1 DEF IInv, TypeOK, AgentSteps
<1>5. RunningOK'
  <2>1. CASE agent' = agent
    <3>1. (Spent(running) <=> Spent(running)') /\ (ReportedEnd(running) <=> ReportedEnd(running)')
      BY <1>1 DEF Spent, InQueue, Known, ReportedEnd
    <3>. QED  BY <1>1, <2>1, <3>1 DEF IInv, RunningOK
  <2>2. CASE agent' \in {"idle", "offline", "stopped"}
    BY <2>2 DEF RunningOK
  <2>. QED  BY <2>1, <2>2
<1>. QED  BY <1>3, <1>4, <1>5 DEF IInv, Lasting

\* A restart queues what the snapshot holds as accepted, and nothing else.
LEMMA StartIInv ==
    ASSUME IInv, Start
    PROVE  IInv'
<1>0. PICK r : r = Recover(durable)
  OBVIOUS
<1>1. /\ ledger' = r /\ durable' \in {durable, r}
      /\ agent' = "stopped" \/ (agent' = "offline" /\ durable' = r)
      /\ running' = running /\ outcome' = outcome /\ expired' = expired
      /\ handed' = handed /\ reported' = reported /\ evicted' = evicted
  BY <1>0 DEF Start, history
<1>2. durable \in Ledgers /\ QueueOK(durable)
  BY DEF IInv, TypeOK
<1>3. /\ r \in Ledgers
      /\ \A c \in CommandIds : Known(r, c) <=> Known(durable, c)
      /\ \A k \in DOMAIN r.queue :
            \E i \in DOMAIN durable.queue : /\ durable.queue[i] = r.queue[k]
                                            /\ durable.commands[durable.queue[i]] = "accepted"
      /\ \A c \in CommandIds : durable.commands[c] = "accepted" => r.commands[c] = "accepted"
      /\ Injective(r.queue)
  BY <1>0, <1>2, RecoverProperties DEF QueueOK
<1>4. ASSUME NEW c \in CommandIds, InQueue(r, c)
      PROVE  InQueue(durable, c) /\ r.commands[c] = "accepted"
  BY <1>3, <1>4 DEF InQueue
<1>5. "accepted" \notin Started /\ "accepted" \notin Ended /\ "accepted" # "absent"
  BY DEF Started, Ended
<1>6. QueueOK(r)'
  BY <1>3, <1>4, <1>5 DEF QueueOK, InQueue, Injective, Known
<1>7. QueueOK(ledger)'
  BY <1>1, <1>6 DEF QueueOK, InQueue, Injective, Known
<1>8. QueueOK(durable)'
  <2>1. CASE durable' = r
    BY <1>6, <2>1 DEF QueueOK, InQueue, Injective, Known
  <2>2. CASE durable' = durable
    BY <1>1, <1>2, <2>2 DEF QueueOK, InQueue, Injective, Known
  <2>. QED  BY <1>1, <2>1, <2>2
<1>9. ASSUME NEW c \in CommandIds, Spent(c)
      PROVE  Spent(c)'
  <2>1. ~InQueue(durable, c) /\ (Known(durable, c) \/ c \in evicted)
    BY <1>9 DEF Spent
  <2>2. ~InQueue(r, c) /\ (Known(r, c) \/ c \in evicted)
    BY <1>3, <1>4, <2>1
  <2>. QED  BY <1>1, <2>1, <2>2 DEF Spent, InQueue, Known
<1>10. HandedOK'
  BY <1>1, <1>9 DEF IInv, HandedOK
<1>11. ASSUME agent' # "stopped", NEW c \in CommandIds, ledger'.commands[c] \in Ended
       PROVE  Spent(c)'
  <2>1. ledger' = r /\ durable' = r
    BY <1>1, <1>11
  <2>2. r.commands[c] # "accepted" /\ r.commands[c] # "absent"
    BY <1>5, <1>11, <2>1 DEF Ended, Started, PersistedCommandState, TerminalStates, NonTerminalStates
  <2>3. ~InQueue(r, c) /\ Known(r, c)
    BY <1>4, <2>2 DEF Known
  <2>. QED  BY <2>1, <2>3 DEF Spent, InQueue, Known
<1>12. EndOK'
  BY <1>1, <1>9, <1>11 DEF IInv, EndOK, ReportedEnd
<1>13. TypeOK'
  BY <1>1, <1>3 DEF IInv, TypeOK, AgentSteps
<1>14. RunningOK'
  BY <1>1 DEF RunningOK
<1>. QED  BY <1>7, <1>8, <1>10, <1>12, <1>13, <1>14 DEF IInv

-----------------------------------------------------------------------------
(* The theorems                                                            *)

\* The invariant holds of an agent that was never started.
LEMMA InitIInv == Init => IInv
<1>. SUFFICES ASSUME Init PROVE IInv
  OBVIOUS
<1>1. TypeOK
  BY EmptyLedgerType DEF Init, TypeOK, AgentSteps, TerminalStates
<1>2. /\ EmptyLedger.queue = << >>
      /\ \A c \in CommandIds : EmptyLedger.commands[c] = "absent"
      /\ DOMAIN EmptyLedger.queue = {}
  BY DEF EmptyLedger
<1>3. QueueOK(EmptyLedger)
  BY <1>2 DEF QueueOK, Injective, InQueue
<1>4. HandedOK /\ RunningOK /\ EndOK
  BY <1>2 DEF Init, HandedOK, RunningOK, EndOK, ReportedEnd, Ended
<1>. QED  BY <1>1, <1>3, <1>4 DEF IInv, Init

\* Every step keeps the invariant: one lemma per action.
LEMMA NextIInv == IInv /\ [Next]_vars => IInv'
<1>. SUFFICES ASSUME IInv, [Next]_vars PROVE IInv'
  OBVIOUS
<1>1. CASE \E c \in CommandIds \ evicted : Receive(c)
  BY <1>1, AnswerFinishedIInv, ReceiveExpiredIInv, ReceiveLiveIInv DEF Receive
<1>2. CASE \E c \in CommandIds : Expire(c)
  BY <1>2, LoopIInv DEF Expire, control, IInv, TypeOK
<1>3. CASE ServiceStep
  BY <1>3, AcknowledgeIInv, TakeNextIInv, AnnounceIInv, ExecuteIInv, RecordOutcomeIInv,
     ReportOutcomeIInv DEF ServiceStep
<1>4. CASE Connect
  BY <1>4, LoopIInv DEF Connect, IInv, TypeOK
<1>5. CASE LoseConnection
  BY <1>5, LoopIInv DEF LoseConnection, IInv, TypeOK
<1>6. CASE Stop
  BY <1>6, LoopIInv DEF Stop, IInv, TypeOK
<1>7. CASE Start
  BY <1>7, StartIInv
<1>8. CASE UNCHANGED vars
  BY <1>8, LoopIInv DEF vars, storage, history, IInv, TypeOK
<1>. QED  BY <1>1, <1>2, <1>3, <1>4, <1>5, <1>6, <1>7, <1>8 DEF Next

\* The invariant holds in every reachable state.
LEMMA Invariance == Spec => []IInv
BY InitIInv, NextIInv, PTL DEF Spec

\* Every reachable state of the service is well typed.
THEOREM TypeCorrect == Spec => []TypeOK
<1>1. IInv => TypeOK
  BY DEF IInv
<1>. QED  BY Invariance, <1>1, PTL

\* process_command hands no command to the executor twice, across any
\* resends, write errors, lost connections and crashes.
THEOREM HandedAtMostOnce == Spec => []AtMostOnce
<1>1. IInv => AtMostOnce
  BY DEF IInv, HandedOK, AtMostOnce
<1>. QED  BY Invariance, <1>1, PTL

\* What the executor runs was announced, and is in no queue that a restart
\* would read.
THEOREM HandedAfterDurable == Spec => []HandedIsDurable
<1>1. IInv => HandedIsDurable
  <2>. SUFFICES ASSUME IInv, agent = "execute" PROVE HandedIsDurable
    BY DEF HandedIsDurable
  <2>1. Spent(running) /\ <<running, "executing">> \in reported
    BY DEF IInv, RunningOK
  <2>. QED  BY <2>1 DEF HandedIsDurable, Spent, InQueue
<1>. QED  BY Invariance, <1>1, PTL

\* A command whose end was reported, other than expiry, is not handed over
\* by any later step.
THEOREM SettledStays == Spec => SettledNotHanded
<1>1. ASSUME IInv, [Next]_vars, NEW c \in CommandIds, NEW s \in TerminalStates \ {"expired"},
             <<c, s>> \in reported
      PROVE  handed'[c] = handed[c]
  <2>1. ReportedEnd(c)
    BY <1>1 DEF ReportedEnd
  <2>2. ASSUME Execute
        PROVE  handed'[c] = handed[c]
    <3>1. c # running
      BY <1>1, <2>1, <2>2 DEF Execute, IInv, RunningOK
    <3>. QED  BY <1>1, <2>2, <3>1 DEF Execute, IInv, TypeOK
  <2>3. Execute \/ handed' = handed
    BY <1>1 DEF Next, vars, Receive, AnswerFinished, ReceiveExpired, ReceiveLive, history,
                ServiceStep, Acknowledge, TakeNext, Announce, RecordOutcome, ReportOutcome,
                Connect, LoseConnection, Stop, Start, Expire
  <2>. QED  BY <2>2, <2>3
<1>2. IInv /\ [Next]_vars =>
        [\A c \in CommandIds, s \in TerminalStates \ {"expired"} :
            <<c, s>> \in reported => handed'[c] = handed[c]]_vars
  BY <1>1
<1>. QED  BY Invariance, <1>2, PTL DEF Spec, SettledNotHanded

-----------------------------------------------------------------------------
(* The session router                                                      *)

\* What a caller, a handler and a session may hold.
Answers == Outcomes \cup {"none", "unavailable", "outcome_unknown"}
Replies == Outcomes \cup {"none", "dropped"}
Executions == [session : Sessions, command : Commands, outcome : Outcomes]
ToSession == {Request} \cup {CommandRequest(c) : c \in Commands}
ToService == {Request} \cup {CommandResponse(c, o) : c \in Commands, o \in Outcomes}

\* The shape of the variables.
RouterTypeOK ==
    /\ attached \in Sessions \cup {None}
    /\ call \in {"idle", "sending", "waiting"}
    /\ call # "idle" => current \in Commands /\ target \in Sessions
    /\ reply \in [Commands -> Replies]
    /\ answer \in [Commands -> Answers]
    /\ handler \in [Sessions -> {"new", "running", "detaching", "ended"}]
    /\ channel \in [Sessions -> Seq(Commands)]
    /\ pending \in [Sessions -> Commands \cup {None}]
    /\ toSession \in [Sessions -> Seq(ToSession)]
    /\ toService \in [Sessions -> Seq(ToService)]
    /\ performing \in [Sessions -> {NoExecution} \cup [command : Commands, outcome : Outcomes]]
    /\ calls \in Seq(Commands)
    /\ executed \in Seq(Executions)
    /\ lost \subseteq Commands

\* One command stands before another.
Precedes(q, c, d) == \E i, j \in DOMAIN q : i < j /\ q[i] = c /\ q[j] = d
\* The command being called is not in the channel yet.
Sending(c) == call = "sending" /\ current = c

\* The session s has executed the command (x), or has it in its pipe (p) or in
\* its channel (k).
Belongs(x, p, k, s, c) ==
    \/ \E i \in DOMAIN x : x[i].session = s /\ x[i].command = c
    \/ \E i \in DOMAIN p : p[i].kind = "command" /\ p[i].command = c
    \/ \E i \in DOMAIN k : k[i] = c

\* These were called in this order (q).
Line(q, x, p, k, s) ==
    /\ \A i, j \in DOMAIN x :
          i < j /\ x[i].session = s /\ x[j].session = s => Precedes(q, x[i].command, x[j].command)
    /\ \A i \in DOMAIN x, j \in DOMAIN p :
          x[i].session = s /\ p[j].kind = "command" => Precedes(q, x[i].command, p[j].command)
    /\ \A i \in DOMAIN x, j \in DOMAIN k : x[i].session = s => Precedes(q, x[i].command, k[j])
    /\ \A i, j \in DOMAIN p :
          i < j /\ p[i].kind = "command" /\ p[j].kind = "command" => Precedes(q, p[i].command, p[j].command)
    /\ \A i \in DOMAIN p, j \in DOMAIN k : p[i].kind = "command" => Precedes(q, p[i].command, k[j])
    /\ \A i, j \in DOMAIN k : i < j => Precedes(q, k[i], k[j])

Of(s, c) == Belongs(executed, toSession[s], channel[s], s, c)

\* A command is called once, and is without an answer until the call returns.
CallsOK ==
    /\ \A i, j \in DOMAIN calls : calls[i] = calls[j] => i = j
    /\ \A c \in Elements(calls) : answer[c] = "none" => call # "idle" /\ current = c
    /\ \A c \in Commands : reply[c] # "none" \/ answer[c] # "none" => c \in Elements(calls)
    /\ \A s \in Sessions : pending[s] # None => pending[s] \in Elements(calls)
    /\ call # "idle" => current \in Elements(calls)
    /\ call = "sending" => calls # << >> /\ calls[Len(calls)] = current

\* A command belongs to one session, and to none while the call holds it.
InLine ==
    /\ \A s \in Sessions : Line(calls, executed, toSession[s], channel[s], s)
    /\ \A c \in Commands, s \in Sessions : Of(s, c) =>
          /\ c \in Elements(calls)
          /\ ~Sending(c)
          /\ \A other \in Sessions : Of(other, c) => other = s

\* A command that was dropped, or found no session, is nowhere, or was lost
\* by the handler that had asked for its execution.
DroppedOK ==
    \A c \in Commands : answer[c] = "unavailable" \/ reply[c] = "dropped" =>
        \/ c \in lost
        \/ ~Sending(c) /\ \A s \in Sessions : ~Of(s, c)

\* A session executed the command with this outcome.
Ran(x, c, o) == \E i \in DOMAIN x : x[i].command = c /\ x[i].outcome = o

\* Every outcome on its way back is that of an execution.
OwnOK ==
    /\ \A s \in Sessions : performing[s] # NoExecution => Ran(executed, performing[s].command, performing[s].outcome)
    /\ \A s \in Sessions : \A i \in DOMAIN toService[s] :
          toService[s][i].kind = "response" => Ran(executed, toService[s][i].command, toService[s][i].outcome)
    /\ \A c \in Commands : reply[c] \in Outcomes => Ran(executed, c, reply[c])
    /\ \A c \in Commands : answer[c] \in Outcomes => Ran(executed, c, answer[c])

RouterInv == RouterTypeOK /\ CallsOK /\ InLine /\ DroppedOK /\ OwnOK

-----------------------------------------------------------------------------
\* A frame of the pipe, by its kind.
LEMMA Frames ==
    /\ Request \in ToSession /\ Request \in ToService /\ Request.kind = "request"
    /\ \A c \in Commands : /\ CommandRequest(c) \in ToSession
                           /\ CommandRequest(c).kind = "command" /\ CommandRequest(c).command = c
    /\ \A c \in Commands : \A o \in Outcomes :
          /\ CommandResponse(c, o) \in ToService /\ CommandResponse(c, o).kind = "response"
          /\ CommandResponse(c, o).command = c /\ CommandResponse(c, o).outcome = o
    /\ \A f \in ToSession : f.kind = "command" => f.command \in Commands
    /\ \A f \in ToService : f.kind = "response" => f.command \in Commands /\ f.outcome \in Outcomes
<1>1. /\ Request \in ToSession /\ Request \in ToService
      /\ \A c \in Commands : CommandRequest(c) \in ToSession
      /\ \A c \in Commands : \A o \in Outcomes : CommandResponse(c, o) \in ToService
  BY DEF ToSession, ToService
<1>2. /\ Request.kind = "request"
      /\ \A c : CommandRequest(c).kind = "command" /\ CommandRequest(c).command = c
      /\ \A c, o : /\ CommandResponse(c, o).kind = "response" /\ CommandResponse(c, o).command = c
                   /\ CommandResponse(c, o).outcome = o
  BY DEF Request, CommandRequest, CommandResponse
<1>3. \A f \in ToSession : f.kind = "command" => f.command \in Commands
  <2>. SUFFICES ASSUME NEW f \in ToSession, f.kind = "command" PROVE f.command \in Commands
    OBVIOUS
  <2>1. PICK c \in Commands : f = CommandRequest(c)
    BY <1>2 DEF ToSession
  <2>. QED  BY <1>2, <2>1
<1>4. \A f \in ToService : f.kind = "response" => f.command \in Commands /\ f.outcome \in Outcomes
  <2>. SUFFICES ASSUME NEW f \in ToService, f.kind = "response"
                PROVE  f.command \in Commands /\ f.outcome \in Outcomes
    OBVIOUS
  <2>1. \E c \in Commands : \E o \in Outcomes : f = CommandResponse(c, o)
    BY <1>2 DEF ToService
  <2>. QED  BY <1>2, <2>1
<1>. QED  BY <1>1, <1>2, <1>3, <1>4

\* What one more frame, and one frame less, make of the queues of the sessions.
LEMMA Pipes ==
    ASSUME NEW S, NEW q \in [Sessions -> Seq(S)], NEW s \in Sessions
    PROVE  /\ \A f \in S : /\ Put(q, s, f) \in [Sessions -> Seq(S)]
                           /\ \A t \in Sessions : Put(q, s, f)[t] = IF t = s THEN Append(q[s], f) ELSE q[t]
           /\ q[s] # << >> =>
                 /\ Drop(q, s) \in [Sessions -> Seq(S)]
                 /\ \A t \in Sessions : Drop(q, s)[t] = IF t = s THEN Tail(q[s]) ELSE q[t]
BY DEF Put, Drop

\* The order of the calls stays as it is when one is added, and the last one
\* comes after all others.
LEMMA Later ==
    ASSUME NEW q \in Seq(Commands), NEW d \in Commands
    PROVE  /\ \A a, b : Precedes(q, a, b) => Precedes(Append(q, d), a, b)
           /\ \A a : a \in Elements(Append(q, d)) <=> a \in Elements(q) \/ a = d
           /\ Append(q, d) \in Seq(Commands) /\ Append(q, d) # << >>
           /\ Append(q, d)[Len(Append(q, d))] = d
           /\ (\A i, j \in DOMAIN q : q[i] = q[j] => i = j) /\ d \notin Elements(q) =>
                 \A i, j \in DOMAIN Append(q, d) : Append(q, d)[i] = Append(q, d)[j] => i = j
<1>1. /\ DOMAIN q = 1 .. Len(q) /\ DOMAIN Append(q, d) = 1 .. Len(q) + 1
      /\ \A i \in 1 .. Len(q) : Append(q, d)[i] = q[i]
      /\ Append(q, d)[Len(q) + 1] = d
      /\ Len(q) \in Nat /\ Len(Append(q, d)) = Len(q) + 1
      /\ Append(q, d) \in Seq(Commands) /\ Append(q, d) # << >>
  OBVIOUS
<1>2. \A a, b : Precedes(q, a, b) => Precedes(Append(q, d), a, b)
  BY <1>1 DEF Precedes
<1>3. \A a : a \in Elements(Append(q, d)) <=> a \in Elements(q) \/ a = d
  BY <1>1 DEF Elements
<1>4. ASSUME \A i, j \in DOMAIN q : q[i] = q[j] => i = j, d \notin Elements(q)
      PROVE  \A i, j \in DOMAIN Append(q, d) : Append(q, d)[i] = Append(q, d)[j] => i = j
  BY <1>1, <1>4 DEF Elements
<1>. QED  BY <1>1, <1>2, <1>3, <1>4

\* Nothing is called before itself, and the last call is after every other.
LEMMA Ordered ==
    ASSUME NEW q \in Seq(Commands), \A i, j \in DOMAIN q : q[i] = q[j] => i = j
    PROVE  /\ \A c : ~Precedes(q, c, c)
           /\ q # << >> => \A c \in Elements(q) : c # q[Len(q)] => Precedes(q, c, q[Len(q)])
<1>1. \A c : ~Precedes(q, c, c)
  BY DEF Precedes
<1>2. ASSUME q # << >>, NEW c \in Elements(q), c # q[Len(q)] PROVE Precedes(q, c, q[Len(q)])
  <2>1. PICK i \in DOMAIN q : q[i] = c
    BY DEF Elements
  <2>2. DOMAIN q = 1 .. Len(q) /\ Len(q) \in Nat /\ Len(q) # 0
    BY <1>2
  <2>3. i < Len(q) /\ Len(q) \in DOMAIN q
    BY <1>2, <2>1, <2>2
  <2>. QED  BY <2>1, <2>3 DEF Precedes
<1>. QED  BY <1>1, <1>2

\* A later order keeps the line.
LEMMA LineKeeps ==
    ASSUME NEW q, NEW q2, NEW x, NEW p, NEW k, NEW s, Line(q, x, p, k, s),
           \A a, b : Precedes(q, a, b) => Precedes(q2, a, b)
    PROVE  Line(q2, x, p, k, s)
BY DEF Line

\* The call puts its command at the end of the line.
LEMMA LineSends ==
    ASSUME NEW q, NEW x, NEW p, NEW k \in Seq(Commands), NEW s, Line(q, x, p, k, s), NEW d \in Commands,
           \A c \in Commands : Belongs(x, p, k, s, c) => Precedes(q, c, d),
           \A i \in DOMAIN x : x[i].command \in Commands,
           \A i \in DOMAIN p : p[i].kind = "command" => p[i].command \in Commands
    PROVE  /\ Line(q, x, p, Append(k, d), s)
           /\ \A c : Belongs(x, p, Append(k, d), s, c) <=> Belongs(x, p, k, s, c) \/ c = d
<1>1. /\ DOMAIN k = 1 .. Len(k) /\ DOMAIN Append(k, d) = 1 .. Len(k) + 1
      /\ \A i \in 1 .. Len(k) : Append(k, d)[i] = k[i] /\ k[i] \in Commands
      /\ Append(k, d)[Len(k) + 1] = d /\ Len(k) \in Nat
  OBVIOUS
<1>2. Line(q, x, p, Append(k, d), s)
  <2>1. \A i \in DOMAIN x : x[i].session = s => Precedes(q, x[i].command, d)
    BY DEF Belongs
  <2>2. \A i \in DOMAIN p : p[i].kind = "command" => Precedes(q, p[i].command, d)
    BY DEF Belongs
  <2>3. \A i \in DOMAIN k : Precedes(q, k[i], d)
    BY <1>1 DEF Belongs
  <2>4. PICK k2 : k2 = Append(k, d)
    OBVIOUS
  <2>5. /\ \A j \in DOMAIN k2 : (j \in DOMAIN k /\ k2[j] = k[j]) \/ k2[j] = d
        /\ \A i, j \in DOMAIN k2 : i < j => i \in DOMAIN k /\ k2[i] = k[i]
    BY <1>1, <2>4
  <2>6. Line(q, x, p, k2, s)
    BY <2>1, <2>2, <2>3, <2>5 DEF Line
  <2>. QED  BY <2>4, <2>6
<1>3. \A c : Belongs(x, p, Append(k, d), s, c) <=> Belongs(x, p, k, s, c) \/ c = d
  <2>1. PICK k2 : k2 = Append(k, d)
    OBVIOUS
  <2>2. \A c : (\E j \in DOMAIN k2 : k2[j] = c) <=> (\E j \in DOMAIN k : k[j] = c) \/ c = d
    <3>1. \A j \in DOMAIN k2 : (j \in DOMAIN k /\ k2[j] = k[j]) \/ k2[j] = d
      BY <1>1, <2>1
    <3>2. /\ \A j \in DOMAIN k : j \in DOMAIN k2 /\ k2[j] = k[j]
          /\ Len(k) + 1 \in DOMAIN k2 /\ k2[Len(k) + 1] = d
      BY <1>1, <2>1
    <3>. QED  BY <3>1, <3>2
  <2>3. \A c : Belongs(x, p, k2, s, c) <=> Belongs(x, p, k, s, c) \/ c = d
    BY <2>2 DEF Belongs
  <2>. QED  BY <2>1, <2>3
<1>. QED  BY <1>2, <1>3

\* The handler moves a command from the channel to the pipe.
LEMMA LineTakes ==
    ASSUME NEW q, NEW x, NEW p \in Seq(ToSession), NEW k \in Seq(Commands), NEW s, Line(q, x, p, k, s),
           k # << >>
    PROVE  /\ Line(q, x, Append(p, CommandRequest(Head(k))), Tail(k), s)
           /\ \A c : Belongs(x, Append(p, CommandRequest(Head(k))), Tail(k), s, c) <=> Belongs(x, p, k, s, c)
<1>1. PICK f : f = CommandRequest(Head(k))
  OBVIOUS
<1>2. f.kind = "command" /\ f.command = k[1] /\ f \in ToSession
  BY <1>1, Frames
<1>3. /\ DOMAIN p = 1 .. Len(p) /\ DOMAIN Append(p, f) = 1 .. Len(p) + 1 /\ Len(p) \in Nat
      /\ \A i \in 1 .. Len(p) : Append(p, f)[i] = p[i]
      /\ Append(p, f)[Len(p) + 1] = f
  BY <1>2
<1>4. /\ DOMAIN k = 1 .. Len(k) /\ DOMAIN Tail(k) = 1 .. Len(k) - 1 /\ Len(k) \in Nat \ {0}
      /\ \A i \in 1 .. Len(k) - 1 : Tail(k)[i] = k[i + 1]
  OBVIOUS
<1>5. PICK p2, k2 : p2 = Append(p, f) /\ k2 = Tail(k)
  OBVIOUS
<1>6. /\ \A j \in DOMAIN p2 : (j \in DOMAIN p /\ p2[j] = p[j]) \/ (j = Len(p) + 1 /\ p2[j] = f)
      /\ \A j \in DOMAIN k2 : j + 1 \in DOMAIN k /\ k2[j] = k[j + 1] /\ 1 < j + 1
      /\ 1 \in DOMAIN k
  BY <1>3, <1>4, <1>5
<1>7. Line(q, x, p2, k2, s)
  <2>1. \A i \in DOMAIN x, j \in DOMAIN p2 :
           x[i].session = s /\ p2[j].kind = "command" => Precedes(q, x[i].command, p2[j].command)
    BY <1>2, <1>6 DEF Line
  <2>2. \A i \in DOMAIN x, j \in DOMAIN k2 : x[i].session = s => Precedes(q, x[i].command, k2[j])
    BY <1>6 DEF Line
  <2>3. \A i, j \in DOMAIN p2 : i < j => i \in DOMAIN p /\ p2[i] = p[i]
    BY <1>3, <1>5
  <2>4. \A i, j \in DOMAIN p2 :
           i < j /\ p2[i].kind = "command" /\ p2[j].kind = "command" => Precedes(q, p2[i].command, p2[j].command)
    <3>. SUFFICES ASSUME NEW i \in DOMAIN p2, NEW j \in DOMAIN p2,
                         i < j, p2[i].kind = "command", p2[j].kind = "command"
                  PROVE  Precedes(q, p2[i].command, p2[j].command)
      OBVIOUS
    <3>1. CASE j \in DOMAIN p /\ p2[j] = p[j]
      BY <2>3, <3>1 DEF Line
    <3>2. CASE p2[j] = f
      BY <1>2, <1>6, <2>3, <3>2 DEF Line
    <3>. QED  BY <1>6, <3>1, <3>2
  <2>5. \A i \in DOMAIN p2, j \in DOMAIN k2 : p2[i].kind = "command" => Precedes(q, p2[i].command, k2[j])
    BY <1>2, <1>6 DEF Line
  <2>6. \A i, j \in DOMAIN k2 : i < j => Precedes(q, k2[i], k2[j])
    <3>. SUFFICES ASSUME NEW i \in DOMAIN k2, NEW j \in DOMAIN k2, i < j PROVE Precedes(q, k2[i], k2[j])
      OBVIOUS
    <3>1. i + 1 \in DOMAIN k /\ j + 1 \in DOMAIN k /\ i + 1 < j + 1
      BY <1>4, <1>5, <1>6
    <3>. QED  BY <1>6, <3>1 DEF Line
  <2>. QED  BY <2>1, <2>2, <2>4, <2>5, <2>6 DEF Line
<1>8. \A c : Belongs(x, p2, k2, s, c) => Belongs(x, p, k, s, c)
  BY <1>2, <1>6 DEF Belongs
<1>9. ASSUME NEW c, Belongs(x, p, k, s, c) PROVE Belongs(x, p2, k2, s, c)
  <2>1. CASE \E i \in DOMAIN x : x[i].session = s /\ x[i].command = c
    BY <2>1 DEF Belongs
  <2>2. CASE \E i \in DOMAIN p : p[i].kind = "command" /\ p[i].command = c
    <3>1. \A i \in DOMAIN p : i \in DOMAIN p2 /\ p2[i] = p[i]
      BY <1>3, <1>5
    <3>. QED  BY <2>2, <3>1 DEF Belongs
  <2>3. CASE \E i \in DOMAIN k : k[i] = c
    <3>1. PICK i \in DOMAIN k : k[i] = c
      BY <2>3
    <3>2. CASE i = 1
      <4>1. Len(p) + 1 \in DOMAIN p2 /\ p2[Len(p) + 1] = f
        BY <1>3, <1>5
      <4>. QED  BY <1>2, <3>1, <3>2, <4>1 DEF Belongs
    <3>3. CASE i # 1
      <4>1. i - 1 \in DOMAIN k2 /\ k2[i - 1] = k[i]
        BY <1>4, <1>5, <3>1, <3>3
      <4>. QED  BY <3>1, <4>1 DEF Belongs
    <3>. QED  BY <3>2, <3>3
  <2>. QED  BY <1>9, <2>1, <2>2, <2>3 DEF Belongs
<1>. QED  BY <1>1, <1>5, <1>7, <1>8, <1>9

\* The session executes the first command of the pipe.
LEMMA LinePerforms ==
    ASSUME NEW q, NEW x \in Seq(Executions), NEW p \in Seq(ToSession), NEW k, NEW s, Line(q, x, p, k, s),
           p # << >>, Head(p).kind = "command", NEW e \in Executions, e.session = s, e.command = Head(p).command
    PROVE  /\ Line(q, Append(x, e), Tail(p), k, s)
           /\ \A c : Belongs(Append(x, e), Tail(p), k, s, c) <=> Belongs(x, p, k, s, c)
<1>1. /\ DOMAIN p = 1 .. Len(p) /\ DOMAIN Tail(p) = 1 .. Len(p) - 1 /\ Len(p) \in Nat \ {0}
      /\ \A i \in 1 .. Len(p) - 1 : Tail(p)[i] = p[i + 1]
      /\ p[1].kind = "command" /\ e.command = p[1].command
  OBVIOUS
<1>2. /\ DOMAIN x = 1 .. Len(x) /\ DOMAIN Append(x, e) = 1 .. Len(x) + 1 /\ Len(x) \in Nat
      /\ \A i \in 1 .. Len(x) : Append(x, e)[i] = x[i]
      /\ Append(x, e)[Len(x) + 1] = e
  OBVIOUS
<1>3. PICK x2, p2 : x2 = Append(x, e) /\ p2 = Tail(p)
  OBVIOUS
<1>4. /\ \A j \in DOMAIN x2 : (j \in DOMAIN x /\ x2[j] = x[j]) \/ (j = Len(x) + 1 /\ x2[j] = e)
      /\ \A j \in DOMAIN p2 : j + 1 \in DOMAIN p /\ p2[j] = p[j + 1] /\ 1 < j + 1
      /\ 1 \in DOMAIN p
  BY <1>1, <1>2, <1>3
<1>5. Line(q, x2, p2, k, s)
  <2>1. \A i, j \in DOMAIN x2 : i < j => i \in DOMAIN x /\ x2[i] = x[i]
    BY <1>2, <1>3
  <2>2. \A i, j \in DOMAIN x2 :
           i < j /\ x2[i].session = s /\ x2[j].session = s => Precedes(q, x2[i].command, x2[j].command)
    <3>. SUFFICES ASSUME NEW i \in DOMAIN x2, NEW j \in DOMAIN x2,
                         i < j, x2[i].session = s, x2[j].session = s
                  PROVE  Precedes(q, x2[i].command, x2[j].command)
      OBVIOUS
    <3>1. CASE j \in DOMAIN x /\ x2[j] = x[j]
      BY <2>1, <3>1 DEF Line
    <3>2. CASE x2[j] = e
      BY <1>1, <1>4, <2>1, <3>2 DEF Line
    <3>. QED  BY <1>4, <3>1, <3>2
  <2>3. \A i \in DOMAIN x2, j \in DOMAIN p2 :
           x2[i].session = s /\ p2[j].kind = "command" => Precedes(q, x2[i].command, p2[j].command)
    BY <1>1, <1>4 DEF Line
  <2>4. \A i \in DOMAIN x2, j \in DOMAIN k : x2[i].session = s => Precedes(q, x2[i].command, k[j])
    BY <1>1, <1>4 DEF Line
  <2>5. \A i, j \in DOMAIN p2 :
           i < j /\ p2[i].kind = "command" /\ p2[j].kind = "command" => Precedes(q, p2[i].command, p2[j].command)
    <3>. SUFFICES ASSUME NEW i \in DOMAIN p2, NEW j \in DOMAIN p2,
                         i < j, p2[i].kind = "command", p2[j].kind = "command"
                  PROVE  Precedes(q, p2[i].command, p2[j].command)
      OBVIOUS
    <3>1. i + 1 \in DOMAIN p /\ j + 1 \in DOMAIN p /\ i + 1 < j + 1
      BY <1>1, <1>3, <1>4
    <3>. QED  BY <1>4, <3>1 DEF Line
  <2>6. \A i \in DOMAIN p2, j \in DOMAIN k : p2[i].kind = "command" => Precedes(q, p2[i].command, k[j])
    BY <1>4 DEF Line
  <2>7. \A i, j \in DOMAIN k : i < j => Precedes(q, k[i], k[j])
    BY DEF Line
  <2>. QED  BY <2>2, <2>3, <2>4, <2>5, <2>6, <2>7 DEF Line
<1>6. \A c : Belongs(x2, p2, k, s, c) => Belongs(x, p, k, s, c)
  BY <1>1, <1>4 DEF Belongs
<1>7. ASSUME NEW c, Belongs(x, p, k, s, c) PROVE Belongs(x2, p2, k, s, c)
  <2>1. CASE \E i \in DOMAIN x : x[i].session = s /\ x[i].command = c
    <3>1. \A i \in DOMAIN x : i \in DOMAIN x2 /\ x2[i] = x[i]
      BY <1>2, <1>3
    <3>. QED  BY <2>1, <3>1 DEF Belongs
  <2>2. CASE \E i \in DOMAIN p : p[i].kind = "command" /\ p[i].command = c
    <3>1. PICK i \in DOMAIN p : p[i].kind = "command" /\ p[i].command = c
      BY <2>2
    <3>2. CASE i = 1
      <4>1. Len(x) + 1 \in DOMAIN x2 /\ x2[Len(x) + 1] = e
        BY <1>2, <1>3
      <4>. QED  BY <1>1, <3>1, <3>2, <4>1 DEF Belongs
    <3>3. CASE i # 1
      <4>1. i - 1 \in DOMAIN p2 /\ p2[i - 1] = p[i]
        BY <1>1, <1>3, <3>1, <3>3
      <4>. QED  BY <3>1, <4>1 DEF Belongs
    <3>. QED  BY <3>2, <3>3
  <2>3. CASE \E i \in DOMAIN k : k[i] = c
    BY <2>3 DEF Belongs
  <2>. QED  BY <1>7, <2>1, <2>2, <2>3 DEF Belongs
<1>. QED  BY <1>3, <1>5, <1>6, <1>7

\* What another session executes does not matter to the line.
LEMMA LineOfOther ==
    ASSUME NEW q, NEW x \in Seq(Executions), NEW p, NEW k, NEW s, Line(q, x, p, k, s),
           NEW e \in Executions, e.session # s
    PROVE  /\ Line(q, Append(x, e), p, k, s)
           /\ \A c : Belongs(Append(x, e), p, k, s, c) <=> Belongs(x, p, k, s, c)
<1>1. /\ DOMAIN x = 1 .. Len(x) /\ DOMAIN Append(x, e) = 1 .. Len(x) + 1 /\ Len(x) \in Nat
      /\ \A i \in 1 .. Len(x) : Append(x, e)[i] = x[i]
      /\ Append(x, e)[Len(x) + 1] = e
  OBVIOUS
<1>2. PICK x2 : x2 = Append(x, e)
  OBVIOUS
<1>3. /\ \A j \in DOMAIN x2 : x2[j].session = s => j \in DOMAIN x /\ x2[j] = x[j]
      /\ \A j \in DOMAIN x : j \in DOMAIN x2 /\ x2[j] = x[j]
  BY <1>1, <1>2
<1>4. Line(q, x2, p, k, s)
  BY <1>3 DEF Line
<1>5. \A c : Belongs(x2, p, k, s, c) <=> Belongs(x, p, k, s, c)
  BY <1>3 DEF Belongs
<1>. QED  BY <1>2, <1>4, <1>5

\* A request that is put into the pipe, or taken from it, is no command.
LEMMA LineRequests ==
    ASSUME NEW q, NEW x, NEW p \in Seq(ToSession), NEW k, NEW s, Line(q, x, p, k, s)
    PROVE  /\ Line(q, x, Append(p, Request), k, s)
           /\ \A c : Belongs(x, Append(p, Request), k, s, c) => Belongs(x, p, k, s, c)
           /\ p # << >> => Line(q, x, Tail(p), k, s)
           /\ p # << >> => \A c : Belongs(x, Tail(p), k, s, c) => Belongs(x, p, k, s, c)
<1>1. /\ DOMAIN p = 1 .. Len(p) /\ DOMAIN Append(p, Request) = 1 .. Len(p) + 1 /\ Len(p) \in Nat
      /\ \A i \in 1 .. Len(p) : Append(p, Request)[i] = p[i]
      /\ Append(p, Request)[Len(p) + 1] = Request /\ Request.kind # "command"
  BY Frames
<1>2. PICK p2 : p2 = Append(p, Request)
  OBVIOUS
<1>3. \A j \in DOMAIN p2 : p2[j].kind = "command" => j \in DOMAIN p /\ p2[j] = p[j]
  BY <1>1, <1>2
<1>4. Line(q, x, p2, k, s)
  BY <1>3 DEF Line
<1>5. \A c : Belongs(x, p2, k, s, c) => Belongs(x, p, k, s, c)
  BY <1>3 DEF Belongs
<1>6. ASSUME p # << >>
      PROVE  /\ Line(q, x, Tail(p), k, s)
             /\ \A c : Belongs(x, Tail(p), k, s, c) => Belongs(x, p, k, s, c)
  <2>1. /\ DOMAIN Tail(p) = 1 .. Len(p) - 1 /\ Len(p) # 0
        /\ \A i \in 1 .. Len(p) - 1 : Tail(p)[i] = p[i + 1]
    BY <1>6
  <2>2. PICK p3 : p3 = Tail(p)
    OBVIOUS
  <2>3. /\ \A j \in DOMAIN p3 : j + 1 \in DOMAIN p /\ p3[j] = p[j + 1]
        /\ \A i, j \in DOMAIN p3 : i < j => i + 1 < j + 1
    BY <1>1, <2>1, <2>2
  <2>4. Line(q, x, p3, k, s)
    BY <2>3 DEF Line
  <2>5. \A c : Belongs(x, p3, k, s, c) => Belongs(x, p, k, s, c)
    BY <2>3 DEF Belongs
  <2>. QED  BY <2>2, <2>4, <2>5
<1>. QED  BY <1>2, <1>4, <1>5, <1>6

\* A channel that is dropped leaves its commands nowhere.
LEMMA LineEnds ==
    ASSUME NEW q, NEW x, NEW p, NEW k, NEW s, Line(q, x, p, k, s)
    PROVE  /\ Line(q, x, p, << >>, s)
           /\ \A c : Belongs(x, p, << >>, s, c) => Belongs(x, p, k, s, c)
           /\ (\A c : ~Precedes(q, c, c)) => \A c \in Elements(k) : ~Belongs(x, p, << >>, s, c)
           /\ \A c \in Elements(k) : Belongs(x, p, k, s, c)
<1>1. DOMAIN << >> = {}
  OBVIOUS
<1>. QED  BY <1>1 DEF Line, Belongs, Elements

-----------------------------------------------------------------------------
\* A command that has not been called yet is nowhere; what is somewhere was called.
LEMMA Standing ==
    ASSUME RouterTypeOK, InLine, NEW s \in Sessions
    PROVE  /\ \A i \in DOMAIN executed : executed[i] \in Executions /\ executed[i].command \in Commands
           /\ \A i \in DOMAIN toSession[s] :
                 toSession[s][i] \in ToSession /\ (toSession[s][i].kind = "command" => toSession[s][i].command \in Commands)
           /\ channel[s] \in Seq(Commands)
           /\ \A c \in Elements(channel[s]) : c \in Commands /\ Of(s, c)
           /\ Line(calls, executed, toSession[s], channel[s], s)
<1>1. executed \in Seq(Executions) /\ toSession[s] \in Seq(ToSession) /\ channel[s] \in Seq(Commands)
  BY DEF RouterTypeOK
<1>2. \A i \in DOMAIN executed : executed[i] \in Executions /\ executed[i].command \in Commands
  <2>1. \A i \in DOMAIN executed : executed[i] \in Executions
    BY <1>1
  <2>. QED  BY <2>1 DEF Executions
<1>3. \A i \in DOMAIN toSession[s] :
         toSession[s][i] \in ToSession /\ (toSession[s][i].kind = "command" => toSession[s][i].command \in Commands)
  BY <1>1, Frames
<1>4. \A c \in Elements(channel[s]) : c \in Commands
  BY <1>1 DEF Elements
<1>5. Line(calls, executed, toSession[s], channel[s], s)
  BY DEF InLine
<1>6. \A c \in Elements(channel[s]) : Of(s, c)
  BY <1>5, LineEnds DEF Of
<1>. QED  BY <1>1, <1>2, <1>3, <1>4, <1>5, <1>6

\* Nothing moves: the lines stay as they are.
LEMMA LinesRest ==
    ASSUME InLine, UNCHANGED <<calls, executed, toSession, channel>>,
           \A c \in Commands : Sending(c)' => Sending(c)
    PROVE  InLine' /\ \A s \in Sessions, c \in Commands : Of(s, c)' <=> Of(s, c)
<1>1. \A s \in Sessions, c \in Commands : Of(s, c)' <=> Of(s, c)
  BY DEF Of
<1>2. \A s \in Sessions : Line(calls, executed, toSession[s], channel[s], s)'
  BY DEF InLine
<1>. QED  BY <1>1, <1>2 DEF InLine

\* Lines that are kept, with no command in a place it was not before.
LEMMA LinesKeep ==
    ASSUME InLine, calls' = calls,
           \A c \in Commands : Sending(c)' => Sending(c),
           \A s \in Sessions : Line(calls, executed, toSession[s], channel[s], s)',
           \A s \in Sessions, c \in Commands : Of(s, c)' => Of(s, c)
    PROVE  InLine'
BY DEF InLine

\* Nothing new is dropped.
LEMMA DropsRest ==
    ASSUME DroppedOK, lost \subseteq lost',
           \A c \in Commands : Sending(c)' => Sending(c),
           \A s \in Sessions, c \in Commands : Of(s, c)' => Of(s, c),
           \A c \in Commands : answer'[c] = "unavailable" \/ reply'[c] = "dropped" =>
              \/ answer[c] = "unavailable" \/ reply[c] = "dropped"
              \/ c \in lost'
              \/ ~Sending(c)' /\ \A s \in Sessions : ~Of(s, c)'
    PROVE  DroppedOK'
BY DEF DroppedOK

\* Every outcome is one from before, or that of an execution.
LEMMA OwnKeeps ==
    ASSUME OwnOK,
           \A c, o : Ran(executed, c, o) => Ran(executed', c, o),
           \A s \in Sessions : performing'[s] # NoExecution =>
              \/ performing'[s] = performing[s]
              \/ Ran(executed', performing'[s].command, performing'[s].outcome),
           \A s \in Sessions : \A i \in DOMAIN toService'[s] : toService'[s][i].kind = "response" =>
              \/ \E j \in DOMAIN toService[s] : toService'[s][i] = toService[s][j]
              \/ Ran(executed', toService'[s][i].command, toService'[s][i].outcome),
           \A c \in Commands : reply'[c] \in Outcomes =>
              reply'[c] = reply[c] \/ Ran(executed', c, reply'[c]),
           \A c \in Commands : answer'[c] \in Outcomes =>
              answer'[c] = answer[c] \/ Ran(executed', c, answer'[c])
    PROVE  OwnOK'
<1>1. \A s \in Sessions : performing'[s] # NoExecution => Ran(executed', performing'[s].command, performing'[s].outcome)
  BY DEF OwnOK
<1>2. \A s \in Sessions : \A i \in DOMAIN toService'[s] :
          toService'[s][i].kind = "response" => Ran(executed', toService'[s][i].command, toService'[s][i].outcome)
  BY DEF OwnOK
<1>3. \A c \in Commands : reply'[c] \in Outcomes => Ran(executed', c, reply'[c])
  BY DEF OwnOK
<1>4. \A c \in Commands : answer'[c] \in Outcomes => Ran(executed', c, answer'[c])
  BY DEF OwnOK
<1>. QED  BY <1>1, <1>2, <1>3, <1>4 DEF OwnOK, Outcomes

\* Steps that move no command and answer nothing.
LEMMA Quiet ==
    ASSUME RouterInv, RouterTypeOK',
           UNCHANGED <<callVars, reply, answer, channel, pending, pipe, performing, calls, executed, lost>>
    PROVE  RouterInv'
<1>. USE DEF RouterInv, callVars, pipe
<1>1. InLine' /\ \A s \in Sessions, c \in Commands : Of(s, c)' <=> Of(s, c)
  BY LinesRest DEF Sending
<1>2. CallsOK'
  BY DEF CallsOK
<1>3. DroppedOK'
  BY <1>1, DropsRest DEF Sending
<1>4. OwnOK'
  BY OwnKeeps
<1>. QED  BY <1>1, <1>2, <1>3, <1>4

\* The end of a handler: what was in its channel is nowhere, and what it waited
\* for is lost.
LEMMA Ending ==
    ASSUME RouterInv, NEW s \in Sessions, End(s),
           UNCHANGED <<callVars, answer, toSession, calls, executed>>
    PROVE  CallsOK' /\ InLine' /\ DroppedOK'
<1>. USE DEF RouterInv, callVars
<1>1. /\ \A c \in Commands : reply'[c] = IF c \in Elements(channel[s]) \cup {pending[s]} THEN "dropped" ELSE reply[c]
      /\ lost' = lost \cup ({pending[s]} \ {None})
      /\ channel' = [channel EXCEPT ![s] = << >>]
      /\ pending' = [pending EXCEPT ![s] = None]
  BY DEF End
<1>2. \A t \in Sessions : channel'[t] = IF t = s THEN << >> ELSE channel[t]
  BY <1>1 DEF RouterTypeOK
<1>3. \A c : ~Precedes(calls, c, c)
  BY Ordered DEF CallsOK, RouterTypeOK
<1>4. ASSUME NEW t \in Sessions
      PROVE  /\ Line(calls, executed, toSession[t], channel[t], t)'
             /\ \A c \in Commands : Of(t, c)' => Of(t, c)
             /\ t = s => \A c \in Elements(channel[s]) : ~Of(t, c)'
  <2>1. Line(calls, executed, toSession[t], channel[t], t)
    BY Standing
  <2>2. PICK k : k = channel'[t]
    OBVIOUS
  <2>3. CASE t = s
    BY <1>2, <1>3, <2>1, <2>2, <2>3, LineEnds DEF Of
  <2>4. CASE t # s
    BY <1>2, <2>1, <2>4 DEF Of
  <2>. QED  BY <2>3, <2>4
<1>5. \A c \in Commands : Sending(c)' => Sending(c)
  BY DEF Sending
<1>6. InLine'
  BY <1>4, <1>5, LinesKeep
<1>7. \A c \in Elements(channel[s]) :
         c \in Commands /\ c \in Elements(calls) /\ ~Sending(c)' /\ \A t \in Sessions : ~Of(t, c)'
  BY <1>4, <1>5, Standing DEF InLine
<1>8. DroppedOK'
  BY <1>1, <1>4, <1>5, <1>7, DropsRest, NoneAssumption
<1>9. CallsOK'
  <2>1. \A c \in Commands : reply'[c] # "none" => reply[c] # "none" \/ c \in Elements(calls)
    BY <1>1, <1>7, NoneAssumption DEF CallsOK
  <2>2. \A t \in Sessions : pending'[t] # None => pending'[t] = pending[t]
    BY <1>1 DEF RouterTypeOK
  <2>. QED  BY <2>1, <2>2 DEF CallsOK
<1>. QED  BY <1>6, <1>8, <1>9

-----------------------------------------------------------------------------
\* The end of a handler keeps the types.
LEMMA EndTypes ==
    ASSUME RouterTypeOK, NEW s \in Sessions, End(s)
    PROVE  /\ handler' \in [Sessions -> {"new", "running", "detaching", "ended"}]
           /\ reply' \in [Commands -> Replies]
           /\ lost' \subseteq Commands
           /\ channel' \in [Sessions -> Seq(Commands)]
           /\ pending' \in [Sessions -> Commands \cup {None}]
<1>1. << >> \in Seq(Commands)
  OBVIOUS
<1>2. pending[s] \in Commands \cup {None}
  BY DEF RouterTypeOK
<1>3. "dropped" \in Replies
  BY DEF Replies
<1>. QED  BY <1>1, <1>2, <1>3 DEF RouterTypeOK, End

\* The call keeps the types.
LEMMA CallTypes ==
    ASSUME RouterTypeOK, (\E c \in Commands : StartCall(c)) \/ Send \/ ReceiveReply \/ TimeOut
    PROVE  RouterTypeOK'
<1>0. /\ "unavailable" \in Answers /\ "outcome_unknown" \in Answers
      /\ \A x \in Replies : x \notin {"none", "dropped"} => x \in Answers
  BY DEF Answers, Replies
<1>. USE DEF handlerVars, sessionVars, pipe
<1>1. ASSUME NEW c \in Commands, StartCall(c) PROVE RouterTypeOK'
  <2>1. calls' \in Seq(Commands)
    BY <1>1 DEF StartCall, RouterTypeOK
  <2>2. CASE attached = None
    BY <1>0, <1>1, <2>1, <2>2 DEF StartCall, Return, RouterTypeOK
  <2>3. CASE attached # None
    BY <1>0, <1>1, <2>1, <2>3 DEF StartCall, RouterTypeOK
  <2>. QED  BY <2>2, <2>3
<1>2. CASE Send
  <2>1. CASE handler[target] = "ended" /\ Return(current, "unavailable") /\ UNCHANGED channel
    BY <1>0, <1>2, <2>1 DEF Send, Return, RouterTypeOK
  <2>2. CASE /\ channel' = [channel EXCEPT ![target] = Append(@, current)]
             /\ call' = "waiting" /\ UNCHANGED <<current, target, answer>>
    <3>1. target \in Sessions /\ current \in Commands
      BY <1>2 DEF Send, RouterTypeOK
    <3>2. channel' \in [Sessions -> Seq(Commands)]
      BY <2>2, <3>1 DEF RouterTypeOK
    <3>. QED  BY <1>2, <2>2, <3>1, <3>2 DEF Send, RouterTypeOK
  <2>. QED  BY <1>2, <2>1, <2>2 DEF Send
<1>3. CASE ReceiveReply
  <2>1. current \in Commands /\ reply[current] \in Replies /\ reply[current] # "none"
    BY <1>3 DEF ReceiveReply, RouterTypeOK
  <2>2. PICK a : a = IF reply[current] = "dropped" THEN "unavailable" ELSE reply[current]
    OBVIOUS
  <2>3. a \in Answers /\ Return(current, a)
    BY <1>0, <1>3, <2>1, <2>2 DEF ReceiveReply
  <2>. QED  BY <1>3, <2>1, <2>3 DEF ReceiveReply, Return, RouterTypeOK
<1>4. CASE TimeOut
  BY <1>0, <1>4 DEF TimeOut, Return, RouterTypeOK
<1>. QED  BY <1>1, <1>2, <1>3, <1>4

\* The handler of a pipe keeps the types.
LEMMA HandlerTypes ==
    ASSUME RouterTypeOK, NEW s \in Sessions,
           \/ Attach(s) \/ Detach(s) \/ Take(s) \/ SendersGone(s)
           \/ ReadHalf(s) \/ ReadResponse(s) \/ ReadRequest(s) \/ ReadFails(s)
    PROVE  RouterTypeOK'
<1>. USE DEF callVars, handlerVars, sessionVars, pipe
<1>1. CASE Attach(s)
  BY <1>1 DEF Attach, RouterTypeOK
<1>2. CASE Detach(s)
  BY <1>2, EndTypes DEF Detach, RouterTypeOK
<1>3. CASE Take(s)
  <2>1. CASE ~alive[s] /\ End(s) /\ UNCHANGED <<toSession, serviceReads>>
    BY <1>3, <2>1, EndTypes DEF Take, RouterTypeOK
  <2>2. CASE /\ toSession' = Put(toSession, s, CommandRequest(Head(channel[s])))
             /\ pending' = [pending EXCEPT ![s] = Head(channel[s])]
             /\ channel' = Drop(channel, s)
             /\ serviceReads' = GiveUpRead(serviceReads, s)
             /\ UNCHANGED <<handler, reply, lost>>
    <3>1. channel[s] \in Seq(Commands) /\ channel[s] # << >>
      BY <1>3 DEF Take, RouterTypeOK
    <3>2. Head(channel[s]) \in Commands
      BY <3>1
    <3>3. CommandRequest(Head(channel[s])) \in ToSession
      BY <3>2, Frames
    <3>4. toSession' \in [Sessions -> Seq(ToSession)] /\ channel' \in [Sessions -> Seq(Commands)]
      BY <2>2, <3>1, <3>3, Pipes DEF RouterTypeOK
    <3>5. pending' \in [Sessions -> Commands \cup {None}]
      BY <2>2, <3>2 DEF RouterTypeOK
    <3>. QED  BY <1>3, <2>2, <3>4, <3>5 DEF Take, RouterTypeOK
  <2>. QED  BY <1>3, <2>1, <2>2 DEF Take
<1>4. CASE SendersGone(s)
  BY <1>4 DEF SendersGone, Break, RouterTypeOK
<1>5. CASE ReadHalf(s)
  BY <1>5 DEF ReadHalf, RouterTypeOK
<1>6. CASE ReadResponse(s)
  <2>1. PICK f : f = Head(toService[s])
    OBVIOUS
  <2>2. toService[s] \in Seq(ToService) /\ toService[s] # << >> /\ f.kind = "response"
    BY <1>6, <2>1 DEF ReadResponse, CanRead, RouterTypeOK
  <2>3. f \in ToService
    BY <2>1, <2>2
  <2>4. f.command \in Commands /\ f.outcome \in Replies /\ "dropped" \in Replies
    BY <2>2, <2>3, Frames DEF Replies
  <2>5. toService' \in [Sessions -> Seq(ToService)]
    BY <1>6, <2>2, Pipes DEF ReadResponse, ReadWhole, RouterTypeOK
  <2>6. /\ pending' \in [Sessions -> Commands \cup {None}]
        /\ handler' \in [Sessions -> {"new", "running", "detaching", "ended"}]
        /\ reply' \in [Commands -> Replies]
        /\ lost' \subseteq Commands
    <3>1. CASE /\ reply' = [reply EXCEPT ![f.command] = f.outcome]
               /\ UNCHANGED <<handler, lost>>
      BY <1>6, <2>4, <3>1 DEF ReadResponse, RouterTypeOK
    <3>2. CASE /\ handler' = [handler EXCEPT ![s] = "detaching"]
               /\ reply' = [c \in Commands |-> IF c = pending[s] THEN "dropped" ELSE reply[c]]
               /\ lost' = lost \cup ({pending[s]} \ {None})
      BY <1>6, <2>4, <3>2 DEF ReadResponse, RouterTypeOK
    <3>. QED  BY <1>6, <2>1, <3>1, <3>2 DEF ReadResponse
  <2>. QED  BY <1>6, <2>5, <2>6 DEF ReadResponse, RouterTypeOK
<1>7. CASE ReadRequest(s)
  <2>1. toService[s] # << >>
    BY <1>7 DEF ReadRequest, CanRead
  <2>2. toService' \in [Sessions -> Seq(ToService)]
    BY <1>7, <2>1, Pipes DEF ReadRequest, ReadWhole, RouterTypeOK
  <2>3. CASE /\ toSession' = Put(toSession, s, Request)
             /\ UNCHANGED <<handler, channel, pending, reply, lost>>
    <3>1. toSession' \in [Sessions -> Seq(ToSession)]
      BY <2>3, Frames, Pipes DEF RouterTypeOK
    <3>. QED  BY <1>7, <2>2, <2>3, <3>1 DEF ReadRequest, RouterTypeOK
  <2>4. CASE End(s) /\ UNCHANGED toSession
    BY <1>7, <2>2, <2>4, EndTypes DEF ReadRequest, RouterTypeOK
  <2>. QED  BY <1>7, <2>3, <2>4 DEF ReadRequest
<1>8. CASE ReadFails(s)
  BY <1>8 DEF ReadFails, Break, RouterTypeOK
<1>. QED  BY <1>1, <1>2, <1>3, <1>4, <1>5, <1>6, <1>7, <1>8

\* The program of a session keeps the types.
LEMMA ProgramTypes ==
    ASSUME RouterTypeOK, NEW s \in Sessions,
           HearHalf(s) \/ Perform(s) \/ Answer(s) \/ Ask(s) \/ HearReply(s) \/ Leave(s)
    PROVE  RouterTypeOK'
<1>. USE DEF callVars, handlerVars, pipe
<1>1. CASE HearHalf(s)
  BY <1>1 DEF HearHalf, RouterTypeOK
<1>2. CASE Perform(s)
  <2>1. PICK c : c = Head(toSession[s]).command
    OBVIOUS
  <2>2. toSession[s] \in Seq(ToSession) /\ toSession[s] # << >> /\ Head(toSession[s]).kind = "command"
    BY <1>2 DEF Perform, CanHear, RouterTypeOK
  <2>3. c \in Commands
    BY <2>1, <2>2, Frames
  <2>4. PICK o \in Outcomes :
           /\ performing' = [performing EXCEPT ![s] = [command |-> c, outcome |-> o]]
           /\ executed' = Append(executed, [session |-> s, command |-> c, outcome |-> o])
    BY <1>2, <2>1 DEF Perform, Outcomes
  <2>5. [session |-> s, command |-> c, outcome |-> o] \in Executions
    BY <2>3 DEF Executions
  <2>6. executed' \in Seq(Executions)
    BY <2>4, <2>5 DEF RouterTypeOK
  <2>7. performing' \in [Sessions -> {NoExecution} \cup [command : Commands, outcome : Outcomes]]
    BY <2>3, <2>4 DEF RouterTypeOK
  <2>8. toSession' \in [Sessions -> Seq(ToSession)]
    BY <1>2, <2>2, Pipes DEF Perform, HearWhole, RouterTypeOK
  <2>. QED  BY <1>2, <2>6, <2>7, <2>8 DEF Perform, RouterTypeOK
<1>3. CASE Answer(s)
  <2>1. performing[s].command \in Commands /\ performing[s].outcome \in Outcomes
    BY <1>3 DEF Answer, RouterTypeOK
  <2>2. toService' \in [Sessions -> Seq(ToService)]
    <3>1. PICK f \in ToService : toService' = Put(toService, s, f)
      BY <1>3, <2>1, Frames DEF Answer
    <3>2. toService \in [Sessions -> Seq(ToService)]
      BY DEF RouterTypeOK
    <3>. QED  BY <3>1, <3>2, Pipes
  <2>3. performing' \in [Sessions -> {NoExecution} \cup [command : Commands, outcome : Outcomes]]
    BY <1>3 DEF Answer, RouterTypeOK
  <2>. QED  BY <1>3, <2>2, <2>3 DEF Answer, RouterTypeOK
<1>4. CASE Ask(s)
  <2>1. toService' \in [Sessions -> Seq(ToService)]
    BY <1>4, Frames, Pipes DEF Ask, RouterTypeOK
  <2>. QED  BY <1>4, <2>1 DEF Ask, RouterTypeOK
<1>5. CASE HearReply(s)
  <2>1. toSession[s] # << >>
    BY <1>5 DEF HearReply, CanHear
  <2>2. toSession' \in [Sessions -> Seq(ToSession)]
    BY <1>5, <2>1, Pipes DEF HearReply, HearWhole, RouterTypeOK
  <2>. QED  BY <1>5, <2>2 DEF HearReply, RouterTypeOK
<1>6. CASE Leave(s)
  BY <1>6 DEF Leave, RouterTypeOK
<1>. QED  BY <1>1, <1>2, <1>3, <1>4, <1>5, <1>6

-----------------------------------------------------------------------------
\* A call starts: its command is new.
LEMMA StartStep ==
    ASSUME RouterInv, NEW c \in Commands, StartCall(c)
    PROVE  CallsOK' /\ InLine' /\ DroppedOK' /\ OwnOK'
<1>. USE DEF RouterInv, handlerVars, sessionVars, pipe
<1>1. /\ call = "idle" /\ answer[c] = "none" /\ calls' = Append(calls, c) /\ calls \in Seq(Commands)
      /\ UNCHANGED <<reply, channel, pending, toSession, toService, performing, executed, lost>>
      /\ \/ attached = None /\ Return(c, "unavailable")
         \/ call' = "sending" /\ current' = c /\ UNCHANGED answer
  BY DEF StartCall, RouterTypeOK
<1>2. c \notin Elements(calls) /\ reply[c] = "none"
  BY <1>1 DEF CallsOK, RouterTypeOK
<1>3. /\ \A x \in Commands : x # c => answer'[x] = answer[x]
      /\ answer'[c] # "none" => answer'[c] = "unavailable" /\ call' = "idle"
      /\ answer'[c] = "none" => call' # "idle" /\ current' = c
      /\ call' # "idle" => call' = "sending" /\ current' = c
  BY <1>1 DEF Return, RouterTypeOK
<1>4. \A x : Sending(x)' => x = c
  BY <1>3 DEF Sending
<1>5. \A s \in Sessions : \A x \in Commands : Of(s, x)' <=> Of(s, x)
  BY <1>1 DEF Of
<1>6. \A s \in Sessions : \A x \in Commands : Of(s, x) => x \in Elements(calls) /\ x # c
  BY <1>2 DEF InLine
<1>7. \A s \in Sessions : Line(calls, executed, toSession[s], channel[s], s)'
  <2>. SUFFICES ASSUME NEW s \in Sessions PROVE Line(calls, executed, toSession[s], channel[s], s)'
    OBVIOUS
  <2>1. \A a, b : Precedes(calls, a, b) => Precedes(calls', a, b)
    BY <1>1, Later
  <2>. QED  BY <1>1, <2>1, Standing, LineKeeps
<1>8. InLine'
  <2>1. \A x : x \in Elements(calls) => x \in Elements(calls)'
    BY <1>1, Later
  <2>. QED  BY <1>4, <1>5, <1>6, <1>7, <2>1 DEF InLine
<1>9. CallsOK'
  <2>1. /\ \A x : x \in Elements(calls)' <=> x \in Elements(calls) \/ x = c
        /\ \A i, j \in DOMAIN calls' : calls'[i] = calls'[j] => i = j
        /\ calls' # << >> /\ calls'[Len(calls')] = c
    BY <1>1, <1>2, Later DEF CallsOK
  <2>2. \A x \in Elements(calls)' : answer'[x] = "none" => call' # "idle" /\ current' = x
    <3>1. \A x \in Elements(calls) : x \in Commands
      BY <1>1 DEF Elements
    <3>. QED  BY <1>1, <1>3, <2>1, <3>1 DEF CallsOK
  <2>3. \A x \in Commands : reply'[x] # "none" \/ answer'[x] # "none" => x \in Elements(calls)'
    BY <1>1, <1>3, <2>1 DEF CallsOK
  <2>4. \A s \in Sessions : pending'[s] # None => pending'[s] \in Elements(calls)'
    BY <1>1, <2>1 DEF CallsOK
  <2>. QED  BY <1>3, <2>1, <2>2, <2>3, <2>4 DEF CallsOK
<1>10. DroppedOK'
  <2>. SUFFICES ASSUME NEW x \in Commands, answer'[x] = "unavailable" \/ reply'[x] = "dropped",
                       x \notin lost
                PROVE  ~Sending(x)' /\ \A s \in Sessions : ~Of(s, x)'
    BY <1>1 DEF DroppedOK
  <2>1. CASE x = c
    BY <1>1, <1>2, <1>3, <1>5, <1>6, <2>1 DEF Sending
  <2>2. CASE x # c
    BY <1>1, <1>3, <1>4, <1>5, <2>2 DEF DroppedOK
  <2>. QED  BY <2>1, <2>2
<1>11. OwnOK'
  BY <1>1, <1>3, OwnKeeps DEF Outcomes
<1>. QED  BY <1>8, <1>9, <1>10, <1>11

\* The call sends its command into the channel, or finds its session gone.
LEMMA SendStep ==
    ASSUME RouterInv, Send
    PROVE  CallsOK' /\ InLine' /\ DroppedOK' /\ OwnOK'
<1>. USE DEF RouterInv, sessionVars, pipe
<1>1. /\ call = "sending" /\ current \in Commands /\ target \in Sessions /\ Sending(current)
      /\ UNCHANGED <<reply, pending, toSession, toService, performing, calls, executed, lost>>
      /\ \A s \in Sessions : ~Of(s, current)
  BY DEF Send, RouterTypeOK, Sending, InLine
<1>2. \A c \in Commands : ~Sending(c)'
  BY DEF Send, Return, Sending
<1>3. CASE handler[target] = "ended" /\ Return(current, "unavailable") /\ UNCHANGED channel
  <2>1. /\ \A x \in Commands : answer'[x] = IF x = current THEN "unavailable" ELSE answer[x]
        /\ call' = "idle"
    BY <1>1, <1>3 DEF Return, RouterTypeOK
  <2>2. InLine' /\ \A s \in Sessions, c \in Commands : Of(s, c)' <=> Of(s, c)
    BY <1>1, <1>2, <1>3, LinesRest
  <2>3. DroppedOK'
    BY <1>1, <1>2, <2>1, <2>2, DropsRest
  <2>4. CallsOK'
    <3>1. \A x \in Elements(calls) : x \in Commands
      BY DEF Elements, RouterTypeOK
    <3>. QED  BY <1>1, <2>1, <3>1 DEF CallsOK
  <2>5. OwnOK'
    BY <1>1, <2>1, OwnKeeps DEF Outcomes
  <2>. QED  BY <2>2, <2>3, <2>4, <2>5
<1>4. CASE /\ channel' = [channel EXCEPT ![target] = Append(@, current)]
           /\ call' = "waiting" /\ UNCHANGED <<current, target, answer>>
  <2>1. PICK c, t : c = current /\ t = target
    OBVIOUS
  <2>2. c \in Commands /\ t \in Sessions
    BY <1>1, <2>1
  <2>3. \A s \in Sessions : channel'[s] = IF s = t THEN Append(channel[s], c) ELSE channel[s]
    BY <1>4, <2>1, <2>2 DEF RouterTypeOK
  <2>4. \A x \in Commands : Of(t, x) => Precedes(calls, x, c)
    <3>1. calls \in Seq(Commands) /\ calls # << >> /\ calls[Len(calls)] = c
      BY <1>1, <2>1 DEF CallsOK, RouterTypeOK
    <3>2. \A x \in Commands : Of(t, x) => x \in Elements(calls) /\ x # c
      BY <1>1, <2>1, <2>2 DEF InLine
    <3>. QED  BY <3>1, <3>2, Ordered DEF CallsOK
  <2>5. ASSUME NEW s \in Sessions
        PROVE  /\ Line(calls, executed, toSession[s], channel[s], s)'
               /\ \A x \in Commands : Of(s, x)' => Of(s, x) \/ (x = c /\ s = t)
    <3>1. PICK k : k = channel'[s]
      OBVIOUS
    <3>2. CASE s = t
      <4>1. k = Append(channel[t], c)
        BY <2>3, <3>1, <3>2
      <4>2. /\ Line(calls, executed, toSession[t], Append(channel[t], c), t)
            /\ \A x : Belongs(executed, toSession[t], Append(channel[t], c), t, x)
                 <=> Belongs(executed, toSession[t], channel[t], t, x) \/ x = c
        BY <2>2, <2>4, Standing, LineSends DEF Of
      <4>. QED  BY <1>1, <3>1, <3>2, <4>1, <4>2 DEF Of
    <3>3. CASE s # t
      BY <1>1, <2>3, <3>3, Standing DEF Of
    <3>. QED  BY <3>2, <3>3
  <2>6. InLine'
    <3>1. c \in Elements(calls)
      BY <1>1, <2>1 DEF CallsOK
    <3>. QED  BY <1>1, <1>2, <2>1, <2>5, <3>1 DEF InLine
  <2>7. DroppedOK'
    <3>. SUFFICES ASSUME NEW x \in Commands, answer'[x] = "unavailable" \/ reply'[x] = "dropped",
                         x \notin lost
                  PROVE  ~Sending(x)' /\ \A s \in Sessions : ~Of(s, x)'
      BY <1>1 DEF DroppedOK
    <3>1. ~Sending(x) /\ \A s \in Sessions : ~Of(s, x)
      BY <1>1, <1>4 DEF DroppedOK
    <3>2. x # c
      BY <1>1, <2>1, <3>1
    <3>. QED  BY <1>2, <2>5, <3>1, <3>2
  <2>8. CallsOK'
    BY <1>1, <1>4 DEF CallsOK
  <2>9. OwnOK'
    BY <1>1, <1>4, OwnKeeps
  <2>. QED  BY <2>6, <2>7, <2>8, <2>9
<1>. QED  BY <1>3, <1>4 DEF Send

\* The call returns, with a reply or without one.
LEMMA ReturnStep ==
    ASSUME RouterInv, ReceiveReply \/ TimeOut
    PROVE  CallsOK' /\ InLine' /\ DroppedOK' /\ OwnOK'
<1>. USE DEF RouterInv, handlerVars, sessionVars, pipe
<1>1. PICK c : c = current
  OBVIOUS
<1>2. PICK a : /\ answer' = [answer EXCEPT ![c] = a] /\ call' = "idle"
               /\ a \in {"unavailable", "outcome_unknown"} \cup {reply[c]}
               /\ a # "none" /\ a # "dropped"
               /\ a = "unavailable" => reply[c] = "dropped" \/ reply[c] = "unavailable"
  BY <1>1 DEF ReceiveReply, TimeOut, Return
<1>3. /\ c \in Commands /\ c \in Elements(calls) /\ reply[c] # "unavailable"
      /\ UNCHANGED <<reply, channel, pending, toSession, toService, performing, calls, executed, lost>>
  BY <1>1 DEF ReceiveReply, TimeOut, RouterTypeOK, CallsOK, Replies, Outcomes
<1>4. \A x \in Commands : answer'[x] = IF x = c THEN a ELSE answer[x]
  BY <1>2, <1>3 DEF RouterTypeOK
<1>5. \A x \in Commands : ~Sending(x)'
  BY <1>2 DEF Sending
<1>6. InLine' /\ \A s \in Sessions, x \in Commands : Of(s, x)' <=> Of(s, x)
  BY <1>3, <1>5, LinesRest
<1>7. DroppedOK'
  BY <1>2, <1>3, <1>4, <1>5, <1>6, DropsRest
<1>8. CallsOK'
  <2>1. \A x \in Elements(calls) : x \in Commands /\ (answer[x] = "none" => x = c)
    BY <1>1 DEF Elements, RouterTypeOK, CallsOK
  <2>. QED  BY <1>2, <1>3, <1>4, <2>1 DEF CallsOK
<1>9. OwnOK'
  <2>1. \A x \in Commands : answer'[x] \in Outcomes => answer'[x] = answer[x] \/ Ran(executed', x, answer'[x])
    <3>1. a \in Outcomes => Ran(executed, c, a)
      BY <1>2, <1>3 DEF OwnOK, Outcomes
    <3>. QED  BY <1>3, <1>4, <3>1
  <2>. QED  BY <1>3, <2>1, OwnKeeps
<1>. QED  BY <1>6, <1>7, <1>8, <1>9

\* The handler takes a command from its channel.
LEMMA TakeStep ==
    ASSUME RouterInv, NEW s \in Sessions, Take(s)
    PROVE  CallsOK' /\ InLine' /\ DroppedOK' /\ OwnOK'
<1>. USE DEF RouterInv, callVars, sessionVars
<1>1. UNCHANGED <<callVars, answer, toService, performing, calls, executed>> /\ channel[s] # << >>
  BY DEF Take
<1>2. CASE ~alive[s] /\ End(s) /\ UNCHANGED <<toSession, serviceReads>>
  <2>1. CallsOK' /\ InLine' /\ DroppedOK'
    BY <1>1, <1>2, Ending
  <2>2. \A c \in Commands : reply'[c] \in Outcomes => reply'[c] = reply[c]
    BY <1>2 DEF End, Outcomes
  <2>. QED  BY <1>1, <2>1, <2>2, OwnKeeps
<1>3. CASE /\ toSession' = Put(toSession, s, CommandRequest(Head(channel[s])))
           /\ pending' = [pending EXCEPT ![s] = Head(channel[s])]
           /\ channel' = Drop(channel, s)
           /\ serviceReads' = GiveUpRead(serviceReads, s)
           /\ UNCHANGED <<handler, reply, lost>>
  <2>1. PICK c : c = Head(channel[s])
    OBVIOUS
  <2>2. c \in Commands /\ c \in Elements(channel[s])
    <3>1. channel[s] \in Seq(Commands)
      BY DEF RouterTypeOK
    <3>2. c = channel[s][1] /\ 1 \in DOMAIN channel[s]
      BY <1>1, <2>1, <3>1
    <3>. QED  BY <3>1, <3>2 DEF Elements
  <2>3. c \in Elements(calls)
    BY <2>2, Standing DEF InLine
  <2>4. /\ \A t \in Sessions : toSession'[t] = IF t = s THEN Append(toSession[t], CommandRequest(c)) ELSE toSession[t]
        /\ \A t \in Sessions : channel'[t] = IF t = s THEN Tail(channel[t]) ELSE channel[t]
    <3>1. toSession \in [Sessions -> Seq(ToSession)] /\ channel \in [Sessions -> Seq(Commands)]
      BY DEF RouterTypeOK
    <3>2. CommandRequest(c) \in ToSession
      BY <2>2, Frames
    <3>3. \A t \in Sessions : toSession'[t] = IF t = s THEN Append(toSession[s], CommandRequest(c)) ELSE toSession[t]
      BY <1>3, <2>1, <3>1, <3>2, Pipes
    <3>4. \A t \in Sessions : channel'[t] = IF t = s THEN Tail(channel[s]) ELSE channel[t]
      <4>1. \A t \in Sessions : Drop(channel, s)[t] = IF t = s THEN Tail(channel[s]) ELSE channel[t]
        BY <3>1 DEF Drop
      <4>. QED  BY <1>3, <4>1
    <3>. QED  BY <3>3, <3>4
  <2>5. ASSUME NEW t \in Sessions
        PROVE  /\ Line(calls, executed, toSession[t], channel[t], t)'
               /\ \A x \in Commands : Of(t, x)' => Of(t, x)
    <3>1. PICK p, k : p = toSession'[t] /\ k = channel'[t]
      OBVIOUS
    <3>2. CASE t = s
      <4>1. p = Append(toSession[s], CommandRequest(c)) /\ k = Tail(channel[s])
        BY <2>4, <3>1, <3>2
      <4>2. toSession[s] \in Seq(ToSession) /\ channel[s] \in Seq(Commands)
            /\ Line(calls, executed, toSession[s], channel[s], s)
        BY Standing DEF RouterTypeOK
      <4>3. /\ Line(calls, executed, p, k, s)
            /\ \A x : Belongs(executed, p, k, s, x) <=> Belongs(executed, toSession[s], channel[s], s, x)
        BY <1>1, <2>1, <4>1, <4>2, LineTakes
      <4>. QED  BY <1>1, <3>1, <3>2, <4>3 DEF Of
    <3>3. CASE t # s
      BY <1>1, <2>4, <3>3, Standing DEF Of
    <3>. QED  BY <3>2, <3>3
  <2>6. \A x \in Commands : Sending(x)' => Sending(x)
    BY <1>1 DEF Sending
  <2>7. InLine'
    BY <1>1, <2>5, <2>6, LinesKeep
  <2>8. DroppedOK'
    BY <1>1, <1>3, <2>5, <2>6, DropsRest
  <2>9. CallsOK'
    <3>1. \A t \in Sessions : pending'[t] # None => pending'[t] \in Elements(calls)
      BY <1>3, <2>1, <2>3 DEF CallsOK, RouterTypeOK
    <3>. QED  BY <1>1, <1>3, <3>1 DEF CallsOK
  <2>10. OwnOK'
    BY <1>1, <1>3, OwnKeeps
  <2>. QED  BY <2>7, <2>8, <2>9, <2>10
<1>. QED  BY <1>2, <1>3 DEF Take

\* The frames that are left in a pipe were there before.
LEMMA LeftInPipe ==
    ASSUME NEW S, NEW q \in [Sessions -> Seq(S)], NEW s \in Sessions, q[s] # << >>
    PROVE  \A t \in Sessions : \A i \in DOMAIN Drop(q, s)[t] :
              \E j \in DOMAIN q[t] : Drop(q, s)[t][i] = q[t][j]
<1>. SUFFICES ASSUME NEW t \in Sessions, NEW i \in DOMAIN Drop(q, s)[t]
              PROVE  \E j \in DOMAIN q[t] : Drop(q, s)[t][i] = q[t][j]
  OBVIOUS
<1>1. CASE t = s
  <2>1. q[s] \in Seq(S) /\ Drop(q, s)[t] = Tail(q[s])
    BY <1>1 DEF Drop
  <2>2. PICK p : p = q[s]
    OBVIOUS
  <2>3. p \in Seq(S) /\ p # << >> /\ i \in DOMAIN Tail(p)
    BY <2>1, <2>2
  <2>4. i + 1 \in DOMAIN p /\ Tail(p)[i] = p[i + 1]
    BY <2>3
  <2>. QED  BY <1>1, <2>1, <2>2, <2>4
<1>2. CASE t # s
  BY <1>2 DEF Drop
<1>. QED  BY <1>1, <1>2

\* The first frame of a pipe that is not empty.
LEMMA FirstInPipe ==
    ASSUME NEW S, NEW q \in Seq(S), q # << >>
    PROVE  Head(q) = q[1] /\ 1 \in DOMAIN q /\ Head(q) \in S
OBVIOUS

\* The handler reads a response.
LEMMA ResponseStep ==
    ASSUME RouterInv, NEW s \in Sessions, ReadResponse(s)
    PROVE  CallsOK' /\ InLine' /\ DroppedOK' /\ OwnOK'
<1>. USE DEF RouterInv, callVars, sessionVars
<1>1. PICK f : f = Head(toService[s])
  OBVIOUS
<1>2. /\ UNCHANGED <<callVars, answer, channel, toSession, performing, calls, executed>>
      /\ toService' = Drop(toService, s) /\ pending' = [pending EXCEPT ![s] = None]
      /\ toService[s] # << >> /\ f.kind = "response"
      /\ \/ /\ pending[s] = f.command
            /\ reply' = [reply EXCEPT ![f.command] = f.outcome]
            /\ UNCHANGED <<handler, lost>>
         \/ /\ reply' = [c \in Commands |-> IF c = pending[s] THEN "dropped" ELSE reply[c]]
            /\ lost' = lost \cup ({pending[s]} \ {None})
  BY <1>1 DEF ReadResponse, CanRead, ReadWhole
<1>3. toService \in [Sessions -> Seq(ToService)] /\ toService[s] \in Seq(ToService)
  BY DEF RouterTypeOK
<1>4. f \in ToService /\ \E i \in DOMAIN toService[s] : f = toService[s][i]
  BY <1>1, <1>2, <1>3, FirstInPipe
<1>5. f.command \in Commands /\ f.outcome \in Outcomes /\ Ran(executed, f.command, f.outcome)
  BY <1>2, <1>4, Frames DEF OwnOK
<1>6. \A x \in Commands : Sending(x)' => Sending(x)
  BY <1>2 DEF Sending
<1>7. InLine' /\ \A t \in Sessions, c \in Commands : Of(t, c)' <=> Of(t, c)
  BY <1>2, <1>6, LinesRest
<1>8. \A x \in Commands : /\ reply'[x] = "dropped" => reply[x] = "dropped" \/ x \in lost'
                          /\ reply'[x] \in Outcomes => reply'[x] = reply[x] \/ Ran(executed, x, reply'[x])
                          /\ reply'[x] # "none" => reply[x] # "none" \/ x = pending[s]
  BY <1>2, <1>5, NoneAssumption DEF RouterTypeOK, Outcomes
<1>9. DroppedOK'
  BY <1>2, <1>6, <1>7, <1>8, DropsRest
<1>10. CallsOK'
  <2>1. \A t \in Sessions : pending'[t] # None => pending'[t] = pending[t]
    BY <1>2 DEF RouterTypeOK
  <2>2. \A x \in Commands : reply'[x] # "none" => x \in Elements(calls)
    BY <1>8, NoneAssumption DEF CallsOK
  <2>. QED  BY <1>2, <2>1, <2>2 DEF CallsOK
<1>11. OwnOK'
  BY <1>2, <1>3, <1>8, LeftInPipe, OwnKeeps
<1>. QED  BY <1>7, <1>9, <1>10, <1>11

\* The handler reads a request of the window.
LEMMA RequestStep ==
    ASSUME RouterInv, NEW s \in Sessions, ReadRequest(s)
    PROVE  CallsOK' /\ InLine' /\ DroppedOK' /\ OwnOK'
<1>. USE DEF RouterInv, callVars, sessionVars
<1>1. /\ UNCHANGED <<callVars, answer, performing, calls, executed>>
      /\ toService' = Drop(toService, s) /\ toService[s] # << >>
  BY DEF ReadRequest, CanRead, ReadWhole
<1>2. toService \in [Sessions -> Seq(ToService)]
  BY DEF RouterTypeOK
<1>3. \A c \in Commands : reply'[c] \in Outcomes => reply'[c] = reply[c]
  BY DEF ReadRequest, End, Outcomes
<1>4. OwnOK'
  <2>1. \A t \in Sessions : \A i \in DOMAIN toService'[t] : \E j \in DOMAIN toService[t] : toService'[t][i] = toService[t][j]
    BY <1>1, <1>2, LeftInPipe
  <2>. QED  BY <1>1, <1>3, <2>1, OwnKeeps
<1>5. CASE End(s) /\ UNCHANGED toSession
  BY <1>1, <1>4, <1>5, Ending
<1>6. CASE /\ toSession' = Put(toSession, s, Request)
           /\ UNCHANGED <<handler, channel, pending, reply, lost>>
  <2>1. \A t \in Sessions : toSession'[t] = IF t = s THEN Append(toSession[t], Request) ELSE toSession[t]
    <3>1. toSession \in [Sessions -> Seq(ToSession)] /\ Request \in ToSession
      BY Frames DEF RouterTypeOK
    <3>. QED  BY <1>6, <3>1, Pipes
  <2>2. ASSUME NEW t \in Sessions
        PROVE  /\ Line(calls, executed, toSession[t], channel[t], t)'
               /\ \A x \in Commands : Of(t, x)' => Of(t, x)
    <3>1. PICK p : p = toSession'[t]
      OBVIOUS
    <3>2. toSession[t] \in Seq(ToSession) /\ Line(calls, executed, toSession[t], channel[t], t)
      BY Standing DEF RouterTypeOK
    <3>. QED  BY <1>1, <1>6, <2>1, <3>1, <3>2, LineRequests DEF Of
  <2>3. \A x \in Commands : Sending(x)' => Sending(x)
    BY <1>1 DEF Sending
  <2>4. InLine'
    BY <1>1, <2>2, <2>3, LinesKeep
  <2>5. DroppedOK'
    BY <1>1, <1>6, <2>2, <2>3, DropsRest
  <2>6. CallsOK'
    BY <1>1, <1>6 DEF CallsOK
  <2>. QED  BY <1>4, <2>4, <2>5, <2>6
<1>. QED  BY <1>5, <1>6 DEF ReadRequest

\* The session executes a command.
LEMMA PerformStep ==
    ASSUME RouterInv, NEW s \in Sessions, Perform(s)
    PROVE  CallsOK' /\ InLine' /\ DroppedOK' /\ OwnOK'
<1>. USE DEF RouterInv, callVars, handlerVars
<1>1. PICK c : c = Head(toSession[s]).command
  OBVIOUS
<1>2. PICK o \in Outcomes :
         /\ performing' = [performing EXCEPT ![s] = [command |-> c, outcome |-> o]]
         /\ executed' = Append(executed, [session |-> s, command |-> c, outcome |-> o])
  BY <1>1 DEF Perform, Outcomes
<1>3. PICK e : e = [session |-> s, command |-> c, outcome |-> o]
  OBVIOUS
<1>4. /\ UNCHANGED <<callVars, reply, answer, channel, pending, toService, calls, lost>>
      /\ toSession' = Drop(toSession, s) /\ toSession[s] # << >> /\ Head(toSession[s]).kind = "command"
  BY DEF Perform, CanHear, HearWhole
<1>5. toSession[s] \in Seq(ToSession)
  BY DEF RouterTypeOK
<1>6. c \in Commands
  BY <1>1, <1>4, <1>5, FirstInPipe, Frames
<1>7. e \in Executions /\ e.session = s /\ e.command = c /\ e.outcome = o /\ executed \in Seq(Executions)
  BY <1>3, <1>6 DEF Executions, RouterTypeOK
<1>8. \A t \in Sessions : toSession'[t] = IF t = s THEN Tail(toSession[t]) ELSE toSession[t]
  <2>1. toSession \in [Sessions -> Seq(ToSession)]
    BY DEF RouterTypeOK
  <2>. QED  BY <1>4, <2>1, Pipes
<1>9. ASSUME NEW t \in Sessions
      PROVE  /\ Line(calls, executed, toSession[t], channel[t], t)'
             /\ \A x \in Commands : Of(t, x)' => Of(t, x)
  <2>1. PICK p, x2 : p = toSession'[t] /\ x2 = executed'
    OBVIOUS
  <2>2. Line(calls, executed, toSession[t], channel[t], t)
    BY Standing
  <2>3. CASE t = s
    <3>1. /\ Line(calls, x2, p, channel[s], s)
          /\ \A x : Belongs(x2, p, channel[s], s, x) <=> Belongs(executed, toSession[s], channel[s], s, x)
      <4>1. p = Tail(toSession[s]) /\ x2 = Append(executed, e) /\ Line(calls, executed, toSession[s], channel[s], s)
        BY <1>2, <1>3, <1>8, <2>1, <2>2, <2>3
      <4>. QED  BY <1>1, <1>4, <1>5, <1>7, <4>1, LinePerforms
    <3>. QED  BY <1>4, <2>1, <2>3, <3>1 DEF Of
  <2>4. CASE t # s
    <3>1. p = toSession[t] /\ x2 = Append(executed, e)
      BY <1>2, <1>3, <1>8, <2>1, <2>4
    <3>2. /\ Line(calls, x2, p, channel[t], t)
          /\ \A x : Belongs(x2, p, channel[t], t, x) <=> Belongs(executed, toSession[t], channel[t], t, x)
      BY <1>7, <2>2, <2>4, <3>1, LineOfOther
    <3>. QED  BY <1>4, <2>1, <3>2 DEF Of
  <2>. QED  BY <2>3, <2>4
<1>10. \A x \in Commands : Sending(x)' => Sending(x)
  BY <1>4 DEF Sending
<1>11. InLine'
  BY <1>4, <1>9, <1>10, LinesKeep
<1>12. DroppedOK'
  BY <1>4, <1>9, <1>10, DropsRest
<1>13. CallsOK'
  BY <1>4 DEF CallsOK
<1>14. OwnOK'
  <2>1. /\ DOMAIN executed' = 1 .. Len(executed) + 1 /\ DOMAIN executed = 1 .. Len(executed)
        /\ executed'[Len(executed) + 1] = e /\ Len(executed) \in Nat
        /\ \A i \in 1 .. Len(executed) : executed'[i] = executed[i]
    BY <1>2, <1>3, <1>7
  <2>2. \A d, r : Ran(executed, d, r) => Ran(executed', d, r)
    BY <2>1 DEF Ran
  <2>3. Ran(executed', c, o)
    BY <1>7, <2>1 DEF Ran
  <2>4. \A t \in Sessions : performing'[t] # NoExecution =>
           \/ performing'[t] = performing[t]
           \/ Ran(executed', performing'[t].command, performing'[t].outcome)
    <3>1. \A t \in Sessions : t # s => performing'[t] = performing[t]
      BY <1>2 DEF RouterTypeOK
    <3>2. performing'[s].command = c /\ performing'[s].outcome = o
      BY <1>2 DEF RouterTypeOK
    <3>3. PICK r : r = performing'[s]
      OBVIOUS
    <3>. QED  BY <2>3, <3>1, <3>2, <3>3
  <2>. QED  BY <1>4, <2>2, <2>4, OwnKeeps
<1>. QED  BY <1>11, <1>12, <1>13, <1>14

\* The session answers, asks, or hears the answer to a request.
LEMMA ProgramStep ==
    ASSUME RouterInv, NEW s \in Sessions, Answer(s) \/ Ask(s) \/ HearReply(s)
    PROVE  CallsOK' /\ InLine' /\ DroppedOK' /\ OwnOK'
<1>. USE DEF RouterInv, callVars, handlerVars
<1>1. UNCHANGED <<callVars, reply, answer, channel, pending, calls, executed, lost>>
  BY DEF Answer, Ask, HearReply
<1>2. \A x \in Commands : Sending(x)' => Sending(x)
  BY <1>1 DEF Sending
<1>3. CallsOK'
  BY <1>1 DEF CallsOK
<1>4. ASSUME HearReply(s) PROVE InLine' /\ DroppedOK' /\ OwnOK'
  <2>1. /\ toSession' = Drop(toSession, s) /\ toSession[s] # << >>
        /\ UNCHANGED <<toService, performing>>
    BY <1>4 DEF HearReply, CanHear, HearWhole
  <2>2. \A t \in Sessions : toSession'[t] = IF t = s THEN Tail(toSession[t]) ELSE toSession[t]
    <3>1. toSession \in [Sessions -> Seq(ToSession)]
      BY DEF RouterTypeOK
    <3>. QED  BY <2>1, <3>1, Pipes
  <2>3. ASSUME NEW t \in Sessions
        PROVE  /\ Line(calls, executed, toSession[t], channel[t], t)'
               /\ \A x \in Commands : Of(t, x)' => Of(t, x)
    <3>1. PICK p : p = toSession'[t]
      OBVIOUS
    <3>2. toSession[t] \in Seq(ToSession) /\ Line(calls, executed, toSession[t], channel[t], t)
      BY Standing DEF RouterTypeOK
    <3>. QED  BY <1>1, <2>1, <2>2, <3>1, <3>2, LineRequests DEF Of
  <2>4. InLine'
    BY <1>1, <1>2, <2>3, LinesKeep
  <2>5. DroppedOK'
    BY <1>1, <1>2, <2>3, DropsRest
  <2>6. OwnOK'
    BY <1>1, <2>1, OwnKeeps
  <2>. QED  BY <2>4, <2>5, <2>6
<1>5. ASSUME Answer(s) \/ Ask(s) PROVE InLine' /\ DroppedOK' /\ OwnOK'
  <2>1. /\ toSession' = toSession
        /\ \A t \in Sessions : performing'[t] # NoExecution => performing'[t] = performing[t]
    BY <1>5 DEF Answer, Ask, RouterTypeOK
  <2>2. InLine' /\ \A t \in Sessions, c \in Commands : Of(t, c)' <=> Of(t, c)
    BY <1>1, <1>2, <2>1, LinesRest
  <2>3. DroppedOK'
    BY <1>1, <1>2, <2>2, DropsRest
  <2>4. PICK f \in ToService : /\ toService' = Put(toService, s, f)
                               /\ f.kind = "response" => Ran(executed, f.command, f.outcome)
    <3>1. CASE Answer(s)
      <4>1. performing[s].command \in Commands /\ performing[s].outcome \in Outcomes
            /\ performing[s] # NoExecution
        BY <3>1 DEF Answer, RouterTypeOK
      <4>2. PICK c, o : c = performing[s].command /\ o = performing[s].outcome
        OBVIOUS
      <4>3. CommandResponse(c, o) \in ToService /\ CommandResponse(c, o).command = c
            /\ CommandResponse(c, o).outcome = o
        BY <4>1, <4>2, Frames
      <4>4. Ran(executed, c, o)
        BY <4>1, <4>2 DEF OwnOK
      <4>. QED  BY <3>1, <4>2, <4>3, <4>4 DEF Answer
    <3>2. CASE Ask(s)
      BY <3>2, Frames DEF Ask
    <3>. QED  BY <1>5, <3>1, <3>2
  <2>5. ASSUME NEW t \in Sessions, NEW i \in DOMAIN toService'[t]
        PROVE  \/ \E j \in DOMAIN toService[t] : toService'[t][i] = toService[t][j]
               \/ toService'[t][i] = f
    <3>1. toService'[t] = IF t = s THEN Append(toService[t], f) ELSE toService[t]
      <4>1. toService \in [Sessions -> Seq(ToService)]
        BY DEF RouterTypeOK
      <4>. QED  BY <2>4, <4>1, Pipes
    <3>2. toService[t] \in Seq(ToService)
      BY DEF RouterTypeOK
    <3>. QED  BY <3>1, <3>2
  <2>6. \A t \in Sessions : \A i \in DOMAIN toService'[t] : toService'[t][i].kind = "response" =>
           \/ \E j \in DOMAIN toService[t] : toService'[t][i] = toService[t][j]
           \/ Ran(executed', toService'[t][i].command, toService'[t][i].outcome)
    BY <1>1, <2>4, <2>5
  <2>7. OwnOK'
    BY <1>1, <2>1, <2>6, OwnKeeps
  <2>. QED  BY <2>2, <2>3, <2>7
<1>. QED  BY <1>3, <1>4, <1>5

\* One step of the call, of a handler or of a session.
LEMMA RouterStep == RouterInv /\ [RouterNext]_routerVars => RouterInv'
<1>. SUFFICES ASSUME RouterInv, [RouterNext]_routerVars PROVE RouterInv'
  OBVIOUS
<1>0. RouterTypeOK
  BY DEF RouterInv
<1>1. ASSUME NEW c \in Commands, StartCall(c) PROVE RouterInv'
  BY <1>0, <1>1, CallTypes, StartStep DEF RouterInv
<1>2. CASE Send
  BY <1>0, <1>2, CallTypes, SendStep DEF RouterInv
<1>3. CASE ReceiveReply \/ TimeOut
  BY <1>0, <1>3, CallTypes, ReturnStep DEF RouterInv
<1>4. ASSUME NEW s \in Sessions, Attach(s) \/ SendersGone(s) \/ ReadHalf(s) \/ ReadFails(s)
      PROVE  RouterInv'
  <2>1. UNCHANGED <<callVars, reply, answer, channel, pending, pipe, performing, calls, executed, lost>>
    BY <1>4 DEF Attach, SendersGone, ReadHalf, ReadFails, Break, callVars, handlerVars, sessionVars, pipe
  <2>. QED  BY <1>0, <1>4, <2>1, HandlerTypes, Quiet
<1>5. ASSUME NEW s \in Sessions, HearHalf(s) \/ Leave(s) PROVE RouterInv'
  <2>1. UNCHANGED <<callVars, reply, answer, channel, pending, pipe, performing, calls, executed, lost>>
    BY <1>5 DEF HearHalf, Leave, callVars, handlerVars, sessionVars, pipe
  <2>. QED  BY <1>0, <1>5, <2>1, ProgramTypes, Quiet
<1>6. ASSUME NEW s \in Sessions, Detach(s) PROVE RouterInv'
  <2>1. End(s) /\ UNCHANGED <<callVars, answer, toSession, toService, performing, calls, executed>>
    BY <1>6 DEF Detach, pipe, sessionVars
  <2>2. \A c \in Commands : reply'[c] \in Outcomes => reply'[c] = reply[c]
    BY <2>1 DEF End, Outcomes
  <2>3. OwnOK'
    BY <2>1, <2>2, OwnKeeps DEF RouterInv
  <2>. QED  BY <1>0, <1>6, <2>1, <2>3, HandlerTypes, Ending DEF RouterInv
<1>7. ASSUME NEW s \in Sessions, Take(s) PROVE RouterInv'
  BY <1>0, <1>7, HandlerTypes, TakeStep DEF RouterInv
<1>8. ASSUME NEW s \in Sessions, ReadResponse(s) PROVE RouterInv'
  BY <1>0, <1>8, HandlerTypes, ResponseStep DEF RouterInv
<1>9. ASSUME NEW s \in Sessions, ReadRequest(s) PROVE RouterInv'
  BY <1>0, <1>9, HandlerTypes, RequestStep DEF RouterInv
<1>10. ASSUME NEW s \in Sessions, Perform(s) PROVE RouterInv'
  BY <1>0, <1>10, ProgramTypes, PerformStep DEF RouterInv
<1>11. ASSUME NEW s \in Sessions, Answer(s) \/ Ask(s) \/ HearReply(s) PROVE RouterInv'
  BY <1>0, <1>11, ProgramTypes, ProgramStep DEF RouterInv
<1>12. CASE UNCHANGED routerVars
  <2>1. UNCHANGED <<callVars, reply, answer, channel, pending, pipe, performing, calls, executed, lost>>
        /\ UNCHANGED <<attached, handler>>
    BY <1>12 DEF routerVars, handlerVars, sessionVars
  <2>2. RouterTypeOK'
    BY <1>0, <2>1 DEF RouterTypeOK, callVars, pipe
  <2>. QED  BY <2>1, <2>2, Quiet
<1>. QED
  BY <1>1, <1>2, <1>3, <1>4, <1>5, <1>6, <1>7, <1>8, <1>9, <1>10, <1>11, <1>12 DEF RouterNext

\* At the start nothing is anywhere.
LEMMA RouterStart == RouterInit => RouterInv
<1>. SUFFICES ASSUME RouterInit PROVE RouterInv
  OBVIOUS
<1>. USE DEF RouterInit
<1>1. \A S : << >> \in Seq(S)
  OBVIOUS
<1>2. RouterTypeOK
  BY <1>1 DEF RouterTypeOK, Replies, Answers
<1>3. CallsOK
  BY DEF CallsOK, Elements
<1>4. InLine
  BY DEF InLine, Line, Of, Belongs
<1>5. DroppedOK
  BY DEF DroppedOK
<1>6. OwnOK
  BY DEF OwnOK, Outcomes
<1>. QED  BY <1>2, <1>3, <1>4, <1>5, <1>6 DEF RouterInv

\* Calls, channels, pipes and executions agree, for any sessions, commands,
\* outcomes and channel capacity.
THEOREM RouterInvariant == RouterSpec => []RouterInv
<1>. QED  BY RouterStart, RouterStep, PTL DEF RouterSpec

\* A caller is given the outcome of its own command, never a late one of another.
THEOREM OwnAnswers == RouterSpec => []AnswersAreOwn
<1>1. RouterInv => AnswersAreOwn
  BY DEF RouterInv, OwnOK, Ran, AnswersAreOwn
<1>. QED  BY <1>1, RouterInvariant, PTL

\* No command is executed twice, whatever sessions come, hang and go.
THEOREM OneExecution == RouterSpec => []ExecutedOnce
<1>1. RouterInv => ExecutedOnce
  <2>. SUFFICES ASSUME RouterInv PROVE ExecutedOnce
    OBVIOUS
  <2>. SUFFICES ASSUME NEW i \in DOMAIN executed, NEW j \in DOMAIN executed,
                       executed[i].command = executed[j].command, i < j
                PROVE  FALSE
    <3>1. executed \in Seq(Executions)
      BY DEF RouterInv, RouterTypeOK
    <3>2. \A i, j \in DOMAIN executed : i = j \/ i < j \/ j < i
      BY <3>1
    <3>. QED  BY <3>2 DEF ExecutedOnce
  <2>1. PICK s, t, c : s = executed[i].session /\ t = executed[j].session /\ c = executed[i].command
    OBVIOUS
  <2>2. executed[i] \in Executions /\ executed[j] \in Executions
    BY DEF RouterInv, RouterTypeOK
  <2>3. s \in Sessions /\ t \in Sessions /\ c \in Commands
    BY <2>1, <2>2 DEF Executions
  <2>4. Of(s, c) /\ Of(t, c)
    BY <2>1 DEF Of, Belongs
  <2>5. s = t
    BY <2>3, <2>4 DEF RouterInv, InLine
  <2>6. Precedes(calls, c, c)
    BY <2>1, <2>3, <2>5, Standing DEF RouterInv, Line
  <2>. QED  BY <2>6, Ordered DEF RouterInv, CallsOK, RouterTypeOK
<1>. QED  BY <1>1, RouterInvariant, PTL

\* A command answered "unavailable" was executed by no session and never will be.
THEOREM Unavailable == RouterSpec => []UnavailableNotExecuted
<1>1. RouterInv => UnavailableNotExecuted
  <2>. SUFFICES ASSUME RouterInv, NEW i \in DOMAIN executed, answer[executed[i].command] = "unavailable",
                       executed[i].command \notin lost
                PROVE  FALSE
    BY DEF UnavailableNotExecuted
  <2>1. PICK s, c : s = executed[i].session /\ c = executed[i].command
    OBVIOUS
  <2>2. executed[i] \in Executions
    BY DEF RouterInv, RouterTypeOK
  <2>3. s \in Sessions /\ c \in Commands
    BY <2>1, <2>2 DEF Executions
  <2>4. Of(s, c)
    BY <2>1 DEF Of, Belongs
  <2>. QED  BY <2>1, <2>3, <2>4 DEF RouterInv, DroppedOK
<1>. QED  BY <1>1, RouterInvariant, PTL

\* A session executes its commands in the order of the calls.
THEOREM CallOrder == RouterSpec => []ExecutedInOrder
<1>1. RouterInv => ExecutedInOrder
  <2>. SUFFICES ASSUME RouterInv, NEW i \in DOMAIN executed, NEW j \in DOMAIN executed,
                       i < j, executed[i].session = executed[j].session
                PROVE  Called(executed[i].command, executed[j].command)
    BY DEF ExecutedInOrder
  <2>1. executed[i] \in Executions
    BY DEF RouterInv, RouterTypeOK
  <2>2. executed[i].session \in Sessions
    BY <2>1 DEF Executions
  <2>3. Precedes(calls, executed[i].command, executed[j].command)
    BY <2>2, Standing DEF RouterInv, Line
  <2>. QED  BY <2>3 DEF Precedes, Called
<1>. QED  BY <1>1, RouterInvariant, PTL

-----------------------------------------------------------------------------
(* Both ends together.  Facts!X is the coordinator's X with what is proved *)
(* of it.  That module's facts about the coordinator say nothing of tasks  *)
(* and rows: the runtime's constants and variables get some value here.    *)

NoKey == CHOOSE k : k \notin Keys

Facts == INSTANCE CommandCoordinator_proofs WITH
    Owned <- {}, Disableable <- {}, Results <- {}, Tasks <- {}, Faults <- {}, None <- NoKey,
    server <- "down", late <- {}, connected <- {}, task <- << >>, saved <- << >>,
    savedBatches <- << >>, keyOf <- << >>, delivered <- {}, answered <- << >>

\* What the coordinator's facts assume of the constants.
LEMMA FactsAssumed ==
    /\ DeliveryAssumption
    /\ {} \subseteq Devices /\ {} \subseteq {"lost", "unknown"}
    /\ {} \subseteq {"accepted", "executing", "succeeded", "failed", "expired", "outcome_unknown"}
    /\ NoKey \notin Keys
<1>1. NoKey \notin Keys
  BY NoSetContainsEverything DEF NoKey
<1>. QED  BY <1>1, DeliveryAssumption

\* The server sent the command, or ended it without.
Sent(c) == status[c] \notin {"absent", "created"}

\* The agent was sent the command.
Seen(c) == Known(ledger, c) \/ Known(durable, c) \/ c \in evicted

\* The command is over, and came before.
Behind(e, c) == ~Facts!Open(e) /\ sequenceOf[e] < sequenceOf[c]

\* A command is sent only when those before it are over.
ServerInv ==
    /\ Facts!IInv
    /\ connected \in BOOLEAN
    /\ \A c \in CommandIds : Facts!Known(c) => deviceOf[c] = Device
    /\ \A e, f \in CommandIds :
          Sent(e) /\ Facts!Open(f) /\ f # e => sequenceOf[e] < sequenceOf[f]

\* What a step of the server may do: nothing sent is unsent, nothing over
\* opened again, no number changed.
Onward ==
    \A c \in CommandIds :
        /\ Sent(c) => Sent(c)'
        /\ Facts!Known(c) => /\ sequenceOf'[c] = sequenceOf[c]
                             /\ ~Facts!Open(c) => ~Facts!Open(c)'

Told == {"succeeded", "outcome_unknown"}

\* No command ends as only the agent may say.
NoNews == \A c \in CommandIds : status'[c] \in Told => status'[c] = status[c]

-----------------------------------------------------------------------------
(* The coordinator's operators under both names                            *)

\* A transition of the composed coordinator is one of the coordinator proved
\* about.
LEMMA SameTransition ==
    ASSUME NEW c, NEW next
    PROVE  Coordinator!Transition(c, next) <=> Facts!Transition(c, next)
<1>1. ASSUME NEW q, NEW keep
      PROVE  Coordinator!Retain(q, keep) = Facts!Retain(q, keep)
  BY DEF Coordinator!Retain, Facts!Retain
<1>. QED  BY <1>1 DEF Coordinator!Transition, Facts!Transition, Coordinator!Known,
       Facts!Known, Coordinator!StateTransitions, Facts!StateTransitions,
       Coordinator!CommandStatus, Facts!CommandStatus, Coordinator!TerminalStates,
       Facts!TerminalStates, Coordinator!OpenStates, Facts!OpenStates

\* So is the creation of a batch, whatever the database shows of the devices.
LEMMA SameCreate ==
    ASSUME NEW view, NEW key, NEW request
    PROVE  Coordinator!Create(view, key, request) <=> Facts!Create(view, key, request)
BY DEF Coordinator!Create, Facts!Create, Coordinator!KeyUsed, Facts!KeyUsed,
       Coordinator!NewIds, Facts!NewIds, Coordinator!Queued, Facts!Queued,
       Coordinator!Known, Facts!Known, Coordinator!Reached, Facts!Reached,
       Coordinator!Queueable, Facts!Queueable, Coordinator!Blocked, Facts!Blocked,
       Coordinator!Batch, Facts!Batch, Coordinator!RefusedAs, Facts!RefusedAs,
       Coordinator!Numbered, Facts!Numbered

\* The head of the one device's queue is its first open command, if any.
LEMMA SameHead ==
    /\ Empty <=> Facts!OpenPlaces(Device) = {}
    /\ QueueHead = Facts!FirstOpen(Device)
BY DEF Empty, QueueHead, Coordinator!FirstOpen, Facts!FirstOpen,
       Coordinator!OpenPlaces, Facts!OpenPlaces, Coordinator!Open, Facts!Open,
       Coordinator!OpenStates, Facts!OpenStates

\* The device of the composition is one of the coordinator's.
LEMMA DeviceKnown == Device \in Devices
BY DeliveryAssumption DEF Device

-----------------------------------------------------------------------------
(* The server                                                              *)

\* What ServerInv says of the types and of known, open and sent commands.
LEMMA ServerTypes ==
    ASSUME ServerInv
    PROVE  /\ status \in [CommandIds -> Facts!CommandStatus \cup {"absent"}]
           /\ sequenceOf \in [CommandIds -> Nat]
           /\ sequences \in [Devices -> Nat]
           /\ \A c \in CommandIds : Facts!Known(c) => deviceOf[c] = Device
           /\ \A c \in CommandIds : Facts!Open(c) => Facts!Known(c)
           /\ \A c \in CommandIds : Sent(c) => Facts!Known(c)
           /\ \A c \in CommandIds : Facts!Known(c) => sequenceOf[c] <= sequences[Device]
BY DEF ServerInv, Facts!IInv, Facts!TypeOK, Facts!SequencesUnique, Facts!Open,
       Facts!OpenStates, Facts!Known, Sent

\* The head of the queue is the open command with the least number.
LEMMA HeadIsFirst ==
    ASSUME ServerInv, Facts!OpenPlaces(Device) # {}
    PROVE  /\ Facts!FirstOpen(Device) \in CommandIds
           /\ Facts!Open(Facts!FirstOpen(Device))
           /\ \A e \in CommandIds \ {Facts!FirstOpen(Device)} :
                 Facts!Open(e) => sequenceOf[Facts!FirstOpen(Device)] < sequenceOf[e]
<1>. DEFINE h == Facts!FirstOpen(Device)
<1>1. /\ h \in CommandIds /\ Facts!Open(h) /\ deviceOf[h] = Device
      /\ \A e \in CommandIds :
            Facts!Open(e) /\ deviceOf[e] = Device => sequenceOf[e] >= sequenceOf[h]
  BY Facts!FirstOpenProperties, FactsAssumed, DeviceKnown DEF ServerInv
<1>. HIDE DEF h
<1>2. ASSUME NEW e \in CommandIds, e # h, Facts!Open(e)
      PROVE  sequenceOf[h] < sequenceOf[e]
  <2>1. Facts!Known(e) /\ Facts!Known(h) /\ deviceOf[e] = Device
    BY <1>1, <1>2, ServerTypes
  <2>2. sequenceOf[e] # sequenceOf[h]
    BY <1>1, <1>2, <2>1 DEF ServerInv, Facts!IInv, Facts!SequencesUnique
  <2>3. sequenceOf[e] \in Nat /\ sequenceOf[h] \in Nat
    BY <1>1, ServerTypes
  <2>. QED  BY <1>1, <1>2, <2>1, <2>2, <2>3
<1>. QED  BY <1>1, <1>2 DEF h

\* A transition, of the first open command when that was not sent yet.
LEMMA TransitionServer ==
    ASSUME ServerInv, NEW c \in CommandIds, NEW next, Facts!Transition(c, next),
           status[c] = "created" =>
               \A e \in CommandIds \ {c} : Facts!Open(e) => sequenceOf[c] < sequenceOf[e],
           connected' \in BOOLEAN
    PROVE  /\ ServerInv' /\ Onward
           /\ status' = [status EXCEPT ![c] = next]
<1>1. Facts!IInv'
  BY Facts!TransitionIInv, FactsAssumed DEF ServerInv
<1>2. /\ status \in [CommandIds -> Facts!CommandStatus \cup {"absent"}]
      /\ status' = [status EXCEPT ![c] = next]
      /\ deviceOf' = deviceOf /\ sequenceOf' = sequenceOf
      /\ Facts!Known(c) /\ next \in Facts!StateTransitions[status[c]]
  BY ServerTypes DEF Facts!Transition
<1>3. Facts!Open(c) /\ next \in Facts!CommandStatus /\ next # "created" /\ next # "absent"
  <2>1. status[c] \in Facts!CommandStatus \cup {"absent"} /\ status[c] # "absent"
    BY <1>2 DEF Facts!Known
  <2>2. status[c] \in Facts!OpenStates /\ next \in Facts!CommandStatus /\ next # "created"
    BY <1>2, <2>1, Facts!TransitionTable, FactsAssumed
  <2>. QED  BY <2>2 DEF Facts!Open, Facts!CommandStatus, Facts!TerminalStates, Facts!OpenStates
<1>4. /\ status'[c] = next /\ \A e \in CommandIds \ {c} : status'[e] = status[e]
  BY <1>2
<1>5. \A e \in CommandIds : /\ Facts!Open(e)' => Facts!Open(e)
                            /\ Facts!Known(e)' <=> Facts!Known(e)
                            /\ Sent(e) => Sent(e)'
  BY <1>2, <1>3, <1>4 DEF Facts!Open, Facts!Known, Sent
<1>6. Onward
  BY <1>2, <1>5 DEF Onward
<1>7. ASSUME NEW e \in CommandIds, NEW f \in CommandIds, Sent(e)', Facts!Open(f)', f # e
      PROVE  sequenceOf'[e] < sequenceOf'[f]
  <2>1. Facts!Open(f)
    BY <1>5, <1>7
  <2>2. CASE Sent(e)
    BY <1>2, <1>7, <2>1, <2>2 DEF ServerInv
  <2>3. CASE ~Sent(e)
    <3>1. e = c
      BY <1>4, <1>7, <2>3 DEF Sent
    <3>2. status[c] = "created"
      BY <1>2, <2>3, <3>1 DEF Sent, Facts!Known
    <3>. QED  BY <1>2, <1>7, <2>1, <3>1, <3>2
  <2>. QED  BY <2>2, <2>3
<1>8. \A e \in CommandIds : Facts!Known(e)' => deviceOf'[e] = Device
  BY <1>2, <1>5 DEF ServerInv
<1>9. Device' = Device
  BY DEF Device
<1>10. ServerInv'
  BY <1>1, <1>7, <1>8, <1>9 DEF ServerInv
<1>. QED  BY <1>2, <1>6, <1>10

\* A step of the agent or the connection leaves the server as it is.
LEMMA ServerQuiet ==
    ASSUME ServerInv, UNCHANGED server, connected' \in BOOLEAN
    PROVE  ServerInv' /\ Onward /\ NoNews /\ status' = status
<1>1. /\ devices' = devices /\ status' = status /\ deviceOf' = deviceOf
      /\ sequenceOf' = sequenceOf /\ queue' = queue /\ sequences' = sequences
      /\ batches' = batches
  BY DEF server
<1>2. /\ sequences \in [Devices -> Nat] /\ DOMAIN batches = Keys
      /\ devices \in [Devices -> Facts!DeviceViews]
  BY DEF ServerInv, Facts!IInv, Facts!TypeOK
<1>3. Facts!IInv'
  <2>1. UNCHANGED <<Facts!commands, queue>>
    BY <1>1 DEF Facts!commands
  <2>2. \A d \in Devices : sequences[d] <= sequences'[d]
    BY <1>1, <1>2
  <2>. QED  BY <1>1, <1>2, <2>1, <2>2, Facts!QuietIInv, FactsAssumed DEF ServerInv
<1>4. \A c \in CommandIds : /\ Sent(c)' <=> Sent(c)
                            /\ Facts!Known(c)' <=> Facts!Known(c)
                            /\ Facts!Open(c)' <=> Facts!Open(c)
  BY <1>1 DEF Sent, Facts!Known, Facts!Open
<1>5. Device' = Device
  BY DEF Device
<1>6. ServerInv'
  BY <1>1, <1>3, <1>4, <1>5 DEF ServerInv
<1>. QED  BY <1>1, <1>4, <1>6 DEF Onward, NoNews

\* #dispatch sends the first open command, if there is one, after what is
\* on its way: every other command sent before is over, with a smaller number.
LEMMA SendHeadServer ==
    ASSUME ServerInv, NEW before, SendHead(before), connected' \in BOOLEAN
    PROVE  /\ ServerInv' /\ Onward /\ NoNews
           /\ \/ toAgent' = before
              \/ \E h \in CommandIds :
                    /\ toAgent' = Append(before, h)
                    /\ Sent(h)' /\ Facts!Open(h)'
                    /\ \A e \in CommandIds : Sent(e)' /\ e # h => Behind(e, h)'
<1>1. CASE Empty
  BY <1>1, ServerQuiet DEF SendHead
<1>2. CASE ~Empty
  <2>. DEFINE h == Facts!FirstOpen(Device)
  <2>1. /\ h \in CommandIds /\ Facts!Open(h)
        /\ \A e \in CommandIds \ {h} : Facts!Open(e) => sequenceOf[h] < sequenceOf[e]
    BY <1>2, SameHead, HeadIsFirst
  <2>2. /\ toAgent' = Append(before, h)
        /\ IF status[h] = "created" THEN Facts!Transition(h, "sent") ELSE UNCHANGED server
    BY <1>2, SameHead, SameTransition DEF SendHead, Coordinator!DispatchNext, QueueHead,
       Coordinator!coordinator, Coordinator!commands, server
  <2>3. PICK c : c = h
    OBVIOUS
  <2>. HIDE DEF h
  <2>4. /\ ServerInv' /\ Onward /\ NoNews
        /\ sequenceOf' = sequenceOf
        /\ Sent(c)' /\ Facts!Open(c)'
        /\ \A e \in CommandIds : Facts!Open(e)' => Facts!Open(e)
    <3>1. CASE status[c] = "created"
      <4>1. ServerInv' /\ Onward /\ status' = [status EXCEPT ![c] = "sent"]
            /\ sequenceOf' = sequenceOf
        BY <2>1, <2>2, <2>3, <3>1, TransitionServer DEF Facts!Transition
      <4>2. status'[c] = "sent" /\ \A e \in CommandIds \ {c} : status'[e] = status[e]
        BY <2>1, <2>3, <4>1, ServerTypes
      <4>. QED  BY <2>1, <2>3, <4>1, <4>2 DEF NoNews, Told, Sent, Facts!Open, Facts!OpenStates
    <3>2. CASE status[c] # "created"
      <4>1. ServerInv' /\ Onward /\ NoNews /\ status' = status /\ sequenceOf' = sequenceOf
        BY <2>2, <2>3, <3>2, ServerQuiet DEF server
      <4>. QED  BY <2>1, <2>3, <3>2, <4>1 DEF Sent, Facts!Open, Facts!OpenStates
    <3>. QED  BY <3>1, <3>2
  <2>5. ASSUME NEW e \in CommandIds, Sent(e)', e # c
        PROVE  Behind(e, c)'
    <3>1. sequenceOf'[e] < sequenceOf'[c]
      BY <2>1, <2>3, <2>4, <2>5 DEF ServerInv
    <3>2. ~Facts!Open(e)'
      <4>. SUFFICES ASSUME Facts!Open(e)' PROVE FALSE
        OBVIOUS
      <4>1. sequenceOf[c] < sequenceOf[e]
        BY <2>1, <2>3, <2>4, <2>5
      <4>2. sequenceOf[c] \in Nat /\ sequenceOf[e] \in Nat
        BY <2>1, <2>3, ServerTypes
      <4>. QED  BY <2>4, <3>1, <4>1, <4>2
    <3>. QED  BY <3>1, <3>2 DEF Behind
  <2>. QED  BY <2>1, <2>2, <2>3, <2>4, <2>5
<1>. QED  BY <1>1, <1>2

\* A request makes at most new commands, with the largest numbers.
LEMMA CreateServer ==
    ASSUME ServerInv, NEW key \in Keys, NEW type \in CommandTypes, CreateCommand(key, type)
    PROVE  ServerInv' /\ Onward /\ NoNews
<1>. DEFINE request == [type |-> type, targets |-> {Device}]
<1>1. /\ Facts!Create(View, key, request) /\ devices' = View
      /\ connected' = connected /\ connected \in BOOLEAN
  BY SameCreate DEF CreateCommand, ServerInv
<1>2. View \in [Devices -> Facts!DeviceViews] /\ request \in Facts!Requests
  <2>1. [known |-> TRUE, online |-> connected, capable |-> CommandTypes] \in Facts!DeviceViews
    BY <1>1, Zenon DEF Facts!DeviceViews
  <2>2. View \in [Devices -> Facts!DeviceViews]
    BY <2>1, Zenon DEF View
  <2>3. {Device} \in (SUBSET Devices) \ {{}}
    BY DeviceKnown
  <2>4. request \in Facts!Requests
    BY <2>3 DEF Facts!Requests
  <2>. QED  BY <2>2, <2>4
<1>. DEFINE Kept(c) == /\ status'[c] = status[c] /\ deviceOf'[c] = deviceOf[c]
                       /\ sequenceOf'[c] = sequenceOf[c]
            Made(c) == /\ ~Facts!Known(c) /\ status'[c] = "created"
                       /\ deviceOf'[c] = Device
                       /\ sequenceOf'[c] = sequences[Device] + 1
<1>3. PICK view, wish : view = View /\ wish = request
  OBVIOUS
<1>4. /\ Facts!IInv'
      /\ \A c \in CommandIds :
            \/ /\ status'[c] = status[c] /\ deviceOf'[c] = deviceOf[c]
               /\ sequenceOf'[c] = sequenceOf[c]
            \/ /\ ~Facts!Known(c) /\ status'[c] = "created"
               /\ deviceOf'[c] \in wish.targets
               /\ sequenceOf'[c] = sequences[deviceOf'[c]] + 1
  <2>1. /\ view \in [Devices -> Facts!DeviceViews] /\ wish \in Facts!Requests
        /\ Facts!Create(view, key, wish) /\ devices' = view
    BY <1>1, <1>2, <1>3
  <2>. QED  BY <2>1, Facts!CreateIInv, FactsAssumed DEF ServerInv
<1>5. \A c \in CommandIds : Kept(c) \/ Made(c)
  BY <1>3, <1>4
<1>. HIDE DEF request, Kept, Made
<1>6. ASSUME NEW c \in CommandIds
      PROVE  /\ Sent(c)' <=> Sent(c)
             /\ Facts!Known(c) => Kept(c) /\ (Facts!Open(c)' <=> Facts!Open(c))
             /\ Facts!Known(c)' => deviceOf'[c] = Device
             /\ status'[c] \in Told => status'[c] = status[c]
  <2>1. Facts!Known(c) => deviceOf[c] = Device
    BY DEF ServerInv
  <2>. QED  BY <1>5, <2>1 DEF Kept, Made, Sent, Facts!Known, Facts!Open, Told
<1>7. ASSUME NEW e \in CommandIds, NEW f \in CommandIds, Sent(e)', Facts!Open(f)', f # e
      PROVE  sequenceOf'[e] < sequenceOf'[f]
  <2>1. Sent(e) /\ Facts!Known(e) /\ sequenceOf'[e] = sequenceOf[e]
    BY <1>6, <1>7, ServerTypes DEF Kept
  <2>2. CASE Facts!Known(f)
    <3>1. Facts!Open(f) /\ sequenceOf'[f] = sequenceOf[f]
      BY <1>6, <1>7, <2>2 DEF Kept
    <3>. QED  BY <1>7, <2>1, <3>1 DEF ServerInv
  <2>3. CASE ~Facts!Known(f)
    <3>1. Made(f)
      BY <1>5, <1>7, <2>3 DEF Kept, Facts!Open, Facts!OpenStates, Facts!Known
    <3>2. sequenceOf'[f] = sequences[Device] + 1 /\ sequenceOf[e] <= sequences[Device]
          /\ sequenceOf[e] \in Nat /\ sequences[Device] \in Nat
      BY <2>1, <3>1, ServerTypes, DeviceKnown DEF Made
    <3>. QED  BY <2>1, <3>2
  <2>. QED  BY <2>2, <2>3
<1>8. Device' = Device
  BY DEF Device
<1>9. ServerInv'
  <2>1. \A c \in CommandIds : Facts!Known(c)' => deviceOf'[c] = Device'
    BY <1>6, <1>8
  <2>2. Facts!IInv' /\ connected' \in BOOLEAN
    BY <1>1, <1>4
  <2>. QED  BY <1>7, <2>1, <2>2 DEF ServerInv
<1>10. Onward /\ NoNews
  BY <1>6 DEF Onward, NoNews, Kept
<1>. QED  BY <1>9, <1>10

-----------------------------------------------------------------------------
(* The commands on their way                                               *)

\* Each was sent and is not forgotten; what the agent saw and what it will
\* see before is over, with a smaller number.
Carried(q) ==
    /\ q \in Seq(CommandIds)
    /\ \A i \in DOMAIN q :
          /\ Sent(q[i]) /\ q[i] \notin evicted
          /\ \A e \in CommandIds :
                (Seen(e) \/ \E j \in DOMAIN q : j < i /\ e = q[j]) /\ e # q[i]
                   => Behind(e, q[i])

\* What the agent saw was sent; what it forgot is over.
SeenOK ==
    /\ evicted \subseteq CommandIds
    /\ \A c \in CommandIds : Seen(c) => Sent(c)
    /\ \A c \in evicted : ~Facts!Open(c)

\* The agent sees nothing new, and forgets nothing.
NoneSeen == evicted' = evicted /\ \A c \in CommandIds : Seen(c)' => Seen(c)

\* The server goes on, and the agent sees nothing new.
LEMMA CarriedOnward ==
    ASSUME ServerInv, SeenOK, Onward, NEW q, Carried(q), NoneSeen
    PROVE  SeenOK' /\ Carried(q)'
<1>1. evicted' = evicted /\ \A c \in CommandIds : Seen(c)' => Seen(c)
  BY DEF NoneSeen
<1>2. SeenOK'
  BY <1>1, ServerTypes DEF SeenOK, Onward, Seen
<1>3. q \in Seq(CommandIds) /\ \A i \in DOMAIN q : q[i] \in CommandIds
  BY ElementOfSeq, LenProperties DEF Carried
<1>4. ASSUME NEW i \in DOMAIN q, NEW e \in CommandIds, e # q[i],
             Seen(e) \/ \E j \in DOMAIN q : j < i /\ e = q[j]
      PROVE  Behind(e, q[i])'
  <2>1. Behind(e, q[i])
    BY <1>4 DEF Carried
  <2>2. Sent(e) /\ Sent(q[i])
    BY <1>4 DEF Carried, SeenOK
  <2>3. Facts!Known(e) /\ Facts!Known(q[i]) /\ q[i] \in CommandIds
    BY <1>3, <2>2, ServerTypes
  <2>. QED  BY <2>1, <2>3 DEF Behind, Onward
<1>5. \A i \in DOMAIN q : Sent(q[i])' /\ q[i] \notin evicted'
  BY <1>1, <1>3 DEF Carried, Onward
<1>. QED  BY <1>1, <1>2, <1>3, <1>4, <1>5 DEF Carried

\* A command is put on its way behind all that was sent.
LEMMA CarriedAppend ==
    ASSUME SeenOK', NEW q, Carried(q)', NEW h \in CommandIds, Sent(h)', Facts!Open(h)',
           \A e \in CommandIds : Sent(e)' /\ e # h => Behind(e, h)'
    PROVE  Carried(Append(q, h))'
<1>. DEFINE r == Append(q, h)
<1>1. /\ q \in Seq(CommandIds) /\ Len(q) \in Nat /\ DOMAIN q = 1..Len(q)
      /\ r \in Seq(CommandIds) /\ DOMAIN r = 1..(Len(q) + 1)
      /\ r[Len(q) + 1] = h /\ \A i \in 1..Len(q) : r[i] = q[i]
  <2>1. q \in Seq(CommandIds)
    BY DEF Carried
  <2>. QED  BY <2>1, AppendProperties, LenProperties
<1>. HIDE DEF r
<1>2. \A i \in 1..Len(q) : Sent(q[i])' /\ q[i] \in CommandIds
  BY <1>1, ElementOfSeq DEF Carried
<1>3. h \notin evicted'
  BY DEF SeenOK
<1>4. ASSUME NEW i \in DOMAIN r, NEW e \in CommandIds, e # r[i],
             Seen(e)' \/ \E j \in DOMAIN r : j < i /\ e = r[j]
      PROVE  Behind(e, r[i])'
  <2>1. CASE i = Len(q) + 1
    <3>1. Sent(e)'
      <4>1. CASE Seen(e)'
        BY <4>1 DEF SeenOK
      <4>2. CASE \E j \in DOMAIN r : j < i /\ e = r[j]
        BY <1>1, <1>2, <2>1, <4>2
      <4>. QED  BY <1>4, <4>1, <4>2
    <3>. QED  BY <1>1, <1>4, <2>1, <3>1
  <2>2. CASE i \in DOMAIN q
    <3>1. r[i] = q[i] /\ \A j \in DOMAIN r : j < i => j \in DOMAIN q /\ r[j] = q[j]
      BY <1>1, <2>2
    <3>. QED  BY <1>4, <2>2, <3>1 DEF Carried
  <2>. QED  BY <1>1, <2>1, <2>2
<1>5. \A i \in DOMAIN r : Sent(r[i])' /\ r[i] \notin evicted'
  <2>. SUFFICES ASSUME NEW i \in DOMAIN r
                PROVE  Sent(r[i])' /\ r[i] \notin evicted'
    OBVIOUS
  <2>1. CASE i = Len(q) + 1
    BY <1>1, <1>3, <2>1
  <2>2. CASE i \in DOMAIN q
    BY <1>1, <2>2 DEF Carried
  <2>. QED  BY <1>1, <2>1, <2>2
<1>6. Carried(r)'
  BY <1>1, <1>4, <1>5 DEF Carried
<1>. QED  BY <1>6 DEF r

\* An empty channel carries nothing.
LEMMA CarriedNone ==
    /\ Carried(<< >>)
    /\ Carried(<< >>)'
BY DEF Carried

\* The agent takes the first, and may forget what it saw for it.
LEMMA CarriedTaken ==
    ASSUME ServerInv, SeenOK, NEW q, q # << >>, Carried(q), UNCHANGED server,
           evicted' \subseteq CommandIds,
           \A d \in CommandIds : Seen(d)' => Seen(d) \/ d = Head(q),
           \A d \in evicted' \ evicted : Seen(d) /\ d # Head(q)
    PROVE  SeenOK' /\ Carried(Tail(q))'
<1>. DEFINE c == Head(q)
            r == Tail(q)
<1>1. /\ q \in Seq(CommandIds) /\ Len(q) \in Nat /\ Len(q) >= 1 /\ DOMAIN q = 1..Len(q)
      /\ c = q[1] /\ c \in CommandIds
      /\ r \in Seq(CommandIds) /\ DOMAIN r = 1..(Len(q) - 1)
      /\ \A i \in 1..(Len(q) - 1) : r[i] = q[i + 1]
  <2>1. q \in Seq(CommandIds)
    BY DEF Carried
  <2>2. Len(q) \in Nat /\ DOMAIN q = 1..Len(q) /\ Len(q) >= 1
    BY <2>1, LenProperties, EmptySeq
  <2>3. c = q[1] /\ c \in CommandIds /\ r \in Seq(CommandIds) /\ Len(r) = Len(q) - 1
    BY <2>1, HeadTailProperties
  <2>4. \A i \in 1..Len(r) : r[i] = q[i + 1]
    BY <2>1, HeadTailProperties
  <2>. QED  BY <2>1, <2>2, <2>3, <2>4, LenProperties
<1>2. \A d \in CommandIds : /\ Sent(d)' <=> Sent(d)
                            /\ Facts!Open(d)' <=> Facts!Open(d)
                            /\ sequenceOf'[d] = sequenceOf[d]
  BY DEF server, Sent, Facts!Open
<1>3. \A d \in CommandIds : d # c /\ (Seen(d) \/ d \in evicted) => Behind(d, c)
  <2>1. 1 \in DOMAIN q
    BY <1>1
  <2>. QED  BY <1>1, <2>1 DEF Carried, Seen
<1>4. \A d \in CommandIds : Seen(d)' => Seen(d) \/ d = c
  OBVIOUS
<1>5. \A d \in evicted' \ evicted : Seen(d) /\ d # c
  OBVIOUS
<1>. HIDE DEF c, r
<1>6. SeenOK'
  <2>1. Sent(c)
    BY <1>1 DEF Carried
  <2>2. \A d \in CommandIds : Seen(d)' => Sent(d)'
    BY <1>1, <1>2, <1>4, <2>1 DEF SeenOK
  <2>3. \A d \in evicted' : ~Facts!Open(d)'
    BY <1>2, <1>3, <1>5 DEF SeenOK, Behind
  <2>. QED  BY <2>2, <2>3 DEF SeenOK
<1>7. ASSUME NEW i \in DOMAIN r
      PROVE  /\ r[i] \in CommandIds /\ i \in Nat /\ i + 1 \in DOMAIN q /\ r[i] = q[i + 1]
             /\ Sent(r[i]) /\ r[i] \notin evicted
             /\ c # r[i] => Behind(c, r[i])
  <2>1. i \in Nat /\ i + 1 \in DOMAIN q /\ r[i] = q[i + 1] /\ 1 \in DOMAIN q /\ 1 < i + 1
    BY <1>1
  <2>2. r[i] \in CommandIds
    BY <1>1, ElementOfSeq
  <2>. QED  BY <1>1, <2>1, <2>2 DEF Carried
<1>8. ASSUME NEW i \in DOMAIN r
      PROVE  r[i] \notin evicted'
  <2>. SUFFICES ASSUME r[i] \in evicted' PROVE FALSE
    OBVIOUS
  <2>1. Seen(r[i]) /\ r[i] # c
    BY <1>5, <1>7, <1>8
  <2>2. sequenceOf[r[i]] < sequenceOf[c] /\ sequenceOf[c] < sequenceOf[r[i]]
    BY <1>3, <1>7, <1>8, <2>1 DEF Behind
  <2>3. sequenceOf[c] \in Nat /\ sequenceOf[r[i]] \in Nat
    BY <1>1, <1>7, <1>8, ServerTypes
  <2>. QED  BY <2>2, <2>3
<1>9. ASSUME NEW i \in DOMAIN r, NEW e \in CommandIds, e # r[i],
             Seen(e)' \/ \E j \in DOMAIN r : j < i /\ e = r[j]
      PROVE  Behind(e, r[i])'
  <2>1. r[i] \in CommandIds /\ i + 1 \in DOMAIN q /\ r[i] = q[i + 1]
    BY <1>7, <1>9
  <2>2. CASE e = c
    BY <1>2, <1>7, <1>9, <2>1, <2>2 DEF Behind
  <2>3. CASE Seen(e)
    BY <1>2, <1>9, <2>1, <2>3 DEF Behind, Carried
  <2>4. CASE \E j \in DOMAIN r : j < i /\ e = r[j]
    <3>1. PICK j \in DOMAIN r : j < i /\ e = r[j]
      BY <2>4
    <3>2. j + 1 \in DOMAIN q /\ j + 1 < i + 1 /\ e = q[j + 1]
      BY <1>1, <1>7, <1>9, <3>1
    <3>3. Behind(e, r[i])
      BY <1>9, <2>1, <3>2 DEF Carried
    <3>. QED  BY <1>2, <2>1, <3>3 DEF Behind
  <2>. QED  BY <1>4, <1>9, <2>2, <2>3, <2>4
<1>10. Carried(r)'
  BY <1>1, <1>2, <1>7, <1>8, <1>9 DEF Carried
<1>. QED  BY <1>6, <1>10 DEF r

-----------------------------------------------------------------------------
(* The agent, whose disk does not fail                                     *)

\* Both copies of the ledger say so, unless they forgot, and it was so.
Settled(c, s) ==
    /\ \A l \in {ledger, durable} : l.commands[c] = s \/ c \in evicted
    /\ s = "succeeded" => handed[c] > 0

Lasts == \A c \in CommandIds, s \in Told : Settled(c, s) => Settled(c, s)'

\* The copies agree on all that is not forgotten.
CopiesOK ==
    /\ agent # "stopped" => \A c \in CommandIds :
          ledger.commands[c] = durable.commands[c] \/ c \in evicted
    /\ \A c \in CommandIds, l \in {ledger, durable} :
          l.commands[c] = "succeeded" => handed[c] > 0

\* What the ledger says of the command process_command works on.
WorkOK ==
    /\ agent \in {"announce", "execute"} => ledger.commands[running] = "executing"
    /\ agent = "record" => ledger.commands[running] \in NonTerminalStates
    /\ agent = "report" => ledger.commands[running] = outcome

AgentInv == IInv /\ CopiesOK /\ WorkOK

\* A call that leaves what is finished as it is, or forgets it.
LEMMA CopiesChange ==
    ASSUME AgentInv, agent # "stopped", NEW l \in Ledgers, ledger' = l,
           durable' = l \/ (durable' = durable /\
               \A c \in CommandIds : l.commands[c] = ledger.commands[c] \/ c \in evicted'),
           evicted \subseteq evicted', handed' = handed,
           \A c \in CommandIds :
              \/ l.commands[c] = ledger.commands[c]
              \/ c \in evicted' /\ l.commands[c] # "succeeded"
              \/ ledger.commands[c] \notin Told
                 /\ (l.commands[c] = "succeeded" => handed[c] > 0)
    PROVE  CopiesOK' /\ Lasts
<1>1. \A c \in CommandIds : l.commands[c] = "succeeded" => handed[c] > 0
  BY DEF AgentInv, CopiesOK
<1>2. CopiesOK'
  BY <1>1 DEF AgentInv, CopiesOK
<1>3. ASSUME NEW c \in CommandIds, NEW s \in Told, Settled(c, s)
      PROVE  Settled(c, s)'
  <2>1. (ledger.commands[c] = s \/ c \in evicted) /\ (durable.commands[c] = s \/ c \in evicted)
        /\ (s = "succeeded" => handed[c] > 0)
    BY <1>3 DEF Settled
  <2>2. l.commands[c] = s \/ c \in evicted'
    BY <2>1
  <2>. QED  BY <2>1, <2>2 DEF Settled
<1>. QED  BY <1>2, <1>3 DEF Lasts

\* A step that touches no copy.
LEMMA CopiesSame ==
    ASSUME AgentInv, UNCHANGED <<storage, evicted>>,
           agent = "stopped" => agent' = "stopped",
           \A c \in CommandIds : handed[c] > 0 => handed'[c] > 0
    PROVE  CopiesOK' /\ Lasts /\ ledger' = ledger
BY DEF AgentInv, CopiesOK, Lasts, Settled, storage

\* What accept does to the commands.
LEMMA AcceptedCommands ==
    ASSUME ledger \in Ledgers, NEW c \in CommandIds, NEW l, l = Accept(ledger, c)
    PROVE  /\ l \in Ledgers
           /\ \A d \in CommandIds :
                 \/ l.commands[d] = ledger.commands[d]
                 \/ d # c /\ Finished(ledger, d) /\ ~Known(l, d)
                 \/ d = c /\ ~Known(ledger, c) /\ l.commands[c] = "accepted"
           /\ ~AcceptRefused(ledger, c) /\ ~Finished(ledger, c) =>
                 l.commands[c] \in NonTerminalStates
           /\ AcceptRefused(ledger, c) => l.commands[c] = ledger.commands[c]
<1>1. /\ l \in Ledgers
      /\ \A d \in CommandIds \ {c} :
            l.commands[d] = ledger.commands[d] \/ (Finished(ledger, d) /\ ~Known(l, d))
      /\ Known(ledger, c) => l = ledger
      /\ ~Known(ledger, c) =>
            \/ l.commands[c] = "accepted" /\ ~AcceptRefused(ledger, c)
            \/ ~Known(l, c) /\ AcceptRefused(ledger, c)
  BY AcceptProperties
<1>2. ledger.commands[c] \in PersistedCommandState \cup {"absent"}
  BY DEF Ledgers
<1>3. Known(ledger, c) => ~AcceptRefused(ledger, c)
  BY DEF AcceptRefused
<1>. QED  BY <1>1, <1>2, <1>3 DEF Known, Finished, PersistedCommandState, NonTerminalStates

\* Accepting, or refusing, a command that is not forgotten.
LEMMA AcceptCopies ==
    ASSUME AgentInv, agent # "stopped", NEW c \in CommandIds, NEW l, l = Accept(ledger, c),
           ledger' = l, durable' = l \/ (durable' = durable /\ AcceptRefused(ledger, c)),
           evicted' = evicted \cup Forgotten(l), handed' = handed
    PROVE  /\ CopiesOK' /\ Lasts
           /\ \A d \in CommandIds : Seen(d)' => Seen(d) \/ d = c
           /\ \A d \in evicted' \ evicted : Seen(d) /\ d # c
           /\ ~AcceptRefused(ledger, c) /\ ~Finished(ledger, c) =>
                 ledger'.commands[c] \in NonTerminalStates
<1>0. ledger \in Ledgers
  BY DEF AgentInv, IInv, TypeOK
<1>1. /\ l \in Ledgers
      /\ \A d \in CommandIds :
            \/ l.commands[d] = ledger.commands[d]
            \/ d # c /\ Finished(ledger, d) /\ ~Known(l, d)
            \/ d = c /\ ~Known(ledger, c) /\ l.commands[c] = "accepted"
      /\ ~AcceptRefused(ledger, c) /\ ~Finished(ledger, c) => l.commands[c] \in NonTerminalStates
      /\ AcceptRefused(ledger, c) => l.commands[c] = ledger.commands[c]
  BY <1>0, AcceptedCommands
<1>2. \A d \in CommandIds :
         d # c /\ Finished(ledger, d) /\ ~Known(l, d) => d \in Forgotten(l)
  BY DEF Forgotten, Known, Finished, TerminalStates
<1>3. \A d \in CommandIds :
         \/ l.commands[d] = ledger.commands[d]
         \/ d \in evicted' /\ l.commands[d] # "succeeded"
         \/ /\ ledger.commands[d] \notin Told
            /\ l.commands[d] = "succeeded" => handed[d] > 0
  BY <1>1, <1>2 DEF Known, Told
<1>4. AcceptRefused(ledger, c) =>
         \A d \in CommandIds : l.commands[d] = ledger.commands[d] \/ d \in evicted'
  BY <1>1, <1>2
<1>5. CopiesOK' /\ Lasts
  BY <1>1, <1>3, <1>4, CopiesChange
<1>6. \A d \in CommandIds : Seen(d)' => Seen(d) \/ d = c
  BY <1>1 DEF Seen, Known, Forgotten
<1>7. \A d \in evicted' \ evicted : Seen(d) /\ d # c
  BY <1>1 DEF Seen, Known, Forgotten
<1>. QED  BY <1>1, <1>5, <1>6, <1>7

\* What the agent's step tells the link: its invariant, that what was settled
\* stays so, and which commands it saw and forgot.
Steady(c) ==
    /\ AgentInv' /\ Lasts
    /\ \A d \in CommandIds : Seen(d)' => Seen(d) \/ d = c
    /\ \A d \in evicted' \ evicted : Seen(d) /\ d # c

\* Taking a command, with a disk that does not fail.
LEMMA ReceiveSteady ==
    ASSUME AgentInv, NEW c \in CommandIds, c \notin evicted, Receive(c), agent' # "offline"
    PROVE  /\ Steady(c)
           /\ running' = c \/ (running' = running /\ agent' = "idle")
           /\ Finished(ledger, c) =>
                 agent = "idle" /\ ledger' = ledger /\ durable' = durable
                 /\ evicted' = evicted /\ handed' = handed
<1>1. IInv'
  BY NextIInv DEF AgentInv, Next
<1>2. CASE AnswerFinished(c)
  <2>1. UNCHANGED <<storage, evicted>> /\ handed' = handed /\ running' = running
        /\ agent = "idle" /\ agent' = "idle"
    BY <1>2 DEF AnswerFinished, Report
  <2>2. CopiesOK' /\ Lasts
    BY <2>1, CopiesSame
  <2>3. WorkOK'
    BY <2>1 DEF WorkOK
  <2>4. (\A d \in CommandIds : Seen(d)' => Seen(d)) /\ evicted' = evicted
    BY <2>1 DEF Seen, Known, storage
  <2>. QED  BY <1>1, <2>1, <2>2, <2>3, <2>4 DEF Steady, AgentInv, storage
<1>3. ASSUME agent = "idle", running' = c, handed' = handed, ~Finished(ledger, c),
             ~AcceptRefused(ledger, c), NEW next \in {"record", "acknowledge"},
             Store(Accept(ledger, c), next)
      PROVE  Steady(c)
  <2>1. PICK l : l = Accept(ledger, c)
    OBVIOUS
  <2>2. ledger' = l /\ durable' = l /\ agent' = next /\ evicted' = evicted \cup Forgotten(l)
    BY <1>3, <2>1 DEF Store, Forgotten
  <2>3. /\ CopiesOK' /\ Lasts
        /\ \A d \in CommandIds : Seen(d)' => Seen(d) \/ d = c
        /\ \A d \in evicted' \ evicted : Seen(d) /\ d # c
        /\ ledger'.commands[c] \in NonTerminalStates
    BY <1>3, <2>1, <2>2, AcceptCopies
  <2>4. WorkOK'
    BY <1>3, <2>2, <2>3 DEF WorkOK
  <2>. QED  BY <1>1, <2>3, <2>4 DEF Steady, AgentInv
<1>4. CASE ReceiveExpired(c)
  <2>1. agent = "idle" /\ running' = c /\ handed' = handed /\ ~Finished(ledger, c)
    BY <1>4 DEF ReceiveExpired, history
  <2>2. ~Refuse(c)
    BY DEF Refuse
  <2>3. ASSUME Known(ledger, c), agent' = "record", UNCHANGED <<storage, evicted>>
        PROVE  Steady(c)
    <3>1. CopiesOK' /\ Lasts /\ ledger' = ledger
      BY <2>1, <2>3, CopiesSame
    <3>2. ledger.commands[c] \in NonTerminalStates
      BY <2>1, <2>3 DEF AgentInv, IInv, TypeOK, Ledgers, Known, Finished, PersistedCommandState
    <3>3. WorkOK'
      BY <2>1, <2>3, <3>1, <3>2 DEF WorkOK
    <3>4. (\A d \in CommandIds : Seen(d)' => Seen(d)) /\ evicted' = evicted
      BY <2>3 DEF Seen, Known, storage
    <3>. QED  BY <1>1, <3>1, <3>3, <3>4 DEF Steady, AgentInv
  <2>4. Steady(c)
    BY <1>3, <1>4, <2>1, <2>2, <2>3 DEF ReceiveExpired
  <2>. QED  BY <2>1, <2>4
<1>5. CASE ReceiveLive(c)
  <2>1. agent = "idle" /\ running' = c /\ handed' = handed /\ ~Finished(ledger, c)
    BY <1>5 DEF ReceiveLive, history
  <2>2. ~Refuse(c)
    BY DEF Refuse
  <2>3. Steady(c)
    BY <1>3, <1>5, <2>1, <2>2 DEF ReceiveLive
  <2>. QED  BY <2>1, <2>3
<1>. QED  BY <1>2, <1>4, <1>5 DEF Receive

\* A full ledger may forget for a command it does not take.
LEMMA RefuseSteady ==
    ASSUME AgentInv, NEW c \in CommandIds, c \notin evicted, AcceptRefused(ledger, c),
           Receive(c)
    PROVE  Steady(c) /\ agent' = "offline"
<1>1. IInv'
  BY NextIInv DEF AgentInv, Next
<1>2. ~Known(ledger, c) /\ ~Finished(ledger, c)
  BY DEF AcceptRefused, Known, Finished, TerminalStates
<1>3. Refuse(c) /\ agent = "idle" /\ handed' = handed
  BY <1>2 DEF Receive, AnswerFinished, ReceiveExpired, ReceiveLive, history
<1>4. PICK l : l = Accept(ledger, c)
  OBVIOUS
<1>5. ledger' = l /\ durable' = durable /\ agent' = "offline"
      /\ evicted' = evicted \cup Forgotten(l)
  BY <1>3, <1>4 DEF Refuse, Forgotten
<1>6. /\ CopiesOK' /\ Lasts
      /\ \A d \in CommandIds : Seen(d)' => Seen(d) \/ d = c
      /\ \A d \in evicted' \ evicted : Seen(d) /\ d # c
  BY <1>3, <1>4, <1>5, AcceptCopies
<1>7. WorkOK'
  BY <1>5 DEF WorkOK
<1>. QED  BY <1>1, <1>5, <1>6, <1>7 DEF Steady, AgentInv

\* A step of the agent that sees nothing new.
Still == AgentInv' /\ Lasts /\ NoneSeen

\* A step that touches no copy and keeps what WorkOK says.
LEMMA SameStill ==
    ASSUME AgentInv, IInv', WorkOK', UNCHANGED <<storage, evicted>>,
           agent = "stopped" => agent' = "stopped",
           \A c \in CommandIds : handed[c] > 0 => handed'[c] > 0
    PROVE  Still
<1>1. CopiesOK' /\ Lasts
  BY CopiesSame
<1>2. NoneSeen
  BY DEF NoneSeen, Seen, Known, storage
<1>. QED  BY <1>1, <1>2 DEF Still, AgentInv

\* The steps of process_command that report, and what they report.
LEMMA ReportStill ==
    ASSUME AgentInv, Acknowledge \/ Announce \/ ReportOutcome
    PROVE  /\ Still /\ running' = running /\ running \in CommandIds
           /\ agent \in {"acknowledge", "announce", "report"}
           /\ ReportOutcome /\ outcome \in Told => Settled(running, outcome)
<1>1. IInv'
  BY NextIInv DEF AgentInv, Next, ServiceStep
<1>2. /\ UNCHANGED <<storage, running, outcome, expired, handed, evicted>>
      /\ \/ agent = "acknowledge" /\ agent' = "dequeue"
         \/ agent = "announce" /\ agent' = "execute"
         \/ agent = "report" /\ agent' = "idle"
  BY DEF Acknowledge, Announce, ReportOutcome, Report
<1>3. WorkOK'
  BY <1>2 DEF AgentInv, WorkOK, storage
<1>4. Still
  BY <1>1, <1>2, <1>3, SameStill
<1>5. running \in CommandIds
  BY <1>2 DEF AgentInv, IInv, RunningOK
<1>6. ASSUME ReportOutcome, outcome \in Told
      PROVE  Settled(running, outcome)
  <2>1. agent = "report" /\ ledger.commands[running] = outcome
    BY <1>6 DEF ReportOutcome, AgentInv, WorkOK
  <2>2. durable.commands[running] = outcome \/ running \in evicted
    BY <1>5, <2>1 DEF AgentInv, CopiesOK
  <2>3. outcome = "succeeded" => handed[running] > 0
    BY <1>5, <2>1 DEF AgentInv, CopiesOK
  <2>. QED  BY <2>1, <2>2, <2>3 DEF Settled
<1>. QED  BY <1>2, <1>4, <1>5, <1>6

\* The head of the queue was not finished.
LEMMA TakeNextStill ==
    ASSUME AgentInv, TakeNext, agent' # "offline"
    PROVE  /\ Still /\ agent = "dequeue"
           /\ \/ running' = running /\ agent' = "idle"
              \/ running' \in CommandIds /\ Seen(running')
<1>1. IInv' /\ agent = "dequeue" /\ handed' = handed /\ ledger \in Ledgers
  BY NextIInv DEF AgentInv, Next, ServiceStep, TakeNext, history, IInv, TypeOK
<1>2. ASSUME CanDequeue(ledger), running' = Head(ledger.queue),
             Store(Dequeue(ledger), "announce")
      PROVE  Still /\ running' \in CommandIds /\ Seen(running')
  <2>1. PICK l, c : l = Dequeue(ledger) /\ c = Head(ledger.queue)
    OBVIOUS
  <2>2. c \in CommandIds /\ InQueue(ledger, c)
    BY <1>1, <1>2, <2>1, DequeueMove DEF AgentInv
  <2>3. l \in Ledgers /\ l.commands = [ledger.commands EXCEPT ![c] = "executing"]
    BY <1>1, <1>2, <2>1, DequeueProperties
  <2>4. /\ l.commands[c] = "executing"
        /\ \A d \in CommandIds \ {c} : l.commands[d] = ledger.commands[d]
    BY <1>1, <2>2, <2>3 DEF Ledgers
  <2>5. /\ ledger.commands[c] \notin Told
        /\ Known(ledger, c) \/ c \in evicted
    BY <2>2 DEF AgentInv, IInv, QueueOK, Started, PersistedCommandState, TerminalStates, Told
  <2>6. Forgotten(l) = {}
    BY <2>4 DEF Forgotten, Known
  <2>7. ledger' = l /\ durable' = l /\ agent' = "announce" /\ evicted' = evicted
    BY <1>2, <2>1, <2>6 DEF Store, Forgotten
  <2>8. \A d \in CommandIds :
          \/ l.commands[d] = ledger.commands[d]
          \/ ledger.commands[d] \notin Told /\ (l.commands[d] = "succeeded" => handed[d] > 0)
    BY <2>4, <2>5
  <2>9. CopiesOK' /\ Lasts
    BY <1>1, <2>3, <2>7, <2>8, CopiesChange
  <2>10. WorkOK'
    BY <1>2, <2>1, <2>4, <2>7 DEF WorkOK
  <2>11. NoneSeen
    BY <2>4, <2>5, <2>7 DEF NoneSeen, Seen, Known
  <2>. QED  BY <1>1, <1>2, <2>1, <2>2, <2>5, <2>9, <2>10, <2>11 DEF Still, AgentInv, Seen
<1>3. ASSUME UNCHANGED running, Store(ledger, "idle")
      PROVE  Still /\ agent' = "idle"
  <2>1. ledger' = ledger /\ durable' = ledger /\ agent' = "idle" /\ evicted' = evicted
    BY <1>3 DEF Store
  <2>2. CopiesOK' /\ Lasts
    BY <1>1, <2>1, CopiesChange
  <2>3. WorkOK'
    BY <2>1 DEF WorkOK
  <2>4. NoneSeen
    BY <2>1 DEF NoneSeen, Seen
  <2>. QED  BY <1>1, <2>1, <2>2, <2>3, <2>4 DEF Still, AgentInv
<1>. QED  BY <1>1, <1>2, <1>3 DEF TakeNext

\* The executor's outcome is not recorded yet.
LEMMA ExecuteStill ==
    ASSUME AgentInv, Execute
    PROVE  Still /\ running' = running /\ agent = "execute"
<1>1. IInv'
  BY NextIInv DEF AgentInv, Next, ServiceStep
<1>2. /\ UNCHANGED <<storage, evicted>> /\ agent = "execute" /\ agent' = "record"
      /\ running' = running /\ running \in CommandIds
      /\ handed' = [handed EXCEPT ![running] = @ + 1]
      /\ handed \in [CommandIds -> Nat]
  BY DEF Execute, AgentInv, IInv, RunningOK, TypeOK
<1>3. \A c \in CommandIds : handed[c] > 0 => handed'[c] > 0
  BY <1>2
<1>4. WorkOK'
  BY <1>2 DEF AgentInv, WorkOK, storage, NonTerminalStates
<1>. QED  BY <1>1, <1>2, <1>3, <1>4, SameStill

\* finish finds the command unfinished, and executed when it is not expired.
LEMMA RecordStill ==
    ASSUME AgentInv, RecordOutcome, agent' # "offline"
    PROVE  Still /\ running' = running /\ agent = "record"
<1>1. /\ IInv' /\ agent = "record" /\ handed' = handed /\ running' = running
      /\ outcome' = outcome /\ outcome \in TerminalStates
      /\ ledger \in Ledgers /\ running \in CommandIds
      /\ outcome # "expired" => handed[running] > 0
  BY NextIInv DEF AgentInv, Next, ServiceStep, RecordOutcome, history, IInv, TypeOK, RunningOK
<1>2. ledger.commands[running] \in NonTerminalStates
  BY <1>1 DEF AgentInv, WorkOK
<1>3. CanFinish(ledger, running)
  BY <1>2 DEF CanFinish, Known, NonTerminalStates
<1>4. PICK l : l = Finish(ledger, running, outcome)
  OBVIOUS
<1>5. /\ l \in Ledgers /\ l.commands[running] = outcome
      /\ \A d \in CommandIds : Known(l, d) <=> Known(ledger, d)
      /\ \A d \in CommandIds \ {running} : l.commands[d] = ledger.commands[d]
  <2>1. l.commands[running] = outcome
    BY <1>1, <1>3, <1>4 DEF Finish, Ledgers
  <2>. QED  BY <1>1, <1>4, <2>1, FinishProperties
<1>6. ledger' = l /\ durable' = l /\ agent' = "report" /\ evicted' = evicted
  BY <1>3, <1>4, <1>5 DEF RecordOutcome, Store
<1>7. \A d \in CommandIds :
         \/ l.commands[d] = ledger.commands[d]
         \/ ledger.commands[d] \notin Told /\ (l.commands[d] = "succeeded" => handed[d] > 0)
  BY <1>1, <1>2, <1>5 DEF NonTerminalStates, Told
<1>8. CopiesOK' /\ Lasts
  BY <1>1, <1>5, <1>6, <1>7, CopiesChange
<1>9. WorkOK'
  BY <1>1, <1>5, <1>6 DEF WorkOK
<1>10. NoneSeen
  BY <1>5, <1>6 DEF NoneSeen, Seen
<1>. QED  BY <1>1, <1>8, <1>9, <1>10 DEF Still, AgentInv

\* The connection, a stop and the clock touch no copy.
LEMMA LoopStill ==
    ASSUME AgentInv,
           \/ Connect \/ LoseConnection \/ Stop \/ UNCHANGED vars
           \/ \E c \in CommandIds : Expire(c)
    PROVE  /\ Still /\ running' = running
           /\ agent' = agent \/ agent' \in {"idle", "offline", "stopped"}
<1>1. IInv'
  BY NextIInv DEF AgentInv, Next
<1>2. /\ UNCHANGED <<storage, evicted>> /\ handed' = handed /\ running' = running
      /\ outcome' = outcome
      /\ agent' = agent \/ agent' \in {"idle", "offline", "stopped"}
      /\ agent = "stopped" => agent' = "stopped"
  BY DEF Connect, LoseConnection, Stop, vars, Expire, history, control, storage
<1>3. WorkOK'
  BY <1>2 DEF AgentInv, WorkOK, storage
<1>. QED  BY <1>1, <1>2, <1>3, SameStill

\* A restart keeps what is finished.
LEMMA StartStill ==
    ASSUME AgentInv, Start, agent' = "offline"
    PROVE  Still /\ running' = running
<1>1. IInv' /\ durable \in Ledgers
  BY NextIInv DEF AgentInv, Next, IInv, TypeOK
<1>2. PICK r : r = Recover(durable)
  OBVIOUS
<1>3. /\ ledger' = r /\ durable' = r /\ running' = running /\ handed' = handed
      /\ evicted' = evicted
  BY <1>2 DEF Start, history
<1>4. \A c \in CommandIds :
        /\ Known(r, c) <=> Known(durable, c)
        /\ r.commands[c] = IF durable.commands[c] = "executing"
                           THEN "outcome_unknown" ELSE durable.commands[c]
  BY <1>1, <1>2, RecoverProperties
<1>5. CopiesOK'
  BY <1>3, <1>4 DEF AgentInv, CopiesOK
<1>6. Lasts
  <2>. SUFFICES ASSUME NEW c \in CommandIds, NEW s \in Told, Settled(c, s)
                PROVE  Settled(c, s)'
    BY DEF Lasts
  <2>1. (durable.commands[c] = s \/ c \in evicted) /\ (s = "succeeded" => handed[c] > 0)
    BY DEF Settled
  <2>2. r.commands[c] = s \/ c \in evicted
    BY <1>4, <2>1 DEF Told
  <2>. QED  BY <1>3, <2>1, <2>2 DEF Settled
<1>7. WorkOK' /\ NoneSeen
  BY <1>3, <1>4 DEF WorkOK, NoneSeen, Seen
<1>. QED  BY <1>1, <1>3, <1>5, <1>6, <1>7 DEF Still, AgentInv

-----------------------------------------------------------------------------
(* The results on their way, and both ends                                 *)

\* Each tells of a command that was sent, and the truth of how it ended.
Heard(q) ==
    /\ q \in Seq(CommandIds \X Statuses)
    /\ \A i \in DOMAIN q :
          /\ Sent(q[i][1])
          /\ q[i][2] \in Told => Settled(q[i][1], q[i][2])

\* What the server says of an end is settled at the agent.
EndsOK == \A c \in CommandIds, s \in Told : status[c] = s => Settled(c, s)

\* The agent works on what it was sent.
Working == {"acknowledge", "announce", "execute", "record", "report"}
RunsOK == agent \in Working => Sent(running)

DeliveryInv == /\ ServerInv /\ AgentInv /\ SeenOK /\ Carried(toAgent)
               /\ Heard(toServer) /\ EndsOK /\ RunsOK

\* Results on their way stay true.
LEMMA HeardOnward ==
    ASSUME Onward, Lasts, NEW q, Heard(q)
    PROVE  Heard(q)'
<1>1. /\ q \in Seq(CommandIds \X Statuses)
      /\ \A i \in DOMAIN q : q[i] \in CommandIds \X Statuses
  BY ElementOfSeq, LenProperties DEF Heard
<1>2. ASSUME NEW i \in DOMAIN q
      PROVE  Sent(q[i][1])' /\ (q[i][2] \in Told => Settled(q[i][1], q[i][2])')
  <2>1. q[i][1] \in CommandIds
    BY <1>1
  <2>2. Sent(q[i][1]) /\ (q[i][2] \in Told => Settled(q[i][1], q[i][2]))
    BY DEF Heard
  <2>3. Sent(q[i][1])'
    BY <2>1, <2>2 DEF Onward
  <2>4. q[i][2] \in Told => Settled(q[i][1], q[i][2])'
    BY <2>1, <2>2 DEF Lasts
  <2>. QED  BY <2>3, <2>4
<1>. QED  BY <1>1, <1>2 DEF Heard

\* Removing the first leaves the others true.
LEMMA HeardTail ==
    ASSUME NEW q, q # << >>, Heard(q)'
    PROVE  Heard(Tail(q))'
<1>. DEFINE r == Tail(q)
<1>1. q \in Seq(CommandIds \X Statuses)
  BY DEF Heard
<1>2. /\ r \in Seq(CommandIds \X Statuses) /\ Len(q) \in Nat /\ Len(r) = Len(q) - 1
      /\ DOMAIN q = 1..Len(q) /\ DOMAIN r = 1..Len(r)
      /\ \A i \in 1..Len(r) : r[i] = q[i + 1]
  BY <1>1, HeadTailProperties, LenProperties
<1>. HIDE DEF r
<1>3. \A i \in DOMAIN r : i + 1 \in DOMAIN q /\ r[i] = q[i + 1]
  BY <1>2
<1>4. Heard(r)'
  BY <1>2, <1>3 DEF Heard
<1>. QED  BY <1>4 DEF r

\* A true result may be added.
LEMMA HeardAppend ==
    ASSUME NEW q, Heard(q)', NEW c \in CommandIds, NEW s \in Statuses, Sent(c)',
           s \in Told => Settled(c, s)'
    PROVE  Heard(Append(q, <<c, s>>))'
<1>. DEFINE m == <<c, s>>
            r == Append(q, m)
<1>1. q \in Seq(CommandIds \X Statuses) /\ m \in CommandIds \X Statuses
      /\ m[1] = c /\ m[2] = s
  BY DEF Heard
<1>. HIDE DEF m
<1>2. /\ r \in Seq(CommandIds \X Statuses) /\ Len(q) \in Nat
      /\ DOMAIN q = 1..Len(q) /\ DOMAIN r = 1..(Len(q) + 1)
      /\ r[Len(q) + 1] = m /\ \A i \in 1..Len(q) : r[i] = q[i]
  BY <1>1, AppendProperties, LenProperties
<1>. HIDE DEF r
<1>3. ASSUME NEW i \in DOMAIN r
      PROVE  Sent(r[i][1])' /\ (r[i][2] \in Told => Settled(r[i][1], r[i][2])')
  <2>1. CASE i = Len(q) + 1
    BY <1>1, <1>2, <2>1
  <2>2. CASE i \in DOMAIN q
    <3>1. r[i] = q[i]
      BY <1>2, <2>2
    <3>. QED  BY <2>2, <3>1 DEF Heard
  <2>. QED  BY <1>2, <2>1, <2>2
<1>4. Heard(r)'
  BY <1>2, <1>3 DEF Heard
<1>. QED  BY <1>4 DEF r, m

\* No result is heard on an empty channel.
LEMMA HeardNone == Heard(<< >>)'
BY DEF Heard

\* Say adds it, or loses it with the connection.
LEMMA HeardSay ==
    ASSUME Heard(toServer), Onward, Lasts, NEW c \in CommandIds, NEW s \in Statuses,
           Sent(c)', s \in Told => Settled(c, s), Say(c, s)
    PROVE  Heard(toServer)'
<1>1. PICK q : q = toServer
  OBVIOUS
<1>2. Heard(q)'
  BY <1>1, HeardOnward
<1>3. s \in Told => Settled(c, s)'
  BY DEF Lasts
<1>4. toServer' = q \/ toServer' = Append(q, <<c, s>>)
  BY <1>1 DEF Say
<1>5. CASE toServer' = q
  BY <1>2, <1>5 DEF Heard
<1>6. CASE toServer' = Append(q, <<c, s>>)
  <2>1. Heard(Append(q, <<c, s>>))'
    BY <1>2, <1>3, HeardAppend
  <2>. QED  BY <1>6, <2>1 DEF Heard
<1>. QED  BY <1>4, <1>5, <1>6

\* The ends of both sides still fit when the server learned only what is
\* settled.
LEMMA EndsKept ==
    ASSUME EndsOK, Lasts,
           \A c \in CommandIds : status'[c] \in Told =>
               status'[c] = status[c] \/ Settled(c, status'[c])
    PROVE  EndsOK'
<1>. SUFFICES ASSUME NEW c \in CommandIds, NEW s \in Told, status'[c] = s
              PROVE  Settled(c, s)'
  BY DEF EndsOK
<1>1. Settled(c, s)
  BY DEF EndsOK
<1>. QED  BY <1>1 DEF Lasts

-----------------------------------------------------------------------------
(* Every step of either end                                                *)

\* A step of the server, during which the agent rests.
LEMMA ServerStep ==
    ASSUME DeliveryInv, UNCHANGED vars, ServerInv', Onward,
           \A c \in CommandIds : status'[c] \in Told =>
               status'[c] = status[c] \/ Settled(c, status'[c])
    PROVE  /\ ServerInv' /\ AgentInv' /\ SeenOK' /\ EndsOK' /\ RunsOK'
           /\ \A q : Carried(q) => Carried(q)'
           /\ \A q : Heard(q) => Heard(q)'
<1>1. Still /\ running' = running /\ agent' = agent
  BY LoopStill DEF DeliveryInv, vars
<1>2. AgentInv' /\ Lasts /\ NoneSeen
  BY <1>1 DEF Still
<1>3. Carried(toAgent) /\ ServerInv /\ SeenOK
  BY DEF DeliveryInv
<1>4. SeenOK' /\ \A q : Carried(q) => Carried(q)'
  BY <1>2, <1>3, CarriedOnward
<1>5. \A q : Heard(q) => Heard(q)'
  BY <1>2, HeardOnward
<1>6. EndsOK'
  BY <1>2, EndsKept DEF DeliveryInv
<1>7. RunsOK'
  <2>1. running \in CommandIds \/ agent \notin Working
    BY DEF DeliveryInv, AgentInv, IInv, RunningOK, Working
  <2>. QED  BY <1>1, <2>1 DEF DeliveryInv, RunsOK, Onward
<1>. QED  BY <1>2, <1>4, <1>5, <1>6, <1>7

\* A request.
LEMMA CreateDelivery ==
    ASSUME DeliveryInv, NEW key \in Keys, NEW type \in CommandTypes, CreateCommand(key, type)
    PROVE  DeliveryInv'
<1>1. ServerInv' /\ Onward /\ NoNews
  BY CreateServer DEF DeliveryInv
<1>2. UNCHANGED vars /\ toAgent' = toAgent /\ toServer' = toServer
  BY DEF CreateCommand
<1>3. PICK q, r : q = toAgent /\ r = toServer
  OBVIOUS
<1>4. /\ ServerInv' /\ AgentInv' /\ SeenOK' /\ EndsOK' /\ RunsOK'
      /\ Carried(q)' /\ Heard(r)'
  BY <1>1, <1>2, <1>3, ServerStep DEF DeliveryInv, NoNews
<1>. QED  BY <1>2, <1>3, <1>4 DEF DeliveryInv, Carried, Heard

\* #dispatch sends the head of the queue, or fails it.
LEMMA DispatchDelivery ==
    ASSUME DeliveryInv, NEW d \in CommandIds, Dispatch(d)
    PROVE  DeliveryInv'
<1>0. /\ UNCHANGED vars /\ toServer' = toServer
      /\ connected' = connected /\ connected \in BOOLEAN /\ ServerInv
  BY DEF Dispatch, DeliveryInv, ServerInv
<1>1. PICK q, r : q = toAgent /\ r = toServer
  OBVIOUS
<1>2. ASSUME ServerInv', Onward, NoNews,
             \/ toAgent' = q
             \/ \E h \in CommandIds :
                   /\ toAgent' = Append(q, h)
                   /\ Sent(h)' /\ Facts!Open(h)'
                   /\ \A e \in CommandIds : Sent(e)' /\ e # h => Behind(e, h)'
      PROVE  DeliveryInv'
  <2>1. /\ ServerInv' /\ AgentInv' /\ SeenOK' /\ EndsOK' /\ RunsOK'
        /\ Carried(q)' /\ Heard(r)'
    BY <1>0, <1>1, <1>2, ServerStep DEF DeliveryInv, NoNews
  <2>2. Heard(toServer)'
    BY <1>0, <1>1, <2>1 DEF Heard
  <2>3. CASE toAgent' = q
    BY <2>1, <2>2, <2>3 DEF DeliveryInv, Carried
  <2>4. CASE \E h \in CommandIds :
                   /\ toAgent' = Append(q, h)
                   /\ Sent(h)' /\ Facts!Open(h)'
                   /\ \A e \in CommandIds : Sent(e)' /\ e # h => Behind(e, h)'
    <3>1. PICK h \in CommandIds :
                   /\ toAgent' = Append(q, h)
                   /\ Sent(h)' /\ Facts!Open(h)'
                   /\ \A e \in CommandIds : Sent(e)' /\ e # h => Behind(e, h)'
      BY <2>4
    <3>2. Carried(Append(q, h))'
      BY <2>1, <3>1, CarriedAppend
    <3>3. Carried(toAgent)'
      BY <3>1, <3>2 DEF Carried
    <3>. QED  BY <2>1, <2>2, <3>3 DEF DeliveryInv
  <2>. QED  BY <1>2, <2>3, <2>4
<1>3. CASE UNCHANGED <<server, toAgent>>
  BY <1>0, <1>1, <1>2, <1>3, ServerQuiet
<1>4. CASE SendHead(toAgent)
  BY <1>0, <1>1, <1>2, <1>4, SendHeadServer
<1>5. ASSUME ~Empty, Coordinator!Transition(QueueHead, "failed"), toAgent' = toAgent
      PROVE  DeliveryInv'
  <2>1. PICK h : h = QueueHead
    OBVIOUS
  <2>2. /\ h \in CommandIds
        /\ \A e \in CommandIds \ {h} : Facts!Open(e) => sequenceOf[h] < sequenceOf[e]
        /\ Facts!Transition(h, "failed")
    BY <1>0, <1>5, <2>1, SameHead, SameTransition, HeadIsFirst
  <2>3. ServerInv' /\ Onward /\ status' = [status EXCEPT ![h] = "failed"]
    BY <1>0, <2>2, TransitionServer
  <2>4. NoNews
    BY <1>0, <2>2, <2>3, ServerTypes DEF NoNews, Told
  <2>. QED  BY <1>1, <1>2, <1>5, <2>3, <2>4
<1>. QED  BY <1>3, <1>4, <1>5 DEF Dispatch

\* A result is what the agent's ledger says.
LEMMA TakeResultDelivery ==
    ASSUME DeliveryInv, TakeResult
    PROVE  DeliveryInv'
<1>1. PICK q, r : q = toAgent /\ r = toServer
  OBVIOUS
<1>2. /\ r # << >> /\ toServer' = Tail(r) /\ toAgent' = q /\ UNCHANGED vars
      /\ connected' = connected /\ connected \in BOOLEAN
      /\ ServerInv /\ Carried(q) /\ Heard(r)
  BY <1>1 DEF TakeResult, DeliveryInv, ServerInv
<1>3. PICK c, s : c = Head(r)[1] /\ s = Head(r)[2]
  OBVIOUS
<1>4. c \in CommandIds /\ Sent(c) /\ (s \in Told => Settled(c, s))
  <2>1. r \in Seq(CommandIds \X Statuses)
    BY <1>2 DEF Heard
  <2>2. Head(r) \in CommandIds \X Statuses /\ Head(r) = r[1] /\ 1 \in DOMAIN r
    BY <1>2, <2>1, HeadTailProperties, EmptySeq, LenProperties
  <2>. QED  BY <1>2, <1>3, <2>2 DEF Heard
<1>5. Coordinator!HandleAgentResult(Device, c, s)
  BY <1>1, <1>3 DEF TakeResult
<1>6. /\ ServerInv' /\ Onward
      /\ \A d \in CommandIds : status'[d] \in Told =>
            status'[d] = status[d] \/ Settled(d, status'[d])
  <2>1. CASE Coordinator!Transition(c, s)
    <3>1. ServerInv' /\ Onward /\ status' = [status EXCEPT ![c] = s]
      BY <1>2, <1>4, <2>1, SameTransition, TransitionServer DEF Sent
    <3>. QED  BY <1>2, <1>4, <3>1, ServerTypes
  <2>2. CASE UNCHANGED Coordinator!coordinator
    <3>1. UNCHANGED server
      BY <2>2 DEF Coordinator!coordinator, Coordinator!commands, server
    <3>. QED  BY <1>2, <3>1, ServerQuiet DEF NoNews
  <2>. QED  BY <1>5, <2>1, <2>2 DEF Coordinator!HandleAgentResult
<1>7. /\ ServerInv' /\ AgentInv' /\ SeenOK' /\ EndsOK' /\ RunsOK'
      /\ Carried(q)' /\ Heard(r)'
  BY <1>2, <1>6, ServerStep
<1>8. Heard(Tail(r))'
  BY <1>2, <1>7, HeardTail
<1>. QED  BY <1>2, <1>7, <1>8 DEF DeliveryInv, Carried, Heard

\* A step of the agent, during which the server rests.
LEMMA AgentStep ==
    ASSUME DeliveryInv, UNCHANGED server, connected' \in BOOLEAN, AgentInv', Lasts, SeenOK',
           Carried(toAgent)', Heard(toServer)',
           agent' \in Working => Sent(running')
    PROVE  DeliveryInv'
<1>1. ServerInv' /\ NoNews /\ status' = status
  BY ServerQuiet DEF DeliveryInv
<1>2. EndsOK'
  BY <1>1, EndsKept DEF DeliveryInv, NoNews
<1>3. RunsOK'
  BY <1>1 DEF RunsOK, Sent
<1>. QED  BY <1>1, <1>2, <1>3 DEF DeliveryInv

\* The agent sees nothing new: what is on its way stays there, or is lost.
LEMMA StillStep ==
    ASSUME DeliveryInv, UNCHANGED server, connected' \in BOOLEAN, Still,
           toAgent' = toAgent \/ toAgent' = << >>,
           Heard(toServer)' \/ toServer' = toServer \/ toServer' = << >>,
           agent' \in Working => Sent(running')
    PROVE  DeliveryInv'
<1>1. Onward /\ AgentInv' /\ Lasts /\ NoneSeen
  BY ServerQuiet DEF DeliveryInv, Still
<1>2. PICK q, r : q = toAgent /\ r = toServer
  OBVIOUS
<1>3. SeenOK' /\ Carried(q)' /\ Heard(r)'
  BY <1>1, <1>2, CarriedOnward, HeardOnward DEF DeliveryInv
<1>4. Carried(toAgent)'
  <2>1. CASE toAgent' = q
    BY <1>3, <2>1 DEF Carried
  <2>2. CASE toAgent' = << >>
    BY <2>2, CarriedNone DEF Carried
  <2>. QED  BY <1>2, <2>1, <2>2
<1>5. Heard(toServer)'
  <2>1. CASE toServer' = r
    BY <1>3, <2>1 DEF Heard
  <2>2. CASE toServer' = << >>
    BY <2>2, HeardNone DEF Heard
  <2>. QED  BY <1>2, <2>1, <2>2
<1>. QED  BY <1>1, <1>3, <1>4, <1>5, AgentStep

\* The agent takes the first command on its way, or refuses it.
LEMMA ReceiveDelivery ==
    ASSUME DeliveryInv, ReceiveCommand \/ RefuseCommand
    PROVE  DeliveryInv'
<1>1. PICK q, r, c : q = toAgent /\ r = toServer /\ c = Head(q)
  OBVIOUS
<1>2. /\ q # << >> /\ UNCHANGED server /\ connected' \in BOOLEAN /\ Receive(c)
      /\ ServerInv /\ AgentInv /\ SeenOK /\ Carried(q) /\ Heard(r)
  BY <1>1 DEF ReceiveCommand, RefuseCommand, Disconnected, DeliveryInv, ServerInv
<1>3. c \in CommandIds /\ Sent(c) /\ c \notin evicted
  <2>1. q \in Seq(CommandIds)
    BY <1>2 DEF Carried
  <2>2. c \in CommandIds /\ c = q[1] /\ 1 \in DOMAIN q
    BY <1>1, <1>2, <2>1, HeadTailProperties, EmptySeq, LenProperties
  <2>. QED  BY <1>2, <2>2 DEF Carried
<1>4. Onward /\ status' = status
  BY <1>2, ServerQuiet
<1>5. ASSUME Steady(c)
      PROVE  AgentInv' /\ Lasts /\ SeenOK' /\ Carried(Tail(q))'
  <2>1. evicted' \subseteq CommandIds
    BY <1>5 DEF Steady, AgentInv, IInv, TypeOK
  <2>. QED  BY <1>1, <1>2, <1>5, <2>1, CarriedTaken DEF Steady
<1>6. CASE ReceiveCommand
  <2>1. /\ agent' # "offline" /\ toAgent' = Tail(q)
        /\ IF Finished(ledger, c) THEN Say(c, ledger.commands[c]) ELSE toServer' = r
    BY <1>1, <1>6 DEF ReceiveCommand
  <2>2. /\ Steady(c)
        /\ running' = c \/ (running' = running /\ agent' = "idle")
        /\ Finished(ledger, c) => agent = "idle"
    BY <1>2, <1>3, <2>1, ReceiveSteady
  <2>3. AgentInv' /\ Lasts /\ SeenOK' /\ Carried(Tail(q))'
    BY <1>5, <2>2
  <2>4. Heard(toServer)'
    <3>1. CASE Finished(ledger, c)
      <4>1. PICK s : s = ledger.commands[c]
        OBVIOUS
      <4>2. s \in Statuses
        BY <3>1, <4>1 DEF Finished, Statuses
      <4>3. s \in Told => Settled(c, s)
        BY <1>2, <1>3, <2>2, <3>1, <4>1 DEF AgentInv, CopiesOK, Settled
      <4>4. Sent(c)'
        BY <1>3, <1>4 DEF Sent
      <4>5. Say(c, s)
        BY <2>1, <3>1, <4>1
      <4>. QED  BY <1>1, <1>2, <1>3, <1>4, <2>3, <4>2, <4>3, <4>4, <4>5, HeardSay
    <3>2. CASE ~Finished(ledger, c)
      <4>1. Heard(r)' /\ toServer' = r
        BY <1>2, <1>4, <2>1, <2>3, <3>2, HeardOnward
      <4>. QED  BY <4>1 DEF Heard
    <3>. QED  BY <3>1, <3>2
  <2>5. Carried(toAgent)'
    BY <2>1, <2>3 DEF Carried
  <2>6. agent' \in Working => Sent(running')
    BY <1>3, <2>2 DEF Working
  <2>. QED  BY <1>2, <2>3, <2>4, <2>5, <2>6, AgentStep
<1>7. CASE RefuseCommand
  <2>1. AcceptRefused(ledger, c) /\ toAgent' = << >> /\ toServer' = << >>
    BY <1>1, <1>7 DEF RefuseCommand, Disconnected
  <2>2. Steady(c) /\ agent' = "offline"
    BY <1>2, <1>3, <2>1, RefuseSteady
  <2>3. AgentInv' /\ Lasts /\ SeenOK'
    BY <1>5, <2>2
  <2>4. Carried(toAgent)' /\ Heard(toServer)'
    BY <2>1, CarriedNone, HeardNone DEF Carried, Heard
  <2>. QED  BY <1>2, <2>2, <2>3, <2>4, AgentStep DEF Working
<1>. QED  BY <1>6, <1>7

\* process_command works on a command that was sent, and tells the truth.
LEMMA WorkDelivery ==
    ASSUME DeliveryInv, Work
    PROVE  DeliveryInv'
<1>1. /\ UNCHANGED server /\ toAgent' = toAgent
      /\ connected' \in BOOLEAN /\ AgentInv /\ ServerInv /\ SeenOK /\ RunsOK
  BY DEF Work, DeliveryInv, ServerInv
<1>2. ASSUME NEW s \in Statuses, Acknowledge \/ Announce \/ ReportOutcome, Say(running, s),
             s \notin Told \/ (ReportOutcome /\ s = outcome)
      PROVE  DeliveryInv'
  <2>1. PICK c : c = running
    OBVIOUS
  <2>2. /\ Still /\ running' = c /\ c \in CommandIds /\ Sent(c)
        /\ s \in Told => Settled(c, s)
    BY <1>1, <1>2, <2>1, ReportStill DEF RunsOK, Working
  <2>3. Onward /\ status' = status /\ Lasts
    BY <1>1, <2>2, ServerQuiet DEF Still
  <2>4. Sent(c)'
    BY <2>2, <2>3 DEF Sent
  <2>5. Heard(toServer)'
    BY <1>2, <2>1, <2>2, <2>3, <2>4, HeardSay DEF DeliveryInv
  <2>. QED  BY <1>1, <2>2, <2>5, StillStep
<1>3. ASSUME SayAccepted \/ SayExecuting \/ SayOutcome
      PROVE  DeliveryInv'
  <2>1. "accepted" \in Statuses \ Told /\ "executing" \in Statuses \ Told
    BY DEF Statuses, NonTerminalStates, Told
  <2>2. outcome \in Statuses
    BY <1>1 DEF AgentInv, IInv, TypeOK, Statuses
  <2>. QED  BY <1>2, <1>3, <2>1, <2>2 DEF SayAccepted, SayExecuting, SayOutcome
<1>4. ASSUME TakeNext \/ Execute \/ RecordOutcome, agent' # "offline", toServer' = toServer
      PROVE  DeliveryInv'
  <2>1. /\ Still
        /\ \/ running' \in CommandIds /\ Seen(running')
           \/ running' = running /\ agent \in Working
           \/ running' = running /\ agent' = "idle"
    <3>1. CASE TakeNext
      BY <1>1, <1>4, <3>1, TakeNextStill
    <3>2. CASE Execute
      BY <1>1, <3>2, ExecuteStill DEF Working
    <3>3. CASE RecordOutcome
      BY <1>1, <1>4, <3>3, RecordStill DEF Working
    <3>. QED  BY <1>4, <3>1, <3>2, <3>3
  <2>2. agent' \in Working => Sent(running')
    BY <1>1, <2>1 DEF SeenOK, RunsOK, Working
  <2>. QED  BY <1>1, <1>4, <2>1, <2>2, StillStep
<1>. QED  BY <1>3, <1>4 DEF Work

\* Losses, stops, restarts and the clock.
LEMMA WorldDelivery ==
    ASSUME DeliveryInv,
           NoticeLoss \/ StopAgent \/ StartAgent \/ BreakConnection \/ TimePasses
    PROVE  DeliveryInv'
<1>1. /\ UNCHANGED server /\ connected' \in BOOLEAN /\ AgentInv /\ RunsOK
      /\ toAgent' = toAgent \/ toAgent' = << >>
      /\ toServer' = toServer \/ toServer' = << >>
  BY DEF NoticeLoss, StopAgent, StartAgent, BreakConnection, TimePasses, Disconnected, network,
         DeliveryInv, ServerInv
<1>2. /\ Still /\ running' = running
      /\ agent' = agent \/ agent' \in {"idle", "offline", "stopped"}
  <2>1. CASE StartAgent
    BY <1>1, <2>1, StartStill DEF StartAgent
  <2>2. CASE ~StartAgent
    <3>1. \/ LoseConnection \/ Stop \/ UNCHANGED vars
          \/ \E c \in CommandIds : Expire(c)
      BY <2>2, DeliveryAssumption DEF NoticeLoss, StopAgent, BreakConnection, TimePasses
    <3>. QED  BY <1>1, <3>1, LoopStill
  <2>. QED  BY <2>1, <2>2
<1>. QED  BY <1>1, <1>2, StillStep DEF RunsOK, Working

\* A new connection, on which the head of the queue is sent.
LEMMA ReconnectDelivery ==
    ASSUME DeliveryInv, Reconnect
    PROVE  DeliveryInv'
<1>1. Connect /\ connected' = TRUE /\ toServer' = << >> /\ SendHead(<< >>)
      /\ ServerInv /\ SeenOK /\ AgentInv
  BY DEF Reconnect, DeliveryInv
<1>2. Still /\ agent' = "idle"
  BY <1>1, LoopStill DEF Connect
<1>3. /\ ServerInv' /\ Onward /\ NoNews
      /\ \/ toAgent' = << >>
         \/ \E h \in CommandIds :
               /\ toAgent' = Append(<< >>, h)
               /\ Sent(h)' /\ Facts!Open(h)'
               /\ \A e \in CommandIds : Sent(e)' /\ e # h => Behind(e, h)'
  BY <1>1, SendHeadServer
<1>4. AgentInv' /\ Lasts /\ NoneSeen
  BY <1>2 DEF Still
<1>5. SeenOK'
  BY <1>1, <1>3, <1>4, CarriedNone, CarriedOnward
<1>6. Carried(toAgent)'
  <2>1. CASE toAgent' = << >>
    BY <2>1, CarriedNone DEF Carried
  <2>2. CASE \E h \in CommandIds :
               /\ toAgent' = Append(<< >>, h)
               /\ Sent(h)' /\ Facts!Open(h)'
               /\ \A e \in CommandIds : Sent(e)' /\ e # h => Behind(e, h)'
    <3>1. PICK h \in CommandIds :
               /\ toAgent' = Append(<< >>, h)
               /\ Sent(h)' /\ Facts!Open(h)'
               /\ \A e \in CommandIds : Sent(e)' /\ e # h => Behind(e, h)'
      BY <2>2
    <3>2. Carried(Append(<< >>, h))'
      BY <1>5, <3>1, CarriedNone, CarriedAppend
    <3>. QED  BY <3>1, <3>2 DEF Carried
  <2>. QED  BY <1>3, <2>1, <2>2
<1>7. Heard(toServer)'
  BY <1>1, HeardNone DEF Heard
<1>8. EndsOK'
  BY <1>3, <1>4, EndsKept DEF DeliveryInv, NoNews
<1>9. RunsOK'
  BY <1>2 DEF RunsOK, Working
<1>. QED  BY <1>3, <1>4, <1>5, <1>6, <1>7, <1>8, <1>9 DEF DeliveryInv

\* Nothing was sent, seen or said at the start.
LEMMA InitDelivery == DeliveryInit => DeliveryInv
<1>. SUFFICES ASSUME DeliveryInit PROVE DeliveryInv
  OBVIOUS
<1>1. Facts!Init
  BY DEF DeliveryInit, Coordinator!Init, Facts!Init, Coordinator!New, Facts!New,
         Coordinator!NoDevice, Facts!NoDevice
<1>2. Facts!IInv
  BY <1>1, Facts!InitIInv, FactsAssumed
<1>3. \A c \in CommandIds : status[c] = "absent"
  BY <1>1 DEF Facts!Init, Facts!New
<1>4. ServerInv
  BY <1>2, <1>3 DEF ServerInv, DeliveryInit, Facts!Known, Sent
<1>5. IInv
  BY InitIInv DEF DeliveryInit
<1>6. \A c \in CommandIds : EmptyLedger.commands[c] = "absent"
  BY DEF EmptyLedger
<1>7. AgentInv
  BY <1>5, <1>6 DEF AgentInv, CopiesOK, WorkOK, DeliveryInit, Init
<1>8. SeenOK
  BY <1>6 DEF SeenOK, Seen, Known, DeliveryInit, Init
<1>9. Carried(toAgent)
  BY CarriedNone DEF DeliveryInit
<1>10. Heard(toServer)
  BY DEF Heard, DeliveryInit
<1>11. EndsOK /\ RunsOK
  BY <1>3 DEF EndsOK, RunsOK, Told, Working, DeliveryInit, Init
<1>. QED  BY <1>4, <1>7, <1>8, <1>9, <1>10, <1>11 DEF DeliveryInv

\* Every step keeps the invariant of both ends.
LEMMA NextDelivery == DeliveryInv /\ [DeliveryNext]_system => DeliveryInv'
<1>. SUFFICES ASSUME DeliveryInv, [DeliveryNext]_system PROVE DeliveryInv'
  OBVIOUS
<1>1. CASE \E k \in Keys, type \in CommandTypes : CreateCommand(k, type)
  BY <1>1, CreateDelivery
<1>2. CASE \E c \in CommandIds : Dispatch(c)
  BY <1>2, DispatchDelivery
<1>3. CASE TakeResult
  BY <1>3, TakeResultDelivery
<1>4. CASE RejectResult \/ UNCHANGED system
  <2>1. /\ UNCHANGED server /\ connected' \in BOOLEAN /\ UNCHANGED vars /\ AgentInv /\ RunsOK
        /\ toAgent' = toAgent \/ toAgent' = << >>
        /\ toServer' = toServer \/ toServer' = << >>
    BY <1>4 DEF RejectResult, Disconnected, system, network, DeliveryInv, ServerInv
  <2>2. Still /\ running' = running /\ agent' = agent
    BY <2>1, LoopStill DEF vars
  <2>. QED  BY <2>1, <2>2, StillStep DEF RunsOK
<1>5. CASE ReceiveCommand \/ RefuseCommand
  BY <1>5, ReceiveDelivery
<1>6. CASE Work
  BY <1>6, WorkDelivery
<1>7. CASE NoticeLoss \/ StopAgent \/ StartAgent \/ BreakConnection \/ TimePasses
  BY <1>7, WorldDelivery
<1>8. CASE Reconnect
  BY <1>8, ReconnectDelivery
<1>. QED  BY <1>1, <1>2, <1>3, <1>4, <1>5, <1>6, <1>7, <1>8
          DEF DeliveryNext, AgentRuns, ServerRuns

\* The invariant of both ends holds in every reachable state.
LEMMA DeliveryInvariance == DeliverySpec => []DeliveryInv
BY InitDelivery, NextDelivery, PTL DEF DeliverySpec

\* Whatever is lost, resent, stopped and forgotten, what the server says of
\* a command that ended at the agent is what the agent's ledger says, and a
\* success was one execution.
THEOREM BothEndsAgree == DeliverySpec => []OutcomesAgree
<1>1. DeliveryInv => OutcomesAgree
  <2>. SUFFICES ASSUME DeliveryInv, NEW c \in CommandIds, NEW s \in Told, status[c] = s
                PROVE  /\ ledger.commands[c] = s \/ c \in evicted
                       /\ s = "succeeded" => handed[c] = 1
    BY DEF OutcomesAgree, Told
  <2>1. Settled(c, s)
    BY DEF DeliveryInv, EndsOK
  <2>2. handed[c] \in Nat /\ handed[c] <= 1
    BY DEF DeliveryInv, AgentInv, IInv, TypeOK, HandedOK
  <2>. QED  BY <2>1, <2>2 DEF Settled
<1>. QED  BY DeliveryInvariance, <1>1, PTL

\* Every step under this server is one AgentService allows: in particular the
\* server never sends a command the ledger had to forget.
THEOREM ServiceInDelivery == DeliverySpec => Spec
<1>1. DeliveryInit => Init
  BY DEF DeliveryInit
<1>2. DeliveryInv /\ [DeliveryNext]_system => [Next]_vars
  <2>. SUFFICES ASSUME DeliveryInv, [DeliveryNext]_system PROVE [Next]_vars
    OBVIOUS
  <2>1. CASE ReceiveCommand \/ RefuseCommand
    <3>1. toAgent \in Seq(CommandIds) /\ toAgent # << >> /\ Receive(Head(toAgent))
      BY <2>1 DEF ReceiveCommand, RefuseCommand, DeliveryInv, Carried
    <3>2. Head(toAgent) \in CommandIds /\ Head(toAgent) = toAgent[1] /\ 1 \in DOMAIN toAgent
      BY <3>1, HeadTailProperties, EmptySeq, LenProperties
    <3>3. Head(toAgent) \notin evicted
      BY <3>2 DEF DeliveryInv, Carried
    <3>. QED  BY <3>1, <3>2, <3>3 DEF Next
  <2>2. CASE Work
    BY <2>2 DEF Work, SayAccepted, SayExecuting, SayOutcome, Next, ServiceStep
  <2>3. CASE NoticeLoss \/ StopAgent \/ StartAgent \/ Reconnect
    BY <2>3 DEF NoticeLoss, StopAgent, StartAgent, Reconnect, Next
  <2>4. CASE TimePasses
    BY <2>4, DeliveryAssumption DEF TimePasses, Next
  <2>5. CASE \/ \E k \in Keys, type \in CommandTypes : CreateCommand(k, type)
             \/ ServerRuns \/ BreakConnection \/ UNCHANGED system
    BY <2>5 DEF CreateCommand, ServerRuns, Dispatch, TakeResult, RejectResult, BreakConnection,
                system
  <2>. QED  BY <2>1, <2>2, <2>3, <2>4, <2>5 DEF DeliveryNext, AgentRuns
<1>. QED  BY DeliveryInvariance, <1>1, <1>2, PTL DEF DeliverySpec, Spec
=============================================================================
