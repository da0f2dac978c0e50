------------------------ MODULE CommandLedger_proofs ------------------------
(***************************************************************************)
(* What the operators of CommandLedger return, for every set of commands   *)
(* and every capacity.  The other proof modules cite these lemmas.         *)
(***************************************************************************)
EXTENDS CommandLedger, Queues_proofs

-----------------------------------------------------------------------------
(* Each operation returns a ledger, and what it does to the queue          *)

\* The ledger of an agent that was never started is a ledger.
LEMMA EmptyLedgerType == EmptyLedger \in Ledgers
BY DEF EmptyLedger, Ledgers

\* Taking one element out of a sequence.
LEMMA RemoveAtProperties ==
    ASSUME NEW S, NEW s \in Seq(S), NEW i \in DOMAIN s
    PROVE  /\ RemoveAt(s, i) \in Seq(S)
           /\ \A k \in DOMAIN RemoveAt(s, i) :
                 \E j \in DOMAIN s : j # i /\ s[j] = RemoveAt(s, i)[k]
           /\ Injective(s) => Injective(RemoveAt(s, i))
<1>. DEFINE r == RemoveAt(s, i)
<1>1. Len(s) \in Nat /\ DOMAIN s = 1..Len(s)
  BY LenProperties
<1>2. /\ SubSeq(s, 1, i - 1) \in Seq(S)
      /\ Len(SubSeq(s, 1, i - 1)) = i - 1
      /\ \A k \in 1..(i - 1) : SubSeq(s, 1, i - 1)[k] = s[k]
  BY <1>1, SubSeqProperties
<1>3. /\ SubSeq(s, i + 1, Len(s)) \in Seq(S)
      /\ Len(SubSeq(s, i + 1, Len(s))) = Len(s) - i
      /\ \A k \in 1..(Len(s) - i) : SubSeq(s, i + 1, Len(s))[k] = s[i + k]
  <2>. PICK n : n = Len(s)
    OBVIOUS
  <2>. PICK m : m = i + 1
    OBVIOUS
  <2>1. n \in Nat /\ n = Len(s) /\ i \in 1..n /\ m = i + 1 /\ m \in Nat
    BY <1>1
  <2>2. \A k \in m..n : k \in DOMAIN s
    BY <1>1, <2>1
  <2>3. \A k \in m..n : s[k] \in S
    BY <2>2, ElementOfSeq, <1>1
  <2>4. /\ SubSeq(s, m, n) \in Seq(S)
        /\ Len(SubSeq(s, m, n)) = IF m <= n THEN n - m + 1 ELSE 0
        /\ \A k \in 1..(n - m + 1) : SubSeq(s, m, n)[k] = s[m + k - 1]
    <3>1. m \in Int /\ n \in Int
      BY <2>1
    <3>. QED  BY <2>3, <3>1, SubSeqProperties
  <2>5. n - m + 1 = Len(s) - i /\ i <= Len(s) /\ (m <= n <=> i < Len(s))
    BY <1>1, <2>1
  <2>6. \A k \in 1..(Len(s) - i) : m + k - 1 = i + k
    BY <1>1, <2>1
  <2>7. Len(SubSeq(s, m, n)) = Len(s) - i
    BY <1>1, <2>4, <2>5
  <2>8. \A k \in 1..(Len(s) - i) : SubSeq(s, m, n)[k] = s[i + k]
    BY <2>4, <2>5, <2>6
  <2>9. SubSeq(s, m, n) = SubSeq(s, i + 1, Len(s))
    BY <2>1
  <2>. QED  BY <2>4, <2>7, <2>8, <2>9
<1>4. /\ r \in Seq(S)
      /\ Len(r) = Len(s) - 1
      /\ \A k \in 1..(Len(s) - 1) : r[k] = IF k < i THEN s[k] ELSE s[k + 1]
  <2>. DEFINE a == SubSeq(s, 1, i - 1)
              b == SubSeq(s, i + 1, Len(s))
  <2>1. r = a \o b
    BY DEF RemoveAt
  <2>2. a \in Seq(S) /\ b \in Seq(S) /\ Len(a) = i - 1 /\ Len(b) = Len(s) - i
    BY <1>2, <1>3
  <2>3. \A k \in 1..(i - 1) : a[k] = s[k]
    BY <1>2
  <2>4. \A k \in 1..(Len(s) - i) : b[k] = s[i + k]
    BY <1>3
  <2>. HIDE DEF a, b, r
  <2>7. i \in 1..Len(s)
    BY <1>1
  <2>8. /\ a \o b \in Seq(S)
        /\ Len(a \o b) = Len(a) + Len(b)
        /\ \A k \in 1..(Len(a) + Len(b)) :
              (a \o b)[k] = IF k <= Len(a) THEN a[k] ELSE b[k - Len(a)]
    BY <2>2, ConcatProperties
  <2>5. /\ r \in Seq(S)
        /\ Len(r) = Len(s) - 1
        /\ \A k \in 1..(Len(s) - 1) : r[k] = IF k <= i - 1 THEN a[k] ELSE b[k - (i - 1)]
    <3>1. Len(a) + Len(b) = Len(s) - 1 /\ Len(a) = i - 1
      BY <1>1, <2>2, <2>7
    <3>. QED  BY <2>1, <2>8, <3>1
  <2>6. ASSUME NEW k \in 1..(Len(s) - 1)
        PROVE  r[k] = IF k < i THEN s[k] ELSE s[k + 1]
    <3>1. CASE k < i
      BY <1>1, <2>3, <2>5, <3>1
    <3>2. CASE ~(k < i)
      <4>1. k - (i - 1) \in 1..(Len(s) - i) /\ i + (k - (i - 1)) = k + 1
        BY <1>1, <3>2
      <4>2. b[k - (i - 1)] = s[k + 1]
        BY <4>1, <2>4
      <4>3. ~(k <= i - 1)
        BY <1>1, <2>7, <3>2
      <4>. QED  BY <2>5, <3>2, <4>2, <4>3
    <3>. QED  BY <3>1, <3>2
  <2>. QED  BY <2>5, <2>6
<1>. HIDE DEF r
<1>5. DOMAIN r = 1..(Len(s) - 1)
  BY <1>1, <1>4, LenProperties
<1>6. \A k \in DOMAIN r : \E j \in DOMAIN s : j # i /\ s[j] = r[k]
  <2>. SUFFICES ASSUME NEW k \in DOMAIN r
                PROVE  \E j \in DOMAIN s : j # i /\ s[j] = r[k]
    OBVIOUS
  <2>1. CASE k < i
    BY <2>1, <1>1, <1>4, <1>5
  <2>2. CASE ~(k < i)
    <3>1. k + 1 \in DOMAIN s /\ k + 1 # i /\ r[k] = s[k + 1]
      BY <2>2, <1>1, <1>4, <1>5
    <3>. QED  BY <3>1
  <2>. QED  BY <2>1, <2>2
<1>7. ASSUME Injective(s)
      PROVE  Injective(r)
  <2>. DEFINE at(k) == IF k < i THEN k ELSE k + 1
  <2>1. \A k \in 1..(Len(s) - 1) : at(k) \in 1..Len(s) /\ r[k] = s[at(k)]
    <3>1. \A k \in 1..(Len(s) - 1) : at(k) \in 1..Len(s)
      BY <1>1
    <3>2. \A k \in 1..(Len(s) - 1) : r[k] = s[at(k)]
      BY <1>4
    <3>. QED  BY <3>1, <3>2
  <2>2. \A k, j \in 1..(Len(s) - 1) : at(k) = at(j) => k = j
    BY <1>1
  <2>. HIDE DEF at
  <2>3. ASSUME NEW k \in 1..(Len(s) - 1), NEW j \in 1..(Len(s) - 1), r[k] = r[j]
        PROVE  k = j
    <3>1. at(k) \in DOMAIN s /\ at(j) \in DOMAIN s /\ s[at(k)] = s[at(j)]
      BY <1>1, <2>1, <2>3
    <3>2. at(k) = at(j)
      BY <1>7, <3>1 DEF Injective
    <3>. QED  BY <2>2, <3>2
  <2>. QED  BY <1>5, <2>3 DEF Injective
<1>. QED  BY <1>4, <1>6, <1>7 DEF r

\* The index an eviction picks is a place of a finished command.
LEMMA OldestFinishedProperties ==
    ASSUME NEW l \in Ledgers, FinishedPlaces(l) # {}
    PROVE  /\ OldestFinished(l) \in DOMAIN l.order
           /\ Finished(l, l.order[OldestFinished(l)])
           /\ l.order[OldestFinished(l)] \in CommandIds
<1>1. FinishedPlaces(l) \in SUBSET Nat
  <2>1. l.order \in Seq(CommandIds)
    BY DEF Ledgers
  <2>. QED  BY <2>1, LenProperties DEF FinishedPlaces
<1>2. \E i \in FinishedPlaces(l) : \A j \in FinishedPlaces(l) : i <= j
  BY <1>1, LeastNatural
<1>3. OldestFinished(l) \in FinishedPlaces(l)
  BY <1>2, Zenon DEF OldestFinished
<1>4. OldestFinished(l) \in DOMAIN l.order /\ Finished(l, l.order[OldestFinished(l)])
  BY <1>3 DEF FinishedPlaces
<1>5. l.order \in Seq(CommandIds)
  BY DEF Ledgers
<1>. QED  BY <1>4, <1>5, ElementOfSeq, LenProperties

\* An eviction forgets at most one command, a finished one, and leaves the
\* queue alone.
LEMMA RemoveOldestTerminalProperties ==
    ASSUME NEW l \in Ledgers
    PROVE  /\ RemoveOldestTerminal(l) \in Ledgers
           /\ RemoveOldestTerminal(l).queue = l.queue
           /\ \A c \in CommandIds :
                 \/ RemoveOldestTerminal(l).commands[c] = l.commands[c]
                 \/ Finished(l, c) /\ ~Known(RemoveOldestTerminal(l), c)
<1>1. CASE Full(l) /\ FinishedPlaces(l) # {}
  <2>. DEFINE i == OldestFinished(l)
              victim == l.order[i]
  <2>1. i \in DOMAIN l.order /\ Finished(l, victim) /\ victim \in CommandIds
    BY <1>1, OldestFinishedProperties
  <2>2. l.order \in Seq(CommandIds)
    BY DEF Ledgers
  <2>3. RemoveAt(l.order, i) \in Seq(CommandIds)
    <3>. HIDE DEF i
    <3>. QED  BY <2>1, <2>2, RemoveAtProperties
  <2>4. RemoveOldestTerminal(l) = [commands |-> [l.commands EXCEPT ![victim] = "absent"],
                                   order    |-> RemoveAt(l.order, i),
                                   queue    |-> l.queue]
    BY <1>1 DEF RemoveOldestTerminal
  <2>. HIDE DEF i, victim
  <2>. QED  BY <2>1, <2>3, <2>4 DEF Ledgers, Known
<1>2. CASE ~(Full(l) /\ FinishedPlaces(l) # {})
  BY <1>2, Zenon DEF RemoveOldestTerminal
<1>. QED  BY <1>1, <1>2

\* Accepting changes no command but the one accepted and an evicted one, and
\* queues nothing but an unknown command.
LEMMA AcceptProperties ==
    ASSUME NEW l \in Ledgers, NEW c \in CommandIds
    PROVE  /\ Accept(l, c) \in Ledgers
           /\ \A d \in CommandIds \ {c} :
                 \/ Accept(l, c).commands[d] = l.commands[d]
                 \/ Finished(l, d) /\ ~Known(Accept(l, c), d)
           /\ Known(l, c) => Accept(l, c) = l
           /\ ~Known(l, c) => \/ /\ Accept(l, c).queue = Append(l.queue, c)
                                 /\ Accept(l, c).commands[c] = "accepted"
                                 /\ ~AcceptRefused(l, c)
                              \/ /\ Accept(l, c).queue = l.queue
                                 /\ ~Known(Accept(l, c), c)
                                 /\ AcceptRefused(l, c)
<1>. DEFINE e == RemoveOldestTerminal(l)
<1>1. /\ e \in Ledgers
      /\ e.queue = l.queue
      /\ \A d \in CommandIds : e.commands[d] = l.commands[d] \/ (Finished(l, d) /\ ~Known(e, d))
  BY RemoveOldestTerminalProperties
<1>. HIDE DEF e
<1>2. CASE Known(l, c)
  BY <1>2 DEF Accept
<1>3. CASE ~Known(l, c) /\ AcceptRefused(l, c)
  <2>1. Accept(l, c) = e
    BY <1>3 DEF Accept, e
  <2>. QED  BY <1>1, <1>3, <2>1 DEF Known, Finished, TerminalStates
<1>4. CASE ~Known(l, c) /\ ~AcceptRefused(l, c)
  <2>1. Accept(l, c) = Insert(e, c)
    BY <1>4 DEF Accept, e
  <2>2. Append(e.queue, c) \in Seq(CommandIds) /\ Append(e.order, c) \in Seq(CommandIds)
    BY <1>1, AppendProperties DEF Ledgers
  <2>3. Insert(e, c) \in Ledgers
    BY <1>1, <2>2 DEF Insert, Ledgers, PersistedCommandState, NonTerminalStates
  <2>4. Insert(e, c).queue = Append(l.queue, c) /\ Insert(e, c).commands[c] = "accepted"
    BY <1>1 DEF Insert, Ledgers
  <2>5. \A d \in CommandIds \ {c} : Insert(e, c).commands[d] = e.commands[d]
    BY <1>1 DEF Insert, Ledgers
  <2>. QED  BY <1>1, <1>4, <2>1, <2>3, <2>4, <2>5 DEF Known
<1>. QED  BY <1>2, <1>3, <1>4

\* Dequeuing takes the head of the queue and marks it executing.
LEMMA DequeueProperties ==
    ASSUME NEW l \in Ledgers, CanDequeue(l)
    PROVE  /\ Head(l.queue) \in CommandIds
           /\ Dequeue(l) \in Ledgers
           /\ Dequeue(l).queue = Tail(l.queue)
           /\ Dequeue(l).commands = [l.commands EXCEPT ![Head(l.queue)] = "executing"]
           /\ Dequeue(l).order = l.order
<1>1. l.queue \in Seq(CommandIds) /\ l.queue # << >>
  BY DEF Ledgers, CanDequeue
<1>2. Head(l.queue) \in CommandIds /\ Tail(l.queue) \in Seq(CommandIds)
  BY <1>1, HeadTailProperties
<1>. QED  BY <1>2 DEF Dequeue, Ledgers, PersistedCommandState, NonTerminalStates

\* Dequeuing, from an empty queue too, returns a ledger.
LEMMA DequeueType ==
    ASSUME NEW l \in Ledgers
    PROVE  Dequeue(l) \in Ledgers
BY DequeueProperties DEF Dequeue

\* Finishing changes the state of one known command, and nothing else.
LEMMA FinishProperties ==
    ASSUME NEW l \in Ledgers, NEW c \in CommandIds, NEW outcome \in TerminalStates
    PROVE  /\ Finish(l, c, outcome) \in Ledgers
           /\ Finish(l, c, outcome).queue = l.queue
           /\ Finish(l, c, outcome).order = l.order
           /\ \A d \in CommandIds : Known(Finish(l, c, outcome), d) <=> Known(l, d)
           /\ \A d \in CommandIds \ {c} :
                 Finish(l, c, outcome).commands[d] = l.commands[d]
BY DEF Finish, Ledgers, PersistedCommandState, Known, TerminalStates, CanFinish

\* A recovered ledger queues only accepted commands that were queued, and
\* knows the commands it knew.
LEMMA RecoverProperties ==
    ASSUME NEW l \in Ledgers
    PROVE  /\ Recover(l) \in Ledgers
           /\ \A c \in CommandIds : Known(Recover(l), c) <=> Known(l, c)
           /\ \A c \in CommandIds :
                 Recover(l).commands[c] = IF l.commands[c] = "executing"
                                          THEN "outcome_unknown" ELSE l.commands[c]
           /\ Recover(l).order = l.order
           /\ \A k \in DOMAIN Recover(l).queue :
                 \E i \in DOMAIN l.queue : /\ l.queue[i] = Recover(l).queue[k]
                                           /\ l.commands[l.queue[i]] = "accepted"
           /\ Injective(l.queue) => Injective(Recover(l).queue)
<1>. DEFINE keep == {c \in CommandIds : l.commands[c] = "accepted"}
            q == Retain(l.queue, keep)
<1>1. l.queue \in Seq(CommandIds)
  BY DEF Ledgers
<1>2. /\ q \in Seq(CommandIds)
      /\ \A k \in DOMAIN q : \E i \in DOMAIN l.queue : l.queue[i] = q[k] /\ l.queue[i] \in keep
      /\ Injective(l.queue) => Injective(q)
  <2>. HIDE DEF keep
  <2>. QED  BY <1>1, RetainProperties
<1>3. Recover(l).queue = q
  BY DEF Recover
<1>. HIDE DEF q
<1>4. \A k \in DOMAIN q : \E i \in DOMAIN l.queue : /\ l.queue[i] = q[k]
                                                    /\ l.commands[l.queue[i]] = "accepted"
  BY <1>2
<1>5. /\ Recover(l) \in Ledgers
      /\ \A c \in CommandIds :
            Recover(l).commands[c] = IF l.commands[c] = "executing"
                                     THEN "outcome_unknown" ELSE l.commands[c]
      /\ Recover(l).order = l.order
  BY <1>2, <1>3 DEF Recover, Ledgers, PersistedCommandState, TerminalStates, q
<1>. QED  BY <1>2, <1>3, <1>4, <1>5 DEF Known
=============================================================================
