--------------------- MODULE CommandCoordinator_proofs ---------------------
(***************************************************************************)
(* The queues of the coordinator are exactly the open commands in sequence *)
(* order, for every set of devices, commands and keys and every limit; and *)
(* the runtime's tasks, rows and memory agree about them, through every    *)
(* fault and crash, for every number of tasks.                             *)
(***************************************************************************)
EXTENDS CommandRuntime, Queues_proofs

IInv == TypeOK /\ QueuesAreOpenCommands /\ SequencesUnique

\* The invariant at one queue.
QueueOK(d) ==
    /\ queue[d] \in Seq(CommandIds)
    /\ \A c \in CommandIds : Holds(queue[d], c) <=> Open(c) /\ deviceOf[c] = d
    /\ Ascending(queue[d], sequenceOf)

\* The invariant without the queues.
RestOK == /\ devices \in [Devices -> DeviceViews]
          /\ status \in [CommandIds -> CommandStatus \cup {"absent"}]
          /\ deviceOf \in [CommandIds -> Devices \cup {NoDevice}]
          /\ \A c \in CommandIds : Known(c) => deviceOf[c] \in Devices
          /\ sequenceOf \in [CommandIds -> Nat]
          /\ sequences \in [Devices -> Nat]
          /\ DOMAIN batches = Keys
          /\ SequencesUnique

\* The invariant, taken apart.
Whole == /\ RestOK
         /\ DOMAIN queue = Devices /\ queue = [d \in Devices |-> queue[d]]
         /\ \A d \in Devices : QueueOK(d)

\* A command that is known has a device.
LEMMA KnownHasDevice ==
    ASSUME TypeOK
    PROVE  \A c \in CommandIds : Known(c) => deviceOf[c] \in Devices
BY DEF TypeOK

\* The parts are the invariant.
LEMMA Parts == IInv <=> Whole
BY DEF IInv, Whole, RestOK, QueueOK, TypeOK, QueuesAreOpenCommands

\* And so they are in the next state.
LEMMA PartsNext == Whole' => IInv'
BY Parts, PTL

\* The numbers along a sequence grow when only other elements get a new one.
LEMMA AscendingFrame ==
    ASSUME NEW s \in Seq(CommandIds), NEW f, NEW g, Ascending(s, f),
           \A c \in CommandIds : Holds(s, c) => g[c] = f[c]
    PROVE  Ascending(s, g)
<1>1. \A i \in DOMAIN s : s[i] \in CommandIds /\ Holds(s, s[i])
  BY ElementOfSeq, LenProperties DEF Holds
<1>. QED  BY <1>1 DEF Ascending

\* Filtering a queue: what stays and in which order.
LEMMA RetainQueue ==
    ASSUME NEW s \in Seq(CommandIds), NEW keep, NEW f
    PROVE  /\ Retain(s, keep) \in Seq(CommandIds)
           /\ \A c : Holds(Retain(s, keep), c) <=> Holds(s, c) /\ c \in keep
           /\ Ascending(s, f) => Ascending(Retain(s, keep), f)
<1>1. /\ Retain(s, keep) \in Seq(CommandIds)
      /\ \A k \in DOMAIN Retain(s, keep) :
            \E i \in DOMAIN s : s[i] = Retain(s, keep)[k] /\ s[i] \in keep
      /\ \A i \in DOMAIN s : s[i] \in keep => Holds(Retain(s, keep), s[i])
      /\ Ascending(s, f) => Ascending(Retain(s, keep), f)
  BY RetainOrder
<1>. DEFINE r == Retain(s, keep)
<1>. HIDE DEF r
<1>2. \A c : Holds(r, c) => Holds(s, c) /\ c \in keep
  BY <1>1 DEF Holds, r
<1>3. \A c : Holds(s, c) /\ c \in keep => Holds(r, c)
  BY <1>1 DEF Holds, r
<1>. QED  BY <1>1, <1>2, <1>3 DEF r

\* Appending a command with a larger number than any in the queue.
LEMMA AppendQueue ==
    ASSUME NEW s \in Seq(CommandIds), NEW c \in CommandIds, NEW f \in [CommandIds -> Nat],
           Ascending(s, f), \A e \in CommandIds : Holds(s, e) => f[e] < f[c]
    PROVE  /\ Append(s, c) \in Seq(CommandIds)
           /\ \A e : Holds(Append(s, c), e) <=> Holds(s, e) \/ e = c
           /\ Ascending(Append(s, c), f)
<1>. DEFINE r == Append(s, c)
<1>1. Len(s) \in Nat /\ DOMAIN s = 1..Len(s)
      /\ \A i \in DOMAIN s : s[i] \in CommandIds /\ Holds(s, s[i])
  BY ElementOfSeq, LenProperties DEF Holds
<1>2. /\ r \in Seq(CommandIds) /\ DOMAIN r = 1..(Len(s) + 1) /\ r[Len(s) + 1] = c
      /\ \A i \in 1..Len(s) : r[i] = s[i]
  BY <1>1, AppendProperties, LenProperties
<1>. HIDE DEF r
<1>3. \A e : Holds(r, e) <=> Holds(s, e) \/ e = c
  <2>1. \A e : Holds(r, e) => Holds(s, e) \/ e = c
    <3>. SUFFICES ASSUME NEW e, Holds(r, e), e # c
                  PROVE  Holds(s, e)
      OBVIOUS
    <3>1. PICK i \in DOMAIN r : r[i] = e
      BY DEF Holds
    <3>2. i # Len(s) + 1
      BY <1>2, <3>1
    <3>3. i \in 1..Len(s)
      <4>1. Len(s) \in Nat /\ i \in 1..(Len(s) + 1)
        BY <1>1, <1>2
      <4>. QED  BY <3>2, <4>1
    <3>. QED  BY <1>1, <1>2, <3>1, <3>3
  <2>2. \A e : Holds(s, e) => Holds(r, e)
    <3>. SUFFICES ASSUME NEW e, Holds(s, e)
                  PROVE  Holds(r, e)
      OBVIOUS
    <3>1. PICK i \in DOMAIN s : s[i] = e
      BY DEF Holds
    <3>2. i \in DOMAIN r /\ r[i] = e
      <4>1. Len(s) \in Nat /\ i \in 1..Len(s)
        BY <1>1, <3>1
      <4>. QED  BY <1>2, <3>1, <4>1
    <3>. QED  BY <3>2 DEF Holds
  <2>3. Len(s) + 1 \in DOMAIN r
    BY <1>1, <1>2
  <2>4. Holds(r, c)
    BY <1>2, <2>3 DEF Holds
  <2>. QED  BY <2>1, <2>2, <2>4
<1>4. Ascending(r, f)
  <2>. SUFFICES ASSUME NEW i \in 1..(Len(s) + 1), NEW j \in 1..(Len(s) + 1), i < j
                PROVE  f[r[i]] < f[r[j]]
    BY <1>2 DEF Ascending
  <2>1. i \in 1..Len(s) /\ r[i] = s[i]
    <3>1. Len(s) \in Nat
      BY <1>1
    <3>2. i \in 1..Len(s)
      BY <3>1
    <3>. QED  BY <1>2, <3>2
  <2>2. CASE j = Len(s) + 1
    <3>1. f[s[i]] < f[c]
      BY <1>1, <2>1
    <3>. QED  BY <1>2, <2>1, <2>2, <3>1
  <2>3. CASE j # Len(s) + 1
    <3>0. Len(s) \in Nat
      BY <1>1
    <3>1. j \in 1..Len(s)
      BY <2>3, <3>0
    <3>2. r[j] = s[j]
      BY <1>2, <3>1
    <3>. QED  BY <1>1, <2>1, <3>1, <3>2 DEF Ascending
  <2>. QED  BY <2>2, <2>3
<1>. QED  BY <1>2, <1>3, <1>4 DEF r

\* Appending a queue all of whose numbers are larger.
LEMMA ConcatQueue ==
    ASSUME NEW s \in Seq(CommandIds), NEW t \in Seq(CommandIds), NEW f \in [CommandIds -> Nat],
           Ascending(s, f), Ascending(t, f),
           \A d, e \in CommandIds : Holds(s, d) /\ Holds(t, e) => f[d] < f[e]
    PROVE  /\ s \o t \in Seq(CommandIds)
           /\ \A e : Holds(s \o t, e) <=> Holds(s, e) \/ Holds(t, e)
           /\ Ascending(s \o t, f)
<1>. DEFINE r == s \o t
            m == Len(s)
            n == Len(t)
<1>1. /\ m \in Nat /\ DOMAIN s = 1..m /\ n \in Nat /\ DOMAIN t = 1..n
      /\ \A i \in DOMAIN s : s[i] \in CommandIds /\ Holds(s, s[i])
      /\ \A i \in DOMAIN t : t[i] \in CommandIds /\ Holds(t, t[i])
  BY ElementOfSeq, LenProperties DEF Holds
<1>2. /\ r \in Seq(CommandIds) /\ Len(r) = m + n
      /\ \A i \in 1..(m + n) : r[i] = IF i <= m THEN s[i] ELSE t[i - m]
  BY ConcatProperties
<1>3. DOMAIN r = 1..(m + n)
  BY <1>2, LenProperties
<1>. HIDE DEF r, m, n
<1>4. \A i \in 1..m : i \in DOMAIN r /\ r[i] = s[i]
  BY <1>1, <1>2, <1>3
<1>5. \A i \in 1..n : m + i \in DOMAIN r /\ r[m + i] = t[i]
  <2>. SUFFICES ASSUME NEW i \in 1..n PROVE m + i \in DOMAIN r /\ r[m + i] = t[i]
    OBVIOUS
  <2>1. m + i \in 1..(m + n) /\ ~(m + i <= m) /\ (m + i) - m = i
    BY <1>1
  <2>. QED  BY <1>2, <1>3, <2>1
<1>6. \A i \in DOMAIN r : i \in 1..m \/ (i - m \in 1..n /\ i = m + (i - m))
  BY <1>1, <1>3
<1>7. \A e : Holds(r, e) <=> Holds(s, e) \/ Holds(t, e)
  <2>1. \A e : Holds(s, e) => Holds(r, e)
    BY <1>1, <1>4 DEF Holds
  <2>2. \A e : Holds(t, e) => Holds(r, e)
    BY <1>1, <1>5 DEF Holds
  <2>3. ASSUME NEW e, Holds(r, e)
        PROVE  Holds(s, e) \/ Holds(t, e)
    <3>1. PICK i \in DOMAIN r : r[i] = e
      BY <2>3 DEF Holds
    <3>2. CASE i \in 1..m
      BY <1>1, <1>4, <3>1, <3>2 DEF Holds
    <3>3. CASE i - m \in 1..n /\ i = m + (i - m)
      <4>1. r[i] = t[i - m]
        BY <1>5, <3>3
      <4>. QED  BY <1>1, <3>1, <3>3, <4>1 DEF Holds
    <3>. QED  BY <1>6, <3>2, <3>3
  <2>. QED  BY <2>1, <2>2, <2>3
<1>8. Ascending(r, f)
  <2>. SUFFICES ASSUME NEW i \in DOMAIN r, NEW j \in DOMAIN r, i < j
                PROVE  f[r[i]] < f[r[j]]
    BY DEF Ascending
  <2>1. CASE i \in 1..m /\ j \in 1..m
    BY <1>1, <1>4, <2>1 DEF Ascending
  <2>2. CASE i \in 1..m /\ j - m \in 1..n /\ j = m + (j - m)
    <3>1. r[i] = s[i] /\ r[j] = t[j - m]
      BY <1>4, <1>5, <2>2
    <3>. QED  BY <1>1, <2>2, <3>1
  <2>3. CASE i - m \in 1..n /\ i = m + (i - m) /\ j - m \in 1..n /\ j = m + (j - m)
    <3>1. r[i] = t[i - m] /\ r[j] = t[j - m]
      BY <1>5, <2>3
    <3>2. i - m < j - m
      BY <1>1, <1>3
    <3>. QED  BY <1>1, <2>3, <3>1, <3>2 DEF Ascending
  <2>4. ~(i \notin 1..m /\ j \in 1..m)
    BY <1>1, <1>3
  <2>. QED  BY <1>6, <2>1, <2>2, <2>3, <2>4
<1>. QED  BY <1>2, <1>7, <1>8 DEF r

-----------------------------------------------------------------------------
(* Every method keeps the invariant                                        *)

\* Nothing is known and nothing is queued.
LEMMA InitIInv == Init => IInv
<1>. SUFFICES ASSUME Init PROVE IInv
  OBVIOUS
<1>1. \A c \in CommandIds : ~Known(c) /\ ~Open(c)
  BY DEF Init, New, Known, Open, OpenStates, NoDevice
<1>2. RestOK
  BY <1>1 DEF Init, New, RestOK, SequencesUnique, NoDevice, DeviceViews
<1>3. queue = [d \in Devices |-> << >>]
  BY DEF Init, New
<1>4. \A d \in Devices : QueueOK(d)
  BY <1>1, <1>3 DEF QueueOK, Holds, Ascending
<1>. QED  BY <1>2, <1>3, <1>4, Parts DEF Whole

\* A step that leaves commands and queues alone and numbers growing.
LEMMA QuietIInv ==
    ASSUME IInv, UNCHANGED <<commands, queue>>,
           sequences' \in [Devices -> Nat],
           \A d \in Devices : sequences[d] <= sequences'[d],
           devices' \in [Devices -> DeviceViews], DOMAIN batches' = Keys
    PROVE  IInv'
<1>1. status' = status /\ deviceOf' = deviceOf /\ sequenceOf' = sequenceOf /\ queue' = queue
  BY DEF commands
<1>2. TypeOK'
  BY <1>1 DEF IInv, TypeOK, Known
<1>3. QueuesAreOpenCommands'
  BY <1>1 DEF IInv, QueuesAreOpenCommands, Open, Holds, Ascending
<1>4. SequencesUnique'
  <2>. SUFFICES ASSUME NEW c \in CommandIds, Known(c)
                PROVE  /\ sequenceOf[c] <= sequences'[deviceOf[c]]
                       /\ \A e \in CommandIds \ {c} :
                             Known(e) /\ deviceOf[e] = deviceOf[c] => sequenceOf[e] # sequenceOf[c]
    BY <1>1 DEF SequencesUnique, Known
  <2>1. deviceOf[c] \in Devices /\ sequenceOf[c] \in Nat /\ sequenceOf[c] <= sequences[deviceOf[c]]
    BY DEF IInv, TypeOK, SequencesUnique
  <2>2. sequences[deviceOf[c]] \in Nat /\ sequences'[deviceOf[c]] \in Nat
        /\ sequences[deviceOf[c]] <= sequences'[deviceOf[c]]
    BY <2>1 DEF IInv, TypeOK
  <2>3. sequenceOf[c] <= sequences'[deviceOf[c]]
    BY <2>1, <2>2
  <2>. QED  BY <2>3 DEF IInv, SequencesUnique
<1>. QED  BY <1>2, <1>3, <1>4 DEF IInv

\* A step that ends commands: each queue keeps the others, in their order.
LEMMA EndIInv ==
    ASSUME IInv, NEW gone \in SUBSET CommandIds,
           status' \in [CommandIds -> CommandStatus \cup {"absent"}],
           \A c \in gone : Known(c) /\ status'[c] \in TerminalStates,
           \A c \in CommandIds \ gone :
              (Open(c)' <=> Open(c)) /\ (Known(c)' <=> Known(c)),
           queue' = [d \in Devices |->
                        IF \E c \in gone : deviceOf[c] = d
                        THEN Retain(queue[d], CommandIds \ gone) ELSE queue[d]],
           UNCHANGED <<devices, deviceOf, sequenceOf, sequences, batches>>
    PROVE  IInv'
<1>1. deviceOf' = deviceOf /\ sequenceOf' = sequenceOf /\ sequences' = sequences
      /\ batches' = batches /\ devices' = devices
  OBVIOUS
<1>2. \A c \in gone : Known(c)' /\ ~Open(c)'
  BY DEF Known, Open, TerminalStates, OpenStates
<1>3. \A c \in CommandIds : Known(c)' <=> Known(c)
  BY <1>2
<1>4. RestOK'
  BY <1>1, <1>3, Parts DEF Whole, RestOK, SequencesUnique
<1>5. ASSUME NEW d \in Devices
      PROVE  QueueOK(d)'
  <2>1. QueueOK(d)
    BY Parts DEF Whole
  <2>2. PICK s : s = queue[d]
    OBVIOUS
  <2>3. /\ s \in Seq(CommandIds) /\ Ascending(s, sequenceOf)
        /\ \A c \in CommandIds : Holds(s, c) <=> Open(c) /\ deviceOf[c] = d
    BY <2>1, <2>2 DEF QueueOK
  <2>4. CASE \E c \in gone : deviceOf[c] = d
    <3>1. queue'[d] = Retain(s, CommandIds \ gone)
      BY <2>2, <2>4
    <3>2. /\ Retain(s, CommandIds \ gone) \in Seq(CommandIds)
          /\ \A c : Holds(Retain(s, CommandIds \ gone), c) <=> Holds(s, c) /\ c \in CommandIds \ gone
          /\ Ascending(Retain(s, CommandIds \ gone), sequenceOf)
      BY <2>3, RetainQueue
    <3>3. \A c \in CommandIds : Holds(queue'[d], c) <=> Open(c)' /\ deviceOf'[c] = d
      BY <1>1, <1>2, <2>3, <3>1, <3>2
    <3>. QED  BY <1>1, <3>1, <3>2, <3>3 DEF QueueOK
  <2>5. CASE ~ \E c \in gone : deviceOf[c] = d
    <3>1. queue'[d] = s
      BY <2>2, <2>5
    <3>2. \A c \in CommandIds : Holds(queue'[d], c) <=> Open(c)' /\ deviceOf'[c] = d
      BY <1>1, <1>2, <2>3, <2>5, <3>1
    <3>. QED  BY <1>1, <2>3, <3>1, <3>2 DEF QueueOK
  <2>. QED  BY <2>4, <2>5
<1>6. queue' = [d \in Devices |-> queue'[d]] /\ DOMAIN queue' = Devices
  OBVIOUS
<1>. QED
  <2>1. (\A d \in Devices : QueueOK(d))'
    BY <1>5
  <2>. QED  BY <1>4, <1>6, <2>1, PartsNext DEF Whole

\* Only open commands change, and never back to created.
LEMMA TransitionTable ==
    ASSUME NEW s \in CommandStatus \cup {"absent"}, s # "absent", NEW t \in StateTransitions[s]
    PROVE  s \in OpenStates /\ t \in CommandStatus /\ t # "created"
<1>1. StateTransitions[s] =
        CASE s = "created"   -> {"sent", "failed", "expired"}
          [] s = "sent"      -> {"accepted", "failed", "expired"}
          [] s = "accepted"  -> {"executing", "failed", "expired"}
          [] s = "executing" -> {"succeeded", "failed", "outcome_unknown"}
          [] OTHER           -> {}
  BY DEF StateTransitions
<1>. QED  BY <1>1 DEF CommandStatus, TerminalStates, OpenStates

\* A transition ends one command or leaves it open.
LEMMA TransitionIInv ==
    ASSUME IInv, NEW c \in CommandIds, NEW next, Transition(c, next)
    PROVE  IInv'
<1>1. /\ status \in [CommandIds -> CommandStatus \cup {"absent"}]
      /\ DOMAIN queue = Devices /\ queue = [d \in Devices |-> queue[d]]
      /\ Known(c) /\ deviceOf[c] \in Devices
  BY Parts DEF Whole, RestOK, Transition
<1>2. status[c] \in OpenStates /\ next \in CommandStatus
  BY <1>1, TransitionTable DEF Transition, Known
<1>3. /\ status' = [status EXCEPT ![c] = next]
      /\ status' \in [CommandIds -> CommandStatus \cup {"absent"}]
      /\ UNCHANGED <<devices, deviceOf, sequenceOf, sequences, batches>>
  BY <1>1, <1>2 DEF Transition
<1>4. CASE next \in TerminalStates
  <2>. DEFINE gone == {c}
  <2>1. queue' = [queue EXCEPT ![deviceOf[c]] = Retain(queue[deviceOf[c]], CommandIds \ {c})]
    BY <1>4 DEF Transition
  <2>2. queue' = [d \in Devices |-> IF \E e \in gone : deviceOf[e] = d
                                    THEN Retain(queue[d], CommandIds \ gone) ELSE queue[d]]
    BY <1>1, <2>1
  <2>3. \A e \in gone : Known(e) /\ status'[e] \in TerminalStates
    BY <1>1, <1>3, <1>4
  <2>4. \A e \in CommandIds \ gone : (Open(e)' <=> Open(e)) /\ (Known(e)' <=> Known(e))
    BY <1>1, <1>3 DEF Open, Known
  <2>5. gone \in SUBSET CommandIds
    OBVIOUS
  <2>. HIDE DEF gone
  <2>. QED  BY <1>3, <2>2, <2>3, <2>4, <2>5, EndIInv
<1>5. CASE next \notin TerminalStates
  <2>1. queue' = queue /\ next \in OpenStates
    BY <1>2, <1>5 DEF Transition, CommandStatus
  <2>. DEFINE gone == {}
  <2>2. queue' = [d \in Devices |-> IF \E e \in gone : deviceOf[e] = d
                                    THEN Retain(queue[d], CommandIds \ gone) ELSE queue[d]]
    BY <1>1, <2>1
  <2>3. \A e \in CommandIds : (Open(e)' <=> Open(e)) /\ (Known(e)' <=> Known(e))
    BY <1>1, <1>2, <1>3, <2>1 DEF Open, Known, OpenStates
  <2>4. gone \in SUBSET CommandIds
        /\ \A e \in gone : Known(e) /\ status'[e] \in TerminalStates
    OBVIOUS
  <2>. HIDE DEF gone
  <2>. QED  BY <1>3, <2>2, <2>3, <2>4, EndIInv
<1>. QED  BY <1>4, <1>5

\* What dispatchNext picks: the open command of the device with the smallest
\* number.
LEMMA FirstOpenProperties ==
    ASSUME IInv, NEW d \in Devices, OpenPlaces(d) # {}
    PROVE  /\ FirstOpen(d) \in CommandIds /\ Open(FirstOpen(d)) /\ deviceOf[FirstOpen(d)] = d
           /\ \A e \in CommandIds :
                 Open(e) /\ deviceOf[e] = d => sequenceOf[e] >= sequenceOf[FirstOpen(d)]
<1>1. QueueOK(d) /\ sequenceOf \in [CommandIds -> Nat]
  BY Parts DEF Whole, RestOK
<1>2. /\ queue[d] \in Seq(CommandIds) /\ DOMAIN queue[d] \subseteq Nat
      /\ \A i \in DOMAIN queue[d] : queue[d][i] \in CommandIds /\ Holds(queue[d], queue[d][i])
  BY <1>1, ElementOfSeq, LenProperties DEF QueueOK, Holds
<1>3. OpenPlaces(d) \in SUBSET Nat
  BY <1>2 DEF OpenPlaces
<1>4. \E i \in OpenPlaces(d) : \A j \in OpenPlaces(d) : i <= j
  BY <1>3, LeastNatural
<1>5. PICK i \in OpenPlaces(d) : /\ \A j \in OpenPlaces(d) : i <= j
                                 /\ FirstOpen(d) = queue[d][i]
  BY <1>4, Zenon DEF FirstOpen
<1>6. i \in DOMAIN queue[d] /\ Open(FirstOpen(d)) /\ FirstOpen(d) \in CommandIds
      /\ deviceOf[FirstOpen(d)] = d
  BY <1>1, <1>2, <1>5 DEF OpenPlaces, QueueOK
<1>7. ASSUME NEW e \in CommandIds, Open(e), deviceOf[e] = d
      PROVE  sequenceOf[e] >= sequenceOf[FirstOpen(d)]
  <2>1. PICK j \in DOMAIN queue[d] : queue[d][j] = e
    BY <1>1, <1>7 DEF QueueOK, Holds
  <2>2. j \in OpenPlaces(d)
    BY <1>7, <2>1 DEF OpenPlaces
  <2>3. i <= j /\ i \in Nat /\ j \in Nat
    BY <1>3, <1>5, <2>2
  <2>4. CASE i = j
    BY <1>1, <1>5, <1>7, <2>1, <2>4
  <2>5. CASE i < j
    <3>1. sequenceOf[queue[d][i]] < sequenceOf[queue[d][j]]
      BY <1>1, <1>6, <2>1, <2>5 DEF QueueOK, Ascending
    <3>2. sequenceOf[FirstOpen(d)] \in Nat /\ sequenceOf[e] \in Nat
      BY <1>1, <1>6
    <3>. QED  BY <1>5, <2>1, <3>1, <3>2
  <2>. QED  BY <2>3, <2>4, <2>5
<1>. QED  BY <1>6, <1>7

\* Expiry ends the commands it visits, on every queue.
LEMMA ExpireIInv ==
    ASSUME IInv, NEW passed \in SUBSET {c \in CommandIds : Open(c)}, Expire(passed)
    PROVE  IInv'
<1>. DEFINE gone == {c \in passed : \A e \in passed : status[e] = "executing" => Before(c, e)}
            kept == CommandIds \ gone
<1>1. /\ status' = [c \in CommandIds |-> IF c \in gone THEN "expired" ELSE status[c]]
      /\ queue' = [d \in Devices |-> Retain(queue[d], kept)]
      /\ UNCHANGED <<devices, deviceOf, sequenceOf, sequences, batches>>
  BY DEF Expire
<1>2. gone \in SUBSET CommandIds /\ \A c \in gone : Open(c)
  OBVIOUS
<1>. HIDE DEF gone
<1>3. RestOK /\ \A d \in Devices : QueueOK(d)
  BY Parts DEF Whole
<1>4. /\ deviceOf' = deviceOf /\ sequenceOf' = sequenceOf /\ sequences' = sequences
      /\ batches' = batches /\ devices' = devices
  BY <1>1
<1>5. \A c \in CommandIds : /\ Known(c)' <=> Known(c)
                            /\ Open(c)' <=> Open(c) /\ c \in kept
  BY <1>1, <1>2 DEF Known, Open, OpenStates
<1>6. status' \in [CommandIds -> CommandStatus \cup {"absent"}]
  BY <1>1, <1>3 DEF RestOK, CommandStatus, TerminalStates
<1>7. RestOK'
  BY <1>3, <1>4, <1>5, <1>6 DEF RestOK, SequencesUnique
<1>8. ASSUME NEW d \in Devices
      PROVE  QueueOK(d)'
  <2>1. PICK s : s = queue[d]
    OBVIOUS
  <2>2. /\ s \in Seq(CommandIds) /\ Ascending(s, sequenceOf)
        /\ \A c \in CommandIds : Holds(s, c) <=> Open(c) /\ deviceOf[c] = d
    BY <1>3, <2>1 DEF QueueOK
  <2>3. PICK k : k = kept
    OBVIOUS
  <2>4. queue'[d] = Retain(s, k)
    BY <1>1, <2>1, <2>3
  <2>5. /\ Retain(s, k) \in Seq(CommandIds)
        /\ \A c : Holds(Retain(s, k), c) <=> Holds(s, c) /\ c \in k
        /\ Ascending(Retain(s, k), sequenceOf)
    BY <2>2, RetainQueue
  <2>6. \A c \in CommandIds : Holds(queue'[d], c) <=> Open(c)' /\ deviceOf'[c] = d
    BY <1>4, <1>5, <2>2, <2>3, <2>4, <2>5
  <2>. QED  BY <1>4, <2>4, <2>5, <2>6 DEF QueueOK
<1>9. queue' = [d \in Devices |-> queue'[d]] /\ DOMAIN queue' = Devices
  BY <1>1
<1>. QED
  <2>1. (\A d \in Devices : QueueOK(d))'
    BY <1>8
  <2>. QED  BY <1>7, <1>9, <2>1, PartsNext DEF Whole

\* A restored command takes its place in the queue; the rows restored have
\* numbers of their own.
LEMMA RestoreIInv ==
    ASSUME IInv, NEW c \in CommandIds, NEW d \in Devices, NEW n \in Nat,
           NEW state \in CommandStatus,
           \A e \in CommandIds : Known(e) /\ deviceOf[e] = d => sequenceOf[e] # n,
           Restore(c, d, n, state)
    PROVE  IInv'
<1>1. RestOK /\ queue = [x \in Devices |-> queue[x]] /\ \A x \in Devices : QueueOK(x)
  BY Parts DEF Whole
<1>2. /\ ~Known(c)
      /\ status' = [status EXCEPT ![c] = state]
      /\ deviceOf' = [deviceOf EXCEPT ![c] = d]
      /\ sequenceOf' = [sequenceOf EXCEPT ![c] = n]
      /\ sequences' = [sequences EXCEPT ![d] = Larger(sequences[d], n)]
      /\ batches' = batches /\ devices' = devices
  BY DEF Restore
<1>3. Larger(sequences[d], n) \in Nat /\ Larger(sequences[d], n) >= n
      /\ Larger(sequences[d], n) >= sequences[d]
  BY <1>1 DEF Larger, RestOK
<1>4. /\ status' \in [CommandIds -> CommandStatus \cup {"absent"}]
      /\ deviceOf' \in [CommandIds -> Devices \cup {NoDevice}]
      /\ sequenceOf' \in [CommandIds -> Nat]
      /\ sequences' \in [Devices -> Nat]
      /\ \A x \in Devices : sequences[x] <= sequences'[x]
  BY <1>1, <1>2, <1>3 DEF RestOK
<1>5. /\ status'[c] = state /\ deviceOf'[c] = d /\ sequenceOf'[c] = n /\ Known(c)'
      /\ \A e \in CommandIds \ {c} : /\ status'[e] = status[e] /\ deviceOf'[e] = deviceOf[e]
                                     /\ sequenceOf'[e] = sequenceOf[e]
                                     /\ (Known(e)' <=> Known(e)) /\ (Open(e)' <=> Open(e))
  BY <1>1, <1>2 DEF RestOK, Known, Open, CommandStatus, TerminalStates, OpenStates
<1>6. SequencesUnique'
  <2>. SUFFICES ASSUME NEW e \in CommandIds, Known(e)'
                PROVE  /\ sequenceOf'[e] <= sequences'[deviceOf'[e]]
                       /\ \A f \in CommandIds \ {e} :
                             Known(f)' /\ deviceOf'[f] = deviceOf'[e]
                                => sequenceOf'[f] # sequenceOf'[e]
    BY DEF SequencesUnique
  <2>1. CASE e = c
    <3>1. sequences'[d] = Larger(sequences[d], n)
      BY <1>1, <1>2 DEF RestOK
    <3>. QED  BY <1>3, <1>5, <2>1, <3>1
  <2>2. CASE e # c
    <3>1. Known(e) /\ deviceOf[e] \in Devices /\ sequenceOf[e] \in Nat
          /\ sequenceOf[e] <= sequences[deviceOf[e]]
          /\ \A f \in CommandIds \ {e} :
                Known(f) /\ deviceOf[f] = deviceOf[e] => sequenceOf[f] # sequenceOf[e]
      BY <1>1, <1>5, <2>2 DEF RestOK, SequencesUnique
    <3>2. sequences[deviceOf[e]] \in Nat /\ sequences'[deviceOf[e]] \in Nat
          /\ sequences[deviceOf[e]] <= sequences'[deviceOf[e]]
      BY <1>1, <1>4, <3>1 DEF RestOK
    <3>3. sequenceOf'[e] <= sequences'[deviceOf'[e]]
      BY <1>5, <2>2, <3>1, <3>2
    <3>4. \A f \in CommandIds \ {e} : Known(f)' /\ deviceOf'[f] = deviceOf'[e]
                                          => sequenceOf'[f] # sequenceOf'[e]
      BY <1>5, <2>2, <3>1
    <3>. QED  BY <3>3, <3>4
  <2>. QED  BY <2>1, <2>2
<1>7. RestOK'
  <2>1. \A e \in CommandIds : Known(e)' => deviceOf'[e] \in Devices
    BY <1>1, <1>5 DEF RestOK
  <2>. QED  BY <1>1, <1>2, <1>4, <1>6, <2>1 DEF RestOK
<1>8. ASSUME NEW x \in Devices, ~(x = d /\ state \in OpenStates)
      PROVE  QueueOK(x)'
  <2>1. PICK s : s = queue[x]
    OBVIOUS
  <2>2. queue'[x] = s
    BY <1>1, <1>8, <2>1 DEF Restore, CommandStatus
  <2>3. /\ s \in Seq(CommandIds) /\ Ascending(s, sequenceOf)
        /\ \A e \in CommandIds : Holds(s, e) <=> Open(e) /\ deviceOf[e] = x
    BY <1>1, <2>1 DEF QueueOK
  <2>4. ~Open(c)
    BY <1>2 DEF Known, Open, OpenStates
  <2>5. Open(c)' => state \in OpenStates
    BY <1>5 DEF Open
  <2>6. \A e \in CommandIds : Holds(s, e) <=> Open(e)' /\ deviceOf'[e] = x
    BY <1>5, <1>8, <2>3, <2>4, <2>5
  <2>7. \A e \in CommandIds : Holds(s, e) => sequenceOf'[e] = sequenceOf[e]
    BY <1>5, <2>3, <2>4
  <2>8. Ascending(s, sequenceOf')
    <3>1. PICK g : g = sequenceOf'
      OBVIOUS
    <3>. QED  BY <2>3, <2>7, <3>1, AscendingFrame
  <2>. QED  BY <2>2, <2>3, <2>6, <2>8 DEF QueueOK
<1>9. ASSUME state \in OpenStates
      PROVE  QueueOK(d)'
  <2>0. PICK s, g : s = queue[d] /\ g = sequenceOf'
    OBVIOUS
  <2>. DEFINE below == {e \in CommandIds : sequenceOf[e] < n}
              above == {e \in CommandIds : sequenceOf[e] > n}
  <2>1. PICK lo, hi : lo = Retain(s, below) /\ hi = Retain(s, above)
    OBVIOUS
  <2>2. state \notin TerminalStates
    BY <1>9 DEF OpenStates, TerminalStates
  <2>3. queue'[d] = lo \o <<c>> \o hi
    BY <1>1, <2>0, <2>1, <2>2 DEF Restore
  <2>4. /\ s \in Seq(CommandIds) /\ Ascending(s, sequenceOf)
        /\ \A e \in CommandIds : Holds(s, e) <=> Open(e) /\ deviceOf[e] = d
    BY <1>1, <2>0 DEF QueueOK
  <2>5. ~Open(c) /\ Open(c)' /\ g[c] = n /\ g \in [CommandIds -> Nat]
        /\ \A e \in CommandIds : Open(e) => Known(e)
    BY <1>2, <1>4, <1>5, <1>9, <2>0 DEF Known, Open, OpenStates
  <2>6. Ascending(s, g)
    <3>1. \A e \in CommandIds : Holds(s, e) => g[e] = sequenceOf[e]
      BY <1>5, <2>0, <2>4, <2>5
    <3>. QED  BY <2>4, <3>1, AscendingFrame
  <2>7. /\ lo \in Seq(CommandIds) /\ Ascending(lo, g)
        /\ \A e : Holds(lo, e) <=> Holds(s, e) /\ e \in below
    <3>1. PICK k : k = below
      OBVIOUS
    <3>. QED  BY <2>1, <2>4, <2>6, <3>1, RetainQueue
  <2>8. /\ hi \in Seq(CommandIds) /\ Ascending(hi, g)
        /\ \A e : Holds(hi, e) <=> Holds(s, e) /\ e \in above
    <3>1. PICK k : k = above
      OBVIOUS
    <3>. QED  BY <2>1, <2>4, <2>6, <3>1, RetainQueue
  <2>9. /\ \A e \in CommandIds : Holds(lo, e) => g[e] < n
        /\ \A e \in CommandIds : Holds(hi, e) => g[e] > n
    <3>1. \A e \in CommandIds : Holds(s, e) => g[e] = sequenceOf[e]
      BY <1>5, <2>0, <2>4, <2>5
    <3>. QED  BY <2>7, <2>8, <3>1
  <2>10. /\ <<c>> \in Seq(CommandIds) /\ Ascending(<<c>>, g)
         /\ \A e : Holds(<<c>>, e) <=> e = c
    <3>1. <<c>> \in Seq(CommandIds)
      OBVIOUS
    <3>2. DOMAIN <<c>> = {1} /\ <<c>>[1] = c
      OBVIOUS
    <3>. QED  BY <3>1, <3>2 DEF Ascending, Holds
  <2>11. PICK t : t = lo \o <<c>>
    OBVIOUS
  <2>12. /\ t \in Seq(CommandIds) /\ Ascending(t, g)
         /\ \A e : Holds(t, e) <=> Holds(lo, e) \/ e = c
    <3>1. \A x, e \in CommandIds : Holds(lo, x) /\ Holds(<<c>>, e) => g[x] < g[e]
      BY <2>5, <2>9, <2>10
    <3>. QED  BY <2>5, <2>7, <2>10, <2>11, <3>1, ConcatQueue
  <2>13. /\ t \o hi \in Seq(CommandIds) /\ Ascending(t \o hi, g)
         /\ \A e : Holds(t \o hi, e) <=> Holds(lo, e) \/ e = c \/ Holds(hi, e)
    <3>1. \A x, e \in CommandIds : Holds(t, x) /\ Holds(hi, e) => g[x] < g[e]
      <4>. SUFFICES ASSUME NEW x \in CommandIds, NEW e \in CommandIds, Holds(t, x), Holds(hi, e)
                    PROVE  g[x] < g[e]
        OBVIOUS
      <4>1. g[x] <= n /\ n < g[e] /\ g[x] \in Nat /\ g[e] \in Nat
        BY <2>5, <2>9, <2>12
      <4>. QED  BY <4>1
    <3>. QED  BY <2>5, <2>8, <2>12, <3>1, ConcatQueue
  <2>14. \A e \in CommandIds : Holds(s, e) => e \in below \/ e \in above
    <3>1. ASSUME NEW e \in CommandIds, Holds(s, e)
          PROVE  sequenceOf[e] # n /\ sequenceOf[e] \in Nat
      BY <1>1, <2>4, <2>5, <3>1 DEF RestOK
    <3>. QED  BY <3>1
  <2>15. \A e \in CommandIds : Holds(queue'[d], e) <=> Open(e)' /\ deviceOf'[e] = d
    <3>1. \A e \in CommandIds : Holds(t \o hi, e) <=> Holds(s, e) \/ e = c
      BY <2>7, <2>8, <2>13, <2>14
    <3>. QED  BY <1>5, <2>3, <2>4, <2>5, <2>11, <3>1
  <2>. QED  BY <2>0, <2>3, <2>11, <2>13, <2>15 DEF QueueOK
<1>10. queue' = [x \in Devices |-> queue'[x]] /\ DOMAIN queue' = Devices
  BY <1>1 DEF Restore
<1>. QED
  <2>1. (\A x \in Devices : QueueOK(x))'
    BY <1>8, <1>9
  <2>. QED  BY <1>7, <1>10, <2>1, PartsNext DEF Whole

\* New commands are appended with numbers above all the earlier ones of their
\* device, also when the request is refused half way.
LEMMA CreateIInv ==
    ASSUME IInv, NEW view \in [Devices -> DeviceViews], NEW k \in Keys,
           NEW request \in Requests, Create(view, k, request), devices' = view
    PROVE  /\ IInv'
           /\ \A c \in CommandIds :
                 \/ /\ status'[c] = status[c] /\ deviceOf'[c] = deviceOf[c]
                    /\ sequenceOf'[c] = sequenceOf[c]
                 \/ /\ ~Known(c) /\ status'[c] = "created"
                    /\ deviceOf'[c] \in request.targets
                    /\ sequenceOf'[c] = sequences[deviceOf'[c]] + 1
<1>1. RestOK /\ queue = [d \in Devices |-> queue[d]] /\ \A d \in Devices : QueueOK(d)
  BY Parts DEF Whole
<1>. DEFINE Q == Queued(view, request)
<1>3. Q \subseteq request.targets /\ Q \subseteq Devices /\ Q \subseteq Numbered(view, request)
  BY DEF Queued, Numbered, Reached, Requests
<1>. DEFINE Effect(new) ==
       LET made == {new[d] : d \in Q}
           Target(c) == CHOOSE d \in Q : new[d] = c
       IN  /\ status' = [c \in CommandIds |-> IF c \in made THEN "created" ELSE status[c]]
           /\ deviceOf' = [c \in CommandIds |-> IF c \in made THEN Target(c) ELSE deviceOf[c]]
           /\ sequenceOf' = [c \in CommandIds |->
                 IF c \in made THEN sequences[Target(c)] + 1 ELSE sequenceOf[c]]
           /\ queue' = [d \in Devices |-> IF d \in Q THEN Append(queue[d], new[d]) ELSE queue[d]]
<1>4. PICK new \in [Q -> {c \in CommandIds : ~Known(c)}] :
         /\ \A d, e \in Q : new[d] = new[e] => d = e
         /\ Effect(new)
  BY Zenon DEF Create, NewIds
<1>. HIDE DEF Q
<1>5. /\ sequences' = [d \in Devices |->
            IF d \in Numbered(view, request) THEN sequences[d] + 1 ELSE sequences[d]]
      /\ DOMAIN batches' = Keys
      /\ devices' = view
  BY <1>1 DEF Create, RestOK
<1>6. /\ sequences' \in [Devices -> Nat]
      /\ \A d \in Devices : sequences[d] <= sequences'[d]
      /\ \A d \in Q : sequences'[d] = sequences[d] + 1
  BY <1>1, <1>3, <1>5 DEF RestOK
<1>. DEFINE made == {new[d] : d \in Q}
<1>7. \A d \in Q : (CHOOSE e \in Q : new[e] = new[d]) = d
  BY <1>4
<1>8. /\ \A d \in Q : /\ new[d] \in CommandIds /\ ~Known(new[d])
                      /\ status'[new[d]] = "created"
                      /\ deviceOf'[new[d]] = d
                      /\ sequenceOf'[new[d]] = sequences[d] + 1
      /\ \A c \in CommandIds : (\A d \in Q : new[d] # c) =>
            status'[c] = status[c] /\ deviceOf'[c] = deviceOf[c] /\ sequenceOf'[c] = sequenceOf[c]
      /\ queue' = [d \in Devices |-> IF d \in Q THEN Append(queue[d], new[d]) ELSE queue[d]]
      /\ DOMAIN status' = CommandIds /\ status' = [c \in CommandIds |-> status'[c]]
      /\ DOMAIN deviceOf' = CommandIds /\ deviceOf' = [c \in CommandIds |-> deviceOf'[c]]
      /\ DOMAIN sequenceOf' = CommandIds /\ sequenceOf' = [c \in CommandIds |-> sequenceOf'[c]]
  BY <1>4, <1>7
<1>. HIDE DEF Effect, made
<1>9. ASSUME NEW c \in CommandIds, \A d \in Q : new[d] # c
      PROVE  (Known(c)' <=> Known(c)) /\ (Open(c)' <=> Open(c))
  BY <1>8, <1>9 DEF Known, Open
<1>10. ASSUME NEW d \in Q
       PROVE  Known(new[d])' /\ Open(new[d])' /\ ~Open(new[d])
  BY <1>8 DEF Known, Open, OpenStates
<1>11. /\ status' \in [CommandIds -> CommandStatus \cup {"absent"}]
       /\ deviceOf' \in [CommandIds -> Devices \cup {NoDevice}]
       /\ sequenceOf' \in [CommandIds -> Nat]
  <2>1. ASSUME NEW c \in CommandIds
        PROVE  /\ status'[c] \in CommandStatus \cup {"absent"}
               /\ deviceOf'[c] \in Devices \cup {NoDevice}
               /\ sequenceOf'[c] \in Nat
    <3>1. CASE \A d \in Q : new[d] # c
      BY <1>1, <1>8, <3>1 DEF RestOK
    <3>2. CASE \E d \in Q : new[d] = c
      <4>1. PICK d \in Q : new[d] = c
        BY <3>2
      <4>. QED  BY <1>1, <1>3, <1>8, <4>1 DEF RestOK, CommandStatus, OpenStates
    <3>. QED  BY <3>1, <3>2
  <2>. QED  BY <1>8, <2>1
<1>12. \A c \in CommandIds : Known(c)' => deviceOf'[c] \in Devices
  <2>. SUFFICES ASSUME NEW c \in CommandIds, Known(c)'
                PROVE  deviceOf'[c] \in Devices
    OBVIOUS
  <2>1. CASE \A d \in Q : new[d] # c
    <3>1. Known(c) /\ deviceOf'[c] = deviceOf[c]
      BY <1>8, <1>9, <2>1
    <3>. QED  BY <1>1, <3>1 DEF RestOK
  <2>2. CASE \E d \in Q : new[d] = c
    BY <1>3, <1>8, <2>2
  <2>. QED  BY <2>1, <2>2
<1>13. SequencesUnique'
  <2>. SUFFICES ASSUME NEW c \in CommandIds, Known(c)'
                PROVE  /\ sequenceOf'[c] <= sequences'[deviceOf'[c]]
                       /\ \A e \in CommandIds \ {c} :
                             Known(e)' /\ deviceOf'[e] = deviceOf'[c]
                                => sequenceOf'[e] # sequenceOf'[c]
    BY DEF SequencesUnique
  <2>1. ASSUME NEW e \in CommandIds, Known(e)', \A d \in Q : new[d] # e
        PROVE  /\ Known(e) /\ deviceOf'[e] = deviceOf[e] /\ deviceOf[e] \in Devices
               /\ sequenceOf'[e] = sequenceOf[e] /\ sequenceOf[e] \in Nat
               /\ sequences[deviceOf[e]] \in Nat /\ sequences'[deviceOf[e]] \in Nat
               /\ sequenceOf[e] <= sequences[deviceOf[e]]
               /\ sequences[deviceOf[e]] <= sequences'[deviceOf[e]]
    <3>1. Known(e) /\ deviceOf'[e] = deviceOf[e] /\ sequenceOf'[e] = sequenceOf[e]
      BY <1>8, <1>9, <2>1
    <3>2. deviceOf[e] \in Devices /\ sequenceOf[e] \in Nat
          /\ sequenceOf[e] <= sequences[deviceOf[e]] /\ sequences \in [Devices -> Nat]
      BY <1>1, <3>1 DEF RestOK, SequencesUnique
    <3>. QED  BY <1>6, <3>1, <3>2
  <2>2. CASE \A d \in Q : new[d] # c
    <3>1. sequenceOf'[c] <= sequences'[deviceOf'[c]]
      BY <2>1, <2>2
    <3>2. ASSUME NEW e \in CommandIds \ {c}, Known(e)', deviceOf'[e] = deviceOf'[c]
          PROVE  sequenceOf'[e] # sequenceOf'[c]
      <4>1. CASE \A d \in Q : new[d] # e
        BY <1>1, <2>1, <2>2, <3>2, <4>1 DEF RestOK, SequencesUnique
      <4>2. CASE \E d \in Q : new[d] = e
        <5>1. PICK d \in Q : new[d] = e
          BY <4>2
        <5>2. sequenceOf'[e] = sequences[d] + 1 /\ deviceOf'[e] = d
          BY <1>8, <5>1
        <5>3. sequenceOf'[c] <= sequences[d] /\ sequences[d] \in Nat /\ sequenceOf'[c] \in Nat
          BY <2>1, <2>2, <3>2, <5>2
        <5>. QED  BY <5>2, <5>3
      <4>. QED  BY <4>1, <4>2
    <3>. QED  BY <3>1, <3>2
  <2>3. CASE \E d \in Q : new[d] = c
    <3>1. PICK d \in Q : new[d] = c
      BY <2>3
    <3>2. sequenceOf'[c] = sequences[d] + 1 /\ deviceOf'[c] = d /\ sequences[d] \in Nat
          /\ sequences'[d] = sequences[d] + 1
      BY <1>1, <1>3, <1>6, <1>8, <3>1 DEF RestOK
    <3>3. ASSUME NEW e \in CommandIds \ {c}, Known(e)', deviceOf'[e] = deviceOf'[c]
          PROVE  sequenceOf'[e] # sequenceOf'[c]
      <4>1. \A x \in Q : new[x] # e
        BY <1>8, <3>1, <3>2, <3>3
      <4>2. sequenceOf'[e] <= sequences[d] /\ sequenceOf'[e] \in Nat
        BY <2>1, <3>2, <3>3, <4>1
      <4>. QED  BY <3>2, <4>2
    <3>. QED  BY <3>2, <3>3
  <2>. QED  BY <2>2, <2>3
<1>14. RestOK'
  BY <1>1, <1>5, <1>6, <1>11, <1>12, <1>13 DEF RestOK
<1>15. ASSUME NEW d \in Devices
       PROVE  QueueOK(d)'
  <2>1. PICK s, g : s = queue[d] /\ g = sequenceOf'
    OBVIOUS
  <2>2. /\ s \in Seq(CommandIds) /\ Ascending(s, sequenceOf)
        /\ \A c \in CommandIds : Holds(s, c) <=> Open(c) /\ deviceOf[c] = d
    BY <1>1, <2>1 DEF QueueOK
  <2>3. \A c \in CommandIds : Holds(s, c) => (\A x \in Q : new[x] # c)
    BY <1>10, <2>2
  <2>4. \A c \in CommandIds : Holds(s, c) => g[c] = sequenceOf[c]
    BY <1>8, <2>1, <2>3
  <2>5. Ascending(s, g)
    BY <2>2, <2>4, AscendingFrame
  <2>6. CASE d \notin Q
    <3>1. queue'[d] = s
      BY <1>8, <2>1, <2>6
    <3>2. ASSUME NEW c \in CommandIds
          PROVE  Holds(s, c) <=> Open(c)' /\ deviceOf'[c] = d
      <4>1. CASE \A x \in Q : new[x] # c
        BY <1>8, <1>9, <2>2, <4>1
      <4>2. CASE \E x \in Q : new[x] = c
        BY <1>8, <2>3, <2>6, <4>2
      <4>. QED  BY <4>1, <4>2
    <3>. QED  BY <2>1, <2>2, <2>5, <3>1, <3>2 DEF QueueOK
  <2>7. CASE d \in Q
    <3>1. queue'[d] = Append(s, new[d]) /\ new[d] \in CommandIds
      BY <1>8, <2>1, <2>7
    <3>2. ASSUME NEW e \in CommandIds, Holds(s, e)
          PROVE  g[e] < g[new[d]]
      <4>1. Known(e) /\ deviceOf[e] = d
        BY <2>2, <3>2 DEF Known, Open, OpenStates
      <4>2. sequenceOf[e] <= sequences[d] /\ sequenceOf[e] \in Nat /\ sequences[d] \in Nat
        BY <1>1, <4>1 DEF RestOK, SequencesUnique
      <4>3. g[e] = sequenceOf[e] /\ g[new[d]] = sequences[d] + 1
        BY <1>8, <2>1, <2>4, <2>7, <3>2
      <4>. QED  BY <4>2, <4>3
    <3>3. g \in [CommandIds -> Nat]
      BY <1>11, <2>1
    <3>4. /\ Append(s, new[d]) \in Seq(CommandIds)
          /\ \A e : Holds(Append(s, new[d]), e) <=> Holds(s, e) \/ e = new[d]
          /\ Ascending(Append(s, new[d]), g)
      BY <2>2, <2>5, <3>1, <3>2, <3>3, AppendQueue
    <3>5. ASSUME NEW c \in CommandIds
          PROVE  Holds(queue'[d], c) <=> Open(c)' /\ deviceOf'[c] = d
      <4>1. CASE \A x \in Q : new[x] # c
        <5>1. c # new[d]
          BY <2>7, <4>1
        <5>2. Holds(queue'[d], c) <=> Holds(s, c)
          BY <3>1, <3>4, <5>1
        <5>3. (Open(c)' <=> Open(c)) /\ deviceOf'[c] = deviceOf[c]
          BY <1>8, <1>9, <4>1
        <5>. QED  BY <2>2, <5>2, <5>3
      <4>2. CASE \E x \in Q : new[x] = c
        <5>1. PICK x \in Q : new[x] = c
          BY <4>2
        <5>2. ~Holds(s, c) /\ Open(c)' /\ deviceOf'[c] = x
          BY <1>8, <1>10, <2>3, <5>1
        <5>. QED  BY <1>4, <2>7, <3>1, <3>4, <5>1, <5>2
      <4>. QED  BY <4>1, <4>2
    <3>. QED  BY <2>1, <3>1, <3>4, <3>5 DEF QueueOK
  <2>. QED  BY <2>6, <2>7
<1>16. ASSUME NEW c \in CommandIds
       PROVE  \/ /\ status'[c] = status[c] /\ deviceOf'[c] = deviceOf[c]
                 /\ sequenceOf'[c] = sequenceOf[c]
              \/ /\ ~Known(c) /\ status'[c] = "created" /\ deviceOf'[c] \in request.targets
                 /\ sequenceOf'[c] = sequences[deviceOf'[c]] + 1
  <2>1. CASE \A d \in Q : new[d] # c
    BY <1>8, <2>1
  <2>2. CASE \E d \in Q : new[d] = c
    BY <1>3, <1>8, <2>2
  <2>. QED  BY <2>1, <2>2
<1>17. queue' = [d \in Devices |-> queue'[d]] /\ DOMAIN queue' = Devices
  BY <1>8
<1>. QED
  <2>1. (\A d \in Devices : QueueOK(d))'
    BY <1>15
  <2>2. IInv'
    BY <1>14, <1>17, <2>1, PartsNext DEF Whole
  <2>. QED  BY <1>16, <2>2

\* So they are with what the coordinator knows of the devices.
LEMMA CreateBatchIInv ==
    ASSUME IInv, NEW k \in Keys, NEW request \in Requests, CreateBatch(k, request)
    PROVE  IInv'
<1>1. devices \in [Devices -> DeviceViews] /\ Create(devices, k, request) /\ devices' = devices
  BY DEF CreateBatch, IInv, TypeOK
<1>. QED  BY <1>1, CreateIInv

-----------------------------------------------------------------------------
(* The theorems                                                            *)

\* Every method keeps the invariant, and so does calling none.
LEMMA NextIInv == IInv /\ [Next]_coordinator => IInv'
<1>. SUFFICES ASSUME IInv, [Next]_coordinator PROVE IInv'
  OBVIOUS
<1>0. TypeOK
  BY DEF IInv
<1>1. CASE \E d \in Devices, isOnline \in BOOLEAN, types \in SUBSET CommandTypes :
              UpsertDevice(d, isOnline, types)
  <2>1. UNCHANGED <<commands, queue>> /\ sequences' = sequences /\ batches' = batches
        /\ devices' \in [Devices -> DeviceViews]
    BY <1>0, <1>1 DEF UpsertDevice, TypeOK, DeviceViews
  <2>2. sequences' \in [Devices -> Nat] /\ (\A d \in Devices : sequences[d] <= sequences'[d])
        /\ DOMAIN batches' = Keys
    BY <1>0, <2>1 DEF TypeOK
  <2>. QED  BY <2>1, <2>2, QuietIInv
<1>2. CASE \E k \in Keys, request \in Requests : CreateBatch(k, request)
  BY <1>2, CreateBatchIInv
<1>3. ASSUME UNCHANGED coordinator
      PROVE  IInv'
  <2>1. UNCHANGED <<commands, queue>> /\ sequences' = sequences /\ batches' = batches
        /\ devices' = devices
    BY <1>3 DEF coordinator
  <2>. QED  BY <1>0, <2>1, QuietIInv DEF TypeOK
<1>4. CASE \E d \in Devices : DispatchNext(d)
  <2>1. PICK d \in Devices : DispatchNext(d)
    BY <1>4
  <2>2. FirstOpen(d) \in CommandIds
    BY <2>1, FirstOpenProperties DEF DispatchNext
  <2>. QED  BY <1>3, <2>1, <2>2, TransitionIInv DEF DispatchNext
<1>5. CASE \E d \in Devices, c \in CommandIds, result \in AgentStatus :
              HandleAgentResult(d, c, result)
  BY <1>3, <1>5, TransitionIInv DEF HandleAgentResult
<1>6. CASE \E passed \in SUBSET {c \in CommandIds : Open(c)} : Expire(passed)
  BY <1>6, ExpireIInv
<1>7. CASE \E c \in CommandIds, d \in Devices, n \in SafeIntegers \ {0}, state \in CommandStatus :
              /\ \A e \in CommandIds : Known(e) /\ deviceOf[e] = d => sequenceOf[e] # n
              /\ Restore(c, d, n, state)
  BY <1>7, RestoreIInv, SafeIntegersAssumption
<1>8. CASE \E d \in Devices, n \in SafeIntegers : RestoreDeviceSequence(d, n)
  <2>1. PICK d \in Devices, n \in SafeIntegers : RestoreDeviceSequence(d, n)
    BY <1>8
  <2>2. sequences' = [sequences EXCEPT ![d] = Larger(sequences[d], n)]
        /\ UNCHANGED <<commands, queue>> /\ batches' = batches
        /\ devices' = devices
    BY <2>1 DEF RestoreDeviceSequence
  <2>3. Larger(sequences[d], n) \in Nat /\ sequences[d] <= Larger(sequences[d], n)
    BY <1>0, SafeIntegersAssumption DEF TypeOK, Larger
  <2>4. sequences' \in [Devices -> Nat] /\ \A x \in Devices : sequences[x] <= sequences'[x]
    BY <1>0, <2>2, <2>3 DEF TypeOK
  <2>. QED  BY <1>0, <2>2, <2>4, QuietIInv DEF TypeOK
<1>. QED  BY <1>1, <1>2, <1>3, <1>4, <1>5, <1>6, <1>7, <1>8 DEF Next

\* The invariant holds in every reachable state.
LEMMA Invariance == Spec => []IInv
BY InitIInv, NextIInv, PTL DEF Spec

\* Every reachable state of the coordinator is well typed.
THEOREM TypeCorrect == Spec => []TypeOK
<1>1. IInv => TypeOK
  BY DEF IInv
<1>. QED  BY Invariance, <1>1, PTL

\* Whatever methods are called, a device's queue lists exactly its open
\* commands, in sequence order.
THEOREM FifoQueues == Spec => []QueuesAreOpenCommands
<1>1. IInv => QueuesAreOpenCommands
  BY DEF IInv
<1>. QED  BY Invariance, <1>1, PTL

\* Whatever is created and restored, no two commands of a device share a
\* sequence number.
THEOREM NoNumberTwice == Spec => []SequencesUnique
<1>1. IInv => SequencesUnique
  BY DEF IInv
<1>. QED  BY Invariance, <1>1, PTL

\* dispatchNext never sends a command before an earlier open one.
THEOREM DispatchInOrder == Spec => SentInOrder
<1>1. ASSUME IInv, [Next]_coordinator, NEW c \in CommandIds,
             status[c] = "created", status'[c] = "sent",
             NEW e \in CommandIds, Open(e), deviceOf[e] = deviceOf[c]
      PROVE  sequenceOf[e] >= sequenceOf[c]
  <2>0. TypeOK
    BY <1>1 DEF IInv
  <2>1. ASSUME NEW x \in CommandIds, NEW next, next # "sent", Transition(x, next)
        PROVE  FALSE
    BY <1>1, <2>0, <2>1 DEF Transition, TypeOK
  <2>2. ASSUME NEW d \in Devices, DispatchNext(d)
        PROVE  sequenceOf[e] >= sequenceOf[c]
    <3>1. /\ FirstOpen(d) \in CommandIds /\ deviceOf[FirstOpen(d)] = d
          /\ \A x \in CommandIds :
                Open(x) /\ deviceOf[x] = d => sequenceOf[x] >= sequenceOf[FirstOpen(d)]
      BY <1>1, <2>2, FirstOpenProperties DEF DispatchNext
    <3>2. status' = status \/ status' = [status EXCEPT ![FirstOpen(d)] = "sent"]
      BY <2>2 DEF DispatchNext, Transition, coordinator, commands
    <3>3. c = FirstOpen(d)
      BY <1>1, <2>0, <3>2 DEF TypeOK
    <3>. QED  BY <1>1, <3>1, <3>3
  <2>3. ASSUME status' = status
        PROVE  FALSE
    BY <1>1, <2>3
  <2>4. ASSUME NEW d \in Devices, NEW x \in CommandIds, NEW result \in AgentStatus,
               HandleAgentResult(d, x, result)
        PROVE  FALSE
    BY <2>1, <2>3, <2>4 DEF HandleAgentResult, AgentStatus, coordinator, commands
  <2>5. ASSUME NEW k \in Keys, NEW request \in Requests, CreateBatch(k, request)
        PROVE  FALSE
    <3>1. status'[c] = "created" \/ status'[c] = status[c]
      BY <2>5 DEF CreateBatch, Create
    <3>. QED  BY <1>1, <3>1
  <2>6. ASSUME NEW passed \in SUBSET {x \in CommandIds : Open(x)}, Expire(passed)
        PROVE  FALSE
    <3>1. status'[c] = "expired" \/ status'[c] = status[c]
      BY <2>6 DEF Expire
    <3>. QED  BY <1>1, <3>1
  <2>7. ASSUME NEW x \in CommandIds, NEW d, NEW n, NEW state, Restore(x, d, n, state)
        PROVE  FALSE
    BY <1>1, <2>0, <2>7 DEF Restore, Known, TypeOK
  <2>. QED  BY <1>1, <2>2, <2>3, <2>4, <2>5, <2>6, <2>7
            DEF Next, UpsertDevice, RestoreDeviceSequence, coordinator, commands
<1>2. IInv /\ [Next]_coordinator =>
        [\A c \in CommandIds : status[c] = "created" /\ status'[c] = "sent" =>
            \A e \in CommandIds :
                Open(e) /\ deviceOf[e] = deviceOf[c] => sequenceOf[e] >= sequenceOf[c]]_coordinator
  BY <1>1
<1>. QED  BY Invariance, <1>2, PTL DEF Spec, SentInOrder
-----------------------------------------------------------------------------
(* The runtime: what a task, the rows and the memory know of each other    *)

Refusals == {"unsupported", "device_offline"}
IsBatch(b) ==
    /\ b.request \in Requests
    /\ b.numbers \in [b.request.targets -> Nat]
    /\ b.commands \in [b.request.targets -> CommandIds \cup Refusals]

\* The steps of a request with a key, and those with a command.
Requesting == {"find", "list", "save", "loop", "conflict"}
Writing == {"update", "write", "written"}

Calls == [step : {"idle", "connected"} \cup Requesting \cup Writing,
          key : Keys \cup {None}, request : Requests \cup {None}, rest : SUBSET Devices,
          command : CommandIds \cup {None}, read : CommandStatus \cup {"absent"},
          purpose : {"none", "send", "fail", "result"}]

RuntimeTypeOK ==
    /\ late \subseteq CommandIds
    /\ connected \subseteq Devices
    /\ task \in [Tasks -> Calls]
    /\ saved \in [CommandIds -> CommandStatus \cup {"absent"}]
    /\ DOMAIN savedBatches = Keys
    /\ keyOf \in [CommandIds -> Keys \cup {None}]
    /\ DOMAIN answered = Keys

\* The command has this row.
RowOf(k, d, c) ==
    /\ savedBatches[k] # NoBatch
    /\ d \in savedBatches[k].request.targets
    /\ savedBatches[k].commands[d] = c

\* A batch in memory is one of its commands' own, with their numbers.
BatchesOK ==
    \A k \in Keys : batches[k] # NoBatch =>
        /\ IsBatch(batches[k])
        /\ savedBatches[k] # NoBatch => savedBatches[k] = batches[k]
        /\ \A d \in batches[k].request.targets :
              /\ batches[k].numbers[d] <= sequences[d]
              /\ batches[k].commands[d] \in CommandIds =>
                    /\ Known(batches[k].commands[d])
                    /\ keyOf[batches[k].commands[d]] = k
                    /\ deviceOf[batches[k].commands[d]] = d
                    /\ sequenceOf[batches[k].commands[d]] = batches[k].numbers[d]

\* The rows of a batch are its key's alone, with numbers no other row of the
\* device has.
RowsOK ==
    /\ \A k \in Keys : savedBatches[k] # NoBatch => IsBatch(savedBatches[k])
    /\ \A k \in Keys, d \in Devices, c \in CommandIds : RowOf(k, d, c) =>
          /\ keyOf[c] = k /\ saved[c] # "absent"
          /\ \A e \in Devices : RowOf(k, e, c) => e = d
    /\ \A j, k \in Keys : j # k /\ savedBatches[j] # NoBatch /\ savedBatches[k] # NoBatch =>
          \A d \in savedBatches[j].request.targets \cap savedBatches[k].request.targets :
              savedBatches[j].numbers[d] # savedBatches[k].numbers[d]

\* A command is created for a key; one with a row has it as memory has it.
CommandsOK ==
    /\ \A c \in CommandIds : Known(c) => keyOf[c] \in Keys
    /\ \A c \in CommandIds : saved[c] # "absent" =>
          keyOf[c] \in Keys /\ \E d \in Devices : RowOf(keyOf[c], d, c)
    /\ \A c \in CommandIds : Known(c) /\ saved[c] # "absent" =>
          /\ RowOf(keyOf[c], deviceOf[c], c)
          /\ savedBatches[keyOf[c]].numbers[deviceOf[c]] = sequenceOf[c]

\* What a call in progress has read is still so, or memory knows better.
CallOK(x) ==
    /\ x.step \in Requesting => x.key \in Keys /\ x.request \in Requests
    /\ x.step = "list" => savedBatches[x.key] = NoBatch \/ batches[x.key] # NoBatch
    /\ x.step = "save" => batches[x.key] # NoBatch
    /\ x.step = "loop" \/ (x.step \in Writing /\ x.key # None) =>
          /\ x.key \in Keys /\ x.request \in Requests
          /\ batches[x.key] # NoBatch /\ savedBatches[x.key] # NoBatch
    /\ x.step \in Writing => x.command \in CommandIds /\ Known(x.command)
    /\ x.step = "write" => x.read \in CommandStatus
    /\ x.step = "written" => saved[x.command] # "absent"

TasksOK == \A t \in Tasks : CallOK(task[t])

\* How far the restart is: nothing, rows only, all open rows and numbers; and
\* who waits for it.
Restored == server \notin {"down", "restoring"}
PhaseOK ==
    /\ server # "ready" => \A t \in Tasks : task[t].step \in {"idle", "connected"}
    /\ server = "down" => \A c \in CommandIds : ~Known(c)
    /\ server = "restoring" => \A c \in CommandIds : Known(c) => saved[c] # "absent"
    /\ \A c \in late : Known(c) /\ saved[c] # "absent"
    /\ Restored => SequencesRestored
    /\ Restored => \A c \in CommandIds : saved[c] \in OpenStates => Known(c)

\* What was sent and answered has rows.
DoneOK ==
    /\ \A x \in delivered :
          /\ x = <<x[1], x[2]>> /\ x[1] \in Devices /\ x[2] \in CommandIds
          /\ keyOf[x[2]] \in Keys /\ RowOf(keyOf[x[2]], x[1], x[2])
    /\ \A k \in Keys : \A b \in answered[k] : savedBatches[k] # NoBatch /\ b = savedBatches[k]

RuntimeInv == /\ IInv /\ RuntimeTypeOK /\ BatchesOK /\ RowsOK /\ CommandsOK /\ TasksOK
              /\ PhaseOK /\ DoneOK

-----------------------------------------------------------------------------
(* Steps that keep commands, batches and rows                              *)

\* Commands, batches and rows are the same ones: only their status changes,
\* and numbers may have grown.
Kept ==
    /\ UNCHANGED <<deviceOf, sequenceOf, batches, savedBatches, keyOf>>
    /\ \A d \in Devices : sequences[d] <= sequences'[d]
    /\ \A c \in CommandIds : /\ Known(c)' <=> Known(c)
                             /\ saved'[c] = "absent" <=> saved[c] = "absent"

\* A batch, a row and a command go on as they were.
LEMMA KeptRows ==
    ASSUME IInv, IInv', BatchesOK, RowsOK, CommandsOK, Kept
    PROVE  BatchesOK' /\ RowsOK' /\ CommandsOK'
<1>1. /\ deviceOf' = deviceOf /\ sequenceOf' = sequenceOf /\ batches' = batches
      /\ savedBatches' = savedBatches /\ keyOf' = keyOf
      /\ \A c \in CommandIds : /\ Known(c)' <=> Known(c)
                               /\ saved'[c] = "absent" <=> saved[c] = "absent"
  BY DEF Kept
<1>2. \A k, d, c : RowOf(k, d, c)' <=> RowOf(k, d, c)
  BY <1>1 DEF RowOf
<1>3. \A k \in Keys : IsBatch(batches[k])' <=> IsBatch(batches[k])
  BY <1>1 DEF IsBatch
<1>4. \A k \in Keys : IsBatch(savedBatches[k])' <=> IsBatch(savedBatches[k])
  BY <1>1 DEF IsBatch
<1>5. BatchesOK'
  <2>. SUFFICES ASSUME NEW k \in Keys, batches[k] # NoBatch
                PROVE  /\ IsBatch(batches[k])'
                       /\ savedBatches[k] # NoBatch => savedBatches[k] = batches[k]
                       /\ \A d \in batches[k].request.targets :
                             /\ batches[k].numbers[d] <= sequences'[d]
                             /\ batches[k].commands[d] \in CommandIds =>
                                   /\ Known(batches[k].commands[d])'
                                   /\ keyOf[batches[k].commands[d]] = k
                                   /\ deviceOf[batches[k].commands[d]] = d
                                   /\ sequenceOf[batches[k].commands[d]] = batches[k].numbers[d]
    BY <1>1 DEF BatchesOK, Known
  <2>1. IsBatch(batches[k])
    BY DEF BatchesOK
  <2>2. ASSUME NEW d \in batches[k].request.targets
        PROVE  batches[k].numbers[d] <= sequences'[d]
    <3>1. d \in Devices /\ batches[k].numbers[d] \in Nat
      BY <2>1 DEF IsBatch, Requests
    <3>2. batches[k].numbers[d] <= sequences[d]
      BY DEF BatchesOK
    <3>3. sequences[d] <= sequences'[d]
      BY <3>1 DEF Kept
    <3>4. sequences[d] \in Nat /\ sequences'[d] \in Nat
      BY <3>1 DEF IInv, TypeOK
    <3>. QED  BY <3>1, <3>2, <3>3, <3>4
  <2>3. \A c \in CommandIds : Known(c) => Known(c)'
    BY <1>1
  <2>4. IsBatch(batches[k])'
    BY <1>3, <2>1
  <2>5. ASSUME NEW d \in batches[k].request.targets, batches[k].commands[d] \in CommandIds
        PROVE  Known(batches[k].commands[d]) => status'[batches[k].commands[d]] # "absent"
    BY <2>3, <2>5 DEF Known
  <2>. QED  BY <1>1, <2>2, <2>4, <2>5 DEF BatchesOK, Known
<1>6. RowsOK'
  BY <1>1, <1>2, <1>4 DEF RowsOK
<1>7. CommandsOK'
  BY <1>1, <1>2 DEF CommandsOK
<1>. QED  BY <1>5, <1>6, <1>7

\* What a call knows of the memory and the rows stays true.
LEMMA CallsLast ==
    ASSUME NEW x, CallOK(x), Kept
    PROVE  CallOK(x)'
<1>1. /\ batches' = batches /\ savedBatches' = savedBatches
      /\ \A c \in CommandIds : /\ status'[c] = "absent" <=> status[c] = "absent"
                               /\ saved'[c] = "absent" <=> saved[c] = "absent"
  BY DEF Kept, Known
<1>. QED  BY <1>1 DEF CallOK, Known, Writing

\* A call that is over needs nothing.
LEMMA IdleCall == Idle \in Calls /\ CallOK(Idle) /\ CallOK(Idle)'
BY DEF Idle, Calls, CallOK, Requesting, Writing

\* The coordinator as a whole: a status changed, commands ended, or nothing.
Moves ==
    /\ IInv'
    /\ UNCHANGED <<deviceOf, sequenceOf, sequences, batches>>
    /\ \A c \in CommandIds : Known(c)' <=> Known(c)

\* Nothing of it.
LEMMA Unmoved ==
    ASSUME IInv, UNCHANGED coordinator
    PROVE  Moves
<1>1. IInv'
  BY NextIInv
<1>. QED  BY <1>1 DEF Moves, coordinator, commands, Known

\* A status changes.
LEMMA TransitionMoves ==
    ASSUME IInv, NEW c \in CommandIds, NEW next, Transition(c, next)
    PROVE  Moves
<1>1. IInv'
  BY TransitionIInv
<1>2. UNCHANGED <<deviceOf, sequenceOf, sequences, batches>>
      /\ status' = [status EXCEPT ![c] = next] /\ Known(c)
  BY DEF Transition
<1>3. next # "absent"
  <2>1. status[c] \in CommandStatus \cup {"absent"} /\ next \in StateTransitions[status[c]]
    BY DEF Transition, IInv, TypeOK
  <2>2. next \in CommandStatus
    BY <1>2, <2>1, TransitionTable DEF Known
  <2>. QED  BY <2>2 DEF CommandStatus, TerminalStates, OpenStates
<1>4. status \in [CommandIds -> CommandStatus \cup {"absent"}]
  BY DEF IInv, TypeOK
<1>. QED  BY <1>1, <1>2, <1>3, <1>4 DEF Moves, Known

\* Commands expire.
LEMMA ExpireMoves ==
    ASSUME IInv, NEW passed \in SUBSET {c \in CommandIds : Open(c)}, Expire(passed)
    PROVE  Moves
<1>1. IInv'
  BY ExpireIInv
<1>2. UNCHANGED <<deviceOf, sequenceOf, sequences, batches>>
  BY DEF Expire
<1>3. \A c \in CommandIds :
         status'[c] = status[c] \/ (status'[c] = "expired" /\ c \in passed)
  BY DEF Expire
<1>4. \A c \in passed : Known(c)
  BY DEF Open, OpenStates, Known
<1>5. \A c \in CommandIds : Known(c)' <=> Known(c)
  BY <1>3, <1>4 DEF Known
<1>. QED  BY <1>1, <1>2, <1>5 DEF Moves

\* What a request that is dispatching goes on with: its next step, or the end.
LEMMA GoOnCall ==
    ASSUME NEW x \in Calls,
           x.key # None => /\ x.key \in Keys /\ x.request \in Requests
                           /\ batches[x.key] # NoBatch /\ savedBatches[x.key] # NoBatch
    PROVE  GoOn(x) \in Calls /\ CallOK(GoOn(x))
<1>1. CASE x.key = None
  BY <1>1, IdleCall DEF GoOn
<1>2. CASE x.key # None
  <2>1. GoOn(x) = [x EXCEPT !.step = "loop", !.command = None, !.read = "absent", !.purpose = "none"]
    BY <1>2 DEF GoOn
  <2>2. GoOn(x) \in Calls
    BY <2>1 DEF Calls, Requesting, CommandStatus
  <2>3. GoOn(x).step = "loop" /\ GoOn(x).key = x.key /\ GoOn(x).request = x.request
    BY <2>1 DEF Calls
  <2>. QED  BY <1>2, <2>2, <2>3 DEF CallOK, Requesting, Writing
<1>. QED  BY <1>1, <1>2

\* Numbers that were restored stay so.
LEMMA SequencesLast ==
    ASSUME RuntimeInv, IInv', Kept, SequencesRestored
    PROVE  SequencesRestored'
<1>1. /\ savedBatches' = savedBatches
      /\ \A d \in Devices : sequences[d] <= sequences'[d]
  BY DEF Kept
<1>. SUFFICES ASSUME NEW d \in Devices, NEW n \in Numbers(d)
              PROVE  n <= sequences'[d]
  BY <1>1 DEF SequencesRestored, Numbers
<1>2. n \in Nat
  BY DEF Numbers, RuntimeInv, RowsOK, IsBatch
<1>3. n <= sequences[d] /\ sequences[d] <= sequences'[d]
  BY <1>1 DEF SequencesRestored
<1>4. sequences[d] \in Nat /\ sequences'[d] \in Nat
  BY DEF RuntimeInv, IInv, TypeOK
<1>. QED  BY <1>2, <1>3, <1>4

\* Tasks take steps in which the commands, batches and rows are kept.
LEMMA KeptInv ==
    ASSUME RuntimeInv, IInv', Kept,
           late' \subseteq CommandIds, connected' \subseteq Devices,
           saved' \in [CommandIds -> CommandStatus \cup {"absent"}],
           task' \in [Tasks -> Calls], \A t \in Tasks : CallOK(task'[t]),
           DOMAIN answered' = Keys, DoneOK', PhaseOK'
    PROVE  RuntimeInv'
<1>1. /\ IInv /\ RuntimeTypeOK /\ BatchesOK /\ RowsOK /\ CommandsOK
      /\ savedBatches' = savedBatches /\ keyOf' = keyOf
  BY DEF RuntimeInv, Kept
<1>2. BatchesOK' /\ RowsOK' /\ CommandsOK'
  BY <1>1, KeptRows
<1>3. RuntimeTypeOK'
  BY <1>1 DEF RuntimeTypeOK
<1>4. TasksOK'
  <2>1. \A y : CallOK(y) => CallOK(y)'
    BY CallsLast
  <2>2. ASSUME NEW t \in Tasks
        PROVE  CallOK(task[t])'
    <3>1. PICK y : y = task'[t]
      OBVIOUS
    <3>2. CallOK(y)'
      BY <2>1, <3>1
    <3>. QED  BY <3>1, <3>2 DEF CallOK
  <2>. QED  BY <2>2 DEF TasksOK
<1>. QED  BY <1>2, <1>3, <1>4 DEF RuntimeInv

\* A task takes a step, and the restart does not go on.
LEMMA QuietStep ==
    ASSUME RuntimeInv, IInv', Kept, server' = server, late' = late,
           connected' \subseteq Devices,
           saved' \in [CommandIds -> CommandStatus \cup {"absent"}],
           \A c \in CommandIds : saved'[c] \in OpenStates => saved[c] \in OpenStates \/ Known(c),
           NEW t \in Tasks, NEW x \in Calls, CallOK(x),
           server = "ready" \/ x.step \in {"idle", "connected"},
           task' = [task EXCEPT ![t] = x],
           DOMAIN answered' = Keys, DoneOK'
    PROVE  RuntimeInv'
<1>1. PhaseOK /\ TasksOK /\ task \in [Tasks -> Calls] /\ late \subseteq CommandIds
  BY DEF RuntimeInv, RuntimeTypeOK
<1>2. \A c \in CommandIds : /\ Known(c)' <=> Known(c)
                            /\ saved'[c] = "absent" <=> saved[c] = "absent"
  BY DEF Kept
<1>3. task' \in [Tasks -> Calls] /\ \A u \in Tasks : task'[u] = x \/ task'[u] = task[u]
  BY <1>1
<1>4. \A u \in Tasks : CallOK(task'[u])
  BY <1>1, <1>3 DEF TasksOK
<1>5. server # "ready" => \A u \in Tasks : task'[u].step \in {"idle", "connected"}
  BY <1>1, <1>3 DEF PhaseOK
<1>6. SequencesRestored => SequencesRestored'
  BY SequencesLast
<1>7. PhaseOK'
  BY <1>1, <1>2, <1>5, <1>6 DEF PhaseOK, Restored
<1>. QED  BY <1>1, <1>3, <1>4, <1>7, KeptInv

\* What was sent and answered stays so.
LEMMA DoneLasts ==
    ASSUME DoneOK, UNCHANGED <<savedBatches, keyOf, delivered, answered>>
    PROVE  DoneOK'
BY DEF DoneOK, RowOf

\* The same while the coordinator moves and the rows stand still.
LEMMA CallStep ==
    ASSUME RuntimeInv, Moves, UNCHANGED <<rows, keyOf, server, late>>,
           connected' \subseteq Devices,
           NEW t \in Tasks, NEW x \in Calls, CallOK(x),
           server = "ready" \/ x.step \in {"idle", "connected"},
           task' = [task EXCEPT ![t] = x],
           DOMAIN answered' = Keys, DoneOK'
    PROVE  RuntimeInv'
<1>1. IInv' /\ UNCHANGED <<deviceOf, sequenceOf, sequences, batches>>
      /\ \A c \in CommandIds : Known(c)' <=> Known(c)
  BY DEF Moves
<1>2. saved' = saved /\ savedBatches' = savedBatches
  BY DEF rows
<1>3. saved \in [CommandIds -> CommandStatus \cup {"absent"}] /\ IInv
  BY DEF RuntimeInv, RuntimeTypeOK
<1>4. \A d \in Devices : sequences[d] <= sequences'[d]
  BY <1>1, <1>3 DEF IInv, TypeOK
<1>5. Kept
  BY <1>1, <1>2, <1>4 DEF Kept
<1>. QED  BY <1>1, <1>2, <1>3, <1>5, QuietStep

\* #dispatch moves the coordinator, and the call goes on with the head or
\* with nothing.
LEMMA DispatchStep ==
    ASSUME RuntimeInv, NEW t \in Tasks, NEW d \in Devices, NEW x \in Calls, Dispatch(t, d, x),
           x.key # None => /\ x.key \in Keys /\ x.request \in Requests
                           /\ batches[x.key] # NoBatch /\ savedBatches[x.key] # NoBatch
    PROVE  Moves /\ \E y \in Calls : CallOK(y) /\ task' = [task EXCEPT ![t] = y]
<1>0. IInv
  BY DEF RuntimeInv
<1>1. CASE OpenPlaces(d) = {}
  <2>1. UNCHANGED coordinator /\ task' = [task EXCEPT ![t] = GoOn(x)]
    BY <1>1 DEF Dispatch, Set
  <2>2. GoOn(x) \in Calls /\ CallOK(GoOn(x))
    BY GoOnCall
  <2>. QED  BY <1>0, <2>1, <2>2, Unmoved
<1>2. CASE OpenPlaces(d) # {}
  <2>. DEFINE y == [x EXCEPT !.step = "update", !.purpose = "send", !.command = FirstOpen(d)]
  <2>1. DispatchNext(d) /\ task' = [task EXCEPT ![t] = y]
    BY <1>2 DEF Dispatch, Set
  <2>2. FirstOpen(d) \in CommandIds /\ Known(FirstOpen(d))
    BY <1>0, <1>2, FirstOpenProperties DEF Open, OpenStates, Known
  <2>3. y \in Calls
    BY <2>2 DEF Calls, Writing
  <2>4. /\ y.step = "update" /\ y.command = FirstOpen(d)
        /\ y.key = x.key /\ y.request = x.request
    BY DEF Calls
  <2>. HIDE DEF y
  <2>5. CallOK(y)
    BY <2>2, <2>4 DEF CallOK, Requesting, Writing
  <2>6. Moves
    BY <1>0, <2>1, <2>2, Unmoved, TransitionMoves DEF DispatchNext
  <2>. QED  BY <2>1, <2>3, <2>5, <2>6
<1>. QED  BY <1>1, <1>2

\* The facts of a call in progress.
LEMMA CallFacts ==
    ASSUME RuntimeInv, NEW t \in Tasks
    PROVE  /\ task[t] \in Calls /\ CallOK(task[t]) /\ IInv
           /\ task[t].step \notin {"idle", "connected"} => server = "ready"
           /\ DOMAIN answered = Keys /\ connected \subseteq Devices /\ DoneOK
BY DEF RuntimeInv, RuntimeTypeOK, TasksOK, PhaseOK

\* createBatch is called.
LEMMA CallCreateBatchKeeps ==
    ASSUME RuntimeInv, NEW t \in Tasks, NEW k \in Keys, NEW request \in Requests,
           CallCreateBatch(t, k, request)
    PROVE  RuntimeInv'
<1>1. PICK x : x = [Idle EXCEPT !.step = "find", !.key = k, !.request = request]
  OBVIOUS
<1>2. x \in Calls /\ x.step = "find" /\ x.key = k /\ x.request = request
  BY <1>1, IdleCall DEF Calls, Requesting, Idle
<1>3. CallOK(x)
  BY <1>2 DEF CallOK, Writing
<1>4. /\ UNCHANGED <<coordinator, server, late, connected, rows, history>>
      /\ task' = [task EXCEPT ![t] = x] /\ server = "ready"
  BY <1>1 DEF CallCreateBatch, Set
<1>5. UNCHANGED <<keyOf, delivered, answered, savedBatches>>
  BY <1>4 DEF history, rows
<1>. QED  BY <1>2, <1>3, <1>4, <1>5, CallFacts, Unmoved, DoneLasts, CallStep

\* findBatch is answered: the rows of the key are the answer, or there are none.
LEMMA FindBatchKeeps ==
    ASSUME RuntimeInv, NEW t \in Tasks, FindBatch(t)
    PROVE  RuntimeInv'
<1>. DEFINE call == task[t]
<1>1. /\ UNCHANGED <<coordinator, server, late, connected, rows, keyOf, delivered>>
      /\ call.step = "find" /\ call \in Calls /\ CallOK(call) /\ server = "ready"
      /\ IInv /\ connected \subseteq Devices /\ DOMAIN answered = Keys /\ DoneOK
  BY CallFacts DEF FindBatch
<1>2. savedBatches' = savedBatches
  BY <1>1 DEF rows
<1>3. call.key \in Keys /\ call.request \in Requests
  BY <1>1 DEF CallOK, Requesting
<1>4. CASE savedBatches[call.key] = NoBatch /\ Set(t, [call EXCEPT !.step = "list"])
           /\ UNCHANGED answered
  <2>1. PICK x : x = [call EXCEPT !.step = "list"]
    OBVIOUS
  <2>2. x \in Calls /\ x.step = "list" /\ x.key = call.key /\ x.request = call.request
    BY <1>1, <2>1 DEF Calls, Requesting
  <2>3. CallOK(x)
    BY <1>3, <1>4, <2>2 DEF CallOK, Writing
  <2>4. DoneOK'
    BY <1>1, <1>2, <1>4, DoneLasts
  <2>. QED  BY <1>1, <1>4, <2>1, <2>2, <2>3, <2>4, Unmoved, CallStep DEF Set
<1>5. CASE Set(t, [call EXCEPT !.step = "conflict"]) /\ UNCHANGED answered
  <2>1. PICK x : x = [call EXCEPT !.step = "conflict"]
    OBVIOUS
  <2>2. x \in Calls /\ x.step = "conflict" /\ x.key = call.key /\ x.request = call.request
    BY <1>1, <2>1 DEF Calls, Requesting
  <2>3. CallOK(x)
    BY <1>3, <2>2 DEF CallOK, Writing
  <2>4. DoneOK'
    BY <1>1, <1>2, <1>5, DoneLasts
  <2>. QED  BY <1>1, <1>5, <2>1, <2>2, <2>3, <2>4, Unmoved, CallStep DEF Set
<1>6. CASE End(t) /\ UNCHANGED answered
  <2>1. DoneOK'
    BY <1>1, <1>2, <1>6, DoneLasts
  <2>. QED  BY <1>1, <1>6, <2>1, IdleCall, Unmoved, CallStep DEF End, Set
<1>7. CASE End(t) /\ savedBatches[call.key] # NoBatch /\ Answer(call.key, savedBatches[call.key])
  <2>1. answered' = [answered EXCEPT ![call.key] = @ \cup {savedBatches[call.key]}]
    BY <1>7 DEF Answer
  <2>2. DoneOK'
    BY <1>1, <1>2, <1>7, <2>1 DEF DoneOK, RowOf
  <2>3. DOMAIN answered' = Keys
    BY <1>1, <2>1
  <2>. QED  BY <1>1, <1>7, <2>2, <2>3, IdleCall, Unmoved, CallStep DEF End, Set
<1>. QED  BY <1>4, <1>5, <1>6, <1>7 DEF FindBatch

\* The batch is in memory already, or the devices cannot be listed: what the
\* coordinator is told of the devices changes, and no command.
LEMMA ListedMoves ==
    ASSUME RuntimeInv, devices' = Listed,
           UNCHANGED <<status, deviceOf, sequenceOf, queue, sequences, batches>>
    PROVE  Moves
<1>1. IInv /\ connected \subseteq Devices
  BY DEF RuntimeInv, RuntimeTypeOK
<1>2. Listed \in [Devices -> DeviceViews]
  BY <1>1 DEF Listed, DeviceViews, IInv, TypeOK
<1>3. sequences \in [Devices -> Nat] /\ DOMAIN batches = Keys
  BY <1>1 DEF IInv, TypeOK
<1>4. IInv'
  BY <1>1, <1>2, <1>3, QuietIInv DEF commands
<1>. QED  BY <1>4 DEF Moves, Known

\* The step after createBatch found the batch in memory.
LEMMA KeyUsedKeeps ==
    ASSUME RuntimeInv, NEW t \in Tasks, task[t].step = "list", devices' = Listed,
           KeyUsed(task[t].key),
           NEW next \in {"save", "conflict"}, Set(t, [task[t] EXCEPT !.step = next]),
           UNCHANGED <<status, deviceOf, sequenceOf, queue, sequences, batches, keyOf>>,
           UNCHANGED <<server, late, connected, rows, delivered, answered>>
    PROVE  RuntimeInv'
<1>1. PICK x : x = [task[t] EXCEPT !.step = next]
  OBVIOUS
<1>2. /\ task[t] \in Calls /\ CallOK(task[t]) /\ server = "ready"
      /\ DOMAIN answered = Keys /\ connected \subseteq Devices /\ DoneOK
  BY CallFacts
<1>3. x \in Calls /\ x.step = next /\ x.key = task[t].key /\ x.request = task[t].request
  BY <1>1, <1>2 DEF Calls, Requesting
<1>4. CallOK(x)
  BY <1>2, <1>3 DEF CallOK, Requesting, Writing, KeyUsed
<1>5. Moves
  BY ListedMoves
<1>6. DoneOK'
  BY <1>2, DoneLasts DEF rows
<1>. QED  BY <1>1, <1>2, <1>3, <1>4, <1>5, <1>6, CallStep DEF Set

\* A call ends, or fails, and nothing else happens.
LEMMA EndKeeps ==
    ASSUME RuntimeInv, NEW t \in Tasks, End(t),
           UNCHANGED <<coordinator, server, late, connected, rows, history>>
    PROVE  RuntimeInv'
<1>1. UNCHANGED <<keyOf, delivered, answered, savedBatches>>
  BY DEF history, rows
<1>2. IInv /\ DOMAIN answered = Keys /\ connected \subseteq Devices /\ DoneOK
  BY CallFacts
<1>3. DoneOK' /\ Moves
  BY <1>1, <1>2, DoneLasts, Unmoved
<1>4. /\ task' = [task EXCEPT ![t] = Idle] /\ Idle \in Calls /\ CallOK(Idle)
      /\ Idle.step \in {"idle", "connected"}
  BY IdleCall DEF End, Set, Idle
<1>5. UNCHANGED <<rows, keyOf, server, late>> /\ connected' \subseteq Devices
      /\ DOMAIN answered' = Keys
  BY <1>1, <1>2
<1>. QED  BY <1>3, <1>4, <1>5, CallStep

\* The next of the created commands is dispatched, or the request is answered
\* with the batch, which is the one that was saved.
LEMMA LoopKeeps ==
    ASSUME RuntimeInv, NEW t \in Tasks, Loop(t)
    PROVE  RuntimeInv'
<1>. DEFINE call == task[t]
<1>1. /\ UNCHANGED <<server, late, connected, rows, keyOf, delivered>>
      /\ call.step = "loop" /\ call \in Calls /\ CallOK(call) /\ server = "ready"
      /\ IInv /\ connected \subseteq Devices /\ DOMAIN answered = Keys /\ DoneOK
  BY CallFacts DEF Loop
<1>2. savedBatches' = savedBatches
  BY <1>1 DEF rows
<1>3. /\ call.key \in Keys /\ call.request \in Requests
      /\ batches[call.key] # NoBatch /\ savedBatches[call.key] # NoBatch
  BY <1>1 DEF CallOK
<1>4. CASE Answer(call.key, batches[call.key]) /\ End(t) /\ UNCHANGED coordinator
  <2>1. answered' = [answered EXCEPT ![call.key] = @ \cup {batches[call.key]}]
    BY <1>4 DEF Answer
  <2>2. batches[call.key] = savedBatches[call.key]
    BY <1>3 DEF RuntimeInv, BatchesOK
  <2>3. DoneOK'
    BY <1>1, <1>2, <1>3, <2>1, <2>2 DEF DoneOK, RowOf
  <2>4. DOMAIN answered' = Keys
    BY <1>1, <2>1
  <2>. QED  BY <1>1, <1>4, <2>3, <2>4, IdleCall, Unmoved, CallStep DEF End, Set
<1>5. CASE \E d \in Waiting(call) :
              /\ Dispatch(t, d, [call EXCEPT !.rest = {e \in call.rest : e > d}])
              /\ UNCHANGED answered
  <2>1. PICK d \in Waiting(call) :
              /\ Dispatch(t, d, [call EXCEPT !.rest = {e \in call.rest : e > d}])
              /\ UNCHANGED answered
    BY <1>5
  <2>2. PICK x : x = [call EXCEPT !.rest = {e \in call.rest : e > d}]
    OBVIOUS
  <2>3. d \in Devices /\ {e \in call.rest : e > d} \subseteq Devices
    BY <1>1 DEF Waiting, Calls
  <2>4. x \in Calls /\ x.key = call.key /\ x.request = call.request
    BY <1>1, <2>2, <2>3 DEF Calls
  <2>5. Dispatch(t, d, x)
    BY <2>1, <2>2
  <2>6. Moves /\ \E y \in Calls : CallOK(y) /\ task' = [task EXCEPT ![t] = y]
    BY <1>3, <2>3, <2>4, <2>5, DispatchStep
  <2>7. DoneOK'
    BY <1>1, <1>2, <2>1, DoneLasts
  <2>. QED  BY <1>1, <2>1, <2>6, <2>7, CallStep
<1>. QED  BY <1>4, <1>5 DEF Loop

\* The UPDATE leaves with the present status, or there is no connection.
LEMMA UpdateKeeps ==
    ASSUME RuntimeInv, NEW t \in Tasks, Update(t)
    PROVE  RuntimeInv'
<1>. DEFINE call == task[t]
<1>1. /\ UNCHANGED <<coordinator, server, late, connected, rows, history>>
      /\ call.step = "update" /\ call \in Calls /\ CallOK(call) /\ server = "ready"
      /\ IInv /\ connected \subseteq Devices /\ DOMAIN answered = Keys /\ DoneOK
  BY CallFacts DEF Update
<1>2. CASE End(t)
  BY <1>1, <1>2, EndKeeps
<1>3. CASE Set(t, [call EXCEPT !.step = "write", !.read = status[call.command]])
  <2>1. PICK x : x = [call EXCEPT !.step = "write", !.read = status[call.command]]
    OBVIOUS
  <2>2. status[call.command] \in CommandStatus
    BY <1>1 DEF CallOK, Writing, Known, IInv, TypeOK
  <2>3. /\ x \in Calls /\ x.step = "write" /\ x.key = call.key /\ x.request = call.request
        /\ x.command = call.command /\ x.read = status[call.command]
    BY <1>1, <2>1, <2>2 DEF Calls, Writing
  <2>4. CallOK(x)
    BY <1>1, <2>2, <2>3 DEF CallOK, Writing, Requesting
  <2>5. DoneOK'
    BY <1>1, DoneLasts DEF history, rows
  <2>6. UNCHANGED <<keyOf, answered>>
    BY <1>1 DEF history
  <2>. QED  BY <1>1, <1>3, <2>1, <2>3, <2>4, <2>5, <2>6, Unmoved, CallStep DEF Set
<1>. QED  BY <1>2, <1>3 DEF Update

\* updateCommand writes the status it left with, into a row that is there;
\* or it fails, with or without effect.
LEMMA WriteKeeps ==
    ASSUME RuntimeInv, NEW t \in Tasks, Write(t)
    PROVE  RuntimeInv'
<1>. DEFINE call == task[t]
<1>1. /\ UNCHANGED <<coordinator, server, late, connected, history>>
      /\ call.step = "write" /\ call \in Calls /\ CallOK(call) /\ server = "ready"
      /\ IInv /\ connected \subseteq Devices /\ DOMAIN answered = Keys /\ DoneOK
  BY CallFacts DEF Write
<1>2. UNCHANGED <<keyOf, delivered, answered>>
  BY <1>1 DEF history
<1>3. CASE End(t) /\ UNCHANGED rows
  BY <1>1, <1>3, EndKeeps
<1>4. ASSUME saved[call.command] # "absent",
             saved' = [saved EXCEPT ![call.command] = call.read], UNCHANGED savedBatches,
             NEW x \in Calls, CallOK(x), task' = [task EXCEPT ![t] = x]
      PROVE  RuntimeInv'
  <2>1. /\ call.command \in CommandIds /\ Known(call.command)
        /\ call.read \in CommandStatus /\ call.read # "absent"
    BY <1>1 DEF CallOK, Writing, CommandStatus, TerminalStates, OpenStates
  <2>2. saved \in [CommandIds -> CommandStatus \cup {"absent"}]
    BY DEF RuntimeInv, RuntimeTypeOK
  <2>3. /\ saved' \in [CommandIds -> CommandStatus \cup {"absent"}]
        /\ \A c \in CommandIds : saved'[c] = "absent" <=> saved[c] = "absent"
        /\ \A c \in CommandIds : saved'[c] \in OpenStates => saved[c] \in OpenStates \/ Known(c)
    BY <1>4, <2>1, <2>2
  <2>4. Moves
    BY <1>1, Unmoved
  <2>5. Kept /\ IInv'
    <3>1. \A d \in Devices : sequences'[d] = sequences[d] /\ sequences[d] \in Nat
      BY <1>1, <2>4 DEF Moves, IInv, TypeOK
    <3>2. UNCHANGED <<deviceOf, sequenceOf, batches, savedBatches, keyOf>>
          /\ (\A c \in CommandIds : Known(c)' <=> Known(c)) /\ IInv'
      BY <1>2, <1>4, <2>4 DEF Moves
    <3>3. \A d \in Devices : sequences[d] <= sequences'[d]
      BY <3>1
    <3>. QED  BY <2>3, <3>2, <3>3 DEF Kept
  <2>6. DoneOK'
    BY <1>1, <1>2, <1>4, DoneLasts
  <2>7. /\ server' = server /\ late' = late /\ connected' \subseteq Devices
        /\ DOMAIN answered' = Keys
    BY <1>1, <1>2
  <2>. QED  BY <1>1, <1>4, <2>3, <2>5, <2>6, <2>7, QuietStep
<1>5. CASE /\ saved[call.command] # "absent"
           /\ saved' = [saved EXCEPT ![call.command] = call.read]
           /\ UNCHANGED savedBatches
           /\ Set(t, [call EXCEPT !.step = "written", !.read = "absent"])
  <2>1. PICK x : x = [call EXCEPT !.step = "written", !.read = "absent"]
    OBVIOUS
  <2>2. /\ x \in Calls /\ x.step = "written" /\ x.key = call.key /\ x.request = call.request
        /\ x.command = call.command
    BY <1>1, <2>1 DEF Calls, Writing
  <2>3. CallOK(x)
    BY <1>1, <1>5, <2>2 DEF CallOK, Writing, Requesting
  <2>. QED  BY <1>4, <1>5, <2>1, <2>2, <2>3 DEF Set
<1>6. CASE /\ saved[call.command] # "absent"
           /\ saved' = [saved EXCEPT ![call.command] = call.read]
           /\ UNCHANGED savedBatches
           /\ End(t)
  BY <1>4, <1>6, IdleCall DEF End, Set
<1>. QED  BY <1>3, <1>5, <1>6 DEF Write

\* A command that is sent has its row: a failed one does too, for what it may
\* be written as next.
LEMMA SendKeeps ==
    ASSUME RuntimeInv, NEW t \in Tasks, Send(t)
    PROVE  RuntimeInv'
<1>. DEFINE call == task[t]
            c == call.command
<1>1. /\ UNCHANGED <<server, late, connected, rows, keyOf, answered>>
      /\ call.step = "written" /\ call \in Calls /\ CallOK(call) /\ server = "ready"
      /\ IInv /\ connected \subseteq Devices /\ DOMAIN answered = Keys /\ DoneOK
  BY CallFacts DEF Send
<1>2. savedBatches' = savedBatches
  BY <1>1 DEF rows
<1>3. /\ c \in CommandIds /\ Known(c) /\ saved[c] # "absent"
      /\ call.key # None => /\ call.key \in Keys /\ call.request \in Requests
                            /\ batches[call.key] # NoBatch /\ savedBatches[call.key] # NoBatch
  BY <1>1 DEF CallOK, Writing
<1>4. ASSUME delivered' = delivered, Moves,
             Set(t, [call EXCEPT !.step = "update", !.purpose = "fail"])
      PROVE  RuntimeInv'
  <2>1. PICK x : x = [call EXCEPT !.step = "update", !.purpose = "fail"]
    OBVIOUS
  <2>2. /\ x \in Calls /\ x.step = "update" /\ x.key = call.key /\ x.request = call.request
        /\ x.command = call.command
    BY <1>1, <2>1 DEF Calls, Writing
  <2>3. CallOK(x)
    BY <1>3, <2>2 DEF CallOK, Writing, Requesting
  <2>4. DoneOK'
    BY <1>1, <1>2, <1>4, DoneLasts
  <2>. QED  BY <1>1, <1>4, <2>1, <2>2, <2>3, <2>4, CallStep DEF Set
<1>5. CASE /\ deviceOf[c] \in connected
           /\ delivered' = delivered \cup {<<deviceOf[c], c>>}
           /\ Set(t, GoOn(call))
           /\ UNCHANGED coordinator
  <2>1. PICK x : x = GoOn(call)
    OBVIOUS
  <2>2. x \in Calls /\ CallOK(x)
    BY <1>1, <1>3, <2>1, GoOnCall
  <2>3. keyOf[c] \in Keys /\ RowOf(keyOf[c], deviceOf[c], c) /\ deviceOf[c] \in Devices
    BY <1>1, <1>3, <1>5 DEF RuntimeInv, CommandsOK
  <2>4. \A k, d, e : RowOf(k, d, e)' = RowOf(k, d, e)
    BY <1>2 DEF RowOf
  <2>5. ASSUME NEW y \in delivered'
        PROVE  /\ y = <<y[1], y[2]>> /\ y[1] \in Devices /\ y[2] \in CommandIds
               /\ keyOf[y[2]] \in Keys /\ RowOf(keyOf[y[2]], y[1], y[2])
    <3>1. CASE y \in delivered
      BY <1>1, <3>1 DEF DoneOK
    <3>2. CASE y = <<deviceOf[c], c>>
      <4>1. y[1] = deviceOf[c] /\ y[2] = c
        BY <3>2
      <4>. QED  BY <1>3, <2>3, <3>2, <4>1
    <3>. QED  BY <1>5, <3>1, <3>2
  <2>6. \A k \in Keys : \A b \in answered[k] : savedBatches[k] # NoBatch /\ b = savedBatches[k]
    BY <1>1 DEF DoneOK
  <2>7. keyOf' = keyOf /\ answered' = answered
    BY <1>1
  <2>8. DoneOK'
    <3>. HIDE DEF c, call
    <3>. QED  BY <1>2, <2>4, <2>5, <2>6, <2>7 DEF DoneOK
  <2>. QED  BY <1>1, <1>5, <2>1, <2>2, <2>8, Unmoved, CallStep DEF Set
<1>6. CASE delivered' = delivered /\ End(t) /\ UNCHANGED coordinator
  BY <1>1, <1>6, EndKeeps DEF history
<1>7. CASE /\ delivered' = delivered
           /\ Transition(c, "failed") \/ UNCHANGED coordinator
           /\ Set(t, [call EXCEPT !.step = "update", !.purpose = "fail"])
  <2>1. Moves
    BY <1>1, <1>3, <1>7, Unmoved, TransitionMoves
  <2>. QED  BY <1>4, <1>7, <2>1
<1>. QED  BY <1>5, <1>6, <1>7 DEF Send

\* The failure was written, and the request goes on.
LEMMA FailedKeeps ==
    ASSUME RuntimeInv, NEW t \in Tasks, Failed(t)
    PROVE  RuntimeInv'
<1>. DEFINE call == task[t]
<1>1. /\ UNCHANGED <<coordinator, server, late, connected, rows, history>>
      /\ call.step = "written" /\ call \in Calls /\ CallOK(call) /\ server = "ready"
      /\ IInv /\ connected \subseteq Devices /\ DOMAIN answered = Keys /\ DoneOK
  BY CallFacts DEF Failed
<1>2. UNCHANGED <<keyOf, delivered, answered, savedBatches>>
  BY <1>1 DEF history, rows
<1>3. PICK x : x = GoOn(call)
  OBVIOUS
<1>4. x \in Calls /\ CallOK(x)
  BY <1>1, <1>3, GoOnCall DEF CallOK, Writing
<1>5. task' = [task EXCEPT ![t] = x]
  BY <1>3 DEF Failed, Set
<1>6. DoneOK' /\ Moves
  BY <1>1, <1>2, DoneLasts, Unmoved
<1>. QED  BY <1>1, <1>2, <1>4, <1>5, <1>6, CallStep

\* The result was written, and the next command dispatched after an end.
LEMMA ResultedKeeps ==
    ASSUME RuntimeInv, NEW t \in Tasks, Resulted(t)
    PROVE  RuntimeInv'
<1>. DEFINE call == task[t]
<1>1. /\ UNCHANGED <<server, late, connected, rows, history>>
      /\ call.step = "written" /\ call \in Calls /\ CallOK(call) /\ server = "ready"
      /\ IInv /\ connected \subseteq Devices /\ DOMAIN answered = Keys /\ DoneOK
  BY CallFacts DEF Resulted
<1>2. UNCHANGED <<keyOf, delivered, answered, savedBatches>>
  BY <1>1 DEF history, rows
<1>3. DoneOK'
  BY <1>1, <1>2, DoneLasts
<1>4. CASE End(t) /\ UNCHANGED coordinator
  BY <1>1, <1>4, EndKeeps
<1>5. CASE Dispatch(t, deviceOf[call.command], Idle)
  <2>1. deviceOf[call.command] \in Devices
    BY <1>1 DEF CallOK, Writing, IInv, TypeOK
  <2>2. Idle \in Calls /\ Idle.key = None
    BY IdleCall DEF Idle
  <2>3. Moves /\ \E y \in Calls : CallOK(y) /\ task' = [task EXCEPT ![t] = y]
    BY <1>5, <2>1, <2>2, DispatchStep
  <2>. QED  BY <1>1, <1>2, <1>3, <2>3, CallStep
<1>. QED  BY <1>4, <1>5 DEF Resulted

\* An agent's result changes the status of its command, or repeats it.
LEMMA AgentResultKeeps ==
    ASSUME RuntimeInv, NEW t \in Tasks, NEW c \in CommandIds, NEW result,
           AgentResult(t, c, result)
    PROVE  RuntimeInv'
<1>1. /\ UNCHANGED <<server, late, connected, rows, history>>
      /\ server = "ready" /\ Known(c) /\ HandleAgentResult(deviceOf[c], c, result)
      /\ IInv /\ connected \subseteq Devices /\ DOMAIN answered = Keys /\ DoneOK
  BY CallFacts DEF AgentResult
<1>2. UNCHANGED <<keyOf, delivered, answered, savedBatches>>
  BY <1>1 DEF history, rows
<1>3. Moves
  BY <1>1, Unmoved, TransitionMoves DEF HandleAgentResult
<1>4. PICK x : x = [Idle EXCEPT !.step = "update", !.purpose = "result", !.command = c]
  OBVIOUS
<1>5. x \in Calls /\ x.step = "update" /\ x.key = None /\ x.command = c
  BY <1>4, IdleCall DEF Calls, Writing, Idle
<1>6. CallOK(x)
  BY <1>1, <1>5 DEF CallOK, Writing, Requesting
<1>7. task' = [task EXCEPT ![t] = x]
  BY <1>4 DEF AgentResult, Set
<1>8. DoneOK'
  BY <1>1, <1>2, DoneLasts
<1>. QED  BY <1>1, <1>2, <1>3, <1>5, <1>6, <1>7, <1>8, CallStep

\* A connection is registered, and its task waits for #ready.
LEMMA ConnectKeeps ==
    ASSUME RuntimeInv, NEW t \in Tasks, NEW d \in Devices, Connect(t, d)
    PROVE  RuntimeInv'
<1>1. /\ UNCHANGED <<coordinator, server, late, rows, history>>
      /\ connected' = connected \cup {d}
      /\ IInv /\ connected \subseteq Devices /\ DOMAIN answered = Keys /\ DoneOK
  BY CallFacts DEF Connect
<1>2. UNCHANGED <<keyOf, delivered, answered, savedBatches>>
  BY <1>1 DEF history, rows
<1>3. PICK x : x = [Idle EXCEPT !.step = "connected", !.rest = {d}]
  OBVIOUS
<1>4. x \in Calls /\ x.step = "connected"
  BY <1>3, IdleCall DEF Calls, Idle
<1>5. CallOK(x)
  BY <1>4 DEF CallOK, Writing, Requesting
<1>6. task' = [task EXCEPT ![t] = x]
  BY <1>3 DEF Connect, Set
<1>7. DoneOK' /\ Moves
  BY <1>1, <1>2, DoneLasts, Unmoved
<1>. QED  BY <1>1, <1>2, <1>4, <1>5, <1>6, <1>7, CallStep

\* When #ready is there, the head of the device's queue is dispatched again.
LEMMA OnDeviceConnectedKeeps ==
    ASSUME RuntimeInv, NEW t \in Tasks, OnDeviceConnected(t)
    PROVE  RuntimeInv'
<1>1. /\ UNCHANGED <<server, late, connected, rows, history>>
      /\ IInv /\ connected \subseteq Devices /\ DOMAIN answered = Keys /\ DoneOK
      /\ task[t] \in Calls
  BY CallFacts DEF OnDeviceConnected
<1>2. UNCHANGED <<keyOf, delivered, answered, savedBatches>>
  BY <1>1 DEF history, rows
<1>3. DoneOK'
  BY <1>1, <1>2, DoneLasts
<1>4. CASE End(t) /\ UNCHANGED coordinator
  BY <1>1, <1>4, EndKeeps
<1>5. CASE server = "ready" /\ \E d \in task[t].rest : Dispatch(t, d, Idle)
  <2>1. PICK d \in task[t].rest : Dispatch(t, d, Idle)
    BY <1>5
  <2>2. d \in Devices
    BY <1>1 DEF Calls
  <2>3. Idle \in Calls /\ Idle.key = None
    BY IdleCall DEF Idle
  <2>4. Moves /\ \E y \in Calls : CallOK(y) /\ task' = [task EXCEPT ![t] = y]
    BY <2>1, <2>2, <2>3, DispatchStep
  <2>. QED  BY <1>1, <1>2, <1>3, <1>5, <2>4, CallStep
<1>. QED  BY <1>4, <1>5 DEF OnDeviceConnected

-----------------------------------------------------------------------------
(* Steps of nobody's call                                                  *)

\* A connection, the rows or the restart change, and no call goes on.
LEMMA StillStep ==
    ASSUME RuntimeInv, Moves, UNCHANGED <<task, savedBatches, history>>,
           late' \subseteq CommandIds, connected' \subseteq Devices,
           saved' \in [CommandIds -> CommandStatus \cup {"absent"}],
           \A c \in CommandIds : saved'[c] = "absent" <=> saved[c] = "absent",
           PhaseOK'
    PROVE  RuntimeInv' /\ Kept
<1>1. /\ DoneOK /\ TasksOK /\ task \in [Tasks -> Calls] /\ DOMAIN answered = Keys /\ IInv
  BY DEF RuntimeInv, RuntimeTypeOK
<1>2. UNCHANGED <<task, savedBatches, keyOf, delivered, answered>>
  BY DEF history
<1>3. \A d \in Devices : sequences'[d] = sequences[d] /\ sequences[d] \in Nat
  BY <1>1 DEF Moves, IInv, TypeOK
<1>4. \A d \in Devices : sequences[d] <= sequences'[d]
  BY <1>3
<1>5. Kept /\ IInv'
  BY <1>2, <1>4 DEF Kept, Moves
<1>6. DoneOK'
  BY <1>1, <1>2, DoneLasts
<1>7. task' \in [Tasks -> Calls] /\ (\A t \in Tasks : CallOK(task'[t])) /\ DOMAIN answered' = Keys
  BY <1>1, <1>2 DEF TasksOK
<1>. QED  BY <1>5, <1>6, <1>7, KeptInv

\* What PhaseOK says besides.
LEMMA StillFacts ==
    ASSUME RuntimeInv
    PROVE  /\ IInv /\ PhaseOK /\ late \subseteq CommandIds /\ connected \subseteq Devices
           /\ saved \in [CommandIds -> CommandStatus \cup {"absent"}]
BY DEF RuntimeInv, RuntimeTypeOK

\* A connection closes.
LEMMA DisconnectKeeps ==
    ASSUME RuntimeInv, NEW d \in Devices, Disconnect(d)
    PROVE  RuntimeInv'
<1>1. /\ UNCHANGED <<coordinator, server, late, task, rows, history>>
      /\ connected' = connected \ {d}
  BY DEF Disconnect
<1>2. UNCHANGED <<status, sequences, saved, savedBatches>> /\ Moves
  BY <1>1, StillFacts, Unmoved DEF coordinator, commands, rows
<1>3. PhaseOK'
  BY <1>1, <1>2, StillFacts DEF PhaseOK, Restored, Known, SequencesRestored, Numbers
<1>. QED  BY <1>1, <1>2, <1>3, StillFacts, StillStep

\* Open rows fail; they stay rows.
LEMMA FailCommandsKeeps ==
    ASSUME RuntimeInv, NEW d \in Devices, FailCommands(d)
    PROVE  RuntimeInv'
<1>1. /\ UNCHANGED <<coordinator, server, late, connected, task, history, savedBatches>>
      /\ saved' = [c \in CommandIds |->
            IF Saved(c, d) /\ saved[c] \in OpenStates THEN "failed" ELSE saved[c]]
  BY DEF FailCommands
<1>2. UNCHANGED <<status, sequences, savedBatches>> /\ Moves
  BY <1>1, StillFacts, Unmoved DEF coordinator, commands
<1>3. /\ saved' \in [CommandIds -> CommandStatus \cup {"absent"}]
      /\ \A c \in CommandIds : saved'[c] = "absent" <=> saved[c] = "absent"
      /\ \A c \in CommandIds : saved'[c] \in OpenStates => saved'[c] = saved[c]
  BY <1>1, StillFacts DEF CommandStatus, OpenStates, TerminalStates
<1>4. PhaseOK'
  BY <1>1, <1>2, <1>3, StillFacts DEF PhaseOK, Restored, Known, SequencesRestored, Numbers
<1>. QED  BY <1>1, <1>2, <1>3, <1>4, StillFacts, StillStep

\* The process starts: nothing is known, and so nothing without a row.
LEMMA StartKeeps ==
    ASSUME RuntimeInv, Start
    PROVE  RuntimeInv'
<1>1. /\ UNCHANGED <<coordinator, late, connected, task, rows, history>>
      /\ server = "down" /\ server' = "restoring"
  BY DEF Start
<1>2. UNCHANGED <<status, saved, savedBatches>> /\ Moves
  BY <1>1, StillFacts, Unmoved DEF coordinator, commands, rows
<1>3. PhaseOK'
  BY <1>1, <1>2, StillFacts DEF PhaseOK, Restored, Known
<1>. QED  BY <1>1, <1>2, <1>3, StillFacts, StillStep

\* The restored commands that are late expire.  What is known now has a row,
\* and all the open rows and numbers are known.
LEMMA ExpireLateKeeps ==
    ASSUME RuntimeInv, NEW passed \in SUBSET {c \in CommandIds : Open(c)}, ExpireLate(passed)
    PROVE  RuntimeInv'
<1>1. /\ UNCHANGED <<connected, task, rows, history>>
      /\ server = "restoring" /\ SequencesRestored /\ ToRestore = {} /\ Expire(passed)
      /\ \/ server' = "stuck" /\ late' = late
         \/ server' = "expiring" /\ late' = passed
  BY DEF ExpireLate
<1>2. Moves
  BY <1>1, StillFacts, ExpireMoves
<1>3. /\ sequences' = sequences /\ saved' = saved /\ savedBatches' = savedBatches
      /\ \A c \in CommandIds : Known(c)' <=> Known(c)
  BY <1>1, <1>2 DEF Moves, rows
<1>4. passed \subseteq CommandIds /\ \A c \in passed : Known(c)
  BY DEF Open, OpenStates, Known
<1>5. \A c \in CommandIds : saved[c] \in OpenStates => Known(c)
  BY <1>1 DEF ToRestore
<1>6. SequencesRestored'
  BY <1>1, <1>3 DEF SequencesRestored, Numbers
<1>7. late' \subseteq CommandIds /\ \A c \in late' : Known(c) /\ saved[c] # "absent"
  BY <1>1, <1>4, StillFacts DEF PhaseOK
<1>8. \A t \in Tasks : task'[t].step \in {"idle", "connected"}
  BY <1>1, StillFacts DEF PhaseOK
<1>9. PhaseOK'
  BY <1>1, <1>3, <1>5, <1>6, <1>7, <1>8 DEF PhaseOK, Restored
<1>. QED  BY <1>1, <1>2, <1>3, <1>7, <1>9, StillFacts, StillStep

\* An expired command is written to its row.
LEMMA WriteExpiredKeeps ==
    ASSUME RuntimeInv, NEW c \in CommandIds, WriteExpired(c)
    PROVE  RuntimeInv'
<1>1. /\ UNCHANGED <<coordinator, connected, task, history>>
      /\ server = "expiring" /\ c \in late /\ savedBatches' = savedBatches
      /\ \/ saved' = [saved EXCEPT ![c] = status[c]] /\ late' = late \ {c} /\ server' = server
         \/ server' = "stuck" /\ late' = {} /\ saved' = saved
  BY DEF WriteExpired, rows
<1>2. UNCHANGED <<status, sequences>> /\ Moves
  BY <1>1, StillFacts, Unmoved DEF coordinator, commands
<1>3. Known(c) /\ saved[c] # "absent" /\ status[c] \in CommandStatus \cup {"absent"}
  BY <1>1, StillFacts DEF PhaseOK, IInv, TypeOK
<1>4. /\ saved' \in [CommandIds -> CommandStatus \cup {"absent"}]
      /\ \A e \in CommandIds : saved'[e] = "absent" <=> saved[e] = "absent"
      /\ \A e \in CommandIds : saved'[e] \in OpenStates => saved[e] \in OpenStates \/ Known(e)
  BY <1>1, <1>3, StillFacts DEF Known
<1>5. PhaseOK'
  BY <1>1, <1>2, <1>4, StillFacts DEF PhaseOK, Restored, Known, SequencesRestored, Numbers
<1>. QED  BY <1>1, <1>2, <1>4, <1>5, StillFacts, StillStep

\* #ready is resolved.
LEMMA ReadyKeeps ==
    ASSUME RuntimeInv, Ready
    PROVE  RuntimeInv'
<1>1. /\ UNCHANGED <<coordinator, late, connected, task, rows, history>>
      /\ server = "expiring" /\ server' = "ready"
  BY DEF Ready
<1>2. UNCHANGED <<status, sequences, saved, savedBatches>> /\ Moves
  BY <1>1, StillFacts, Unmoved DEF coordinator, commands, rows
<1>3. PhaseOK'
  BY <1>1, <1>2, StillFacts DEF PhaseOK, Restored, Known, SequencesRestored, Numbers
<1>. QED  BY <1>1, <1>2, <1>3, StillFacts, StillStep

\* The last number of a device is restored.
LEMMA RestoreSequenceKeeps ==
    ASSUME RuntimeInv, NEW d \in Devices, RestoreSequence(d)
    PROVE  RuntimeInv'
<1>1. PICK n \in Numbers(d) : sequences[d] < n /\ RestoreDeviceSequence(d, n)
  BY DEF RestoreSequence
<1>2. /\ UNCHANGED <<server, late, connected, task, rows, history>>
      /\ UNCHANGED <<devices, commands, queue, batches>>
      /\ sequences' = [sequences EXCEPT ![d] = Larger(@, n)]
      /\ server = "restoring" /\ n \in SafeIntegers
  BY <1>1 DEF RestoreSequence, RestoreDeviceSequence
<1>3. RuntimeTypeOK /\ DoneOK /\ TasksOK /\ IInv /\ PhaseOK
  BY DEF RuntimeInv
<1>4. n \in Nat /\ sequences \in [Devices -> Nat]
  BY <1>2, <1>3, SafeIntegersAssumption DEF IInv, TypeOK
<1>5. /\ sequences' \in [Devices -> Nat]
      /\ \A e \in Devices : sequences[e] <= sequences'[e]
  BY <1>2, <1>4 DEF Larger
<1>6. IInv'
  BY <1>2, <1>3, <1>5, QuietIInv DEF IInv, TypeOK
<1>7. UNCHANGED <<status, deviceOf, sequenceOf, saved, savedBatches, keyOf, delivered, answered>>
  BY <1>2 DEF commands, rows, history
<1>8. Kept
  BY <1>2, <1>5, <1>7 DEF Kept, Known
<1>9. PhaseOK'
  BY <1>2, <1>3, <1>7 DEF PhaseOK, Restored, Known
<1>10. DoneOK'
  BY <1>3, <1>7, DoneLasts
<1>11. /\ late' \subseteq CommandIds /\ connected' \subseteq Devices /\ DOMAIN answered' = Keys
       /\ saved' \in [CommandIds -> CommandStatus \cup {"absent"}]
       /\ task' \in [Tasks -> Calls] /\ \A t \in Tasks : CallOK(task'[t])
  BY <1>2, <1>3, <1>7 DEF RuntimeTypeOK, TasksOK
<1>. QED  BY <1>6, <1>8, <1>9, <1>10, <1>11, KeptInv

-----------------------------------------------------------------------------
(* Steps that add commands or rows, and the crash                          *)

\* A batch record in memory is well formed, with the next numbers of its
\* devices and the commands just created for them.
LEMMA CreatedBatch ==
    ASSUME IInv, NEW view \in [Devices -> DeviceViews], NEW k \in Keys,
           NEW request \in Requests, Create(view, k, request), batches'[k] # NoBatch
    PROVE  /\ IsBatch(batches'[k]) /\ batches'[k].request = request
           /\ \A d \in request.targets :
                 /\ batches'[k].numbers[d] = sequences[d] + 1
                 /\ sequences'[d] = sequences[d] + 1
                 /\ batches'[k].commands[d] \in CommandIds =>
                       /\ status[batches'[k].commands[d]] = "absent"
                       /\ status'[batches'[k].commands[d]] = "created"
                       /\ deviceOf'[batches'[k].commands[d]] = d
                       /\ sequenceOf'[batches'[k].commands[d]] = sequences[d] + 1
<1>. DEFINE Q == Queued(view, request)
<1>1. PICK new \in NewIds(view, request) :
         LET made == {new[d] : d \in Q}
             Target(c) == CHOOSE d \in Q : new[d] = c
         IN  /\ status' = [c \in CommandIds |-> IF c \in made THEN "created" ELSE status[c]]
             /\ deviceOf' = [c \in CommandIds |-> IF c \in made THEN Target(c) ELSE deviceOf[c]]
             /\ sequenceOf' = [c \in CommandIds |->
                   IF c \in made THEN sequences[Target(c)] + 1 ELSE sequenceOf[c]]
             /\ batches' = IF Blocked(view, request) = {}
                           THEN [batches EXCEPT ![k] = Batch(view, request, new)]
                           ELSE batches
  BY DEF Create
<1>2. /\ batches[k] = NoBatch /\ DOMAIN batches = Keys
      /\ request.targets \subseteq Devices /\ sequences \in [Devices -> Nat]
  BY DEF Create, KeyUsed, IInv, TypeOK, Requests
<1>3. Blocked(view, request) = {} /\ batches'[k] = Batch(view, request, new)
  BY <1>1, <1>2
<1>4. /\ Q \subseteq request.targets
      /\ new \in [Q -> {c \in CommandIds : ~Known(c)}]
      /\ \A d, e \in Q : new[d] = new[e] => d = e
  BY DEF NewIds, Queued, Reached
<1>5. \A d \in request.targets : d \in Numbered(view, request)
  BY <1>3 DEF Numbered, Reached
<1>6. \A d \in request.targets : sequences'[d] = sequences[d] + 1
  BY <1>2, <1>5 DEF Create
<1>7. /\ batches'[k].request = request
      /\ batches'[k].numbers = [d \in request.targets |-> sequences[d] + 1]
      /\ batches'[k].commands = [d \in request.targets |->
                                    IF d \in Q THEN new[d] ELSE RefusedAs(view, d)]
  BY <1>3 DEF Batch
<1>8. \A d : RefusedAs(view, d) \in Refusals
  BY DEF RefusedAs, Refusals
<1>9. IsBatch(batches'[k])
  BY <1>2, <1>4, <1>7, <1>8 DEF IsBatch
<1>10. ASSUME NEW d \in request.targets, batches'[k].commands[d] \in CommandIds
       PROVE  /\ status[batches'[k].commands[d]] = "absent"
              /\ status'[batches'[k].commands[d]] = "created"
              /\ deviceOf'[batches'[k].commands[d]] = d
              /\ sequenceOf'[batches'[k].commands[d]] = sequences[d] + 1
  <2>1. d \in Q /\ batches'[k].commands[d] = new[d]
    BY <1>7, <1>8, <1>10, IdsAssumption DEF Refusals
  <2>2. new[d] \in CommandIds /\ ~Known(new[d])
    BY <1>4, <2>1
  <2>3. (CHOOSE e \in Q : new[e] = new[d]) = d
    BY <1>4, <2>1
  <2>4. new[d] \in {new[e] : e \in Q}
    BY <2>1
  <2>. QED  BY <1>1, <2>1, <2>2, <2>3, <2>4 DEF Known
<1>. QED  BY <1>6, <1>7, <1>9, <1>10

\* createBatch makes the commands, for a key whose rows are not there.
LEMMA CreateKeeps ==
    ASSUME RuntimeInv, NEW t \in Tasks, task[t].step = "list", devices' = Listed,
           Create(Listed, task[t].key, task[t].request),
           keyOf' = [c \in CommandIds |->
               IF status[c] = "absent" /\ status'[c] # "absent" THEN task[t].key ELSE keyOf[c]],
           \A c \in CommandIds : status[c] = "absent" /\ status'[c] # "absent" => keyOf[c] = None,
           NEW x \in Calls, task' = [task EXCEPT ![t] = x],
           \/ x = Idle
           \/ x = [task[t] EXCEPT !.step = "save"] /\ batches'[task[t].key] # NoBatch,
           UNCHANGED <<server, late, connected, rows, delivered, answered>>
    PROVE  RuntimeInv'
<1>1. PICK k, request : k = task[t].key /\ request = task[t].request
  OBVIOUS
<1>2. /\ task[t] \in Calls /\ CallOK(task[t]) /\ server = "ready" /\ IInv
      /\ connected \subseteq Devices
      /\ RuntimeTypeOK /\ BatchesOK /\ RowsOK /\ CommandsOK /\ TasksOK /\ PhaseOK /\ DoneOK
  BY CallFacts DEF RuntimeInv
<1>3. k \in Keys /\ request \in Requests /\ batches[k] = NoBatch /\ savedBatches[k] = NoBatch
  BY <1>1, <1>2 DEF CallOK, Requesting, Create, KeyUsed
<1>4. Listed \in [Devices -> DeviceViews]
  BY <1>2 DEF Listed, DeviceViews, IInv, TypeOK
<1>5. Create(Listed, k, request)
  BY <1>1
<1>6. /\ IInv'
      /\ \A c \in CommandIds :
            \/ status'[c] = status[c] /\ deviceOf'[c] = deviceOf[c] /\ sequenceOf'[c] = sequenceOf[c]
            \/ ~Known(c) /\ status'[c] = "created"
  BY <1>2, <1>3, <1>4, <1>5, CreateIInv
<1>7. batches'[k] # NoBatch =>
         /\ IsBatch(batches'[k]) /\ batches'[k].request = request
         /\ \A d \in request.targets :
               /\ batches'[k].numbers[d] = sequences[d] + 1
               /\ sequences'[d] = sequences[d] + 1
               /\ batches'[k].commands[d] \in CommandIds =>
                     /\ status[batches'[k].commands[d]] = "absent"
                     /\ status'[batches'[k].commands[d]] = "created"
                     /\ deviceOf'[batches'[k].commands[d]] = d
                     /\ sequenceOf'[batches'[k].commands[d]] = sequences[d] + 1
  BY <1>2, <1>3, <1>4, <1>5, CreatedBatch
<1>8. /\ \A j \in Keys : j # k => batches'[j] = batches[j]
      /\ DOMAIN batches' = Keys
      /\ \A d \in Devices : sequences[d] <= sequences'[d]
  <2>1. sequences \in [Devices -> Nat] /\ DOMAIN batches = Keys
    BY <1>2 DEF IInv, TypeOK
  <2>2. \A d \in Devices : sequences'[d] = sequences[d] + 1 \/ sequences'[d] = sequences[d]
    BY <1>5, <2>1 DEF Create
  <2>3. \E b : batches' = batches \/ batches' = [batches EXCEPT ![k] = b]
    BY <1>5 DEF Create
  <2>. QED  BY <2>1, <2>2, <2>3
<1>9. saved' = saved /\ savedBatches' = savedBatches
  BY DEF rows
<1>10. \A c \in CommandIds :
          \/ /\ status'[c] = status[c] /\ deviceOf'[c] = deviceOf[c]
             /\ sequenceOf'[c] = sequenceOf[c] /\ keyOf'[c] = keyOf[c]
          \/ /\ status[c] = "absent" /\ status'[c] = "created" /\ keyOf[c] = None /\ keyOf'[c] = k
  BY <1>1, <1>6 DEF Known
<1>11. \A c \in CommandIds : keyOf[c] \in Keys => keyOf'[c] = keyOf[c]
  BY <1>10, NoneAssumption
<1>12. \A c \in CommandIds : status[c] # "absent" =>
          /\ status'[c] # "absent" /\ deviceOf'[c] = deviceOf[c]
          /\ sequenceOf'[c] = sequenceOf[c] /\ keyOf'[c] = keyOf[c]
  BY <1>10
<1>13. \A c \in CommandIds : saved[c] # "absent" =>
          /\ keyOf[c] \in Keys /\ keyOf'[c] = keyOf[c] /\ deviceOf'[c] = deviceOf[c]
          /\ sequenceOf'[c] = sequenceOf[c] /\ status'[c] = status[c]
  BY <1>2, <1>10, NoneAssumption DEF CommandsOK
<1>14. \A j, d, c : RowOf(j, d, c)' <=> RowOf(j, d, c)
  BY <1>9 DEF RowOf
<1>15. RuntimeTypeOK'
  BY <1>1, <1>2, <1>3, <1>9 DEF RuntimeTypeOK
<1>16. RowsOK'
  <2>1. \A j \in Keys : IsBatch(savedBatches[j])' <=> IsBatch(savedBatches[j])
    BY <1>9 DEF IsBatch
  <2>. QED  BY <1>2, <1>9, <1>13, <1>14, <2>1 DEF RowsOK
<1>17. CommandsOK'
  <2>1. \A c \in CommandIds : status'[c] # "absent" => keyOf'[c] \in Keys
    BY <1>2, <1>3, <1>10 DEF CommandsOK, Known
  <2>2. ASSUME NEW c \in CommandIds, saved[c] # "absent"
        PROVE  keyOf'[c] \in Keys /\ \E d \in Devices : RowOf(keyOf'[c], d, c)
    BY <1>2, <1>13, <2>2 DEF CommandsOK
  <2>3. ASSUME NEW c \in CommandIds, status'[c] # "absent", saved[c] # "absent"
        PROVE  /\ RowOf(keyOf'[c], deviceOf'[c], c)
               /\ savedBatches[keyOf'[c]].numbers[deviceOf'[c]] = sequenceOf'[c]
    <3>1. /\ status[c] # "absent" /\ keyOf'[c] = keyOf[c] /\ deviceOf'[c] = deviceOf[c]
          /\ sequenceOf'[c] = sequenceOf[c]
      BY <1>13, <2>3
    <3>. QED  BY <1>2, <2>3, <3>1 DEF CommandsOK, Known
  <2>. QED  BY <1>9, <1>14, <2>1, <2>2, <2>3 DEF CommandsOK, Known
<1>18. DoneOK'
  <2>1. ASSUME NEW y \in delivered
        PROVE  keyOf'[y[2]] \in Keys /\ RowOf(keyOf'[y[2]], y[1], y[2])
    BY <1>2, <1>11 DEF DoneOK
  <2>2. delivered' = delivered /\ answered' = answered
    BY <1>3, <1>9 DEF history
  <2>. QED  BY <1>2, <1>9, <1>14, <2>1, <2>2 DEF DoneOK
<1>19. BatchesOK'
  <2>. SUFFICES ASSUME NEW j \in Keys, batches'[j] # NoBatch
                PROVE  /\ IsBatch(batches[j])'
                       /\ savedBatches'[j] # NoBatch => savedBatches'[j] = batches'[j]
                       /\ \A d \in batches'[j].request.targets :
                             /\ batches'[j].numbers[d] <= sequences'[d]
                             /\ batches'[j].commands[d] \in CommandIds =>
                                   /\ status'[batches'[j].commands[d]] # "absent"
                                   /\ keyOf'[batches'[j].commands[d]] = j
                                   /\ deviceOf'[batches'[j].commands[d]] = d
                                   /\ sequenceOf'[batches'[j].commands[d]] = batches'[j].numbers[d]
    BY DEF BatchesOK, Known
  <2>1. CASE j = k
    <3>1. IsBatch(batches'[k]) /\ batches'[k].request = request
      BY <1>7, <2>1
    <3>2. IsBatch(batches[j])'
      BY <2>1, <3>1 DEF IsBatch
    <3>3. ASSUME NEW d \in request.targets
          PROVE  batches'[k].numbers[d] <= sequences'[d]
      <4>1. d \in Devices /\ sequences[d] \in Nat
        BY <1>2, <1>3 DEF Requests, IInv, TypeOK
      <4>. QED  BY <1>7, <2>1, <4>1
    <3>4. ASSUME NEW d \in request.targets, batches'[k].commands[d] \in CommandIds
          PROVE  /\ status'[batches'[k].commands[d]] # "absent"
                 /\ keyOf'[batches'[k].commands[d]] = k
                 /\ deviceOf'[batches'[k].commands[d]] = d
                 /\ sequenceOf'[batches'[k].commands[d]] = batches'[k].numbers[d]
      <4>1. PICK e \in CommandIds : e = batches'[k].commands[d]
        BY <3>4
      <4>. QED  BY <1>7, <1>10, <2>1, <3>4, <4>1
    <3>. QED  BY <1>3, <1>9, <2>1, <3>1, <3>2, <3>3, <3>4
  <2>2. CASE j # k
    <3>1. batches'[j] = batches[j] /\ batches[j] # NoBatch /\ IsBatch(batches[j])
      BY <1>2, <1>8, <2>2 DEF BatchesOK
    <3>2. IsBatch(batches[j])'
      BY <3>1 DEF IsBatch
    <3>3. ASSUME NEW d \in batches[j].request.targets
          PROVE  batches[j].numbers[d] <= sequences'[d]
      <4>1. d \in Devices /\ batches[j].numbers[d] \in Nat
        BY <3>1 DEF IsBatch, Requests
      <4>2. batches[j].numbers[d] <= sequences[d] /\ sequences[d] <= sequences'[d]
        BY <1>2, <1>8, <3>1, <4>1 DEF BatchesOK
      <4>3. sequences[d] \in Nat /\ sequences'[d] \in Nat
        BY <1>2, <1>6, <4>1 DEF IInv, TypeOK
      <4>. QED  BY <4>1, <4>2, <4>3
    <3>4. ASSUME NEW d \in batches[j].request.targets, batches[j].commands[d] \in CommandIds
          PROVE  /\ status'[batches[j].commands[d]] # "absent"
                 /\ keyOf'[batches[j].commands[d]] = j
                 /\ deviceOf'[batches[j].commands[d]] = d
                 /\ sequenceOf'[batches[j].commands[d]] = batches[j].numbers[d]
      <4>1. PICK c \in CommandIds : c = batches[j].commands[d]
        BY <3>4
      <4>2. /\ status[c] # "absent" /\ keyOf[c] = j /\ deviceOf[c] = d
            /\ sequenceOf[c] = batches[j].numbers[d]
        BY <1>2, <3>1, <3>4, <4>1 DEF BatchesOK, Known
      <4>. QED  BY <1>12, <4>1, <4>2
    <3>5. savedBatches'[j] # NoBatch => savedBatches'[j] = batches'[j]
      <4>1. savedBatches[j] # NoBatch => savedBatches[j] = batches[j]
        BY <1>2, <3>1 DEF BatchesOK
      <4>. QED  BY <1>9, <3>1, <4>1
    <3>. QED  BY <3>1, <3>2, <3>3, <3>4, <3>5
  <2>. QED  BY <2>1, <2>2
<1>20. TasksOK'
  <2>1. ASSUME NEW y, CallOK(y)
        PROVE  CallOK(y)'
    <3>1. \A c \in CommandIds : status[c] # "absent" => status'[c] # "absent"
      BY <1>12
    <3>2. \A j \in Keys : batches[j] # NoBatch => batches'[j] # NoBatch
      BY <1>3, <1>8
    <3>. QED  BY <1>9, <2>1, <3>1, <3>2 DEF CallOK, Known, Requesting, Writing
  <2>2. CallOK(x)'
    <3>1. CASE x = Idle
      BY <3>1, IdleCall
    <3>2. CASE x = [task[t] EXCEPT !.step = "save"] /\ batches'[k] # NoBatch
      <4>1. x.step = "save" /\ x.key = k /\ x.request = request
        BY <1>1, <1>2, <3>2 DEF Calls
      <4>. QED  BY <1>3, <3>2, <4>1 DEF CallOK, Writing
    <3>. QED  BY <1>1, <3>1, <3>2
  <2>3. ASSUME NEW u \in Tasks
        PROVE  CallOK(task[u])'
    <3>1. PICK y : y = task'[u]
      OBVIOUS
    <3>2. y = x \/ y = task[u]
      BY <1>2, <3>1
    <3>3. CallOK(y)'
      BY <1>2, <2>1, <2>2, <3>2 DEF TasksOK
    <3>. QED  BY <3>1, <3>3 DEF CallOK
  <2>. QED  BY <2>3 DEF TasksOK
<1>21. PhaseOK'
  <2>1. SequencesRestored'
    <3>. SUFFICES ASSUME NEW d \in Devices, NEW n \in Numbers(d)
                  PROVE  n <= sequences'[d]
      BY <1>9 DEF SequencesRestored, Numbers
    <3>1. n \in Nat
      BY <1>2 DEF Numbers, RowsOK, IsBatch
    <3>2. n <= sequences[d] /\ sequences[d] <= sequences'[d]
      BY <1>2, <1>8 DEF PhaseOK, Restored, SequencesRestored
    <3>3. sequences[d] \in Nat /\ sequences'[d] \in Nat
      BY <1>2, <1>6 DEF IInv, TypeOK
    <3>. QED  BY <3>1, <3>2, <3>3
  <2>2. late \subseteq CommandIds
    BY <1>2 DEF RuntimeTypeOK
  <2>. QED  BY <1>2, <1>9, <1>12, <2>1, <2>2 DEF PhaseOK, Restored, Known
<1>. QED  BY <1>6, <1>15, <1>16, <1>17, <1>18, <1>19, <1>20, <1>21 DEF RuntimeInv

\* The rows of a batch are inserted for commands that had none, under numbers
\* that no row of their device has.
LEMMA InsertedRows ==
    ASSUME RuntimeInv, NEW k \in Keys, batches[k] # NoBatch, ~DuplicateRows(k), InsertRows(k)
    PROVE  /\ savedBatches[k] = NoBatch /\ savedBatches' = [savedBatches EXCEPT ![k] = batches[k]]
           /\ IsBatch(batches[k])
           /\ \A d \in batches[k].request.targets : batches[k].numbers[d] \notin Numbers(d)
           /\ saved' \in [CommandIds -> CommandStatus \cup {"absent"}]
           /\ \A c \in CommandIds :
                 IF \E d \in batches[k].request.targets : batches[k].commands[d] = c
                 THEN saved[c] = "absent" /\ saved'[c] = status[c] /\ Known(c)
                 ELSE saved'[c] = saved[c]
           /\ \A d \in batches[k].request.targets, c \in CommandIds :
                 batches[k].commands[d] = c =>
                    /\ Known(c) /\ keyOf[c] = k /\ deviceOf[c] = d
                    /\ sequenceOf[c] = batches[k].numbers[d]
<1>1. /\ RuntimeTypeOK /\ BatchesOK /\ CommandsOK /\ IInv
  BY DEF RuntimeInv
<1>2. /\ savedBatches[k] = NoBatch
      /\ \A d \in batches[k].request.targets : batches[k].numbers[d] \notin Numbers(d)
      /\ savedBatches' = [savedBatches EXCEPT ![k] = batches[k]]
  BY DEF DuplicateRows, InsertRows
<1>3. /\ IsBatch(batches[k])
      /\ \A d \in batches[k].request.targets, c \in CommandIds :
            batches[k].commands[d] = c =>
               /\ Known(c) /\ keyOf[c] = k /\ deviceOf[c] = d
               /\ sequenceOf[c] = batches[k].numbers[d]
  BY <1>1 DEF BatchesOK
<1>4. \A c \in CommandIds : keyOf[c] = k => saved[c] = "absent"
  BY <1>1, <1>2 DEF CommandsOK, RowOf
<1>5. saved' = [c \in CommandIds |->
                  IF \E d \in batches[k].request.targets : batches[k].commands[d] = c
                  THEN status[c] ELSE saved[c]]
  BY DEF InsertRows
<1>6. saved' \in [CommandIds -> CommandStatus \cup {"absent"}]
  BY <1>1, <1>5 DEF RuntimeTypeOK, IInv, TypeOK
<1>7. \A c \in CommandIds :
         IF \E d \in batches[k].request.targets : batches[k].commands[d] = c
         THEN saved[c] = "absent" /\ saved'[c] = status[c] /\ Known(c)
         ELSE saved'[c] = saved[c]
  BY <1>3, <1>4, <1>5
<1>. QED  BY <1>2, <1>3, <1>6, <1>7

\* The rows that are there afterwards: the earlier ones, and the batch's.
LEMMA InsertedKept ==
    ASSUME RuntimeInv, NEW k \in Keys, batches[k] # NoBatch, ~DuplicateRows(k), InsertRows(k),
           UNCHANGED <<coordinator, history>>
    PROVE  RowsOK' /\ BatchesOK' /\ CommandsOK' /\ DoneOK' /\ (SequencesRestored => SequencesRestored')
<1>1. /\ RuntimeTypeOK /\ BatchesOK /\ CommandsOK /\ RowsOK /\ DoneOK /\ IInv
  BY DEF RuntimeInv
<1>2. /\ savedBatches[k] = NoBatch /\ savedBatches' = [savedBatches EXCEPT ![k] = batches[k]]
      /\ IsBatch(batches[k])
      /\ \A d \in batches[k].request.targets : batches[k].numbers[d] \notin Numbers(d)
      /\ \A c \in CommandIds :
            IF \E d \in batches[k].request.targets : batches[k].commands[d] = c
            THEN saved[c] = "absent" /\ saved'[c] = status[c] /\ Known(c)
            ELSE saved'[c] = saved[c]
      /\ \A d \in batches[k].request.targets, c \in CommandIds :
            batches[k].commands[d] = c =>
               /\ Known(c) /\ keyOf[c] = k /\ deviceOf[c] = d
               /\ sequenceOf[c] = batches[k].numbers[d]
  BY InsertedRows
<1>3. /\ UNCHANGED <<status, deviceOf, sequenceOf, sequences, batches>>
      /\ UNCHANGED <<keyOf, delivered, answered>>
  BY DEF coordinator, commands, history
<1>4. /\ savedBatches'[k] = batches[k] /\ batches[k] # NoBatch
      /\ \A j \in Keys : j # k => savedBatches'[j] = savedBatches[j]
      /\ DOMAIN savedBatches = Keys
  BY <1>1, <1>2 DEF RuntimeTypeOK
<1>5. \A j \in Keys : \A d, c : RowOf(j, d, c) => RowOf(j, d, c)'
  BY <1>2, <1>4 DEF RowOf
<1>6. \A d, c : RowOf(k, d, c)' <=> d \in batches[k].request.targets /\ batches[k].commands[d] = c
  BY <1>4 DEF RowOf
<1>7. \A j \in Keys : \A d, c : j # k => (RowOf(j, d, c)' <=> RowOf(j, d, c))
  BY <1>4 DEF RowOf
<1>8. \A c \in CommandIds : saved[c] # "absent" => saved'[c] # "absent"
  BY <1>2
<1>9. RowsOK'
  <2>1. ASSUME NEW j \in Keys, savedBatches'[j] # NoBatch
        PROVE  IsBatch(savedBatches[j])'
    <3>1. IsBatch(savedBatches'[j])
      BY <1>1, <1>2, <1>4, <2>1 DEF RowsOK
    <3>. QED  BY <3>1 DEF IsBatch
  <2>2. ASSUME NEW j \in Keys, NEW d \in Devices, NEW c \in CommandIds, RowOf(j, d, c)'
        PROVE  /\ keyOf[c] = j /\ saved'[c] # "absent"
               /\ \A e \in Devices : RowOf(j, e, c)' => e = d
    <3>1. CASE j = k
      <4>1. d \in batches[k].request.targets /\ batches[k].commands[d] = c
        BY <1>6, <2>2, <3>1
      <4>2. keyOf[c] = k /\ deviceOf[c] = d /\ saved'[c] # "absent"
        BY <1>2, <4>1 DEF Known
      <4>3. \A e \in Devices : RowOf(j, e, c)' => e = d
        BY <1>2, <1>6, <3>1, <4>2
      <4>. QED  BY <3>1, <4>2, <4>3
    <3>2. CASE j # k
      BY <1>1, <1>7, <1>8, <2>2, <3>2 DEF RowsOK
    <3>. QED  BY <3>1, <3>2
  <2>3. ASSUME NEW i \in Keys, NEW j \in Keys, i # j, savedBatches'[i] # NoBatch,
               savedBatches'[j] # NoBatch,
               NEW d \in savedBatches'[i].request.targets \cap savedBatches'[j].request.targets
        PROVE  savedBatches'[i].numbers[d] # savedBatches'[j].numbers[d]
    <3>1. CASE i = k
      <4>1. savedBatches[j].numbers[d] \in Numbers(d)
        BY <1>4, <2>3, <3>1 DEF Numbers
      <4>. QED  BY <1>2, <1>4, <2>3, <3>1, <4>1
    <3>2. CASE j = k
      <4>1. savedBatches[i].numbers[d] \in Numbers(d)
        BY <1>4, <2>3, <3>2 DEF Numbers
      <4>. QED  BY <1>2, <1>4, <2>3, <3>2, <4>1
    <3>3. CASE i # k /\ j # k
      BY <1>1, <1>4, <2>3, <3>3 DEF RowsOK
    <3>. QED  BY <3>1, <3>2, <3>3
  <2>. QED  BY <1>3, <2>1, <2>2, <2>3 DEF RowsOK
<1>10. BatchesOK'
  <2>. SUFFICES ASSUME NEW j \in Keys, batches[j] # NoBatch
                PROVE  /\ IsBatch(batches[j])'
                       /\ savedBatches'[j] # NoBatch => savedBatches'[j] = batches[j]
                       /\ \A d \in batches[j].request.targets :
                             /\ batches[j].numbers[d] <= sequences[d]
                             /\ batches[j].commands[d] \in CommandIds =>
                                   /\ status[batches[j].commands[d]] # "absent"
                                   /\ keyOf[batches[j].commands[d]] = j
                                   /\ deviceOf[batches[j].commands[d]] = d
                                   /\ sequenceOf[batches[j].commands[d]] = batches[j].numbers[d]
    BY <1>3 DEF BatchesOK, Known
  <2>1. IsBatch(batches[j])'
    <3>1. IsBatch(batches[j])
      BY <1>1 DEF BatchesOK
    <3>. QED  BY <1>3, <3>1 DEF IsBatch
  <2>2. savedBatches'[j] # NoBatch => savedBatches'[j] = batches[j]
    BY <1>1, <1>4 DEF BatchesOK
  <2>. QED  BY <1>1, <2>1, <2>2 DEF BatchesOK, Known
<1>11. CommandsOK'
  <2>1. ASSUME NEW c \in CommandIds, NEW d \in batches[k].request.targets,
               batches[k].commands[d] = c
        PROVE  /\ keyOf[c] = k /\ d \in Devices /\ RowOf(k, d, c)' /\ deviceOf[c] = d
               /\ savedBatches'[k].numbers[d] = sequenceOf[c]
    BY <1>2, <1>4, <1>6, <2>1 DEF IsBatch, Requests
  <2>2. ASSUME NEW c \in CommandIds, saved[c] # "absent"
        PROVE  /\ keyOf[c] \in Keys /\ keyOf[c] # k
               /\ \E d \in Devices : RowOf(keyOf[c], d, c)'
               /\ Known(c) => /\ RowOf(keyOf[c], deviceOf[c], c)'
                              /\ savedBatches'[keyOf[c]].numbers[deviceOf[c]] = sequenceOf[c]
    <3>1. /\ keyOf[c] \in Keys /\ \E d \in Devices : RowOf(keyOf[c], d, c)
          /\ Known(c) => /\ RowOf(keyOf[c], deviceOf[c], c)
                         /\ savedBatches[keyOf[c]].numbers[deviceOf[c]] = sequenceOf[c]
      BY <1>1, <2>2 DEF CommandsOK
    <3>2. keyOf[c] # k
      BY <1>2, <3>1 DEF RowOf
    <3>3. PICK j \in Keys : j = keyOf[c]
      BY <3>1
    <3>4. /\ \E d \in Devices : RowOf(j, d, c)'
          /\ Known(c) => /\ RowOf(j, deviceOf[c], c)
                         /\ savedBatches'[j].numbers[deviceOf[c]] = sequenceOf[c]
      BY <1>4, <1>5, <3>1, <3>2, <3>3
    <3>5. Known(c) => RowOf(j, deviceOf[c], c)'
      BY <1>3, <1>4, <3>2, <3>3, <3>4 DEF RowOf
    <3>. QED  BY <1>3, <3>1, <3>2, <3>3, <3>4, <3>5 DEF RowOf
  <2>3. ASSUME NEW c \in CommandIds, saved'[c] # "absent"
        PROVE  /\ keyOf[c] \in Keys /\ \E d \in Devices : RowOf(keyOf[c], d, c)'
               /\ Known(c) => /\ RowOf(keyOf[c], deviceOf[c], c)'
                              /\ savedBatches'[keyOf[c]].numbers[deviceOf[c]] = sequenceOf[c]
    <3>1. CASE \E d \in batches[k].request.targets : batches[k].commands[d] = c
      BY <1>3, <2>1, <3>1 DEF RowOf
    <3>2. CASE ~\E d \in batches[k].request.targets : batches[k].commands[d] = c
      <4>1. saved[c] # "absent"
        BY <1>2, <2>3, <3>2
      <4>. QED  BY <2>2, <4>1
    <3>. QED  BY <3>1, <3>2
  <2>4. \A c \in CommandIds : Known(c) => keyOf[c] \in Keys
    BY <1>1 DEF CommandsOK
  <2>. QED  BY <1>3, <2>3, <2>4 DEF CommandsOK, Known
<1>12. DoneOK'
  <2>1. ASSUME NEW x \in delivered
        PROVE  /\ x = <<x[1], x[2]>> /\ x[1] \in Devices /\ x[2] \in CommandIds
               /\ keyOf[x[2]] \in Keys /\ RowOf(keyOf[x[2]], x[1], x[2])'
    <3>1. PICK j \in Keys : j = keyOf[x[2]] /\ RowOf(j, x[1], x[2])
      BY <1>1 DEF DoneOK
    <3>2. RowOf(j, x[1], x[2])'
      BY <1>5, <3>1
    <3>. QED  BY <1>1, <1>3, <3>1, <3>2 DEF DoneOK, RowOf
  <2>2. \A j \in Keys : \A b \in answered[j] : savedBatches'[j] # NoBatch /\ b = savedBatches'[j]
    BY <1>1, <1>2, <1>4 DEF DoneOK
  <2>. QED  BY <1>3, <2>1, <2>2 DEF DoneOK, RowOf
<1>13. SequencesRestored => SequencesRestored'
  <2>. SUFFICES ASSUME SequencesRestored, NEW d \in Devices, NEW j \in Keys,
                       savedBatches'[j] # NoBatch, d \in savedBatches'[j].request.targets
                PROVE  savedBatches'[j].numbers[d] <= sequences[d]
    BY <1>3 DEF SequencesRestored, Numbers
  <2>1. CASE j = k
    BY <1>1, <1>4, <2>1 DEF BatchesOK
  <2>2. CASE j # k
    BY <1>4, <2>2 DEF SequencesRestored, Numbers
  <2>. QED  BY <2>1, <2>2
<1>. QED  BY <1>9, <1>10, <1>11, <1>12, <1>13

\* The batch is saved, whether its caller learns of it or not, or the
\* database has one of its rows already.
LEMMA SaveBatchKeeps ==
    ASSUME RuntimeInv, NEW t \in Tasks, SaveBatch(t)
    PROVE  RuntimeInv'
<1>1. PICK call : call = task[t]
  OBVIOUS
<1>2. /\ UNCHANGED <<coordinator, server, late, connected, history>>
      /\ call.step = "save" /\ call \in Calls /\ CallOK(call) /\ server = "ready"
      /\ IInv /\ connected \subseteq Devices /\ DOMAIN answered = Keys /\ DoneOK
  BY <1>1, CallFacts DEF SaveBatch
<1>3. call.key \in Keys /\ call.request \in Requests /\ batches[call.key] # NoBatch
  BY <1>2 DEF CallOK, Requesting
<1>4. CASE End(t) /\ UNCHANGED rows
  BY <1>2, <1>4, EndKeeps
<1>5. CASE Set(t, [call EXCEPT !.step = "conflict"]) /\ UNCHANGED rows
  <2>1. PICK x : x = [call EXCEPT !.step = "conflict"]
    OBVIOUS
  <2>2. x \in Calls /\ x.step = "conflict" /\ x.key = call.key /\ x.request = call.request
    BY <1>2, <2>1 DEF Calls, Requesting
  <2>3. CallOK(x)
    BY <1>3, <2>2 DEF CallOK, Writing
  <2>4. UNCHANGED <<keyOf, delivered, answered, savedBatches>>
    BY <1>2, <1>5 DEF history, rows
  <2>5. DoneOK'
    BY <1>2, <2>4, DoneLasts
  <2>6. Moves
    BY <1>2, Unmoved
  <2>7. task' = [task EXCEPT ![t] = x] /\ DOMAIN answered' = Keys
    BY <1>2, <1>5, <2>1, <2>4 DEF Set
  <2>. QED  BY <1>2, <1>5, <2>2, <2>3, <2>4, <2>5, <2>6, <2>7, CallStep
<1>6. ASSUME ~DuplicateRows(call.key), InsertRows(call.key),
             NEW x \in Calls, task' = [task EXCEPT ![t] = x],
             x.step # "loop" => x = Idle,
             x.step = "loop" => x.key = call.key /\ x.request = call.request
      PROVE  RuntimeInv'
  <2>1. /\ RuntimeTypeOK /\ TasksOK /\ PhaseOK
    BY DEF RuntimeInv
  <2>2. /\ RowsOK' /\ BatchesOK' /\ CommandsOK' /\ DoneOK'
        /\ SequencesRestored => SequencesRestored'
    BY <1>2, <1>3, <1>6, InsertedKept
  <2>3. /\ savedBatches' = [savedBatches EXCEPT ![call.key] = batches[call.key]]
        /\ saved' \in [CommandIds -> CommandStatus \cup {"absent"}]
        /\ \A c \in CommandIds : saved'[c] = saved[c] \/ Known(c)
        /\ \A c \in CommandIds : saved[c] # "absent" => saved'[c] # "absent"
    BY <1>3, <1>6, InsertedRows
  <2>4. /\ UNCHANGED <<status, batches, keyOf, answered>> /\ IInv'
    <3>1. IInv'
      BY <1>2, NextIInv
    <3>. QED  BY <1>2, <3>1 DEF coordinator, commands, history
  <2>5. savedBatches'[call.key] # NoBatch /\ DOMAIN savedBatches = Keys
        /\ \A j \in Keys : savedBatches[j] # NoBatch => savedBatches'[j] # NoBatch
    BY <1>3, <2>1, <2>3 DEF RuntimeTypeOK
  <2>6. RuntimeTypeOK'
    BY <1>2, <1>6, <2>1, <2>3, <2>4 DEF RuntimeTypeOK
  <2>7. TasksOK'
    <3>1. ASSUME NEW y, CallOK(y)
          PROVE  CallOK(y)'
      BY <2>3, <2>4, <2>5, <3>1 DEF CallOK, Known, Requesting, Writing
    <3>2. CallOK(x)'
      <4>1. CASE x.step # "loop"
        BY <1>6, <4>1, IdleCall
      <4>2. CASE x.step = "loop"
        BY <1>3, <1>6, <2>4, <2>5, <4>2 DEF CallOK, Requesting, Writing
      <4>. QED  BY <4>1, <4>2
    <3>3. ASSUME NEW u \in Tasks
          PROVE  CallOK(task[u])'
      <4>1. PICK y : y = task'[u]
        OBVIOUS
      <4>2. y = x \/ y = task[u]
        BY <1>6, <2>1, <4>1 DEF RuntimeTypeOK
      <4>3. CallOK(y)'
        BY <2>1, <3>1, <3>2, <4>2 DEF TasksOK
      <4>. QED  BY <4>1, <4>3 DEF CallOK
    <3>. QED  BY <3>3 DEF TasksOK
  <2>8. PhaseOK'
    <3>1. SequencesRestored'
      BY <1>2, <2>1, <2>2 DEF PhaseOK, Restored
    <3>2. late \subseteq CommandIds
      BY <2>1 DEF RuntimeTypeOK
    <3>. QED  BY <1>2, <2>1, <2>3, <2>4, <3>1, <3>2 DEF PhaseOK, Restored, Known
  <2>. QED  BY <2>2, <2>4, <2>6, <2>7, <2>8 DEF RuntimeInv
<1>7. CASE ~DuplicateRows(call.key) /\ InsertRows(call.key)
           /\ Set(t, [call EXCEPT !.step = "loop", !.rest = call.request.targets])
  <2>1. PICK x : x = [call EXCEPT !.step = "loop", !.rest = call.request.targets]
    OBVIOUS
  <2>2. call.request.targets \subseteq Devices
    BY <1>3 DEF Requests
  <2>3. x \in Calls /\ x.step = "loop" /\ x.key = call.key /\ x.request = call.request
    BY <1>2, <2>1, <2>2 DEF Calls, Requesting
  <2>. QED  BY <1>6, <1>7, <2>1, <2>3 DEF Set
<1>8. CASE ~DuplicateRows(call.key) /\ InsertRows(call.key) /\ End(t)
  BY <1>6, <1>8, IdleCall DEF End, Set, Idle
<1>. QED  BY <1>1, <1>4, <1>5, <1>7, <1>8 DEF SaveBatch

\* An open row becomes a command again, the only one of its device under its
\* number.
LEMMA RestoreCommandKeeps ==
    ASSUME RuntimeInv, NEW c \in CommandIds, RestoreCommand(c)
    PROVE  RuntimeInv'
<1>1. /\ UNCHANGED <<server, late, connected, task, saved, savedBatches, keyOf, delivered, answered>>
      /\ server = "restoring" /\ saved[c] \in OpenStates /\ ~Known(c)
  BY DEF RestoreCommand, ToRestore, rows, history
<1>2. /\ RuntimeTypeOK /\ BatchesOK /\ RowsOK /\ CommandsOK /\ TasksOK /\ PhaseOK /\ DoneOK /\ IInv
  BY DEF RuntimeInv
<1>3. PICK k \in Keys, d \in Devices :
         /\ RowOf(k, d, c)
         /\ Restore(c, d, savedBatches[k].numbers[d], saved[c])
  BY DEF RestoreCommand, RowOf
<1>4. PICK n : n = savedBatches[k].numbers[d]
  OBVIOUS
<1>5. n \in Nat /\ saved[c] \in CommandStatus /\ saved[c] # "absent"
  BY <1>1, <1>2, <1>3, <1>4
     DEF RowsOK, IsBatch, RowOf, CommandStatus, OpenStates, TerminalStates
<1>6. ASSUME NEW e \in CommandIds, Known(e), deviceOf[e] = d
      PROVE  sequenceOf[e] # n
  <2>1. saved[e] # "absent"
    BY <1>1, <1>2, <1>6 DEF PhaseOK
  <2>2. PICK j \in Keys : j = keyOf[e] /\ RowOf(j, d, e) /\ savedBatches[j].numbers[d] = sequenceOf[e]
    BY <1>2, <1>6, <2>1 DEF CommandsOK
  <2>3. CASE j = k
    BY <1>1, <1>3, <1>6, <2>2, <2>3 DEF RowOf
  <2>4. CASE j # k
    BY <1>2, <1>3, <1>4, <2>2, <2>4 DEF RowsOK, RowOf
  <2>. QED  BY <2>3, <2>4
<1>7. IInv'
  BY <1>2, <1>3, <1>4, <1>5, <1>6, RestoreIInv
<1>8. /\ status' = [status EXCEPT ![c] = saved[c]]
      /\ deviceOf' = [deviceOf EXCEPT ![c] = d]
      /\ sequenceOf' = [sequenceOf EXCEPT ![c] = n]
      /\ sequences' = [sequences EXCEPT ![d] = Larger(@, n)]
      /\ batches' = batches
  BY <1>3, <1>4 DEF Restore
<1>9. /\ status'[c] # "absent" /\ deviceOf'[c] = d /\ sequenceOf'[c] = n
      /\ \A e \in CommandIds : e # c =>
            /\ status'[e] = status[e] /\ deviceOf'[e] = deviceOf[e]
            /\ sequenceOf'[e] = sequenceOf[e]
      /\ \A e \in Devices : sequences[e] <= sequences'[e] /\ sequences[e] \in Nat
                            /\ sequences'[e] \in Nat
  BY <1>2, <1>5, <1>8 DEF IInv, TypeOK, Larger
<1>10. \A j, e, x : RowOf(j, e, x)' <=> RowOf(j, e, x)
  BY <1>1 DEF RowOf
<1>11. keyOf[c] = k
  BY <1>2, <1>3 DEF RowsOK
<1>12. RuntimeTypeOK'
  BY <1>1, <1>2 DEF RuntimeTypeOK
<1>13. RowsOK'
  <2>1. \A j \in Keys : IsBatch(savedBatches[j])' <=> IsBatch(savedBatches[j])
    BY <1>1 DEF IsBatch
  <2>. QED  BY <1>1, <1>2, <1>10, <2>1 DEF RowsOK
<1>14. DoneOK'
  BY <1>1, <1>2, DoneLasts
<1>15. BatchesOK'
  <2>. SUFFICES ASSUME NEW j \in Keys, batches[j] # NoBatch
                PROVE  /\ IsBatch(batches[j])'
                       /\ savedBatches[j] # NoBatch => savedBatches[j] = batches[j]
                       /\ \A e \in batches[j].request.targets :
                             /\ batches[j].numbers[e] <= sequences'[e]
                             /\ batches[j].commands[e] \in CommandIds =>
                                   /\ status'[batches[j].commands[e]] # "absent"
                                   /\ keyOf[batches[j].commands[e]] = j
                                   /\ deviceOf'[batches[j].commands[e]] = e
                                   /\ sequenceOf'[batches[j].commands[e]] = batches[j].numbers[e]
    BY <1>1, <1>8 DEF BatchesOK, Known
  <2>1. IsBatch(batches[j])
    BY <1>2 DEF BatchesOK
  <2>2. IsBatch(batches[j])'
    BY <1>8, <2>1 DEF IsBatch
  <2>3. ASSUME NEW e \in batches[j].request.targets
        PROVE  batches[j].numbers[e] <= sequences'[e]
    <3>1. e \in Devices /\ batches[j].numbers[e] \in Nat
      BY <2>1 DEF IsBatch, Requests
    <3>2. batches[j].numbers[e] <= sequences[e]
      BY <1>2 DEF BatchesOK
    <3>. QED  BY <1>9, <3>1, <3>2
  <2>4. ASSUME NEW e \in batches[j].request.targets, batches[j].commands[e] \in CommandIds
        PROVE  /\ status'[batches[j].commands[e]] # "absent"
               /\ keyOf[batches[j].commands[e]] = j
               /\ deviceOf'[batches[j].commands[e]] = e
               /\ sequenceOf'[batches[j].commands[e]] = batches[j].numbers[e]
    <3>1. /\ Known(batches[j].commands[e]) /\ keyOf[batches[j].commands[e]] = j
          /\ deviceOf[batches[j].commands[e]] = e
          /\ sequenceOf[batches[j].commands[e]] = batches[j].numbers[e]
      BY <1>2, <2>4 DEF BatchesOK
    <3>. QED  BY <1>1, <1>9, <2>4, <3>1 DEF Known
  <2>5. savedBatches[j] # NoBatch => savedBatches[j] = batches[j]
    BY <1>2 DEF BatchesOK
  <2>. QED  BY <2>2, <2>3, <2>4, <2>5
<1>16. CommandsOK'
  <2>1. \A e \in CommandIds : status'[e] # "absent" => keyOf[e] \in Keys
    BY <1>2, <1>9, <1>11 DEF CommandsOK, Known
  <2>2. ASSUME NEW e \in CommandIds, saved[e] # "absent"
        PROVE  keyOf[e] \in Keys /\ \E b \in Devices : RowOf(keyOf[e], b, e)
    BY <1>2, <2>2 DEF CommandsOK
  <2>3. ASSUME NEW e \in CommandIds, status'[e] # "absent", saved[e] # "absent"
        PROVE  /\ RowOf(keyOf[e], deviceOf'[e], e)
               /\ savedBatches[keyOf[e]].numbers[deviceOf'[e]] = sequenceOf'[e]
    <3>1. CASE e = c
      BY <1>3, <1>4, <1>9, <1>11, <3>1
    <3>2. CASE e # c
      BY <1>2, <1>9, <2>3, <3>2 DEF CommandsOK, Known
    <3>. QED  BY <3>1, <3>2
  <2>. QED  BY <1>1, <1>10, <2>1, <2>2, <2>3 DEF CommandsOK, Known, RowOf
<1>17. \A e \in CommandIds : status[e] # "absent" => status'[e] # "absent"
  BY <1>9
<1>18. TasksOK'
  <2>1. ASSUME NEW y, CallOK(y)
        PROVE  CallOK(y)'
    BY <1>1, <1>8, <1>17, <2>1 DEF CallOK, Known, Requesting, Writing
  <2>2. ASSUME NEW u \in Tasks
        PROVE  CallOK(task[u])'
    <3>1. PICK y : y = task[u]
      OBVIOUS
    <3>2. CallOK(y)'
      BY <1>2, <2>1, <3>1 DEF TasksOK
    <3>. QED  BY <1>1, <3>1, <3>2 DEF CallOK
  <2>. QED  BY <2>2 DEF TasksOK
<1>19. PhaseOK'
  <2>1. late \subseteq CommandIds
    BY <1>2 DEF RuntimeTypeOK
  <2>. QED  BY <1>1, <1>2, <1>5, <1>9, <2>1 DEF PhaseOK, Restored, Known
<1>. QED  BY <1>7, <1>12, <1>13, <1>14, <1>15, <1>16, <1>18, <1>19 DEF RuntimeInv

\* A coordinator that knows nothing.
Blank == IInv /\ (\A c \in CommandIds : ~Known(c)) /\ (\A k \in Keys : batches[k] = NoBatch)

\* The coordinator of a new process fits all rows.
LEMMA NewCoordinator == Restart => Blank'
<1>1. Init => Blank
  BY InitIInv DEF Init, New, Known, Blank
<1>2. Restart => Init'
  BY DEF Restart, Init, New
<1>. QED  BY <1>1, <1>2, PTL

\* The process ends; rows, and what was sent and answered, stay.
LEMMA CrashKeeps ==
    ASSUME RuntimeInv, Crash
    PROVE  RuntimeInv'
<1>1. /\ UNCHANGED <<saved, savedBatches, keyOf, delivered, answered>>
      /\ server' = "down" /\ late' = {} /\ connected' = {} /\ Restart
      /\ task' = [t \in Tasks |-> Idle]
  BY DEF Crash, rows, history
<1>2. /\ RuntimeTypeOK /\ RowsOK /\ CommandsOK /\ DoneOK
  BY DEF RuntimeInv
<1>3. IInv' /\ (\A c \in CommandIds : ~Known(c)') /\ (\A k \in Keys : batches'[k] = NoBatch)
  BY <1>1, NewCoordinator DEF Blank
<1>4. \A j, d, c : RowOf(j, d, c)' <=> RowOf(j, d, c)
  BY <1>1 DEF RowOf
<1>5. RuntimeTypeOK'
  BY <1>1, <1>2, IdleCall DEF RuntimeTypeOK
<1>6. BatchesOK'
  BY <1>3 DEF BatchesOK
<1>7. RowsOK'
  <2>1. \A j \in Keys : IsBatch(savedBatches[j])' <=> IsBatch(savedBatches[j])
    BY <1>1 DEF IsBatch
  <2>. QED  BY <1>1, <1>2, <1>4, <2>1 DEF RowsOK
<1>8. CommandsOK'
  BY <1>1, <1>2, <1>3, <1>4 DEF CommandsOK
<1>9. TasksOK'
  <2>1. CallOK(Idle)' /\ Idle' = Idle
    BY IdleCall DEF Idle
  <2>. QED  BY <1>1, <2>1 DEF TasksOK, CallOK
<1>10. PhaseOK'
  BY <1>1, <1>3 DEF PhaseOK, Restored, Idle
<1>11. DoneOK'
  BY <1>1, <1>2, DoneLasts
<1>. QED  BY <1>3, <1>5, <1>6, <1>7, <1>8, <1>9, <1>10, <1>11 DEF RuntimeInv

\* listDevices is answered.
LEMMA ListDevicesKeeps ==
    ASSUME RuntimeInv, NEW t \in Tasks, ListDevices(t)
    PROVE  RuntimeInv'
<1>. DEFINE call == task[t]
<1>1. /\ call.step = "list" /\ call \in Calls
      /\ UNCHANGED <<server, late, connected, rows, delivered, answered>>
  BY CallFacts DEF ListDevices
<1>2. CASE End(t) /\ UNCHANGED <<coordinator, keyOf>>
  <2>1. UNCHANGED <<coordinator, server, late, connected, rows, history>>
    BY <1>1, <1>2 DEF history
  <2>. QED  BY <1>2, <2>1, EndKeeps
<1>3. CASE /\ devices' = Listed /\ KeyUsed(call.key)
           /\ Set(t, [call EXCEPT !.step =
                 IF batches[call.key].request = call.request THEN "save" ELSE "conflict"])
           /\ UNCHANGED <<status, deviceOf, sequenceOf, queue, sequences, batches, keyOf>>
  <2>1. PICK next \in {"save", "conflict"} :
           next = IF batches[call.key].request = call.request THEN "save" ELSE "conflict"
    OBVIOUS
  <2>2. Set(t, [call EXCEPT !.step = next])
    BY <1>3, <2>1
  <2>. QED  BY <1>1, <1>3, <2>2, KeyUsedKeeps
<1>4. CASE /\ devices' = Listed /\ Create(Listed, call.key, call.request)
           /\ keyOf' = [c \in CommandIds |->
                 IF status[c] = "absent" /\ status'[c] # "absent" THEN call.key ELSE keyOf[c]]
           /\ \A c \in CommandIds :
                 status[c] = "absent" /\ status'[c] # "absent" => keyOf[c] = None
           /\ IF batches'[call.key] = NoBatch THEN End(t)
              ELSE Set(t, [call EXCEPT !.step = "save"])
  <2>1. PICK x : x = IF batches'[call.key] = NoBatch THEN Idle ELSE [call EXCEPT !.step = "save"]
    OBVIOUS
  <2>2. x \in Calls
    BY <1>1, <2>1, IdleCall DEF Calls, Requesting
  <2>3. task' = [task EXCEPT ![t] = x]
    BY <1>4, <2>1 DEF End, Set
  <2>4. \/ x = Idle
        \/ x = [call EXCEPT !.step = "save"] /\ batches'[call.key] # NoBatch
    BY <2>1
  <2>. QED  BY <1>1, <1>4, <2>2, <2>3, <2>4, CreateKeeps
<1>. QED  BY <1>2, <1>3, <1>4 DEF ListDevices

\* 409.
LEMMA ConflictKeeps ==
    ASSUME RuntimeInv, NEW t \in Tasks, Conflict(t)
    PROVE  RuntimeInv'
BY EndKeeps DEF Conflict

\* The server is down, and the database empty.
LEMMA RuntimeStarts == RuntimeInit => RuntimeInv
<1>. SUFFICES ASSUME RuntimeInit
              PROVE  RuntimeInv
  OBVIOUS
<1>1. IInv
  BY InitIInv DEF RuntimeInit
<1>2. /\ \A c \in CommandIds : ~Known(c)
      /\ \A k \in Keys : batches[k] = NoBatch
  BY DEF RuntimeInit, Init, New, Known
<1>3. /\ server = "down" /\ late = {} /\ connected = {} /\ task = [t \in Tasks |-> Idle]
      /\ saved = [c \in CommandIds |-> "absent"] /\ savedBatches = [k \in Keys |-> NoBatch]
      /\ keyOf = [c \in CommandIds |-> None] /\ delivered = {} /\ answered = [k \in Keys |-> {}]
  BY DEF RuntimeInit
<1>4. RuntimeTypeOK
  BY <1>3, IdleCall DEF RuntimeTypeOK
<1>5. BatchesOK /\ RowsOK /\ CommandsOK /\ DoneOK
  BY <1>2, <1>3 DEF BatchesOK, RowsOK, CommandsOK, DoneOK, RowOf
<1>6. TasksOK
  BY <1>3, IdleCall DEF TasksOK
<1>7. PhaseOK
  BY <1>2, <1>3 DEF PhaseOK, Restored, Idle
<1>. QED  BY <1>1, <1>4, <1>5, <1>6, <1>7 DEF RuntimeInv

\* Nothing happens.
LEMMA RuntimeStutters ==
    ASSUME RuntimeInv, UNCHANGED runtime
    PROVE  RuntimeInv'
<1>1. /\ UNCHANGED <<coordinator, task, rows, history, server, late, connected>>
  BY DEF runtime
<1>2. UNCHANGED <<status, sequences, saved, savedBatches>> /\ Moves
  BY <1>1, StillFacts, Unmoved DEF coordinator, commands, rows
<1>3. PhaseOK'
  BY <1>1, <1>2, StillFacts DEF PhaseOK, Restored, Known, SequencesRestored, Numbers
<1>. QED  BY <1>1, <1>2, <1>3, StillFacts, StillStep

\* Every step of the runtime keeps the invariant.
LEMMA RuntimeKeeps == RuntimeInv /\ [RuntimeNext]_runtime => RuntimeInv'
<1>. SUFFICES ASSUME RuntimeInv, [RuntimeNext]_runtime
              PROVE  RuntimeInv'
  OBVIOUS
<1>1. ASSUME NEW t \in Tasks,
             \/ FindBatch(t) \/ ListDevices(t) \/ SaveBatch(t) \/ Loop(t)
             \/ Conflict(t) \/ Update(t) \/ Write(t) \/ Send(t)
             \/ Failed(t) \/ Resulted(t) \/ OnDeviceConnected(t)
             \/ \E k \in Keys, request \in Requests : CallCreateBatch(t, k, request)
             \/ \E d \in Devices : Connect(t, d)
             \/ \E c \in CommandIds, result \in Results : AgentResult(t, c, result)
      PROVE  RuntimeInv'
  BY <1>1, FindBatchKeeps, ListDevicesKeeps, SaveBatchKeeps, LoopKeeps, ConflictKeeps,
     UpdateKeeps, WriteKeeps, SendKeeps, FailedKeeps, ResultedKeeps, OnDeviceConnectedKeeps,
     CallCreateBatchKeeps, ConnectKeeps, AgentResultKeeps
<1>2. ASSUME NEW d \in Devices, Disconnect(d) \/ FailCommands(d)
      PROVE  RuntimeInv'
  BY <1>2, DisconnectKeeps, FailCommandsKeeps
<1>3. CASE Recover
  BY <1>3, StartKeeps, RestoreSequenceKeeps, RestoreCommandKeeps, ExpireLateKeeps,
     WriteExpiredKeeps, ReadyKeeps DEF Recover
<1>4. CASE Crash
  BY <1>4, CrashKeeps
<1>5. CASE UNCHANGED runtime
  BY <1>5, RuntimeStutters
<1>. QED  BY <1>1, <1>2, <1>3, <1>4, <1>5 DEF RuntimeNext

\* Tasks, rows and memory agree in every reachable state.
LEMMA RuntimeInvariance == RuntimeSpec => []RuntimeInv
BY RuntimeStarts, RuntimeKeeps, PTL DEF RuntimeSpec

\* However many requests, results, errors and crashes there are, a device is
\* given at most one command for an idempotency key: what was given has the
\* row of its key, and a key has one batch of rows.
THEOREM OncePerKey == RuntimeSpec => []PerKeyOnce
<1>1. RuntimeInv => PerKeyOnce
  <2>. SUFFICES ASSUME DoneOK, NEW x \in delivered, NEW y \in delivered,
                       x[1] = y[1], keyOf[x[2]] = keyOf[y[2]]
                PROVE  x = y
    BY DEF RuntimeInv, PerKeyOnce
  <2>1. /\ x = <<x[1], x[2]>> /\ y = <<y[1], y[2]>>
        /\ RowOf(keyOf[x[2]], x[1], x[2]) /\ RowOf(keyOf[y[2]], y[1], y[2])
    BY DEF DoneOK
  <2>. QED  BY <2>1 DEF RowOf
<1>. QED  BY RuntimeInvariance, <1>1, PTL

\* Every answer a key ever gets is the batch of its rows, which never change.
THEOREM SameAnswer == RuntimeSpec => []IdempotentAnswers
<1>1. RuntimeInv => IdempotentAnswers
  BY DEF RuntimeInv, DoneOK, IdempotentAnswers
<1>. QED  BY RuntimeInvariance, <1>1, PTL

\* The last number of a device is never below one of its rows, after whatever
\* crash and restart.
THEOREM FreshNumbers == RuntimeSpec => []NumbersFresh
<1>1. RuntimeInv => NumbersFresh
  BY DEF RuntimeInv, PhaseOK, Restored, SequencesRestored, NumbersFresh
<1>. QED  BY RuntimeInvariance, <1>1, PTL

\* The restarted server has the queues of its commands right, and knows every
\* command whose row is open.
THEOREM NothingForgotten == RuntimeSpec => []RowsRecovered
<1>1. RuntimeInv => RowsRecovered
  BY DEF RuntimeInv, IInv, PhaseOK, Restored, RowsRecovered
<1>. QED  BY RuntimeInvariance, <1>1, PTL
\* Called by the tasks, with the devices told in between and through every
\* restart, the coordinator sends no command before an earlier open one, and
\* its queues and numbers are right in every state, ready or not.
THEOREM OrderUnderTasks ==
    RuntimeSpec => SentInOrder /\ []QueuesAreOpenCommands /\ []SequencesUnique
<1>1. ASSUME RuntimeInv, RuntimeNext, NEW c \in CommandIds,
             status[c] = "created", status'[c] = "sent",
             NEW e \in CommandIds, Open(e), deviceOf[e] = deviceOf[c]
      PROVE  sequenceOf[e] >= sequenceOf[c]
  <2>0. IInv /\ TypeOK
    BY <1>1 DEF RuntimeInv, IInv
  <2>1. UNCHANGED coordinator => FALSE
    BY <1>1 DEF coordinator, commands
  <2>2. ASSUME NEW x \in CommandIds, NEW next, next # "sent", Transition(x, next)
        PROVE  FALSE
    BY <1>1, <2>0, <2>2 DEF Transition, TypeOK
  <2>3. ASSUME NEW d \in Devices, NEW t, NEW x, Dispatch(t, d, x)
        PROVE  sequenceOf[e] >= sequenceOf[c]
    <3>1. DispatchNext(d)
      BY <2>1, <2>3 DEF Dispatch
    <3>2. /\ FirstOpen(d) \in CommandIds /\ deviceOf[FirstOpen(d)] = d
          /\ \A x1 \in CommandIds :
                Open(x1) /\ deviceOf[x1] = d => sequenceOf[x1] >= sequenceOf[FirstOpen(d)]
      BY <2>0, <3>1, FirstOpenProperties DEF DispatchNext
    <3>3. status' = [status EXCEPT ![FirstOpen(d)] = "sent"]
      BY <2>1, <3>1 DEF DispatchNext, Transition
    <3>4. c = FirstOpen(d)
      BY <1>1, <2>0, <3>3 DEF TypeOK
    <3>. QED  BY <1>1, <3>2, <3>4
  <2>4. ASSUME NEW t \in Tasks, ListDevices(t)
        PROVE  FALSE
    <3>1. ASSUME NEW view, NEW k, NEW request, Create(view, k, request)
          PROVE  FALSE
      <4>1. status'[c] = "created" \/ status'[c] = status[c]
        BY <3>1 DEF Create
      <4>. QED  BY <1>1, <4>1
    <3>2. (\E view, k, request : Create(view, k, request)) \/ status' = status
      BY <2>4 DEF ListDevices, coordinator, commands
    <3>. QED  BY <1>1, <3>1, <3>2
  <2>5. ASSUME NEW t \in Tasks, Loop(t) \/ Resulted(t) \/ OnDeviceConnected(t)
        PROVE  sequenceOf[e] >= sequenceOf[c]
    <3>1. task[t] \in Calls /\ CallOK(task[t])
      BY <1>1, CallFacts
    <3>2. task[t].rest \subseteq Devices
      BY <3>1 DEF Calls
    <3>3. task[t].step = "written" => deviceOf[task[t].command] \in Devices
      <4>1. task[t].step = "written" => task[t].command \in CommandIds /\ Known(task[t].command)
        BY <3>1 DEF CallOK, Writing
      <4>2. \A x \in CommandIds : Known(x) => deviceOf[x] \in Devices
        BY <2>0, KnownHasDevice
      <4>. QED  BY <4>1, <4>2
    <3>4. \E d \in Devices : \E x : Dispatch(t, d, x)
      BY <2>1, <2>5, <3>2, <3>3 DEF Loop, Resulted, OnDeviceConnected, Waiting
    <3>. QED  BY <2>3, <3>4
  <2>6. ASSUME NEW t \in Tasks, Send(t)
        PROVE  FALSE
    <3>1. task[t].step = "written" /\ CallOK(task[t])
      BY <1>1, <2>6, CallFacts DEF Send
    <3>2. task[t].command \in CommandIds
      BY <3>1 DEF CallOK, Writing
    <3>3. Transition(task[t].command, "failed")
      BY <2>1, <2>6 DEF Send
    <3>. QED  BY <2>2, <3>2, <3>3
  <2>7. ASSUME NEW t \in Tasks, NEW x \in CommandIds, NEW result \in Results,
               AgentResult(t, x, result)
        PROVE  FALSE
    <3>1. result # "sent"
      BY ResultsAssumption
    <3>. QED  BY <2>1, <2>2, <2>7, <3>1 DEF AgentResult, HandleAgentResult
  <2>8. ASSUME Recover
        PROVE  FALSE
    <3>1. ASSUME NEW x \in CommandIds, RestoreCommand(x)
          PROVE  FALSE
      <4>1. PICK state : status' = [status EXCEPT ![x] = state] /\ ~Known(x)
        BY <3>1 DEF RestoreCommand, Restore
      <4>. QED  BY <1>1, <2>0, <4>1 DEF Known, TypeOK
    <3>2. ASSUME NEW passed, Expire(passed)
          PROVE  FALSE
      <4>1. status'[c] = "expired" \/ status'[c] = status[c]
        BY <3>2 DEF Expire
      <4>. QED  BY <1>1, <4>1
    <3>3. ASSUME status' = status
          PROVE  FALSE
      BY <1>1, <3>3
    <3>4. \/ \E x \in CommandIds : RestoreCommand(x)
          \/ \E passed : Expire(passed)
          \/ status' = status
      BY <2>8 DEF Recover, Start, RestoreSequence, RestoreDeviceSequence, ExpireLate,
                  WriteExpired, Ready, coordinator, commands
    <3>. QED  BY <3>1, <3>2, <3>3, <3>4
  <2>9. ASSUME Crash
        PROVE  FALSE
    BY <1>1, <2>9 DEF Crash, Restart, New
  <2>10. ASSUME NEW t \in Tasks,
                \/ \E k \in Keys, request \in Requests : CallCreateBatch(t, k, request)
                \/ FindBatch(t) \/ SaveBatch(t) \/ Conflict(t) \/ Update(t) \/ Write(t)
                \/ Failed(t) \/ \E d \in Devices : Connect(t, d)
         PROVE  FALSE
    BY <2>1, <2>10 DEF CallCreateBatch, FindBatch, SaveBatch, Conflict, Update, Write, Failed,
                       Connect
  <2>11. ASSUME NEW d \in Devices, Disconnect(d) \/ FailCommands(d)
         PROVE  FALSE
    BY <2>1, <2>11 DEF Disconnect, FailCommands
  <2>. QED  BY <1>1, <2>4, <2>5, <2>6, <2>7, <2>8, <2>9, <2>10, <2>11 DEF RuntimeNext
<1>2. UNCHANGED runtime => UNCHANGED coordinator
  BY DEF runtime
<1>3. RuntimeInv /\ [RuntimeNext]_runtime =>
        [\A c \in CommandIds : status[c] = "created" /\ status'[c] = "sent" =>
            \A e \in CommandIds :
                Open(e) /\ deviceOf[e] = deviceOf[c] => sequenceOf[e] >= sequenceOf[c]]_coordinator
  BY <1>1, <1>2
<1>4. RuntimeInv => QueuesAreOpenCommands /\ SequencesUnique
  BY DEF RuntimeInv, IInv
<1>. QED  BY RuntimeInvariance, <1>3, <1>4, PTL DEF RuntimeSpec, SentInOrder
=============================================================================
