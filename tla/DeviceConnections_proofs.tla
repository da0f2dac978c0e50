---------------------- MODULE DeviceConnections_proofs ----------------------
(***************************************************************************)
(* What browsers and agents keep of the server's releases and connections. *)
(* One open connection per device, for any number of devices, sockets and  *)
(* overlapping calls, and any limits.  Then the updates of the web         *)
(* application: what becomes active was started by the page that says so,  *)
(* and keeps its cache, for any releases, pages and events in progress.    *)
(***************************************************************************)
EXTENDS DeviceConnections, WebRelease, TLAPS

\* The steps a socket takes before it has a generation.
Nameless == {"new", "find", "found", "challenged", "record"}

\* A socket has a device after its hello, a generation of its own among the
\* device's sockets once it is recorded, and then an open row until it leaves.
NamesOK ==
    \A s \in Sockets :
        /\ handler[s] = "new" <=> deviceOf[s] = None
        /\ handler[s] \in Nameless => generation[s] = 0
        /\ handler[s] \in {"recorded", "undo", "authenticated"}
              => generation[s] > 0 /\ session[s] = "open"

GenerationsOK ==
    /\ \A s \in Sockets : deviceOf[s] # None => generation[s] <= lastGeneration[deviceOf[s]]
    /\ \A s, t \in Sockets :
          deviceOf[s] = deviceOf[t] /\ generation[s] = generation[t] /\ generation[s] > 0 => s = t

\* The route's connection of a device is authenticated for it.
RouteOK ==
    \A d \in Devices : liveSockets[d] # NoConnection =>
        \E s \in Sockets : /\ liveSockets[d] = Connection(s)
                           /\ deviceOf[s] = d /\ handler[s] = "authenticated"

\* A socket recorded for a device that is out of use by now is a missed one.
MissedOK ==
    \A s \in Sockets : handler[s] = "recorded" /\ row[deviceOf[s]] # "active" => s \in missed

\* Who read or decided that a device is deleted is right for good.
ReasonsOK ==
    /\ \A s \in Sockets : handler[s] = "found" /\ found[s] = "deleted" => row[deviceOf[s]] = "deleted"
    /\ \A a \in Calls : /\ call[a] # NoCall => call[a].device \in Devices
                        /\ call[a].reason = "device_deleted" => row[call[a].device] = "deleted"
    /\ \A s \in Sockets : reason[s] = "device_deleted" => handler[s] # "new"
    /\ ErasedOnlyWhenDeleted

IInv == /\ TypeOK /\ NamesOK /\ GenerationsOK /\ RouteOK /\ MissedOK /\ ReasonsOK
        /\ RegistryIsCurrent /\ OneOpenConnection /\ DeactivatedIsOffline
-----------------------------------------------------------------------------
(* The types of what the actions have in common                            *)

\* A handler that throws is at its end, and its socket is closing.
LEMMA ThrowTypes ==
    ASSUME TypeOK, NEW s \in Sockets, NEW why \in Reasons, Throw(s, why)
    PROVE  /\ handler' \in [Sockets -> HandlerSteps]
           /\ line' \in [Sockets -> {"open", "closing", "closed"}]
           /\ reason' \in [Sockets -> Reasons]
<1>1. handler' \in [Sockets -> HandlerSteps]
  <2>1. handler' = [handler EXCEPT ![s] = "failed"] /\ "failed" \in HandlerSteps
    BY DEF Throw, HandlerSteps
  <2>. QED  BY <2>1 DEF TypeOK
<1>2. line' \in [Sockets -> {"open", "closing", "closed"}]
  BY DEF Throw, Close, TypeOK
<1>3. reason' \in [Sockets -> Reasons]
  BY DEF Throw, Close, TypeOK
<1>. QED  BY <1>1, <1>2, <1>3

\* A handler that goes on changes its step only.
LEMMA GoToTypes ==
    ASSUME TypeOK, NEW s \in Sockets, NEW step \in HandlerSteps, GoTo(s, step)
    PROVE  /\ handler' \in [Sockets -> HandlerSteps]
           /\ line' \in [Sockets -> {"open", "closing", "closed"}]
           /\ reason' \in [Sockets -> Reasons]
BY DEF GoTo, TypeOK

\* The hello.
LEMMA HelloTypes ==
    ASSUME TypeOK, NEW s \in Sockets, NEW d \in Devices, Hello(s, d)
    PROVE  TypeOK'
<1>1. Throw(s, "other") \/ GoTo(s, "find")
  BY DEF Hello
<1>2. "other" \in Reasons /\ "find" \in HandlerSteps
  BY DEF Reasons, HandlerSteps
<1>3. /\ handler' \in [Sockets -> HandlerSteps]
      /\ line' \in [Sockets -> {"open", "closing", "closed"}]
      /\ reason' \in [Sockets -> Reasons]
  BY <1>1, <1>2, ThrowTypes, GoToTypes
<1>4. deviceOf' \in [Sockets -> Devices \cup {None}]
  BY DEF Hello, TypeOK
<1>5. pending' \subseteq Sockets /\ expired' \subseteq pending'
  BY DEF Hello, TypeOK
<1>6. UNCHANGED <<row, lastGeneration, session, found, generation, registry, liveSockets, call, missed>>
  BY DEF Hello, rowsVars
<1>. QED  BY <1>3, <1>4, <1>5, <1>6 DEF TypeOK

\* The read of the row.
LEMMA FindDeviceTypes ==
    ASSUME TypeOK, NEW s \in Sockets, FindDevice(s), deviceOf[s] \in Devices
    PROVE  TypeOK'
<1>1. Throw(s, "other") \/ GoTo(s, "found")
  BY DEF FindDevice
<1>2. "other" \in Reasons /\ "found" \in HandlerSteps
  BY DEF Reasons, HandlerSteps
<1>3. /\ handler' \in [Sockets -> HandlerSteps]
      /\ line' \in [Sockets -> {"open", "closing", "closed"}]
      /\ reason' \in [Sockets -> Reasons]
  BY <1>1, <1>2, ThrowTypes, GoToTypes
<1>4. found' \in [Sockets -> RowStates]
  BY DEF FindDevice, TypeOK
<1>5. UNCHANGED <<row, lastGeneration, session, deviceOf, generation, pending, expired, registry,
                  liveSockets, call, missed>>
  BY DEF FindDevice, rowsVars, memoryVars
<1>. QED  BY <1>3, <1>4, <1>5 DEF TypeOK

\* The reply to a hello.
LEMMA ChallengeTypes ==
    ASSUME TypeOK, NEW s \in Sockets, Challenge(s)
    PROVE  TypeOK'
<1>1. Throw(s, "device_deleted") \/ Throw(s, "other") \/ GoTo(s, "challenged")
  BY DEF Challenge
<1>2. "other" \in Reasons /\ "device_deleted" \in Reasons /\ "challenged" \in HandlerSteps
  BY DEF Reasons, HandlerSteps
<1>3. /\ handler' \in [Sockets -> HandlerSteps]
      /\ line' \in [Sockets -> {"open", "closing", "closed"}]
      /\ reason' \in [Sockets -> Reasons]
  BY <1>1, <1>2, ThrowTypes, GoToTypes
<1>4. pending' = pending \/ pending' = pending \cup {s}
  BY DEF Challenge
<1>5. UNCHANGED <<row, lastGeneration, session, deviceOf, found, generation, expired, registry,
                  liveSockets, call, missed>>
  BY DEF Challenge, rowsVars
<1>. QED  BY <1>3, <1>4, <1>5 DEF TypeOK

\* The answer to a challenge.
LEMMA AuthenticateTypes ==
    ASSUME TypeOK, NEW s \in Sockets, Authenticate(s)
    PROVE  TypeOK'
<1>1. Throw(s, "other") \/ GoTo(s, "record")
  BY DEF Authenticate
<1>2. "other" \in Reasons /\ "record" \in HandlerSteps
  BY DEF Reasons, HandlerSteps
<1>3. /\ handler' \in [Sockets -> HandlerSteps]
      /\ line' \in [Sockets -> {"open", "closing", "closed"}]
      /\ reason' \in [Sockets -> Reasons]
  BY <1>1, <1>2, ThrowTypes, GoToTypes
<1>4. pending' = pending \ {s} /\ expired' = expired \ {s}
  BY DEF Authenticate
<1>5. UNCHANGED <<row, lastGeneration, session, deviceOf, found, generation, registry,
                  liveSockets, call, missed>>
  BY DEF Authenticate, rowsVars
<1>. QED  BY <1>3, <1>4, <1>5 DEF TypeOK

\* The session's row.
LEMMA RecordTypes ==
    ASSUME TypeOK, NEW s \in Sockets, Record(s), deviceOf[s] \in Devices
    PROVE  TypeOK'
<1>1. Throw(s, "other") \/ GoTo(s, "recorded")
  BY DEF Record
<1>2. "other" \in Reasons /\ "recorded" \in HandlerSteps
  BY DEF Reasons, HandlerSteps
<1>3. /\ handler' \in [Sockets -> HandlerSteps]
      /\ line' \in [Sockets -> {"open", "closing", "closed"}]
      /\ reason' \in [Sockets -> Reasons]
  BY <1>1, <1>2, ThrowTypes, GoToTypes
<1>4. /\ lastGeneration' \in [Devices -> Nat] /\ generation' \in [Sockets -> Nat]
      /\ session' \in [Sockets -> {"none", "open", "closed"}]
  <2>1. PICK n \in Nat : n = lastGeneration[deviceOf[s]] + 1
    BY DEF TypeOK
  <2>2. CASE InsertSession(s)
    <3>1. /\ lastGeneration' = [lastGeneration EXCEPT ![deviceOf[s]] = n]
          /\ generation' = [generation EXCEPT ![s] = n]
          /\ session' = [session EXCEPT ![s] = "open"]
      BY <2>1, <2>2 DEF InsertSession
    <3>. QED  BY <3>1 DEF TypeOK
  <2>3. CASE UNCHANGED <<lastGeneration, generation, session>>
    BY <2>3 DEF TypeOK
  <2>. QED  BY <2>2, <2>3 DEF Record
<1>5. UNCHANGED <<row, deviceOf, found, pending, expired, registry, liveSockets, call, missed>>
  BY DEF Record, memoryVars
<1>. QED  BY <1>3, <1>4, <1>5 DEF TypeOK

\* A connection of a socket.
LEMMA ConnectionType ==
    ASSUME TypeOK, NEW s \in Sockets
    PROVE  Connection(s) \in Connections
BY DEF TypeOK, Connection, Connections

\* The connection that is known, or its refusal.
LEMMA RegisterTypes ==
    ASSUME TypeOK, NEW s \in Sockets, Register(s), deviceOf[s] \in Devices
    PROVE  TypeOK'
<1>1. UNCHANGED <<row, lastGeneration, session, deviceOf, found, generation, pending, expired, call, missed>>
  BY DEF Register, rowsVars
<1>2. CASE GoTo(s, "undo") /\ UNCHANGED <<registry, liveSockets>>
  <2>1. /\ handler' \in [Sockets -> HandlerSteps]
        /\ line' \in [Sockets -> {"open", "closing", "closed"}]
        /\ reason' \in [Sockets -> Reasons]
    BY <1>2, GoToTypes DEF HandlerSteps
  <2>. QED  BY <1>1, <1>2, <2>1 DEF TypeOK
<1>3. CASE /\ registry' = [registry EXCEPT ![deviceOf[s]] = Connection(s)]
           /\ liveSockets' = [liveSockets EXCEPT ![deviceOf[s]] = Connection(s)]
           /\ handler' = [handler EXCEPT ![s] = "authenticated"]
           /\ Close({liveSockets[deviceOf[s]].socket} \ {None}, "other")
  <2>1. PICK x \in Connections : x = Connection(s)
    BY ConnectionType
  <2>2. /\ registry' \in [Devices -> Connections]
        /\ liveSockets' \in [Devices -> Connections]
    BY <1>3, <2>1 DEF TypeOK
  <2>3. handler' \in [Sockets -> HandlerSteps]
    BY <1>3 DEF TypeOK, HandlerSteps
  <2>4. PICK closed : Close(closed, "other")
    BY <1>3
  <2>5. line' \in [Sockets -> {"open", "closing", "closed"}]
    BY <2>4 DEF Close, TypeOK
  <2>6. reason' \in [Sockets -> Reasons]
    BY <2>4 DEF Close, TypeOK, Reasons
  <2>. QED  BY <1>1, <2>2, <2>3, <2>5, <2>6 DEF TypeOK
<1>. QED  BY <1>2, <1>3 DEF Register

\* The close event.
LEMMA ClosedTypes ==
    ASSUME TypeOK, NEW s \in Sockets, Closed(s)
    PROVE  TypeOK'
<1>1. PICK x \in Connections : x = NoConnection
  BY DEF Connections, NoConnection
<1>2. registry' = registry \/ registry' = [registry EXCEPT ![deviceOf[s]] = x]
  BY <1>1 DEF Closed
<1>3. liveSockets' = liveSockets \/ liveSockets' = [liveSockets EXCEPT ![deviceOf[s]] = x]
  BY <1>1 DEF Closed
<1>4. registry' \in [Devices -> Connections]
  BY <1>2 DEF TypeOK
<1>5. liveSockets' \in [Devices -> Connections]
  BY <1>3 DEF TypeOK
<1>6. handler' \in [Sockets -> HandlerSteps]
  BY DEF Closed, TypeOK, HandlerSteps
<1>7. line' \in [Sockets -> {"open", "closing", "closed"}]
  BY DEF Closed, TypeOK
<1>8. UNCHANGED <<row, lastGeneration, session, reason, deviceOf, found, generation, pending, expired,
                  call, missed>>
  BY DEF Closed, rowsVars
<1>. QED  BY <1>4, <1>5, <1>6, <1>7, <1>8 DEF TypeOK

\* A device that is taken out of use.
LEMMA DeactivateTypes ==
    ASSUME TypeOK, NEW a \in Calls, NEW d \in Devices, NEW state \in {"disabled", "revoked", "deleted"},
           Deactivate(a, d, state)
    PROVE  TypeOK'
<1>1. row' \in [Devices -> RowStates]
  BY DEF Deactivate, TypeOK, RowStates
<1>2. call' \in [Calls -> [device : Devices \cup {None}, reason : Reasons]]
  <2>1. PICK w \in Reasons : w = IF state = "deleted" THEN "device_deleted" ELSE "other"
    BY DEF Reasons
  <2>2. PICK x : x = [device |-> d, reason |-> w]
    OBVIOUS
  <2>3. x \in [device : Devices \cup {None}, reason : Reasons]
    BY <2>2
  <2>4. call' = call \/ call' = [call EXCEPT ![a] = x]
    BY <2>1, <2>2 DEF Deactivate
  <2>. QED  BY <2>3, <2>4 DEF TypeOK
<1>3. missed' \subseteq Sockets
  BY DEF Deactivate, TypeOK, At
<1>4. UNCHANGED <<lastGeneration, session, line, reason, handler, deviceOf, found, generation,
                  pending, expired, registry, liveSockets>>
  BY DEF Deactivate, socketVars, memoryVars
<1>. QED  BY <1>1, <1>2, <1>3, <1>4 DEF TypeOK

-----------------------------------------------------------------------------
(* One lemma per action                                                    *)

\* The hello gives a socket its device; nobody else knows the socket.
LEMMA HelloIInv ==
    ASSUME IInv, NEW s \in Sockets, NEW d \in Devices, Hello(s, d)
    PROVE  IInv'
<1>1. TypeOK'
  BY HelloTypes DEF IInv
<1>. USE NoneAssumption DEF IInv, TypeOK, RowStates, Reasons, HandlerSteps, Connections,
                            Hello, Throw, GoTo, Close,
                            rowsVars, socketVars, memoryVars
<1>2. NamesOK'
  BY DEF NamesOK, Nameless
<1>3. GenerationsOK'
  <2>1. generation[s] = 0
    BY DEF NamesOK, Nameless
  <2>2. ASSUME NEW x \in Sockets, deviceOf'[x] # None
        PROVE  generation'[x] <= lastGeneration'[deviceOf'[x]]
    BY <2>1, <2>2 DEF GenerationsOK
  <2>3. ASSUME NEW x \in Sockets, NEW t \in Sockets, deviceOf'[x] = deviceOf'[t],
               generation'[x] = generation'[t], generation'[x] > 0
        PROVE  x = t
    BY <2>1, <2>3 DEF GenerationsOK
  <2>. QED  BY <2>2, <2>3 DEF GenerationsOK
<1>4. RouteOK'
  BY DEF RouteOK, Connection, NoConnection
<1>5. MissedOK'
  BY DEF MissedOK
<1>6. ReasonsOK'
  <2>1. \A x \in Sockets : reason'[x] = "device_deleted" =>
            reason[x] = "device_deleted" /\ handler'[x] # "new"
    BY DEF ReasonsOK
  <2>2. ErasedOnlyWhenDeleted'
    BY <2>1 DEF ReasonsOK, ErasedOnlyWhenDeleted
  <2>3. \A x \in Sockets : handler'[x] = "found" => handler[x] = "found" /\ deviceOf'[x] = deviceOf[x]
    OBVIOUS
  <2>. QED  BY <2>1, <2>2, <2>3 DEF ReasonsOK, NoCall
<1>7. RegistryIsCurrent'
  BY DEF RegistryIsCurrent, Online, Connection, NoConnection
<1>8. OneOpenConnection'
  BY DEF OneOpenConnection, Connection, NoConnection
<1>9. DeactivatedIsOffline'
  BY DEF DeactivatedIsOffline, Online, NoConnection, Connection, NoCall
<1>. QED  BY <1>1, <1>2, <1>3, <1>4, <1>5, <1>6, <1>7, <1>8, <1>9

\* The device's row is read.
LEMMA FindDeviceIInv ==
    ASSUME IInv, NEW s \in Sockets, FindDevice(s)
    PROVE  IInv'
<1>1. TypeOK'
  <2>1. deviceOf[s] \in Devices
    BY DEF IInv, TypeOK, NamesOK, FindDevice
  <2>. QED  BY <2>1, FindDeviceTypes DEF IInv
<1>. USE NoneAssumption DEF IInv, TypeOK, RowStates, Reasons, HandlerSteps, Connections,
                            FindDevice, Throw, GoTo, Close,
                            rowsVars, socketVars, memoryVars
<1>0. deviceOf[s] \in Devices
  BY DEF NamesOK
<1>2. NamesOK'
  BY DEF NamesOK, Nameless
<1>3. GenerationsOK'
  BY DEF GenerationsOK
<1>4. RouteOK'
  BY DEF RouteOK, Connection, NoConnection
<1>5. MissedOK'
  BY DEF MissedOK
<1>6. ReasonsOK'
  <2>1. ASSUME NEW x \in Sockets, handler'[x] = "found", found'[x] = "deleted"
        PROVE  row[deviceOf[x]] = "deleted"
    BY <2>1, <1>0 DEF ReasonsOK
  <2>2. \A x \in Sockets : reason'[x] = "device_deleted" =>
            reason[x] = "device_deleted" /\ handler'[x] # "new"
    BY DEF ReasonsOK
  <2>. QED  BY <2>1, <2>2 DEF ReasonsOK, ErasedOnlyWhenDeleted, NoCall
<1>7. RegistryIsCurrent'
  BY DEF RegistryIsCurrent, Online, Connection, NoConnection
<1>8. OneOpenConnection'
  BY DEF OneOpenConnection, Connection, NoConnection
<1>9. DeactivatedIsOffline'
  BY DEF DeactivatedIsOffline, Online, NoConnection, Connection, NoCall
<1>. QED  BY <1>1, <1>2, <1>3, <1>4, <1>5, <1>6, <1>7, <1>8, <1>9

\* The reply: a challenge, or none.
LEMMA ChallengeIInv ==
    ASSUME IInv, NEW s \in Sockets, Challenge(s)
    PROVE  IInv'
<1>1. TypeOK'
  BY ChallengeTypes DEF IInv
<1>. USE NoneAssumption DEF IInv, TypeOK, RowStates, Reasons, HandlerSteps, Connections,
                            Challenge, Throw, GoTo, Close,
                            rowsVars, socketVars, memoryVars
<1>2. NamesOK'
  BY DEF NamesOK, Nameless
<1>3. GenerationsOK'
  BY DEF GenerationsOK
<1>4. RouteOK'
  BY DEF RouteOK, Connection, NoConnection
<1>5. MissedOK'
  BY DEF MissedOK
<1>6. ReasonsOK'
  BY DEF ReasonsOK, ErasedOnlyWhenDeleted, NoCall
<1>7. RegistryIsCurrent'
  BY DEF RegistryIsCurrent, Online, Connection, NoConnection
<1>8. OneOpenConnection'
  BY DEF OneOpenConnection, Connection, NoConnection
<1>9. DeactivatedIsOffline'
  BY DEF DeactivatedIsOffline, Online, NoConnection, Connection, NoCall
<1>. QED  BY <1>1, <1>2, <1>3, <1>4, <1>5, <1>6, <1>7, <1>8, <1>9

\* A challenge runs out of time.
LEMMA ExpireChallengeIInv ==
    ASSUME IInv, NEW s \in Sockets, ExpireChallenge(s)
    PROVE  IInv'
<1>. USE NoneAssumption DEF IInv, TypeOK, RowStates, Reasons, HandlerSteps, Connections,
                            ExpireChallenge,
                            rowsVars, socketVars, memoryVars
<1>1. TypeOK'
  BY DEF NoConnection, NoCall, Connection
<1>2. NamesOK'
  BY DEF NamesOK, Nameless
<1>3. GenerationsOK'
  BY DEF GenerationsOK
<1>4. RouteOK'
  BY DEF RouteOK, Connection, NoConnection
<1>5. MissedOK'
  BY DEF MissedOK
<1>6. ReasonsOK'
  BY DEF ReasonsOK, ErasedOnlyWhenDeleted, NoCall
<1>7. RegistryIsCurrent'
  BY DEF RegistryIsCurrent, Online, Connection, NoConnection
<1>8. OneOpenConnection'
  BY DEF OneOpenConnection, Connection, NoConnection
<1>9. DeactivatedIsOffline'
  BY DEF DeactivatedIsOffline, Online, NoConnection, Connection, NoCall
<1>. QED  BY <1>1, <1>2, <1>3, <1>4, <1>5, <1>6, <1>7, <1>8, <1>9

\* A challenge is answered.
LEMMA AuthenticateIInv ==
    ASSUME IInv, NEW s \in Sockets, Authenticate(s)
    PROVE  IInv'
<1>1. TypeOK'
  BY AuthenticateTypes DEF IInv
<1>. USE NoneAssumption DEF IInv, TypeOK, RowStates, Reasons, HandlerSteps, Connections,
                            Authenticate, Throw, GoTo, Close,
                            rowsVars, socketVars, memoryVars
<1>2. NamesOK'
  BY DEF NamesOK, Nameless
<1>3. GenerationsOK'
  BY DEF GenerationsOK
<1>4. RouteOK'
  BY DEF RouteOK, Connection, NoConnection
<1>5. MissedOK'
  BY DEF MissedOK
<1>6. ReasonsOK'
  BY DEF ReasonsOK, ErasedOnlyWhenDeleted, NoCall
<1>7. RegistryIsCurrent'
  BY DEF RegistryIsCurrent, Online, Connection, NoConnection
<1>8. OneOpenConnection'
  BY DEF OneOpenConnection, Connection, NoConnection
<1>9. DeactivatedIsOffline'
  BY DEF DeactivatedIsOffline, Online, NoConnection, Connection, NoCall
<1>. QED  BY <1>1, <1>2, <1>3, <1>4, <1>5, <1>6, <1>7, <1>8, <1>9

\* The new generation is larger than those of all the device's sockets.
LEMMA RecordIInv ==
    ASSUME IInv, NEW s \in Sockets, Record(s)
    PROVE  IInv'
<1>1. TypeOK'
  <2>1. deviceOf[s] \in Devices
    BY DEF IInv, TypeOK, NamesOK, Record
  <2>. QED  BY <2>1, RecordTypes DEF IInv
<1>. USE NoneAssumption DEF IInv, TypeOK, RowStates, Reasons, HandlerSteps, Connections,
                            Record, Throw, GoTo, Close, InsertSession,
                            rowsVars, socketVars, memoryVars
<1>0. deviceOf[s] \in Devices
  BY DEF NamesOK
<1>2. NamesOK'
  BY DEF NamesOK, Nameless
<1>3. GenerationsOK'
  <2>1. CASE generation' = generation /\ lastGeneration' = lastGeneration
    BY <2>1 DEF GenerationsOK
  <2>2. CASE InsertSession(s)
    <3>1. /\ generation' = [generation EXCEPT ![s] = lastGeneration[deviceOf[s]] + 1]
          /\ lastGeneration' = [lastGeneration EXCEPT ![deviceOf[s]] = @ + 1]
          /\ deviceOf' = deviceOf
      BY <2>2
    <3>2. ASSUME NEW x \in Sockets, deviceOf[x] # None
          PROVE  generation'[x] <= lastGeneration'[deviceOf[x]]
      <4>1. generation[x] <= lastGeneration[deviceOf[x]] /\ deviceOf[x] \in Devices
        BY <3>2 DEF GenerationsOK
      <4>. QED  BY <3>1, <4>1, <1>0
    <3>3. ASSUME NEW x \in Sockets, x # s, deviceOf[x] = deviceOf[s]
          PROVE  generation'[x] < generation'[s]
      <4>1. generation[x] <= lastGeneration[deviceOf[s]]
        BY <3>3, <1>0 DEF GenerationsOK
      <4>. QED  BY <3>1, <3>3, <4>1, <1>0
    <3>4. ASSUME NEW x \in Sockets, NEW t \in Sockets, deviceOf[x] = deviceOf[t],
                 generation'[x] = generation'[t], generation'[x] > 0
          PROVE  x = t
      <4>1. CASE x = s \/ t = s
        BY <4>1, <3>4, <3>3, <3>1, <1>0
      <4>2. CASE x # s /\ t # s
        BY <4>2, <3>4, <3>1 DEF GenerationsOK
      <4>. QED  BY <4>1, <4>2
    <3>. QED  BY <3>1, <3>2, <3>4 DEF GenerationsOK
  <2>. QED  BY <2>1, <2>2
<1>4. RouteOK'
  BY DEF RouteOK, Connection, NoConnection
<1>5. MissedOK'
  BY DEF MissedOK
<1>6. ReasonsOK'
  BY DEF ReasonsOK, ErasedOnlyWhenDeleted, NoCall
<1>7. RegistryIsCurrent'
  BY DEF RegistryIsCurrent, Online, Connection, NoConnection
<1>8. OneOpenConnection'
  BY DEF OneOpenConnection, Connection, NoConnection
<1>9. DeactivatedIsOffline'
  BY DEF DeactivatedIsOffline, Online, NoConnection, Connection, NoCall
<1>. QED  BY <1>1, <1>2, <1>3, <1>4, <1>5, <1>6, <1>7, <1>8, <1>9

\* The socket takes the place of the one the route knows, which is the only one of
\* the device that may still be open.
LEMMA RegisterIInv ==
    ASSUME IInv, NEW s \in Sockets, Register(s)
    PROVE  IInv'
<1>1. TypeOK'
  <2>1. deviceOf[s] \in Devices
    BY DEF IInv, TypeOK, NamesOK, Register
  <2>. QED  BY <2>1, RegisterTypes DEF IInv
<1>. USE NoneAssumption DEF IInv, TypeOK, RowStates, Reasons, HandlerSteps, Connections,
                            Register, GoTo, Close,
                            rowsVars, socketVars, memoryVars
<1>0. deviceOf[s] \in Devices
  BY DEF NamesOK
<1>. DEFINE d == deviceOf[s]
<1>a. CASE ConnectRefused(s)
  <2>. USE <1>a
  <2>1. TypeOK'
    BY <1>1
  <2>2. NamesOK'
    BY DEF NamesOK, Nameless
  <2>3. GenerationsOK'
    BY DEF GenerationsOK
  <2>4. RouteOK'
    BY DEF RouteOK, Connection, NoConnection
  <2>5. MissedOK'
    BY DEF MissedOK
  <2>6. ReasonsOK'
    BY DEF ReasonsOK, ErasedOnlyWhenDeleted, NoCall
  <2>7. RegistryIsCurrent'
    BY DEF RegistryIsCurrent, Online, Connection, NoConnection
  <2>8. OneOpenConnection'
    BY DEF OneOpenConnection, Connection, NoConnection
  <2>9. DeactivatedIsOffline'
    BY DEF DeactivatedIsOffline, Online, NoConnection, Connection, NoCall
  <2>. QED  BY <2>1, <2>2, <2>3, <2>4, <2>5, <2>6, <2>7, <2>8, <2>9
<1>b. CASE ~ConnectRefused(s)
  <2>. USE <1>b, <1>0
  <2>0. /\ registry' = [registry EXCEPT ![d] = Connection(s)]
        /\ liveSockets' = [liveSockets EXCEPT ![d] = Connection(s)]
        /\ handler' = [handler EXCEPT ![s] = "authenticated"]
        /\ \A t \in Sockets : t = liveSockets[d].socket => line'[t] # "open"
        /\ \A t \in Sockets : line'[t] = "open" => line[t] = "open"
        /\ \A t \in Sockets : reason'[t] = "device_deleted" => reason[t] = "device_deleted"
        /\ line' \in [Sockets -> {"open", "closing", "closed"}]
        /\ reason' \in [Sockets -> {"none", "other", "device_deleted"}]
        /\ UNCHANGED <<rowsVars, deviceOf, found, generation, pending, expired, call, missed>>
    <3>1. /\ registry' = [registry EXCEPT ![d] = Connection(s)]
          /\ liveSockets' = [liveSockets EXCEPT ![d] = Connection(s)]
          /\ handler' = [handler EXCEPT ![s] = "authenticated"]
          /\ Close({liveSockets[d].socket} \ {None}, "other")
          /\ UNCHANGED <<rowsVars, deviceOf, found, generation, pending, expired, call, missed>>
      OBVIOUS
    <3>2. \A t \in Sockets : t = liveSockets[d].socket => line'[t] # "open"
      BY <3>1
    <3>3. \A t \in Sockets : line'[t] = "open" => line[t] = "open"
      BY <3>1
    <3>4. \A t \in Sockets : reason'[t] = "device_deleted" => reason[t] = "device_deleted"
      BY <3>1
    <3>5. /\ line' \in [Sockets -> {"open", "closing", "closed"}]
          /\ reason' \in [Sockets -> {"none", "other", "device_deleted"}]
      BY <3>1
    <3>. QED  BY <3>1, <3>2, <3>3, <3>4, <3>5
  <2>1. TypeOK'
    BY <1>1
  <2>2. NamesOK'
    BY <2>0 DEF NamesOK, Nameless
  <2>3. GenerationsOK'
    BY <2>0 DEF GenerationsOK
  <2>4. RouteOK'
    <3>. SUFFICES ASSUME NEW e \in Devices, liveSockets'[e] # NoConnection
                  PROVE  \E t \in Sockets : /\ liveSockets'[e] = Connection(t)
                                            /\ deviceOf[t] = e /\ handler'[t] = "authenticated"
      BY <2>0 DEF RouteOK, Connection
    <3>1. CASE e = d
      BY <3>1, <2>0
    <3>2. CASE e # d
      <4>1. PICK t \in Sockets : /\ liveSockets[e] = Connection(t)
                                /\ deviceOf[t] = e /\ handler[t] = "authenticated"
        BY <3>2, <2>0 DEF RouteOK
      <4>. QED  BY <4>1, <3>2, <2>0
    <3>. QED  BY <3>1, <3>2
  <2>5. MissedOK'
    BY <2>0 DEF MissedOK
  <2>6. ReasonsOK'
    BY <2>0 DEF ReasonsOK, ErasedOnlyWhenDeleted, NoCall
  <2>7. RegistryIsCurrent'
    <3>. SUFFICES ASSUME NEW e \in Devices, registry'[e] # NoConnection
                  PROVE  \E t \in Sockets :
                            /\ registry'[e] = Connection(t) /\ liveSockets'[e] = Connection(t)
                            /\ deviceOf[t] = e /\ handler'[t] = "authenticated" /\ session[t] = "open"
      <4>1. session' = session /\ deviceOf' = deviceOf /\ generation' = generation
        BY <2>0
      <4>2. \A t \in Sockets : Connection(t)' = Connection(t)
        BY <4>1 DEF Connection
      <4>. QED  BY <4>1, <4>2 DEF RegistryIsCurrent, Online, NoConnection
    <3>1. CASE e = d
      BY <3>1, <2>0 DEF NamesOK
    <3>2. CASE e # d
      <4>1. PICK t \in Sockets :
                /\ registry[e] = Connection(t) /\ liveSockets[e] = Connection(t)
                /\ deviceOf[t] = e /\ handler[t] = "authenticated" /\ session[t] = "open"
        BY <3>2, <2>0 DEF RegistryIsCurrent, Online
      <4>. QED  BY <4>1, <3>2, <2>0
    <3>. QED  BY <3>1, <3>2
  <2>8. OneOpenConnection'
    <3>. SUFFICES ASSUME NEW t \in Sockets, handler'[t] = "authenticated", line'[t] = "open"
                  PROVE  registry'[deviceOf[t]] = Connection(t)
      BY <2>0 DEF OneOpenConnection, Connection
    <3>1. CASE t = s
      BY <3>1, <2>0
    <3>2. CASE t # s
      <4>1. registry[deviceOf[t]] = Connection(t)
        BY <3>2, <2>0 DEF OneOpenConnection
      <4>2. ASSUME deviceOf[t] = d PROVE FALSE
        <5>1. liveSockets[d] = registry[d]
          BY <4>1, <4>2 DEF RegistryIsCurrent, Online, Connection, NoConnection
        <5>. QED  BY <5>1, <4>1, <4>2, <2>0 DEF Connection
      <4>. QED  BY <4>1, <4>2, <2>0
    <3>. QED  BY <3>1, <3>2
  <2>9. DeactivatedIsOffline'
    <3>. SUFFICES ASSUME NEW e \in Devices, registry'[e] # NoConnection, row[e] # "active"
                  PROVE  (\E b \in Calls : call[b].device = e) \/ registry'[e].socket \in missed
      BY <2>0 DEF DeactivatedIsOffline, Online
    <3>1. CASE e = d
      <4>1. s \in missed
        BY <3>1 DEF MissedOK
      <4>. QED  BY <4>1, <3>1, <2>0 DEF Connection
    <3>2. CASE e # d
      BY <3>2, <2>0 DEF DeactivatedIsOffline, Online
    <3>. QED  BY <3>1, <3>2
  <2>. QED  BY <2>1, <2>2, <2>3, <2>4, <2>5, <2>6, <2>7, <2>8, <2>9
<1>. QED  BY <1>a, <1>b

\* The row of a refused connection is closed.
LEMMA UndoIInv ==
    ASSUME IInv, NEW s \in Sockets, Undo(s)
    PROVE  IInv'
<1>. USE NoneAssumption DEF IInv, TypeOK, RowStates, Reasons, HandlerSteps, Connections,
                            Undo, Throw, Close,
                            rowsVars, socketVars, memoryVars
<1>1. TypeOK'
  BY DEF NoConnection, NoCall, Connection
<1>2. NamesOK'
  BY DEF NamesOK, Nameless
<1>3. GenerationsOK'
  BY DEF GenerationsOK
<1>4. RouteOK'
  BY DEF RouteOK, Connection, NoConnection
<1>5. MissedOK'
  BY DEF MissedOK
<1>6. ReasonsOK'
  BY DEF ReasonsOK, ErasedOnlyWhenDeleted, NoCall
<1>7. RegistryIsCurrent'
  BY DEF RegistryIsCurrent, Online, Connection, NoConnection
<1>8. OneOpenConnection'
  BY DEF OneOpenConnection, Connection, NoConnection
<1>9. DeactivatedIsOffline'
  BY DEF DeactivatedIsOffline, Online, NoConnection, Connection, NoCall
<1>. QED  BY <1>1, <1>2, <1>3, <1>4, <1>5, <1>6, <1>7, <1>8, <1>9

\* The server closes a connection.
LEMMA GiveUpIInv ==
    ASSUME IInv, NEW s \in Sockets, GiveUp(s)
    PROVE  IInv'
<1>. USE NoneAssumption DEF IInv, TypeOK, RowStates, Reasons, HandlerSteps, Connections,
                            GiveUp, Close,
                            rowsVars, socketVars, memoryVars
<1>1. TypeOK'
  BY DEF NoConnection, NoCall, Connection
<1>2. NamesOK'
  BY DEF NamesOK, Nameless
<1>3. GenerationsOK'
  BY DEF GenerationsOK
<1>4. RouteOK'
  BY DEF RouteOK, Connection, NoConnection
<1>5. MissedOK'
  BY DEF MissedOK
<1>6. ReasonsOK'
  BY DEF ReasonsOK, ErasedOnlyWhenDeleted, NoCall
<1>7. RegistryIsCurrent'
  BY DEF RegistryIsCurrent, Online, Connection, NoConnection
<1>8. OneOpenConnection'
  BY DEF OneOpenConnection, Connection, NoConnection
<1>9. DeactivatedIsOffline'
  BY DEF DeactivatedIsOffline, Online, NoConnection, Connection, NoCall
<1>. QED  BY <1>1, <1>2, <1>3, <1>4, <1>5, <1>6, <1>7, <1>8, <1>9

\* A close event takes the device offline only if the socket is the current one,
\* which its generation tells.
LEMMA ClosedIInv ==
    ASSUME IInv, NEW s \in Sockets, Closed(s)
    PROVE  IInv'
<1>1. TypeOK'
  BY ClosedTypes DEF IInv
<1>. USE NoneAssumption DEF IInv, TypeOK, RowStates, Reasons, HandlerSteps, Connections,
                            Closed,
                            rowsVars, socketVars, memoryVars
<1>0. handler[s] = "authenticated" => deviceOf[s] \in Devices
  BY DEF NamesOK
<1>2. NamesOK'
  BY DEF NamesOK, Nameless
<1>3. GenerationsOK'
  BY DEF GenerationsOK
<1>4. RouteOK'
  <2>. SUFFICES ASSUME NEW e \in Devices, liveSockets'[e] # NoConnection
                PROVE  \E t \in Sockets : /\ liveSockets'[e] = Connection(t)
                                          /\ deviceOf[t] = e /\ handler'[t] = "authenticated"
    <3>1. deviceOf' = deviceOf /\ generation' = generation
      OBVIOUS
    <3>2. \A t \in Sockets : Connection(t)' = Connection(t)
      BY <3>1 DEF Connection
    <3>. QED  BY <3>1, <3>2 DEF RouteOK, NoConnection
  <2>1. liveSockets'[e] = liveSockets[e]
    BY <1>0 DEF NoConnection
  <2>2. PICK t \in Sockets : /\ liveSockets[e] = Connection(t)
                            /\ deviceOf[t] = e /\ handler[t] = "authenticated"
    BY <2>1 DEF RouteOK
  <2>3. t # s
    BY <2>1, <2>2, <1>0 DEF Connection
  <2>. QED  BY <2>1, <2>2, <2>3
<1>5. MissedOK'
  BY DEF MissedOK
<1>6. ReasonsOK'
  BY DEF ReasonsOK, ErasedOnlyWhenDeleted, NoCall
<1>7. RegistryIsCurrent'
  BY DEF RegistryIsCurrent, Online, Connection, NoConnection, Current
<1>8. OneOpenConnection'
  <2>. SUFFICES ASSUME NEW t \in Sockets, handler'[t] = "authenticated", line'[t] = "open"
                PROVE  registry'[deviceOf[t]] = Connection(t)
    BY DEF OneOpenConnection, Connection
  <2>1. t # s /\ handler[t] = "authenticated" /\ line[t] = "open"
    OBVIOUS
  <2>2. registry[deviceOf[t]] = Connection(t)
    BY <2>1 DEF OneOpenConnection
  <2>3. CASE registry' = registry
    BY <2>2, <2>3
  <2>4. CASE handler[s] = "authenticated" /\ Current(s)
    <3>1. deviceOf[t] # deviceOf[s] \/ generation[t] # generation[s]
      BY <2>1, <2>4 DEF GenerationsOK, NamesOK
    <3>2. deviceOf[t] # deviceOf[s]
      BY <3>1, <2>2, <2>4 DEF Current, Connection
    <3>3. registry' = [registry EXCEPT ![deviceOf[s]] = NoConnection]
      BY <2>4
    <3>4. deviceOf[t] \in Devices
      BY <2>1 DEF NamesOK
    <3>. QED  BY <2>2, <3>2, <3>3, <3>4, <1>0
  <2>. QED  BY <2>3, <2>4
<1>9. DeactivatedIsOffline'
  <2>1. row' = row /\ call' = call /\ missed' = missed
    OBVIOUS
  <2>2. registry' = registry \/ registry' = [registry EXCEPT ![deviceOf[s]] = NoConnection]
    OBVIOUS
  <2>3. registry \in [Devices -> Connections]
    OBVIOUS
  <2>4. ASSUME NEW e \in Devices, registry'[e] # NoConnection
        PROVE  registry'[e] = registry[e]
    <3>. USE DEF NoConnection
    <3>. QED  BY <2>2, <2>3, <2>4
  <2>5. DeactivatedIsOffline
    OBVIOUS
  <2>. QED  BY <2>1, <2>4, <2>5 DEF DeactivatedIsOffline, Online, NoConnection
<1>. QED  BY <1>1, <1>2, <1>3, <1>4, <1>5, <1>6, <1>7, <1>8, <1>9

\* The row of a closed connection is closed.
LEMMA LeaveIInv ==
    ASSUME IInv, NEW s \in Sockets, Leave(s)
    PROVE  IInv'
<1>. USE NoneAssumption DEF IInv, TypeOK, RowStates, Reasons, HandlerSteps, Connections,
                            Leave, GoTo,
                            rowsVars, socketVars, memoryVars
<1>1. TypeOK'
  BY DEF NoConnection, NoCall, Connection
<1>2. NamesOK'
  BY DEF NamesOK, Nameless
<1>3. GenerationsOK'
  BY DEF GenerationsOK
<1>4. RouteOK'
  BY DEF RouteOK, Connection, NoConnection
<1>5. MissedOK'
  BY DEF MissedOK
<1>6. ReasonsOK'
  BY DEF ReasonsOK, ErasedOnlyWhenDeleted, NoCall
<1>7. RegistryIsCurrent'
  BY DEF RegistryIsCurrent, Online, Connection, NoConnection
<1>8. OneOpenConnection'
  BY DEF OneOpenConnection, Connection, NoConnection
<1>9. DeactivatedIsOffline'
  BY DEF DeactivatedIsOffline, Online, NoConnection, Connection, NoCall
<1>. QED  BY <1>1, <1>2, <1>3, <1>4, <1>5, <1>6, <1>7, <1>8, <1>9

\* A device is taken out of use.
LEMMA DeactivateIInv ==
    ASSUME IInv, NEW a \in Calls, NEW d \in Devices, NEW state \in {"disabled", "revoked", "deleted"},
           Deactivate(a, d, state)
    PROVE  IInv'
<1>1. TypeOK'
  BY DeactivateTypes DEF IInv
<1>. USE NoneAssumption DEF IInv, TypeOK, RowStates, Reasons, HandlerSteps, Connections,
                            Deactivate, At,
                            rowsVars, socketVars, memoryVars
<1>2. NamesOK'
  BY DEF NamesOK, Nameless
<1>3. GenerationsOK'
  BY DEF GenerationsOK
<1>4. RouteOK'
  BY DEF RouteOK, Connection, NoConnection
<1>5. MissedOK'
  BY DEF MissedOK
<1>6. ReasonsOK'
  BY DEF ReasonsOK, ErasedOnlyWhenDeleted, NoCall
<1>7. RegistryIsCurrent'
  BY DEF RegistryIsCurrent, Online, Connection, NoConnection
<1>8. OneOpenConnection'
  BY DEF OneOpenConnection, Connection, NoConnection
<1>9. DeactivatedIsOffline'
  <2>. SUFFICES ASSUME NEW e \in Devices, registry[e] # NoConnection, row'[e] # "active"
                PROVE  (\E b \in Calls : call'[b].device = e) \/ registry[e].socket \in missed'
    BY DEF DeactivatedIsOffline, Online, NoConnection
  <2>1. PICK x \in Sockets : /\ registry[e] = Connection(x)
                            /\ deviceOf[x] = e /\ handler[x] = "authenticated"
    BY DEF RegistryIsCurrent, Online
  <2>2. registry[e].socket = x
    BY <2>1 DEF Connection
  <2>3. CASE e = d
    <3>1. CASE call' = call
      BY <2>1, <2>2, <2>3, <3>1
    <3>2. CASE call'[a].device = d
      BY <2>3, <3>2
    <3>. QED  BY <3>1, <3>2
  <2>4. CASE e # d
    <3>1. row[e] # "active"
      BY <2>4
    <3>2. (\E b \in Calls : call[b].device = e) \/ x \in missed
      BY <2>2, <3>1 DEF DeactivatedIsOffline, Online
    <3>3. ASSUME NEW b \in Calls, call[b].device = e PROVE call'[b].device = e
      <4>1. call[a].device = None /\ e # None
        BY DEF NoCall
      <4>2. b # a
        BY <3>3, <4>1
      <4>. QED  BY <3>3, <4>2
    <3>4. x \in missed => x \in missed'
      BY <2>1, <2>4
    <3>. QED  BY <2>2, <3>2, <3>3, <3>4
  <2>. QED  BY <2>3, <2>4
<1>. QED  BY <1>1, <1>2, <1>3, <1>4, <1>5, <1>6, <1>7, <1>8, <1>9

\* A device is taken into use again.
LEMMA EnableIInv ==
    ASSUME IInv, NEW d \in Devices, Enable(d)
    PROVE  IInv'
<1>. USE NoneAssumption DEF IInv, TypeOK, RowStates, Reasons, HandlerSteps, Connections,
                            Enable,
                            rowsVars, socketVars, memoryVars
<1>1. TypeOK'
  BY DEF NoConnection, NoCall, Connection
<1>2. NamesOK'
  BY DEF NamesOK, Nameless
<1>3. GenerationsOK'
  BY DEF GenerationsOK
<1>4. RouteOK'
  BY DEF RouteOK, Connection, NoConnection
<1>5. MissedOK'
  BY DEF MissedOK
<1>6. ReasonsOK'
  BY DEF ReasonsOK, ErasedOnlyWhenDeleted, NoCall
<1>7. RegistryIsCurrent'
  BY DEF RegistryIsCurrent, Online, Connection, NoConnection
<1>8. OneOpenConnection'
  BY DEF OneOpenConnection, Connection, NoConnection
<1>9. DeactivatedIsOffline'
  BY DEF DeactivatedIsOffline, Online, NoConnection, Connection, NoCall
<1>. QED  BY <1>1, <1>2, <1>3, <1>4, <1>5, <1>6, <1>7, <1>8, <1>9

\* What a call drops from the registry it closes.
LEMMA ForceDisconnectIInv ==
    ASSUME IInv, NEW a \in Calls, ForceDisconnect(a)
    PROVE  IInv'
<1>. USE NoneAssumption DEF IInv, TypeOK, RowStates, Reasons, HandlerSteps, Connections,
                            ForceDisconnect, Close,
                            rowsVars, socketVars, memoryVars
<1>1. TypeOK'
  BY DEF NoConnection, NoCall, Connection
<1>2. NamesOK'
  BY DEF NamesOK, Nameless
<1>3. GenerationsOK'
  BY DEF GenerationsOK
<1>4. RouteOK'
  BY DEF RouteOK, Connection, NoConnection
<1>5. MissedOK'
  BY DEF MissedOK
<1>6. ReasonsOK'
  <2>1. ASSUME NEW t \in Sockets, reason'[t] = "device_deleted", reason[t] # "device_deleted"
        PROVE  handler[t] # "new" /\ row[deviceOf[t]] = "deleted"
    <3>1. /\ registry[call[a].device].socket = t
          /\ call[a].reason = "device_deleted" /\ call[a] # NoCall
      BY <2>1
    <3>2. call[a].device \in Devices /\ row[call[a].device] = "deleted"
      BY <3>1 DEF ReasonsOK
    <3>3. PICK x \in Sockets : /\ registry[call[a].device] = Connection(x)
                              /\ deviceOf[x] = call[a].device /\ handler[x] = "authenticated"
      BY <3>1, <3>2 DEF RegistryIsCurrent, Online, NoConnection
    <3>. QED  BY <3>1, <3>2, <3>3 DEF Connection
  <2>2. /\ \A t \in Sockets : reason'[t] = "device_deleted" => handler[t] # "new"
        /\ \A t \in Sockets : reason'[t] = "device_deleted" => row[deviceOf[t]] = "deleted"
    BY <2>1 DEF ReasonsOK, ErasedOnlyWhenDeleted
  <2>. QED  BY <2>2 DEF ReasonsOK, ErasedOnlyWhenDeleted, NoCall
<1>7. RegistryIsCurrent'
  <2>1. call[a].device \in Devices
    BY DEF ReasonsOK
  <2>. SUFFICES ASSUME NEW e \in Devices, registry'[e] # NoConnection
                PROVE  \E t \in Sockets :
                          /\ registry'[e] = Connection(t) /\ liveSockets[e] = Connection(t)
                          /\ deviceOf[t] = e /\ handler[t] = "authenticated" /\ session[t] = "open"
    BY DEF RegistryIsCurrent, Online, Connection
  <2>2. registry'[e] = registry[e]
    BY <2>1
  <2>. QED  BY <2>2 DEF RegistryIsCurrent, Online
<1>8. OneOpenConnection'
  BY DEF OneOpenConnection, Connection, NoConnection
<1>9. DeactivatedIsOffline'
  BY DEF DeactivatedIsOffline, Online, NoConnection, Connection, NoCall
<1>. QED  BY <1>1, <1>2, <1>3, <1>4, <1>5, <1>6, <1>7, <1>8, <1>9

\* All connections and calls are gone.
LEMMA CrashIInv ==
    ASSUME IInv, Crash
    PROVE  IInv'
<1>. USE NoneAssumption DEF IInv, TypeOK, RowStates, Reasons, HandlerSteps, Connections,
                            Crash,
                            rowsVars, socketVars, memoryVars
<1>1. TypeOK'
  BY DEF NoConnection, NoCall, Connection
<1>2. NamesOK'
  BY DEF NamesOK, Nameless
<1>3. GenerationsOK'
  BY DEF GenerationsOK
<1>4. RouteOK'
  BY DEF RouteOK, Connection, NoConnection
<1>5. MissedOK'
  BY DEF MissedOK
<1>6. ReasonsOK'
  BY DEF ReasonsOK, ErasedOnlyWhenDeleted, NoCall
<1>7. RegistryIsCurrent'
  BY DEF RegistryIsCurrent, Online, Connection, NoConnection
<1>8. OneOpenConnection'
  BY DEF OneOpenConnection, Connection, NoConnection
<1>9. DeactivatedIsOffline'
  BY DEF DeactivatedIsOffline, Online, NoConnection, Connection, NoCall
<1>. QED  BY <1>1, <1>2, <1>3, <1>4, <1>5, <1>6, <1>7, <1>8, <1>9

-----------------------------------------------------------------------------
\* The invariant holds at first.
LEMMA InitIInv == Init => IInv
<1>. SUFFICES ASSUME Init PROVE IInv
  OBVIOUS
<1>. USE NoneAssumption DEF Init, NoConnection, NoCall
<1>1. TypeOK
  BY DEF TypeOK, RowStates, Reasons, HandlerSteps, Connections
<1>2. NamesOK /\ GenerationsOK
  BY DEF NamesOK, GenerationsOK, Nameless
<1>3. RouteOK /\ MissedOK /\ ReasonsOK
  BY DEF RouteOK, MissedOK, ReasonsOK, ErasedOnlyWhenDeleted
<1>4. RegistryIsCurrent /\ OneOpenConnection /\ DeactivatedIsOffline
  BY DEF RegistryIsCurrent, OneOpenConnection, DeactivatedIsOffline, Online
<1>. QED  BY <1>1, <1>2, <1>3, <1>4 DEF IInv

\* Every step keeps it.
LEMMA NextIInv == IInv /\ [Next]_vars => IInv'
<1>. SUFFICES ASSUME IInv, [Next]_vars PROVE IInv'
  OBVIOUS
<1>1. ASSUME NEW s \in Sockets, NEW d \in Devices, Hello(s, d) PROVE IInv'
  BY <1>1, HelloIInv
<1>2. ASSUME NEW s \in Sockets, FindDevice(s) \/ Challenge(s) \/ ExpireChallenge(s) \/ Authenticate(s)
      PROVE  IInv'
  BY <1>2, FindDeviceIInv, ChallengeIInv, ExpireChallengeIInv, AuthenticateIInv
<1>3. ASSUME NEW s \in Sockets, Record(s) \/ Register(s) \/ Undo(s) PROVE IInv'
  BY <1>3, RecordIInv, RegisterIInv, UndoIInv
<1>4. ASSUME NEW s \in Sockets, GiveUp(s) \/ Closed(s) \/ Leave(s) PROVE IInv'
  BY <1>4, GiveUpIInv, ClosedIInv, LeaveIInv
<1>5. ASSUME NEW a \in Calls, NEW d \in Devices,
             \/ Disable(a, d) \/ RevokeCredentials(a, d) \/ Delete(a, d)
             \/ DeleteDevice(a, d) \/ UnregisterDevice(a, d)
      PROVE  IInv'
  <2>1. PICK state \in {"disabled", "revoked", "deleted"} : Deactivate(a, d, state)
    BY <1>5 DEF Disable, RevokeCredentials, Delete, DeleteDevice, UnregisterDevice
  <2>. QED  BY <2>1, DeactivateIInv
<1>6. ASSUME NEW d \in Devices, Enable(d) PROVE IInv'
  BY <1>6, EnableIInv
<1>7. ASSUME NEW a \in Calls, ForceDisconnect(a) PROVE IInv'
  BY <1>7, ForceDisconnectIInv
<1>8. ASSUME Crash PROVE IInv'
  BY <1>8, CrashIInv
<1>9. ASSUME UNCHANGED vars PROVE IInv'
  <2>. USE <1>9 DEF vars, rowsVars, socketVars, memoryVars
  <2>1. (TypeOK /\ NamesOK /\ GenerationsOK)'
    BY DEF IInv, TypeOK, NamesOK, GenerationsOK
  <2>2. (RouteOK /\ MissedOK /\ ReasonsOK)'
    BY DEF IInv, RouteOK, Connection, MissedOK, ReasonsOK, ErasedOnlyWhenDeleted
  <2>3. (RegistryIsCurrent /\ OneOpenConnection /\ DeactivatedIsOffline)'
    BY DEF IInv, RegistryIsCurrent, OneOpenConnection, DeactivatedIsOffline, Online, Connection
  <2>. QED  BY <2>1, <2>2, <2>3 DEF IInv
<1>. QED  BY <1>1, <1>2, <1>3, <1>4, <1>5, <1>6, <1>7, <1>8, <1>9 DEF Next

\* So it holds in every reachable state.
LEMMA Invariance == Spec => []IInv
BY InitIInv, NextIInv, PTL DEF Spec

\* Every reachable state of the connections is well typed.
THEOREM TypeCorrect == Spec => []TypeOK
<1>1. IInv => TypeOK
  BY DEF IInv
<1>. QED  BY Invariance, <1>1, PTL

\* The registry of DeviceService names the authenticated connection that the
\* route of the WebSocket knows too, and that has an open row.
THEOREM RegistryIsRight == Spec => []RegistryIsCurrent
<1>1. IInv => RegistryIsCurrent
  BY DEF IInv
<1>. QED  BY Invariance, <1>1, PTL

\* A device never keeps two open authenticated sockets, and never one that the
\* registry has replaced or dropped.
THEOREM OneConnection == Spec => []OneOpenConnection
<1>1. IInv => OneOpenConnection
  BY DEF IInv
<1>. QED  BY Invariance, <1>1, PTL

\* A device that was disabled, revoked or deleted is offline when the call
\* returns, except through an authentication that overtook it or when the call
\* failed after its commit.
THEOREM OfflineWhenDeactivated == Spec => []DeactivatedIsOffline
<1>1. IInv => DeactivatedIsOffline
  BY DEF IInv
<1>. QED  BY Invariance, <1>1, PTL

\* No agent is made to erase its identity while its device exists.
THEOREM NoWrongErasure == Spec => []ErasedOnlyWhenDeleted
<1>1. IInv => ErasedOnlyWhenDeleted
  BY DEF IInv, ReasonsOK
<1>. QED  BY Invariance, <1>1, PTL

-----------------------------------------------------------------------------
(* Updates of the web application                                          *)

\* What a page keeps of a validation, and what the database holds of a candidate.
Contexts == [nonce : Nonces, release : Releases]
CandidateRecords ==
    [release : Releases, client : Clients \cup {Absent},
     nonce : Nonces \cup {Absent}, source : Clients \cup {Absent}]

\* The states of a task that works on a release, without more.
OnRelease == {"clear", "publish", "drop", "fail_read", "fail_delete", "fail_write"}

\* Every event being handled, at each of its awaits.
TaskStates ==
    [at : {"idle", "manifest", "release"}]
    \cup [at : OnRelease, release : Releases]
    \cup [at : {"resource"}, release : Releases, count : Nat, whole : BOOLEAN]
    \cup [at : {"forget"}, release : Releases \cup {Absent}]
    \cup [at : {"validate", "fail"}, client : Clients, context : Contexts]
    \cup [at : {"verify", "reload"}, read : CandidateRecords, client : Clients, context : Contexts]
    \cup [at : {"navigate"}, from : Clients \cup {""}, replaces : Clients \cup {Absent, ""},
          to : Clients, query : Nonces \cup {Absent}]
    \cup [at : {"active"}, to : Clients]
    \cup [at : {"assign"}, read : CandidateRecords, to : Clients]
    \cup [at : {"promote"}, client : Clients, context : Contexts, ran : Releases \cup {Absent}]
    \cup [at : {"inspect", "activate"}, release : Releases, whole : BOOLEAN,
          ran : Releases \cup {Absent}]

PageStates ==
    [status : {"unopened", "loading", "open"}, runs : Releases \cup {Absent},
     context : Contexts \cup {Absent}, ready : Releases \cup {Absent},
     reload : Contexts \cup {Absent}]

\* The shape of the worker's state and of the pages.
ReleaseTypeOK ==
    /\ deployed \in Releases
    /\ active \in Releases \cup {Absent}
    /\ candidate \in CandidateRecords \cup {Absent}
    /\ cache \in [Releases -> Nat]
    /\ task \in [Tasks -> TaskStates]
    /\ page \in [Clients -> PageStates]

\* The client of a record is a page started from the record's release, and a
\* confirmation that page sent says so.
Seated(record) ==
    record.client # Absent =>
        /\ page[record.client].status # "loading"
        /\ page[record.client].status = "open" => page[record.client].runs = record.release
        /\ \A t \in Tasks : Is(t, "promote") /\ task[t].client = record.client
                => task[t].ran = record.release

Reading == {"verify", "reload", "assign"}
SeatsOK ==
    /\ candidate # Absent => Seated(candidate)
    /\ \A t \in Tasks : task[t].at \in Reading => Seated(task[t].read)

\* A navigation is the only one of the page it loads, which cannot have
\* confirmed anything yet.
Navigating == {"navigate", "assign", "active"}
LoadsOK ==
    /\ \A t \in Tasks : task[t].at \in Navigating => page[task[t].to].status = "loading"
    /\ \A t, u \in Tasks : task[t].at \in Navigating /\ task[u].at \in Navigating
            /\ task[t].to = task[u].to => t = u
    /\ \A t \in Tasks : Is(t, "promote") => page[task[t].client].status # "loading"

\* What is about to become active is what its page was started from.
Promoting == {"inspect", "activate"}
WordOK == \A t \in Tasks : task[t].at \in Promoting => task[t].ran = task[t].release

\* Which page runs what; and below, which cache holds what.
ReleaseInv == ReleaseTypeOK /\ SeatsOK /\ LoadsOK /\ WordOK /\ ActivatedRan

\* One download at a time; the resources it has stored are the cache's, until
\* another task deletes the cache.
StoreOK ==
    /\ \A t, u \in Tasks : Downloads(t) /\ Downloads(u) => t = u
    /\ \A t \in Tasks : Is(t, "resource") =>
          /\ task[t].count < Resources
          /\ task[t].whole => cache[task[t].release] = task[t].count
    /\ \A t \in Tasks : Is(t, "activate") /\ task[t].whole => cache[task[t].release] = Resources

\* Nothing is at work on the active release, nor does the candidate lead there.
ActiveOK ==
    active # Absent /\ ~raced =>
        /\ cache[active] = Resources
        /\ candidate # Absent => candidate.release # active
        /\ \A t \in Tasks : ~AtWork(t, active)

CacheInv == StoreOK /\ ActiveOK

-----------------------------------------------------------------------------
(* Operators                                                               *)

WithRelease == OnRelease \cup {"resource", "forget"} \cup Promoting

\* What a task holds, by what it is doing.
LEMMA Shape ==
    ASSUME NEW x \in TaskStates
    PROVE  /\ x.at \in WithRelease <=> "release" \in DOMAIN x
           /\ x.at \in Reading <=> "read" \in DOMAIN x
           /\ x.at \in {"resource"} \cup Promoting <=> "whole" \in DOMAIN x
           /\ x.at \in OnRelease \cup Promoting \cup {"resource"} => x.release \in Releases
           /\ x.at = "forget" => x.release \in Releases \cup {Absent}
           /\ x.at = "resource" => x.count \in Nat
           /\ x.at \in {"resource"} \cup Promoting => x.whole \in BOOLEAN
           /\ x.at \in {"validate", "fail", "promote", "verify", "reload"}
                => x.client \in Clients /\ x.context \in Contexts
           /\ x.at \in {"promote"} \cup Promoting => x.ran \in Releases \cup {Absent}
           /\ x.at \in Reading => x.read \in CandidateRecords
           /\ x.at \in Navigating => x.to \in Clients
  BY DEF TaskStates, WithRelease, OnRelease, Reading, Promoting, Navigating

\* What a deleted cache leaves of a task that filled or inspected it.
Same(x, y) == y = x \/ ("whole" \in DOMAIN x /\ y = [x EXCEPT !.whole = FALSE])

\* It is all there but `whole`.
LEMMA SameTask ==
    ASSUME NEW x \in TaskStates, NEW y, Same(x, y)
    PROVE  /\ y \in TaskStates /\ y.at = x.at
           /\ x.at \in WithRelease => y.release = x.release
           /\ x.at \in Reading => y.read = x.read
           /\ x.at \in Navigating => y.to = x.to
           /\ x.at = "promote" => y.client = x.client /\ y.ran = x.ran
           /\ x.at \in Promoting => y.ran = x.ran
           /\ x.at = "resource" => y.count = x.count
           /\ x.at \in {"resource"} \cup Promoting => (y.whole => x.whole)
<1>1. CASE y = x
  BY <1>1
<1>2. CASE "whole" \in DOMAIN x /\ y = [x EXCEPT !.whole = FALSE]
  <2>. DEFINE Filling == [at : {"resource"}, release : Releases, count : Nat, whole : BOOLEAN]
              Moving == [at : {"inspect", "activate"}, release : Releases, whole : BOOLEAN,
                         ran : Releases \cup {Absent}]
  <2>1. x.at \in {"resource"} \cup Promoting
    BY <1>2, Shape
  <2>2. x \in Filling \/ x \in Moving
    BY <2>1 DEF TaskStates, OnRelease, Promoting
  <2>3. Filling \subseteq TaskStates /\ Moving \subseteq TaskStates
    BY DEF TaskStates
  <2>4. ~y.whole
    BY <1>2, <2>2
  <2>5. x.at \notin Reading /\ x.at \notin Navigating /\ x.at # "promote"
    BY <2>1 DEF Reading, Navigating, Promoting
  <2>6. CASE x \in Filling
    <3>1. y \in Filling /\ y.at = "resource" /\ x.at = "resource" /\ y.release = x.release /\ y.count = x.count
      BY <1>2, <2>6
    <3>. QED  BY <2>3, <2>4, <2>5, <3>1 DEF Promoting
  <2>7. CASE x \in Moving
    <3>1. y \in Moving /\ y.at = x.at /\ x.at # "resource" /\ y.release = x.release /\ y.ran = x.ran
      BY <1>2, <2>7
    <3>. QED  BY <2>3, <2>4, <2>5, <3>1
  <2>. QED  BY <2>2, <2>6, <2>7
<1> QED  BY <1>1, <1>2 DEF Same

\* What a page holds of a validation changes nothing else of it.
LEMMA PageContext ==
    ASSUME NEW x \in PageStates, NEW k \in Contexts \cup {Absent}, NEW y, y = [x EXCEPT !.context = k]
    PROVE  y \in PageStates /\ y.status = x.status /\ y.runs = x.runs
BY DEF PageStates

\* Nor does the release it was told of.
LEMMA PageReady ==
    ASSUME NEW x \in PageStates, NEW r \in Releases \cup {Absent}, NEW y, y = [x EXCEPT !.ready = r]
    PROVE  y \in PageStates /\ y.status = x.status /\ y.runs = x.runs
BY DEF PageStates

\* Task t goes on with x; of the others at most the cache is deleted.
TaskStep(t, x) ==
    /\ task' \in [Tasks -> TaskStates]
    /\ task'[t] = x
    /\ \A u \in Tasks \ {t} : Same(task[u], task'[u])

\* A task that goes on leaves the others alone.
LEMMA GoesStep ==
    ASSUME ReleaseTypeOK, NEW t \in Tasks, NEW x \in TaskStates, Goes(t, x)
    PROVE  TaskStep(t, x) /\ \A u \in Tasks \ {t} : task'[u] = task[u]
  BY DEF ReleaseTypeOK, Goes, TaskStep, Same

\* A task that deletes a cache takes it from the others that fill or inspected it.
LEMMA CutStep ==
    ASSUME ReleaseTypeOK, NEW t \in Tasks, NEW x \in TaskStates, NEW r, task' = Cut(t, x, r)
    PROVE  /\ TaskStep(t, x)
           /\ \A u \in Tasks \ {t} : task[u].at \in {"resource"} \cup Promoting /\ task[u].release = r
                => ~task'[u].whole
<1>1. \A u \in Tasks \ {t} :
         task'[u] = IF "whole" \in DOMAIN task[u] /\ task[u].release = r
                    THEN [task[u] EXCEPT !.whole = FALSE] ELSE task[u]
  BY DEF Cut
<1>2. task'[t] = x
  BY DEF Cut
<1>3. \A u \in Tasks : task[u] \in TaskStates
  BY DEF ReleaseTypeOK
<1>4. \A u \in Tasks \ {t} : Same(task[u], task'[u])
  BY <1>1 DEF Same
<1>5. \A u \in Tasks : task'[u] \in TaskStates
  BY <1>2, <1>3, <1>4, SameTask
<1>6. task' \in [Tasks -> TaskStates]
  BY <1>5 DEF Cut
<1>7. ASSUME NEW u \in Tasks \ {t}, task[u].at \in {"resource"} \cup Promoting, task[u].release = r
      PROVE  ~task'[u].whole
  <2>1. "whole" \in DOMAIN task[u]
    BY <1>3, <1>7, Shape
  <2>2. task'[u] = [task[u] EXCEPT !.whole = FALSE]
    BY <1>1, <1>7, <2>1
  <2>3. task[u] \in TaskStates
    BY <1>3
  <2> QED  BY <2>1, <2>2, <2>3 DEF TaskStates, OnRelease
<1> QED  BY <1>2, <1>4, <1>6, <1>7 DEF TaskStep

-----------------------------------------------------------------------------
(* What keeps the invariant                                                *)

\* Pages keep their place, but for the one that t was loading.
PagesStep(t, x) ==
    \A c \in Clients :
        \/ page'[c].status = page[c].status /\ page'[c].runs = page[c].runs
        \/ /\ task[t].at \in Navigating /\ task[t].to = c /\ x.at \notin Navigating
           /\ page'[c].status # "loading"

\* A step that starts no navigation and confirms nothing keeps clients in their
\* places when the records it writes are in theirs.
LEMMA SeatStep ==
    ASSUME ReleaseTypeOK, SeatsOK, LoadsOK, WordOK,
           NEW t \in Tasks, NEW x \in TaskStates, TaskStep(t, x), PagesStep(t, x),
           x.at # "promote",
           x.at \in Reading => Seated(x.read),
           x.at \in Navigating => task[t].at \in Navigating /\ x.to = task[t].to,
           x.at \in Promoting => x.ran = x.release,
           candidate' \in CandidateRecords \cup {Absent},
           candidate' # Absent => Seated(candidate') \/ Seated(candidate)'
    PROVE  SeatsOK' /\ LoadsOK' /\ WordOK'
<1>1. \A u \in Tasks : task[u] \in TaskStates
  BY DEF ReleaseTypeOK
<1>2. task'[t] = x /\ \A u \in Tasks \ {t} : Same(task[u], task'[u])
  BY DEF TaskStep
<1>3. \A u \in Tasks \ {t} :
         /\ task'[u].at = task[u].at
         /\ task[u].at \in Navigating => task'[u].to = task[u].to
         /\ task[u].at \in Reading => task'[u].read = task[u].read
         /\ task[u].at \in Promoting => task'[u].ran = task[u].ran /\ task'[u].release = task[u].release
         /\ task[u].at = "promote" => task'[u].client = task[u].client /\ task'[u].ran = task[u].ran
  BY <1>1, <1>2, SameTask DEF WithRelease
<1>4. ASSUME NEW r \in CandidateRecords, Seated(r) PROVE Seated(r)'
  <2> SUFFICES ASSUME r.client # Absent
               PROVE  /\ page'[r.client].status # "loading"
                      /\ page'[r.client].status = "open" => page'[r.client].runs = r.release
                      /\ \A u \in Tasks : task'[u].at = "promote" /\ task'[u].client = r.client
                              => task'[u].ran = r.release
    BY DEF Seated, Is
  <2>1. r.client \in Clients
    BY DEF CandidateRecords
  <2>2. /\ page[r.client].status # "loading"
        /\ page[r.client].status = "open" => page[r.client].runs = r.release
        /\ \A u \in Tasks : task[u].at = "promote" /\ task[u].client = r.client
                => task[u].ran = r.release
    BY <1>4 DEF Seated, Is
  <2>3. task[t].at \in Navigating => page[task[t].to].status = "loading"
    BY DEF LoadsOK
  <2>4. page'[r.client].status = page[r.client].status /\ page'[r.client].runs = page[r.client].runs
    BY <2>1, <2>2, <2>3 DEF PagesStep
  <2> QED  BY <2>2, <2>4, <1>2, <1>3
<1>5. SeatsOK'
  <2>1. ASSUME candidate' # Absent PROVE Seated(candidate)'
    <3>1. PICK r \in CandidateRecords : r = candidate'
      BY <2>1
    <3>2. CASE Seated(candidate')
      <4>1. Seated(r)
        BY <3>1, <3>2
      <4> QED  BY <1>4, <3>1, <4>1 DEF Seated
    <3> QED  BY <2>1, <3>2
  <2>2. ASSUME NEW u \in Tasks, task'[u].at \in Reading PROVE Seated(task[u].read)'
    <3>1. task'[u] \in TaskStates
      BY DEF TaskStep
    <3>2. PICK r \in CandidateRecords : r = task'[u].read
      BY <2>2, <3>1, Shape
    <3>3. CASE u = t
      <4>1. Seated(r)
        BY <1>2, <2>2, <3>2, <3>3
      <4> QED  BY <1>4, <3>2, <4>1 DEF Seated
    <3>4. CASE u # t
      <4>1. Seated(r)
        BY <1>3, <2>2, <3>2, <3>4 DEF SeatsOK
      <4> QED  BY <1>4, <3>2, <4>1 DEF Seated
    <3> QED  BY <3>3, <3>4
  <2> QED  BY <2>1, <2>2 DEF SeatsOK
<1>6. LoadsOK'
  <2>1. \A u \in Tasks : task'[u].at \in Navigating => task[u].at \in Navigating /\ task'[u].to = task[u].to
    BY <1>2, <1>3
  <2>2. \A u \in Tasks : task'[u].at = "promote" =>
            u # t /\ task[u].at = "promote" /\ task'[u].client = task[u].client
    BY <1>2, <1>3
  <2>3. \A u \in Tasks : task[u].at \in Navigating => task[u].to \in Clients
    BY <1>1, Shape
  <2>4. \A u \in Tasks : task[u].at = "promote" => task[u].client \in Clients
    BY <1>1, Shape
  <2>5. ASSUME NEW u \in Tasks, task'[u].at \in Navigating PROVE page'[task'[u].to].status = "loading"
    <3>1. page[task[u].to].status = "loading" /\ task[u].to \in Clients
      BY <2>1, <2>3, <2>5 DEF LoadsOK
    <3>2. ~(task[t].at \in Navigating /\ task[t].to = task[u].to /\ x.at \notin Navigating)
      BY <1>2, <2>1, <2>5 DEF LoadsOK
    <3> QED  BY <2>1, <2>5, <3>1, <3>2 DEF PagesStep
  <2>6. ASSUME NEW u \in Tasks, task'[u].at = "promote" PROVE page'[task'[u].client].status # "loading"
    BY <2>2, <2>4, <2>6 DEF LoadsOK, PagesStep, Is
  <2>7. \A u, v \in Tasks : task'[u].at \in Navigating /\ task'[v].at \in Navigating
            /\ task'[u].to = task'[v].to => u = v
    BY <2>1 DEF LoadsOK
  <2> QED  BY <2>5, <2>6, <2>7 DEF LoadsOK, Is
<1>7. WordOK'
  BY <1>2, <1>3 DEF WordOK
<1> QED  BY <1>5, <1>6, <1>7

\* The downloads are told apart, and what they count is in the cache, when t
\* counts what it stored and the caches the others fill or inspected stay.
LEMMA StoreStep ==
    ASSUME ReleaseTypeOK, StoreOK,
           NEW t \in Tasks, NEW x \in TaskStates, TaskStep(t, x),
           x.at \in Loading => Downloads(t) \/ \A u \in Tasks : ~Downloads(u),
           x.at = "resource" =>
              x.count < Resources /\ (x.whole => cache'[x.release] = x.count),
           x.at = "activate" /\ x.whole => cache'[x.release] = Resources,
           \A u \in Tasks \ {t} : task[u].at \in {"resource", "activate"} /\ task'[u].whole
              => cache'[task[u].release] = cache[task[u].release]
    PROVE  StoreOK'
<1>1. task'[t] = x /\ \A u \in Tasks \ {t} : Same(task[u], task'[u])
  BY DEF TaskStep
<1>2. \A u \in Tasks : task[u] \in TaskStates
  BY DEF ReleaseTypeOK
<1>3. \A u \in Tasks \ {t} :
         /\ task'[u].at = task[u].at
         /\ task[u].at \in {"resource", "activate"} =>
               task'[u].release = task[u].release /\ (task'[u].whole => task[u].whole)
         /\ task[u].at = "resource" => task'[u].count = task[u].count
  BY <1>1, <1>2, SameTask DEF WithRelease, Promoting
<1>4. \A u, v \in Tasks : task'[u].at \in Loading /\ task'[v].at \in Loading => u = v
  BY <1>1, <1>3 DEF StoreOK, Downloads
<1>5. ASSUME NEW u \in Tasks, task'[u].at = "resource"
      PROVE  task'[u].count < Resources /\ (task'[u].whole => cache'[task'[u].release] = task'[u].count)
  <2>1. CASE u = t
    BY <1>1, <1>5, <2>1
  <2>2. CASE u # t
    BY <1>3, <1>5, <2>2 DEF StoreOK, Is
  <2> QED  BY <2>1, <2>2
<1>6. ASSUME NEW u \in Tasks, task'[u].at = "activate", task'[u].whole
      PROVE  cache'[task'[u].release] = Resources
  <2>1. CASE u = t
    BY <1>1, <1>6, <2>1
  <2>2. CASE u # t
    BY <1>3, <1>6, <2>2 DEF StoreOK, Is
  <2> QED  BY <2>1, <2>2
<1> QED  BY <1>4, <1>5, <1>6 DEF StoreOK, Downloads, Is

\* x has nothing to do with the active release.
Aside(x) ==
    active # Absent /\ ~raced =>
        /\ x.at \in WithRelease => x.release # active
        /\ x.at \in Reading => x.read.release # active

\* The active release keeps its cache from a step that is aside of it.
LEMMA ActiveStep ==
    ASSUME ReleaseTypeOK, ActiveOK,
           NEW t \in Tasks, NEW x \in TaskStates, TaskStep(t, x), UNCHANGED <<active, raced>>,
           Aside(x),
           active # Absent /\ ~raced =>
              /\ cache'[active] = cache[active]
              /\ candidate' # Absent => candidate'.release # active
    PROVE  ActiveOK'
<1> SUFFICES ASSUME active # Absent, ~raced
             PROVE  /\ cache'[active] = Resources
                    /\ candidate' # Absent => candidate'.release # active
                    /\ \A u \in Tasks : ~AtWork(u, active)'
  BY DEF ActiveOK
<1>1. cache'[active] = Resources /\ (candidate' # Absent => candidate'.release # active)
  BY DEF ActiveOK
<1>2. ASSUME NEW u \in Tasks PROVE ~AtWork(u, active)'
  <2>1. task[u] \in TaskStates /\ task'[u] \in TaskStates
    BY DEF ReleaseTypeOK, TaskStep
  <2>2. /\ "release" \in DOMAIN task'[u] <=> task'[u].at \in WithRelease
        /\ "read" \in DOMAIN task'[u] <=> task'[u].at \in Reading
        /\ "release" \in DOMAIN task[u] <=> task[u].at \in WithRelease
        /\ "read" \in DOMAIN task[u] <=> task[u].at \in Reading
    BY <2>1, Shape
  <2>3. CASE u = t
    BY <2>2, <2>3 DEF TaskStep, Aside, AtWork
  <2>4. CASE u # t
    <3>1. Same(task[u], task'[u])
      BY <2>4 DEF TaskStep
    <3>2. /\ task'[u].at = task[u].at
          /\ task[u].at \in WithRelease => task'[u].release = task[u].release
          /\ task[u].at \in Reading => task'[u].read = task[u].read
      BY <2>1, <3>1, SameTask
    <3>3. ~AtWork(u, active)
      BY DEF ActiveOK
    <3> QED  BY <2>2, <3>2, <3>3 DEF AtWork
  <2> QED  BY <2>3, <2>4
<1> QED  BY <1>1, <1>2

-----------------------------------------------------------------------------
(* A step of one task                                                      *)

UpdateInv == ReleaseInv /\ CacheInv

\* A task goes on: the records it writes have their client, its download counts
\* what is stored, and it is aside of the active release.
LEMMA OneStep ==
    ASSUME UpdateInv, NEW t \in Tasks, NEW x \in TaskStates, TaskStep(t, x), PagesStep(t, x),
           deployed' = deployed, UNCHANGED pointers,
           candidate' \in CandidateRecords \cup {Absent},
           cache' \in [Releases -> Nat], page' \in [Clients -> PageStates],
           x.at # "promote",
           x.at \in Reading => Seated(x.read),
           x.at \in Navigating => task[t].at \in Navigating /\ x.to = task[t].to,
           x.at \in Promoting => x.ran = x.release,
           candidate' # Absent => Seated(candidate') \/ Seated(candidate)',
           x.at \in Loading => Downloads(t) \/ \A u \in Tasks : ~Downloads(u),
           x.at = "resource" =>
              x.count < Resources /\ (x.whole => cache'[x.release] = x.count),
           x.at = "activate" /\ x.whole => cache'[x.release] = Resources,
           \A u \in Tasks \ {t} : task[u].at \in {"resource", "activate"} /\ task'[u].whole
              => cache'[task[u].release] = cache[task[u].release],
           Aside(x),
           active # Absent /\ ~raced =>
              /\ cache'[active] = cache[active]
              /\ candidate' # Absent => candidate'.release # active
    PROVE  UpdateInv'
<1>1. ReleaseTypeOK /\ SeatsOK /\ LoadsOK /\ WordOK /\ ActivatedRan /\ StoreOK /\ ActiveOK
  BY DEF UpdateInv, ReleaseInv, CacheInv
<1>2. ReleaseTypeOK'
  BY <1>1 DEF ReleaseTypeOK, TaskStep, pointers
<1>3. SeatsOK' /\ LoadsOK' /\ WordOK'
  BY <1>1, SeatStep
<1>4. ActivatedRan'
  BY <1>1 DEF ActivatedRan, pointers
<1>5. StoreOK'
  BY <1>1, StoreStep
<1>6. ActiveOK'
  <2>1. UNCHANGED <<active, raced>>
    BY DEF pointers
  <2> QED  BY <1>1, <2>1, ActiveStep
<1> QED  BY <1>2, <1>3, <1>4, <1>5, <1>6 DEF UpdateInv, ReleaseInv, CacheInv

\* A task that only looks: nothing is stored or deleted, and the candidate stays.
LEMMA LookStep ==
    ASSUME UpdateInv, NEW t \in Tasks, NEW x \in TaskStates, Goes(t, x),
           UNCHANGED <<deployed, pointers, candidate, cache>>,
           page' \in [Clients -> PageStates], PagesStep(t, x),
           x.at # "promote",
           x.at \in Reading =>
              \/ candidate # Absent /\ x.read = candidate
              \/ task[t].at \in Reading /\ x.read = task[t].read,
           x.at \in Navigating => task[t].at \in Navigating /\ x.to = task[t].to,
           x.at \in Promoting => x.ran = x.release,
           x.at \in Loading => Downloads(t) \/ \A u \in Tasks : ~Downloads(u),
           x.at # "resource",
           x.at = "activate" /\ x.whole => cache[x.release] = Resources,
           Aside(x)
    PROVE  UpdateInv'
<1>1. ReleaseTypeOK /\ SeatsOK /\ ActiveOK
  BY DEF UpdateInv, ReleaseInv, CacheInv
<1>2. TaskStep(t, x)
  BY <1>1, GoesStep
<1>3. x.at \in Reading => Seated(x.read)
  BY <1>1 DEF SeatsOK
<1>4. candidate' = candidate /\ cache' = cache /\ deployed' = deployed /\ UNCHANGED pointers
  OBVIOUS
<1>5. candidate' # Absent => Seated(candidate')
  BY <1>1, <1>4 DEF SeatsOK
<1>6. candidate' \in CandidateRecords \cup {Absent} /\ cache' \in [Releases -> Nat]
  BY <1>1, <1>4 DEF ReleaseTypeOK
<1>7. active # Absent /\ ~raced =>
         /\ cache'[active] = cache[active]
         /\ candidate' # Absent => candidate'.release # active
  BY <1>1, <1>4 DEF ActiveOK
<1>8. x.at = "activate" /\ x.whole => cache'[x.release] = Resources
  BY <1>4
<1>9. \A u \in Tasks \ {t} : task[u].at \in {"resource", "activate"} /\ task'[u].whole
         => cache'[task[u].release] = cache[task[u].release]
  BY <1>4
<1> QED  BY <1>2, <1>3, <1>4, <1>5, <1>6, <1>7, <1>8, <1>9, OneStep

\* What the invariant says of a task, of the candidate and of the page it may be.
LEMMA Held ==
    ASSUME UpdateInv, NEW t \in Tasks
    PROVE  /\ task[t] \in TaskStates
           /\ candidate # Absent => candidate \in CandidateRecords
           /\ active # Absent /\ ~raced =>
                 /\ candidate # Absent => candidate.release # active
                 /\ task[t].at \in WithRelease => task[t].release # active
                 /\ task[t].at \in Reading => task[t].read.release # active
<1>1. ReleaseTypeOK /\ ActiveOK
  BY DEF UpdateInv, ReleaseInv, CacheInv
<1>2. task[t] \in TaskStates
  BY <1>1 DEF ReleaseTypeOK
<1>3. active # Absent /\ ~raced => ~AtWork(t, active)
  BY <1>1 DEF ActiveOK
<1> QED  BY <1>1, <1>2, <1>3, Shape DEF ReleaseTypeOK, ActiveOK, AtWork

\* Pages that stay as they are.
LEMMA PagesSame ==
    ASSUME UpdateInv, page' = page, NEW t, NEW x
    PROVE  PagesStep(t, x) /\ page' \in [Clients -> PageStates]
  BY DEF PagesStep, UpdateInv, ReleaseInv, ReleaseTypeOK

Simple == {"idle", "manifest", "release"}

\* A step of a task to one of the states that read and store nothing.
LEMMA SimpleStep ==
    ASSUME UpdateInv, NEW t \in Tasks, NEW x \in TaskStates, Goes(t, x),
           UNCHANGED <<deployed, pointers, candidate, cache>>,
           page' \in [Clients -> PageStates], PagesStep(t, x),
           x.at \in Simple \cup OnRelease \cup {"forget", "validate", "fail"},
           x.at \in Loading => Downloads(t) \/ \A u \in Tasks : ~Downloads(u),
           Aside(x)
    PROVE  UpdateInv'
  BY LookStep DEF Simple, OnRelease, Reading, Navigating, Promoting

\* A download begins beside no other.
LEMMA StartUpdateStep ==
    ASSUME UpdateInv, NEW t \in Tasks, NEW c \in Clients, StartUpdate(t, c) PROVE UpdateInv'
<1>1. PICK x : x = [task[t] EXCEPT !.at = "manifest"]
  OBVIOUS
<1>2. x \in TaskStates /\ x.at = "manifest"
  BY <1>1, Held DEF StartUpdate, Is, TaskStates, OnRelease
<1>3. Goes(t, x)
  BY <1>1 DEF StartUpdate, Moves, Goes
<1>4. Aside(x)
  BY <1>2 DEF Aside, WithRelease, OnRelease, Promoting, Reading
<1>5. PagesStep(t, x) /\ page' \in [Clients -> PageStates]
  BY PagesSame DEF StartUpdate, pages
<1> QED  BY <1>2, <1>3, <1>4, <1>5, SimpleStep DEF StartUpdate, Simple

\* The release in use is not downloaded again.
LEMMA FetchManifestStep ==
    ASSUME UpdateInv, NEW t \in Tasks, FetchManifest(t) PROVE UpdateInv'
<1>1. PICK x : x = IF IsCurrent(deployed) THEN [at |-> "release"] ELSE [at |-> "clear", release |-> deployed]
  OBVIOUS
<1>2. x \in TaskStates /\ x.at \in {"release", "clear"}
  <2>1. deployed \in Releases
    BY DEF UpdateInv, ReleaseInv, ReleaseTypeOK
  <2> QED  BY <1>1, <2>1 DEF TaskStates, OnRelease
<1>3. Goes(t, x)
  BY <1>1 DEF FetchManifest
<1>4. Aside(x)
  BY <1>1, <1>2 DEF Aside, WithRelease, OnRelease, Promoting, Reading, IsCurrent
<1>5. PagesStep(t, x) /\ page' \in [Clients -> PageStates]
  BY PagesSame DEF FetchManifest, pages
<1>6. Downloads(t)
  BY DEF FetchManifest, Is, Downloads, Loading
<1> QED  BY <1>2, <1>3, <1>4, <1>5, <1>6, SimpleStep DEF FetchManifest, Simple, OnRelease

\* A download that fails goes on with its own release.
LEMMA DownloadFailsStep ==
    ASSUME UpdateInv, NEW t \in Tasks, DownloadFails(t) PROVE UpdateInv'
<1>1. PICK a, r :
         /\ a \in {"drop", "forget"} /\ Works(t, a, r)
         /\ \/ task[t].at = "manifest" /\ r = Absent /\ a = "forget"
            \/ task[t].at \in {"clear", "resource", "publish"} /\ r = task[t].release
  BY DEF DownloadFails, Is
<1>2. PICK x : x = [at |-> a, release |-> r]
  OBVIOUS
<1>3. r \in Releases \/ (r = Absent /\ a = "forget")
  BY <1>1, Held, Shape DEF OnRelease
<1>4. x \in TaskStates /\ x.at = a
  BY <1>1, <1>2, <1>3 DEF TaskStates, OnRelease
<1>5. Goes(t, x)
  BY <1>1, <1>2 DEF Works
<1>6. Aside(x)
  BY <1>1, <1>2, Held DEF Aside, WithRelease, OnRelease, Promoting, Reading
<1>7. PagesStep(t, x) /\ page' \in [Clients -> PageStates]
  BY PagesSame DEF DownloadFails, pages
<1>8. Downloads(t)
  BY DEF DownloadFails, Is, Downloads, Loading
<1>9. x.at \in OnRelease \cup {"forget"}
  BY <1>1, <1>4 DEF OnRelease
<1> QED  BY <1>4, <1>5, <1>6, <1>7, <1>8, <1>9, SimpleStep DEF DownloadFails

\* The lease is given back.
LEMMA ReleaseDownloadLeaseStep ==
    ASSUME UpdateInv, NEW t \in Tasks, ReleaseDownloadLease(t) PROVE UpdateInv'
<1>1. Idle \in TaskStates /\ Idle.at = "idle" /\ Goes(t, Idle) /\ Aside(Idle)
  BY DEF ReleaseDownloadLease, Idle, TaskStates, Aside, WithRelease, OnRelease, Promoting, Reading
<1>2. PagesStep(t, Idle) /\ page' \in [Clients -> PageStates]
  BY PagesSame DEF ReleaseDownloadLease, pages
<1> QED  BY <1>1, <1>2, SimpleStep DEF ReleaseDownloadLease, Simple, Loading

\* A task with nothing left to do.
LEMMA Done ==
    ASSUME NEW t \in Tasks
    PROVE  Idle \in TaskStates /\ Idle.at = "idle" /\ Aside(Idle)
  BY DEF Idle, TaskStates, Aside, WithRelease, OnRelease, Promoting, Reading

\* The candidate's release is given up.
LEMMA Failing ==
    ASSUME UpdateInv, NEW t \in Tasks, candidate # Absent, NEW a \in {"fail_read", "fail_delete"},
           NEW x, x = [at |-> a, release |-> candidate.release]
    PROVE  x \in TaskStates /\ x.at = a /\ Aside(x)
<1>1. candidate.release \in Releases /\ (active # Absent /\ ~raced => candidate.release # active)
  BY Held DEF CandidateRecords
<1> QED  BY <1>1 DEF TaskStates, Aside, WithRelease, OnRelease, Promoting, Reading

\* The page of the candidate reports a failure.
LEMMA ReadForFailureStep ==
    ASSUME UpdateInv, NEW t \in Tasks, ReadForFailure(t) PROVE UpdateInv'
<1>1. \A x : PagesStep(t, x) /\ page' \in [Clients -> PageStates]
  BY PagesSame DEF ReadForFailure, pages
<1>2. CASE Confirms(t)
  <2>1. candidate # Absent
    BY <1>2 DEF Confirms, ConfirmsUnassigned, Matches
  <2>2. PICK x : x = [at |-> "fail_read", release |-> candidate.release]
    OBVIOUS
  <2>3. x \in TaskStates /\ x.at = "fail_read" /\ Aside(x)
    BY <2>1, <2>2, Failing
  <2>4. Goes(t, x)
    BY <1>2, <2>2 DEF ReadForFailure, Fails, Works
  <2> QED  BY <1>1, <2>3, <2>4, SimpleStep DEF ReadForFailure, OnRelease, Loading
<1>3. CASE ~Confirms(t)
  BY <1>1, <1>3, Done, SimpleStep DEF ReadForFailure, Simple, Loading
<1> QED  BY <1>2, <1>3

\* The page of the candidate misses a resource.
LEMMA ResourceMissingStep ==
    ASSUME UpdateInv, NEW t \in Tasks, NEW c \in Clients, ResourceMissing(t, c) PROVE UpdateInv'
<1>1. \A x : PagesStep(t, x) /\ page' \in [Clients -> PageStates]
  BY PagesSame DEF ResourceMissing, pages
<1>2. candidate # Absent
  BY DEF ResourceMissing, Validating
<1>3. PICK x : x = [at |-> "fail_read", release |-> candidate.release]
  OBVIOUS
<1>4. x \in TaskStates /\ x.at = "fail_read" /\ Aside(x)
  BY <1>2, <1>3, Failing
<1>5. Goes(t, x)
  BY <1>3 DEF ResourceMissing, Fails, Works
<1> QED  BY <1>1, <1>4, <1>5, SimpleStep DEF ResourceMissing, OnRelease, Loading

\* A failure takes the candidate there is, which is not the active release.
LEMMA FailReadStep ==
    ASSUME UpdateInv, NEW t \in Tasks, FailRead(t) PROVE UpdateInv'
<1>1. \A x : PagesStep(t, x) /\ page' \in [Clients -> PageStates]
  BY PagesSame DEF FailRead, pages
<1>2. CASE candidate = Absent
  BY <1>1, <1>2, Done, SimpleStep DEF FailRead, Simple, Loading
<1>3. CASE candidate # Absent
  <2>1. PICK x : x = [at |-> "fail_delete", release |-> candidate.release]
    OBVIOUS
  <2>2. x \in TaskStates /\ x.at = "fail_delete" /\ Aside(x)
    BY <1>3, <2>1, Failing
  <2>3. Goes(t, x)
    BY <1>3, <2>1 DEF FailRead
  <2> QED  BY <1>1, <2>2, <2>3, SimpleStep DEF FailRead, OnRelease, Loading
<1> QED  BY <1>2, <1>3

\* A page starts a validation.
LEMMA UpdateReadyStep ==
    ASSUME UpdateInv, NEW t \in Tasks, NEW c \in Clients, NEW n \in Nonces, UpdateReady(t, c, n) PROVE UpdateInv'
<1>1. PICK k : k = [nonce |-> n, release |-> page[c].ready]
  OBVIOUS
<1>2. page \in [Clients -> PageStates]
  BY DEF UpdateInv, ReleaseInv, ReleaseTypeOK
<1>3. k \in Contexts
  BY <1>1, <1>2 DEF UpdateReady, Contexts, PageStates
<1>4. PICK x : x = [at |-> "validate", client |-> c, context |-> k]
  OBVIOUS
<1>5. x \in TaskStates /\ x.at = "validate"
  BY <1>3, <1>4 DEF TaskStates
<1>6. Goes(t, x) /\ page' = [page EXCEPT ![c].context = k, ![c].ready = Absent]
  BY <1>1, <1>4 DEF UpdateReady
<1>7. Aside(x)
  BY <1>5 DEF Aside, WithRelease, OnRelease, Promoting, Reading
<1>8. PICK y : y = [page[c] EXCEPT !.context = k, !.ready = Absent]
  OBVIOUS
<1>9. y \in PageStates /\ y.status = page[c].status /\ y.runs = page[c].runs
  <2>1. page[c] \in PageStates /\ k \in Contexts \cup {Absent} /\ Absent \in Releases \cup {Absent}
    BY <1>2, <1>3
  <2>2. PICK z : z = [page[c] EXCEPT !.context = k]
    OBVIOUS
  <2>3. z \in PageStates /\ z.status = page[c].status /\ z.runs = page[c].runs
    BY <2>1, <2>2, PageContext
  <2>4. y = [z EXCEPT !.ready = Absent]
    BY <1>8, <2>2
  <2> QED  BY <2>1, <2>3, <2>4, PageReady
<1>10. page' = [page EXCEPT ![c] = y]
  BY <1>6, <1>8
<1>11. page' \in [Clients -> PageStates]
  BY <1>2, <1>9, <1>10
<1>12. PagesStep(t, x)
  BY <1>2, <1>9, <1>10 DEF PagesStep
<1> QED  BY <1>5, <1>6, <1>7, <1>11, <1>12, SimpleStep DEF UpdateReady, Loading

\* A page gives up its validation.
LEMMA CandidateTimesOutStep ==
    ASSUME UpdateInv, NEW t \in Tasks, NEW c \in Clients, CandidateTimesOut(t, c) PROVE UpdateInv'
<1>2. page \in [Clients -> PageStates]
  BY DEF UpdateInv, ReleaseInv, ReleaseTypeOK
<1>3. page[c].context \in Contexts
  BY <1>2 DEF CandidateTimesOut, PageStates
<1>4. PICK x : x = [at |-> "fail", client |-> c, context |-> page[c].context]
  OBVIOUS
<1>5. x \in TaskStates /\ x.at = "fail"
  BY <1>3, <1>4 DEF TaskStates
<1>6. Goes(t, x) /\ page' = [page EXCEPT ![c].context = Absent]
  BY <1>4 DEF CandidateTimesOut
<1>7. Aside(x)
  BY <1>5 DEF Aside, WithRelease, OnRelease, Promoting, Reading
<1>8. page' \in [Clients -> PageStates]
  BY <1>2, <1>6 DEF PageStates
<1>9. PagesStep(t, x)
  BY <1>2, <1>6 DEF PagesStep, PageStates
<1> QED  BY <1>5, <1>6, <1>7, <1>8, <1>9, SimpleStep DEF CandidateTimesOut, Loading

\* A validation reads the candidate, whose client has its place.
LEMMA ReadForValidationStep ==
    ASSUME UpdateInv, NEW t \in Tasks, ReadForValidation(t) PROVE UpdateInv'
<1>1. \A x : PagesStep(t, x) /\ page' \in [Clients -> PageStates]
  BY PagesSame DEF ReadForValidation, pages
<1>2. CASE Goes(t, Idle)
  BY <1>1, <1>2, Done, SimpleStep DEF ReadForValidation, Simple, Loading
<1>3. MayValidate(t) => candidate # Absent
  BY DEF MayValidate, Matches
<1>5. PICK x : x = [at |-> "verify", read |-> candidate,
                    client |-> task[t].client, context |-> task[t].context]
  OBVIOUS
<1>6. CASE MayValidate(t) /\ Goes(t, x)
  <2>1. task[t].client \in Clients /\ task[t].context \in Contexts /\ candidate \in CandidateRecords
    BY <1>3, <1>6, Held, Shape DEF ReadForValidation, Is
  <2>2. x \in TaskStates /\ x.at = "verify" /\ x.read = candidate
    BY <1>5, <2>1 DEF TaskStates
  <2>3. Aside(x)
    BY <1>3, <1>6, <2>2, Held DEF Aside, WithRelease, OnRelease, Promoting, Reading
  <2> QED  BY <1>1, <1>3, <1>6, <2>2, <2>3, LookStep DEF ReadForValidation, Navigating, Promoting, Loading
<1> QED  BY <1>2, <1>5, <1>6 DEF ReadForValidation

\* It goes on with the candidate it read, or gives up that release.
LEMMA VerifyManifestStep ==
    ASSUME UpdateInv, NEW t \in Tasks, VerifyManifest(t) PROVE UpdateInv'
<1>1. \A x : PagesStep(t, x) /\ page' \in [Clients -> PageStates]
  BY PagesSame DEF VerifyManifest, pages
<1>2. task[t].at = "verify" /\ task[t] \in TaskStates
  BY Held DEF VerifyManifest, Is
<1>3. PICK q \in CandidateRecords : q = task[t].read
  BY <1>2, Shape DEF Reading
<1>4. q.release \in Releases /\ (active # Absent /\ ~raced => q.release # active)
  BY <1>2, <1>3, Held DEF CandidateRecords, Reading
<1>5. CASE Fails(t, q.release)
  <2>1. PICK x : x = [at |-> "fail_read", release |-> q.release]
    OBVIOUS
  <2>2. x \in TaskStates /\ x.at = "fail_read" /\ Aside(x)
    BY <1>4, <2>1 DEF TaskStates, OnRelease, Aside, WithRelease, Promoting, Reading
  <2>3. Goes(t, x)
    BY <1>5, <2>1 DEF Fails, Works
  <2> QED  BY <1>1, <2>2, <2>3, SimpleStep DEF VerifyManifest, OnRelease, Loading
<1>6. CASE Moves(t, "reload")
  <2>1. PICK x : x = [task[t] EXCEPT !.at = "reload"]
    OBVIOUS
  <2>2. x \in TaskStates /\ x.at = "reload" /\ x.read = q
    BY <1>2, <1>3, <2>1 DEF TaskStates, OnRelease
  <2>3. Goes(t, x)
    BY <1>6, <2>1 DEF Moves, Goes
  <2>4. Aside(x)
    BY <1>4, <2>2 DEF Aside, WithRelease, OnRelease, Promoting, Reading
  <2>5. task[t].at \in Reading /\ x.read = task[t].read
    BY <1>2, <1>3, <2>2 DEF Reading
  <2> QED  BY <1>1, <2>2, <2>3, <2>4, <2>5, LookStep DEF VerifyManifest, Navigating, Promoting, Loading
<1> QED  BY <1>3, <1>5, <1>6 DEF VerifyManifest

\* A page that loads ends the navigation of its task.
LEMMA Loads ==
    ASSUME UpdateInv, NEW t \in Tasks, task[t].at \in Navigating, NEW r \in Releases \cup {Absent},
           NEW x, x.at \notin Navigating,
           Loaded(task[t].to, r) \/ page' = [page EXCEPT ![task[t].to] = Unopened]
    PROVE  PagesStep(t, x) /\ page' \in [Clients -> PageStates]
<1>1. task[t].to \in Clients
  BY Held, Shape
<1>2. page \in [Clients -> PageStates]
  BY DEF UpdateInv, ReleaseInv, ReleaseTypeOK
<1>3. Unopened \in PageStates /\ Unopened.status # "loading"
  BY DEF Unopened, PageStates
<1>4. Loaded(task[t].to, r) => page' \in [Clients -> PageStates]
  BY <1>1, <1>2 DEF Loaded, PageStates
<1>5. page' \in [Clients -> PageStates]
  BY <1>1, <1>2, <1>3, <1>4
<1>6. page'[task[t].to].status # "loading"
  BY <1>1, <1>2, <1>3 DEF Loaded, PageStates
<1>7. \A c \in Clients \ {task[t].to} : page'[c] = page[c]
  BY <1>2 DEF Loaded
<1> QED  BY <1>5, <1>6, <1>7 DEF PagesStep

\* A navigation reads the candidate, or the page starts from it.
LEMMA ReadForNavigationStep ==
    ASSUME UpdateInv, NEW t \in Tasks, ReadForNavigation(t) PROVE UpdateInv'
<1>1. task[t].at = "navigate" /\ task[t].to \in Clients /\ task[t] \in TaskStates
  BY Held, Shape DEF ReadForNavigation, Is, Navigating
<1>2. CASE StartsCandidate(t)
  <2>1. candidate # Absent
    BY <1>2 DEF StartsCandidate, Validating
  <2>2. PICK x : x = [at |-> "assign", read |-> candidate, to |-> task[t].to]
    OBVIOUS
  <2>3. candidate \in CandidateRecords
    BY <2>1, Held
  <2>4. x \in TaskStates /\ x.at = "assign" /\ x.read = candidate /\ x.to = task[t].to
    BY <1>1, <2>2, <2>3 DEF TaskStates
  <2>5. Aside(x)
    BY <2>1, <2>4, Held DEF Aside, WithRelease, OnRelease, Promoting, Reading
  <2>6. Goes(t, x) /\ page' = page
    BY <1>2, <2>2 DEF ReadForNavigation
  <2>7. PagesStep(t, x) /\ page' \in [Clients -> PageStates]
    BY <2>6, PagesSame
  <2> QED  BY <1>1, <2>1, <2>4, <2>5, <2>6, <2>7, LookStep DEF ReadForNavigation, Navigating, Promoting, Loading
<1>3. CASE ~StartsCandidate(t) /\ ~StaysWithCandidate(t)
  <2>1. PICK x : x = [at |-> "active", to |-> task[t].to]
    OBVIOUS
  <2>2. x \in TaskStates /\ x.at = "active" /\ x.to = task[t].to
    BY <1>1, <2>1 DEF TaskStates
  <2>3. Aside(x)
    BY <2>2 DEF Aside, WithRelease, OnRelease, Promoting, Reading
  <2>4. Goes(t, x) /\ page' = page
    BY <1>3, <2>1 DEF ReadForNavigation
  <2>5. PagesStep(t, x) /\ page' \in [Clients -> PageStates]
    BY <2>4, PagesSame
  <2> QED  BY <1>1, <2>2, <2>3, <2>4, <2>5, LookStep
           DEF ReadForNavigation, Navigating, Promoting, Loading, Reading
<1>4. CASE ~StartsCandidate(t) /\ StaysWithCandidate(t)
  <2>1. candidate # Absent
    BY <1>4 DEF StaysWithCandidate, Validating
  <2>2. candidate.release \in Releases
    BY <2>1, Held DEF CandidateRecords
  <2>3. CASE cache[candidate.release] > 0
    <3>1. Loaded(task[t].to, candidate.release) /\ Goes(t, Idle)
      BY <1>4, <2>3 DEF ReadForNavigation
    <3>2. Idle \in TaskStates /\ Idle.at = "idle" /\ Aside(Idle)
      BY Done
    <3>3. PagesStep(t, Idle) /\ page' \in [Clients -> PageStates]
      BY <1>1, <2>2, <3>1, <3>2, Loads DEF Navigating
    <3> QED  BY <3>1, <3>2, <3>3, SimpleStep DEF ReadForNavigation, Simple, Loading
  <2>4. CASE ~(cache[candidate.release] > 0)
    <3>1. PICK x : x = [at |-> "fail_read", release |-> candidate.release]
      OBVIOUS
    <3>2. x \in TaskStates /\ x.at = "fail_read" /\ Aside(x)
      BY <2>1, <3>1, Failing
    <3>3. Goes(t, x) /\ page' = [page EXCEPT ![task[t].to] = Unopened]
      BY <1>4, <2>4, <3>1 DEF ReadForNavigation, Fails, Works
    <3>4. PagesStep(t, x) /\ page' \in [Clients -> PageStates]
      BY <1>1, <2>2, <3>2, <3>3, Loads DEF Navigating
    <3> QED  BY <3>2, <3>3, <3>4, SimpleStep DEF ReadForNavigation, OnRelease, Loading
  <2> QED  BY <2>3, <2>4
<1> QED  BY <1>2, <1>3, <1>4

\* A page starts from the active release.
LEMMA RespondFromActiveStep ==
    ASSUME UpdateInv, NEW t \in Tasks, RespondFromActive(t) PROVE UpdateInv'
<1>1. PICK r : r = IF active # Absent /\ cache[active] > 0 THEN active ELSE Absent
  OBVIOUS
<1>2. r \in Releases \cup {Absent}
  BY <1>1 DEF UpdateInv, ReleaseInv, ReleaseTypeOK
<1>3. Loaded(task[t].to, r) /\ task[t].at = "active" /\ Goes(t, Idle)
  BY <1>1 DEF RespondFromActive, Is
<1>4. Idle \in TaskStates /\ Idle.at = "idle" /\ Aside(Idle)
  BY Done
<1>5. PagesStep(t, Idle) /\ page' \in [Clients -> PageStates]
  BY <1>2, <1>3, <1>4, Loads DEF Navigating
<1> QED  BY <1>3, <1>4, <1>5, SimpleStep DEF RespondFromActive, Simple, Loading

\* What a confirmation says of its page is what the candidate says.
LEMMA ReadForPromotionStep ==
    ASSUME UpdateInv, NEW t \in Tasks, ReadForPromotion(t) PROVE UpdateInv'
<1>1. \A x : PagesStep(t, x) /\ page' \in [Clients -> PageStates]
  BY PagesSame DEF ReadForPromotion, pages
<1>2. CASE Goes(t, Idle)
  BY <1>1, <1>2, Done, SimpleStep DEF ReadForPromotion, Simple, Loading
<1>3. Confirms(t) => candidate # Absent
  BY DEF Confirms, ConfirmsUnassigned, Matches
<1>4. CASE Confirms(t) /\ Fails(t, candidate.release)
  <2>1. PICK x : x = [at |-> "fail_read", release |-> candidate.release]
    OBVIOUS
  <2>2. x \in TaskStates /\ x.at = "fail_read" /\ Aside(x)
    BY <1>3, <1>4, <2>1, Failing
  <2>3. Goes(t, x)
    BY <1>4, <2>1 DEF Fails, Works
  <2> QED  BY <1>1, <2>2, <2>3, SimpleStep DEF ReadForPromotion, OnRelease, Loading
<1>5. PICK x : x = [at |-> "inspect", release |-> candidate.release, whole |-> TRUE, ran |-> task[t].ran]
  OBVIOUS
<1>6. CASE Confirms(t) /\ Goes(t, x)
  <2>1. task[t].at = "promote" /\ task[t] \in TaskStates /\ candidate \in CandidateRecords
    BY <1>3, <1>6, Held DEF ReadForPromotion, Is
  <2>2. task[t].client \in Clients /\ task[t].ran \in Releases \cup {Absent}
    BY <2>1, Shape
  <2>3. candidate.client = task[t].client /\ candidate.client # Absent
    BY <1>6, <2>2, ReleaseAssumption DEF Confirms
  <2>4. task[t].ran = candidate.release
    BY <1>3, <1>6, <2>1, <2>3 DEF UpdateInv, ReleaseInv, SeatsOK, Seated, Is
  <2>5. x \in TaskStates /\ x.at = "inspect" /\ x.ran = x.release /\ x.release = candidate.release
    BY <1>5, <2>1, <2>2, <2>4 DEF TaskStates, CandidateRecords
  <2>6. Aside(x)
    BY <1>3, <1>6, <2>5, Held DEF Aside, WithRelease, OnRelease, Promoting, Reading
  <2> QED  BY <1>1, <1>6, <2>5, <2>6, LookStep DEF ReadForPromotion, Navigating, Reading, Loading
<1> QED  BY <1>2, <1>4, <1>5, <1>6 DEF ReadForPromotion

\* A candidate is activated with as many resources as it has.
LEMMA InspectCandidateStep ==
    ASSUME UpdateInv, NEW t \in Tasks, InspectCandidate(t) PROVE UpdateInv'
<1>1. \A x : PagesStep(t, x) /\ page' \in [Clients -> PageStates]
  BY PagesSame DEF InspectCandidate, pages
<1>2. task[t].at = "inspect" /\ task[t] \in TaskStates
  BY Held DEF InspectCandidate, Is
<1>3. task[t].release \in Releases /\ (active # Absent /\ ~raced => task[t].release # active)
  BY <1>2, Held, Shape DEF Promoting, WithRelease
<1>4. CASE Fails(t, task[t].release)
  <2>1. PICK x : x = [at |-> "fail_read", release |-> task[t].release]
    OBVIOUS
  <2>2. x \in TaskStates /\ x.at = "fail_read" /\ Aside(x)
    BY <1>3, <2>1 DEF TaskStates, OnRelease, Aside, WithRelease, Promoting, Reading
  <2>3. Goes(t, x)
    BY <1>4, <2>1 DEF Fails, Works
  <2> QED  BY <1>1, <2>2, <2>3, SimpleStep DEF InspectCandidate, OnRelease, Loading
<1>5. CASE cache[task[t].release] = Resources /\ Moves(t, "activate")
  <2>1. PICK x : x = [task[t] EXCEPT !.at = "activate"]
    OBVIOUS
  <2>2. x \in TaskStates /\ x.at = "activate" /\ x.release = task[t].release /\ x.ran = task[t].ran
    BY <1>2, <2>1 DEF TaskStates, OnRelease
  <2>3. Goes(t, x)
    BY <1>5, <2>1 DEF Moves, Goes
  <2>4. x.ran = x.release
    BY <1>2, <2>2 DEF UpdateInv, ReleaseInv, WordOK, Promoting
  <2>5. Aside(x)
    BY <1>3, <2>2 DEF Aside, Reading
  <2> QED  BY <1>1, <1>5, <2>2, <2>3, <2>4, <2>5, LookStep DEF InspectCandidate, Navigating, Reading, Loading
<1> QED  BY <1>4, <1>5 DEF InspectCandidate

-----------------------------------------------------------------------------
(* Downloads                                                               *)

\* A step that deletes the cache of a release that is not active, and goes on
\* with it.
LEMMA DeleteStep ==
    ASSUME UpdateInv, NEW t \in Tasks, NEW r \in Releases, NEW x \in TaskStates, x.release = r,
           active # Absent /\ ~raced => r # active,
           cache' = Deleted(r), task' = Cut(t, x, r),
           UNCHANGED <<deployed, pointers, candidate, page>>,
           \/ x.at \in {"forget", "fail_write"}
           \/ x.at = "resource" /\ x.count = 0,
           x.at # "fail_write" => Downloads(t)
    PROVE  UpdateInv'
<1>1. ReleaseTypeOK /\ SeatsOK /\ ActiveOK
  BY DEF UpdateInv, ReleaseInv, CacheInv
<1>2. /\ TaskStep(t, x)
      /\ \A u \in Tasks \ {t} : task[u].at \in {"resource", "activate"} /\ task[u].release = r
            => ~task'[u].whole
  BY <1>1, CutStep DEF Promoting
<1>3. cache' = [cache EXCEPT ![r] = 0] /\ cache \in [Releases -> Nat]
  BY <1>1 DEF Deleted, ReleaseTypeOK
<1>4. PagesStep(t, x) /\ page' \in [Clients -> PageStates]
  BY PagesSame
<1>5. candidate' \in CandidateRecords \cup {Absent} /\ (candidate' # Absent => Seated(candidate'))
  BY <1>1 DEF ReleaseTypeOK, SeatsOK
<1>6. cache' \in [Releases -> Nat] /\ cache'[r] = 0
  BY <1>3
<1>7. x.at = "resource" => x.count < Resources /\ (x.whole => cache'[x.release] = x.count)
  BY <1>6, ReleaseAssumption
<1>8. \A u \in Tasks \ {t} : task[u].at \in {"resource", "activate"} /\ task'[u].whole
         => cache'[task[u].release] = cache[task[u].release]
  BY <1>2, <1>3
<1>9. active # Absent /\ ~raced =>
         /\ cache'[active] = cache[active]
         /\ candidate' # Absent => candidate'.release # active
  BY <1>1, <1>3 DEF ActiveOK, ReleaseTypeOK
<1>10. Aside(x)
  BY DEF Aside, Reading
<1>11. x.at \in Loading => Downloads(t)
  BY DEF Loading
<1> QED  BY <1>2, <1>4, <1>5, <1>6, <1>7, <1>8, <1>9, <1>10, <1>11, OneStep
         DEF Reading, Navigating, Promoting

\* A download begins with an empty cache of its own.
LEMMA InitializeCacheStep ==
    ASSUME UpdateInv, NEW t \in Tasks, InitializeCache(t) PROVE UpdateInv'
<1>1. task[t].at = "clear" /\ task[t] \in TaskStates
  BY Held DEF InitializeCache, Is
<1>2. PICK r \in Releases : r = task[t].release
  BY <1>1, Shape DEF OnRelease
<1>3. active # Absent /\ ~raced => r # active
  BY <1>1, <1>2, Held DEF WithRelease, OnRelease
<1>4. PICK x : x = [at |-> "resource", release |-> r, count |-> 0, whole |-> TRUE]
  OBVIOUS
<1>5. x \in TaskStates /\ x.at = "resource" /\ x.release = r /\ x.count = 0
  BY <1>4 DEF TaskStates
<1>6. cache' = Deleted(r) /\ task' = Cut(t, x, r)
  BY <1>2, <1>4 DEF InitializeCache
<1>7. Downloads(t) /\ UNCHANGED <<deployed, pointers, candidate, page>>
  BY <1>1 DEF InitializeCache, Downloads, Loading, pages
<1> QED  BY <1>3, <1>5, <1>6, <1>7, DeleteStep

\* A download that failed deletes its cache.
LEMMA DropCacheStep ==
    ASSUME UpdateInv, NEW t \in Tasks, DropCache(t) PROVE UpdateInv'
<1>1. task[t].at = "drop" /\ task[t] \in TaskStates
  BY Held DEF DropCache, Is
<1>2. PICK r \in Releases : r = task[t].release
  BY <1>1, Shape DEF OnRelease
<1>3. active # Absent /\ ~raced => r # active
  BY <1>1, <1>2, Held DEF WithRelease, OnRelease
<1>4. PICK x : x = [at |-> "forget", release |-> r]
  OBVIOUS
<1>5. x \in TaskStates /\ x.at = "forget" /\ x.release = r
  BY <1>4 DEF TaskStates
<1>6. cache' = Deleted(r) /\ task' = Cut(t, x, r)
  BY <1>2, <1>4 DEF DropCache
<1>7. Downloads(t) /\ UNCHANGED <<deployed, pointers, candidate, page>>
  BY <1>1 DEF DropCache, Downloads, Loading, pages
<1> QED  BY <1>3, <1>5, <1>6, <1>7, DeleteStep

\* A candidate that failed loses its cache.
LEMMA FailDeleteStep ==
    ASSUME UpdateInv, NEW t \in Tasks, FailDelete(t) PROVE UpdateInv'
<1>1. task[t].at = "fail_delete" /\ task[t] \in TaskStates
  BY Held DEF FailDelete, Is
<1>2. PICK r \in Releases : r = task[t].release
  BY <1>1, Shape DEF OnRelease
<1>3. active # Absent /\ ~raced => r # active
  BY <1>1, <1>2, Held DEF WithRelease, OnRelease
<1>4. PICK x : x = [at |-> "fail_write", release |-> r]
  OBVIOUS
<1>5. x \in TaskStates /\ x.at = "fail_write" /\ x.release = r
  BY <1>4 DEF TaskStates, OnRelease
<1>6. cache' = Deleted(r) /\ task' = Cut(t, x, r)
  BY <1>2, <1>4 DEF FailDelete
<1>7. UNCHANGED <<deployed, pointers, candidate, page>>
  BY DEF FailDelete, pages
<1> QED  BY <1>3, <1>5, <1>6, <1>7, DeleteStep

\* A resource is stored, where no complete cache is.
LEMMA FetchResourceStep ==
    ASSUME UpdateInv, NEW t \in Tasks, FetchResource(t) PROVE UpdateInv'
<1>1. task[t].at = "resource" /\ task[t] \in TaskStates
  BY Held DEF FetchResource, Is
<1>2. PICK r \in Releases : r = task[t].release
  BY <1>1, Shape
<1>3. active # Absent /\ ~raced => r # active
  BY <1>1, <1>2, Held DEF WithRelease
<1>4. Downloads(t) /\ UNCHANGED <<deployed, pointers, candidate, page>>
  BY <1>1 DEF FetchResource, Downloads, Loading, pages
<1>5. \A x : PagesStep(t, x) /\ page' \in [Clients -> PageStates]
  BY <1>4, PagesSame
<1>6. CASE r # deployed
  <2>1. PICK x : x = [at |-> "drop", release |-> r]
    OBVIOUS
  <2>2. x \in TaskStates /\ x.at = "drop" /\ Aside(x)
    BY <1>3, <2>1 DEF TaskStates, OnRelease, Aside, WithRelease, Promoting, Reading
  <2>3. Goes(t, x) /\ cache' = cache
    BY <1>2, <1>6, <2>1 DEF FetchResource, Works
  <2> QED  BY <1>4, <1>5, <2>2, <2>3, SimpleStep DEF OnRelease
<1>7. CASE r = deployed
  <2> DEFINE n == task[t].count + 1
  <2>1. ReleaseTypeOK /\ SeatsOK /\ ActiveOK /\ StoreOK
    BY DEF UpdateInv, ReleaseInv, CacheInv
  <2>2. /\ task[t].count \in Nat /\ task[t].count < Resources /\ task[t].whole \in BOOLEAN
        /\ task[t].whole => cache[r] = task[t].count
    BY <1>1, <1>2, <2>1, Shape DEF StoreOK, Is
  <2>3. PICK x : x = IF n = Resources THEN [at |-> "publish", release |-> r] ELSE [task[t] EXCEPT !.count = n]
    OBVIOUS
  <2>4. Goes(t, x)
    BY <1>2, <1>7, <2>3 DEF FetchResource, Works
  <2>5. /\ x \in TaskStates /\ x.release = r
        /\ x.at = IF n = Resources THEN "publish" ELSE "resource"
        /\ x.at = "resource" => x.count = n /\ x.whole = task[t].whole
    <3> DEFINE Filling == [at : {"resource"}, release : Releases, count : Nat, whole : BOOLEAN]
    <3>1. task[t] \in Filling
      BY <1>1 DEF TaskStates, OnRelease
    <3>2. Filling \subseteq TaskStates
      BY DEF TaskStates
    <3>3. [at |-> "publish", release |-> r] \in TaskStates
      BY DEF TaskStates, OnRelease
    <3>4. CASE n = Resources
      BY <2>3, <3>3, <3>4
    <3>5. CASE n # Resources
      <4>1. x = [task[t] EXCEPT !.count = n]
        BY <2>3, <3>5
      <4>2. /\ x \in Filling /\ x.release = task[t].release /\ x.at = "resource"
            /\ x.count = n /\ x.whole = task[t].whole
        BY <2>2, <3>1, <4>1
      <4> QED  BY <1>2, <3>2, <3>5, <4>2
    <3> QED  BY <3>4, <3>5
  <2>6. TaskStep(t, x) /\ \A u \in Tasks \ {t} : task'[u] = task[u]
    BY <2>1, <2>4, <2>5, GoesStep
  <2>7. cache' = IF task[t].whole THEN [cache EXCEPT ![r] = cache[r] + 1] ELSE cache
    BY <1>2, <1>7 DEF FetchResource
  <2>8. cache \in [Releases -> Nat]
    BY <2>1 DEF ReleaseTypeOK
  <2>9. cache' \in [Releases -> Nat]
    BY <2>7, <2>8
  <2>10. x.at = "resource" => x.count < Resources /\ (x.whole => cache'[x.release] = x.count)
    BY <2>2, <2>5, <2>7, <2>8, ReleaseAssumption
  <2>11. ASSUME NEW u \in Tasks \ {t}, task[u].at \in {"resource", "activate"}, task'[u].whole
         PROVE  cache'[task[u].release] = cache[task[u].release]
    <3>1. task[u].at = "activate" /\ task[u].whole
      BY <1>4, <2>1, <2>6, <2>11 DEF StoreOK, Downloads, Loading
    <3>2. cache[task[u].release] = Resources
      BY <2>1, <3>1 DEF StoreOK, Is
    <3>3. task[t].whole => task[u].release # r
      BY <2>2, <3>2, ReleaseAssumption
    <3> QED  BY <2>7, <2>8, <3>3
  <2>12. candidate' \in CandidateRecords \cup {Absent} /\ (candidate' # Absent => Seated(candidate'))
    BY <1>4, <2>1 DEF ReleaseTypeOK, SeatsOK
  <2>13. active # Absent /\ ~raced =>
            /\ cache'[active] = cache[active]
            /\ candidate' # Absent => candidate'.release # active
    BY <1>3, <1>4, <2>1, <2>7, <2>8 DEF ActiveOK, ReleaseTypeOK
  <2>14. Aside(x)
    BY <1>3, <2>5 DEF Aside, Reading
  <2> HIDE DEF n
  <2> QED  BY <1>4, <1>5, <2>5, <2>6, <2>9, <2>10, <2>11, <2>12, <2>13, <2>14, OneStep
           DEF Reading, Navigating, Promoting
<1> QED  BY <1>6, <1>7

-----------------------------------------------------------------------------
(* The candidate                                                           *)

\* A step that writes the candidate and leaves the caches alone.
LEMMA WriteStep ==
    ASSUME UpdateInv, NEW t \in Tasks, NEW x \in TaskStates, Goes(t, x), Aside(x),
           UNCHANGED <<deployed, pointers, cache>>,
           x.at \in {"idle", "release"},
           page' \in [Clients -> PageStates], PagesStep(t, x),
           candidate' \in CandidateRecords \cup {Absent},
           candidate' # Absent => Seated(candidate') \/ Seated(candidate)',
           active # Absent /\ ~raced => (candidate' # Absent => candidate'.release # active),
           x.at = "release" => Downloads(t)
    PROVE  UpdateInv'
<1>1. ReleaseTypeOK
  BY DEF UpdateInv, ReleaseInv
<1>2. TaskStep(t, x)
  BY <1>1, GoesStep
<1>3. cache' = cache /\ deployed' = deployed /\ UNCHANGED pointers /\ cache' \in [Releases -> Nat]
  BY <1>1 DEF ReleaseTypeOK
<1>4. active # Absent /\ ~raced =>
         /\ cache'[active] = cache[active]
         /\ candidate' # Absent => candidate'.release # active
  BY <1>3
<1>5. \A u \in Tasks \ {t} : task[u].at \in {"resource", "activate"} /\ task'[u].whole
         => cache'[task[u].release] = cache[task[u].release]
  BY <1>3
<1>6. x.at \in Loading => Downloads(t)
  BY DEF Loading
<1> QED  BY <1>2, <1>3, <1>4, <1>5, <1>6, OneStep DEF Reading, Navigating, Promoting

\* Pages that forget their validation stay where they are.
LEMMA Forgets ==
    ASSUME UpdateInv, PagesForget, NEW t, NEW x
    PROVE  PagesStep(t, x) /\ page' \in [Clients -> PageStates]
<1>1. page \in [Clients -> PageStates]
  BY DEF UpdateInv, ReleaseInv, ReleaseTypeOK
<1>2. \A c \in Clients : page'[c] = IF Open(c) THEN [page[c] EXCEPT !.context = Absent] ELSE page[c]
  BY DEF PagesForget
<1>3. \A c \in Clients : page'[c] \in PageStates /\ page'[c].status = page[c].status /\ page'[c].runs = page[c].runs
  <2> SUFFICES ASSUME NEW c \in Clients
               PROVE  page'[c] \in PageStates /\ page'[c].status = page[c].status /\ page'[c].runs = page[c].runs
    OBVIOUS
  <2>1. page[c] \in PageStates /\ Absent \in Contexts \cup {Absent}
    BY <1>1
  <2>2. page'[c] = page[c] \/ page'[c] = [page[c] EXCEPT !.context = Absent]
    BY <1>2
  <2> QED  BY <2>1, <2>2, PageContext
<1> QED  BY <1>3 DEF PagesForget, PagesStep

\* A task that only has its lease to give back.
LEMMA AtEnd ==
    ASSUME NEW x, x = [at |-> "release"]
    PROVE  x \in TaskStates /\ x.at = "release" /\ Aside(x)
  BY DEF TaskStates, Aside, WithRelease, OnRelease, Promoting, Reading

\* A new candidate has no page yet.
LEMMA PublishCandidateStep ==
    ASSUME UpdateInv, NEW t \in Tasks, PublishCandidate(t) PROVE UpdateInv'
<1>1. task[t].at = "publish" /\ task[t] \in TaskStates
  BY Held DEF PublishCandidate, Is
<1>2. PICK r \in Releases : r = task[t].release
  BY <1>1, Shape DEF OnRelease
<1>3. active # Absent /\ ~raced => r # active
  BY <1>1, <1>2, Held DEF WithRelease, OnRelease
<1>4. PICK k : k = [release |-> r, client |-> Absent, nonce |-> Absent, source |-> Absent]
  OBVIOUS
<1>5. k \in CandidateRecords /\ k.client = Absent /\ k.release = r
  BY <1>4 DEF CandidateRecords
<1>6. candidate' = k
  BY <1>2, <1>4 DEF PublishCandidate
<1>7. PICK x : x = [at |-> "release"]
  OBVIOUS
<1>8. Goes(t, x)
  BY <1>7 DEF PublishCandidate, Ends
<1>9. page \in [Clients -> PageStates]
  BY DEF UpdateInv, ReleaseInv, ReleaseTypeOK
<1>10. \A c \in Clients : page'[c] = IF Open(c) THEN [page[c] EXCEPT !.ready = r] ELSE page[c]
  BY <1>2 DEF PublishCandidate
<1>11. \A c \in Clients : page'[c] \in PageStates /\ page'[c].status = page[c].status /\ page'[c].runs = page[c].runs
  <2> SUFFICES ASSUME NEW c \in Clients
               PROVE  page'[c] \in PageStates /\ page'[c].status = page[c].status /\ page'[c].runs = page[c].runs
    OBVIOUS
  <2>1. page[c] \in PageStates /\ r \in Releases \cup {Absent}
    BY <1>9
  <2>2. page'[c] = page[c] \/ page'[c] = [page[c] EXCEPT !.ready = r]
    BY <1>10
  <2> QED  BY <2>1, <2>2, PageReady
<1>12. PagesStep(t, x) /\ page' \in [Clients -> PageStates]
  BY <1>11 DEF PublishCandidate, PagesStep
<1>13. Downloads(t)
  BY <1>1 DEF Downloads, Loading
<1>14. UNCHANGED <<deployed, pointers, cache>>
  BY DEF PublishCandidate
<1>15. Seated(candidate')
  BY <1>5, <1>6 DEF Seated
<1> QED  BY <1>3, <1>5, <1>6, <1>7, <1>8, <1>12, <1>13, <1>14, <1>15, AtEnd, WriteStep

\* A failed download takes the candidate with it, whichever it is.
LEMMA ForgetDownloadStep ==
    ASSUME UpdateInv, NEW t \in Tasks, ForgetDownload(t) PROVE UpdateInv'
<1>1. PICK x : x = [at |-> "release"]
  OBVIOUS
<1>2. Goes(t, x) /\ candidate' = Absent /\ UNCHANGED <<deployed, pointers, cache>>
  BY <1>1 DEF ForgetDownload, Ends
<1>3. PagesStep(t, x) /\ page' \in [Clients -> PageStates]
  BY Forgets DEF ForgetDownload
<1>4. Downloads(t)
  BY DEF ForgetDownload, Is, Downloads, Loading
<1> QED  BY <1>1, <1>2, <1>3, <1>4, AtEnd, WriteStep

\* A failed candidate is forgotten, whichever it is by now.
LEMMA FailWriteStep ==
    ASSUME UpdateInv, NEW t \in Tasks, FailWrite(t) PROVE UpdateInv'
<1>1. Goes(t, Idle) /\ candidate' = Absent /\ UNCHANGED <<deployed, pointers, cache>>
  BY DEF FailWrite
<1>2. PagesStep(t, Idle) /\ page' \in [Clients -> PageStates]
  BY Forgets DEF FailWrite
<1> QED  BY <1>1, <1>2, Done, WriteStep

\* The candidate read before is written back, with the client it had.
LEMMA WriteValidationStep ==
    ASSUME UpdateInv, NEW t \in Tasks, WriteValidation(t) PROVE UpdateInv'
<1>1. task[t].at = "reload" /\ task[t] \in TaskStates
  BY Held DEF WriteValidation, Is
<1>2. PICK q \in CandidateRecords : q = task[t].read
  BY <1>1, Shape DEF Reading
<1>3. PICK c \in Clients : c = task[t].client
  BY <1>1, Shape
<1>4. PICK k \in Contexts : k = task[t].context
  BY <1>1, Shape
<1>5. candidate' = [q EXCEPT !.nonce = k.nonce, !.source = c]
  BY <1>2, <1>3, <1>4 DEF WriteValidation
<1>6. candidate' \in CandidateRecords /\ candidate'.client = q.client /\ candidate'.release = q.release
  BY <1>5 DEF CandidateRecords, Contexts
<1>7. Seated(q) /\ (active # Absent /\ ~raced => q.release # active)
  BY <1>1, <1>2, Held DEF UpdateInv, ReleaseInv, SeatsOK, Reading
<1>8. Seated(candidate')
  BY <1>6, <1>7 DEF Seated
<1>9. Goes(t, Idle) /\ UNCHANGED <<deployed, pointers, cache>>
  BY DEF WriteValidation
<1>10. page \in [Clients -> PageStates]
  BY DEF UpdateInv, ReleaseInv, ReleaseTypeOK
<1>11. page' = IF Open(c) THEN [page EXCEPT ![c].reload = k] ELSE page
  BY <1>3, <1>4 DEF WriteValidation
<1>12. page' \in [Clients -> PageStates]
  BY <1>10, <1>11 DEF PageStates
<1>13. PagesStep(t, Idle)
  BY <1>10, <1>11 DEF PagesStep, PageStates
<1> QED  BY <1>6, <1>7, <1>8, <1>9, <1>12, <1>13, Done, WriteStep

\* The page that was loading is the first to have its identifier.
LEMMA AssignClientStep ==
    ASSUME UpdateInv, NEW t \in Tasks, AssignClient(t) PROVE UpdateInv'
<1>1. task[t].at = "assign" /\ task[t] \in TaskStates
  BY Held DEF AssignClient, Is
<1>2. PICK q \in CandidateRecords : q = task[t].read
  BY <1>1, Shape DEF Reading
<1>3. PICK c \in Clients : c = task[t].to
  BY <1>1, Shape DEF Navigating
<1>4. PICK r \in Releases : r = q.release
  BY DEF CandidateRecords
<1>5. candidate' = [q EXCEPT !.client = c, !.source = Absent]
  BY <1>2, <1>3 DEF AssignClient
<1>6. candidate' \in CandidateRecords /\ candidate'.client = c /\ candidate'.release = r
  BY <1>4, <1>5 DEF CandidateRecords
<1>7. active # Absent /\ ~raced => r # active
  BY <1>1, <1>2, <1>4, Held DEF Reading
<1>8. Goes(t, Idle) /\ UNCHANGED <<deployed, pointers, cache>> /\ Loaded(task[t].to, r)
  BY <1>2, <1>4 DEF AssignClient
<1>9. Idle \in TaskStates /\ Idle.at = "idle" /\ Aside(Idle)
  BY Done
<1>10. PagesStep(t, Idle) /\ page' \in [Clients -> PageStates]
  BY <1>1, <1>8, <1>9, Loads DEF Navigating
<1>11. ReleaseTypeOK /\ LoadsOK
  BY DEF UpdateInv, ReleaseInv
<1>12. page'[c].status = "open" /\ page'[c].runs = r
  BY <1>3, <1>8, <1>11 DEF Loaded, ReleaseTypeOK, PageStates
<1>13. ASSUME NEW u \in Tasks, task'[u].at = "promote", task'[u].client = c PROVE FALSE
  <2>1. u # t /\ task'[u] = task[u]
    BY <1>8, <1>9, <1>11, <1>13, GoesStep DEF TaskStep
  <2>2. page[c].status # "loading"
    BY <1>11, <1>13, <2>1 DEF LoadsOK, Is
  <2>3. page[c].status = "loading"
    BY <1>1, <1>3, <1>11 DEF LoadsOK, Navigating
  <2> QED  BY <2>2, <2>3
<1>14. Seated(candidate)'
  BY <1>6, <1>12, <1>13 DEF Seated, Is
<1> QED  BY <1>6, <1>7, <1>8, <1>9, <1>10, <1>14, WriteStep

\* A page says what it was started from.
LEMMA ConfirmStartupStep ==
    ASSUME UpdateInv, NEW t \in Tasks, NEW c \in Clients, ConfirmStartup(t, c) PROVE UpdateInv'
<1>1. ReleaseTypeOK /\ SeatsOK /\ LoadsOK /\ WordOK /\ StoreOK /\ ActiveOK /\ ActivatedRan
  BY DEF UpdateInv, ReleaseInv, CacheInv
<1>2. page[c].status = "open" /\ page[c].context \in Contexts /\ page[c].runs \in Releases \cup {Absent}
  BY <1>1 DEF ConfirmStartup, Open, ReleaseTypeOK, PageStates
<1>3. PICK x : x = [at |-> "promote", client |-> c, context |-> page[c].context, ran |-> page[c].runs]
  OBVIOUS
<1>4. x \in TaskStates /\ x.at = "promote" /\ x.client = c /\ x.ran = page[c].runs
  BY <1>2, <1>3 DEF TaskStates
<1>5. TaskStep(t, x) /\ \A u \in Tasks \ {t} : task'[u] = task[u]
  BY <1>1, <1>3, <1>4, GoesStep DEF ConfirmStartup
<1>6. UNCHANGED <<deployed, active, ran, raced, candidate, cache, page>>
  BY DEF ConfirmStartup, pages, pointers
<1>7. ReleaseTypeOK'
  BY <1>1, <1>5, <1>6 DEF ReleaseTypeOK, TaskStep
<1>8. task'[t] = x
  BY <1>5 DEF TaskStep
<1>9. ASSUME NEW r \in CandidateRecords, Seated(r) PROVE Seated(r)'
  BY <1>2, <1>4, <1>5, <1>6, <1>8, <1>9 DEF Seated, Is
<1>10. SeatsOK'
  <2>1. candidate' # Absent => Seated(candidate)'
    <3> SUFFICES ASSUME candidate' # Absent PROVE Seated(candidate)'
      OBVIOUS
    <3>1. PICK r \in CandidateRecords : r = candidate'
      BY <1>7 DEF ReleaseTypeOK
    <3>2. Seated(r)
      BY <1>1, <1>6, <3>1 DEF SeatsOK
    <3> QED  BY <1>9, <3>1, <3>2 DEF Seated
  <2>2. ASSUME NEW u \in Tasks, task'[u].at \in Reading PROVE Seated(task[u].read)'
    <3>1. u # t /\ task'[u] = task[u]
      BY <1>4, <1>5, <1>8, <2>2 DEF Reading
    <3>2. PICK r \in CandidateRecords : r = task[u].read
      BY <2>2, <3>1, Held, Shape
    <3>3. Seated(r)
      BY <1>1, <2>2, <3>1, <3>2 DEF SeatsOK
    <3> QED  BY <1>9, <3>1, <3>2, <3>3 DEF Seated
  <2> QED  BY <2>1, <2>2 DEF SeatsOK
<1>11. LoadsOK'
  BY <1>1, <1>2, <1>4, <1>5, <1>6, <1>8 DEF LoadsOK, Navigating, Is
<1>12. WordOK' /\ ActivatedRan'
  BY <1>1, <1>4, <1>5, <1>6, <1>8 DEF WordOK, Promoting, ActivatedRan
<1>13. StoreOK'
  BY <1>1, <1>4, <1>5, <1>6, StoreStep DEF Loading
<1>14. ActiveOK'
  <2>1. Aside(x)
    BY <1>4 DEF Aside, WithRelease, OnRelease, Promoting, Reading
  <2>2. UNCHANGED <<active, raced>>
    BY <1>6
  <2>3. active # Absent /\ ~raced =>
           /\ cache'[active] = cache[active]
           /\ candidate' # Absent => candidate'.release # active
    BY <1>1, <1>6 DEF ActiveOK
  <2> QED  BY <1>1, <1>4, <1>5, <2>1, <2>2, <2>3, ActiveStep
<1> QED  BY <1>7, <1>10, <1>11, <1>12, <1>13, <1>14 DEF UpdateInv, ReleaseInv, CacheInv

\* The cache of the release is whole unless the activation raced.
LEMMA ActivateStep ==
    ASSUME UpdateInv, NEW t \in Tasks, Activate(t) PROVE UpdateInv'
<1>1. ReleaseTypeOK /\ SeatsOK /\ LoadsOK /\ WordOK /\ StoreOK
  BY DEF UpdateInv, ReleaseInv, CacheInv
<1>2. task[t].at = "activate" /\ task[t] \in TaskStates
  BY Held DEF Activate, Is
<1>3. PICK r \in Releases : r = task[t].release
  BY <1>2, Shape DEF Promoting
<1>4. active' = r /\ ran' = r /\ raced' = (~task[t].whole \/ \E u \in Tasks \ {t} : AtWork(u, r))
  BY <1>1, <1>2, <1>3 DEF Activate, WordOK, Promoting
<1>5. Goes(t, Idle) /\ candidate' = Absent /\ deployed' = deployed /\ cache' = cache
  BY DEF Activate
<1>6. Idle \in TaskStates /\ Idle.at = "idle"
  BY Done
<1>7. TaskStep(t, Idle) /\ \A u \in Tasks \ {t} : task'[u] = task[u]
  BY <1>1, <1>5, <1>6, GoesStep
<1>8. PagesStep(t, Idle) /\ page' \in [Clients -> PageStates]
  BY Forgets DEF Activate
<1>9. ReleaseTypeOK'
  BY <1>1, <1>4, <1>5, <1>7, <1>8 DEF ReleaseTypeOK, TaskStep
<1>10. SeatsOK' /\ LoadsOK' /\ WordOK'
  BY <1>1, <1>5, <1>6, <1>7, <1>8, SeatStep DEF Reading, Navigating, Promoting
<1>11. ActivatedRan'
  BY <1>4 DEF ActivatedRan
<1>12. StoreOK'
  BY <1>1, <1>5, <1>6, <1>7, StoreStep DEF Loading
<1>13. ActiveOK'
  <2> SUFFICES ASSUME ~raced'
               PROVE  cache'[r] = Resources /\ \A u \in Tasks : ~AtWork(u, r)'
    BY <1>4, <1>5 DEF ActiveOK, AtWork
  <2>1. task[t].whole /\ \A u \in Tasks \ {t} : ~AtWork(u, r)
    BY <1>4
  <2>2. cache'[r] = Resources
    BY <1>1, <1>2, <1>3, <1>5, <2>1 DEF StoreOK, Is
  <2>3. ~AtWork(t, r)'
    BY <1>7 DEF TaskStep, AtWork, Idle
  <2>4. \A u \in Tasks \ {t} : ~AtWork(u, r)'
    BY <1>7, <2>1 DEF AtWork
  <2> QED  BY <2>2, <2>3, <2>4
<1> QED  BY <1>9, <1>10, <1>11, <1>12, <1>13 DEF UpdateInv, ReleaseInv, CacheInv

-----------------------------------------------------------------------------
(* Pages, the worker and the server                                        *)

\* No task moves, and no page that is open or loads changes.
LEMMA RestStep ==
    ASSUME UpdateInv, UNCHANGED <<pointers, candidate, cache, task, page>>, deployed' \in Releases
    PROVE  UpdateInv'
<1>1. UNCHANGED <<active, ran, raced>>
  BY DEF pointers
<1>2. ReleaseTypeOK' /\ ActivatedRan'
  BY <1>1 DEF UpdateInv, ReleaseInv, ReleaseTypeOK, ActivatedRan
<1>3. SeatsOK' /\ LoadsOK' /\ WordOK'
  BY DEF UpdateInv, ReleaseInv, SeatsOK, Seated, LoadsOK, WordOK, Is
<1>4. StoreOK' /\ ActiveOK'
  BY <1>1 DEF UpdateInv, CacheInv, StoreOK, ActiveOK, AtWork, Downloads, Is
<1> QED  BY <1>2, <1>3, <1>4 DEF UpdateInv, ReleaseInv, CacheInv

\* Pages that close leave no place that a record or a navigation could miss.
LEMMA CloseClientStep ==
    ASSUME UpdateInv, NEW c \in Clients, CloseClient(c) PROVE UpdateInv'
<1>1. UNCHANGED <<active, ran, raced, deployed, candidate, cache, task>>
  BY DEF CloseClient, pointers
<1>2. page \in [Clients -> PageStates] /\ page[c].status = "open"
  BY DEF CloseClient, Open, UpdateInv, ReleaseInv, ReleaseTypeOK
<1>3. Unopened \in PageStates /\ Unopened.status = "unopened"
  BY DEF Unopened, PageStates
<1>4. page' \in [Clients -> PageStates] /\ page' = [page EXCEPT ![c] = Unopened]
  BY <1>2, <1>3 DEF CloseClient
<1>5. ReleaseTypeOK' /\ ActivatedRan'
  BY <1>1, <1>4 DEF UpdateInv, ReleaseInv, ReleaseTypeOK, ActivatedRan
<1>6. \A d \in Clients : page'[d] = page[d] \/ (d = c /\ page'[d].status = "unopened")
  BY <1>2, <1>3, <1>4
<1>7. ASSUME NEW r \in CandidateRecords, Seated(r) PROVE Seated(r)'
  BY <1>1, <1>6, <1>7 DEF Seated, Is, CandidateRecords
<1>8. SeatsOK'
  <2>1. candidate # Absent => Seated(candidate)'
    <3> SUFFICES ASSUME candidate # Absent PROVE Seated(candidate)'
      OBVIOUS
    <3>1. PICK r \in CandidateRecords : r = candidate
      BY DEF UpdateInv, ReleaseInv, ReleaseTypeOK
    <3>2. Seated(r)
      BY <3>1 DEF UpdateInv, ReleaseInv, SeatsOK
    <3> QED  BY <1>1, <1>7, <3>1, <3>2 DEF Seated
  <2>2. ASSUME NEW u \in Tasks, task[u].at \in Reading PROVE Seated(task[u].read)'
    <3>1. PICK r \in CandidateRecords : r = task[u].read
      BY <2>2, Held, Shape
    <3>2. Seated(r)
      BY <2>2, <3>1 DEF UpdateInv, ReleaseInv, SeatsOK
    <3> QED  BY <1>1, <1>7, <3>1, <3>2 DEF Seated
  <2> QED  BY <1>1, <2>1, <2>2 DEF SeatsOK
<1>9. LoadsOK' /\ WordOK'
  <2>1. \A u \in Tasks : task[u].at \in Navigating => task[u].to \in Clients
    BY Held, Shape
  <2>2. \A u \in Tasks : task[u].at = "promote" => task[u].client \in Clients
    BY Held, Shape
  <2> QED  BY <1>1, <1>2, <1>6, <2>1, <2>2 DEF UpdateInv, ReleaseInv, LoadsOK, WordOK, Is
<1>10. StoreOK' /\ ActiveOK'
  BY <1>1 DEF UpdateInv, CacheInv, StoreOK, ActiveOK, AtWork, Downloads, Is
<1> QED  BY <1>5, <1>8, <1>9, <1>10 DEF UpdateInv, ReleaseInv, CacheInv

\* What a stop leaves is in order.
LEMMA WorkerStopsStep ==
    ASSUME UpdateInv, WorkerStops PROVE UpdateInv'
<1>1. UNCHANGED <<active, ran, raced, deployed, candidate, cache>>
  BY DEF WorkerStops, pointers
<1>2. page \in [Clients -> PageStates]
  BY DEF UpdateInv, ReleaseInv, ReleaseTypeOK
<1>3. Unopened \in PageStates /\ Unopened.status = "unopened"
  BY DEF Unopened, PageStates
<1>4. \A d \in Clients : page'[d] = IF Open(d) THEN page[d] ELSE Unopened
  BY DEF WorkerStops
<1>5. page' \in [Clients -> PageStates]
  BY <1>2, <1>3 DEF WorkerStops
<1>6. \A u \in Tasks : task'[u] = Idle /\ task'[u] \in TaskStates /\ task'[u].at = "idle"
  BY Done DEF WorkerStops
<1>7. task' \in [Tasks -> TaskStates]
  BY <1>6 DEF WorkerStops
<1>8. ReleaseTypeOK' /\ ActivatedRan'
  BY <1>1, <1>5, <1>7 DEF UpdateInv, ReleaseInv, ReleaseTypeOK, ActivatedRan
<1>9. SeatsOK'
  <2>1. candidate # Absent => Seated(candidate)'
    BY <1>1, <1>3, <1>4, <1>6 DEF UpdateInv, ReleaseInv, SeatsOK, Seated, Is, Open, ReleaseTypeOK, CandidateRecords
  <2> QED  BY <1>1, <1>6, <2>1 DEF SeatsOK, Reading
<1>10. LoadsOK' /\ WordOK'
  BY <1>6 DEF LoadsOK, WordOK, Is, Navigating, Promoting
<1>11. StoreOK'
  BY <1>6 DEF StoreOK, Downloads, Loading, Is
<1>12. \A u \in Tasks : ~("release" \in DOMAIN task'[u]) /\ ~("read" \in DOMAIN task'[u])
  BY <1>6 DEF Idle
<1>13. ActiveOK'
  BY <1>1, <1>12 DEF UpdateInv, CacheInv, ActiveOK, AtWork
<1> QED  BY <1>8, <1>9, <1>10, <1>11, <1>13 DEF UpdateInv, ReleaseInv, CacheInv

\* A new page takes an identifier that no record and no task mentions.
LEMMA NavigateStep ==
    ASSUME UpdateInv, NEW t \in Tasks, NEW c \in Clients, NEW d \in Clients, Navigate(t, c, d) PROVE UpdateInv'
<1>1. UNCHANGED <<active, ran, raced, deployed, candidate, cache>>
  BY DEF Navigate, pointers
<1>2. ReleaseTypeOK /\ SeatsOK /\ LoadsOK /\ WordOK /\ ActivatedRan /\ StoreOK /\ ActiveOK
  BY DEF UpdateInv, ReleaseInv, CacheInv
<1>3. page \in [Clients -> PageStates] /\ page[d] = Unopened /\ (c # d => page[c].status = "open")
  BY <1>2 DEF Navigate, Open, ReleaseTypeOK
<1>4. PICK f, p, q :
         /\ Goes(t, [at |-> "navigate", from |-> f, replaces |-> p, to |-> d, query |-> q])
         /\ f \in Clients \cup {""} /\ p \in Clients \cup {Absent, ""} /\ q \in Nonces \cup {Absent}
  <2>1. page[c].reload # Absent => page[c].reload.nonce \in Nonces
    BY <1>3 DEF PageStates, Contexts
  <2> QED  BY <2>1 DEF Navigate
<1>5. PICK x : x = [at |-> "navigate", from |-> f, replaces |-> p, to |-> d, query |-> q]
  OBVIOUS
<1>6. x \in TaskStates /\ x.at = "navigate" /\ x.to = d
  BY <1>4, <1>5 DEF TaskStates
<1>7. TaskStep(t, x) /\ (\A u \in Tasks \ {t} : task'[u] = task[u]) /\ task'[t] = x
  BY <1>2, <1>4, <1>5, <1>6, GoesStep DEF TaskStep
<1>8. \A e \in Clients : page'[e] =
         IF e = d THEN [page[d] EXCEPT !.status = "loading", !.context = page[c].context]
         ELSE IF e = c THEN Unopened ELSE page[e]
  BY DEF Navigate
<1>9. Unopened \in PageStates /\ Unopened.status = "unopened"
  BY DEF Unopened, PageStates
<1>10. \A e \in Clients : page'[e] \in PageStates
  <2>1. page[c].context \in Contexts \cup {Absent} /\ page[d] \in PageStates
    BY <1>3 DEF PageStates
  <2>2. [page[d] EXCEPT !.status = "loading", !.context = page[c].context] \in PageStates
    BY <2>1 DEF PageStates
  <2> QED  BY <1>3, <1>8, <1>9, <2>2
<1>11. page' \in [Clients -> PageStates]
  BY <1>10 DEF Navigate
<1>12. ReleaseTypeOK' /\ ActivatedRan'
  BY <1>1, <1>2, <1>7, <1>11 DEF ReleaseTypeOK, TaskStep, ActivatedRan
<1>13. page'[d].status = "loading" /\ page[d].status = "unopened"
  BY <1>3, <1>8, <1>9 DEF PageStates
<1>14. \A e \in Clients \ {d} : page'[e] = page[e] \/ (page'[e].status = "unopened" /\ page[e].status = "open")
  BY <1>3, <1>8, <1>9
<1>15. ASSUME NEW r \in CandidateRecords, Seated(r), r.client # d PROVE Seated(r)'
  BY <1>6, <1>7, <1>14, <1>15 DEF Seated, Is, CandidateRecords
<1>16. SeatsOK'
  <2>1. candidate # Absent => Seated(candidate)'
    <3> SUFFICES ASSUME candidate # Absent PROVE Seated(candidate)'
      OBVIOUS
    <3>1. PICK r \in CandidateRecords : r = candidate
      BY <1>2 DEF ReleaseTypeOK
    <3>2. Seated(r)
      BY <1>2, <3>1 DEF SeatsOK
    <3>3. r.client # d
      BY <3>1 DEF Navigate, Fresh, Mentions, CandidateRecords
    <3> QED  BY <1>1, <1>15, <3>1, <3>2, <3>3 DEF Seated
  <2>2. ASSUME NEW u \in Tasks, task'[u].at \in Reading PROVE Seated(task[u].read)'
    <3>1. u # t /\ task'[u] = task[u] /\ task[u] \in TaskStates
      BY <1>6, <1>7, <2>2, Held DEF Reading
    <3>2. PICK r \in CandidateRecords : r = task[u].read
      BY <2>2, <3>1, Shape
    <3>3. Seated(r)
      BY <1>2, <2>2, <3>1, <3>2 DEF SeatsOK
    <3>4. "read" \in DOMAIN task[u]
      BY <2>2, <3>1, Shape
    <3>5. ~Mentions(task[u]["read"], d)
      BY <3>4 DEF Navigate, Fresh
    <3>6. r.client # d
      BY <3>2, <3>5 DEF Mentions, CandidateRecords
    <3> QED  BY <1>15, <3>1, <3>2, <3>3, <3>6 DEF Seated
  <2> QED  BY <1>1, <2>1, <2>2 DEF SeatsOK
<1>17. LoadsOK'
  <2>1. \A u \in Tasks : task[u].at \in Navigating => task[u].to \in Clients /\ task[u].to # d
    BY <1>2, <1>13, Held, Shape DEF LoadsOK
  <2>2. ASSUME NEW u \in Tasks, task[u].at = "promote"
        PROVE  task[u].client \in Clients /\ task[u].client # d
    <3>1. task[u] \in TaskStates
      BY Held
    <3>2. "client" \in DOMAIN task[u] /\ task[u].client \in Clients
      BY <2>2, <3>1 DEF TaskStates, OnRelease
    <3>3. ~Mentions(task[u], d)
      BY DEF Navigate, Fresh
    <3> QED  BY <3>2, <3>3 DEF Mentions
  <2>3. \A u \in Tasks : task'[u].at \in Navigating =>
           u = t \/ (task[u].at \in Navigating /\ task'[u].to = task[u].to)
    BY <1>7
  <2>4. task'[t].to = d
    BY <1>6, <1>7
  <2>5. ASSUME NEW u \in Tasks, task'[u].at \in Navigating PROVE page'[task'[u].to].status = "loading"
    BY <1>2, <1>13, <1>14, <2>1, <2>3, <2>4, <2>5 DEF LoadsOK
  <2>6. ASSUME NEW u \in Tasks, NEW v \in Tasks, task'[u].at \in Navigating, task'[v].at \in Navigating,
               task'[u].to = task'[v].to
        PROVE  u = v
    BY <1>2, <2>1, <2>3, <2>4, <2>6 DEF LoadsOK
  <2>7. ASSUME NEW u \in Tasks, task'[u].at = "promote" PROVE page'[task'[u].client].status # "loading"
    <3>1. task'[u] = task[u] /\ task[u].at = "promote"
      BY <1>6, <1>7, <2>7
    <3> QED  BY <1>2, <1>14, <2>2, <3>1 DEF LoadsOK, Is
  <2> QED  BY <2>5, <2>6, <2>7 DEF LoadsOK, Is
<1>18. WordOK'
  BY <1>2, <1>6, <1>7 DEF WordOK, Promoting
<1>19. StoreOK'
  BY <1>1, <1>2, <1>6, <1>7, StoreStep DEF Loading
<1>20. ActiveOK'
  <2>1. Aside(x)
    BY <1>6 DEF Aside, WithRelease, OnRelease, Promoting, Reading
  <2>2. UNCHANGED <<active, raced>>
    BY <1>1
  <2>3. active # Absent /\ ~raced =>
           /\ cache'[active] = cache[active]
           /\ candidate' # Absent => candidate'.release # active
    BY <1>1, <1>2 DEF ActiveOK
  <2> QED  BY <1>2, <1>6, <1>7, <2>1, <2>2, <2>3, ActiveStep
<1> QED  BY <1>12, <1>16, <1>17, <1>18, <1>19, <1>20 DEF UpdateInv, ReleaseInv, CacheInv

-----------------------------------------------------------------------------
(* The theorems                                                            *)

\* A worker with no release is in order.
LEMMA ReleaseStart == ReleaseInit => UpdateInv
<1> SUFFICES ASSUME ReleaseInit PROVE UpdateInv
  OBVIOUS
<1>1. \A t \in Tasks : task[t] = Idle /\ task[t] \in TaskStates /\ task[t].at = "idle"
  BY Done DEF ReleaseInit
<1>2. Unopened \in PageStates
  BY DEF Unopened, PageStates
<1>3. ReleaseTypeOK
  BY <1>1, <1>2 DEF ReleaseInit, ReleaseTypeOK
<1>4. SeatsOK /\ LoadsOK /\ WordOK /\ ActivatedRan
  BY <1>1 DEF ReleaseInit, SeatsOK, LoadsOK, WordOK, ActivatedRan, Is, Reading, Navigating, Promoting
<1>5. StoreOK /\ ActiveOK
  BY <1>1 DEF ReleaseInit, StoreOK, ActiveOK, Downloads, Loading, Is
<1> QED  BY <1>3, <1>4, <1>5 DEF UpdateInv, ReleaseInv, CacheInv

\* Every event of the worker keeps the invariant, at every await.
LEMMA ReleaseStep == UpdateInv /\ [ReleaseNext]_releaseVars => UpdateInv'
<1> SUFFICES ASSUME UpdateInv, [ReleaseNext]_releaseVars PROVE UpdateInv'
  OBVIOUS
<1>1. CASE UNCHANGED releaseVars
  BY <1>1, RestStep DEF releaseVars, pages, pointers, UpdateInv, ReleaseInv, ReleaseTypeOK
<1>2. CASE Deploy \/ LeaseExpires \/ \E n \in Nonces : ValidationExpires(n)
  BY <1>2, RestStep DEF Deploy, LeaseExpires, ValidationExpires, pages, UpdateInv, ReleaseInv, ReleaseTypeOK
<1>3. CASE WorkerStops \/ \E c \in Clients : CloseClient(c)
  BY <1>3, WorkerStopsStep, CloseClientStep
<1>4. ASSUME NEW t \in Tasks,
             \/ FetchManifest(t) \/ InitializeCache(t) \/ FetchResource(t)
             \/ DownloadFails(t) \/ PublishCandidate(t) \/ DropCache(t) \/ ForgetDownload(t)
             \/ ReleaseDownloadLease(t)
      PROVE  UpdateInv'
  BY <1>4, FetchManifestStep, InitializeCacheStep, FetchResourceStep, DownloadFailsStep,
     PublishCandidateStep, DropCacheStep, ForgetDownloadStep, ReleaseDownloadLeaseStep
<1>5. ASSUME NEW t \in Tasks,
             \/ ReadForValidation(t) \/ VerifyManifest(t) \/ WriteValidation(t)
             \/ ReadForNavigation(t) \/ AssignClient(t) \/ RespondFromActive(t)
             \/ ReadForPromotion(t) \/ InspectCandidate(t) \/ Activate(t)
             \/ ReadForFailure(t) \/ FailRead(t) \/ FailDelete(t) \/ FailWrite(t)
      PROVE  UpdateInv'
  BY <1>5, ReadForValidationStep, VerifyManifestStep, WriteValidationStep, ReadForNavigationStep, AssignClientStep,
     RespondFromActiveStep, ReadForPromotionStep, InspectCandidateStep, ActivateStep,
     ReadForFailureStep, FailReadStep, FailDeleteStep, FailWriteStep
<1>6. ASSUME NEW t \in Tasks, NEW c \in Clients,
             \/ StartUpdate(t, c) \/ ConfirmStartup(t, c) \/ CandidateTimesOut(t, c) \/ ResourceMissing(t, c)
             \/ \E n \in Nonces : UpdateReady(t, c, n)
             \/ \E d \in Clients : Navigate(t, c, d)
      PROVE  UpdateInv'
  BY <1>6, StartUpdateStep, ConfirmStartupStep, CandidateTimesOutStep, ResourceMissingStep,
     UpdateReadyStep, NavigateStep
<1> QED  BY <1>1, <1>2, <1>3, <1>4, <1>5, <1>6 DEF ReleaseNext

\* For any releases, pages, nonces, events in progress and resources.
THEOREM ReleaseInvariant == ReleaseSpec => []UpdateInv
  BY ReleaseStart, ReleaseStep, PTL DEF ReleaseSpec

\* A release becomes active only on the word of a page that was started from it.
THEOREM StartedFrom == ReleaseSpec => []ActivatedRan
<1>1. UpdateInv => ActivatedRan
  BY DEF UpdateInv, ReleaseInv
<1> QED  BY <1>1, ReleaseInvariant, PTL

\* The active release keeps its whole cache, unless another event was at work on
\* it when it became active.
THEOREM KeepsCache == ReleaseSpec => []ActiveKeepsCache
<1>1. UpdateInv => ActiveKeepsCache
  BY DEF UpdateInv, CacheInv, ActiveOK, ActiveKeepsCache
<1> QED  BY <1>1, ReleaseInvariant, PTL
=============================================================================
