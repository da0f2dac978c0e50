------------------------- MODULE DeviceConnections -------------------------
(***************************************************************************)
(* The agents' WebSockets at the server: authentication in three database  *)
(* calls, the registry that holds one connection per device, and the       *)
(* administrator's calls that end connections.  The code between two       *)
(* awaits is one action; a socket may close at any time, and the handler   *)
(* of its last message goes on without it.  The server may crash.          *)
(***************************************************************************)
EXTENDS Naturals, FiniteSets

CONSTANTS
    Devices,
    Sockets,         \* every connection ever made; each one sends one hello
    Calls,           \* the administrator's calls that may overlap
    MaxConnections,  \* devices in the registry at most
    MaxPending,      \* challenges at most, when another one is asked for
    None             \* no device, no socket

ASSUME LimitsAssumption == MaxConnections \in Nat /\ MaxPending \in Nat
ASSUME NoneAssumption == None \notin Devices \cup Sockets

VARIABLES
    row,             \* the state of each device's row
    lastGeneration,  \* the largest generation in device_sessions, by device
    session,         \* the row of each socket in device_sessions
    line,            \* "open", "closing" after the server's close, "closed"
    reason,          \* of the server's close: agents look for "device_deleted" only
    handler,         \* what handleMessage awaits
    deviceOf,        \* the device of the hello
    found,           \* the row findAuthenticationDevice read
    generation,      \* the generation recordAuthenticated gave
    pending,         \* the sockets whose challenge is remembered
    expired,         \* the remembered challenges whose time has passed
    registry,        \* the connection of each device, as DeviceConnectionRegistry has it
    liveSockets,     \* the same, as the route has it
    call,            \* the device whose row a call has changed, and why it will be disconnected
    missed           \* history: the sockets that the last call to deactivate their device cannot disconnect

rowsVars == <<row, lastGeneration, session>>
socketVars == <<line, reason, handler, deviceOf, found, generation>>
memoryVars == <<pending, expired, registry, liveSockets>>
vars == <<rowsVars, socketVars, memoryVars, call, missed>>

NoConnection == [generation |-> 0, socket |-> None]
NoCall == [device |-> None, reason |-> "none"]
Connection(s) == [generation |-> generation[s], socket |-> s]

Init ==
    /\ row = [d \in Devices |-> "active"]
    /\ lastGeneration = [d \in Devices |-> 0]
    /\ session = [s \in Sockets |-> "none"]
    /\ line = [s \in Sockets |-> "open"]
    /\ reason = [s \in Sockets |-> "none"]
    /\ handler = [s \in Sockets |-> "new"]
    /\ deviceOf = [s \in Sockets |-> None]
    /\ found = [s \in Sockets |-> "active"]
    /\ generation = [s \in Sockets |-> 0]
    /\ pending = {} /\ expired = {}
    /\ registry = [d \in Devices |-> NoConnection]
    /\ liveSockets = [d \in Devices |-> NoConnection]
    /\ call = [a \in Calls |-> NoCall]
    /\ missed = {}

-----------------------------------------------------------------------------
\* socket.close: the first call sends the frame, the others do nothing.
Close(closed, why) ==
    /\ line' = [s \in Sockets |-> IF s \in closed /\ line[s] = "open" THEN "closing" ELSE line[s]]
    /\ reason' = [s \in Sockets |-> IF s \in closed /\ line[s] = "open" THEN why ELSE reason[s]]

\* handleMessage throws; only device_not_found is told as "device_deleted".
Throw(s, why) ==
    /\ handler' = [handler EXCEPT ![s] = "failed"]
    /\ Close({s}, why)

GoTo(s, step) == handler' = [handler EXCEPT ![s] = step] /\ UNCHANGED <<line, reason>>

Current(s) == registry[deviceOf[s]].generation = generation[s]
Online == {d \in Devices : registry[d] # NoConnection}
At(d, step) == {s \in Sockets : deviceOf[s] = d /\ handler[s] = step}

-----------------------------------------------------------------------------
(* agent.hello: a challenge for an active device                           *)

\* begin forgets the expired challenges, and counts the others.
Hello(s, d) ==
    /\ handler[s] = "new" /\ line[s] # "closed"
    /\ deviceOf' = [deviceOf EXCEPT ![s] = d]
    /\ pending' = pending \ expired /\ expired' = {}
    /\ IF Cardinality(pending') >= MaxPending THEN Throw(s, "other") ELSE GoTo(s, "find")
    /\ UNCHANGED <<rowsVars, found, generation, registry, liveSockets, call, missed>>

FindDevice(s) ==
    /\ handler[s] = "find"
    /\ \/ found' = [found EXCEPT ![s] = row[deviceOf[s]]] /\ GoTo(s, "found")
       \/ UNCHANGED found /\ Throw(s, "other")
    /\ UNCHANGED <<rowsVars, deviceOf, generation, memoryVars, call, missed>>

\* Mutant: an inactive device is told that it was deleted.
ChallengeActiveOnly(s) ==
    /\ handler[s] = "found"
    /\ \/ found[s] # "active" /\ Throw(s, "device_deleted") /\ UNCHANGED pending
       \/ found[s] = "active" /\ GoTo(s, "challenged") /\ pending' = pending \cup {s}
    /\ UNCHANGED <<rowsVars, deviceOf, found, generation, expired, registry, liveSockets, call, missed>>

Challenge(s) ==
    /\ handler[s] = "found"
    /\ \/ found[s] = "deleted" /\ Throw(s, "device_deleted") /\ UNCHANGED pending
       \/ found[s] \notin {"active", "deleted"} /\ Throw(s, "other") /\ UNCHANGED pending
       \/ found[s] = "active" /\ GoTo(s, "challenged") /\ pending' = pending \cup {s}
    /\ UNCHANGED <<rowsVars, deviceOf, found, generation, expired, registry, liveSockets, call, missed>>

ExpireChallenge(s) ==
    /\ s \in pending \ expired
    /\ expired' = expired \cup {s}
    /\ UNCHANGED <<rowsVars, socketVars, pending, registry, liveSockets, call, missed>>

-----------------------------------------------------------------------------
(* agent.authenticate: verified, recorded, registered                      *)

\* A challenge is good for one answer.
Authenticate(s) ==
    /\ handler[s] = "challenged" /\ line[s] # "closed"
    /\ pending' = pending \ {s} /\ expired' = expired \ {s}
    /\ IF s \in pending \ expired THEN GoTo(s, "record") ELSE Throw(s, "other")
    /\ UNCHANGED <<rowsVars, deviceOf, found, generation, registry, liveSockets, call, missed>>

InsertSession(s) ==
    LET d == deviceOf[s] IN
    /\ lastGeneration' = [lastGeneration EXCEPT ![d] = @ + 1]
    /\ generation' = [generation EXCEPT ![s] = lastGeneration[d] + 1]
    /\ session' = [session EXCEPT ![s] = "open"]

\* Mutant: the transaction trusts the device's state at the challenge.
RecordUnchecked(s) ==
    /\ handler[s] = "record"
    /\ InsertSession(s) /\ GoTo(s, "recorded")
    /\ UNCHANGED <<row, deviceOf, found, memoryVars, call, missed>>

\* The transaction may fail, or commit without its reply arriving.
Record(s) ==
    /\ handler[s] = "record"
    /\ \/ row[deviceOf[s]] = "active" /\ InsertSession(s) /\ GoTo(s, "recorded")
       \/ row[deviceOf[s]] = "active" /\ InsertSession(s) /\ Throw(s, "other")
       \/ UNCHANGED <<lastGeneration, generation, session>> /\ Throw(s, "other")
    /\ UNCHANGED <<row, deviceOf, found, memoryVars, call, missed>>

ConnectRefused(s) ==
    \/ registry[deviceOf[s]] = NoConnection /\ Cardinality(Online) >= MaxConnections
    \/ generation[s] <= registry[deviceOf[s]].generation

\* connect, and in the same turn the sender and the end of the connection that
\* the route knew; whether the socket is still open is not looked at.
Register(s) ==
    /\ handler[s] = "recorded"
    /\ IF ConnectRefused(s)
       THEN GoTo(s, "undo") /\ UNCHANGED <<registry, liveSockets>>
       ELSE LET d == deviceOf[s] IN
            /\ registry' = [registry EXCEPT ![d] = Connection(s)]
            /\ liveSockets' = [liveSockets EXCEPT ![d] = Connection(s)]
            /\ handler' = [handler EXCEPT ![s] = "authenticated"]
            /\ Close({liveSockets[d].socket} \ {None}, "other")
    /\ UNCHANGED <<rowsVars, deviceOf, found, generation, pending, expired, call, missed>>

\* Mutant: the reason lands in the wrong column.
UndoWithReason(s) ==
    /\ handler[s] = "undo"
    /\ session' = [session EXCEPT ![s] = "connection_rejected"]
    /\ Throw(s, "other")
    /\ UNCHANGED <<row, lastGeneration, deviceOf, found, generation, memoryVars, call, missed>>

\* recordDisconnected for a connection the registry refused.
Undo(s) ==
    /\ handler[s] = "undo"
    /\ session' \in {session, [session EXCEPT ![s] = "closed"]}
    /\ Throw(s, "other")
    /\ UNCHANGED <<row, lastGeneration, deviceOf, found, generation, memoryVars, call, missed>>

-----------------------------------------------------------------------------
(* The life of a connection                                                *)

\* A time-out, a message out of order, not understood or of a connection that
\* is not the current one, or a full send queue: the handler stays where it is.
\* A result or heartbeat that is taken changes nothing here.
GiveUp(s) ==
    /\ line[s] = "open"
    /\ Close({s}, "other")
    /\ UNCHANGED <<rowsVars, handler, deviceOf, found, generation, memoryVars, call, missed>>

\* Mutant: the close event takes the device offline, whoever holds it.
ClosedUnchecked(s) ==
    /\ line[s] # "closed" /\ handler[s] = "authenticated"
    /\ line' = [line EXCEPT ![s] = "closed"]
    /\ handler' = [handler EXCEPT ![s] = "leave"]
    /\ registry' = [registry EXCEPT ![deviceOf[s]] = NoConnection]
    /\ liveSockets' = [liveSockets EXCEPT ![deviceOf[s]] = NoConnection]
    /\ UNCHANGED <<rowsVars, reason, deviceOf, found, generation, pending, expired, call, missed>>

\* Mutant: the close event is the route's business only.
ClosedInRoute(s) ==
    /\ line[s] # "closed" /\ handler[s] = "authenticated"
    /\ line' = [line EXCEPT ![s] = "closed"]
    /\ handler' = [handler EXCEPT ![s] = "leave"]
    /\ liveSockets' = IF liveSockets[deviceOf[s]].generation = generation[s]
                      THEN [liveSockets EXCEPT ![deviceOf[s]] = NoConnection] ELSE liveSockets
    /\ UNCHANGED <<rowsVars, reason, deviceOf, found, generation, pending, expired, registry, call, missed>>

\* The close event.  Before authentication it leaves the handler to itself.
Closed(s) ==
    /\ line[s] # "closed"
    /\ line' = [line EXCEPT ![s] = "closed"]
    /\ IF handler[s] = "authenticated"
       THEN LET d == deviceOf[s] IN
            /\ handler' = [handler EXCEPT ![s] = "leave"]
            /\ registry' = IF Current(s) THEN [registry EXCEPT ![d] = NoConnection] ELSE registry
            /\ liveSockets' = IF liveSockets[d].generation = generation[s]
                              THEN [liveSockets EXCEPT ![d] = NoConnection] ELSE liveSockets
       ELSE UNCHANGED <<handler, registry, liveSockets>>
    /\ UNCHANGED <<rowsVars, reason, deviceOf, found, generation, pending, expired, call, missed>>

\* recordDisconnected, whose error nobody sees.
Leave(s) ==
    /\ handler[s] = "leave"
    /\ session' \in {session, [session EXCEPT ![s] = "closed"]}
    /\ GoTo(s, "left")
    /\ UNCHANGED <<row, lastGeneration, deviceOf, found, generation, memoryVars, call, missed>>

-----------------------------------------------------------------------------
(* The administrator, the owner, and the agent that unregisters            *)

\* The transaction of a call that takes a device out of use.  A revoked device
\* that is disabled stays revoked.  When the commit's reply is lost the call
\* ends there.
Deactivate(a, d, state) ==
    /\ call[a] = NoCall
    /\ row[d] # "deleted"
    /\ row' = [row EXCEPT ![d] = IF state = "disabled" /\ row[d] = "revoked" THEN "revoked" ELSE state]
    /\ \/ /\ call' = [call EXCEPT ![a] =
                [device |-> d, reason |-> IF state = "deleted" THEN "device_deleted" ELSE "other"]]
          /\ missed' = (missed \ At(d, "authenticated")) \cup At(d, "recorded")
       \/ /\ UNCHANGED call
          /\ missed' = missed \cup At(d, "authenticated") \cup At(d, "recorded")
    /\ UNCHANGED <<lastGeneration, session, socketVars, memoryVars>>

Disable(a, d) == Deactivate(a, d, "disabled")

\* By an administrator who confirmed it, or with the deletion of the owner.
RevokeCredentials(a, d) == Deactivate(a, d, "revoked")

\* An administrator deletes a revoked device only (device_credentials_active) ...
Delete(a, d) == row[d] = "revoked" /\ Deactivate(a, d, "deleted")

\* ... its owner, or the device itself, whatever its state.
DeleteDevice(a, d) == Deactivate(a, d, "deleted")
UnregisterDevice(a, d) == DeleteDevice(a, d)

Enable(d) ==
    /\ row[d] = "disabled"
    /\ row' = [row EXCEPT ![d] = "active"]
    /\ UNCHANGED <<lastGeneration, session, socketVars, memoryVars, call, missed>>

\* After the commit.  The route keeps the socket among its own.
ForceDisconnect(a) ==
    /\ call[a] # NoCall
    /\ LET d == call[a].device IN
       /\ registry' = [registry EXCEPT ![d] = NoConnection]
       /\ Close({registry[d].socket} \ {None}, call[a].reason)
    /\ call' = [call EXCEPT ![a] = NoCall]
    /\ UNCHANGED <<rowsVars, handler, deviceOf, found, generation, pending, expired, liveSockets, missed>>

\* The rows stay; agents connect again.
Crash ==
    /\ line' = [s \in Sockets |-> IF handler[s] = "new" THEN line[s] ELSE "closed"]
    /\ handler' = [s \in Sockets |-> IF handler[s] = "new" THEN "new" ELSE "left"]
    /\ pending' = {} /\ expired' = {}
    /\ registry' = [d \in Devices |-> NoConnection]
    /\ liveSockets' = [d \in Devices |-> NoConnection]
    /\ call' = [a \in Calls |-> NoCall]
    /\ UNCHANGED <<rowsVars, reason, deviceOf, found, generation, missed>>

-----------------------------------------------------------------------------
Next ==
    \/ \E s \in Sockets, d \in Devices : Hello(s, d)
    \/ \E s \in Sockets :
          \/ FindDevice(s) \/ Challenge(s) \/ ExpireChallenge(s)
          \/ Authenticate(s) \/ Record(s) \/ Register(s) \/ Undo(s)
          \/ GiveUp(s) \/ Closed(s) \/ Leave(s)
    \/ \E a \in Calls, d \in Devices :
          \/ Disable(a, d) \/ RevokeCredentials(a, d) \/ Delete(a, d)
          \/ DeleteDevice(a, d) \/ UnregisterDevice(a, d)
    \/ \E d \in Devices : Enable(d)
    \/ \E a \in Calls : ForceDisconnect(a)
    \/ Crash

Spec == Init /\ [][Next]_vars

-----------------------------------------------------------------------------
(* Properties                                                              *)

RowStates == {"active", "disabled", "revoked", "deleted"}
Reasons == {"none", "other", "device_deleted"}
HandlerSteps == {"new", "find", "found", "challenged", "record", "recorded", "undo",
                 "authenticated", "leave", "left", "failed"}
Connections == [generation : Nat, socket : Sockets \cup {None}]

\* Every variable has its type.
TypeOK ==
    /\ row \in [Devices -> RowStates]
    /\ lastGeneration \in [Devices -> Nat]
    /\ session \in [Sockets -> {"none", "open", "closed"}]
    /\ line \in [Sockets -> {"open", "closing", "closed"}]
    /\ reason \in [Sockets -> Reasons]
    /\ handler \in [Sockets -> HandlerSteps]
    /\ deviceOf \in [Sockets -> Devices \cup {None}]
    /\ found \in [Sockets -> RowStates]
    /\ generation \in [Sockets -> Nat]
    /\ pending \subseteq Sockets /\ expired \subseteq pending
    /\ registry \in [Devices -> Connections]
    /\ liveSockets \in [Devices -> Connections]
    /\ call \in [Calls -> [device : Devices \cup {None}, reason : Reasons]]
    /\ missed \subseteq Sockets

\* A device is online through a connection that is authenticated for it, has
\* not gone through the close event, and has an open session row, and the
\* route knows the same connection as the registry.
RegistryIsCurrent ==
    \A d \in Online :
        \E s \in Sockets :
            /\ registry[d] = Connection(s) /\ liveSockets[d] = Connection(s)
            /\ deviceOf[s] = d /\ handler[s] = "authenticated" /\ session[s] = "open"

\* Whatever the order in which two authentications of a device end, and
\* whatever calls end connections in between: an authenticated socket that the
\* server has not closed is the device's current one.  No device keeps two, and
\* none stays connected that the registry has dropped.
OneOpenConnection ==
    \A s \in Sockets :
        handler[s] = "authenticated" /\ line[s] = "open" => registry[deviceOf[s]] = Connection(s)

\* A device out of use is offline as soon as the call that took it out of use
\* returns, except through a connection whose transaction had committed before
\* and which was registered after it, or when the call failed after its commit.
DeactivatedIsOffline ==
    \A d \in Online :
        row[d] # "active" => \/ \E a \in Calls : call[a].device = d
                            \/ registry[d].socket \in missed

\* An agent is told device_deleted, upon which it erases its identity for good,
\* only when its row is deleted: not when it is disabled or revoked, refused,
\* replaced, or met by an error of the database.
ErasedOnlyWhenDeleted ==
    \A s \in Sockets : reason[s] = "device_deleted" => row[deviceOf[s]] = "deleted"
=============================================================================
