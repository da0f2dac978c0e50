-------------------------- MODULE BrowserSessions --------------------------
(***************************************************************************)
(* The browser sessions of the server (auth/session-store.ts) and the      *)
(* requests that open, use and end them.  A session is a Redis key with a  *)
(* time to live.  Its digest is a member, scored with the session's        *)
(* expiry, of two sorted sets: its user's, which is how "revoke all" finds *)
(* it, and the one that counts the active sessions.  Scripts are atomic; a *)
(* request reads in one call and writes in a later one.                    *)
(***************************************************************************)
EXTENDS Handlers, Naturals, FiniteSets

CONSTANTS
    Users, Tokens, NoSession,
    Capacity,          \* MAX_ACTIVE_BROWSER_SESSIONS
    Ttl,               \* the idle time to live, no longer than the absolute one
    ActivityInterval,  \* how old lastActiveAt gets before it is written again
    MaxTime            \* bound: the clock of a run stops here

ASSUME TtlAssumption == Ttl \in Nat \ {0}
ASSUME CapacityAssumption == Capacity \in Nat

VARIABLES
    now,         \* the clock of the server and of Redis
    sessions,    \* token -> the stored session
    keyExpiry,   \* token -> when Redis drops the session's key
    userSet,     \* user -> token -> score, 0 for no member
    setExpiry,   \* user -> when Redis drops the user's set
    activeSet,   \* token -> score, 0 for no member
    issued       \* the tokens drawn so far

redis == <<sessions, keyExpiry, userSet, setExpiry, activeSet>>
sessionsVars == <<now, redis, issued, request>>

Strengths == {"password", "passkey", "password_recovery"}

Session == [user : Users, strength : Strengths, strong : BOOLEAN, seen : Nat, expires : Nat]

ASSUME NoSessionAssumption == NoSession \notin Session

Write(t, s, next) == [at |-> "write", token |-> t, session |-> s, since |-> now, next |-> next]
Revoking(t, u) == [at |-> "revoke", token |-> t, user |-> u]
SignedIn(t, u) == [at |-> "in", token |-> t, user |-> u]

Present(t) == sessions[t] # NoSession
Accepted(t) == Present(t) /\ now < sessions[t].expires

SessionsInit ==
    /\ now = 1
    /\ sessions = [t \in Tokens |-> NoSession]
    /\ keyExpiry = [t \in Tokens |-> 0]
    /\ userSet = [u \in Users |-> [t \in Tokens |-> 0]]
    /\ setExpiry = [u \in Users |-> 0]
    /\ activeSet = [t \in Tokens |-> 0]
    /\ issued = {}
    /\ request = [r \in Requests |-> Idle]

-----------------------------------------------------------------------------
(* The scripts                                                             *)

Sweep(set, time) == [t \in Tokens |-> IF set[t] <= time THEN 0 ELSE set[t]]
Members(set) == {t \in Tokens : set[t] # 0}

\* Mutant: the set expires with the session just written.
ExpireWithWritten(u) ==
    \E t \in Members(userSet'[u]) :
        /\ userSet'[u][t] # userSet[u][t] \/ userSet' = userSet
        /\ setExpiry' = [setExpiry EXCEPT ![u] = userSet'[u][t]]

\* PEXPIREAT with the score of the last member.
ExpireWithLatest(u) ==
    \E t \in Members(userSet'[u]) :
        /\ \A other \in Tokens : userSet'[u][other] <= userSet'[u][t]
        /\ setExpiry' = [setExpiry EXCEPT ![u] = userSet'[u][t]]

Full(counted, t) == counted[t] = 0 /\ Cardinality(Members(counted)) >= Capacity

\* CREATE_SCRIPT, which the updates run too.  Its clock and its time to live
\* are those of the moment the request called it.
Save(t, s, since) ==
    LET counted == Sweep(activeSet, since)
    IN  /\ ~Full(counted, t)
        /\ sessions' = [sessions EXCEPT ![t] = s]
        /\ keyExpiry' = [keyExpiry EXCEPT ![t] = now + (s.expires - since)]
        /\ userSet' = [userSet EXCEPT ![s.user][t] = s.expires]
        /\ ExpireWithLatest(s.user)
        /\ activeSet' = [counted EXCEPT ![t] = s.expires]

Refuse(t, since) ==
    LET counted == Sweep(activeSet, since)
    IN  /\ Full(counted, t)
        /\ activeSet' = counted
        /\ UNCHANGED <<sessions, keyExpiry, userSet, setExpiry>>

\* Mutant: an ended session goes on being counted.
RemoveUncounted(u, ended, forgotten) ==
    /\ sessions' = [t \in Tokens |-> IF t \in ended THEN NoSession ELSE sessions[t]]
    /\ keyExpiry' = [t \in Tokens |-> IF t \in ended THEN 0 ELSE keyExpiry[t]]
    /\ userSet' = [userSet EXCEPT ![u] =
                     [t \in Tokens |-> IF t \in ended \cup forgotten THEN 0 ELSE userSet[u][t]]]
    /\ UNCHANGED <<setExpiry, activeSet>>

\* The end of sessions of a user, and of entries whose session is gone.
Remove(u, ended, forgotten) ==
    /\ sessions' = [t \in Tokens |-> IF t \in ended THEN NoSession ELSE sessions[t]]
    /\ keyExpiry' = [t \in Tokens |-> IF t \in ended THEN 0 ELSE keyExpiry[t]]
    /\ userSet' = [userSet EXCEPT ![u] =
                     [t \in Tokens |-> IF t \in ended \cup forgotten THEN 0 ELSE userSet[u][t]]]
    /\ activeSet' = [t \in Tokens |-> IF t \in ended \cup forgotten THEN 0 ELSE activeSet[t]]
    /\ UNCHANGED setExpiry

Listed(u) == Members(userSet[u])
Stale(u) == {t \in Listed(u) : ~Present(t)}

Revoke(t, u) == Remove(u, {t}, {})
RevokeAll(u) == Remove(u, Listed(u), {})
RevokeOthers(u, t) == Remove(u, Listed(u) \ (Stale(u) \cup {t}), Stale(u))
RevokeByAuthenticator(u) ==
    Remove(u, {t \in Listed(u) \ Stale(u) : sessions[t].strength = "passkey"}, Stale(u))

\* The loop forgets the stale entries it passes before it finds the session.
RevokeById(u, t) ==
    \E passed \in SUBSET Stale(u) : Remove(u, {t} \cap (Listed(u) \ Stale(u)), passed)

-----------------------------------------------------------------------------
(* The session manager, called by the routes                               *)

\* SessionManager.create: for a password, passkey, second factor or changed
\* password of the user.
Create(r, u, strength) ==
    \E t \in Tokens \ issued :
        /\ issued' = issued \cup {t}
        /\ Goes(r, Write(t, [user |-> u, strength |-> strength,
                             strong |-> strength # "password_recovery",
                             seen |-> now, expires |-> now + Ttl], Idle))

SignIn(r, u, strength) ==
    /\ request[r] = Idle
    /\ Create(r, u, strength)
    /\ UNCHANGED <<now, redis>>

\* requireSession: what authenticate reads decides what it writes.
Authenticate(r, t) ==
    /\ request[r] = Idle /\ Present(t)
    /\ LET s == sessions[t]
       IN  Goes(r, IF now >= s.expires THEN Revoking(t, s.user)
                   ELSE IF now - s.seen >= ActivityInterval
                   THEN Write(t, [s EXCEPT !.seen = now, !.expires = now + Ttl], SignedIn(t, s.user))
                   ELSE SignedIn(t, s.user))
    /\ UNCHANGED <<now, redis, issued>>

FinishWrite(r) ==
    /\ request[r].at = "write"
    /\ LET w == request[r]
       IN  \/ Save(w.token, w.session, w.since) /\ Goes(r, w.next)
           \/ Refuse(w.token, w.since) /\ Goes(r, Idle)
    /\ UNCHANGED <<now, issued>>

FinishRevoke(r) ==
    /\ request[r].at = "revoke"
    /\ Revoke(request[r].token, request[r].user)
    /\ Goes(r, Idle)
    /\ UNCHANGED <<now, issued>>

-----------------------------------------------------------------------------
(* The routes, once the session of the request is known                    *)

In(r) == request[r].at = "in"
Answered(r) == Goes(r, Idle) /\ UNCHANGED <<now, issued>>

Logout(r) == In(r) /\ Revoke(request[r].token, request[r].user) /\ Answered(r)

ListSessions(r) ==
    /\ In(r)
    /\ userSet' = [userSet EXCEPT ![request[r].user] = Sweep(@, now)]
    /\ Goes(r, [at |-> "list", since |-> now])
    /\ UNCHANGED <<now, sessions, keyExpiry, setExpiry, activeSet, issued>>

\* The summary of an administrator forgets the expired entries and counts the
\* rest, at a time of its own.
SystemSummary(r) ==
    /\ In(r)
    /\ Goes(r, [at |-> "list", since |-> now])
    /\ UNCHANGED <<now, redis, issued>>

FinishList(r) ==
    /\ request[r].at = "list"
    /\ activeSet' = Sweep(activeSet, request[r].since)
    /\ UNCHANGED <<sessions, keyExpiry, userSet, setExpiry>>
    /\ Answered(r)

EndSession(r, t) == In(r) /\ RevokeById(request[r].user, t) /\ Answered(r)
EndOtherSessions(r) == In(r) /\ RevokeOthers(request[r].user, request[r].token) /\ Answered(r)
EndPasskeySessions(r) == In(r) /\ RevokeByAuthenticator(request[r].user) /\ Answered(r)
EndTotpSessions(r) == In(r) /\ RevokeAll(request[r].user) /\ Answered(r)
OtherRoute(r) == In(r) /\ Answered(r) /\ UNCHANGED redis

\* A new password ends every session and opens the next.
ChangePassword(r) ==
    /\ In(r)
    /\ RevokeAll(request[r].user)
    /\ Create(r, request[r].user, "password")
    /\ UNCHANGED now

\* A step-up verified by password or passkey: markStrongAuthenticated reads
\* the session again and writes back what it read.
StepUp(r) ==
    /\ In(r)
    /\ LET t == request[r].token
       IN  Goes(r, IF /\ Accepted(t)
                      /\ sessions[t].strength # "password_recovery"
                   THEN Write(t, [sessions[t] EXCEPT !.strong = TRUE], Idle)
                   ELSE Idle)
    /\ UNCHANGED <<now, redis, issued>>

\* An administrator changes, resets or deletes the user's account.
AdministerUser(u) == RevokeAll(u) /\ UNCHANGED <<now, issued, request>>

-----------------------------------------------------------------------------
(* Time                                                                    *)

\* Redis drops the keys whose time has come.
Tick ==
    /\ now < MaxTime
    /\ now' = now + 1
    /\ sessions' = [t \in Tokens |-> IF keyExpiry[t] <= now' THEN NoSession ELSE sessions[t]]
    /\ userSet' = [u \in Users |-> IF setExpiry[u] <= now' THEN [t \in Tokens |-> 0] ELSE userSet[u]]
    /\ keyExpiry' = [t \in Tokens |-> IF keyExpiry[t] <= now' THEN 0 ELSE keyExpiry[t]]
    /\ setExpiry' = [u \in Users |-> IF setExpiry[u] <= now' THEN 0 ELSE setExpiry[u]]
    /\ UNCHANGED <<activeSet, issued, request>>

SessionsNext ==
    \/ \E r \in Requests, u \in Users, strength \in Strengths : SignIn(r, u, strength)
    \/ \E r \in Requests, t \in Tokens : Authenticate(r, t) \/ EndSession(r, t)
    \/ \E r \in Requests :
          \/ FinishWrite(r) \/ FinishRevoke(r) \/ FinishList(r)
          \/ Logout(r) \/ ListSessions(r) \/ SystemSummary(r) \/ EndOtherSessions(r) \/ EndPasskeySessions(r)
          \/ EndTotpSessions(r) \/ OtherRoute(r) \/ ChangePassword(r) \/ StepUp(r)
    \/ \E u \in Users : AdministerUser(u)
    \/ Tick

SessionsSpec == SessionsInit /\ [][SessionsNext]_sessionsVars

-----------------------------------------------------------------------------
(* Properties                                                              *)

\* "Revoke all", "revoke others" and the list of sessions see every session a
\* request would be accepted with: the owner's sorted set holds it, with the
\* session's own expiry, and outlives it.
SessionsReachable ==
    \A t \in Tokens : Accepted(t) =>
        /\ userSet[sessions[t].user][t] = sessions[t].expires
        /\ now < setExpiry[sessions[t].user]

\* The limit of 200 counts the sessions that are accepted, all of them and no
\* others: no end of a session leaks a place, no renewal takes a second one.
CountIsExact ==
    /\ {t \in Tokens : activeSet[t] > now} = {t \in Tokens : Accepted(t)}
    /\ Cardinality(Members(activeSet)) <= Capacity
=============================================================================
