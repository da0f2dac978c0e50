---------------------------- MODULE SignInFactors ----------------------------
(***************************************************************************)
(* The second factor and the passkeys of one user: sign-in with a TOTP code*)
(* or a recovery code, enrollment of TOTP, new recovery codes, passkey     *)
(* ceremonies.  Every row and key below is looked up by the user or by an  *)
(* identifier of the user's, so one user is all there is to see.  A        *)
(* statement, a transaction that starts by locking a row of the user's     *)
(* (the TOTP row, or the users row when an administrator resets the        *)
(* factors) and a Redis script are one step; a request takes several, and  *)
(* may stop between any two of them.                                       *)
(***************************************************************************)
EXTENDS Handlers, Naturals, FiniteSets

CONSTANTS
    Logins, Ceremonies,
    Authenticators,  \* the TOTP authenticators, in the order they are drawn
    Batches,         \* the sets of recovery codes, in the order they are drawn
    Counters,        \* the 30 second steps a code may be of
    Signatures,      \* the signature counters a passkey may report
    Attempts,        \* SECOND_FACTOR_ATTEMPTS
    None

ASSUME NumbersAssumption ==
    /\ Authenticators \subseteq Nat /\ Batches \subseteq Nat
    /\ Counters \subseteq Nat \ {0} /\ Signatures \subseteq Nat /\ Attempts \in Nat

\* None is no challenge and no row.
ASSUME NoneAssumption ==
    None \notin Logins /\ None \notin [id : Authenticators, last : Counters \cup {0}]

VARIABLES
    totp,         \* the enabled authenticator and its last counter, or None
    codes,        \* batch -> "none", "fresh", "used" or "revoked": its code
    ownerOf,      \* history: batch -> the authenticator it was made for
    login,        \* sign-in challenge -> its record in Redis, or None
    enrollment,   \* the enrollment challenge of the user in Redis, or None
    passkey,      \* the signature counter of the passkey, or None
    ceremony,     \* WebAuthn challenge -> its kind in Redis, or None
    drawn,        \* the identifiers drawn so far
    accepted,     \* history: credential -> how often it was accepted; a TOTP
                  \* code's since its authenticator was last enabled
    opened        \* history: sign-in challenge -> sessions opened with it

vars == <<totp, codes, ownerOf, login, enrollment, passkey, ceremony, drawn, request, accepted, opened>>
factors == <<totp, codes, ownerOf>>
web == <<passkey, ceremony>>

Code(b) == [type |-> "recovery", batch |-> b]
Totp(a, n) == [type |-> "totp", authenticator |-> a, counter |-> n]
Wrong == [type |-> "wrong"]
Answers == {Code(b) : b \in Batches} \cup {Totp(a, n) : a \in Authenticators, n \in Counters}
Credentials == Answers \cup {[type |-> "ceremony", id |-> c] : c \in Ceremonies}

Fresh == [attempts |-> Attempts, busy |-> FALSE]

\* A user with a password and a passkey.
Init ==
    /\ totp = None
    /\ codes = [b \in Batches |-> "none"] /\ ownerOf = [b \in Batches |-> 0]
    /\ login = [l \in Logins |-> None] /\ enrollment = None
    /\ passkey = 0 /\ ceremony = [c \in Ceremonies |-> None]
    /\ drawn = {}
    /\ request = [r \in Requests |-> Idle]
    /\ accepted = [x \in Credentials |-> 0] /\ opened = [l \in Logins |-> 0]

Accept(x) == accepted' = [accepted EXCEPT ![x] = @ + 1]

\* The server stops, or the call hangs up: no finally block runs.
Lost(r) ==
    /\ request[r] # Idle /\ Goes(r, Idle)
    /\ UNCHANGED <<factors, login, enrollment, web, drawn, accepted, opened>>

-----------------------------------------------------------------------------
(* Attempts at a challenge: the scripts both kinds share                   *)

Exhausted(record) == record.attempts = 0

\* Mutant: a second attempt starts while one is in progress.
MayBeginAny(record) == record # None /\ ~Exhausted(record)

MayBegin(record) == record # None /\ ~record.busy /\ ~Exhausted(record)
Begun(record) == [record EXCEPT !.busy = TRUE, !.attempts = @ - 1]
Finished(record, succeeded) ==
    IF record = None \/ succeeded \/ Exhausted(record) THEN None
    ELSE [record EXCEPT !.busy = FALSE]

-----------------------------------------------------------------------------
(* Sign-in with the second factor                                          *)

\* The password was right and TOTP is enabled: SecondFactorService.begin.
BeginLogin(l) ==
    /\ totp # None /\ l \notin drawn
    /\ drawn' = drawn \cup {l}
    /\ login' = [login EXCEPT ![l] = Fresh]
    /\ UNCHANGED <<factors, enrollment, web, request, accepted, opened>>

BeginAttempt(r, l, x) ==
    /\ Is(r, "idle") /\ MayBegin(login[l])
    /\ login' = [login EXCEPT ![l] = Begun(@)]
    /\ Goes(r, [at |-> "verify", login |-> l, answer |-> x])
    /\ UNCHANGED <<factors, enrollment, web, drawn, accepted, opened>>

\* Step-up by password asks for a TOTP code without a challenge.
BeginStepUp(r, x) ==
    /\ Is(r, "idle") /\ totp # None /\ x.type # "recovery"
    /\ Goes(r, [at |-> "verify", login |-> None, answer |-> x])
    /\ UNCHANGED <<factors, login, enrollment, web, drawn, accepted, opened>>

Concludes(r, succeeded) ==
    Goes(r, IF request[r].login = None THEN Idle
            ELSE [at |-> IF succeeded THEN "session" ELSE "finish",
                  login |-> request[r].login, succeeded |-> succeeded])

Rejects(r) == Concludes(r, FALSE) /\ UNCHANGED <<codes, accepted>>

\* A statement that committed, and whose reply may be lost: the call throws and
\* the attempt ends as if the answer were wrong.
Committed(r) == \E heard \in BOOLEAN : Concludes(r, heard)

ConsumeRecoveryCode(r, b) ==
    /\ codes[b] = "fresh" /\ codes' = [codes EXCEPT ![b] = "used"]
    /\ Accept(Code(b)) /\ Committed(r)

\* findTotp: the code is checked against the authenticator read here.
FindTotp(r, x) ==
    /\ totp # None /\ x.authenticator = totp.id /\ x.counter > totp.last
    /\ Goes(r, [request[r] EXCEPT !.at = "record"])
    /\ UNCHANGED <<codes, accepted>>

\* A wrong answer, or a statement that fails, is rejected.
Verify(r) ==
    /\ Is(r, "verify")
    /\ LET x == request[r].answer
       IN  \/ Rejects(r)
           \/ x.type = "recovery" /\ ConsumeRecoveryCode(r, x.batch)
           \/ x.type = "totp" /\ FindTotp(r, x)
    /\ UNCHANGED <<totp, ownerOf, login, enrollment, web, drawn, opened>>

\* Mutant: the counter is written whatever it is by now.
CounterStillEarlier(x) == totp # None /\ totp.id = x.authenticator
CounterIsNext(x) == CounterStillEarlier(x) /\ totp.last < x.counter

RecordTotpCounter(r) ==
    /\ Is(r, "record")
    /\ LET x == request[r].answer
       IN  \/ CounterIsNext(x) /\ totp' = [totp EXCEPT !.last = x.counter] /\ Accept(x) /\ Committed(r)
           \/ Concludes(r, FALSE) /\ UNCHANGED <<totp, accepted>>
    /\ UNCHANGED <<codes, ownerOf, login, enrollment, web, drawn, opened>>

\* The session store may be full: the challenge is spent all the same.
OpenSession(r) ==
    /\ Is(r, "session")
    /\ \/ opened' = [opened EXCEPT ![request[r].login] = @ + 1]
       \/ UNCHANGED opened
    /\ Goes(r, [request[r] EXCEPT !.at = "finish"])
    /\ UNCHANGED <<factors, login, enrollment, web, drawn, accepted>>

FinishAttempt(r) ==
    /\ Is(r, "finish")
    /\ login' = [login EXCEPT ![request[r].login] = Finished(@, request[r].succeeded)]
    /\ Goes(r, Idle)
    /\ UNCHANGED <<factors, enrollment, web, drawn, accepted, opened>>

LoginExpires(l) ==
    /\ login[l] # None /\ login' = [login EXCEPT ![l] = None]
    /\ UNCHANGED <<factors, enrollment, web, drawn, request, accepted, opened>>

-----------------------------------------------------------------------------
(* Enrollment of TOTP, recovery codes                                      *)

NextBatch == {b \in Batches : codes[b] = "none" /\ \A e \in Batches : e < b => codes[e] # "none"}

Revoked == [b \in Batches |-> IF codes[b] = "fresh" THEN "revoked" ELSE codes[b]]

\* The codes so far are revoked and a new set belongs to the authenticator.
Replace(owner) ==
    \E b \in NextBatch :
        /\ codes' = [Revoked EXCEPT ![b] = "fresh"]
        /\ ownerOf' = [ownerOf EXCEPT ![b] = owner]

\* begin: getStatus first, then the challenge replaces the one there is.
BeginEnrollment(r) ==
    /\ Is(r, "idle") /\ totp = None
    /\ Goes(r, [at |-> "enroll"])
    /\ UNCHANGED <<factors, login, enrollment, web, drawn, accepted, opened>>

CreateEnrollment(r) ==
    /\ Is(r, "enroll")
    /\ \E a \in Authenticators \ drawn :
          /\ \A other \in Authenticators \ drawn : a <= other
          /\ drawn' = drawn \cup {a}
          /\ enrollment' = [attempts |-> Attempts, busy |-> FALSE, id |-> a]
    /\ Goes(r, Idle)
    /\ UNCHANGED <<factors, login, web, accepted, opened>>

ConfirmEnrollment(r, right) ==
    /\ Is(r, "idle") /\ MayBegin(enrollment)
    /\ enrollment' = Begun(enrollment)
    /\ Goes(r, IF right THEN [at |-> "enable", id |-> enrollment.id]
               ELSE [at |-> "conclude", succeeded |-> FALSE])
    /\ UNCHANGED <<factors, login, web, drawn, accepted, opened>>

MayEnable == totp = None

\* An authenticator starts without a last counter, one enabled before too.
EnableTotp(r) ==
    /\ Is(r, "enable")
    /\ IF MayEnable
       THEN /\ totp' = [id |-> request[r].id, last |-> 0] /\ Replace(request[r].id)
            /\ accepted' = [x \in Credentials |->
                  IF \E n \in Counters : x = Totp(request[r].id, n) THEN 0 ELSE accepted[x]]
       ELSE UNCHANGED <<factors, accepted>>
    /\ Goes(r, [at |-> "conclude", succeeded |-> MayEnable])
    /\ UNCHANGED <<login, enrollment, web, drawn, opened>>

ConcludeEnrollment(r) ==
    /\ Is(r, "conclude")
    /\ enrollment' = Finished(enrollment, request[r].succeeded)
    /\ Goes(r, Idle)
    /\ UNCHANGED <<factors, login, web, drawn, accepted, opened>>

EnrollmentExpires ==
    /\ enrollment # None /\ enrollment' = None
    /\ UNCHANGED <<factors, login, web, drawn, request, accepted, opened>>

\* Mutant: the recovery codes outlive the authenticator.
RemoveTotpOnly == totp' = None /\ UNCHANGED <<codes, ownerOf>>
RemoveTotp == totp' = None /\ codes' = Revoked /\ UNCHANGED ownerOf

DisableTotp ==
    /\ totp # None /\ RemoveTotp
    /\ UNCHANGED <<login, enrollment, web, drawn, request, accepted, opened>>

RegenerateRecoveryCodes ==
    /\ totp # None /\ Replace(totp.id) /\ UNCHANGED totp
    /\ UNCHANGED <<login, enrollment, web, drawn, request, accepted, opened>>

\* An administrator's resetEnhancedAuthentication, and the factors' part of
\* the deletion of the account.
ResetAuthentication ==
    /\ RemoveTotp /\ passkey' = None
    /\ UNCHANGED <<login, enrollment, ceremony, drawn, request, accepted, opened>>

-----------------------------------------------------------------------------
(* Passkeys                                                                *)

Draw(c, kind) ==
    /\ c \notin drawn
    /\ drawn' = drawn \cup {c}
    /\ ceremony' = [ceremony EXCEPT ![c] = kind]
    /\ UNCHANGED <<factors, login, enrollment, passkey, request, accepted, opened>>

PasskeySignInOptions(c) == Draw(c, "authentication")
PasskeyRegistrationOptions(c) == Draw(c, "registration")
PasskeyStepUpOptions(c) == passkey # None /\ Draw(c, "step_up")

CeremonyExpires(c) ==
    /\ ceremony[c] # None /\ ceremony' = [ceremony EXCEPT ![c] = None]
    /\ UNCHANGED <<factors, login, enrollment, passkey, drawn, request, accepted, opened>>

\* WebauthnChallengeManager.consume: GETDEL, then the kind is compared.
ConsumeCeremony(r, c, kind, next) ==
    /\ Is(r, "idle") /\ ceremony[c] # None
    /\ ceremony' = [ceremony EXCEPT ![c] = None]
    /\ Goes(r, IF ceremony[c] = kind THEN [at |-> next, ceremony |-> c] ELSE Idle)
    /\ UNCHANGED <<factors, login, enrollment, passkey, drawn, accepted, opened>>

PasskeySignIn(r, c) == ConsumeCeremony(r, c, "authentication", "find")
PasskeyStepUp(r, c) == ConsumeCeremony(r, c, "step_up", "find")
PasskeyRegistration(r, c) == ConsumeCeremony(r, c, "registration", "save")

\* The signature is verified against the counter read here; an authenticator
\* without a counter reports 0 for ever.
FindCredential(r, reported) ==
    /\ Is(r, "find")
    /\ Goes(r, IF passkey # None /\ (reported > passkey \/ (reported = 0 /\ passkey = 0))
               THEN [at |-> "count", ceremony |-> request[r].ceremony,
                     previous |-> passkey, reported |-> reported]
               ELSE Idle)
    /\ UNCHANGED <<factors, login, enrollment, web, drawn, accepted, opened>>

UpdateCounter(r) ==
    /\ Is(r, "count")
    /\ IF passkey = request[r].previous
       THEN /\ passkey' = request[r].reported
            /\ Accept([type |-> "ceremony", id |-> request[r].ceremony])
       ELSE UNCHANGED <<passkey, accepted>>
    /\ Goes(r, Idle)
    /\ UNCHANGED <<factors, login, enrollment, ceremony, drawn, opened>>

SaveCredential(r) ==
    /\ Is(r, "save")
    /\ IF passkey = None
       THEN passkey' = 0 /\ Accept([type |-> "ceremony", id |-> request[r].ceremony])
       ELSE UNCHANGED <<passkey, accepted>>
    /\ Goes(r, Idle)
    /\ UNCHANGED <<factors, login, enrollment, ceremony, drawn, opened>>

DeletePasskey ==
    /\ passkey # None /\ passkey' = None
    /\ UNCHANGED <<factors, login, enrollment, ceremony, drawn, request, accepted, opened>>

-----------------------------------------------------------------------------
Next ==
    \/ \E l \in Logins : BeginLogin(l) \/ LoginExpires(l)
    \/ \E r \in Requests, l \in Logins, x \in Answers \cup {Wrong} : BeginAttempt(r, l, x)
    \/ \E r \in Requests, x \in Answers : BeginStepUp(r, x)
    \/ \E r \in Requests :
          \/ Lost(r) \/ Verify(r) \/ RecordTotpCounter(r) \/ OpenSession(r) \/ FinishAttempt(r)
          \/ BeginEnrollment(r) \/ CreateEnrollment(r) \/ EnableTotp(r) \/ ConcludeEnrollment(r)
          \/ UpdateCounter(r) \/ SaveCredential(r)
    \/ \E r \in Requests, right \in BOOLEAN : ConfirmEnrollment(r, right)
    \/ EnrollmentExpires \/ DisableTotp \/ RegenerateRecoveryCodes \/ ResetAuthentication
    \/ \E c \in Ceremonies :
          \/ PasskeySignInOptions(c) \/ PasskeyRegistrationOptions(c) \/ PasskeyStepUpOptions(c)
          \/ CeremonyExpires(c)
    \/ \E r \in Requests, c \in Ceremonies :
          PasskeySignIn(r, c) \/ PasskeyStepUp(r, c) \/ PasskeyRegistration(r, c)
    \/ \E r \in Requests, n \in Signatures : FindCredential(r, n)
    \/ DeletePasskey

Spec == Init /\ [][Next]_vars

-----------------------------------------------------------------------------
(* Properties                                                              *)

\* A recovery code, the TOTP code of a 30 second step and a WebAuthn
\* challenge are each accepted once (a TOTP code: since its authenticator was
\* enabled), however many requests offer them at the same time and whatever is
\* enrolled, replaced or reset in between.
AcceptedOnce == \A x \in Credentials : accepted[x] <= 1

\* A sign-in challenge opens one session at most, over concurrent attempts
\* with different codes and requests that never finish.
OneSessionPerChallenge == \A l \in Logins : opened[l] <= 1

\* A recovery code that can still be used is of the authenticator enabled
\* now, and of the last set made for it.
CodesFollowAuthenticator ==
    \A b \in Batches : codes[b] = "fresh" =>
        /\ totp # None /\ ownerOf[b] = totp.id
        /\ \A later \in Batches : later > b => codes[later] = "none"
=============================================================================
