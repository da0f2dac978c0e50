------------------------ MODULE SignInFactors_proofs ------------------------
(***************************************************************************)
(* The safety of SignInFactors for any number of requests, challenges,     *)
(* authenticators, codes, time steps and attempts: a credential is accepted*)
(* once, a sign-in opens one session, live recovery codes are those of the *)
(* enabled authenticator.  And of the BrowserSessions that a sign-in opens,*)
(* for any number of users, sessions and requests, any limit and any times *)
(* to live: every accepted session can be found and revoked, and the limit *)
(* counts just those.                                                      *)
(***************************************************************************)
EXTENDS SignInFactors, BrowserSessions, FiniteSetTheorems, TLAPS

Rows == [id : Authenticators, last : Counters \cup {0}]
Records == [attempts : Nat, busy : BOOLEAN]
Enrollments == [attempts : Nat, busy : BOOLEAN, id : Authenticators]
TotpAnswers == {Totp(a, n) : a \in Authenticators, n \in Counters}

Verifying == [at : {"verify"}, login : Logins \cup {None}, answer : Answers \cup {Wrong}]
Recording == [at : {"record"}, login : Logins \cup {None}, answer : TotpAnswers]
Opening == [at : {"session"}, login : Logins, succeeded : {TRUE}]
Finishing == [at : {"finish"}, login : Logins, succeeded : BOOLEAN]
Enabling == [at : {"enable"}, id : Authenticators]
Concluding == [at : {"conclude"}, succeeded : BOOLEAN]
Ceremonial == [at : {"find", "save"}, ceremony : Ceremonies]
Counting == [at : {"count"}, ceremony : Ceremonies, previous : Nat, reported : Nat]

States ==
    {Idle} \cup {[at |-> "enroll"]} \cup Verifying \cup Recording \cup Opening \cup Finishing
    \cup Enabling \cup Concluding \cup Ceremonial \cup Counting

TypeOK ==
    /\ totp \in {None} \cup Rows
    /\ codes \in [Batches -> {"none", "fresh", "used", "revoked"}]
    /\ ownerOf \in [Batches -> Nat]
    /\ login \in [Logins -> {None} \cup Records]
    /\ enrollment \in {None} \cup Enrollments
    /\ passkey \in {None} \cup Nat
    /\ ceremony \in [Ceremonies -> {None, "authentication", "registration", "step_up"}]
    /\ request \in [Requests -> States]
    /\ accepted \in [Credentials -> Nat]
    /\ opened \in [Logins -> Nat]

-----------------------------------------------------------------------------
(* Credentials are accepted once                                           *)

Ceremony(c) == [type |-> "ceremony", id |-> c]

\* A recovery code that can still be used was not accepted yet.
RecoveryOK ==
    \A b \in Batches :
        /\ accepted[Code(b)] <= 1
        /\ codes[b] \in {"none", "fresh"} => accepted[Code(b)] = 0

\* A time step after the recorded one was not accepted of this authenticator.
TotpOK ==
    \A a \in Authenticators, n \in Counters :
        /\ accepted[Totp(a, n)] <= 1
        /\ totp # None /\ totp.id = a /\ totp.last < n => accepted[Totp(a, n)] = 0

\* x carries the WebAuthn challenge c it took from Redis.
Carries(x, c) == x.at \in {"find", "count", "save"} /\ x.ceremony = c

CeremonyOK ==
    \A c \in Ceremonies :
        /\ accepted[Ceremony(c)] <= 1
        /\ c \notin drawn => ceremony[c] = None
        /\ c \notin drawn \/ ceremony[c] # None =>
              accepted[Ceremony(c)] = 0 /\ \A r \in Requests : ~Carries(request[r], c)
        /\ \A r \in Requests : Carries(request[r], c) =>
              /\ accepted[Ceremony(c)] = 0
              /\ \A q \in Requests : Carries(request[q], c) => q = r

-----------------------------------------------------------------------------
(* A challenge opens one session                                           *)

\* x is an attempt at the sign-in challenge l.
Tries(x, l) == x.at \in {"verify", "record", "session", "finish"} /\ x.login = l

SessionOK ==
    \A l \in Logins :
        /\ opened[l] <= 1
        /\ l \notin drawn =>
              login[l] = None /\ opened[l] = 0 /\ \A r \in Requests : ~Tries(request[r], l)
        /\ \A r \in Requests : Tries(request[r], l) =>
              /\ opened[l] # 0 => request[r].at = "finish" /\ request[r].succeeded
              /\ \A q \in Requests : Tries(request[q], l) => q = r
        /\ login[l] # None /\ ~login[l].busy =>
              opened[l] = 0 /\ \A r \in Requests : ~Tries(request[r], l)

-----------------------------------------------------------------------------
(* Live recovery codes                                                     *)

\* The batches are drawn in order.
InOrder == \A b, e \in Batches : b < e /\ codes[b] = "none" => codes[e] = "none"

CodesInv == InOrder /\ CodesFollowAuthenticator

-----------------------------------------------------------------------------
(* Credentials, requests and types                                         *)

\* Credentials of different kinds, or of different parts, are different.
LEMMA Different ==
    /\ \A b : /\ \A d : Code(b) = Code(d) => b = d
              /\ \A a, n : Code(b) # Totp(a, n)
              /\ \A c : Code(b) # Ceremony(c)
    /\ \A a, n : /\ \A d, m : Totp(a, n) = Totp(d, m) => a = d /\ n = m
                 /\ \A c : Totp(a, n) # Ceremony(c)
    /\ \A c, d : Ceremony(c) = Ceremony(d) => c = d
    /\ \A b \in Batches : Code(b) \in Credentials
    /\ \A a \in Authenticators, n \in Counters : Totp(a, n) \in Credentials
    /\ \A c \in Ceremonies : Ceremony(c) \in Credentials
<1>1. \A b : /\ \A d : Code(b) = Code(d) => b = d
             /\ \A a, n : Code(b) # Totp(a, n)
             /\ \A c : Code(b) # Ceremony(c)
  BY DEF Code, Totp, Ceremony
<1>2. \A a, n : /\ \A d, m : Totp(a, n) = Totp(d, m) => a = d /\ n = m
                /\ \A c : Totp(a, n) # Ceremony(c)
  BY DEF Totp, Ceremony
<1>3. \A c, d : Ceremony(c) = Ceremony(d) => c = d
  BY DEF Ceremony
<1>4. /\ \A b \in Batches : Code(b) \in Credentials
      /\ \A a \in Authenticators, n \in Counters : Totp(a, n) \in Credentials
      /\ \A c \in Ceremonies : Ceremony(c) \in Credentials
  BY DEF Credentials, Answers, Ceremony
<1> QED
  BY <1>1, <1>2, <1>3, <1>4

\* What a request is depends on where it is.
LEMMA Shapes ==
    ASSUME TypeOK, NEW r \in Requests
    PROVE  /\ request[r].at = "idle" => request[r] = Idle
           /\ request[r].at = "verify" => request[r] \in Verifying
           /\ request[r].at = "record" => request[r] \in Recording
           /\ request[r].at = "session" => request[r] \in Opening
           /\ request[r].at = "finish" => request[r] \in Finishing
           /\ request[r].at = "enable" => request[r] \in Enabling
           /\ request[r].at = "conclude" => request[r] \in Concluding
           /\ request[r].at \in {"find", "save"} => request[r] \in Ceremonial
           /\ request[r].at = "count" => request[r] \in Counting
<1>1. request[r] \in States
  BY DEF TypeOK
<1>2. /\ \A x \in Verifying : x.at = "verify"
      /\ \A x \in Recording : x.at = "record"
      /\ \A x \in Opening : x.at = "session"
      /\ \A x \in Finishing : x.at = "finish"
      /\ \A x \in Enabling : x.at = "enable"
      /\ \A x \in Concluding : x.at = "conclude"
      /\ \A x \in Ceremonial : x.at \in {"find", "save"}
      /\ \A x \in Counting : x.at = "count"
      /\ Idle.at = "idle" /\ [at |-> "enroll"].at = "enroll"
  BY DEF Verifying, Recording, Opening, Finishing, Enabling, Concluding, Ceremonial, Counting, Idle
<1> QED
  BY <1>1, <1>2 DEF States

\* The two moves that keep what a request carries.
LEMMA Moves ==
    /\ \A x \in Verifying : x.answer \in TotpAnswers => [x EXCEPT !.at = "record"] \in Recording
    /\ \A x \in Opening : [x EXCEPT !.at = "finish"] \in Finishing
<1>1. ASSUME NEW x \in Verifying, x.answer \in TotpAnswers
      PROVE  [x EXCEPT !.at = "record"] \in Recording
  BY <1>1 DEF Verifying, Recording
<1>2. ASSUME NEW x \in Opening
      PROVE  [x EXCEPT !.at = "finish"] \in Finishing
  BY DEF Opening, Finishing
<1> QED
  BY <1>1, <1>2

\* The answer of a request is of one of three kinds.
LEMMA Kinds ==
    ASSUME NEW x \in Answers \cup {Wrong}
    PROVE  /\ x.type = "recovery" => \E b \in Batches : x = Code(b) /\ x.batch = b
           /\ x.type = "totp" => x \in TotpAnswers
           /\ x.type \notin {"recovery", "totp"} => x = Wrong
<1>1. CASE x = Wrong
  BY <1>1 DEF Wrong
<1>2. CASE \E b \in Batches : x = Code(b)
  BY <1>2 DEF Code
<1>3. CASE \E a \in Authenticators, n \in Counters : x = Totp(a, n)
  BY <1>3 DEF Totp, TotpAnswers
<1> QED
  BY <1>1, <1>2, <1>3 DEF Answers

-----------------------------------------------------------------------------
(* Types                                                                   *)

\* How an attempt ends, at a challenge or without one.
LEMMA Ended ==
    ASSUME TypeOK, NEW r \in Requests, request[r].login \in Logins \cup {None},
           NEW succeeded \in BOOLEAN, Concludes(r, succeeded)
    PROVE  /\ request' \in [Requests -> States]
           /\ \A q \in Requests \ {r} : request'[q] = request[q]
           /\ request[r].login = None => request'[r] = Idle
           /\ request[r].login # None =>
                 /\ request'[r].at = IF succeeded THEN "session" ELSE "finish"
                 /\ request'[r].login = request[r].login
                 /\ request'[r].succeeded = succeeded
<1> DEFINE ended == [at |-> IF succeeded THEN "session" ELSE "finish",
                     login |-> request[r].login, succeeded |-> succeeded]
<1>1. request' = [request EXCEPT ![r] = IF request[r].login = None THEN Idle ELSE ended]
  BY DEF Concludes, Goes
<1>2. request[r].login # None => ended \in Opening \cup Finishing
  BY DEF Opening, Finishing
<1>3. /\ ended.at = IF succeeded THEN "session" ELSE "finish"
      /\ ended.login = request[r].login /\ ended.succeeded = succeeded
  OBVIOUS
<1> HIDE DEF ended
<1> QED
  BY <1>1, <1>2, <1>3 DEF TypeOK, States

\* The challenge scripts keep a record a record.
LEMMA Attempted ==
    /\ Fresh \in Records
    /\ \A x \in Records : ~Exhausted(x) => Begun(x) \in Records /\ Begun(x).busy
    /\ \A x \in Enrollments : ~Exhausted(x) => Begun(x) \in Enrollments
    /\ \A x \in {None} \cup Records, s \in BOOLEAN : Finished(x, s) \in {None} \cup Records
    /\ \A x \in {None} \cup Enrollments, s \in BOOLEAN : Finished(x, s) \in {None} \cup Enrollments
<1>1. Fresh \in Records
  BY NumbersAssumption DEF Fresh, Records
<1>2. ASSUME NEW x \in Records, ~Exhausted(x)
      PROVE  Begun(x) \in Records /\ Begun(x).busy
  <2> DEFINE a == [x EXCEPT !.busy = TRUE]
  <2>1. a \in Records /\ a.busy /\ a.attempts = x.attempts
    BY DEF Records
  <2>2. Begun(x) = [a EXCEPT !.attempts = x.attempts - 1] /\ x.attempts - 1 \in Nat
    BY <1>2 DEF Begun, Exhausted, Records
  <2> HIDE DEF a
  <2> QED
    BY <2>1, <2>2 DEF Records
<1>3. ASSUME NEW x \in Enrollments, ~Exhausted(x)
      PROVE  Begun(x) \in Enrollments
  <2> DEFINE a == [x EXCEPT !.busy = TRUE]
  <2>1. a \in Enrollments /\ a.attempts = x.attempts
    BY DEF Enrollments
  <2>2. Begun(x) = [a EXCEPT !.attempts = x.attempts - 1] /\ x.attempts - 1 \in Nat
    BY <1>3 DEF Begun, Exhausted, Enrollments
  <2> HIDE DEF a
  <2> QED
    BY <2>1, <2>2 DEF Enrollments
<1>4. \A x \in {None} \cup Records, s \in BOOLEAN : Finished(x, s) \in {None} \cup Records
  BY DEF Finished, Records
<1>5. \A x \in {None} \cup Enrollments, s \in BOOLEAN : Finished(x, s) \in {None} \cup Enrollments
  BY DEF Finished, Enrollments
<1> QED
  BY <1>1, <1>2, <1>3, <1>4, <1>5

\* What a new set of recovery codes does.
LEMMA Replaced ==
    ASSUME TypeOK, NEW owner \in Nat, Replace(owner)
    PROVE  /\ codes' \in [Batches -> {"none", "fresh", "used", "revoked"}]
           /\ ownerOf' \in [Batches -> Nat]
           /\ \E b \in Batches :
                 /\ codes[b] = "none" /\ \A e \in Batches : e < b => codes[e] # "none"
                 /\ codes'[b] = "fresh" /\ ownerOf'[b] = owner
                 /\ \A d \in Batches \ {b} :
                       codes'[d] = IF codes[d] = "fresh" THEN "revoked" ELSE codes[d]
<1>1. PICK b \in NextBatch : /\ codes' = [Revoked EXCEPT ![b] = "fresh"]
                             /\ ownerOf' = [ownerOf EXCEPT ![b] = owner]
  BY DEF Replace
<1>2. /\ Revoked \in [Batches -> {"none", "fresh", "used", "revoked"}]
      /\ \A d \in Batches : Revoked[d] = IF codes[d] = "fresh" THEN "revoked" ELSE codes[d]
  BY DEF Revoked, TypeOK
<1>3. /\ b \in Batches /\ codes[b] = "none"
      /\ \A e \in Batches : e < b => codes[e] # "none"
  BY DEF NextBatch
<1> QED
  BY <1>1, <1>2, <1>3 DEF TypeOK

\* A request goes to a state of the model.
LEMMA GoesOn ==
    ASSUME TypeOK, NEW r \in Requests, NEW x \in States, Goes(r, x)
    PROVE  /\ request' \in [Requests -> States] /\ request'[r] = x
           /\ \A q \in Requests \ {r} : request'[q] = request[q]
BY DEF TypeOK, Goes

\* The states written out in the actions.
LEMMA Written ==
    /\ Idle \in States /\ [at |-> "enroll"] \in States
    /\ \A l \in Logins \cup {None}, x \in Answers \cup {Wrong} :
          [at |-> "verify", login |-> l, answer |-> x] \in States
    /\ \A a \in Authenticators : [at |-> "enable", id |-> a] \in States
    /\ \A s \in BOOLEAN : [at |-> "conclude", succeeded |-> s] \in States
    /\ \A c \in Ceremonies, at \in {"find", "save"} : [at |-> at, ceremony |-> c] \in States
    /\ \A c \in Ceremonies, m \in Nat, n \in Nat :
          [at |-> "count", ceremony |-> c, previous |-> m, reported |-> n] \in States
<1>1. \A l \in Logins \cup {None}, x \in Answers \cup {Wrong} :
          [at |-> "verify", login |-> l, answer |-> x] \in Verifying
  BY DEF Verifying
<1>2. \A a \in Authenticators : [at |-> "enable", id |-> a] \in Enabling
  BY DEF Enabling
<1>3. \A s \in BOOLEAN : [at |-> "conclude", succeeded |-> s] \in Concluding
  BY DEF Concluding
<1>4. \A c \in Ceremonies, at \in {"find", "save"} : [at |-> at, ceremony |-> c] \in Ceremonial
  BY DEF Ceremonial
<1>5. \A c \in Ceremonies, m \in Nat, n \in Nat :
          [at |-> "count", ceremony |-> c, previous |-> m, reported |-> n] \in Counting
  BY DEF Counting
<1> QED
  BY <1>1, <1>2, <1>3, <1>4, <1>5 DEF States

\* A check of an answer: what it accepts, and where the request goes.
LEMMA Verified ==
    ASSUME TypeOK, NEW r \in Requests, Verify(r)
    PROVE  /\ request' \in [Requests -> States]
           /\ \A q \in Requests \ {r} : request'[q] = request[q]
           /\ request[r].login \in Logins \cup {None}
           /\ \/ request'[r] = Idle
              \/ /\ request'[r].at \in {"record", "session", "finish"}
                 /\ request'[r].login = request[r].login
           /\ \/ codes' = codes /\ accepted' = accepted
              \/ \E b \in Batches :
                    /\ codes[b] = "fresh" /\ codes' = [codes EXCEPT ![b] = "used"]
                    /\ accepted' = [accepted EXCEPT ![Code(b)] = accepted[Code(b)] + 1]
<1> DEFINE x == request[r].answer
<1>1. request[r] \in Verifying
  BY Shapes DEF Verify, Is
<1>2. request[r].login \in Logins \cup {None} /\ x \in Answers \cup {Wrong}
  BY <1>1 DEF Verifying
<1>3. ASSUME NEW s \in BOOLEAN, Concludes(r, s)
      PROVE  /\ request' \in [Requests -> States]
             /\ \A q \in Requests \ {r} : request'[q] = request[q]
             /\ \/ request'[r] = Idle
                \/ /\ request'[r].at \in {"record", "session", "finish"}
                   /\ request'[r].login = request[r].login
  BY <1>2, <1>3, Ended
<1>4. CASE Rejects(r)
  BY <1>2, <1>3, <1>4 DEF Rejects
<1>5. CASE x.type = "recovery" /\ ConsumeRecoveryCode(r, x.batch)
  <2>1. PICK b \in Batches : x.batch = b
    BY <1>2, <1>5, Kinds
  <2>2. /\ codes[b] = "fresh" /\ codes' = [codes EXCEPT ![b] = "used"]
        /\ accepted' = [accepted EXCEPT ![Code(b)] = accepted[Code(b)] + 1]
        /\ \E s \in BOOLEAN : Concludes(r, s)
    BY <1>5, <2>1 DEF ConsumeRecoveryCode, Accept, Committed
  <2> QED
    BY <1>2, <1>3, <2>2
<1>6. CASE x.type = "totp" /\ FindTotp(r, x)
  <2> DEFINE next == [request[r] EXCEPT !.at = "record"]
  <2>1. Goes(r, next) /\ codes' = codes /\ accepted' = accepted
    BY <1>6 DEF FindTotp
  <2>2. next \in Recording
    BY <1>1, <1>2, <1>6, Kinds, Moves
  <2>3. next.login = request[r].login /\ next.at = "record"
    BY <1>1 DEF Verifying
  <2> HIDE DEF next
  <2>4. /\ request' \in [Requests -> States] /\ request'[r] = next
        /\ \A q \in Requests \ {r} : request'[q] = request[q]
    BY <2>1, <2>2, GoesOn DEF States
  <2> QED
    BY <1>2, <2>1, <2>3, <2>4
<1> QED
  BY <1>4, <1>5, <1>6 DEF Verify

\* The counter of a TOTP code is recorded, or the attempt failed.
LEMMA Recorded ==
    ASSUME TypeOK, NEW r \in Requests, RecordTotpCounter(r)
    PROVE  /\ request' \in [Requests -> States]
           /\ \A q \in Requests \ {r} : request'[q] = request[q]
           /\ request[r].login \in Logins \cup {None}
           /\ \/ request'[r] = Idle
              \/ /\ request'[r].at \in {"session", "finish"}
                 /\ request'[r].login = request[r].login
           /\ \/ totp' = totp /\ accepted' = accepted
              \/ \E a \in Authenticators, n \in Counters :
                    /\ totp # None /\ totp.id = a /\ totp.last < n
                    /\ totp' \in Rows /\ totp'.id = a /\ totp'.last = n
                    /\ accepted' = [accepted EXCEPT ![Totp(a, n)] = accepted[Totp(a, n)] + 1]
<1> DEFINE x == request[r].answer
<1>1. request[r] \in Recording
  BY Shapes DEF RecordTotpCounter, Is
<1>2. request[r].login \in Logins \cup {None} /\ x \in TotpAnswers
  BY <1>1 DEF Recording
<1>3. PICK a \in Authenticators, n \in Counters :
        x = Totp(a, n) /\ x.authenticator = a /\ x.counter = n
  BY <1>2 DEF TotpAnswers, Totp
<1>4. ASSUME NEW s \in BOOLEAN, Concludes(r, s)
      PROVE  /\ request' \in [Requests -> States]
             /\ \A q \in Requests \ {r} : request'[q] = request[q]
             /\ \/ request'[r] = Idle
                \/ /\ request'[r].at \in {"session", "finish"}
                   /\ request'[r].login = request[r].login
  BY <1>2, <1>4, Ended
<1>5. CASE CounterIsNext(x) /\ totp' = [totp EXCEPT !.last = x.counter] /\ Accept(x) /\ Committed(r)
  <2>1. /\ totp # None /\ totp.id = a /\ totp.last < n
        /\ totp' = [totp EXCEPT !.last = n]
        /\ accepted' = [accepted EXCEPT ![Totp(a, n)] = accepted[Totp(a, n)] + 1]
        /\ \E s \in BOOLEAN : Concludes(r, s)
    BY <1>3, <1>5 DEF CounterIsNext, CounterStillEarlier, Accept, Committed
  <2>2. totp' \in Rows /\ totp'.id = a /\ totp'.last = n
    BY <2>1 DEF TypeOK, Rows
  <2> QED
    BY <1>2, <1>4, <2>1, <2>2
<1>6. CASE Concludes(r, FALSE) /\ UNCHANGED <<totp, accepted>>
  BY <1>2, <1>4, <1>6
<1> QED
  BY <1>5, <1>6 DEF RecordTotpCounter

\* Every step keeps the types: one step below per action.
LEMMA TypeStep ==
    ASSUME TypeOK, [Next]_vars
    PROVE  TypeOK'
<1> USE DEF factors, web
<1>1. ASSUME NEW l \in Logins, BeginLogin(l)
      PROVE  TypeOK'
  BY <1>1, Attempted DEF TypeOK, BeginLogin
<1>2. ASSUME NEW l \in Logins, LoginExpires(l)
      PROVE  TypeOK'
  BY <1>2 DEF TypeOK, LoginExpires
<1>3. ASSUME NEW r \in Requests, NEW l \in Logins, NEW x \in Answers \cup {Wrong}, BeginAttempt(r, l, x)
      PROVE  TypeOK'
  <2>1. Begun(login[l]) \in Records
    BY <1>3, Attempted DEF BeginAttempt, MayBegin, TypeOK
  <2>2. request' \in [Requests -> States]
    BY <1>3, Written, GoesOn DEF BeginAttempt
  <2> QED
    BY <1>3, <2>1, <2>2 DEF TypeOK, BeginAttempt
<1>4. ASSUME NEW r \in Requests, NEW x \in Answers, BeginStepUp(r, x)
      PROVE  TypeOK'
  <2>1. request' \in [Requests -> States]
    BY <1>4, Written, GoesOn DEF BeginStepUp
  <2> QED
    BY <1>4, <2>1 DEF TypeOK, BeginStepUp
<1>5. ASSUME NEW r \in Requests, Lost(r)
      PROVE  TypeOK'
  <2>1. request' \in [Requests -> States]
    BY <1>5, Written, GoesOn DEF Lost
  <2> QED
    BY <1>5, <2>1 DEF TypeOK, Lost
<1>6. ASSUME NEW r \in Requests, Verify(r)
      PROVE  TypeOK'
  <2>1. request' \in [Requests -> States]
    BY <1>6, Verified
  <2>2. codes' \in [Batches -> {"none", "fresh", "used", "revoked"}] /\ accepted' \in [Credentials -> Nat]
    BY <1>6, Verified DEF TypeOK
  <2> QED
    BY <1>6, <2>1, <2>2 DEF TypeOK, Verify
<1>7. ASSUME NEW r \in Requests, RecordTotpCounter(r)
      PROVE  TypeOK'
  <2>1. request' \in [Requests -> States]
    BY <1>7, Recorded
  <2>2. totp' \in {None} \cup Rows /\ accepted' \in [Credentials -> Nat]
    BY <1>7, Recorded DEF TypeOK
  <2> QED
    BY <1>7, <2>1, <2>2 DEF TypeOK, RecordTotpCounter
<1>8. ASSUME NEW r \in Requests, OpenSession(r)
      PROVE  TypeOK'
  <2> DEFINE next == [request[r] EXCEPT !.at = "finish"]
  <2>1. next \in States /\ request[r].login \in Logins
    <3>1. request[r] \in Opening
      BY <1>8, Shapes DEF OpenSession, Is
    <3>2. next \in Finishing
      BY <3>1, Moves
    <3> QED
      BY <3>1, <3>2 DEF States, Opening
  <2>2. Goes(r, next)
    BY <1>8 DEF OpenSession
  <2> HIDE DEF next
  <2>3. request' \in [Requests -> States]
    BY <2>1, <2>2, GoesOn
  <2>4. opened' \in [Logins -> Nat]
    BY <1>8, <2>1 DEF OpenSession, TypeOK
  <2> QED
    BY <1>8, <2>3, <2>4 DEF TypeOK, OpenSession
<1>9. ASSUME NEW r \in Requests, FinishAttempt(r)
      PROVE  TypeOK'
  <2>1. request[r].login \in Logins /\ request[r].succeeded \in BOOLEAN
    BY <1>9, Shapes DEF FinishAttempt, Is, Finishing
  <2>2. Finished(login[request[r].login], request[r].succeeded) \in {None} \cup Records
    BY <2>1, Attempted DEF TypeOK
  <2>3. request' \in [Requests -> States]
    BY <1>9, Written, GoesOn DEF FinishAttempt
  <2> QED
    BY <1>9, <2>1, <2>2, <2>3 DEF TypeOK, FinishAttempt
<1>10. ASSUME NEW r \in Requests, BeginEnrollment(r)
       PROVE  TypeOK'
  <2>1. request' \in [Requests -> States]
    BY <1>10, Written, GoesOn DEF BeginEnrollment
  <2> QED
    BY <1>10, <2>1 DEF TypeOK, BeginEnrollment
<1>11. ASSUME NEW r \in Requests, CreateEnrollment(r)
       PROVE  TypeOK'
  <2>1. request' \in [Requests -> States]
    BY <1>11, Written, GoesOn DEF CreateEnrollment
  <2>2. enrollment' \in Enrollments
    BY <1>11, NumbersAssumption DEF CreateEnrollment, Enrollments
  <2> QED
    BY <1>11, <2>1, <2>2 DEF TypeOK, CreateEnrollment
<1>12. ASSUME NEW r \in Requests, NEW right \in BOOLEAN, ConfirmEnrollment(r, right)
       PROVE  TypeOK'
  <2>1. enrollment \in Enrollments /\ enrollment.id \in Authenticators
    BY <1>12 DEF ConfirmEnrollment, MayBegin, TypeOK, Enrollments
  <2>2. request' \in [Requests -> States]
    <3>1. CASE right
      BY <1>12, <2>1, <3>1, Written, GoesOn DEF ConfirmEnrollment
    <3>2. CASE ~right
      BY <1>12, <3>2, Written, GoesOn DEF ConfirmEnrollment
    <3> QED
      BY <3>1, <3>2
  <2>3. enrollment' \in Enrollments
    BY <1>12, <2>1, Attempted DEF ConfirmEnrollment, MayBegin
  <2> QED
    BY <1>12, <2>2, <2>3 DEF TypeOK, ConfirmEnrollment
<1>13. ASSUME NEW r \in Requests, EnableTotp(r)
       PROVE  TypeOK'
  <2>1. request[r].id \in Authenticators
    BY <1>13, Shapes DEF EnableTotp, Is, Enabling
  <2>2. request' \in [Requests -> States]
    BY <1>13, Written, GoesOn DEF EnableTotp, MayEnable
  <2>3. CASE ~MayEnable
    BY <1>13, <2>2, <2>3 DEF TypeOK, EnableTotp
  <2>4. CASE MayEnable
    <3>1. totp' \in Rows
      BY <1>13, <2>1, <2>4 DEF EnableTotp, Rows
    <3>2. /\ codes' \in [Batches -> {"none", "fresh", "used", "revoked"}]
          /\ ownerOf' \in [Batches -> Nat]
      BY <1>13, <2>1, <2>4, Replaced, NumbersAssumption DEF EnableTotp
    <3>3. accepted' \in [Credentials -> Nat]
      BY <1>13, <2>4 DEF EnableTotp, TypeOK
    <3> QED
      BY <1>13, <2>2, <3>1, <3>2, <3>3 DEF TypeOK, EnableTotp
  <2> QED
    BY <2>3, <2>4
<1>14. ASSUME NEW r \in Requests, ConcludeEnrollment(r)
       PROVE  TypeOK'
  <2>1. request[r].succeeded \in BOOLEAN
    BY <1>14, Shapes DEF ConcludeEnrollment, Is, Concluding
  <2>2. enrollment' \in {None} \cup Enrollments
    BY <1>14, <2>1, Attempted DEF ConcludeEnrollment, TypeOK
  <2>3. request' \in [Requests -> States]
    BY <1>14, Written, GoesOn DEF ConcludeEnrollment
  <2> QED
    BY <1>14, <2>2, <2>3 DEF TypeOK, ConcludeEnrollment
<1>15. ASSUME EnrollmentExpires \/ DisableTotp \/ ResetAuthentication \/ DeletePasskey
       PROVE  TypeOK'
  BY <1>15 DEF TypeOK, EnrollmentExpires, DisableTotp, ResetAuthentication, DeletePasskey,
       RemoveTotp, Revoked
<1>16. ASSUME RegenerateRecoveryCodes
       PROVE  TypeOK'
  <2>1. totp.id \in Nat
    BY <1>16, NumbersAssumption DEF RegenerateRecoveryCodes, TypeOK, Rows
  <2> QED
    BY <1>16, <2>1, Replaced DEF TypeOK, RegenerateRecoveryCodes
<1>17. ASSUME NEW c \in Ceremonies,
              \/ PasskeySignInOptions(c) \/ PasskeyRegistrationOptions(c) \/ PasskeyStepUpOptions(c)
              \/ CeremonyExpires(c)
       PROVE  TypeOK'
  BY <1>17 DEF TypeOK, PasskeySignInOptions, PasskeyRegistrationOptions, PasskeyStepUpOptions,
       CeremonyExpires, Draw
<1>18. ASSUME NEW r \in Requests, NEW c \in Ceremonies,
              PasskeySignIn(r, c) \/ PasskeyStepUp(r, c) \/ PasskeyRegistration(r, c)
       PROVE  TypeOK'
  <2>1. PICK next \in {"find", "save"} : \E kind : ConsumeCeremony(r, c, kind, next)
    <3>1. \/ ConsumeCeremony(r, c, "authentication", "find")
          \/ ConsumeCeremony(r, c, "step_up", "find")
          \/ ConsumeCeremony(r, c, "registration", "save")
      BY <1>18 DEF PasskeySignIn, PasskeyStepUp, PasskeyRegistration
    <3> QED
      BY <3>1
  <2>2. request' \in [Requests -> States]
    BY <2>1, Written, GoesOn DEF ConsumeCeremony
  <2> QED
    BY <2>1, <2>2 DEF TypeOK, ConsumeCeremony
<1>19. ASSUME NEW r \in Requests, NEW n \in Signatures, FindCredential(r, n)
       PROVE  TypeOK'
  <2>1. request[r].ceremony \in Ceremonies /\ n \in Nat
    BY <1>19, Shapes, NumbersAssumption DEF FindCredential, Is, Ceremonial
  <2>2. request' \in [Requests -> States]
    <3>1. CASE passkey = None
      BY <1>19, <3>1, Written, GoesOn DEF FindCredential
    <3>2. CASE passkey # None
      BY <1>19, <2>1, <3>2, Written, GoesOn DEF FindCredential, TypeOK
    <3> QED
      BY <3>1, <3>2
  <2> QED
    BY <1>19, <2>2 DEF TypeOK, FindCredential
<1>20. ASSUME NEW r \in Requests, UpdateCounter(r) \/ SaveCredential(r)
       PROVE  TypeOK'
  <2>1. request' \in [Requests -> States]
    BY <1>20, Written, GoesOn DEF UpdateCounter, SaveCredential
  <2>2. passkey' \in {None} \cup Nat
    BY <1>20, Shapes DEF UpdateCounter, SaveCredential, Is, Counting, TypeOK
  <2>3. accepted' \in [Credentials -> Nat]
    BY <1>20 DEF UpdateCounter, SaveCredential, Accept, TypeOK
  <2> QED
    BY <1>20, <2>1, <2>2, <2>3 DEF TypeOK, UpdateCounter, SaveCredential
<1>21. CASE UNCHANGED vars
  BY <1>21 DEF TypeOK, vars
<1> QED
  BY <1>1, <1>2, <1>3, <1>4, <1>5, <1>6, <1>7, <1>8, <1>9, <1>10, <1>11, <1>12, <1>13, <1>14, <1>15,
     <1>16, <1>17, <1>18, <1>19, <1>20, <1>21 DEF Next

-----------------------------------------------------------------------------
(* Credentials are accepted once                                           *)

\* The steps that touch a factor or accept a credential.
LEMMA Touching ==
    ASSUME [Next]_vars
    PROVE  \/ totp' = totp /\ codes' = codes /\ ownerOf' = ownerOf /\ accepted' = accepted
           \/ \E r \in Requests :
                 \/ Verify(r) \/ RecordTotpCounter(r) \/ EnableTotp(r)
                 \/ UpdateCounter(r) \/ SaveCredential(r)
           \/ DisableTotp \/ RegenerateRecoveryCodes \/ ResetAuthentication
<1> DEFINE same == totp' = totp /\ codes' = codes /\ ownerOf' = ownerOf /\ accepted' = accepted
<1>1. ASSUME UNCHANGED vars PROVE same
  BY <1>1 DEF vars, factors
<1>2. ASSUME NEW l \in Logins, BeginLogin(l) \/ LoginExpires(l) PROVE same
  BY <1>2 DEF BeginLogin, LoginExpires, factors
<1>3. ASSUME NEW r \in Requests, NEW x \in Answers \cup {Wrong},
             BeginStepUp(r, x) \/ \E l \in Logins : BeginAttempt(r, l, x)
      PROVE  same
  BY <1>3 DEF BeginAttempt, BeginStepUp, factors
<1>4. ASSUME NEW r \in Requests,
             \/ Lost(r) \/ OpenSession(r) \/ FinishAttempt(r) \/ BeginEnrollment(r)
             \/ CreateEnrollment(r) \/ ConcludeEnrollment(r)
             \/ \E right \in BOOLEAN : ConfirmEnrollment(r, right)
      PROVE  same
  BY <1>4 DEF Lost, OpenSession, FinishAttempt, BeginEnrollment, CreateEnrollment, ConcludeEnrollment,
       ConfirmEnrollment, factors
<1>5. ASSUME EnrollmentExpires PROVE same
  BY <1>5 DEF EnrollmentExpires, factors
<1>6. ASSUME NEW c \in Ceremonies,
             \/ PasskeySignInOptions(c) \/ PasskeyRegistrationOptions(c) \/ PasskeyStepUpOptions(c)
             \/ CeremonyExpires(c)
      PROVE  same
  BY <1>6 DEF PasskeySignInOptions, PasskeyRegistrationOptions, PasskeyStepUpOptions, Draw,
       CeremonyExpires, factors
<1>7. ASSUME NEW r \in Requests, NEW c \in Ceremonies,
             PasskeySignIn(r, c) \/ PasskeyStepUp(r, c) \/ PasskeyRegistration(r, c)
      PROVE  same
  BY <1>7 DEF PasskeySignIn, PasskeyStepUp, PasskeyRegistration, ConsumeCeremony, factors
<1>8. ASSUME NEW r \in Requests, NEW n \in Signatures, FindCredential(r, n) PROVE same
  BY <1>8 DEF FindCredential, factors
<1>9. ASSUME DeletePasskey PROVE same
  BY <1>9 DEF DeletePasskey, factors
<1> HIDE DEF same
<1>10. \/ same
       \/ \E r \in Requests :
             \/ Verify(r) \/ RecordTotpCounter(r) \/ EnableTotp(r)
             \/ UpdateCounter(r) \/ SaveCredential(r)
       \/ DisableTotp \/ RegenerateRecoveryCodes \/ ResetAuthentication
  BY <1>1, <1>2, <1>3, <1>4, <1>5, <1>6, <1>7, <1>8, <1>9 DEF Next
<1> QED
  BY <1>10 DEF same

\* The passkey's steps accept the WebAuthn challenge of the request, if anything.
LEMMA Ceremonious ==
    ASSUME TypeOK, NEW r \in Requests, UpdateCounter(r) \/ SaveCredential(r)
    PROVE  /\ request[r].ceremony \in Ceremonies /\ Carries(request[r], request[r].ceremony)
           /\ request'[r] = Idle /\ \A q \in Requests \ {r} : request'[q] = request[q]
           /\ totp' = totp /\ codes' = codes /\ ownerOf' = ownerOf
           /\ \/ accepted' = accepted
              \/ accepted' = [accepted EXCEPT ![Ceremony(request[r].ceremony)] =
                                              accepted[Ceremony(request[r].ceremony)] + 1]
<1>1. request[r].ceremony \in Ceremonies /\ Carries(request[r], request[r].ceremony)
  BY Shapes DEF UpdateCounter, SaveCredential, Is, Ceremonial, Counting, Carries
<1>2. request'[r] = Idle /\ \A q \in Requests \ {r} : request'[q] = request[q]
  BY DEF UpdateCounter, SaveCredential, Goes, TypeOK
<1>3. totp' = totp /\ codes' = codes /\ ownerOf' = ownerOf
  BY DEF UpdateCounter, SaveCredential, factors
<1>4. \/ accepted' = accepted
      \/ accepted' = [accepted EXCEPT ![Ceremony(request[r].ceremony)] =
                                      accepted[Ceremony(request[r].ceremony)] + 1]
  BY DEF UpdateCounter, SaveCredential, Accept, Ceremony
<1> QED
  BY <1>1, <1>2, <1>3, <1>4

\* Enabling forgets what was accepted of the authenticator, and of nothing else.
LEMMA Enabled ==
    ASSUME TypeOK, NEW r \in Requests, EnableTotp(r)
    PROVE  /\ request[r].id \in Authenticators
           /\ \/ totp' = totp /\ codes' = codes /\ ownerOf' = ownerOf /\ accepted' = accepted
              \/ /\ totp = None /\ totp' \in Rows
                 /\ totp'.id = request[r].id /\ totp'.last = 0
                 /\ Replace(request[r].id)
                 /\ \A n \in Counters : accepted'[Totp(request[r].id, n)] = 0
                 /\ \A a \in Authenticators \ {request[r].id}, n \in Counters :
                       accepted'[Totp(a, n)] = accepted[Totp(a, n)]
                 /\ \A b \in Batches : accepted'[Code(b)] = accepted[Code(b)]
                 /\ \A c \in Ceremonies : accepted'[Ceremony(c)] = accepted[Ceremony(c)]
<1>1. request[r].id \in Authenticators
  BY Shapes DEF EnableTotp, Is, Enabling
<1>2. CASE totp # None
  BY <1>1, <1>2 DEF EnableTotp, MayEnable, factors
<1>3. CASE totp = None
  <2>1. /\ totp' = [id |-> request[r].id, last |-> 0] /\ Replace(request[r].id)
        /\ accepted' = [x \in Credentials |->
              IF \E n \in Counters : x = Totp(request[r].id, n) THEN 0 ELSE accepted[x]]
    BY <1>3 DEF EnableTotp, MayEnable
  <2>2. totp' \in Rows /\ totp'.id = request[r].id /\ totp'.last = 0
    BY <1>1, <2>1 DEF Rows
  <2>3. \A n \in Counters : accepted'[Totp(request[r].id, n)] = 0
    BY <1>1, <2>1, Different
  <2>4. \A a \in Authenticators \ {request[r].id}, n \in Counters :
            accepted'[Totp(a, n)] = accepted[Totp(a, n)]
    BY <2>1, Different
  <2>5. \A b \in Batches : accepted'[Code(b)] = accepted[Code(b)]
    BY <2>1, Different
  <2>6. \A c \in Ceremonies : accepted'[Ceremony(c)] = accepted[Ceremony(c)]
    BY <2>1, Different
  <2> QED
    BY <1>1, <1>3, <2>1, <2>2, <2>3, <2>4, <2>5, <2>6
<1> QED
  BY <1>2, <1>3

\* Every step keeps recovery codes accepted once.
LEMMA RecoveryStep ==
    ASSUME TypeOK, RecoveryOK, [Next]_vars
    PROVE  RecoveryOK'
<1>1. ASSUME \A b \in Batches :
                /\ accepted'[Code(b)] = accepted[Code(b)]
                /\ codes'[b] \in {"none", "fresh"} => codes[b] \in {"none", "fresh"}
      PROVE  RecoveryOK'
  BY <1>1 DEF RecoveryOK
<1>2. ASSUME NEW r \in Requests, Verify(r)
      PROVE  RecoveryOK'
  <2>1. CASE codes' = codes /\ accepted' = accepted
    BY <1>1, <2>1
  <2>2. ASSUME NEW b \in Batches, codes[b] = "fresh", codes' = [codes EXCEPT ![b] = "used"],
               accepted' = [accepted EXCEPT ![Code(b)] = accepted[Code(b)] + 1]
        PROVE  RecoveryOK'
    <3>1. accepted[Code(b)] = 0
      BY <2>2 DEF RecoveryOK
    <3>2. /\ accepted'[Code(b)] = 1 /\ codes'[b] = "used"
          /\ \A d \in Batches \ {b} : accepted'[Code(d)] = accepted[Code(d)] /\ codes'[d] = codes[d]
      BY <2>2, <3>1, Different DEF TypeOK
    <3> QED
      BY <3>2 DEF RecoveryOK
  <2> QED
    BY <1>2, <2>1, <2>2, Verified
<1>3. ASSUME NEW r \in Requests, RecordTotpCounter(r)
      PROVE  RecoveryOK'
  <2>1. codes' = codes
    BY <1>3 DEF RecordTotpCounter
  <2>2. \A b \in Batches : accepted'[Code(b)] = accepted[Code(b)]
    BY <1>3, Recorded, Different DEF TypeOK
  <2> QED
    BY <1>1, <2>1, <2>2
<1>4. ASSUME NEW r \in Requests, UpdateCounter(r) \/ SaveCredential(r)
      PROVE  RecoveryOK'
  <2>1. \A b \in Batches : accepted'[Code(b)] = accepted[Code(b)] /\ codes'[b] = codes[b]
    BY <1>4, Ceremonious, Different DEF TypeOK
  <2> QED
    BY <1>1, <2>1
<1>5. ASSUME NEW owner \in Nat, Replace(owner)
      PROVE  \A b \in Batches : codes'[b] \in {"none", "fresh"} => codes[b] \in {"none", "fresh"}
  BY <1>5, Replaced
<1>6. ASSUME NEW r \in Requests, EnableTotp(r)
      PROVE  RecoveryOK'
  <2>1. request[r].id \in Nat
    BY <1>6, Enabled, NumbersAssumption
  <2> QED
    BY <1>1, <1>5, <1>6, <2>1, Enabled
<1>7. ASSUME RegenerateRecoveryCodes
      PROVE  RecoveryOK'
  <2>1. totp.id \in Nat /\ Replace(totp.id) /\ accepted' = accepted
    BY <1>7, NumbersAssumption DEF RegenerateRecoveryCodes, TypeOK, Rows
  <2> QED
    BY <1>1, <1>5, <2>1
<1>8. ASSUME DisableTotp \/ ResetAuthentication
      PROVE  RecoveryOK'
  <2>1. codes' = Revoked /\ accepted' = accepted
    BY <1>8 DEF DisableTotp, ResetAuthentication, RemoveTotp
  <2> QED
    BY <1>1, <2>1 DEF Revoked
<1> QED
  BY <1>1, <1>2, <1>3, <1>4, <1>6, <1>7, <1>8, Touching

\* Every step keeps TOTP codes accepted once.
LEMMA TotpStep ==
    ASSUME TypeOK, TotpOK, [Next]_vars
    PROVE  TotpOK'
<1>1. ASSUME \A a \in Authenticators, n \in Counters : accepted'[Totp(a, n)] = accepted[Totp(a, n)],
             totp' = totp \/ totp' = None
      PROVE  TotpOK'
  BY <1>1 DEF TotpOK
<1>2. ASSUME NEW r \in Requests, Verify(r)
      PROVE  TotpOK'
  <2>1. totp' = totp
    BY <1>2 DEF Verify
  <2>2. \A a \in Authenticators, n \in Counters : accepted'[Totp(a, n)] = accepted[Totp(a, n)]
    BY <1>2, Verified, Different DEF TypeOK
  <2> QED
    BY <1>1, <2>1, <2>2
<1>3. ASSUME NEW r \in Requests, RecordTotpCounter(r)
      PROVE  TotpOK'
  <2>1. CASE totp' = totp /\ accepted' = accepted
    BY <1>1, <2>1
  <2>2. ASSUME NEW a \in Authenticators, NEW n \in Counters,
               totp # None, totp.id = a, totp.last < n,
               totp' \in Rows, totp'.id = a, totp'.last = n,
               accepted' = [accepted EXCEPT ![Totp(a, n)] = accepted[Totp(a, n)] + 1]
        PROVE  TotpOK'
    <3>1. accepted[Totp(a, n)] = 0
      BY <2>2 DEF TotpOK
    <3>2. /\ accepted'[Totp(a, n)] = 1
          /\ \A d \in Authenticators, m \in Counters :
                d # a \/ m # n => accepted'[Totp(d, m)] = accepted[Totp(d, m)]
      BY <2>2, <3>1, Different DEF TypeOK
    <3>3. totp.last \in Nat /\ Counters \subseteq Nat
      BY <2>2, NumbersAssumption DEF TypeOK, Rows
    <3> SUFFICES ASSUME NEW d \in Authenticators, NEW m \in Counters
                 PROVE  /\ accepted'[Totp(d, m)] <= 1
                        /\ totp'.id = d /\ totp'.last < m => accepted'[Totp(d, m)] = 0
      BY DEF TotpOK
    <3>4. CASE d = a /\ m = n
      BY <2>2, <3>2, <3>3, <3>4
    <3>5. CASE ~(d = a /\ m = n)
      <4>1. accepted'[Totp(d, m)] = accepted[Totp(d, m)] /\ accepted[Totp(d, m)] <= 1
        BY <3>2, <3>5 DEF TotpOK
      <4>2. totp'.id = d /\ totp'.last < m => totp.id = d /\ totp.last < m
        BY <2>2, <3>3
      <4> QED
        BY <2>2, <4>1, <4>2 DEF TotpOK
    <3> QED
      BY <3>4, <3>5
  <2> QED
    BY <1>3, <2>1, <2>2, Recorded
<1>4. ASSUME NEW r \in Requests, UpdateCounter(r) \/ SaveCredential(r)
      PROVE  TotpOK'
  <2>1. \A a \in Authenticators, n \in Counters : accepted'[Totp(a, n)] = accepted[Totp(a, n)]
    BY <1>4, Ceremonious, Different DEF TypeOK
  <2> QED
    BY <1>1, <1>4, <2>1, Ceremonious
<1>5. ASSUME NEW r \in Requests, EnableTotp(r)
      PROVE  TotpOK'
  <2>1. CASE totp' = totp /\ accepted' = accepted
    BY <1>1, <2>1
  <2>2. CASE ~(totp' = totp /\ accepted' = accepted)
    <3>1. /\ totp'.id = request[r].id
          /\ \A n \in Counters : accepted'[Totp(request[r].id, n)] = 0
          /\ \A a \in Authenticators \ {request[r].id}, n \in Counters :
                accepted'[Totp(a, n)] = accepted[Totp(a, n)]
      BY <1>5, <2>2, Enabled
    <3> QED
      BY <3>1 DEF TotpOK
  <2> QED
    BY <2>1, <2>2
<1>6. ASSUME RegenerateRecoveryCodes \/ DisableTotp \/ ResetAuthentication
      PROVE  TotpOK'
  BY <1>1, <1>6 DEF RegenerateRecoveryCodes, DisableTotp, ResetAuthentication, RemoveTotp
<1> QED
  BY <1>1, <1>2, <1>3, <1>4, <1>5, <1>6, Touching

\* A step after which nobody carries more, and Redis keeps no more challenges.
LEMMA QuietCeremony ==
    ASSUME CeremonyOK, drawn \subseteq drawn',
           \A c \in Ceremonies :
              /\ ceremony'[c] = ceremony[c] \/ ceremony'[c] = None
              /\ accepted'[Ceremony(c)] = accepted[Ceremony(c)]
              /\ \A r \in Requests : Carries(request'[r], c) => Carries(request[r], c)
    PROVE  CeremonyOK'
<1> SUFFICES ASSUME NEW c \in Ceremonies
             PROVE  /\ accepted'[Ceremony(c)] <= 1
                    /\ c \notin drawn' => ceremony'[c] = None
                    /\ c \notin drawn' \/ ceremony'[c] # None =>
                          accepted'[Ceremony(c)] = 0 /\ \A r \in Requests : ~Carries(request'[r], c)
                    /\ \A r \in Requests : Carries(request'[r], c) =>
                          /\ accepted'[Ceremony(c)] = 0
                          /\ \A q \in Requests : Carries(request'[q], c) => q = r
  BY DEF CeremonyOK, Carries
<1> QED
  BY DEF CeremonyOK

\* Every step keeps WebAuthn challenges apart and accepted once.
LEMMA CeremonyStep ==
    ASSUME TypeOK, CeremonyOK, [Next]_vars
    PROVE  CeremonyOK'
<1> USE DEF factors, web
<1>1. ASSUME drawn \subseteq drawn', ceremony' = ceremony,
             \A c \in Ceremonies :
                /\ accepted'[Ceremony(c)] = accepted[Ceremony(c)]
                /\ \A r \in Requests : Carries(request'[r], c) => Carries(request[r], c)
      PROVE  CeremonyOK'
  BY <1>1, QuietCeremony
<1>2. ASSUME NEW r \in Requests, ~\E c \in Ceremonies : Carries(request'[r], c),
             \A q \in Requests \ {r} : request'[q] = request[q]
      PROVE  \A c \in Ceremonies, q \in Requests : Carries(request'[q], c) => Carries(request[q], c)
  BY <1>2
<1>3. ASSUME NEW r \in Requests, NEW x \in States, Goes(r, x), x.at \notin {"find", "count", "save"}
      PROVE  \A c \in Ceremonies, q \in Requests : Carries(request'[q], c) => Carries(request[q], c)
  <2>1. request'[r] = x /\ \A q \in Requests \ {r} : request'[q] = request[q]
    BY <1>3, GoesOn
  <2> QED
    BY <1>2, <1>3, <2>1 DEF Carries
<1>4. ASSUME NEW l \in Logins, BeginLogin(l) \/ LoginExpires(l)
      PROVE  CeremonyOK'
  BY <1>1, <1>4 DEF BeginLogin, LoginExpires
<1>5. ASSUME NEW r \in Requests, NEW l \in Logins, NEW x \in Answers \cup {Wrong}, BeginAttempt(r, l, x)
      PROVE  CeremonyOK'
  <2>1. Goes(r, [at |-> "verify", login |-> l, answer |-> x])
    BY <1>5 DEF BeginAttempt
  <2>2. \A c \in Ceremonies, q \in Requests : Carries(request'[q], c) => Carries(request[q], c)
    BY <1>3, <2>1, Written
  <2> QED
    BY <1>1, <1>5, <2>2 DEF BeginAttempt
<1>6. ASSUME NEW r \in Requests, NEW x \in Answers, BeginStepUp(r, x)
      PROVE  CeremonyOK'
  <2>1. Goes(r, [at |-> "verify", login |-> None, answer |-> x])
    BY <1>6 DEF BeginStepUp
  <2>2. \A c \in Ceremonies, q \in Requests : Carries(request'[q], c) => Carries(request[q], c)
    BY <1>3, <2>1, Written
  <2> QED
    BY <1>1, <1>6, <2>2 DEF BeginStepUp
<1>7. ASSUME NEW r \in Requests, Goes(r, Idle)
      PROVE  \A c \in Ceremonies, q \in Requests : Carries(request'[q], c) => Carries(request[q], c)
  BY <1>3, <1>7, Written DEF Idle
<1>8. ASSUME NEW r \in Requests, Lost(r) \/ FinishAttempt(r) \/ ConcludeEnrollment(r)
      PROVE  CeremonyOK'
  <2>1. Goes(r, Idle)
    BY <1>8 DEF Lost, FinishAttempt, ConcludeEnrollment
  <2> QED
    BY <1>1, <1>7, <1>8, <2>1 DEF Lost, FinishAttempt, ConcludeEnrollment
<1>9. ASSUME NEW r \in Requests, Verify(r) \/ RecordTotpCounter(r)
      PROVE  CeremonyOK'
  <2>1. /\ request'[r] = Idle \/ request'[r].at \in {"record", "session", "finish"}
        /\ \A q \in Requests \ {r} : request'[q] = request[q]
        /\ \A c \in Ceremonies : accepted'[Ceremony(c)] = accepted[Ceremony(c)]
    BY <1>9, Verified, Recorded, Different DEF TypeOK
  <2>2. \A c \in Ceremonies, q \in Requests : Carries(request'[q], c) => Carries(request[q], c)
    BY <1>2, <2>1 DEF Carries, Idle
  <2> QED
    BY <1>1, <1>9, <2>1, <2>2 DEF Verify, RecordTotpCounter
<1>10. ASSUME NEW r \in Requests, OpenSession(r)
       PROVE  CeremonyOK'
  <2> DEFINE next == [request[r] EXCEPT !.at = "finish"]
  <2>1. next \in Finishing
    BY <1>10, Shapes, Moves DEF OpenSession, Is
  <2>2. Goes(r, next)
    BY <1>10 DEF OpenSession
  <2>3. next \in States /\ next.at = "finish"
    <3> HIDE DEF next
    <3> QED
      BY <2>1 DEF States, Finishing
  <2> HIDE DEF next
  <2>4. \A c \in Ceremonies, q \in Requests : Carries(request'[q], c) => Carries(request[q], c)
    BY <1>3, <2>2, <2>3
  <2> QED
    BY <1>1, <1>10, <2>4 DEF OpenSession
<1>11. ASSUME NEW r \in Requests, BeginEnrollment(r)
       PROVE  CeremonyOK'
  <2>1. \A c \in Ceremonies, q \in Requests : Carries(request'[q], c) => Carries(request[q], c)
    BY <1>3, <1>11, Written DEF BeginEnrollment
  <2> QED
    BY <1>1, <1>11, <2>1 DEF BeginEnrollment
<1>12. ASSUME NEW r \in Requests, CreateEnrollment(r)
       PROVE  CeremonyOK'
  <2>1. Goes(r, Idle)
    BY <1>12 DEF CreateEnrollment
  <2> QED
    BY <1>1, <1>7, <1>12, <2>1 DEF CreateEnrollment
<1>13. ASSUME NEW r \in Requests, NEW right \in BOOLEAN, ConfirmEnrollment(r, right)
       PROVE  CeremonyOK'
  <2>1. enrollment.id \in Authenticators
    BY <1>13 DEF ConfirmEnrollment, MayBegin, TypeOK, Enrollments
  <2>2. \/ Goes(r, [at |-> "enable", id |-> enrollment.id])
        \/ Goes(r, [at |-> "conclude", succeeded |-> FALSE])
    BY <1>13 DEF ConfirmEnrollment
  <2>3. \A c \in Ceremonies, q \in Requests : Carries(request'[q], c) => Carries(request[q], c)
    BY <1>3, <2>1, <2>2, Written
  <2> QED
    BY <1>1, <1>13, <2>3 DEF ConfirmEnrollment
<1>14. ASSUME NEW r \in Requests, EnableTotp(r)
       PROVE  CeremonyOK'
  <2>1. Goes(r, [at |-> "conclude", succeeded |-> MayEnable]) /\ MayEnable \in BOOLEAN
    BY <1>14 DEF EnableTotp, MayEnable
  <2>2. \A c \in Ceremonies, q \in Requests : Carries(request'[q], c) => Carries(request[q], c)
    BY <1>3, <2>1, Written
  <2>3. \A c \in Ceremonies : accepted'[Ceremony(c)] = accepted[Ceremony(c)]
    BY <1>14, Enabled
  <2> QED
    BY <1>1, <1>14, <2>2, <2>3 DEF EnableTotp
<1>15. ASSUME \/ EnrollmentExpires \/ DisableTotp \/ RegenerateRecoveryCodes \/ ResetAuthentication
              \/ DeletePasskey \/ UNCHANGED vars
       PROVE  CeremonyOK'
  BY <1>1, <1>15 DEF EnrollmentExpires, DisableTotp, RegenerateRecoveryCodes, ResetAuthentication,
       DeletePasskey, vars
<1>16. ASSUME NEW c \in Ceremonies, NEW kind, Draw(c, kind)
       PROVE  CeremonyOK'
  <2>1. /\ c \notin drawn /\ drawn' = drawn \cup {c} /\ request' = request /\ accepted' = accepted
        /\ \A d \in Ceremonies \ {c} : ceremony'[d] = ceremony[d]
    BY <1>16 DEF Draw, TypeOK
  <2> QED
    BY <2>1 DEF CeremonyOK, Carries
<1>17. ASSUME NEW c \in Ceremonies,
              \/ PasskeySignInOptions(c) \/ PasskeyRegistrationOptions(c) \/ PasskeyStepUpOptions(c)
       PROVE  CeremonyOK'
  BY <1>16, <1>17 DEF PasskeySignInOptions, PasskeyRegistrationOptions, PasskeyStepUpOptions
<1>18. ASSUME NEW c \in Ceremonies, CeremonyExpires(c)
       PROVE  CeremonyOK'
  BY <1>18, QuietCeremony DEF CeremonyExpires, TypeOK
<1>19. ASSUME NEW r \in Requests, NEW c \in Ceremonies, NEW kind, NEW next \in {"find", "save"},
              ConsumeCeremony(r, c, kind, next)
       PROVE  CeremonyOK'
  <2>1. /\ ceremony[c] # None /\ ceremony'[c] = None /\ drawn' = drawn /\ accepted' = accepted
        /\ \A d \in Ceremonies \ {c} : ceremony'[d] = ceremony[d]
    BY <1>19 DEF ConsumeCeremony, TypeOK
  <2>2. /\ request'[r] = Idle \/ request'[r] = [at |-> next, ceremony |-> c]
        /\ \A q \in Requests \ {r} : request'[q] = request[q]
    BY <1>19 DEF ConsumeCeremony, Goes, TypeOK
  <2>3. \A d \in Ceremonies : Carries(request'[r], d) => d = c
    BY <2>2 DEF Carries, Idle
  <2>4. accepted[Ceremony(c)] = 0 /\ \A q \in Requests : ~Carries(request[q], c)
    BY <2>1 DEF CeremonyOK
  <2>5. c \in drawn
    BY <2>1 DEF CeremonyOK
  <2> SUFFICES ASSUME NEW d \in Ceremonies
               PROVE  /\ accepted'[Ceremony(d)] <= 1
                      /\ d \notin drawn' => ceremony'[d] = None
                      /\ d \notin drawn' \/ ceremony'[d] # None =>
                            accepted'[Ceremony(d)] = 0 /\ \A s \in Requests : ~Carries(request'[s], d)
                      /\ \A s \in Requests : Carries(request'[s], d) =>
                            /\ accepted'[Ceremony(d)] = 0
                            /\ \A q \in Requests : Carries(request'[q], d) => q = s
    BY DEF CeremonyOK, Carries
  <2>6. CASE d = c
    <3>1. \A q \in Requests \ {r} : ~Carries(request'[q], c)
      BY <2>2, <2>4
    <3> QED
      BY <2>1, <2>4, <2>5, <2>6, <3>1
  <2>7. CASE d # c
    <3>1. \A q \in Requests : Carries(request'[q], d) => Carries(request[q], d)
      BY <2>2, <2>3, <2>7
    <3> QED
      BY <2>1, <2>7, <3>1 DEF CeremonyOK
  <2> QED
    BY <2>6, <2>7
<1>20. ASSUME NEW r \in Requests, NEW c \in Ceremonies,
              PasskeySignIn(r, c) \/ PasskeyStepUp(r, c) \/ PasskeyRegistration(r, c)
       PROVE  CeremonyOK'
  BY <1>19, <1>20 DEF PasskeySignIn, PasskeyStepUp, PasskeyRegistration
<1>21. ASSUME NEW r \in Requests, NEW n \in Signatures, FindCredential(r, n)
       PROVE  CeremonyOK'
  <2>1. request[r].at = "find" /\ \A q \in Requests \ {r} : request'[q] = request[q]
    BY <1>21 DEF FindCredential, Is, Goes, TypeOK
  <2>2. \/ request'[r] = Idle
        \/ request'[r] = [at |-> "count", ceremony |-> request[r].ceremony,
                          previous |-> passkey, reported |-> n]
    BY <1>21 DEF FindCredential, Goes, TypeOK
  <2>3. \A c \in Ceremonies : Carries(request'[r], c) => Carries(request[r], c)
    BY <2>1, <2>2 DEF Carries, Idle
  <2> QED
    BY <1>1, <1>21, <2>1, <2>3 DEF FindCredential
<1>22. ASSUME NEW r \in Requests, UpdateCounter(r) \/ SaveCredential(r)
       PROVE  CeremonyOK'
  <2>1. PICK c \in Ceremonies :
          /\ Carries(request[r], c)
          /\ accepted' = accepted
             \/ accepted' = [accepted EXCEPT ![Ceremony(c)] = accepted[Ceremony(c)] + 1]
    BY <1>22, Ceremonious
  <2>2. /\ drawn' = drawn /\ ceremony' = ceremony
        /\ request'[r] = Idle /\ \A q \in Requests \ {r} : request'[q] = request[q]
    BY <1>22, Ceremonious DEF UpdateCounter, SaveCredential
  <2>3. \A d \in Ceremonies, q \in Requests : Carries(request'[q], d) => q # r /\ Carries(request[q], d)
    BY <2>2 DEF Carries, Idle
  <2>4. CASE accepted' = accepted
    BY <1>1, <2>2, <2>3, <2>4
  <2>5. CASE accepted' = [accepted EXCEPT ![Ceremony(c)] = accepted[Ceremony(c)] + 1]
    <3>1. /\ accepted[Ceremony(c)] = 0 /\ c \in drawn /\ ceremony[c] = None
          /\ \A q \in Requests : Carries(request[q], c) => q = r
      BY <2>1 DEF CeremonyOK
    <3>2. /\ accepted'[Ceremony(c)] = 1
          /\ \A d \in Ceremonies \ {c} : accepted'[Ceremony(d)] = accepted[Ceremony(d)]
      BY <2>5, <3>1, Different DEF TypeOK
    <3>3. \A q \in Requests : ~Carries(request'[q], c)
      BY <2>3, <3>1
    <3> SUFFICES ASSUME NEW d \in Ceremonies
                 PROVE  /\ accepted'[Ceremony(d)] <= 1
                        /\ d \notin drawn' => ceremony'[d] = None
                        /\ d \notin drawn' \/ ceremony'[d] # None =>
                              accepted'[Ceremony(d)] = 0 /\ \A s \in Requests : ~Carries(request'[s], d)
                        /\ \A s \in Requests : Carries(request'[s], d) =>
                              /\ accepted'[Ceremony(d)] = 0
                              /\ \A q \in Requests : Carries(request'[q], d) => q = s
      BY DEF CeremonyOK, Carries
    <3>4. CASE d = c
      BY <2>2, <3>1, <3>2, <3>3, <3>4
    <3>5. CASE d # c
      BY <2>2, <2>3, <3>2, <3>5 DEF CeremonyOK
    <3> QED
      BY <3>4, <3>5
  <2> QED
    BY <2>1, <2>4, <2>5
<1> QED
  BY <1>4, <1>5, <1>6, <1>8, <1>9, <1>10, <1>11, <1>12, <1>13, <1>14, <1>15, <1>17, <1>18, <1>20,
     <1>21, <1>22 DEF Next

-----------------------------------------------------------------------------
(* A challenge opens one session                                           *)

\* A step after which nobody tries more and no challenge is freed.
LEMMA QuietSession ==
    ASSUME SessionOK, drawn \subseteq drawn', opened' = opened,
           \A l \in Logins :
              /\ login'[l] = login[l] \/ login'[l] = None
              /\ \A r \in Requests : Tries(request'[r], l) =>
                    /\ Tries(request[r], l)
                    /\ request'[r] = request[r] \/ request[r].at # "finish"
    PROVE  SessionOK'
<1> SUFFICES ASSUME NEW l \in Logins
             PROVE  /\ opened'[l] <= 1
                    /\ l \notin drawn' =>
                          login'[l] = None /\ opened'[l] = 0 /\ \A r \in Requests : ~Tries(request'[r], l)
                    /\ \A r \in Requests : Tries(request'[r], l) =>
                          /\ opened'[l] # 0 => request'[r].at = "finish" /\ request'[r].succeeded
                          /\ \A q \in Requests : Tries(request'[q], l) => q = r
                    /\ login'[l] # None /\ ~login'[l].busy =>
                          opened'[l] = 0 /\ \A r \in Requests : ~Tries(request'[r], l)
  BY DEF SessionOK, Tries
<1>1. \A r \in Requests : Tries(request'[r], l) /\ opened[l] # 0 => request'[r] = request[r]
  BY DEF SessionOK
<1> QED
  BY <1>1 DEF SessionOK

\* Every step keeps the attempts at a challenge apart.
LEMMA SessionStep ==
    ASSUME TypeOK, SessionOK, [Next]_vars
    PROVE  SessionOK'
<1> USE DEF factors, web
<1>1. ASSUME drawn \subseteq drawn', login' = login, opened' = opened,
             \A l \in Logins, q \in Requests : Tries(request'[q], l) =>
                /\ Tries(request[q], l)
                /\ request'[q] = request[q] \/ request[q].at # "finish"
      PROVE  SessionOK'
  BY <1>1, QuietSession
<1>2. ASSUME NEW r \in Requests, ~\E l \in Logins : Tries(request'[r], l),
             \A q \in Requests \ {r} : request'[q] = request[q]
      PROVE  \A l \in Logins, q \in Requests : Tries(request'[q], l) =>
                /\ Tries(request[q], l)
                /\ request'[q] = request[q] \/ request[q].at # "finish"
  BY <1>2
<1>3. ASSUME NEW r \in Requests, NEW x \in States, Goes(r, x), \A l \in Logins : ~Tries(x, l)
      PROVE  \A l \in Logins, q \in Requests : Tries(request'[q], l) =>
                /\ Tries(request[q], l)
                /\ request'[q] = request[q] \/ request[q].at # "finish"
  <2>1. request'[r] = x /\ \A q \in Requests \ {r} : request'[q] = request[q]
    BY <1>3, GoesOn
  <2> QED
    BY <1>2, <1>3, <2>1
<1>4. \A l \in Logins : ~Tries(Idle, l)
  BY DEF Tries, Idle
<1>5. ASSUME NEW l \in Logins, BeginLogin(l)
      PROVE  SessionOK'
  <2>1. /\ l \notin drawn /\ drawn' = drawn \cup {l} /\ opened' = opened /\ request' = request
        /\ \A k \in Logins \ {l} : login'[k] = login[k]
    BY <1>5 DEF BeginLogin, TypeOK
  <2> QED
    BY <2>1 DEF SessionOK, Tries
<1>6. ASSUME NEW l \in Logins, LoginExpires(l)
      PROVE  SessionOK'
  BY <1>6, QuietSession DEF LoginExpires, TypeOK
<1>7. ASSUME NEW r \in Requests, NEW l \in Logins, NEW x \in Answers \cup {Wrong}, BeginAttempt(r, l, x)
      PROVE  SessionOK'
  <2> DEFINE mine == [at |-> "verify", login |-> l, answer |-> x]
  <2>1. login[l] # None /\ ~login[l].busy /\ login[l] \in Records /\ ~Exhausted(login[l])
    BY <1>7 DEF BeginAttempt, MayBegin, TypeOK
  <2>2. /\ login'[l] = Begun(login[l]) /\ \A k \in Logins \ {l} : login'[k] = login[k]
        /\ drawn' = drawn /\ opened' = opened
    BY <1>7 DEF BeginAttempt, TypeOK
  <2>3. login'[l].busy
    BY <2>1, <2>2, Attempted
  <2>4. request'[r] = mine /\ \A q \in Requests \ {r} : request'[q] = request[q]
    BY <1>7, Written, GoesOn DEF BeginAttempt
  <2>5. \A k : Tries(mine, k) <=> k = l
    BY DEF Tries
  <2> HIDE DEF mine
  <2>6. opened[l] = 0 /\ l \in drawn /\ \A q \in Requests : ~Tries(request[q], l)
    BY <2>1 DEF SessionOK
  <2> SUFFICES ASSUME NEW k \in Logins
               PROVE  /\ opened'[k] <= 1
                      /\ k \notin drawn' =>
                            login'[k] = None /\ opened'[k] = 0 /\ \A q \in Requests : ~Tries(request'[q], k)
                      /\ \A q \in Requests : Tries(request'[q], k) =>
                            /\ opened'[k] # 0 => request'[q].at = "finish" /\ request'[q].succeeded
                            /\ \A s \in Requests : Tries(request'[s], k) => s = q
                      /\ login'[k] # None /\ ~login'[k].busy =>
                            opened'[k] = 0 /\ \A q \in Requests : ~Tries(request'[q], k)
    BY DEF SessionOK, Tries
  <2>7. CASE k = l
    <3>1. \A q \in Requests : Tries(request'[q], l) => q = r
      BY <2>4, <2>6
    <3> QED
      BY <2>2, <2>3, <2>6, <2>7, <3>1
  <2>8. CASE k # l
    <3>1. \A q \in Requests : Tries(request'[q], k) => q # r /\ request'[q] = request[q]
      BY <2>4, <2>5, <2>8
    <3>2. \A q \in Requests : Tries(request'[q], k) => Tries(request[q], k)
      BY <3>1
    <3> QED
      BY <2>2, <2>8, <3>1, <3>2 DEF SessionOK
  <2> QED
    BY <2>7, <2>8
<1>8. ASSUME NEW r \in Requests, NEW x \in Answers, BeginStepUp(r, x)
      PROVE  SessionOK'
  <2>1. Goes(r, [at |-> "verify", login |-> None, answer |-> x])
    BY <1>8 DEF BeginStepUp
  <2>2. \A l \in Logins : ~Tries([at |-> "verify", login |-> None, answer |-> x], l)
    BY NoneAssumption DEF Tries
  <2>3. [at |-> "verify", login |-> None, answer |-> x] \in States
    BY Written
  <2>4. \A l \in Logins, q \in Requests : Tries(request'[q], l) =>
                /\ Tries(request[q], l)
                /\ request'[q] = request[q] \/ request[q].at # "finish"
    BY <1>3, <2>1, <2>2, <2>3
  <2> QED
    BY <1>1, <1>8, <2>4 DEF BeginStepUp
<1>9. ASSUME NEW r \in Requests, Goes(r, Idle)
      PROVE  \A l \in Logins, q \in Requests : Tries(request'[q], l) =>
                /\ Tries(request[q], l)
                /\ request'[q] = request[q] \/ request[q].at # "finish"
  BY <1>3, <1>4, <1>9, Written
<1>10. ASSUME NEW r \in Requests,
              \/ Lost(r) \/ ConcludeEnrollment(r) \/ CreateEnrollment(r)
              \/ UpdateCounter(r) \/ SaveCredential(r)
       PROVE  SessionOK'
  <2>1. Goes(r, Idle) /\ drawn \subseteq drawn' /\ login' = login /\ opened' = opened
    BY <1>10 DEF Lost, ConcludeEnrollment, CreateEnrollment, UpdateCounter, SaveCredential
  <2> QED
    BY <1>1, <1>9, <2>1
<1>11. ASSUME NEW r \in Requests, Verify(r) \/ RecordTotpCounter(r)
       PROVE  SessionOK'
  <2>1. /\ \/ request'[r] = Idle
           \/ request'[r].login = request[r].login
        /\ \A q \in Requests \ {r} : request'[q] = request[q]
        /\ request[r].at \in {"verify", "record"}
    BY <1>11, Verified, Recorded DEF Verify, RecordTotpCounter, Is
  <2>2. \A l \in Logins : Tries(request'[r], l) => Tries(request[r], l)
    BY <1>4, <2>1 DEF Tries
  <2>3. drawn' = drawn /\ login' = login /\ opened' = opened
    BY <1>11 DEF Verify, RecordTotpCounter
  <2> QED
    BY <1>1, <2>1, <2>2, <2>3
<1>12. ASSUME NEW r \in Requests, OpenSession(r)
       PROVE  SessionOK'
  <2> DEFINE next == [request[r] EXCEPT !.at = "finish"]
  <2>1. request[r] \in Opening
    BY <1>12, Shapes DEF OpenSession, Is
  <2>2. PICK l \in Logins : request[r].login = l
    BY <2>1 DEF Opening
  <2>3. next \in Finishing /\ next.at = "finish" /\ next.login = l /\ next.succeeded
    BY <2>1, <2>2, Moves DEF Opening
  <2>4. Goes(r, next)
    BY <1>12 DEF OpenSession
  <2> HIDE DEF next
  <2>5. request'[r] = next /\ \A q \in Requests \ {r} : request'[q] = request[q]
    BY <2>3, <2>4, GoesOn DEF States
  <2>6. /\ login' = login /\ drawn' = drawn
        /\ \A k \in Logins \ {l} : opened'[k] = opened[k]
        /\ opened'[l] \in {opened[l], opened[l] + 1}
    BY <1>12, <2>2 DEF OpenSession, TypeOK
  <2>7. Tries(request[r], l) /\ request[r].at = "session"
    BY <2>1, <2>2 DEF Tries, Opening
  <2>8. /\ opened[l] = 0 /\ l \in drawn /\ \A q \in Requests : Tries(request[q], l) => q = r
        /\ ~(login[l] # None /\ ~login[l].busy)
    BY <2>7 DEF SessionOK
  <2>9. \A k : Tries(next, k) <=> k = l
    BY <2>3 DEF Tries
  <2> SUFFICES ASSUME NEW k \in Logins
               PROVE  /\ opened'[k] <= 1
                      /\ k \notin drawn' =>
                            login'[k] = None /\ opened'[k] = 0 /\ \A q \in Requests : ~Tries(request'[q], k)
                      /\ \A q \in Requests : Tries(request'[q], k) =>
                            /\ opened'[k] # 0 => request'[q].at = "finish" /\ request'[q].succeeded
                            /\ \A s \in Requests : Tries(request'[s], k) => s = q
                      /\ login'[k] # None /\ ~login'[k].busy =>
                            opened'[k] = 0 /\ \A q \in Requests : ~Tries(request'[q], k)
    BY DEF SessionOK, Tries
  <2>10. CASE k = l
    <3>1. \A q \in Requests : Tries(request'[q], l) => q = r
      BY <2>5, <2>8
    <3> QED
      BY <2>3, <2>5, <2>6, <2>8, <2>10, <3>1
  <2>11. CASE k # l
    <3>1. \A q \in Requests : Tries(request'[q], k) => q # r /\ request'[q] = request[q]
      BY <2>5, <2>9, <2>11
    <3>2. \A q \in Requests : Tries(request'[q], k) => Tries(request[q], k)
      BY <3>1
    <3> QED
      BY <2>6, <2>11, <3>1, <3>2 DEF SessionOK
  <2> QED
    BY <2>10, <2>11
<1>13. ASSUME NEW r \in Requests, FinishAttempt(r)
       PROVE  SessionOK'
  <2>1. request[r] \in Finishing
    BY <1>13, Shapes DEF FinishAttempt, Is
  <2>2. PICK l \in Logins : request[r].login = l
    BY <2>1 DEF Finishing
  <2>3. Tries(request[r], l)
    BY <2>1, <2>2 DEF Tries, Finishing
  <2>4. /\ opened[l] # 0 => request[r].succeeded
        /\ opened[l] <= 1 /\ l \in drawn
        /\ \A q \in Requests : Tries(request[q], l) => q = r
    BY <2>3 DEF SessionOK
  <2>5. /\ login'[l] = Finished(login[l], request[r].succeeded)
        /\ \A k \in Logins \ {l} : login'[k] = login[k]
        /\ drawn' = drawn /\ opened' = opened
    BY <1>13, <2>2 DEF FinishAttempt, TypeOK
  <2>6. request'[r] = Idle /\ \A q \in Requests \ {r} : request'[q] = request[q]
    BY <1>13, Written, GoesOn DEF FinishAttempt
  <2>7. opened[l] # 0 => login'[l] = None
    BY <2>4, <2>5 DEF Finished
  <2> SUFFICES ASSUME NEW k \in Logins
               PROVE  /\ opened'[k] <= 1
                      /\ k \notin drawn' =>
                            login'[k] = None /\ opened'[k] = 0 /\ \A q \in Requests : ~Tries(request'[q], k)
                      /\ \A q \in Requests : Tries(request'[q], k) =>
                            /\ opened'[k] # 0 => request'[q].at = "finish" /\ request'[q].succeeded
                            /\ \A s \in Requests : Tries(request'[s], k) => s = q
                      /\ login'[k] # None /\ ~login'[k].busy =>
                            opened'[k] = 0 /\ \A q \in Requests : ~Tries(request'[q], k)
    BY DEF SessionOK, Tries
  <2>8. CASE k = l
    <3>1. \A q \in Requests : ~Tries(request'[q], l)
      BY <1>4, <2>4, <2>6
    <3> QED
      BY <2>4, <2>5, <2>7, <2>8, <3>1
  <2>9. CASE k # l
    <3>1. \A q \in Requests : Tries(request'[q], k) => q # r /\ request'[q] = request[q]
      BY <1>4, <2>6
    <3>2. \A q \in Requests : Tries(request'[q], k) => Tries(request[q], k)
      BY <3>1
    <3> QED
      BY <2>5, <2>9, <3>1, <3>2 DEF SessionOK
  <2> QED
    BY <2>8, <2>9
<1>14. ASSUME NEW r \in Requests,
              \/ BeginEnrollment(r) \/ EnableTotp(r)
              \/ \E right \in BOOLEAN : ConfirmEnrollment(r, right)
              \/ \E n \in Signatures : FindCredential(r, n)
              \/ \E c \in Ceremonies : PasskeySignIn(r, c) \/ PasskeyStepUp(r, c) \/ PasskeyRegistration(r, c)
       PROVE  SessionOK'
  <2>1. PICK x : Goes(r, x) /\ x.at \in {"idle", "enroll", "enable", "conclude", "find", "save", "count"}
    <3>1. ASSUME BeginEnrollment(r) \/ EnableTotp(r)
          PROVE  \E x : Goes(r, x) /\ x.at \in {"idle", "enroll", "enable", "conclude", "find", "save", "count"}
      BY <3>1 DEF BeginEnrollment, EnableTotp
    <3>2. ASSUME NEW right \in BOOLEAN, ConfirmEnrollment(r, right)
          PROVE  \E x : Goes(r, x) /\ x.at \in {"idle", "enroll", "enable", "conclude", "find", "save", "count"}
      BY <3>2 DEF ConfirmEnrollment
    <3>3. ASSUME NEW n \in Signatures, FindCredential(r, n)
          PROVE  \E x : Goes(r, x) /\ x.at \in {"idle", "enroll", "enable", "conclude", "find", "save", "count"}
      BY <3>3 DEF FindCredential, Idle
    <3>4. ASSUME NEW c \in Ceremonies, NEW kind, NEW next \in {"find", "save"}, ConsumeCeremony(r, c, kind, next)
          PROVE  \E x : Goes(r, x) /\ x.at \in {"idle", "enroll", "enable", "conclude", "find", "save", "count"}
      BY <3>4 DEF ConsumeCeremony, Idle
    <3>5. ASSUME NEW c \in Ceremonies, PasskeySignIn(r, c) \/ PasskeyStepUp(r, c) \/ PasskeyRegistration(r, c)
          PROVE  \E x : Goes(r, x) /\ x.at \in {"idle", "enroll", "enable", "conclude", "find", "save", "count"}
      BY <3>4, <3>5 DEF PasskeySignIn, PasskeyStepUp, PasskeyRegistration
    <3> QED
      BY <1>14, <3>1, <3>2, <3>3, <3>5
  <2>2. request'[r] = x /\ \A q \in Requests \ {r} : request'[q] = request[q]
    BY <2>1 DEF Goes, TypeOK
  <2>3. \A l \in Logins : ~Tries(request'[r], l)
    BY <2>1, <2>2 DEF Tries
  <2>4. drawn' = drawn /\ login' = login /\ opened' = opened
    BY <1>14 DEF BeginEnrollment, EnableTotp, ConfirmEnrollment, FindCredential, PasskeySignIn,
         PasskeyStepUp, PasskeyRegistration, ConsumeCeremony
  <2> QED
    BY <1>1, <1>2, <2>2, <2>3, <2>4
<1>15. ASSUME \/ EnrollmentExpires \/ DisableTotp \/ RegenerateRecoveryCodes \/ ResetAuthentication
              \/ DeletePasskey \/ UNCHANGED vars
              \/ \E c \in Ceremonies :
                    \/ PasskeySignInOptions(c) \/ PasskeyRegistrationOptions(c)
                    \/ PasskeyStepUpOptions(c) \/ CeremonyExpires(c)
       PROVE  SessionOK'
  <2>1. drawn \subseteq drawn' /\ login' = login /\ opened' = opened /\ request' = request
    BY <1>15 DEF EnrollmentExpires, DisableTotp, RegenerateRecoveryCodes, ResetAuthentication,
         DeletePasskey, vars, PasskeySignInOptions, PasskeyRegistrationOptions,
         PasskeyStepUpOptions, CeremonyExpires, Draw
  <2> QED
    BY <1>1, <2>1
<1> QED
  BY <1>5, <1>6, <1>7, <1>8, <1>10, <1>11, <1>12, <1>13, <1>14, <1>15 DEF Next

-----------------------------------------------------------------------------
(* Live recovery codes                                                     *)

\* A new set is the only one that lives, and the last.
LEMMA OneSet ==
    ASSUME TypeOK, InOrder, NEW owner \in Nat, Replace(owner),
           \A b \in Batches : codes[b] = "fresh" =>
               \A later \in Batches : later > b => codes[later] = "none"
    PROVE  /\ InOrder'
           /\ \A b \in Batches : codes'[b] = "fresh" =>
                 /\ ownerOf'[b] = owner
                 /\ \A later \in Batches : later > b => codes'[later] = "none"
<1>1. PICK b \in Batches :
        /\ codes[b] = "none" /\ \A e \in Batches : e < b => codes[e] # "none"
        /\ codes'[b] = "fresh" /\ ownerOf'[b] = owner
        /\ \A d \in Batches \ {b} : codes'[d] = IF codes[d] = "fresh" THEN "revoked" ELSE codes[d]
  BY Replaced
<1>2. \A e \in Batches : e > b => e # b /\ codes[e] = "none"
  BY <1>1, NumbersAssumption DEF InOrder
<1>3. InOrder'
  <2> SUFFICES ASSUME NEW d \in Batches, NEW e \in Batches, d < e, codes'[d] = "none"
               PROVE  codes'[e] = "none"
    BY DEF InOrder
  <2>1. d # b /\ codes[d] = "none"
    BY <1>1
  <2>2. codes[e] = "none"
    BY <2>1 DEF InOrder
  <2>3. e # b
    BY <1>1, <2>1
  <2> QED
    BY <1>1, <2>2, <2>3
<1>4. \A d \in Batches : codes'[d] = "fresh" => d = b
  BY <1>1
<1>5. \A later \in Batches : later > b => codes'[later] = "none"
  BY <1>1, <1>2
<1> QED
  BY <1>1, <1>3, <1>4, <1>5

\* Every step keeps the live codes those of the enabled authenticator.
LEMMA CodesStep ==
    ASSUME TypeOK, CodesInv, [Next]_vars
    PROVE  CodesInv'
<1>1. CASE totp' = totp /\ codes' = codes /\ ownerOf' = ownerOf
  BY <1>1 DEF CodesInv, InOrder, CodesFollowAuthenticator
<1>2. ASSUME NEW r \in Requests, Verify(r)
      PROVE  CodesInv'
  <2>1. /\ totp' = totp /\ ownerOf' = ownerOf
        /\ \A b \in Batches : /\ codes'[b] = "none" <=> codes[b] = "none"
                              /\ codes'[b] = "fresh" => codes[b] = "fresh"
    BY <1>2, Verified DEF Verify, TypeOK
  <2> QED
    BY <2>1 DEF CodesInv, InOrder, CodesFollowAuthenticator
<1>3. ASSUME NEW r \in Requests, RecordTotpCounter(r)
      PROVE  CodesInv'
  <2>1. codes' = codes /\ ownerOf' = ownerOf
    BY <1>3 DEF RecordTotpCounter
  <2>2. totp' = totp \/ (totp' # None /\ totp'.id = totp.id)
    BY <1>3, Recorded, NoneAssumption DEF Rows
  <2> QED
    BY <2>1, <2>2 DEF CodesInv, InOrder, CodesFollowAuthenticator
<1>4. ASSUME NEW r \in Requests, EnableTotp(r)
      PROVE  CodesInv'
  <2>1. CASE totp' = totp /\ codes' = codes /\ ownerOf' = ownerOf
    BY <1>1, <2>1
  <2>2. CASE ~(totp' = totp /\ codes' = codes /\ ownerOf' = ownerOf)
    <3>1. /\ request[r].id \in Nat /\ Replace(request[r].id)
          /\ totp' # None /\ totp'.id = request[r].id
      BY <1>4, <2>2, Enabled, NoneAssumption, NumbersAssumption DEF Rows
    <3> QED
      BY <3>1, OneSet DEF CodesInv, CodesFollowAuthenticator
  <2> QED
    BY <2>1, <2>2
<1>5. ASSUME RegenerateRecoveryCodes
      PROVE  CodesInv'
  <2>1. totp # None /\ totp' = totp /\ totp.id \in Nat /\ Replace(totp.id)
    BY <1>5, NumbersAssumption DEF RegenerateRecoveryCodes, TypeOK, Rows
  <2> QED
    BY <2>1, OneSet DEF CodesInv, CodesFollowAuthenticator
<1>6. ASSUME DisableTotp \/ ResetAuthentication
      PROVE  CodesInv'
  <2>1. \A b \in Batches : /\ codes'[b] = "none" <=> codes[b] = "none"
                           /\ codes'[b] # "fresh"
    BY <1>6 DEF DisableTotp, ResetAuthentication, RemoveTotp, Revoked
  <2> QED
    BY <2>1 DEF CodesInv, InOrder, CodesFollowAuthenticator
<1>7. ASSUME NEW r \in Requests, UpdateCounter(r) \/ SaveCredential(r)
      PROVE  CodesInv'
  BY <1>1, <1>7, Ceremonious
<1> QED
  BY <1>1, <1>2, <1>3, <1>4, <1>5, <1>6, <1>7, Touching

-----------------------------------------------------------------------------
(* Theorems                                                                *)

\* Every variable keeps its type, for every set of requests, challenges,
\* authenticators, codes and time steps.
THEOREM TypeCorrect == Spec => []TypeOK
<1>1. Init => TypeOK
  BY Written DEF Init, TypeOK
<1> QED
  BY <1>1, TypeStep, PTL DEF Spec

\* A recovery code, a TOTP code and a WebAuthn challenge are accepted once, over
\* any number of requests that check and record it in separate statements.
THEOREM CredentialsOnce == Spec => []AcceptedOnce
<1>1. Init => RecoveryOK /\ TotpOK /\ CeremonyOK
  <2> SUFFICES ASSUME Init
               PROVE  RecoveryOK /\ TotpOK /\ CeremonyOK
    OBVIOUS
  <2>1. RecoveryOK
    BY Different DEF Init, RecoveryOK
  <2>2. TotpOK
    BY Different DEF Init, TotpOK
  <2>3. CeremonyOK
    BY Different DEF Init, CeremonyOK, Carries, Idle
  <2> QED
    BY <2>1, <2>2, <2>3
<1>2. TypeOK /\ RecoveryOK /\ TotpOK /\ CeremonyOK /\ [Next]_vars =>
          RecoveryOK' /\ TotpOK' /\ CeremonyOK'
  BY RecoveryStep, TotpStep, CeremonyStep
<1>3. RecoveryOK /\ TotpOK /\ CeremonyOK => AcceptedOnce
  <2> SUFFICES ASSUME RecoveryOK, TotpOK, CeremonyOK, NEW x \in Credentials
               PROVE  accepted[x] <= 1
    BY DEF AcceptedOnce
  <2>1. \/ \E b \in Batches : x = Code(b)
        \/ \E a \in Authenticators, n \in Counters : x = Totp(a, n)
        \/ \E c \in Ceremonies : x = Ceremony(c)
    BY DEF Credentials, Answers, Ceremony
  <2> QED
    BY <2>1 DEF RecoveryOK, TotpOK, CeremonyOK
<1> QED
  BY <1>1, <1>2, <1>3, TypeCorrect, PTL DEF Spec

\* A sign-in challenge opens one session, whatever attempts meet at it, expire
\* or stop before their end is recorded.
THEOREM OneSession == Spec => []OneSessionPerChallenge
<1>1. Init => SessionOK
  BY DEF Init, SessionOK, Tries, Idle
<1>2. TypeOK /\ SessionOK /\ [Next]_vars => SessionOK'
  BY SessionStep
<1>3. SessionOK => OneSessionPerChallenge
  BY DEF SessionOK, OneSessionPerChallenge
<1> QED
  BY <1>1, <1>2, <1>3, TypeCorrect, PTL DEF Spec

\* The recovery codes that can still be used are the last set of the enabled
\* authenticator, over replacement, removal and reset.
THEOREM LiveCodes == Spec => []CodesFollowAuthenticator
<1>1. Init => CodesInv
  BY DEF Init, CodesInv, InOrder, CodesFollowAuthenticator
<1>2. TypeOK /\ CodesInv /\ [Next]_vars => CodesInv'
  BY CodesStep
<1>3. CodesInv => CodesFollowAuthenticator
  BY DEF CodesInv
<1> QED
  BY <1>1, <1>2, <1>3, TypeCorrect, PTL DEF Spec

-----------------------------------------------------------------------------
(* Browser sessions                                                        *)

\* The places of a request.
SignedInStates == [at : {"in"}, token : Tokens, user : Users]
Writing == [at : {"write"}, token : Tokens, session : Session, since : Nat,
            next : {Idle} \cup SignedInStates]
SessionStates ==
    {Idle} \cup SignedInStates \cup Writing
    \cup [at : {"revoke"}, token : Tokens, user : Users] \cup [at : {"list"}, since : Nat]

\* The shape of what Redis holds.
StoreTypeOK ==
    /\ now \in Nat
    /\ sessions \in [Tokens -> Session \cup {NoSession}]
    /\ keyExpiry \in [Tokens -> Nat]
    /\ userSet \in [Users -> [Tokens -> Nat]]
    /\ setExpiry \in [Users -> Nat]
    /\ activeSet \in [Tokens -> Nat]

\* A write goes back to a time that has passed, before its session expires.
InTime(x) ==
    /\ x.at \in {"write", "list"} => x.since <= now
    /\ x.at = "write" => x.since < x.session.expires

RequestsOK ==
    /\ request \in [Requests -> SessionStates]
    /\ \A r \in Requests : InTime(request[r])

\* The key, the two sets and the expiry of the session agree; a set outlives
\* its members.
KeysOK ==
    /\ \A t \in Tokens : Present(t) => sessions[t].expires <= keyExpiry[t]
    /\ \A t \in Tokens : Accepted(t) => userSet[sessions[t].user][t] = sessions[t].expires
    /\ \A t \in Tokens : Accepted(t) => activeSet[t] = sessions[t].expires
    /\ \A t \in Tokens : activeSet[t] > now => Present(t) /\ sessions[t].expires = activeSet[t]
    /\ \A u \in Users : \A t \in Tokens : userSet[u][t] <= setExpiry[u]

\* The limit is kept.
CountOK ==
    /\ IsFiniteSet(Members(activeSet))
    /\ Cardinality(Members(activeSet)) <= Capacity

StoreInv == StoreTypeOK /\ KeysOK /\ CountOK
SessionsInv == StoreInv /\ RequestsOK

\* A set with fewer members is within the limit too.
LEMMA FewerMembers ==
    ASSUME CountOK, NEW set, Members(set) \subseteq Members(activeSet)
    PROVE  IsFiniteSet(Members(set)) /\ Cardinality(Members(set)) <= Capacity
<1>1. /\ IsFiniteSet(Members(set)) /\ Cardinality(Members(set)) <= Cardinality(Members(activeSet))
  BY FS_Subset DEF CountOK
<1>2. Cardinality(Members(set)) \in Nat /\ Cardinality(Members(activeSet)) \in Nat
  BY <1>1, FS_CardinalityType DEF CountOK
<1>. QED  BY <1>1, <1>2, CapacityAssumption DEF CountOK

\* A sweep up to a time that has passed forgets no accepted session.
LEMMA SweepActive ==
    ASSUME StoreInv, NEW since \in Nat, since <= now,
           activeSet' = Sweep(activeSet, since),
           UNCHANGED <<now, sessions, keyExpiry, userSet, setExpiry>>
    PROVE  StoreInv'
<1>. USE DEF StoreInv
<1>1. StoreTypeOK'
  BY DEF StoreTypeOK, Sweep
<1>2. KeysOK'
  BY DEF StoreTypeOK, KeysOK, Sweep, Present, Accepted, Session
<1>3. Members(activeSet') \subseteq Members(activeSet)
  BY DEF Members, Sweep, StoreTypeOK
<1>. QED  BY <1>1, <1>2, <1>3, FewerMembers DEF CountOK

\* The list of a user's sessions sweeps the user's set.
LEMMA SweepUser ==
    ASSUME StoreInv, NEW u \in Users,
           userSet' = [userSet EXCEPT ![u] = Sweep(@, now)],
           UNCHANGED <<now, sessions, keyExpiry, setExpiry, activeSet>>
    PROVE  StoreInv'
<1>. USE DEF StoreInv
<1>1. StoreTypeOK'
  BY DEF StoreTypeOK, Sweep
<1>2. \A v \in Users : \A t \in Tokens :
         \/ userSet'[v][t] = userSet[v][t]
         \/ userSet[v][t] <= now /\ userSet'[v][t] = 0
  BY DEF StoreTypeOK, Sweep
<1>3. \A t \in Tokens : /\ Present(t)' <=> Present(t)
                        /\ Accepted(t)' <=> Accepted(t)
  BY DEF Present, Accepted
<1>4. ASSUME NEW t \in Tokens, Accepted(t)'
      PROVE  userSet'[sessions'[t].user][t] = sessions'[t].expires
  <2>1. PICK v : v = sessions[t].user
    OBVIOUS
  <2>2. v \in Users /\ sessions[t].expires \in Nat /\ now < sessions[t].expires
    BY <1>3, <1>4, <2>1 DEF Accepted, Present, StoreTypeOK, Session
  <2>3. userSet[v][t] = sessions[t].expires
    BY <1>3, <1>4, <2>1 DEF KeysOK
  <2>4. userSet'[v][t] = userSet[v][t]
    BY <1>2, <2>2, <2>3 DEF StoreTypeOK
  <2>. QED  BY <2>1, <2>3, <2>4
<1>5. \A v \in Users : \A t \in Tokens : userSet'[v][t] <= setExpiry'[v]
  BY <1>2 DEF KeysOK, StoreTypeOK
<1>6. KeysOK'
  BY <1>3, <1>4, <1>5 DEF KeysOK
<1>7. CountOK'
  BY DEF CountOK, Members
<1>. QED  BY <1>1, <1>6, <1>7

\* Sessions end, and entries whose session is gone are forgotten.
LEMMA Removes ==
    ASSUME StoreInv, NEW u \in Users, NEW ended, NEW forgotten, Remove(u, ended, forgotten),
           \A t \in forgotten : ~Present(t),
           now' = now
    PROVE  StoreInv'
<1>. USE DEF StoreInv
<1>1. StoreTypeOK'
  BY DEF StoreTypeOK, Remove
<1>2. /\ \A t \in Tokens : Present(t)' => /\ t \notin ended /\ t \notin forgotten /\ Present(t)
                                          /\ sessions'[t] = sessions[t] /\ keyExpiry'[t] = keyExpiry[t]
      /\ \A t \in Tokens : t \in ended \cup forgotten => activeSet'[t] = 0
      /\ \A t \in Tokens : t \notin ended \cup forgotten =>
            activeSet'[t] = activeSet[t] /\ sessions'[t] = sessions[t]
      /\ \A v \in Users : \A t \in Tokens :
            \/ userSet'[v][t] = userSet[v][t]
            \/ userSet'[v][t] = 0 /\ t \in ended \cup forgotten
      /\ setExpiry' = setExpiry
  BY DEF Remove, StoreTypeOK, Present
<1>3. KeysOK'
  BY <1>1, <1>2 DEF StoreTypeOK, KeysOK, Present, Accepted, Session
<1>4. Members(activeSet') \subseteq Members(activeSet)
  BY <1>2 DEF Members
<1>. QED  BY <1>1, <1>3, <1>4, FewerMembers DEF CountOK

\* A session is written: late or not, the key outlives it.
LEMMA Saves ==
    ASSUME StoreInv, NEW t \in Tokens, NEW s \in Session, NEW since \in Nat,
           since <= now, since < s.expires, Save(t, s, since), now' = now
    PROVE  StoreInv'
<1>. USE DEF StoreInv
<1>. DEFINE counted == Sweep(activeSet, since)
            u == s.user
<1>0. now \in Nat /\ s.expires \in Nat /\ u \in Users /\ s # NoSession
  <2>1. now \in Nat /\ s.expires \in Nat /\ u \in Users
    BY DEF StoreTypeOK, Session
  <2>2. s # NoSession
    BY NoSessionAssumption
  <2>. QED  BY <2>1, <2>2
<1>1. /\ ~Full(counted, t)
      /\ sessions' = [sessions EXCEPT ![t] = s]
      /\ keyExpiry' = [keyExpiry EXCEPT ![t] = now + (s.expires - since)]
      /\ userSet' = [userSet EXCEPT ![u][t] = s.expires]
      /\ ExpireWithLatest(u)
      /\ activeSet' = [counted EXCEPT ![t] = s.expires]
  BY DEF Save
<1>2. counted \in [Tokens -> Nat] /\ \A x \in Tokens : counted[x] = IF activeSet[x] <= since THEN 0 ELSE activeSet[x]
  BY DEF Sweep, StoreTypeOK
<1>3. PICK last \in Tokens : /\ \A other \in Tokens : userSet'[u][other] <= userSet'[u][last]
                             /\ setExpiry' = [setExpiry EXCEPT ![u] = userSet'[u][last]]
  BY <1>1 DEF ExpireWithLatest, Members
<1>. HIDE DEF counted, u
<1>4. now + (s.expires - since) \in Nat /\ s.expires <= now + (s.expires - since)
  BY <1>0
<1>5. /\ userSet' \in [Users -> [Tokens -> Nat]]
      /\ userSet'[u][t] = s.expires
      /\ \A v \in Users : \A x \in Tokens : (v # u \/ x # t) => userSet'[v][x] = userSet[v][x]
  BY <1>0, <1>1 DEF StoreTypeOK
<1>6. StoreTypeOK'
  BY <1>0, <1>1, <1>2, <1>3, <1>4, <1>5 DEF StoreTypeOK
<1>7. /\ \A v \in Users : v # u => setExpiry'[v] = setExpiry[v]
      /\ setExpiry'[u] = userSet'[u][last]
  BY <1>0, <1>3 DEF StoreTypeOK
<1>8. \A v \in Users : \A x \in Tokens : userSet'[v][x] <= setExpiry'[v]
  BY <1>3, <1>5, <1>7 DEF KeysOK
<1>9. /\ sessions'[t] = s /\ keyExpiry'[t] = now + (s.expires - since) /\ activeSet'[t] = s.expires
      /\ \A x \in Tokens \ {t} : /\ sessions'[x] = sessions[x] /\ keyExpiry'[x] = keyExpiry[x]
                                 /\ activeSet'[x] = counted[x]
  BY <1>1, <1>2 DEF StoreTypeOK
<1>10. ASSUME NEW x \in Tokens
       PROVE  /\ Present(x)' => sessions'[x].expires <= keyExpiry'[x]
              /\ Accepted(x)' => userSet'[sessions'[x].user][x] = sessions'[x].expires
              /\ Accepted(x)' => activeSet'[x] = sessions'[x].expires
              /\ activeSet'[x] > now => Present(x)' /\ sessions'[x].expires = activeSet'[x]
  <2>1. CASE x = t
    BY <1>0, <1>4, <1>5, <1>9, <2>1 DEF Present, u
  <2>2. CASE x # t
    <3>1. /\ sessions'[x] = sessions[x] /\ keyExpiry'[x] = keyExpiry[x] /\ activeSet'[x] = counted[x]
          /\ \A v \in Users : userSet'[v][x] = userSet[v][x]
      BY <1>5, <1>9, <2>2
    <3>2. Present(x)' <=> Present(x)
      BY <3>1 DEF Present
    <3>3. Accepted(x)' <=> Accepted(x)
      BY <3>1, <3>2 DEF Accepted
    <3>4. Accepted(x) => sessions[x].user \in Users /\ sessions[x].expires \in Nat
      BY DEF Accepted, Present, StoreTypeOK, Session
    <3>. QED  BY <1>0, <1>2, <3>1, <3>2, <3>3, <3>4 DEF KeysOK, Accepted, StoreTypeOK
  <2>. QED  BY <2>1, <2>2
<1>11. KeysOK'
  BY <1>8, <1>10 DEF KeysOK
<1>12. CountOK'
  <2>1. Members(counted) \subseteq Members(activeSet)
    BY <1>2 DEF Members
  <2>2. IsFiniteSet(Members(counted)) /\ Cardinality(Members(counted)) <= Capacity
    BY <2>1, FewerMembers
  <2>3. Members(activeSet') \subseteq Members(counted) \cup {t}
    BY <1>1, <1>2 DEF Members
  <2>4. CASE counted[t] # 0
    <3>1. Members(activeSet') \subseteq Members(counted)
      BY <2>3, <2>4 DEF Members
    <3>2. IsFiniteSet(Members(activeSet')) /\ Cardinality(Members(activeSet')) <= Cardinality(Members(counted))
      BY <2>2, <3>1, FS_Subset
    <3>3. Cardinality(Members(activeSet')) \in Nat /\ Cardinality(Members(counted)) \in Nat
      BY <2>2, <3>2, FS_CardinalityType
    <3>. QED  BY <2>2, <3>2, <3>3, CapacityAssumption DEF CountOK
  <2>5. CASE counted[t] = 0
    <3>1. t \notin Members(counted) /\ ~(Cardinality(Members(counted)) >= Capacity)
      BY <1>1, <2>5 DEF Members, Full
    <3>2. /\ IsFiniteSet(Members(counted) \cup {t})
          /\ Cardinality(Members(counted) \cup {t}) = Cardinality(Members(counted)) + 1
      BY <2>2, <3>1, FS_AddElement
    <3>3. /\ IsFiniteSet(Members(activeSet'))
          /\ Cardinality(Members(activeSet')) <= Cardinality(Members(counted) \cup {t})
      BY <2>3, <3>2, FS_Subset
    <3>4. Cardinality(Members(activeSet')) \in Nat /\ Cardinality(Members(counted)) \in Nat
      BY <2>2, <3>3, FS_CardinalityType
    <3>. QED  BY <3>1, <3>2, <3>3, <3>4, CapacityAssumption DEF CountOK
  <2>. QED  BY <2>4, <2>5
<1>. QED  BY <1>6, <1>11, <1>12

\* A full set refuses the session, and is swept.
LEMMA Refuses ==
    ASSUME StoreInv, NEW t \in Tokens, NEW since \in Nat, since <= now, Refuse(t, since), now' = now
    PROVE  StoreInv'
BY SweepActive DEF Refuse

\* Keys and sets are dropped when their time has come, which is after the
\* expiry of what they hold.
LEMMA Ticks == StoreInv /\ Tick => StoreInv'
<1>. SUFFICES ASSUME StoreInv, Tick PROVE StoreInv'
  OBVIOUS
<1>. USE DEF StoreInv
<1>1. now \in Nat /\ now' = now + 1 /\ activeSet' = activeSet
  BY DEF Tick, StoreTypeOK
<1>2. StoreTypeOK'
  BY <1>1 DEF Tick, StoreTypeOK
<1>3. /\ \A t \in Tokens : sessions'[t] = IF keyExpiry[t] <= now' THEN NoSession ELSE sessions[t]
      /\ \A t \in Tokens : keyExpiry'[t] = IF keyExpiry[t] <= now' THEN 0 ELSE keyExpiry[t]
      /\ \A u \in Users : \A t \in Tokens :
            userSet'[u][t] = IF setExpiry[u] <= now' THEN 0 ELSE userSet[u][t]
      /\ \A u \in Users : setExpiry'[u] = IF setExpiry[u] <= now' THEN 0 ELSE setExpiry[u]
  BY DEF Tick, StoreTypeOK
<1>4. ASSUME NEW t \in Tokens
      PROVE  /\ Present(t)' => sessions'[t].expires <= keyExpiry'[t]
             /\ Accepted(t)' => userSet'[sessions'[t].user][t] = sessions'[t].expires
             /\ Accepted(t)' => activeSet'[t] = sessions'[t].expires
             /\ activeSet'[t] > now' => Present(t)' /\ sessions'[t].expires = activeSet'[t]
  <2>1. Present(t)' => Present(t) /\ sessions'[t] = sessions[t] /\ keyExpiry'[t] = keyExpiry[t]
    BY <1>3 DEF Present
  <2>2. Present(t) => sessions[t].user \in Users /\ sessions[t].expires \in Nat
    BY DEF Present, StoreTypeOK, Session
  <2>3. Accepted(t)' => /\ Accepted(t) /\ now' < sessions[t].expires
                        /\ userSet[sessions[t].user][t] = sessions[t].expires
                        /\ activeSet[t] = sessions[t].expires
    BY <1>1, <2>1, <2>2 DEF Accepted, KeysOK
  <2>4. Accepted(t)' => userSet'[sessions'[t].user][t] = sessions'[t].expires
    <3>. SUFFICES ASSUME Accepted(t)' PROVE userSet'[sessions'[t].user][t] = sessions'[t].expires
      OBVIOUS
    <3>. DEFINE u == sessions[t].user
    <3>1. PICK v : v = u
      OBVIOUS
    <3>2. sessions'[t] = sessions[t] /\ v \in Users /\ userSet[v][t] = sessions[t].expires
          /\ now' < sessions[t].expires /\ sessions[t].expires \in Nat
      BY <2>1, <2>2, <2>3, <3>1 DEF Accepted
    <3>3. ~(setExpiry[v] <= now')
      BY <1>1, <3>2 DEF KeysOK, StoreTypeOK
    <3>. QED  BY <1>3, <3>1, <3>2, <3>3
  <2>5. activeSet'[t] > now' => Present(t)' /\ sessions'[t].expires = activeSet'[t]
    <3>. SUFFICES ASSUME activeSet'[t] > now'
                  PROVE  Present(t)' /\ sessions'[t].expires = activeSet'[t]
      OBVIOUS
    <3>1. Present(t) /\ sessions[t].expires = activeSet[t] /\ sessions[t].expires <= keyExpiry[t]
      BY <1>1 DEF KeysOK, StoreTypeOK
    <3>2. ~(keyExpiry[t] <= now')
      BY <1>1, <3>1 DEF StoreTypeOK
    <3>. QED  BY <1>1, <1>3, <3>1, <3>2 DEF Present
  <2>. QED  BY <1>1, <2>1, <2>3, <2>4, <2>5 DEF KeysOK
<1>5. ASSUME NEW u \in Users, NEW t \in Tokens
      PROVE  userSet'[u][t] <= setExpiry'[u]
  <2>1. userSet[u][t] <= setExpiry[u]
    BY DEF KeysOK
  <2>. QED  BY <1>3, <2>1
<1>6. KeysOK'
  BY <1>4, <1>5 DEF KeysOK
<1>7. CountOK'
  BY <1>1 DEF CountOK
<1>. QED  BY <1>2, <1>6, <1>7

\* A step that leaves Redis and the clock alone leaves the store as it was.
LEMMA Rests == StoreInv /\ UNCHANGED <<now, redis>> => StoreInv'
<1>. SUFFICES ASSUME StoreInv, UNCHANGED <<now, redis>> PROVE StoreInv'
  OBVIOUS
<1>1. StoreTypeOK'
  BY DEF StoreInv, StoreTypeOK, redis
<1>2. KeysOK'
  BY DEF StoreInv, KeysOK, Present, Accepted, redis
<1>3. CountOK'
  BY DEF StoreInv, CountOK, Members, redis
<1>. QED  BY <1>1, <1>2, <1>3 DEF StoreInv

\* Every way to end sessions keeps the store in order.
LEMMA Revocations ==
    ASSUME StoreInv, now' = now, NEW u \in Users, NEW t \in Tokens
    PROVE  /\ Revoke(t, u) => StoreInv'
           /\ RevokeAll(u) => StoreInv'
           /\ RevokeOthers(u, t) => StoreInv'
           /\ RevokeByAuthenticator(u) => StoreInv'
           /\ RevokeById(u, t) => StoreInv'
<1>1. \A x \in Stale(u) : ~Present(x)
  BY DEF Stale
<1>2. Revoke(t, u) => StoreInv'
  BY Removes DEF Revoke
<1>3. RevokeAll(u) => StoreInv'
  BY Removes DEF RevokeAll
<1>4. RevokeOthers(u, t) => StoreInv'
  BY <1>1, Removes DEF RevokeOthers
<1>5. RevokeByAuthenticator(u) => StoreInv'
  BY <1>1, Removes DEF RevokeByAuthenticator
<1>6. ASSUME RevokeById(u, t) PROVE StoreInv'
  <2>1. PICK passed \in SUBSET Stale(u) : Remove(u, {t} \cap (Listed(u) \ Stale(u)), passed)
    BY <1>6 DEF RevokeById
  <2>2. \A x \in passed : ~Present(x)
    BY <1>1, <2>1
  <2>. QED  BY <2>1, <2>2, Removes
<1>. QED  BY <1>2, <1>3, <1>4, <1>5, <1>6

\* What a request holds, by the place it stands at.
LEMMA SessionShapes ==
    ASSUME NEW x \in SessionStates
    PROVE  /\ x.at = "in" => x.token \in Tokens /\ x.user \in Users
           /\ x.at = "write" => /\ x.token \in Tokens /\ x.session \in Session /\ x.since \in Nat
                                /\ x.next \in {Idle} \cup SignedInStates
           /\ x.at = "revoke" => x.token \in Tokens /\ x.user \in Users
           /\ x.at = "list" => x.since \in Nat
BY DEF SessionStates, SignedInStates, Writing, Idle

\* The states a request goes to when it writes nothing.
LEMMA SessionAnswers ==
    /\ Idle \in SessionStates /\ InTime(Idle)
    /\ \A t \in Tokens, u \in Users :
          /\ SignedIn(t, u) \in SignedInStates /\ SignedIn(t, u) \in SessionStates
          /\ InTime(SignedIn(t, u))
          /\ Revoking(t, u) \in SessionStates /\ InTime(Revoking(t, u))
    /\ \A x \in SignedInStates : x \in SessionStates /\ InTime(x)
    /\ now \in Nat => [at |-> "list", since |-> now] \in SessionStates
                      /\ InTime([at |-> "list", since |-> now])
BY DEF SessionStates, SignedInStates, SignedIn, Revoking, Idle, InTime

\* A write that is about to run now.
LEMMA SessionWrites ==
    ASSUME now \in Nat, NEW t \in Tokens, NEW s \in Session, now < s.expires,
           NEW next \in {Idle} \cup SignedInStates
    PROVE  Write(t, s, next) \in SessionStates /\ InTime(Write(t, s, next))
BY DEF Write, SessionStates, Writing, InTime, Session

\* A request goes on to a state of its kind.
LEMMA SessionMoves ==
    ASSUME RequestsOK, NEW r \in Requests, NEW state \in SessionStates, InTime(state),
           Goes(r, state), now' = now
    PROVE  RequestsOK'
<1>1. request' = [request EXCEPT ![r] = state] /\ request \in [Requests -> SessionStates]
  BY DEF Goes, RequestsOK
<1>2. request' \in [Requests -> SessionStates]
  BY <1>1
<1>3. ASSUME NEW q \in Requests PROVE InTime(request[q])'
  <2>1. request'[q] = IF q = r THEN state ELSE request[q]
    BY <1>1
  <2>2. InTime(request[q])
    BY DEF RequestsOK
  <2>. QED  BY <2>1, <2>2 DEF InTime
<1>. QED  BY <1>2, <1>3 DEF RequestsOK

\* A session that was created at this moment is good for a time.
LEMMA Creates ==
    ASSUME now \in Nat, RequestsOK, NEW r \in Requests, NEW u \in Users, NEW strength \in Strengths,
           Create(r, u, strength), now' = now
    PROVE  RequestsOK'
<1>. DEFINE s == [user |-> u, strength |-> strength, strong |-> strength # "password_recovery",
                  seen |-> now, expires |-> now + Ttl]
<1>1. PICK t \in Tokens : Goes(r, Write(t, s, Idle))
  BY DEF Create
<1>2. s \in Session /\ now < s.expires
  BY TtlAssumption DEF Session
<1>3. PICK v : v = Write(t, s, Idle)
  OBVIOUS
<1>. HIDE DEF s
<1>4. v \in SessionStates /\ InTime(v)
  BY <1>2, <1>3, SessionWrites
<1>. QED  BY <1>1, <1>3, <1>4, SessionMoves

\* One step of a request, of an administrator or of the clock.
LEMMA SessionsStep == SessionsInv /\ [SessionsNext]_sessionsVars => SessionsInv'
<1>. SUFFICES ASSUME SessionsInv, [SessionsNext]_sessionsVars PROVE SessionsInv'
  OBVIOUS
<1>. USE DEF SessionsInv
<1>0. /\ now \in Nat
      /\ \A t \in Tokens : Present(t) => sessions[t] \in Session
      /\ \A r \in Requests : request[r] \in SessionStates /\ InTime(request[r])
  BY DEF StoreInv, StoreTypeOK, Present, RequestsOK
<1>1. ASSUME NEW r \in Requests, NEW u \in Users, NEW strength \in Strengths, SignIn(r, u, strength)
      PROVE  SessionsInv'
  <2>1. UNCHANGED <<now, redis>> /\ Create(r, u, strength)
    BY <1>1 DEF SignIn
  <2>. QED  BY <1>0, <2>1, Rests, Creates
<1>2. ASSUME NEW r \in Requests, NEW t \in Tokens, Authenticate(r, t) PROVE SessionsInv'
  <2>1. PICK s : s = sessions[t]
    OBVIOUS
  <2>2. PICK v : v = IF now >= s.expires THEN Revoking(t, s.user)
                     ELSE IF now - s.seen >= ActivityInterval
                     THEN Write(t, [s EXCEPT !.seen = now, !.expires = now + Ttl], SignedIn(t, s.user))
                     ELSE SignedIn(t, s.user)
    OBVIOUS
  <2>3. Goes(r, v) /\ UNCHANGED <<now, redis>> /\ s \in Session
    BY <1>0, <1>2, <2>1, <2>2 DEF Authenticate
  <2>4. PICK renewed : renewed = [s EXCEPT !.seen = now, !.expires = now + Ttl]
    OBVIOUS
  <2>5. s.user \in Users /\ renewed \in Session /\ now < renewed.expires
    <3>1. /\ s.user \in Users /\ s.strength \in Strengths /\ s.strong \in BOOLEAN
          /\ s = [user |-> s.user, strength |-> s.strength, strong |-> s.strong,
                  seen |-> s.seen, expires |-> s.expires]
      BY <2>3 DEF Session
    <3>2. renewed = [user |-> s.user, strength |-> s.strength, strong |-> s.strong,
                     seen |-> now, expires |-> now + Ttl]
      BY <2>4, <3>1
    <3>3. now + Ttl \in Nat /\ now < now + Ttl
      BY <1>0, TtlAssumption
    <3>. QED  BY <1>0, <3>1, <3>2, <3>3 DEF Session
  <2>6. SignedIn(t, s.user) \in SignedInStates
    BY <2>5, SessionAnswers
  <2>7. Write(t, renewed, SignedIn(t, s.user)) \in SessionStates /\ InTime(Write(t, renewed, SignedIn(t, s.user)))
    BY <1>0, <2>5, <2>6, SessionWrites
  <2>8. v \in SessionStates /\ InTime(v)
    BY <2>2, <2>4, <2>5, <2>7, SessionAnswers
  <2>. QED  BY <2>3, <2>8, Rests, SessionMoves
<1>3. ASSUME NEW r \in Requests, FinishWrite(r) PROVE SessionsInv'
  <2>1. PICK w : w = request[r]
    OBVIOUS
  <2>2. /\ w \in SessionStates /\ InTime(w) /\ w.at = "write" /\ now' = now
        /\ \/ Save(w.token, w.session, w.since) /\ Goes(r, w.next)
           \/ Refuse(w.token, w.since) /\ Goes(r, Idle)
    BY <1>0, <1>3, <2>1 DEF FinishWrite
  <2>3. /\ w.token \in Tokens /\ w.session \in Session /\ w.since \in Nat
        /\ w.next \in {Idle} \cup SignedInStates
        /\ w.since <= now /\ w.since < w.session.expires
    BY <2>2, SessionShapes DEF InTime
  <2>4. StoreInv'
    BY <2>2, <2>3, Saves, Refuses
  <2>5. w.next \in SessionStates /\ InTime(w.next)
    BY <2>3, SessionAnswers
  <2>6. RequestsOK'
    BY <2>2, <2>5, SessionAnswers, SessionMoves
  <2>. QED  BY <2>4, <2>6
<1>4. ASSUME NEW r \in Requests, FinishRevoke(r) PROVE SessionsInv'
  <2>1. PICK w : w = request[r]
    OBVIOUS
  <2>2. /\ w \in SessionStates /\ w.at = "revoke" /\ now' = now
        /\ Revoke(w.token, w.user) /\ Goes(r, Idle)
    BY <1>0, <1>4, <2>1 DEF FinishRevoke
  <2>3. w.token \in Tokens /\ w.user \in Users
    BY <2>2, SessionShapes
  <2>. QED  BY <2>2, <2>3, Revocations, SessionAnswers, SessionMoves
<1>5. ASSUME NEW r \in Requests, FinishList(r) PROVE SessionsInv'
  <2>1. PICK w : w = request[r]
    OBVIOUS
  <2>2. /\ w \in SessionStates /\ InTime(w) /\ w.at = "list" /\ now' = now /\ Goes(r, Idle)
        /\ activeSet' = Sweep(activeSet, w.since)
        /\ UNCHANGED <<sessions, keyExpiry, userSet, setExpiry>>
    BY <1>0, <1>5, <2>1 DEF FinishList, Answered
  <2>3. w.since \in Nat /\ w.since <= now
    BY <2>2, SessionShapes DEF InTime
  <2>4. StoreInv'
    BY <2>2, <2>3, SweepActive
  <2>. QED  BY <2>2, <2>4, SessionAnswers, SessionMoves
<1>6. ASSUME NEW r \in Requests,
             \/ \E t \in Tokens : EndSession(r, t)
             \/ Logout(r) \/ EndOtherSessions(r) \/ EndPasskeySessions(r) \/ EndTotpSessions(r)
      PROVE  SessionsInv'
  <2>1. PICK w : w = request[r]
    OBVIOUS
  <2>2. /\ w \in SessionStates /\ w.at = "in" /\ now' = now /\ Goes(r, Idle)
        /\ \/ \E t \in Tokens : RevokeById(w.user, t)
           \/ Revoke(w.token, w.user)
           \/ RevokeOthers(w.user, w.token)
           \/ RevokeByAuthenticator(w.user)
           \/ RevokeAll(w.user)
    BY <1>0, <1>6, <2>1
    DEF In, Answered, EndSession, Logout, EndOtherSessions, EndPasskeySessions, EndTotpSessions
  <2>3. w.token \in Tokens /\ w.user \in Users
    BY <2>2, SessionShapes
  <2>4. StoreInv'
    BY <2>2, <2>3, Revocations
  <2>. QED  BY <2>2, <2>4, SessionAnswers, SessionMoves
<1>7. ASSUME NEW r \in Requests, ListSessions(r) PROVE SessionsInv'
  <2>1. PICK w : w = request[r]
    OBVIOUS
  <2>2. /\ w \in SessionStates /\ w.at = "in" /\ now' = now
        /\ userSet' = [userSet EXCEPT ![w.user] = Sweep(@, now)]
        /\ UNCHANGED <<sessions, keyExpiry, setExpiry, activeSet>>
    BY <1>0, <1>7, <2>1 DEF ListSessions, In
  <2>3. w.user \in Users
    BY <2>2, SessionShapes
  <2>4. StoreInv'
    BY <2>2, <2>3, SweepUser
  <2>5. PICK v : v = [at |-> "list", since |-> now]
    OBVIOUS
  <2>6. Goes(r, v) /\ v \in SessionStates /\ InTime(v)
    BY <1>0, <1>7, <2>5, SessionAnswers DEF ListSessions
  <2>. QED  BY <2>2, <2>4, <2>6, SessionMoves
<1>8. ASSUME NEW r \in Requests, SystemSummary(r) PROVE SessionsInv'
  <2>1. PICK v : v = [at |-> "list", since |-> now]
    OBVIOUS
  <2>2. Goes(r, v) /\ v \in SessionStates /\ InTime(v) /\ UNCHANGED <<now, redis>>
    BY <1>0, <1>8, <2>1, SessionAnswers DEF SystemSummary
  <2>. QED  BY <2>2, Rests, SessionMoves
<1>9. ASSUME NEW r \in Requests, OtherRoute(r) PROVE SessionsInv'
  <2>1. Goes(r, Idle) /\ UNCHANGED <<now, redis>>
    BY <1>9 DEF OtherRoute, Answered
  <2>. QED  BY <2>1, Rests, SessionAnswers, SessionMoves
<1>10. ASSUME NEW r \in Requests, ChangePassword(r) PROVE SessionsInv'
  <2>1. PICK w : w = request[r]
    OBVIOUS
  <2>2. w \in SessionStates /\ w.at = "in" /\ now' = now /\ RevokeAll(w.user) /\ Create(r, w.user, "password")
    BY <1>0, <1>10, <2>1 DEF ChangePassword, In
  <2>3. w.token \in Tokens /\ w.user \in Users /\ "password" \in Strengths
    BY <2>2, SessionShapes DEF Strengths
  <2>. QED  BY <1>0, <2>2, <2>3, Revocations, Creates
<1>11. ASSUME NEW r \in Requests, StepUp(r) PROVE SessionsInv'
  <2>1. PICK t : t = request[r].token
    OBVIOUS
  <2>2. PICK s : s = sessions[t]
    OBVIOUS
  <2>3. PICK v : v = IF Accepted(t) /\ s.strength # "password_recovery"
                     THEN Write(t, [s EXCEPT !.strong = TRUE], Idle) ELSE Idle
    OBVIOUS
  <2>4. Goes(r, v) /\ UNCHANGED <<now, redis>> /\ t \in Tokens
    BY <1>0, <1>11, <2>1, <2>2, <2>3, SessionShapes DEF StepUp, In
  <2>5. PICK strong : strong = [s EXCEPT !.strong = TRUE]
    OBVIOUS
  <2>6. Accepted(t) => strong \in Session /\ now < strong.expires
    BY <1>0, <2>2, <2>4, <2>5 DEF Accepted, Session
  <2>7. v \in SessionStates /\ InTime(v)
    <3>1. CASE Accepted(t) /\ s.strength # "password_recovery"
      BY <1>0, <2>3, <2>4, <2>5, <2>6, <3>1, SessionWrites
    <3>2. CASE ~(Accepted(t) /\ s.strength # "password_recovery")
      BY <2>3, <3>2, SessionAnswers
    <3>. QED  BY <3>1, <3>2
  <2>. QED  BY <2>4, <2>7, Rests, SessionMoves
<1>12. ASSUME NEW u \in Users, AdministerUser(u) PROVE SessionsInv'
  <2>1. RevokeAll(u) /\ now' = now /\ request' = request
    BY <1>12 DEF AdministerUser
  <2>2. StoreInv'
    BY <2>1, Removes DEF RevokeAll
  <2>3. RequestsOK'
    BY <2>1 DEF RequestsOK, InTime
  <2>. QED  BY <2>2, <2>3
<1>13. CASE Tick
  <2>1. StoreInv'
    BY <1>13, Ticks
  <2>2. request' = request /\ now' = now + 1
    BY <1>13 DEF Tick
  <2>3. ASSUME NEW r \in Requests PROVE InTime(request[r])'
    <3>1. request[r].at \in {"write", "list"} => request[r].since \in Nat
      BY <1>0, SessionShapes
    <3>. QED  BY <1>0, <2>2, <3>1 DEF InTime
  <2>. QED  BY <2>1, <2>2, <2>3 DEF RequestsOK
<1>14. CASE UNCHANGED sessionsVars
  <2>1. UNCHANGED <<now, redis>> /\ request' = request
    BY <1>14 DEF sessionsVars
  <2>2. RequestsOK'
    BY <2>1 DEF RequestsOK, InTime
  <2>. QED  BY <2>1, <2>2, Rests
<1>. QED
  BY <1>1, <1>2, <1>3, <1>4, <1>5, <1>6, <1>7, <1>8, <1>9, <1>10, <1>11, <1>12, <1>13, <1>14
  DEF SessionsNext

\* An empty Redis is in order.
LEMMA SessionsStart == SessionsInit => SessionsInv
<1>. SUFFICES ASSUME SessionsInit PROVE SessionsInv
  OBVIOUS
<1>1. StoreTypeOK
  BY DEF SessionsInit, StoreTypeOK
<1>2. KeysOK
  BY <1>1 DEF SessionsInit, StoreTypeOK, KeysOK, Present, Accepted
<1>3. Members(activeSet) = {}
  BY DEF SessionsInit, Members
<1>4. CountOK
  BY <1>3, FS_EmptySet, CapacityAssumption DEF CountOK
<1>5. RequestsOK
  BY SessionAnswers DEF SessionsInit, RequestsOK
<1>. QED  BY <1>1, <1>2, <1>4, <1>5 DEF StoreInv, SessionsInv

\* Keys, sets and counts agree with each other and with what the requests are
\* about to write, for any number of users, sessions and requests.
THEOREM SessionsInvariant == SessionsSpec => []SessionsInv
<1>. QED  BY SessionsStart, SessionsStep, PTL DEF SessionsSpec

\* Every session a request would be accepted with is in its user's set, with its
\* own expiry, and the set outlives it: "revoke all" finds it.
THEOREM Reachable == SessionsSpec => []SessionsReachable
<1>1. SessionsInv => SessionsReachable
  <2>. SUFFICES ASSUME SessionsInv, NEW t \in Tokens, Accepted(t)
                PROVE  /\ userSet[sessions[t].user][t] = sessions[t].expires
                       /\ now < setExpiry[sessions[t].user]
    BY DEF SessionsReachable
  <2>1. PICK u : u = sessions[t].user
    OBVIOUS
  <2>2. u \in Users /\ sessions[t].expires \in Nat /\ now \in Nat /\ now < sessions[t].expires
    BY <2>1 DEF SessionsInv, StoreInv, StoreTypeOK, Accepted, Present, Session
  <2>3. userSet[u][t] = sessions[t].expires /\ userSet[u][t] <= setExpiry[u]
    BY <2>1, <2>2 DEF SessionsInv, StoreInv, KeysOK
  <2>4. setExpiry[u] \in Nat
    BY <2>2 DEF SessionsInv, StoreInv, StoreTypeOK
  <2>. QED  BY <2>1, <2>2, <2>3, <2>4
<1>. QED  BY <1>1, SessionsInvariant, PTL

\* The limit counts the accepted sessions, all of them and no others.
THEOREM ExactCount == SessionsSpec => []CountIsExact
<1>1. SessionsInv => CountIsExact
  <2>. SUFFICES ASSUME SessionsInv PROVE CountIsExact
    OBVIOUS
  <2>1. \A t \in Tokens : activeSet[t] > now => Accepted(t)
    BY DEF SessionsInv, StoreInv, KeysOK, Accepted
  <2>2. \A t \in Tokens : Accepted(t) => activeSet[t] > now
    BY DEF SessionsInv, StoreInv, StoreTypeOK, KeysOK, Accepted
  <2>. QED  BY <2>1, <2>2 DEF CountIsExact, SessionsInv, StoreInv, CountOK
<1>. QED  BY <1>1, SessionsInvariant, PTL
=============================================================================
