---------------------------- MODULE SessionRouter ----------------------------
(***************************************************************************)
(* How the agent's service has a command executed: SessionRouter hands it  *)
(* to the handler of a pipe, which asks the program of the logged-in       *)
(* session, which calls Windows and answers.  The same pipe carries the    *)
(* requests of the session's window.  Sessions come, hang, and go at any   *)
(* time; a reader that is given up half-way through a frame loses it.      *)
(***************************************************************************)
EXTENDS Naturals, Sequences

CONSTANTS
    Commands,
    Sessions,   \* every connection to the pipe ever made
    ChannelCapacity,  \* of the channel from the router to a handler
    None        \* no command, no session

ASSUME ChannelCapacityAssumption == ChannelCapacity \in Nat \ {0}
ASSUME NoneAssumption == None \notin Commands \cup Sessions

VARIABLES
    attached,      \* the router's active session
    call,          \* what execute awaits: "idle", "sending", "waiting"
    current,       \* the command of the call
    target,        \* the session whose sender the call holds
    reply,         \* what each command's oneshot channel holds
    answer,        \* the ExecutionResult of each command
    handler,       \* handle_connection of each session
    channel,       \* the commands sent to the handler
    pending,       \* the command whose response the handler waits for
    serviceReads,  \* the handler's read_message: "whole", "half" of a frame, "garbled"
    toSession, toService,  \* the frames in the pipe
    alive,         \* the session has its end of the pipe
    sessionReads,  \* as serviceReads, at the session
    performing,    \* the outcome the session is about to answer with
    asking,        \* the session's window waits for the answer to a request
    calls,         \* history: the commands in the order of the calls
    executed,      \* history: the executions, with their session and outcome
    lost           \* history: the commands whose handler ended before the response

callVars == <<call, current, target>>
handlerVars == <<handler, channel, pending, serviceReads>>
sessionVars == <<alive, sessionReads, performing, asking>>
pipe == <<toSession, toService>>
routerVars == <<attached, callVars, reply, answer, handlerVars, pipe, sessionVars, calls, executed, lost>>

CommandRequest(c) == [kind |-> "command", command |-> c, outcome |-> "none"]
CommandResponse(c, o) == [kind |-> "response", command |-> c, outcome |-> o]
Request == [kind |-> "request", command |-> None, outcome |-> "none"]
NoExecution == [command |-> None, outcome |-> "none"]

RouterInit ==
    /\ attached = None
    /\ call = "idle" /\ current = None /\ target = None
    /\ reply = [c \in Commands |-> "none"]
    /\ answer = [c \in Commands |-> "none"]
    /\ handler = [s \in Sessions |-> "new"]
    /\ channel = [s \in Sessions |-> << >>]
    /\ pending = [s \in Sessions |-> None]
    /\ serviceReads = [s \in Sessions |-> "whole"]
    /\ toSession = [s \in Sessions |-> << >>]
    /\ toService = [s \in Sessions |-> << >>]
    /\ alive = [s \in Sessions |-> TRUE]
    /\ sessionReads = [s \in Sessions |-> "whole"]
    /\ performing = [s \in Sessions |-> NoExecution]
    /\ asking = [s \in Sessions |-> FALSE]
    /\ calls = << >> /\ executed = << >> /\ lost = {}

Elements(q) == {q[i] : i \in DOMAIN q}
Put(pipes, s, frame) == [pipes EXCEPT ![s] = Append(@, frame)]
Drop(queues, s) == [queues EXCEPT ![s] = Tail(@)]
GiveUpRead(reads, s) == [reads EXCEPT ![s] = IF @ = "half" THEN "garbled" ELSE @]

-----------------------------------------------------------------------------
(* execute, one call at a time                                             *)

Return(c, result) ==
    /\ answer' = [answer EXCEPT ![c] = result]
    /\ call' = "idle" /\ current' = None /\ target' = None

\* The command goes to the session attached now, whatever comes of it.
StartCall(c) ==
    /\ call = "idle" /\ answer[c] = "none"
    /\ calls' = Append(calls, c)
    /\ IF attached = None
       THEN Return(c, "unavailable")
       ELSE /\ call' = "sending" /\ current' = c /\ target' = attached
            /\ UNCHANGED answer
    /\ UNCHANGED <<attached, reply, handlerVars, pipe, sessionVars, executed, lost>>

\* A full channel makes the call wait, for as long as its session hangs.
Send ==
    /\ call = "sending"
    /\ \/ /\ handler[target] = "ended"
          /\ Return(current, "unavailable") /\ UNCHANGED channel
       \/ /\ handler[target] # "ended" /\ Len(channel[target]) < ChannelCapacity
          /\ channel' = [channel EXCEPT ![target] = Append(@, current)]
          /\ call' = "waiting" /\ UNCHANGED <<current, target, answer>>
    /\ UNCHANGED <<attached, reply, handler, pending, serviceReads, pipe, sessionVars, calls, executed, lost>>

\* Mutant: a handler that went away has failed to execute the command.
ReceiveAsFailed ==
    /\ call = "waiting" /\ reply[current] # "none"
    /\ Return(current, IF reply[current] = "dropped" THEN "failed" ELSE reply[current])
    /\ UNCHANGED <<attached, reply, handlerVars, pipe, sessionVars, calls, executed, lost>>

ReceiveReply ==
    /\ call = "waiting" /\ reply[current] # "none"
    /\ Return(current, IF reply[current] = "dropped" THEN "unavailable" ELSE reply[current])
    /\ UNCHANGED <<attached, reply, handlerVars, pipe, sessionVars, calls, executed, lost>>

\* Mutant: no answer in time counts as no session.
TimeOutUnavailable ==
    /\ call = "waiting" /\ reply[current] = "none"
    /\ Return(current, "unavailable")
    /\ UNCHANGED <<attached, reply, handlerVars, pipe, sessionVars, calls, executed, lost>>

\* The command stays where it is, and may be executed later.
TimeOut ==
    /\ call = "waiting" /\ reply[current] = "none"
    /\ Return(current, "outcome_unknown")
    /\ UNCHANGED <<attached, reply, handlerVars, pipe, sessionVars, calls, executed, lost>>

-----------------------------------------------------------------------------
(* handle_connection                                                       *)

\* The handler's function returns: what it holds is dropped, and its end of the pipe.
End(s) ==
    /\ handler' = [handler EXCEPT ![s] = "ended"]
    /\ reply' = [c \in Commands |->
                    IF c \in Elements(channel[s]) \cup {pending[s]} THEN "dropped" ELSE reply[c]]
    /\ lost' = lost \cup ({pending[s]} \ {None})
    /\ channel' = [channel EXCEPT ![s] = << >>]
    /\ pending' = [pending EXCEPT ![s] = None]

\* The loop is left by break, and the session will be detached.
Break(s) == handler' = [handler EXCEPT ![s] = "detaching"] /\ UNCHANGED <<reply, lost, channel, pending>>

\* The new session replaces the one attached before.  A session that does not
\* get its acknowledgement stays attached.
Attach(s) ==
    /\ handler[s] = "new"
    /\ attached' = s
    /\ handler' = [handler EXCEPT ![s] = IF alive[s] THEN "running" ELSE "ended"]
    /\ UNCHANGED <<callVars, reply, answer, channel, pending, serviceReads,
                   pipe, sessionVars, calls, executed, lost>>

Detach(s) ==
    /\ handler[s] = "detaching"
    /\ attached' = IF attached = s THEN None ELSE attached
    /\ End(s)
    /\ UNCHANGED <<callVars, answer, serviceReads, pipe, sessionVars, calls, executed>>

\* Mutant: the command stays in the channel until it is answered.
TakePeeks(s) ==
    /\ handler[s] = "running" /\ alive[s] /\ pending[s] = None /\ channel[s] # << >>
    /\ LET c == Head(channel[s]) IN
       /\ toSession' = Put(toSession, s, CommandRequest(c))
       /\ pending' = [pending EXCEPT ![s] = c]
    /\ serviceReads' = GiveUpRead(serviceReads, s)
    /\ UNCHANGED <<attached, callVars, reply, answer, handler, channel, toService, sessionVars,
                   calls, executed, lost>>

\* Mutant: the channel is a stack.
TakeLast(s) ==
    /\ handler[s] = "running" /\ alive[s] /\ pending[s] = None /\ channel[s] # << >>
    /\ LET n == Len(channel[s]) IN
       /\ toSession' = Put(toSession, s, CommandRequest(channel[s][n]))
       /\ pending' = [pending EXCEPT ![s] = channel[s][n]]
       /\ channel' = [channel EXCEPT ![s] = SubSeq(@, 1, n - 1)]
    /\ serviceReads' = GiveUpRead(serviceReads, s)
    /\ UNCHANGED <<attached, callVars, reply, answer, handler, toService, sessionVars, calls, executed, lost>>

\* The next command is written to the session once it has answered the last;
\* the read that was under way is given up.  An error leaves without detaching.
Take(s) ==
    /\ handler[s] = "running" /\ pending[s] = None /\ channel[s] # << >>
    /\ \/ /\ alive[s]
          /\ toSession' = Put(toSession, s, CommandRequest(Head(channel[s])))
          /\ pending' = [pending EXCEPT ![s] = Head(channel[s])]
          /\ channel' = Drop(channel, s)
          /\ serviceReads' = GiveUpRead(serviceReads, s)
          /\ UNCHANGED <<handler, reply, lost>>
       \/ ~alive[s] /\ End(s) /\ UNCHANGED <<toSession, serviceReads>>
    /\ UNCHANGED <<attached, callVars, answer, toService, sessionVars, calls, executed>>

\* recv returns None once the router and the call have dropped their senders.
SendersGone(s) ==
    /\ handler[s] = "running" /\ pending[s] = None /\ channel[s] = << >>
    /\ attached # s /\ target # s
    /\ Break(s)
    /\ UNCHANGED <<attached, callVars, answer, serviceReads, pipe, sessionVars, calls, executed>>

CanRead(s) == handler[s] = "running" /\ serviceReads[s] # "garbled" /\ toService[s] # << >>

ReadHalf(s) ==
    /\ CanRead(s)
    /\ serviceReads' = [serviceReads EXCEPT ![s] = "half"]
    /\ UNCHANGED <<attached, callVars, reply, answer, handler, channel, pending,
                   pipe, sessionVars, calls, executed, lost>>

ReadWhole(s) ==
    /\ toService' = Drop(toService, s)
    /\ serviceReads' = [serviceReads EXCEPT ![s] = "whole"]

\* The response is for the pending command, or the connection ends: the
\* pending command has been taken by then, and its sender is dropped.
ReadResponse(s) ==
    /\ CanRead(s) /\ Head(toService[s]).kind = "response"
    /\ ReadWhole(s)
    /\ LET response == Head(toService[s]) IN
       \/ /\ pending[s] = response.command
          /\ reply' = [reply EXCEPT ![response.command] = response.outcome]
          /\ UNCHANGED <<handler, lost>>
       \/ /\ pending[s] # response.command
          /\ handler' = [handler EXCEPT ![s] = "detaching"]
          /\ reply' = [c \in Commands |-> IF c = pending[s] THEN "dropped" ELSE reply[c]]
          /\ lost' = lost \cup ({pending[s]} \ {None})
    /\ pending' = [pending EXCEPT ![s] = None]
    /\ UNCHANGED <<attached, callVars, answer, channel, toSession, sessionVars, calls, executed>>

\* A status, registration or unregistration is answered, or an error leaves
\* without detaching.
ReadRequest(s) ==
    /\ CanRead(s) /\ Head(toService[s]).kind = "request"
    /\ ReadWhole(s)
    /\ \/ /\ alive[s] /\ toSession' = Put(toSession, s, Request)
          /\ UNCHANGED <<handler, channel, pending, reply, lost>>
       \/ End(s) /\ UNCHANGED toSession
    /\ UNCHANGED <<attached, callVars, answer, sessionVars, calls, executed>>

ReadFails(s) ==
    /\ handler[s] = "running"
    /\ ~alive[s] \/ serviceReads[s] = "garbled"
    /\ Break(s)
    /\ UNCHANGED <<attached, callVars, answer, serviceReads, pipe, sessionVars, calls, executed>>

-----------------------------------------------------------------------------
(* The program of the session                                              *)

Listens(s) == alive[s] /\ handler[s] # "new" /\ performing[s] = NoExecution
CanHear(s) == Listens(s) /\ sessionReads[s] # "garbled" /\ toSession[s] # << >>

HearHalf(s) ==
    /\ CanHear(s)
    /\ sessionReads' = [sessionReads EXCEPT ![s] = "half"]
    /\ UNCHANGED <<attached, callVars, reply, answer, handlerVars, pipe, alive, performing, asking,
                   calls, executed, lost>>

HearWhole(s) ==
    /\ toSession' = Drop(toSession, s)
    /\ sessionReads' = [sessionReads EXCEPT ![s] = "whole"]

\* The call of Windows, for which the session does nothing else.
Perform(s) ==
    /\ CanHear(s) /\ Head(toSession[s]).kind = "command"
    /\ HearWhole(s)
    /\ \E outcome \in {"succeeded", "failed"} :
          LET c == Head(toSession[s]).command IN
          /\ performing' = [performing EXCEPT ![s] = [command |-> c, outcome |-> outcome]]
          /\ executed' = Append(executed, [session |-> s, command |-> c, outcome |-> outcome])
    /\ UNCHANGED <<attached, callVars, reply, answer, handlerVars, toService, alive, asking, calls, lost>>

Answer(s) ==
    /\ alive[s] /\ performing[s] # NoExecution
    /\ performing' = [performing EXCEPT ![s] = NoExecution]
    /\ toService' = Put(toService, s, CommandResponse(performing[s].command, performing[s].outcome))
    /\ UNCHANGED <<attached, callVars, reply, answer, handlerVars, toSession, alive, sessionReads, asking,
                   calls, executed, lost>>

\* A request of the window; the read that was under way is given up.
Ask(s) ==
    /\ Listens(s) /\ ~asking[s]
    /\ asking' = [asking EXCEPT ![s] = TRUE]
    /\ toService' = Put(toService, s, Request)
    /\ sessionReads' = GiveUpRead(sessionReads, s)
    /\ UNCHANGED <<attached, callVars, reply, answer, handlerVars, toSession, alive, performing,
                   calls, executed, lost>>

HearReply(s) ==
    /\ CanHear(s) /\ Head(toSession[s]).kind = "request"
    /\ HearWhole(s)
    /\ asking' = [asking EXCEPT ![s] = FALSE]
    /\ UNCHANGED <<attached, callVars, reply, answer, handlerVars, toService, alive, performing,
                   calls, executed, lost>>

\* It ends, or closes a pipe that it cannot read or that the service has closed.
Leave(s) ==
    /\ alive[s]
    /\ alive' = [alive EXCEPT ![s] = FALSE]
    /\ UNCHANGED <<attached, callVars, reply, answer, handlerVars, pipe, sessionReads, performing, asking,
                   calls, executed, lost>>

-----------------------------------------------------------------------------
RouterNext ==
    \/ \E c \in Commands : StartCall(c)
    \/ Send \/ ReceiveReply \/ TimeOut
    \/ \E s \in Sessions :
          \/ Attach(s) \/ Detach(s) \/ Take(s) \/ SendersGone(s)
          \/ ReadHalf(s) \/ ReadResponse(s) \/ ReadRequest(s) \/ ReadFails(s)
          \/ HearHalf(s) \/ Perform(s) \/ Answer(s) \/ Ask(s) \/ HearReply(s) \/ Leave(s)

RouterSpec == RouterInit /\ [][RouterNext]_routerVars

-----------------------------------------------------------------------------
(* Properties                                                              *)

Outcomes == {"succeeded", "failed"}

\* The result of a command is the outcome of its own execution, however late
\* the responses to earlier commands arrive.
AnswersAreOwn ==
    \A c \in Commands : answer[c] \in Outcomes =>
        \E i \in DOMAIN executed : executed[i].command = c /\ executed[i].outcome = answer[c]

\* No command is executed twice: not by the session that replaces the one it
\* was given to, and not after its time-out.
ExecutedOnce ==
    \A i, j \in DOMAIN executed : executed[i].command = executed[j].command => i = j

\* A command whose session was not available was not executed, and will not
\* be, unless its session was lost after it was asked to execute it.
UnavailableNotExecuted ==
    \A i \in DOMAIN executed :
        answer[executed[i].command] = "unavailable" => executed[i].command \in lost

Called(c, d) == \E i, j \in DOMAIN calls : i < j /\ calls[i] = c /\ calls[j] = d

\* A session executes its commands in the order of the calls, also those that
\* were given up in the meantime.
ExecutedInOrder ==
    \A i, j \in DOMAIN executed :
        i < j /\ executed[i].session = executed[j].session => Called(executed[i].command, executed[j].command)
=============================================================================
