----------------------------- MODULE ClientTask -----------------------------
(***************************************************************************)
(* The background task of the client (ClientTask in client.rs): its select *)
(* loop, handle_command, handle_tick and try_connect with the on-connect   *)
(* hook.  Between two awaits the task runs alone, so an action is the code *)
(* from one await to the next and `pc` says which await it is at.  While   *)
(* the task awaits, callers and the server go on.                          *)
(*                                                                         *)
(* The hook is application code.  HookOutcomes says what it may do: it may *)
(* return Ok after exchanges that went well (ok), return Err (error), not  *)
(* return in time (timeout), panic (panic), and return Ok although one of  *)
(* its exchanges failed or was given up (tolerate).  {} means no hook.     *)
(* When HookHandle is a caller, the hook also calls the client through     *)
(* that clone.                                                             *)
(***************************************************************************)
EXTENDS ClientHandle

CONSTANTS
    Policy,       \* InvalidCredentialsPolicy, "Latch" or "Retry"
    HookOutcomes, \* what the on-connect hook may do; {} without a hook
    NoCommand     \* no command is being handled

ASSUME TaskAssumption ==
    /\ Policy \in {"Latch", "Retry"}
    /\ HookOutcomes \subseteq {"ok", "error", "timeout", "panic", "tolerate"}
    /\ HookOutcomes # {} => {"ok", "error"} \subseteq HookOutcomes
    /\ NoCommand \notin Command

VARIABLES
    pc,                   \* the await the task is at
    current,              \* the command handle_command is working on
    config,               \* self.config
    connected,            \* self.connection.is_some(); the value is `stream`
    status,               \* the watch
    credentials_invalid,  \* self.credentials_invalid
    shutdown,             \* self.shutdown
    rejections,           \* history: rejections read since the last configure,
                          \* counted up to 2
    lastAttempt           \* history: how the last attempt since then ended

(* What only configure, shutdown and the end of an attempt change.         *)
settings == <<config, credentials_invalid, shutdown, rejections, lastAttempt>>

taskVars == <<pc, current, connected, status, settings>>

-----------------------------------------------------------------------------

HookPcs == {"hook", "hook_call", "hook_failed", "hook_waits"}
ConnectPcs == {"connect", "negotiate", "authenticate"}
QuitPcs == {"quit_configure", "quit_shutdown", "quit_hook", "quit_end"}
Pcs == {"select", "request", "ping", "done"} \cup HookPcs \cup ConnectPcs
          \cup QuitPcs

Status == [state : {"Unconfigured", "Disconnected", "Connected",
                    "InvalidCredentials", "Shutdown"},
           capabilities : Capabilities]

Plain(state) == [state |-> state, capabilities |-> NoCapabilities]

ConfiguredStatus(c) ==
    Plain(IF c = NoConfig THEN "Unconfigured" ELSE "Disconnected")

TaskInit ==
    /\ pc = "select"
    /\ current = NoCommand
    /\ config \in MaybeConfig
    /\ connected = FALSE
    /\ status = ConfiguredStatus(config)
    /\ credentials_invalid = FALSE
    /\ shutdown = FALSE
    /\ rejections = 0
    /\ lastAttempt = "none"

-----------------------------------------------------------------------------

(* The recv() branch of the select loop.                                   *)
Receive(op) ==
    /\ pc = "select"
    /\ queue # <<>>
    /\ Head(queue).op = op
    /\ queue' = Tail(queue)

SetStatus(s) == status' = s

(* Mutant: the watch is not told.                                          *)
DropConnectionSilently ==
    /\ connected' = FALSE
    /\ stream' = NoStream
    /\ UNCHANGED status

(* Mutant: the broken connection stays in place.                           *)
DropConnectionInName ==
    /\ SetStatus(Plain("Disconnected"))
    /\ UNCHANGED <<connected, stream>>

DropConnection ==
    /\ connected' = FALSE
    /\ stream' = NoStream
    /\ SetStatus(Plain("Disconnected"))

(* self.connection.take() followed by quit().await.                        *)
TakeAndQuit(next) ==
    /\ connected' = FALSE
    /\ stream' = Written(stream, QuitFrame)
    /\ pc' = next

(* quit().await is over, its write done or failed; the connection goes.    *)
QuitEnds(at) ==
    /\ pc = at
    /\ stream' = NoStream

-----------------------------------------------------------------------------
(* handle_command: Command::Configure.                                     *)

(* Mutant: the latch survives the new configuration.                       *)
ApplyUnderLatch(newConfig) ==
    /\ SetStatus(ConfiguredStatus(newConfig))
    /\ config' = newConfig
    /\ rejections' = 0
    /\ lastAttempt' = "none"
    /\ pc' = "select"
    /\ current' = NoCommand
    /\ UNCHANGED credentials_invalid

Apply(newConfig) ==
    /\ credentials_invalid' = FALSE
    /\ SetStatus(ConfiguredStatus(newConfig))
    /\ config' = newConfig
    /\ rejections' = 0
    /\ lastAttempt' = "none"
    /\ pc' = "select"
    /\ current' = NoCommand

(* Mutant: the open connection survives the new configuration.             *)
HandleConfigureInPlace ==
    /\ Receive("configure")
    /\ \/ /\ shutdown
          /\ UNCHANGED taskVars
       \/ /\ ~shutdown
          /\ Apply(Head(queue).config)
          /\ UNCHANGED <<connected, shutdown>>
    /\ UNCHANGED <<stream, closed, calls, accepted, faults>>

HandleConfigure ==
    /\ Receive("configure")
    /\ \/ /\ shutdown
          /\ UNCHANGED <<taskVars, stream>>
       \/ /\ ~shutdown
          /\ ~connected
          /\ Apply(Head(queue).config)
          /\ UNCHANGED <<connected, shutdown, stream>>
       \/ /\ ~shutdown
          /\ connected
          /\ TakeAndQuit("quit_configure")
          /\ current' = Head(queue)
          /\ UNCHANGED <<status, settings>>
    /\ UNCHANGED <<closed, calls, accepted, faults>>

ConfigureAfterQuit ==
    /\ QuitEnds("quit_configure")
    /\ Apply(current.config)
    /\ UNCHANGED <<connected, shutdown, handleVars, faults>>

-----------------------------------------------------------------------------
(* handle_command: Command::Request.                                       *)

Refused(command, kind) ==
    [NoAnswer EXCEPT !.kind = kind, !.want = command.want,
                     !.late = command.late]

Answered(command, reply) ==
    [kind |-> DecodeResponse("request", reply), re |-> reply.re,
     via |-> stream.config, want |-> command.want, late |-> command.late]

(* Mutant: a client that was shut down reports a lost connection.          *)
RefusalAfterShutdown == "disconnected"

Refusal == IF shutdown THEN "shutdown" ELSE "disconnected"

HandleRequest ==
    /\ Receive("request")
    /\ \/ /\ shutdown \/ ~connected
          /\ Respond(Head(queue), Refused(Head(queue), Refusal))
          /\ UNCHANGED <<taskVars, stream>>
       \/ /\ ~shutdown /\ connected
          /\ stream' = Written(stream, RequestFrame(Head(queue)))
          /\ pc' = "request"
          /\ current' = Head(queue)
          /\ UNCHANGED <<connected, status, settings, calls>>
    /\ UNCHANGED <<closed, accepted, faults>>

RequestDone ==
    /\ pc' = "select"
    /\ current' = NoCommand
    /\ UNCHANGED <<settings, queue, closed, accepted>>

(* Mutant: the connection outlives a fatal error.                          *)
RequestAnsweredAnyhow ==
    /\ pc = "request"
    /\ ReplyArrived
    /\ stream' = Taken(stream)
    /\ Respond(current, Answered(current, Head(stream.down)))
    /\ RequestDone
    /\ UNCHANGED <<connected, status, faults>>

(* A reply: after a fatal error the connection goes before the response is *)
(* sent.                                                                   *)
RequestAnswered ==
    /\ pc = "request"
    /\ ReplyArrived
    /\ IF Head(stream.down).kind = "fatal"
       THEN DropConnection
       ELSE stream' = Taken(stream) /\ UNCHANGED <<connected, status>>
    /\ Respond(current, Answered(current, Head(stream.down)))
    /\ RequestDone
    /\ UNCHANGED faults

(* A transport error or the request timeout.                               *)
RequestFails ==
    /\ pc = "request"
    /\ ExchangeFails
    /\ DropConnection
    /\ Respond(current, Refused(current, "disconnected"))
    /\ RequestDone

-----------------------------------------------------------------------------
(* handle_command: Command::Shutdown.                                      *)

(* Mutant: the flag is not set, only the status published.                 *)
ShutDownForgotten(command) ==
    /\ UNCHANGED shutdown
    /\ SetStatus(Plain("Shutdown"))
    /\ Respond(command, NoAnswer)
    /\ pc' = "select"
    /\ current' = NoCommand

ShutDown(command) ==
    /\ shutdown' = TRUE
    /\ SetStatus(Plain("Shutdown"))
    /\ Respond(command, NoAnswer)
    /\ pc' = "select"
    /\ current' = NoCommand

HandleShutdown ==
    /\ Receive("shutdown")
    /\ \/ /\ ~connected
          /\ ShutDown(Head(queue))
          /\ UNCHANGED <<connected, stream>>
       \/ /\ connected
          /\ TakeAndQuit("quit_shutdown")
          /\ current' = Head(queue)
          /\ UNCHANGED <<status, shutdown, calls>>
    /\ UNCHANGED <<config, credentials_invalid, rejections, lastAttempt,
                   closed, accepted, faults>>

ShutdownAfterQuit ==
    /\ QuitEnds("quit_shutdown")
    /\ ShutDown(current)
    /\ UNCHANGED <<config, connected, credentials_invalid, rejections,
                   lastAttempt, queue, closed, accepted, faults>>

-----------------------------------------------------------------------------
(* handle_tick.                                                            *)

(* Mutants: the latch under the wrong policy, and whatever the policy.     *)
LatchedUnderRetry == credentials_invalid /\ Policy = "Retry"
LatchedAlways == credentials_invalid

Latched == credentials_invalid /\ Policy = "Latch"

HandleTick ==
    /\ pc = "select"
    /\ \/ /\ shutdown \/ (~connected /\ (Latched \/ config = NoConfig))
          /\ UNCHANGED <<pc, stream>>
       \/ /\ ~shutdown
          /\ connected
          /\ stream' = Written(stream, PingFrame)
          /\ pc' = "ping"
       \/ /\ ~shutdown /\ ~connected
          /\ ~Latched
          /\ config # NoConfig
          /\ pc' = "connect"
          /\ UNCHANGED stream
    /\ UNCHANGED <<current, connected, status, settings, handleVars, faults>>

(* Anything but a pong, in time, costs the connection.                     *)
PingEnds ==
    /\ pc = "ping"
    /\ \/ /\ ReplyArrived
          /\ UNCHANGED faults
          /\ IF DecodeResponse("ping", Head(stream.down)) = "ok"
             THEN stream' = Taken(stream) /\ UNCHANGED <<connected, status>>
             ELSE DropConnection
       \/ ExchangeFails /\ DropConnection
    /\ pc' = "select"
    /\ UNCHANGED <<current, settings, handleVars>>

-----------------------------------------------------------------------------
(* try_connect.  An attempt ends in one of three ways.                     *)

AttemptEnds(outcome) ==
    /\ pc' = "select"
    /\ lastAttempt' = outcome
    /\ UNCHANGED <<current, config, shutdown, queue, closed, accepted>>

(* Mutant: a failed attempt leaves the watch as it was.                    *)
AttemptFailedSilently ==
    /\ stream' = NoStream
    /\ AttemptEnds("failed")
    /\ UNCHANGED <<connected, status, credentials_invalid, rejections>>

AttemptFailed ==
    /\ stream' = NoStream
    /\ SetStatus(Plain("Disconnected"))
    /\ AttemptEnds("failed")
    /\ UNCHANGED <<connected, credentials_invalid, rejections>>

AttemptFails == AttemptFailed /\ UNCHANGED calls

CredentialsRejected ==
    /\ stream' = NoStream
    /\ credentials_invalid' = TRUE
    /\ SetStatus(Plain("InvalidCredentials"))
    /\ rejections' = IF rejections = 2 THEN 2 ELSE rejections + 1
    /\ AttemptEnds("rejected")
    /\ UNCHANGED <<connected, calls>>

Established(s) ==
    /\ stream' = s
    /\ credentials_invalid' = FALSE
    /\ SetStatus([state |-> "Connected", capabilities |-> s.capabilities])
    /\ connected' = TRUE
    /\ AttemptEnds("connected")
    /\ UNCHANGED <<rejections, calls>>

(* Steps inside an attempt leave everything but pc and stream alone.       *)
AttemptContinues(next) ==
    /\ pc' = next
    /\ UNCHANGED <<current, connected, status, settings, handleVars>>

-----------------------------------------------------------------------------
(* connect(): dial, negotiate_version, authenticate.                       *)

Dial ==
    /\ pc = "connect"
    /\ stream' = Dialled(config)
    /\ AttemptContinues("negotiate")
    /\ UNCHANGED faults

NegotiateVersion ==
    /\ pc = "negotiate"
    /\ ReplyArrived
    /\ IF DecodeResponse("handshake", Head(stream.down)) = "ok"
       THEN /\ stream' = Negotiated(stream, Head(stream.down))
            /\ AttemptContinues("authenticate")
       ELSE AttemptFails
    /\ UNCHANGED faults

Authenticate ==
    /\ pc = "authenticate"
    /\ ReplyArrived
    /\ LET reply == Head(stream.down)
           accept == DecodeResponse("auth", reply) = "ok"
       IN  \/ /\ accept
              /\ HookOutcomes # {}
              /\ stream' = Authenticated(stream)
              /\ AttemptContinues("hook")
           \/ /\ accept
              /\ HookOutcomes = {}
              /\ Established(Authenticated(stream))
           \/ /\ reply.kind = "invalid"
              /\ CredentialsRejected
           \/ /\ ~accept
              /\ reply.kind # "invalid"
              /\ AttemptFails
    /\ UNCHANGED faults

(* Resolving, TCP, TLS or an exchange fails or exceeds its timeout.        *)
ConnectFails ==
    /\ \/ pc = "connect" /\ Fault
       \/ pc \in {"negotiate", "authenticate"} /\ ExchangeFails
    /\ AttemptFails

-----------------------------------------------------------------------------
(* The on-connect hook, holding the Session.                               *)

HookCalls ==
    /\ pc = "hook"
    /\ stream' = Written(stream, SessionFrame)
    /\ AttemptContinues("hook_call")
    /\ UNCHANGED faults

HookCallAnswered ==
    /\ pc = "hook_call"
    /\ ReplyArrived
    /\ stream' = Taken(stream)
    /\ AttemptContinues(IF Head(stream.down).kind = "fatal" THEN "hook_failed"
                                                            ELSE "hook")
    /\ UNCHANGED faults

HookCallFails ==
    /\ pc = "hook_call"
    /\ ExchangeFails
    /\ AttemptContinues("hook_failed")
    /\ UNCHANGED stream

(* The hook awaits a call of its own through the handle it has captured,   *)
(* which only the task it runs on can serve (the warning at                *)
(* client.rs:215-217), and goes on when the call has returned.             *)
HookUsesHandle ==
    /\ \/ /\ pc = "hook"
          /\ HookHandle # NoCaller
          /\ SendRequest(HookHandle) \/ Configure(HookHandle)
          /\ pc' = "hook_waits"
       \/ /\ pc = "hook_waits"
          /\ ~Pending(HookHandle)
          /\ pc' = "hook"
          /\ UNCHANGED handleVars
    /\ UNCHANGED <<current, connected, status, settings, stream, faults>>

HookReturnsOk ==
    /\ \/ "ok" \in HookOutcomes /\ pc = "hook"
       \/ "tolerate" \in HookOutcomes /\ pc = "hook_failed"
    /\ Established(stream)
    /\ UNCHANGED faults

(* Err on its own account is a fault; after a failed exchange it is not.   *)
HookReturnsErr ==
    /\ \/ pc = "hook" /\ Fault
       \/ pc = "hook_failed" /\ UNCHANGED faults
    /\ stream' = Written(stream, QuitFrame)
    /\ AttemptContinues("quit_hook")

FailAfterQuit ==
    /\ QuitEnds("quit_hook")
    /\ AttemptFails
    /\ UNCHANGED faults

(* Mutant: no limit on the time the hook waits for the client.             *)
HookWaitsForever ==
    /\ "timeout" \in HookOutcomes
    /\ pc \in HookPcs \ {"hook_waits"}
    /\ Fault
    /\ AttemptFails

(* request_timeout around the hook.  The call the hook awaits is dropped   *)
(* with it, the command it has sent stays sent.                            *)
HookTimesOut ==
    /\ \/ /\ "timeout" \in HookOutcomes
          /\ pc \in HookPcs \ {"hook_waits"}
          /\ Fault
          /\ UNCHANGED calls
       \/ /\ pc = "hook_waits"
          /\ calls' = [c \in Callers |->
                          IF c = HookHandle /\ Pending(c)
                          THEN Returned(calls[c], NoAnswer)
                          ELSE calls[c]]
          /\ UNCHANGED faults
    /\ AttemptFailed

(* The panic ends the spawned task: its receiver and connection are        *)
(* dropped and the watch keeps its last value.                             *)
HookPanics ==
    /\ "panic" \in HookOutcomes
    /\ pc \in HookPcs \ {"hook_waits"}
    /\ pc' = "done"
    /\ stream' = NoStream
    /\ CloseChannel
    /\ UNCHANGED <<current, connected, status, settings, accepted, faults>>

-----------------------------------------------------------------------------
(* The end of run(): recv() yields None once the channel is drained and    *)
(* the last handle is gone.                                                *)

(* Mutant: the watch keeps its last value.                                 *)
FinishSilently ==
    /\ pc' = "done"
    /\ CloseChannel
    /\ UNCHANGED status

Finish ==
    /\ pc' = "done"
    /\ SetStatus(Plain("Shutdown"))
    /\ CloseChannel

HandlesGone ==
    /\ pc = "select"
    /\ queue = <<>>
    /\ NoSenders
    /\ \/ /\ ~connected
          /\ Finish
          /\ UNCHANGED <<connected, stream>>
       \/ /\ connected
          /\ TakeAndQuit("quit_end")
          /\ UNCHANGED <<status, queue, closed, calls>>
    /\ UNCHANGED <<current, settings, accepted, faults>>

FinishAfterQuit ==
    /\ QuitEnds("quit_end")
    /\ Finish
    /\ UNCHANGED <<current, connected, settings, accepted, faults>>

-----------------------------------------------------------------------------

(* The command branch of the select loop.                                  *)
HandleCommand ==
    HandleConfigure \/ HandleRequest \/ HandleShutdown \/ HandlesGone

(* What a handler does after its first await.                              *)
HandlerContinues ==
    \/ ConfigureAfterQuit \/ ShutdownAfterQuit \/ FinishAfterQuit
    \/ RequestAnswered \/ RequestFails
    \/ PingEnds
    \/ Dial \/ NegotiateVersion \/ Authenticate \/ ConnectFails
    \/ HookCalls \/ HookCallAnswered \/ HookCallFails \/ HookUsesHandle
    \/ FailAfterQuit

HookEnds == HookReturnsOk \/ HookReturnsErr \/ HookTimesOut \/ HookPanics

TaskNext == HandleCommand \/ HandleTick \/ HandlerContinues \/ HookEnds
=============================================================================
