---------------------------- MODULE BloopClient ----------------------------
(***************************************************************************)
(* The client as a whole: callers with clones of the handle, the command   *)
(* channel, the background task, the connection and the server.            *)
(***************************************************************************)
EXTENDS ClientTask

vars == <<connectionVars, handleVars, taskVars>>

Init ==
    /\ stream = NoStream
    /\ faults = 0
    /\ TaskInit
    /\ HandleInit(config)

ServerStep == ServerNext /\ UNCHANGED <<handleVars, taskVars>>

CallerStep(c) == HandleNext(c) /\ UNCHANGED <<connectionVars, taskVars>>

(* The task has returned and every handle is gone.                         *)
Terminated ==
    /\ pc = "done"
    /\ NoSenders
    /\ UNCHANGED vars

Next ==
    \/ TaskNext
    \/ ServerStep
    \/ \E c \in Callers : CallerStep(c)
    \/ Terminated

Spec == Init /\ [][Next]_vars

TypeOK ==
    /\ stream \in Stream
    /\ faults \in 0..MaxFaults
    /\ queue \in Seq(Command)
    /\ Len(queue) <= QueueCapacity
    /\ closed \in BOOLEAN
    /\ calls \in [Callers -> Call]
    /\ accepted \in [config : MaybeConfig, shutdown : BOOLEAN]
    /\ pc \in Pcs
    /\ current \in Command \cup {NoCommand}
    /\ config \in MaybeConfig
    /\ connected \in BOOLEAN
    /\ status \in Status
    /\ credentials_invalid \in BOOLEAN
    /\ shutdown \in BOOLEAN
    /\ rejections \in 0..2
    /\ lastAttempt \in {"none", "connected", "rejected", "failed"}

-----------------------------------------------------------------------------
(* Safety.                                                                 *)

(* Whenever the task is back in its select loop, the watch tells the truth *)
(* about it: Connected exactly while a connection is held, with that       *)
(* connection's capabilities and the current configuration; Unconfigured   *)
(* exactly without a configuration; InvalidCredentials exactly when the    *)
(* last attempt was rejected (client.rs:684-687 keeps a later network      *)
(* failure from leaving it stale); Shutdown exactly after a shutdown.      *)
StatusTruthful ==
    pc = "select" =>
        /\ shutdown <=> status.state = "Shutdown"
        /\ shutdown => ~connected
        /\ ~shutdown =>
              /\ connected <=> status.state = "Connected"
              /\ connected => /\ status.capabilities = stream.capabilities
                              /\ stream.config = config
              /\ config = NoConfig <=> status.state = "Unconfigured"
              /\ lastAttempt = "rejected"
                    <=> status.state = "InvalidCredentials"

(* Under the Latch policy a rejected configuration is never presented      *)
(* again: until the next configure the client stays disconnected, makes no *)
(* attempt and reports InvalidCredentials (or Shutdown).                   *)
LatchHolds ==
    Policy = "Latch" /\ rejections > 0 =>
        /\ rejections = 1
        /\ ~connected
        /\ pc \notin ConnectPcs \cup HookPcs
        /\ status.state \in {"InvalidCredentials", "Shutdown"}

(* Requests are strictly serialized (client.rs:310): whatever is in flight *)
(* on the connection belongs to the one exchange the task awaits, and      *)
(* nothing is in flight while it awaits none.  A timed-out, failed or      *)
(* cancelled exchange therefore never leaves a reply behind for the next.  *)
InFlight == {stream.up[i] : i \in 1..Len(stream.up)}
               \cup {stream.down[i].re : i \in 1..Len(stream.down)}

Awaited ==
    CASE pc = "request"      -> {RequestFrame(current)}
      [] pc = "ping"         -> {PingFrame}
      [] pc = "negotiate"    -> {HandshakeFrame}
      [] pc = "authenticate" -> {AuthFrame(config)}
      [] pc \in {"hook_call", "hook_failed"} -> {SessionFrame}
      [] pc \in QuitPcs      -> {SessionFrame, QuitFrame}
      [] OTHER               -> {}

StrictlySerialized ==
    /\ InFlight \subseteq Awaited
    /\ pc \notin QuitPcs => Len(stream.up) + Len(stream.down) <= 1

(* The reply a request call returns with answers that very call, not an    *)
(* earlier one of the same or of another caller, nor one of the hook.      *)
NoCrossedReplies ==
    \A c \in Callers :
        calls[c].op = "request" /\ calls[c].answer.kind \in {"ok", "error", "bad"}
            => calls[c].answer.re = RequestFrame([from |-> c, n |-> calls[c].n])

(* A request queued after a configure is answered over a connection that   *)
(* was authenticated with that configuration, never over the old one.      *)
ServedUnderLatestConfig ==
    \A c \in Callers :
        calls[c].op = "request" /\ calls[c].answer.kind \in {"ok", "error", "bad"}
            => calls[c].answer.via = calls[c].answer.want

(* A request queued behind a shutdown fails with RequestError::Shutdown,   *)
(* whoever called shutdown and whether or not that call has returned.      *)
LateRequestsRefused ==
    \A c \in Callers :
        calls[c].op = "request" /\ calls[c].answer.late
            => calls[c].answer.kind = "shutdown"

(* connection.rs:216-233: the client accepts large payloads only from a    *)
(* server that has authenticated it, presents its credentials only to one  *)
(* that has agreed on the version, and sends requests only after both.     *)
HandshakeGate ==
    /\ stream.limit = "configured" => stream.stage = "authenticated"
    /\ \A i \in 1..Len(stream.up) :
          /\ stream.up[i].kind = "auth" => stream.stage = "negotiated"
          /\ stream.up[i].kind \in {"request", "session", "ping"}
                => stream.stage = "authenticated"
                   /\ stream.limit = "configured"

(* A fatal error ends the connection it was read on (client.rs:561-571,    *)
(* and through the hook 655-668): that connection is never the one held    *)
(* as connected, by a request that failed with it or by an attempt whose   *)
(* hook met it, and nothing but the farewell is sent over it any more.     *)
FatalEndsConnection ==
    stream.told => ~connected /\ InFlight \subseteq {QuitFrame}

(* Shutdown is final: once the watch says so it never says anything else,  *)
(* and the task neither connects nor writes another frame.                 *)
ShutdownIsFinal ==
    [][status.state = "Shutdown" =>
          /\ status' = status
          /\ ~connected'
          /\ pc' \in {"select", "done"}
          /\ stream' = NoStream]_vars

-----------------------------------------------------------------------------
(* The abstract specification.                                             *)

Lifecycle == INSTANCE ConnectionLifecycle
                WITH status <- status, config <- config

(* The status watch and the configuration behind it only change the way    *)
(* ConnectionLifecycle allows: InvalidCredentials is left under Latch by   *)
(* configure or shutdown alone, a new configuration passes through         *)
(* Disconnected before Connected, and capabilities never change while      *)
(* Connected.                                                              *)
ImplementsLifecycle == Lifecycle!Spec

-----------------------------------------------------------------------------
(* Liveness.  tokio's select! picks among ready branches at random, so     *)
(* neither a stream of commands nor the ticker starves the other (SF on    *)
(* both); every await inside a handler is bounded by io_timeout or         *)
(* request_timeout (WF on the handler, SF on the end of the hook, which    *)
(* may loop over exchanges); the channel admits its senders in order (SF   *)
(* on Enqueue); and the server answers or loses a frame it can read.       *)
Fairness ==
    /\ SF_vars(HandleCommand)
    /\ SF_vars(HandleTick)
    /\ WF_vars(HandlerContinues)
    /\ SF_vars(HookEnds)
    /\ WF_vars(ServerStep)
    /\ \A c \in Callers :
          /\ SF_vars(Enqueue(c) /\ UNCHANGED <<connectionVars, taskVars>>)
          /\ WF_vars((SendToClosed(c) \/ ShutdownTimesOut(c))
                        /\ UNCHANGED <<connectionVars, taskVars>>)

FairSpec == Spec /\ Fairness

(* Every call returns: no request, configure or shutdown waits forever,    *)
(* whatever the server, the hook and the other callers do.  That includes  *)
(* the calls of a hook that waits for the client whose task it runs on:    *)
(* the documentation says they deadlock it (client.rs:215-217), but the    *)
(* timeout around the hook (client.rs:655) ends the wait.                  *)
EveryCallReturns ==
    \A c \in Callers :
        Pending(c) ~> calls[c].pc \in {"idle", "gone"}

(* A shutdown that reached the channel takes effect, and so does dropping  *)
(* the last handle: the watch ends in Shutdown.                            *)
ShutdownPublished ==
    (accepted.shutdown \/ NoSenders) ~> status.state = "Shutdown"

(* Once faults stop and the hook returns Ok, a client that has good        *)
(* credentials and is not shut down ends up connected and stays so, unless *)
(* the server has rejected these very credentials under Latch: a rejection *)
(* from before the last configure does not hold it back.                   *)
StaysConnected ==
    <>[](\/ status.state \in {"Connected", "Shutdown"}
         \/ config \notin GoodConfigs
         \/ rejections > 0 /\ Policy = "Latch")

-----------------------------------------------------------------------------
(* What the documentation says and the code does not do.                   *)

(* "winds down (announcing the disconnect, publishing Shutdown) once it    *)
(* reaches the shutdown command" (client.rs:439-443): calling shutdown     *)
(* ends the client.                                                        *)
ShutdownTakesEffect ==
    \A c \in Callers : calls[c].op = "shutdown" ~> status.state = "Shutdown"

(* "Configured but not currently connected; the client keeps retrying"     *)
(* (client.rs:50): while the watch says Disconnected there is a task that  *)
(* retries.                                                                *)
DisconnectedKeepsRetrying == status.state = "Disconnected" => pc # "done"
=============================================================================
