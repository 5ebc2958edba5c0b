---------------------------- MODULE ClientHandle ----------------------------
(***************************************************************************)
(* The BloopClient handle (client.rs): configure, the requests, shutdown,  *)
(* and the bounded command channel that carries them to the task.          *)
(*                                                                         *)
(* Each caller owns one clone of the handle and makes one call at a time.  *)
(* A call is `sending` while it waits for room in the channel and          *)
(* `awaiting` while it waits on its oneshot response.  Dropping the future *)
(* of a call at either point is Cancel.  The clone the on-connect hook may *)
(* have captured is used by the hook alone.                                *)
(***************************************************************************)
EXTENDS Connection

CONSTANTS
    QueueCapacity,  \* bound of the command channel (16 in build())
    MaxCalls,       \* bound: calls made through one handle
    CallersCancel,  \* whether callers may drop the future of a call
    HookHandle      \* the clone captured by the on-connect hook, or NoCaller

ASSUME HandleAssumption ==
    /\ QueueCapacity \in Nat \ {0}
    /\ MaxCalls \in Nat
    /\ CallersCancel \in BOOLEAN
    /\ HookHandle \in Callers \cup {NoCaller}

VARIABLES
    queue,    \* the command channel, oldest command first
    closed,   \* the task has dropped the receiver
    calls,    \* per caller: its handle and its current or last call
    accepted  \* history: last configuration and any shutdown in the channel

handleVars == <<queue, closed, calls, accepted>>

-----------------------------------------------------------------------------

Ops == {"request", "configure", "shutdown"}

(* `want` and `late` are history: the configuration the channel accepted   *)
(* last ahead of the command, and whether it accepted a shutdown.          *)
Command == [op : Ops, from : Callers, n : Nat, config : MaybeConfig,
            want : MaybeConfig, late : BOOLEAN]

(* How a call returned.  For a request that was exchanged, `re` is the     *)
(* frame its reply answers and `via` the credentials of the connection.    *)
Answer == [kind : {"none", "ok", "error", "bad", "disconnected", "shutdown"},
           re : Frame, via : MaybeConfig, want : MaybeConfig,
           late : BOOLEAN]

NoAnswer == [kind |-> "none", re |-> NoFrame, via |-> NoConfig,
             want |-> NoConfig, late |-> FALSE]

Call ==
    {call \in [pc : {"idle", "sending", "awaiting", "gone"},
               op : Ops \cup {"none"}, n : Nat, config : MaybeConfig,
               answer : Answer] :
        call.pc \in {"sending", "awaiting"} => call.op # "none"}

NewHandle == [pc |-> "idle", op |-> "none", n |-> 0, config |-> NoConfig,
              answer |-> NoAnswer]

HandleInit(config) ==
    /\ queue = <<>>
    /\ closed = FALSE
    /\ calls = [c \in Callers |-> NewHandle]
    /\ accepted = [config |-> config, shutdown |-> FALSE]

-----------------------------------------------------------------------------

RequestFrame(command) == [kind |-> "request", from |-> command.from,
                          n |-> command.n, config |-> NoConfig]

CommandOf(c) == [op |-> calls[c].op, from |-> c, n |-> calls[c].n,
                 config |-> calls[c].config, want |-> accepted.config,
                 late |-> accepted.shutdown]

(* shutdown(self) consumes the handle however it returns.                  *)
Returned(call, answer) ==
    [call EXCEPT !.pc = IF call.op = "shutdown" THEN "gone" ELSE "idle",
                 !.answer = answer]

Bare(kind, late) == [NoAnswer EXCEPT !.kind = kind, !.late = late]

(* response.send(...): lost when the caller no longer waits for it.        *)
Waits(command) == /\ calls[command.from].pc = "awaiting"
                  /\ calls[command.from].n = command.n

Respond(command, answer) ==
    calls' = IF Waits(command)
             THEN [calls EXCEPT ![command.from] = Returned(@, answer)]
             ELSE calls

(* The receiver is dropped with everything queued: the oneshot senders go  *)
(* with it, and every waiting call fails with RequestError::Shutdown.      *)
CloseChannel ==
    /\ closed' = TRUE
    /\ queue' = <<>>
    /\ calls' = [c \in Callers |->
                    IF calls[c].pc = "awaiting"
                    THEN Returned(calls[c], Bare("shutdown", accepted.shutdown))
                    ELSE calls[c]]

Pending(c) == calls[c].pc \in {"sending", "awaiting"}

NoSenders == \A c \in Callers : calls[c].pc = "gone"

-----------------------------------------------------------------------------
(* Steps of a caller.                                                      *)

(* Mutant: one command too many.                                           *)
HasRoomForOneMore == Len(queue) <= QueueCapacity

HasRoom == Len(queue) < QueueCapacity

Begin(c, op, config) ==
    /\ calls[c].pc = "idle"
    /\ calls[c].n < MaxCalls
    /\ calls' = [calls EXCEPT ![c] =
                    [pc |-> "sending", op |-> op, n |-> @.n + 1,
                     config |-> config, answer |-> NoAnswer]]
    /\ UNCHANGED <<queue, closed, accepted>>

SendRequest(c) == Begin(c, "request", NoConfig)

Configure(c) == \E config \in MaybeConfig : Begin(c, "configure", config)

Shutdown(c) == Begin(c, "shutdown", NoConfig)

(* The channel has room.  configure() returns here; the others go on to    *)
(* wait for their response.                                                *)
Enqueue(c) ==
    /\ calls[c].pc = "sending"
    /\ ~closed
    /\ HasRoom
    /\ queue' = Append(queue, CommandOf(c))
    /\ calls' = [calls EXCEPT ![c] =
                    IF @.op = "configure"
                    THEN Returned(@, Bare("ok", accepted.shutdown))
                    ELSE [@ EXCEPT !.pc = "awaiting"]]
    /\ accepted' =
          [config |-> IF calls[c].op = "configure" THEN calls[c].config
                                                   ELSE accepted.config,
           shutdown |-> accepted.shutdown \/ calls[c].op = "shutdown"]
    /\ UNCHANGED closed

SendToClosed(c) ==
    /\ calls[c].pc = "sending"
    /\ closed
    /\ calls' = [calls EXCEPT ![c] =
                    Returned(@, Bare("shutdown", accepted.shutdown))]
    /\ UNCHANGED <<queue, closed, accepted>>

(* The channel stayed full: for request_timeout (send_timeout), or for the *)
(* five seconds of shutdown().  configure() has no deadline.               *)
SendTimesOut(c) ==
    /\ calls[c].pc = "sending"
    /\ calls[c].op # "configure"
    /\ ~closed
    /\ ~HasRoom
    /\ calls' = [calls EXCEPT ![c] =
                    Returned(@, Bare("disconnected", FALSE))]
    /\ UNCHANGED <<queue, closed, accepted>>

(* The five seconds of shutdown() are over while it awaits its response.   *)
ShutdownTimesOut(c) ==
    /\ calls[c].pc = "awaiting"
    /\ calls[c].op = "shutdown"
    /\ calls' = [calls EXCEPT ![c] = Returned(@, NoAnswer)]
    /\ UNCHANGED <<queue, closed, accepted>>

(* The caller drops the future.  A command already sent stays sent.        *)
Cancel(c) ==
    /\ CallersCancel
    /\ calls[c].pc \in {"sending", "awaiting"}
    /\ calls' = [calls EXCEPT ![c] = Returned(@, NoAnswer)]
    /\ UNCHANGED <<queue, closed, accepted>>

(* The task owns the hook and what the hook has captured.                  *)
DropHandle(c) ==
    /\ calls[c].pc = "idle"
    /\ c # HookHandle \/ closed
    /\ calls' = [calls EXCEPT ![c].pc = "gone"]
    /\ UNCHANGED <<queue, closed, accepted>>

HandleNext(c) ==
    \/ c # HookHandle /\ (SendRequest(c) \/ Configure(c) \/ Shutdown(c))
    \/ Enqueue(c)
    \/ SendToClosed(c)
    \/ SendTimesOut(c)
    \/ ShutdownTimesOut(c)
    \/ Cancel(c)
    \/ DropHandle(c)
=============================================================================
