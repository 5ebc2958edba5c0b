--------------------------- MODULE ExchangeProofs ---------------------------
(***************************************************************************)
(* Exchanges on the connection are serialized and a reply reaches the call *)
(* it answers; a request is served under the configuration, and refused    *)
(* after the shutdown, that went through the command channel ahead of it.  *)
(***************************************************************************)
EXTENDS LifecycleProofs

USE DEF settings

-----------------------------------------------------------------------------
(* What a step can do to the answer of a call.                             *)

AnswerKept(c) ==
    /\ calls'[c].op = calls[c].op
    /\ calls'[c].n = calls[c].n
    /\ calls'[c].answer = calls[c].answer

AnswerByHandle(c) ==
    \/ calls'[c].op = "configure"
    \/ /\ calls'[c].answer.kind \in {"none", "disconnected"}
       /\ ~calls'[c].answer.late
    \/ calls'[c].answer.kind = "shutdown"

AnswerByTask(c) ==
    LET m == IF pc = "select" THEN Head(queue) ELSE current
    IN  /\ \/ pc = "select" /\ queue # <<>> /\ m.op = "request"
           \/ pc = "request"
        /\ m.from = c /\ calls'[c].n = m.n
        /\ \/ pc = "select" /\ calls'[c].answer = Refused(m, Refusal)
           \/ pc = "request" /\ calls'[c].answer = Refused(m, "disconnected")
           \/ /\ pc = "request" /\ ReplyArrived
              /\ calls'[c].answer = Answered(m, Head(stream.down))

(* A step leaves the answer of a call alone, or is one of the ways in      *)
(* which calls begin and return.                                           *)
LEMMA AnswersGiven ==
    ASSUME TypeInv, [Next]_vars, NEW c \in Callers
    PROVE  AnswerKept(c) \/ AnswerByHandle(c) \/ AnswerByTask(c)
<1>1. calls \in [Callers -> Call] /\ calls[c] \in Call
  BY DEF TypeInv, TypeOK
<1>2. CASE UNCHANGED calls
  BY <1>2 DEF AnswerKept
<1>3. /\ \A l : Bare("shutdown", l).kind = "shutdown"
      /\ Bare("disconnected", FALSE).kind = "disconnected"
      /\ Bare("disconnected", FALSE).late = FALSE
  BY DEF Bare, NoAnswer
<1>4. NoAnswer.kind = "none" /\ NoAnswer.late = FALSE
  BY DEF NoAnswer
<1>5. \A a : /\ Returned(calls[c], a).answer = a
             /\ Returned(calls[c], a).n = calls[c].n
             /\ Returned(calls[c], a).op = calls[c].op
  BY <1>1 DEF Returned, Call
<1>6. CASE \E d \in Callers : CallerStep(d)
  <2>1. PICK d \in Callers : HandleNext(d)
    BY <1>6 DEF CallerStep
  <2>2. CASE d # c
    BY <1>1, <2>1, <2>2 DEF HandleNext, SendRequest, Configure, Shutdown, Begin,
         Enqueue, SendToClosed, SendTimesOut, ShutdownTimesOut, Cancel,
         DropHandle, AnswerKept
  <2>3. CASE d = c
    <3>1. CASE SendRequest(c) \/ Configure(c) \/ Shutdown(c)
      BY <1>1, <1>4, <3>1 DEF SendRequest, Configure, Shutdown, Begin,
                              AnswerByHandle
    <3>2. CASE Enqueue(c)
      BY <1>1, <1>5, <3>2 DEF Enqueue, AnswerKept, AnswerByHandle, Call
    <3>3. CASE SendToClosed(c)
      BY <1>1, <1>3, <1>5, <3>3 DEF SendToClosed, AnswerByHandle
    <3>4. CASE SendTimesOut(c)
      BY <1>1, <1>3, <1>5, <3>4 DEF SendTimesOut, AnswerByHandle
    <3>5. CASE ShutdownTimesOut(c) \/ Cancel(c)
      BY <1>1, <1>4, <1>5, <3>5 DEF ShutdownTimesOut, Cancel, AnswerByHandle
    <3>6. CASE DropHandle(c)
      BY <1>1, <3>6 DEF DropHandle, AnswerKept, Call
    <3>7. QED
      BY <2>1, <2>3, <3>1, <3>2, <3>3, <3>5, <3>6, <3>4 DEF HandleNext
  <2>4. QED
    BY <2>2, <2>3
<1>7. ASSUME CloseChannel PROVE AnswerKept(c) \/ AnswerByHandle(c)
  BY <1>1, <1>3, <1>5, <1>7 DEF CloseChannel, AnswerKept, AnswerByHandle
<1>8. ASSUME NEW m \in Command, NEW a, Respond(m, a)
      PROVE  \/ AnswerKept(c)
             \/ m.from = c /\ calls'[c].n = m.n /\ calls'[c].answer = a
  BY <1>1, <1>5, <1>8 DEF Respond, Waits, AnswerKept, Command
<1>9. CASE HandleRequest
  BY <1>2, <1>8, <1>9, TaskFacts DEF HandleRequest, Receive, AnswerByTask
<1>10. CASE RequestAnswered \/ RequestFails
  <2>1. current \in Command
    BY <1>10 DEF RequestAnswered, RequestFails, TypeInv, CurrentHeld
  <2>2. QED
    BY <1>8, <1>10, <2>1 DEF RequestAnswered, RequestFails, AnswerByTask
<1>11. CASE HandleShutdown \/ ShutdownAfterQuit
  <2>1. UNCHANGED calls \/ \E m \in Command : Respond(m, NoAnswer)
    BY <1>11, TaskFacts
       DEF HandleShutdown, Receive, ShutdownAfterQuit, QuitEnds, ShutDown,
           TypeInv, CurrentHeld
  <2>2. QED
    BY <1>2, <1>4, <1>8, <2>1 DEF AnswerByHandle
<1>12. CASE HandlesGone \/ FinishAfterQuit \/ HookPanics
  BY <1>2, <1>7, <1>12 DEF HandlesGone, FinishAfterQuit, Finish, HookPanics
<1>13. CASE HookUsesHandle
  <2>1. CASE /\ HookHandle # NoCaller
             /\ SendRequest(HookHandle) \/ Configure(HookHandle)
    <3>1. HookHandle \in Callers
      BY <2>1, HandleAssumption
    <3>2. QED
      BY <1>1, <1>4, <2>1, <3>1 DEF SendRequest, Configure, Begin, AnswerKept,
                                    AnswerByHandle
  <2>2. CASE UNCHANGED handleVars
    BY <1>2, <2>2 DEF handleVars
  <2>3. QED
    BY <1>13, <2>1, <2>2 DEF HookUsesHandle
<1>14. CASE HookTimesOut
  <2>1. CASE calls' = [e \in Callers |-> IF e = HookHandle /\ Pending(e)
                                         THEN Returned(calls[e], NoAnswer)
                                         ELSE calls[e]]
    BY <1>1, <1>4, <1>5, <2>1 DEF AnswerKept, AnswerByHandle
  <2>2. QED
    BY <1>2, <1>14, <2>1 DEF HookTimesOut
<1>15. QED
  BY <1>2, <1>6, <1>9, <1>10, <1>11, <1>12, <1>13, <1>14
     DEF Next, TaskNext, HandleCommand, HandleConfigure, HandleTick,
         HandlerContinues, HookEnds, ServerStep, Terminated, vars, handleVars,
         ConfigureAfterQuit, PingEnds, Dial, NegotiateVersion, Authenticate,
         ConnectFails, HookCalls, HookCallAnswered, HookCallFails,
         FailAfterQuit, AttemptContinues, AttemptFails, CredentialsRejected,
         Established, HookReturnsOk, HookReturnsErr

(* Requests are strictly serialized, whatever is lost, delayed, timed out  *)
(* or cancelled (the doc of BloopClient, client.rs:310), unless the hook   *)
(* returns Ok on a connection with an exchange it gave up.                 *)
THEOREM Serialized ==
    ASSUME "tolerate" \notin HookOutcomes
    PROVE  Spec => []StrictlySerialized
(* StrictlySerialized is inductive, unless the hook may return Ok although *)
(* one of its exchanges was given up (the run tolerant_hook).              *)
<1>SerialStep. ASSUME TypeInv, StatusInv, StrictlySerialized, [Next]_vars
               PROVE  StrictlySerialized'
  <2> USE <1>SerialStep
  <2>1. stream \in Stream
    BY DEF TypeInv, TypeOK
  <2>2. /\ \A i \in 1..Len(stream.up) : stream.up[i] \in Awaited
        /\ \A i \in 1..Len(stream.down) : stream.down[i].re \in Awaited
        /\ pc \notin QuitPcs => InTransit(stream) <= 1
    BY DEF StrictlySerialized, InFlight, InTransit
  <2>3. ASSUME \A i \in 1..Len(stream'.up) : stream'.up[i] \in Awaited',
               \A i \in 1..Len(stream'.down) : stream'.down[i].re \in Awaited',
               pc' \notin QuitPcs => InTransit(stream') <= 1
        PROVE  StrictlySerialized'
    BY <2>3 DEF StrictlySerialized, InFlight, InTransit
  <2>4. ASSUME stream'.up = <<>>, stream'.down = <<>> PROVE StrictlySerialized'
    <3>1. InTransit(stream') <= 1
      BY <2>4 DEF InTransit
    <3>2. QED
      BY <2>3, <2>4, <3>1
  <2>5. stream' = NoStream => StrictlySerialized'
    BY <2>4 DEF NoStream
  <2>6. CASE ServerStep
    <3>1. UNCHANGED <<pc, current, config>> /\ ServerNext
      BY <2>6 DEF ServerStep, taskVars
    <3>2. Awaited' = Awaited
      BY <3>1 DEF Awaited
    <3>3. stream.up # <<>> => 1 \in 1..Len(stream.up)
      BY <2>1, EmptySeq DEF Stream
    <3>4. pc' \notin QuitPcs => InTransit(stream') <= 1
      BY <2>1, <2>2, <3>1, ServerMoves
    <3>5. \A i \in 1..Len(stream'.up) : stream'.up[i] \in Awaited'
      BY <2>1, <2>2, <3>1, <3>2, ServerMoves
    <3>6. \A i \in 1..Len(stream'.down) : stream'.down[i].re \in Awaited'
      BY <2>1, <2>2, <3>1, <3>2, <3>3, ServerMoves
    <3>7. QED
      BY <2>3, <3>4, <3>5, <3>6
  <2>7. ASSUME UNCHANGED stream, Awaited \subseteq Awaited',
               pc' \notin QuitPcs => pc \notin QuitPcs
        PROVE  StrictlySerialized'
    BY <2>2, <2>3, <2>7
  <2>8. ASSUME Awaited = {} PROVE stream.up = <<>> /\ stream.down = <<>>
    <3>1. /\ stream.up # <<>> => 1 \in 1..Len(stream.up)
          /\ stream.down # <<>> => 1 \in 1..Len(stream.down)
      BY <2>1, EmptySeq DEF Stream
    <3>2. QED
      BY <2>2, <2>8, <3>1
  <2>9. ASSUME NEW f \in Awaited', stream'.up = <<f>>, stream'.down = <<>>
         PROVE  StrictlySerialized'
    <3>1. InTransit(stream') <= 1
      BY <2>9 DEF InTransit
    <3>2. QED
      BY <2>3, <2>9, <3>1
  <2>10. ASSUME NEW f \in Frame, stream' = Written(stream, f), Awaited = {},
               f \in Awaited'
        PROVE  StrictlySerialized'
    <3>1. stream.up = <<>> /\ stream.down = <<>>
      BY <2>8, <2>10
    <3>2. stream'.up = <<f>> /\ stream'.down = <<>>
      BY <2>1, <2>10, <3>1 DEF Written, Stream
    <3>3. QED
      BY <2>10, <2>9, <3>2
  <2>11. ASSUME ReplyArrived, stream' = Taken(stream), pc \notin QuitPcs
         PROVE  StrictlySerialized'
    BY <2>1, <2>2, <2>4, <2>11, ClientMoves DEF ReplyArrived
  <2>12. /\ pc \in {"select", "connect", "done", "hook", "hook_waits"}
               => Awaited = {}
         /\ pc' = "request" => RequestFrame(current') \in Awaited'
         /\ pc' = "ping" => PingFrame \in Awaited'
         /\ pc' = "negotiate" => HandshakeFrame \in Awaited'
         /\ pc' = "authenticate" => AuthFrame(config') \in Awaited'
         /\ pc' \in {"hook_call", "hook_failed"} => SessionFrame \in Awaited'
         /\ pc' \in QuitPcs => SessionFrame \in Awaited' /\ QuitFrame \in Awaited'
    BY DEF Awaited, QuitPcs
  <2>13. UNCHANGED stream /\ Awaited = {} => StrictlySerialized'
    BY <2>4, <2>8
  <2>14. /\ QuitFrame \in Frame /\ PingFrame \in Frame /\ SessionFrame \in Frame
         /\ \A m \in Command : RequestFrame(m) \in Frame
    <3>1. \A m \in Command : RequestFrame(m) \in Frame
      BY DEF Command, RequestFrame, Frame, FrameKinds, MaybeConfig
    <3>2. QED
      BY <3>1, FrameTypes DEF MaybeConfig
  <2>15. CASE Terminated \/ UNCHANGED vars \/ \E c \in Callers : CallerStep(c)
    <3>1. UNCHANGED <<stream, pc, current, config>>
      BY <2>15 DEF Terminated, CallerStep, vars, connectionVars, taskVars
    <3>2. Awaited' = Awaited
      BY <3>1 DEF Awaited
    <3>3. QED
      BY <2>7, <3>1, <3>2
  <2>16. CASE HandleCommand
    <3>1. TakeAndQuit("quit_configure") \/ TakeAndQuit("quit_shutdown")
            \/ TakeAndQuit("quit_end") => (pc = "select" => StrictlySerialized')
      BY <2>10, <2>12, <2>14 DEF TakeAndQuit, QuitPcs
    <3>2. CASE HandleConfigure
      BY <2>12, <2>13, <3>1, <3>2 DEF HandleConfigure, Receive
    <3>3. CASE HandleRequest
      BY <2>10, <2>12, <2>13, <2>14, <3>3, TaskFacts DEF HandleRequest, Receive
    <3>4. CASE HandleShutdown
      BY <2>12, <2>13, <3>1, <3>4 DEF HandleShutdown, Receive
    <3>5. CASE HandlesGone
      BY <2>12, <2>13, <3>1, <3>5 DEF HandlesGone
    <3>6. QED
      BY <2>16, <3>2, <3>3, <3>4, <3>5 DEF HandleCommand
  <2>17. CASE HandleTick
    BY <2>10, <2>12, <2>13, <2>14, <2>17 DEF HandleTick
  <2>18. CASE HandlerContinues
    <3>1. CASE \/ ConfigureAfterQuit \/ ShutdownAfterQuit \/ FinishAfterQuit
               \/ FailAfterQuit \/ ConnectFails
      BY <2>5, <3>1 DEF ConfigureAfterQuit, ShutdownAfterQuit, FinishAfterQuit,
                        FailAfterQuit, ConnectFails, QuitEnds, AttemptFails,
                        AttemptFailed
    <3>2. CASE RequestAnswered \/ RequestFails \/ PingEnds
      BY <2>5, <2>11, <3>2 DEF RequestAnswered, RequestFails, PingEnds,
                               DropConnection, QuitPcs
    <3>3. CASE Dial
      <4>1. Dialled(config).up = <<HandshakeFrame>> /\ Dialled(config).down = <<>>
        BY DEF Dialled, NoStream
      <4>2. QED
        BY <2>12, <2>9, <3>3, <4>1 DEF Dial, AttemptContinues
    <3>4. CASE NegotiateVersion
      <4>1. CASE AttemptFails
        BY <2>5, <4>1 DEF AttemptFails, AttemptFailed
      <4>2. CASE /\ stream' = Negotiated(stream, Head(stream.down))
                 /\ AttemptContinues("authenticate")
        <5>1. stream.up = <<>> /\ Taken(stream).down = <<>>
          BY <2>1, <2>2, <3>4, ClientMoves
             DEF NegotiateVersion, ReplyArrived, QuitPcs
        <5>2. Taken(stream) \in Stream
          BY <2>1, <3>4, ExchangeTypes DEF NegotiateVersion, ReplyArrived
        <5>3. stream.config = config /\ config' = config
          BY <3>4, <4>2 DEF NegotiateVersion, AttemptContinues, StatusInv,
                            WhereInv, AttemptPcs, ConnectPcs
        <5> DEFINE t == [Taken(stream) EXCEPT
                            !.capabilities = Head(stream.down).capabilities]
        <5>4. stream'.up = <<AuthFrame(config')>> /\ stream'.down = <<>>
          <6>1. stream' = Written(t, AuthFrame(config'))
            BY <4>2, <5>3 DEF Negotiated
          <6>2. /\ t.up = <<>> /\ t.down = <<>>
                /\ DOMAIN t = DOMAIN Taken(stream)
            BY <2>1, <5>1, <5>2, ClientMoves DEF Stream
          <6>3. "up" \in DOMAIN t /\ "down" \in DOMAIN t
            BY <5>2, <6>2 DEF Stream
          <6> HIDE DEF t
          <6>4. QED
            BY <6>1, <6>2, <6>3 DEF Written
        <5>5. QED
          BY <2>12, <2>9, <4>2, <5>4 DEF AttemptContinues
      <4>3. QED
        BY <3>4, <4>1, <4>2 DEF NegotiateVersion
    <3>5. CASE Authenticate
      <4>1. CASE AttemptFails \/ CredentialsRejected
        BY <2>5, <4>1 DEF AttemptFails, AttemptFailed, CredentialsRejected
      <4>2. CASE stream' = Authenticated(stream)
        <5>1. stream.up = <<>> /\ Taken(stream).down = <<>>
          BY <2>1, <2>2, <3>5, ClientMoves DEF Authenticate, ReplyArrived, QuitPcs
        <5>2. Taken(stream) \in Stream
          BY <2>1, <3>5, ExchangeTypes DEF Authenticate, ReplyArrived
        <5>3. stream'.up = <<>> /\ stream'.down = <<>>
          BY <2>1, <4>2, <5>1, <5>2, ClientMoves DEF Authenticated, Stream
        <5>4. QED
          BY <2>4, <5>3
      <4>3. QED
        BY <3>5, <4>1, <4>2 DEF Authenticate, Established
    <3>6. CASE HookCalls
      BY <2>10, <2>12, <2>14, <3>6 DEF HookCalls, AttemptContinues
    <3>7. CASE HookCallAnswered
      BY <2>11, <3>7 DEF HookCallAnswered, QuitPcs
    <3>8. CASE HookCallFails
      <4>1. Awaited' = Awaited
        BY <3>8 DEF HookCallFails, AttemptContinues, Awaited
      <4>2. QED
        BY <2>7, <3>8, <4>1 DEF HookCallFails, QuitPcs
    <3>9. CASE HookUsesHandle
      <4>1. Awaited = {}
        BY <2>12, <3>9 DEF HookUsesHandle
      <4>2. QED
        BY <2>13, <3>9, <4>1 DEF HookUsesHandle
    <3>10. QED
      BY <2>18, <3>1, <3>2, <3>3, <3>4, <3>5, <3>6, <3>7, <3>8, <3>9
         DEF HandlerContinues
  <2>19. CASE HookEnds
    <3>1. CASE HookReturnsOk
      BY <2>12, <2>13, <3>1 DEF HookReturnsOk, Established
    <3>2. CASE HookReturnsErr
      <4>1. /\ stream' = Written(stream, QuitFrame) /\ pc' = "quit_hook"
            /\ Awaited \subseteq {SessionFrame}
        BY <3>2 DEF HookReturnsErr, AttemptContinues, Awaited, QuitPcs
      <4>2. Awaited' = {SessionFrame, QuitFrame} /\ QuitFrame \in Frame
        BY <2>14, <4>1 DEF Awaited, QuitPcs
      <4>3. \A i \in 1..Len(stream'.up) : stream'.up[i] \in Awaited'
        <5> SUFFICES ASSUME NEW i \in 1..Len(stream'.up)
                     PROVE  stream'.up[i] \in Awaited'
          OBVIOUS
        <5>1. \/ stream'.up[i] = QuitFrame
              \/ i \in 1..Len(stream.up) /\ stream'.up[i] = stream.up[i]
          BY <2>1, <4>1, <4>2, ClientMoves
        <5>2. QED
          BY <2>2, <4>1, <4>2, <5>1
      <4>4. \A i \in 1..Len(stream'.down) : stream'.down[i].re \in Awaited'
        <5>1. stream'.down = stream.down
          BY <2>1, <4>1, <4>2, ClientMoves
        <5>2. QED
          BY <2>2, <4>1, <4>2, <5>1
      <4>5. QED
        BY <2>3, <4>1, <4>3, <4>4 DEF QuitPcs
    <3>3. CASE HookTimesOut \/ HookPanics
      BY SMTT(30), <2>5, <3>3 DEF HookTimesOut, HookPanics, AttemptFailed
    <3>4. QED
      BY <2>19, <3>1, <3>2, <3>3 DEF HookEnds
  <2>20. QED
    BY <2>6, <2>15, <2>16, <2>17, <2>18, <2>19 DEF Next, TaskNext

<1>1. Init => StrictlySerialized
  <2> SUFFICES ASSUME Init PROVE StrictlySerialized
    OBVIOUS
  <2>1. stream.up = <<>> /\ stream.down = <<>>
    BY DEF Init, NoStream
  <2>2. InFlight = {}
    BY <2>1 DEF InFlight
  <2>3. Len(stream.up) + Len(stream.down) <= 1
    BY <2>1
  <2>4. QED
    BY <2>2, <2>3 DEF StrictlySerialized
<1>2. QED
  BY <1>1, StatusAlways, <1>SerialStep, PTL DEF Spec

(* A reply is delivered to the call whose request it answers: no call ever *)
(* returns with the answer to another (client.rs:513-541), under the same  *)
(* assumption on the hook.                                                 *)
THEOREM RepliesReachTheirCall ==
    ASSUME "tolerate" \notin HookOutcomes
    PROVE  Spec => []NoCrossedReplies
<1>1. Init => NoCrossedReplies
  <2> SUFFICES ASSUME Init PROVE NoCrossedReplies
    OBVIOUS
  <2>1. \A c \in Callers : calls[c] = NewHandle
    BY DEF Init, HandleInit
  <2>2. NewHandle.op = "none"
    BY DEF NewHandle
  <2>3. QED
    BY <2>1, <2>2 DEF NoCrossedReplies
<1>2. ASSUME TypeInv, StrictlySerialized, NoCrossedReplies, [Next]_vars
      PROVE  NoCrossedReplies'
  <2> SUFFICES ASSUME NEW c \in Callers, calls'[c].op = "request",
                      calls'[c].answer.kind \in {"ok", "error", "bad"}
               PROVE  calls'[c].answer.re
                        = RequestFrame([from |-> c, n |-> calls'[c].n])
    BY DEF NoCrossedReplies
  <2>1. CASE AnswerKept(c)
    BY <1>2, <2>1 DEF AnswerKept, NoCrossedReplies
  <2>2. CASE AnswerByHandle(c)
    BY <2>2 DEF AnswerByHandle
  <2>3. CASE AnswerByTask(c)
    <3>1. \A m, k : Refused(m, k).kind = k
      BY DEF Refused, NoAnswer
    <3>2. /\ pc = "request" /\ ReplyArrived
          /\ current.from = c /\ current.n = calls'[c].n
          /\ calls'[c].answer = Answered(current, Head(stream.down))
      <4>1. Refusal \in {"shutdown", "disconnected"}
        BY DEF Refusal
      <4>2. QED
        BY <2>3, <3>1, <4>1 DEF AnswerByTask
    <3>3. stream.down[1].re \in InFlight /\ Head(stream.down) = stream.down[1]
      <4>1. stream.down \in Seq(Reply) /\ stream.down # <<>>
        BY <1>2, <3>2 DEF ReplyArrived, TypeInv, TypeOK, Stream
      <4>2. 1 \in 1..Len(stream.down) /\ Head(stream.down) = stream.down[1]
        BY <4>1, EmptySeq, HeadTailProperties
      <4>3. QED
        BY <4>2 DEF InFlight
    <3>4. Head(stream.down).re = RequestFrame(current)
      <4>1. Awaited = {RequestFrame(current)}
        BY <3>2 DEF Awaited, QuitPcs
      <4>2. stream.down[1].re \in Awaited
        BY <1>2, <3>3 DEF StrictlySerialized
      <4>3. QED
        BY <3>3, <4>1, <4>2
    <3>5. \A m, r : Answered(m, r).re = r.re
      BY DEF Answered
    <3>6. RequestFrame(current) = RequestFrame([from |-> c, n |-> calls'[c].n])
      BY <3>2 DEF RequestFrame
    <3>7. QED
      BY <3>2, <3>4, <3>5, <3>6
  <2>4. QED
    BY <1>2, <2>1, <2>2, <2>3, AnswersGiven
<1>3. Spec => [](TypeInv /\ StrictlySerialized)
  BY StatusAlways, Serialized, PTL
<1>4. QED
  BY <1>1, <1>2, <1>3, PTL DEF Spec

(* A connection on which the server has reported a fatal error is neither  *)
(* kept nor used again, be it a request that was answered so (the branch   *)
(* at client.rs:565-571) or an exchange of the hook, unless the hook hides *)
(* the error.  Until it is dropped, such a connection is in the hands of   *)
(* an attempt that is failing.                                             *)
THEOREM FatalIsTheEnd ==
    ASSUME "tolerate" \notin HookOutcomes
    PROVE  Spec => []FatalEndsConnection
<1> DEFINE Leaving == stream.told =>
                         /\ pc \in {"hook_failed", "quit_hook"}
                         /\ InFlight \subseteq {QuitFrame}
<1>1. Init => Leaving
  BY DEF Init, NoStream
<1>2. ASSUME TypeInv, StatusInv, StrictlySerialized, Leaving, [Next]_vars
      PROVE  Leaving'
  <2> USE <1>2
  <2>1. stream \in Stream /\ stream.told \in BOOLEAN
    BY DEF TypeInv, TypeOK, Stream
  <2>2. /\ NoStream.told = FALSE /\ \A c : Dialled(c).told = FALSE
        /\ \A f : Written(stream, f).told = stream.told
        /\ Taken(stream).told
              = (stream.told \/ Head(stream.down).kind = "fatal")
        /\ Authenticated(stream).told = Taken(stream).told
        /\ \A r : Negotiated(stream, r).told = Taken(stream).told
    BY <2>1 DEF Stream, NoStream, Dialled, Written, Taken, Authenticated,
                Negotiated
  <2>3. stream' = NoStream => Leaving'
    BY <2>2
  <2>4. ASSUME UNCHANGED <<stream, pc>> PROVE Leaving'
    BY <2>4 DEF InFlight
  <2>5. ASSUME pc \notin {"hook_failed", "quit_hook"}, ~stream'.told
        PROVE  Leaving'
    BY <2>5
  <2>6. pc \notin {"hook_failed", "quit_hook"} => ~stream.told
    OBVIOUS
  <2>7. ASSUME pc \notin {"hook_failed", "quit_hook"},
               \/ stream' = stream
               \/ \E f : stream' = Written(stream, f)
        PROVE  Leaving'
    BY <2>2, <2>6, <2>7
  <2>8. CASE Terminated \/ UNCHANGED vars \/ \E c \in Callers : CallerStep(c)
    BY <2>4, <2>8 DEF Terminated, CallerStep, vars, connectionVars, taskVars
  <2>9. CASE ServerStep
    <3>1. UNCHANGED pc /\ ServerNext
      BY <2>9 DEF ServerStep, taskVars
    <3>2. stream'.told = stream.told
      BY <2>1, <3>1 DEF ServerNext, ServerAnswers, ServerIgnores,
                        ServerReadsQuit, ServerHangsUp, Stream
    <3>3. stream.up # <<>> => 1 \in 1..Len(stream.up)
      BY <2>1, EmptySeq DEF Stream
    <3>4. /\ \A i \in 1..Len(stream'.up) : stream'.up[i] \in InFlight
          /\ \A i \in 1..Len(stream'.down) : stream'.down[i].re \in InFlight
      BY <2>1, <3>1, <3>3, ServerMoves DEF InFlight
    <3>5. InFlight' \subseteq InFlight
      BY <3>4 DEF InFlight
    <3>6. QED
      BY <3>1, <3>2, <3>5
  <2>10. CASE HandleCommand \/ HandleTick
    <3>1. pc = "select" /\ (\/ stream' = stream
                            \/ \E f : stream' = Written(stream, f))
      BY <2>10 DEF HandleCommand, HandleConfigure, HandleRequest,
           HandleShutdown, HandlesGone, HandleTick, Receive, TakeAndQuit
    <3>2. QED
      BY <2>7, <3>1
  <2>11. ASSUME ReplyArrived, Head(stream.down).kind # "fatal",
                pc \notin {"hook_failed", "quit_hook"},
                \/ stream' = Taken(stream)
                \/ stream' = Authenticated(stream)
                \/ \E r : stream' = Negotiated(stream, r)
         PROVE  Leaving'
    BY <2>2, <2>5, <2>6, <2>11
  <2>12. \A k : DecodeResponse(k, Head(stream.down)) = "ok"
                  => Head(stream.down).kind # "fatal"
    BY DEF DecodeResponse
  <2>13. CASE HandlerContinues
    <3>1. CASE \/ ConfigureAfterQuit \/ ShutdownAfterQuit \/ FinishAfterQuit
               \/ FailAfterQuit \/ ConnectFails
      BY <2>3, <3>1 DEF ConfigureAfterQuit, ShutdownAfterQuit, FinishAfterQuit,
                        FailAfterQuit, ConnectFails, QuitEnds, AttemptFails,
                        AttemptFailed
    <3>2. CASE RequestAnswered \/ RequestFails
      BY <2>3, <2>11, <3>2 DEF RequestAnswered, RequestFails, DropConnection
    <3>3. CASE PingEnds
      BY <2>3, <2>11, <2>12, <3>3 DEF PingEnds, DropConnection
    <3>4. CASE Dial
      BY <2>2, <2>5, <3>4 DEF Dial
    <3>5. CASE NegotiateVersion
      BY <2>3, <2>11, <2>12, <3>5 DEF NegotiateVersion, AttemptFails,
                                      AttemptFailed
    <3>6. CASE Authenticate
      BY <2>3, <2>11, <2>12, <3>6
         DEF Authenticate, AttemptFails, AttemptFailed, CredentialsRejected,
             Established
    <3>7. CASE HookCalls \/ HookCallFails \/ HookUsesHandle
      BY <2>7, <3>7 DEF HookCalls, HookCallFails, HookUsesHandle
    <3>8. CASE HookCallAnswered
      <4>1. /\ ReplyArrived /\ stream' = Taken(stream) /\ pc = "hook_call"
            /\ Head(stream.down).kind = "fatal" => pc' = "hook_failed"
        BY <3>8 DEF HookCallAnswered, AttemptContinues
      <4>2. InTransit(stream) <= 1
        BY <4>1 DEF StrictlySerialized, InTransit, QuitPcs
      <4>3. stream'.up = <<>> /\ stream'.down = <<>>
        BY <2>1, <4>1, <4>2, ClientMoves DEF ReplyArrived
      <4>4. InFlight' = {}
        BY <4>3 DEF InFlight
      <4>5. QED
        BY <2>11, <4>1, <4>4
    <3>9. QED
      BY <2>13, <3>1, <3>2, <3>3, <3>4, <3>5, <3>6, <3>7, <3>8
         DEF HandlerContinues
  <2>14. CASE HookEnds
    <3>1. CASE HookReturnsOk
      BY <2>7, <3>1 DEF HookReturnsOk, Established
    <3>2. CASE HookReturnsErr
      <4>1. /\ pc' = "quit_hook" /\ stream' = Written(stream, QuitFrame)
            /\ QuitFrame \in Frame
        BY <3>2, FrameTypes DEF HookReturnsErr, AttemptContinues, MaybeConfig
      <4>2. /\ \A i \in 1..Len(stream'.up) :
                  stream'.up[i] = QuitFrame \/ stream'.up[i] \in InFlight
            /\ \A i \in 1..Len(stream'.down) : stream'.down[i].re \in InFlight
        BY <2>1, <4>1, ClientMoves DEF InFlight
      <4>3. InFlight' \subseteq InFlight \cup {QuitFrame}
        BY <4>2 DEF InFlight
      <4>4. QED
        BY <2>2, <4>1, <4>3
    <3>3. CASE HookTimesOut \/ HookPanics
      BY <2>3, <3>3 DEF HookTimesOut, HookPanics, AttemptFailed
    <3>4. QED
      BY <2>14, <3>1, <3>2, <3>3 DEF HookEnds
  <2>15. QED
    BY <2>8, <2>9, <2>10, <2>13, <2>14 DEF Next, TaskNext
<1>3. StatusInv /\ Leaving => FatalEndsConnection
  BY DEF FatalEndsConnection, StatusInv, HeldInv
<1>4. Spec => [](TypeInv /\ StatusInv /\ StrictlySerialized)
  BY StatusAlways, Serialized, PTL
<1>5. QED
  BY <1>1, <1>2, <1>3, <1>4, PTL DEF Spec

-----------------------------------------------------------------------------
(* The command channel.  Each command in it remembers the configuration    *)
(* and the shutdown ahead of it, so that the commands form a chain from    *)
(* what the task has applied to what the channel accepted last.            *)

ConfigAfter(m) == IF m.op = "configure" THEN m.config ELSE m.want
ShutAfter(m) == m.late \/ m.op = "shutdown"

Applied == IF pc = "quit_configure" THEN current.config ELSE config
Stopping == shutdown \/ pc = "quit_shutdown"

ChainInv ==
    /\ \A i \in 1..(Len(queue) - 1) :
          /\ queue[i + 1].want = ConfigAfter(queue[i])
          /\ queue[i + 1].late <=> ShutAfter(queue[i])
    /\ queue # <<>> =>
          /\ accepted.config = ConfigAfter(queue[Len(queue)])
          /\ accepted.shutdown <=> ShutAfter(queue[Len(queue)])
    /\ ~Stopping /\ queue # <<>> => /\ queue[1].want = Applied
                                    /\ ~queue[1].late
    /\ ~Stopping /\ queue = <<>> => /\ accepted.config = Applied
                                    /\ ~accepted.shutdown

ChannelInv ==
    /\ closed <=> pc = "done"
    /\ ~closed => ChainInv
    /\ pc = "request" => current.want = config /\ ~current.late

-----------------------------------------------------------------------------
(* What went through the channel ahead of a request.                       *)

(* ChannelInv is an invariant.                                             *)
LEMMA ChannelAlways == Spec => []ChannelInv
<1>1. Init => ChannelInv
  BY DEF Init, TaskInit, HandleInit, ChannelInv, ChainInv, Applied, Stopping
<1>2. TypeInv /\ StatusInv /\ ChannelInv /\ [Next]_vars => ChannelInv'
  <2> SUFFICES ASSUME TypeInv, StatusInv, ChannelInv, [Next]_vars
               PROVE  ChannelInv'
    OBVIOUS
  <2>1. /\ queue \in Seq(Command) /\ Len(queue) \in Nat
        /\ queue # <<>> => 1 \in 1..Len(queue) /\ Len(queue) \in 1..Len(queue)
    BY EmptySeq DEF TypeInv, TypeOK
  <2>2. ASSUME UNCHANGED <<queue, accepted, closed>>,
               closed' <=> pc' = "done",
               Stopping' \/ (~Stopping /\ Applied' = Applied),
               pc' = "request" => UNCHANGED <<pc, current, config>>
        PROVE  ChannelInv'
    <3>1. ChainInv => ChainInv'
      BY <2>2 DEF ChainInv
    <3>2. QED
      BY <2>2, <3>1 DEF ChannelInv
  <2>3. ASSUME NEW op, Receive(op), UNCHANGED <<accepted, closed>>,
               pc' # "done",
               Stopping' \/ /\ ~Stopping
                            /\ Applied' = ConfigAfter(Head(queue))
                            /\ ~ShutAfter(Head(queue)),
               pc' = "request" => /\ current'.want = config'
                                  /\ ~current'.late
        PROVE  ChannelInv'
    <3>1. /\ queue # <<>> /\ queue' = Tail(queue) /\ pc = "select"
          /\ Head(queue) = queue[1] /\ Len(queue') = Len(queue) - 1
          /\ \A i \in 1..Len(queue') : queue'[i] = queue[i + 1]
      BY <2>1, <2>3, HeadTailProperties DEF Receive
    <3>2. ~closed /\ ChainInv
      BY <3>1 DEF ChannelInv
    <3>3. CASE queue' = <<>>
      <4>1. Len(queue') = 0
        BY <3>3
      <4>2. Len(queue) = 1
        BY <2>1, <3>1, <4>1
      <4>3. ChainInv'
        <5>1. /\ accepted.config = ConfigAfter(Head(queue))
              /\ accepted.shutdown <=> ShutAfter(Head(queue))
          BY <3>1, <3>2, <4>2 DEF ChainInv
        <5>2. \A i \in 1..(Len(queue') - 1) : FALSE
          BY <4>1
        <5>3. QED
          BY <2>3, <3>3, <5>1, <5>2 DEF ChainInv
      <4>4. QED
        BY <2>3, <3>2, <4>3 DEF ChannelInv
    <3>4. CASE queue' # <<>>
      <4>1. queue' \in Seq(Command) /\ Len(queue') \in Nat /\ Len(queue') # 0
        BY <2>1, <3>1, <3>4, EmptySeq
      <4>2. /\ queue'[1] = queue[2] /\ 1 \in 1..(Len(queue) - 1)
            /\ queue'[Len(queue')] = queue[Len(queue)]
            /\ \A i \in 1..(Len(queue') - 1) :
                  /\ i + 1 \in 1..(Len(queue) - 1)
                  /\ queue'[i] = queue[i + 1]
                  /\ queue'[i + 1] = queue[(i + 1) + 1]
        BY <2>1, <3>1, <4>1
      <4>3. ChainInv'
        <5>1. ASSUME NEW i \in 1..(Len(queue') - 1)
              PROVE  /\ queue'[i + 1].want = ConfigAfter(queue'[i])
                     /\ queue'[i + 1].late <=> ShutAfter(queue'[i])
          BY <3>2, <4>2, <5>1 DEF ChainInv
        <5>2. /\ accepted'.config = ConfigAfter(queue'[Len(queue')])
              /\ accepted'.shutdown <=> ShutAfter(queue'[Len(queue')])
          BY <2>3, <3>1, <3>2, <4>2 DEF ChainInv
        <5>3. /\ queue[2].want = ConfigAfter(queue[1])
              /\ queue[2].late <=> ShutAfter(queue[1])
          BY <3>2, <4>2 DEF ChainInv
        <5>4. ~Stopping' => queue'[1].want = Applied' /\ ~queue'[1].late
          BY <2>3, <3>1, <4>2, <5>3
        <5>5. QED
          BY <3>4, <5>1, <5>2, <5>4 DEF ChainInv
      <4>4. QED
        BY <2>3, <3>2, <4>3 DEF ChannelInv
    <3>5. QED
      BY <3>3, <3>4
  <2>4. CASE ServerStep \/ Terminated \/ UNCHANGED vars
    <3>1. UNCHANGED <<queue, accepted, closed, pc, current, config, shutdown>>
      BY <2>4 DEF ServerStep, Terminated, vars, handleVars, taskVars
    <3>2. Stopping' = Stopping /\ Applied' = Applied
      BY <3>1 DEF Stopping, Applied
    <3>3. QED
      BY <2>2, <3>1, <3>2 DEF ChannelInv
  <2>5. ASSUME NEW c \in Callers, CallerStep(c) PROVE ChannelInv'
    <3>1. UNCHANGED <<pc, current, config, shutdown>> /\ HandleNext(c)
      BY <2>5 DEF CallerStep, taskVars
    <3>2. Stopping' = Stopping /\ Applied' = Applied
      BY <3>1 DEF Stopping, Applied
    <3>3. CASE UNCHANGED <<queue, accepted, closed>>
      BY <2>2, <3>1, <3>2, <3>3 DEF ChannelInv
    <3>4. CASE Enqueue(c)
      <4> DEFINE m == CommandOf(c)
      <4>1. /\ ~closed /\ ~closed' /\ ChainInv
            /\ m.want = accepted.config /\ m.late = accepted.shutdown
            /\ accepted'.config = ConfigAfter(m)
            /\ accepted'.shutdown <=> ShutAfter(m)
        BY <3>4 DEF Enqueue, CommandOf, ConfigAfter, ShutAfter, ChannelInv
      <4>2. m \in Command
        BY <3>4 DEF Enqueue, CommandOf, Command, Call, TypeInv, TypeOK
      <4> HIDE DEF m
      <4>3. queue' = Append(queue, m)
        BY <3>4 DEF Enqueue, m
      <4>4. /\ Len(queue') = Len(queue) + 1
            /\ queue'[Len(queue) + 1] = m
            /\ \A i \in 1..Len(queue) : queue'[i] = queue[i]
        BY <2>1, <4>2, <4>3, AppendProperties
      <4>5. queue' # <<>> /\ queue'[Len(queue')] = m
        BY <2>1, <4>4
      <4>6. ASSUME NEW i \in 1..(Len(queue') - 1)
            PROVE  /\ queue'[i + 1].want = ConfigAfter(queue'[i])
                   /\ queue'[i + 1].late <=> ShutAfter(queue'[i])
        <5>1. i \in 1..Len(queue) /\ queue'[i] = queue[i] /\ queue # <<>>
          BY <2>1, <4>4, <4>6
        <5>2. CASE i = Len(queue)
          BY <4>1, <4>4, <5>1, <5>2 DEF ChainInv
        <5>3. CASE i # Len(queue)
          <6>1. i \in 1..(Len(queue) - 1) /\ i + 1 \in 1..Len(queue)
            BY <2>1, <5>1, <5>3
          <6>2. QED
            BY <4>1, <4>4, <5>1, <6>1 DEF ChainInv
        <5>4. QED
          BY <5>2, <5>3
      <4>7. ~Stopping => queue'[1].want = Applied /\ ~queue'[1].late
        <5>1. CASE queue = <<>>
          <6>1. queue'[1] = m
            BY <4>4, <5>1
          <6>2. ~Stopping => accepted.config = Applied /\ ~accepted.shutdown
            BY <4>1, <5>1 DEF ChainInv
          <6>3. QED
            BY <4>1, <6>1, <6>2
        <5>2. CASE queue # <<>>
          BY <2>1, <4>1, <4>4, <5>2 DEF ChainInv
        <5>3. QED
          BY <5>1, <5>2
      <4>8. ChainInv'
        BY <3>2, <4>1, <4>5, <4>6, <4>7 DEF ChainInv
      <4>9. QED
        BY <3>1, <4>1, <4>8 DEF ChannelInv
    <3>5. QED
      BY <3>1, <3>3, <3>4 DEF HandleNext, SendRequest, Configure, Shutdown, Begin,
           SendToClosed, SendTimesOut, ShutdownTimesOut, Cancel, DropHandle
  <2>6. ASSUME closed', pc' = "done" PROVE ChannelInv'
    BY <2>6 DEF ChannelInv
  <2>7. CASE HandleCommand
    <3>1. ASSUME NEW op, Receive(op), ~shutdown
          PROVE  /\ ~Stopping /\ Head(queue).op = op
                 /\ Head(queue).want = config /\ ~Head(queue).late
      <4>1. pc = "select" /\ queue # <<>> /\ Head(queue).op = op
        BY <3>1 DEF Receive
      <4>2. Head(queue) = queue[1]
        BY <2>1, <4>1, HeadTailProperties
      <4>3. ChainInv
        BY <4>1 DEF ChannelInv
      <4>4. ~Stopping /\ Applied = config
        BY <3>1, <4>1 DEF Stopping, Applied
      <4>5. QED
        BY <4>1, <4>2, <4>3, <4>4 DEF ChainInv
    <3>2. CASE HandleConfigure
      <4>1. Receive("configure") /\ UNCHANGED <<closed, accepted>>
        BY <3>2 DEF HandleConfigure
      <4>2. CASE shutdown
        <5>1. pc' = "select" /\ shutdown'
          BY <3>2, <4>2 DEF HandleConfigure, Receive, taskVars
        <5>2. QED
          BY <2>3, <4>1, <5>1 DEF Stopping
      <4>3. CASE ~shutdown
        <5>1. /\ ~Stopping /\ ~ShutAfter(Head(queue))
              /\ ConfigAfter(Head(queue)) = Head(queue).config
          BY <3>1, <4>1, <4>3 DEF ConfigAfter, ShutAfter
        <5>2. \/ pc' = "select" /\ config' = Head(queue).config
              \/ pc' = "quit_configure" /\ current' = Head(queue)
          BY <3>2, <4>3 DEF HandleConfigure, Apply, TakeAndQuit
        <5>3. Applied' = Head(queue).config /\ pc' \notin {"done", "request"}
          BY <5>2 DEF Applied
        <5>4. QED
          BY <2>3, <4>1, <5>1, <5>3
      <4>4. QED
        BY <4>2, <4>3
    <3>3. CASE HandleRequest
      <4>1. Receive("request") /\ UNCHANGED <<closed, accepted>>
        BY <3>3 DEF HandleRequest
      <4>2. CASE shutdown
        <5>1. pc' = "select" /\ shutdown'
          BY <3>3, <4>2 DEF HandleRequest, Receive, taskVars
        <5>2. QED
          BY <2>3, <4>1, <5>1 DEF Stopping
      <4>3. CASE ~shutdown
        <5>1. /\ ~Stopping /\ ~ShutAfter(Head(queue))
              /\ ConfigAfter(Head(queue)) = config
              /\ Head(queue).want = config /\ ~Head(queue).late
          BY <3>1, <4>1, <4>3 DEF ConfigAfter, ShutAfter
        <5>2. /\ config' = config
              /\ pc' = "select" \/ (pc' = "request" /\ current' = Head(queue))
          BY <3>3, <4>3 DEF HandleRequest, Receive, taskVars
        <5>3. Applied' = config /\ pc' # "done"
          BY <5>2 DEF Applied
        <5>4. pc' = "request" => current'.want = config' /\ ~current'.late
          BY <5>1, <5>2
        <5>5. QED
          BY <2>3, <4>1, <5>1, <5>3, <5>4
      <4>4. QED
        BY <4>2, <4>3
    <3>4. CASE HandleShutdown
      BY <2>3, <3>4 DEF HandleShutdown, ShutDown, TakeAndQuit, Stopping
    <3>5. CASE HandlesGone
      <4>1. CASE connected
        <5>1. /\ pc = "select" /\ pc' = "quit_end"
              /\ UNCHANGED <<queue, closed, accepted, current, config, shutdown>>
          BY <3>5, <4>1 DEF HandlesGone, TakeAndQuit
        <5>2. Stopping' = Stopping /\ Applied' = Applied
          BY <5>1 DEF Stopping, Applied
        <5>3. QED
          BY <2>2, <5>1, <5>2 DEF ChannelInv
      <4>2. CASE ~connected
        BY <2>6, <3>5, <4>2 DEF HandlesGone, Finish, CloseChannel
      <4>3. QED
        BY <4>1, <4>2
    <3>6. QED
      BY <2>7, <3>2, <3>3, <3>4, <3>5 DEF HandleCommand
  <2>8. CASE HandleTick
    BY <2>2, <2>8 DEF HandleTick, handleVars, ChannelInv, Applied, Stopping
  <2>9. ASSUME UNCHANGED <<queue, closed, accepted, config, shutdown>>,
               pc \notin {"done", "quit_configure", "quit_shutdown"},
               pc' \notin {"done", "quit_configure", "quit_shutdown", "request"}
        PROVE  ChannelInv'
    BY <2>2, <2>9 DEF ChannelInv, Applied, Stopping
  <2>10. CASE HandlerContinues
    <3> USE DEF handleVars
    <3>1. CASE ConfigureAfterQuit
      BY <2>2, <3>1 DEF ConfigureAfterQuit, QuitEnds, Apply, handleVars,
                        ChannelInv, Applied, Stopping
    <3>2. CASE ShutdownAfterQuit
      BY <2>2, <3>2 DEF ShutdownAfterQuit, QuitEnds, ShutDown, ChannelInv,
                        Applied, Stopping
    <3>3. CASE FinishAfterQuit
      BY <2>6, <3>3 DEF FinishAfterQuit, Finish, CloseChannel
    <3>4. CASE RequestAnswered \/ RequestFails
      <4>1. /\ pc = "request" /\ pc' = "select"
            /\ UNCHANGED <<config, shutdown, queue, closed, accepted>>
        BY <3>4 DEF RequestAnswered, RequestFails, RequestDone
      <4>2. QED
        BY <2>2, <4>1 DEF ChannelInv, Applied, Stopping
    <3>5. CASE \/ PingEnds \/ FailAfterQuit \/ HookCalls \/ HookCallAnswered
               \/ HookCallFails \/ HookUsesHandle
      BY <2>9, <3>5
         DEF PingEnds, FailAfterQuit, QuitEnds, HookCalls, HookCallAnswered,
             HookCallFails, HookUsesHandle, SendRequest, Configure, Begin,
             AttemptContinues, AttemptFails, AttemptFailed, AttemptEnds
    <3>6. CASE Dial \/ ConnectFails
      BY <2>9, <3>6 DEF Dial, ConnectFails, AttemptContinues, AttemptFails,
           AttemptFailed, AttemptEnds
    <3>7. CASE NegotiateVersion
      BY <2>9, <3>7 DEF NegotiateVersion, AttemptContinues, AttemptFails,
           AttemptFailed, AttemptEnds
    <3>8. CASE Authenticate
      BY <2>9, <3>8 DEF Authenticate, AttemptContinues, AttemptFails,
                        AttemptFailed, CredentialsRejected, Established, AttemptEnds
    <3>9. QED
      BY <2>10, <3>1, <3>2, <3>3, <3>4, <3>5, <3>6, <3>7, <3>8 DEF HandlerContinues
  <2>11. CASE HookEnds
    BY <2>6, <2>9, <2>11
       DEF HookEnds, HookReturnsOk, HookReturnsErr, HookTimesOut, HookPanics,
           CloseChannel, HookPcs, AttemptContinues, AttemptFailed, Established,
           AttemptEnds, handleVars
  <2>12. QED
    BY <2>4, <2>5, <2>7, <2>8, <2>10, <2>11 DEF Next, TaskNext
<1>3. QED
  BY <1>1, <1>2, StatusAlways, PTL DEF Spec

(* A request queued after a configure is answered over a connection that   *)
(* was authenticated with that configuration (client.rs: handle_configure  *)
(* drops the connection before the next command is received).              *)
THEOREM ServedAsConfigured == Spec => []ServedUnderLatestConfig
<1>1. Init => ServedUnderLatestConfig
  <2> SUFFICES ASSUME Init PROVE ServedUnderLatestConfig
    OBVIOUS
  <2>1. \A c \in Callers : calls[c] = NewHandle
    BY DEF Init, HandleInit
  <2>2. NewHandle.op = "none"
    BY DEF NewHandle
  <2>3. QED
    BY <2>1, <2>2 DEF ServedUnderLatestConfig
<1>2. ASSUME TypeInv, StatusInv, ChannelInv, ServedUnderLatestConfig,
             [Next]_vars
      PROVE  ServedUnderLatestConfig'
  <2> SUFFICES ASSUME NEW c \in Callers, calls'[c].op = "request",
                      calls'[c].answer.kind \in {"ok", "error", "bad"}
               PROVE  calls'[c].answer.via = calls'[c].answer.want
    BY DEF ServedUnderLatestConfig
  <2>1. CASE AnswerKept(c)
    BY <1>2, <2>1 DEF AnswerKept, ServedUnderLatestConfig
  <2>2. CASE AnswerByHandle(c)
    BY <2>2 DEF AnswerByHandle
  <2>3. CASE AnswerByTask(c)
    <3>1. \A m, k : Refused(m, k).kind = k
      BY DEF Refused, NoAnswer
    <3>2. /\ pc = "request"
          /\ calls'[c].answer = Answered(current, Head(stream.down))
      <4>1. Refusal \in {"shutdown", "disconnected"}
        BY DEF Refusal
      <4>2. \A m : /\ calls'[c].answer # Refused(m, Refusal)
                   /\ calls'[c].answer # Refused(m, "disconnected")
        BY <3>1, <4>1
      <4>3. QED
        BY <2>3, <4>2 DEF AnswerByTask
    <3>3. stream.config = config /\ current.want = config
      BY <1>2, <3>2 DEF StatusInv, HeldInv, ChannelInv
    <3>4. \A m, r : /\ Answered(m, r).via = stream.config
                     /\ Answered(m, r).want = m.want
      BY DEF Answered
    <3>5. /\ calls'[c].answer.via = stream.config
          /\ calls'[c].answer.want = current.want
      BY <3>2, <3>4, Zenon
    <3>6. QED
      BY <3>3, <3>5
  <2>4. QED
    BY <1>2, <2>1, <2>2, <2>3, AnswersGiven
<1>3. QED
  BY <1>1, <1>2, StatusAlways, ChannelAlways, PTL DEF Spec

(* A request queued behind a shutdown fails with RequestError::Shutdown:   *)
(* when the task comes to it, the shutdown has been handled.               *)
THEOREM LateAreRefused == Spec => []LateRequestsRefused
<1>1. Init => LateRequestsRefused
  <2> SUFFICES ASSUME Init PROVE LateRequestsRefused
    OBVIOUS
  <2>1. \A c \in Callers : calls[c] = NewHandle
    BY DEF Init, HandleInit
  <2>2. NewHandle.op = "none"
    BY DEF NewHandle
  <2>3. QED
    BY <2>1, <2>2 DEF LateRequestsRefused
<1>2. ASSUME TypeInv, ChannelInv, LateRequestsRefused, [Next]_vars
      PROVE  LateRequestsRefused'
  <2> SUFFICES ASSUME NEW c \in Callers, calls'[c].op = "request",
                      calls'[c].answer.late
               PROVE  calls'[c].answer.kind = "shutdown"
    BY DEF LateRequestsRefused
  <2>1. CASE AnswerKept(c)
    BY <1>2, <2>1 DEF AnswerKept, LateRequestsRefused
  <2>2. CASE AnswerByHandle(c)
    BY <2>2 DEF AnswerByHandle
  <2>3. CASE AnswerByTask(c)
    <3>1. CASE pc = "request"
      <4>1. ~current.late
        BY <1>2, <3>1 DEF ChannelInv
      <4>2. /\ Refused(current, "disconnected").late = current.late
            /\ Answered(current, Head(stream.down)).late = current.late
        BY DEF Refused, Answered, NoAnswer
      <4>3. calls'[c].answer \in {Refused(current, "disconnected"),
                                  Answered(current, Head(stream.down))}
        BY <2>3, <3>1 DEF AnswerByTask
      <4>4. QED
        BY <4>1, <4>2, <4>3
    <3>2. CASE pc = "select"
      <4>1. queue # <<>> /\ calls'[c].answer = Refused(Head(queue), Refusal)
        BY <2>3, <3>2 DEF AnswerByTask
      <4>2. shutdown \/ ~Head(queue).late
        <5>1. ChainInv /\ (shutdown \/ ~Stopping)
          BY <1>2, <3>2 DEF ChannelInv, Stopping
        <5>2. ~Stopping => ~queue[1].late
          BY <4>1, <5>1 DEF ChainInv
        <5>3. Head(queue) = queue[1]
          BY <1>2, <4>1 DEF TypeInv, TypeOK
        <5>4. QED
          BY <5>1, <5>2, <5>3
      <4>3. calls'[c].answer.late = Head(queue).late
        BY <4>1 DEF Refused, NoAnswer
      <4>4. calls'[c].answer.kind = Refusal
        BY <4>1 DEF Refused, NoAnswer
      <4>5. QED
        BY <4>2, <4>3, <4>4 DEF Refusal
    <3>3. QED
      BY <2>3, <3>1, <3>2 DEF AnswerByTask
  <2>4. QED
    BY <1>2, <2>1, <2>2, <2>3, AnswersGiven
<1>3. QED
  BY <1>1, <1>2, StatusAlways, ChannelAlways, PTL DEF Spec
=============================================================================
