------------------------- MODULE BloopClientProofs -------------------------
(***************************************************************************)
(* Theorems about BloopClient, for any number of callers, configurations,  *)
(* faults and calls and any channel capacity.                              *)
(***************************************************************************)
EXTENDS BloopClient, TLAPS, SequenceTheorems

USE DEF settings

-----------------------------------------------------------------------------
(* Typing of the operators the model is built from.                        *)

(* The frames of the client are frames.                                    *)
LEMMA FrameTypes ==
    ASSUME NEW c \in MaybeConfig
    PROVE  /\ NoFrame \in Frame
           /\ HandshakeFrame \in Frame
           /\ AuthFrame(c) \in Frame
           /\ SessionFrame \in Frame
           /\ PingFrame \in Frame
           /\ QuitFrame \in Frame
BY ConnectionAssumption
   DEF Frame, FrameKinds, ClientFrame, NoFrame, HandshakeFrame, AuthFrame,
       SessionFrame, PingFrame, QuitFrame, MaybeConfig

(* Dropping a connection and dialling one yield well-formed streams.       *)
LEMMA FreshStreams ==
    /\ NoStream \in Stream
    /\ \A c \in MaybeConfig : Dialled(c) \in Stream
<1>1. NoStream \in Stream
  BY ConnectionAssumption DEF NoStream, Stream, MaybeConfig
<1>2. ASSUME NEW c \in MaybeConfig PROVE Dialled(c) \in Stream
  <2>1. <<HandshakeFrame>> \in Seq(Frame)
    BY FrameTypes
  <2>2. QED
    BY <1>1, <2>1 DEF Dialled, Stream
<1>3. QED
  BY <1>1, <1>2

(* Writing a frame keeps a stream well-formed, and so does reading a reply *)
(* that has arrived, in the two steps of the handshake too.                *)
LEMMA ExchangeTypes ==
    ASSUME NEW s \in Stream
    PROVE  /\ \A f \in Frame : Written(s, f) \in Stream
           /\ s.down # <<>> => /\ Taken(s) \in Stream
                               /\ Head(s.down) \in Reply
                               /\ Negotiated(s, Head(s.down)) \in Stream
                               /\ Authenticated(s) \in Stream
<1>1. ASSUME NEW f \in Frame PROVE Written(s, f) \in Stream
  <2>1. Append(s.up, f) \in Seq(Frame)
    BY DEF Stream
  <2>2. QED
    BY <2>1 DEF Written, Stream
<1>2. ASSUME s.down # <<>> PROVE Taken(s) \in Stream /\ Head(s.down) \in Reply
  <2>1. s.down \in Seq(Reply)
    BY DEF Stream
  <2>2. Tail(s.down) \in Seq(Reply) /\ Head(s.down) \in Reply
    BY <1>2, <2>1
  <2>3. QED
    BY <2>2 DEF Taken, Stream
<1>3. ASSUME s.down # <<>>
      PROVE  Negotiated(s, Head(s.down)) \in Stream /\ Authenticated(s) \in Stream
  <2> DEFINE r == Head(s.down)
             t == [Taken(s) EXCEPT !.capabilities = r.capabilities]
  <2>1. t \in Stream
    BY <1>2, <1>3 DEF Stream, Reply
  <2>2. AuthFrame(s.config) \in Frame
    BY FrameTypes DEF Stream
  <2> HIDE DEF t
  <2>3. Append(t.up, AuthFrame(s.config)) \in Seq(Frame)
    BY <2>1, <2>2 DEF Stream
  <2>4. Written(t, AuthFrame(s.config)) \in Stream
    BY <2>1, <2>3 DEF Written, Stream
  <2>5. Negotiated(s, r) \in Stream
    BY <2>4 DEF Negotiated, t
  <2>6. Authenticated(s) \in Stream
    BY <1>2, <1>3 DEF Authenticated, Stream
  <2>7. QED
    BY <2>5, <2>6
<1>4. QED
  BY <1>1, <1>2, <1>3

-----------------------------------------------------------------------------
(* Type correctness.  It is inductive once it says where handle_command    *)
(* has a command in hand.                                                  *)

CurrentHeld ==
    pc \in {"request", "quit_configure", "quit_shutdown"} => current \in Command

TypeInv == TypeOK /\ CurrentHeld

(* What every step of the task may use, and the counters it may move.      *)
LEMMA TaskFacts ==
    ASSUME TypeInv
    PROVE  /\ stream \in Stream /\ NoStream \in Stream
           /\ stream.capabilities \in Capabilities
           /\ config \in MaybeConfig
           /\ queue # <<>> => /\ Head(queue) \in Command
                              /\ Head(queue).config \in MaybeConfig
                              /\ Tail(queue) \in Seq(Command)
                              /\ Len(Tail(queue)) <= QueueCapacity
           /\ Fault => faults' \in 0..MaxFaults
           /\ ExchangeFails => faults' \in 0..MaxFaults
<1>1. queue # <<>> => /\ Head(queue) \in Command
                      /\ Tail(queue) \in Seq(Command)
                      /\ Len(Tail(queue)) = Len(queue) - 1
  BY DEF TypeInv, TypeOK
<1>2. Len(queue) \in Nat /\ Len(queue) <= QueueCapacity /\ QueueCapacity \in Nat
  BY HandleAssumption DEF TypeInv, TypeOK
<1>3. Fault => faults' \in 0..MaxFaults
  BY ConnectionAssumption DEF Fault, TypeInv, TypeOK
<1>4. ExchangeFails => faults' \in 0..MaxFaults
  BY <1>3 DEF ExchangeFails, TypeInv, TypeOK
<1>5. stream \in Stream /\ stream.capabilities \in Capabilities
  BY DEF TypeInv, TypeOK, Stream
<1>6. queue # <<>> => Head(queue).config \in MaybeConfig
  BY <1>1 DEF Command
<1>7. queue # <<>> => Len(Tail(queue)) <= QueueCapacity
  BY <1>1, <1>2
<1>8. QED
  BY <1>1, <1>3, <1>4, <1>5, <1>6, <1>7, FreshStreams DEF TypeInv, TypeOK

(* TypeInv is an invariant.                                                *)
LEMMA TypeAlways == Spec => []TypeInv
(* Answers and the calls that carry them are well-formed.                  *)
<1>AnswerTypes. /\ NoAnswer \in Answer
                /\ \A k \in {"ok", "disconnected", "shutdown"}, l \in BOOLEAN :
                      Bare(k, l) \in Answer
                /\ \A m \in Command, k \in {"disconnected", "shutdown"} :
                      Refused(m, k) \in Answer
                /\ \A call \in Call, a \in Answer : Returned(call, a) \in Call
  <2>1. NoFrame \in Frame
    BY FrameTypes DEF MaybeConfig
  <2>2. NoAnswer \in Answer
    BY <2>1 DEF NoAnswer, Answer, MaybeConfig
  <2>3. ASSUME NEW k \in {"ok", "disconnected", "shutdown"}, NEW l \in BOOLEAN
        PROVE  Bare(k, l) \in Answer
    BY <2>2 DEF Bare, Answer
  <2>4. ASSUME NEW m \in Command, NEW k \in {"disconnected", "shutdown"}
        PROVE  Refused(m, k) \in Answer
    BY <2>2 DEF Refused, Answer, Command
  <2>5. ASSUME NEW call \in Call, NEW a \in Answer
        PROVE  Returned(call, a) \in Call
    BY DEF Returned, Call
  <2>6. QED
    BY <2>2, <2>3, <2>4, <2>5

(* Responding to a command keeps the calls well-formed.                    *)
<1>RespondType.
      ASSUME calls \in [Callers -> Call], NEW m \in Command, NEW a \in Answer,
             Respond(m, a)
      PROVE  calls' \in [Callers -> Call]
  <2> USE <1>RespondType
  <2>1. m.from \in Callers
    BY DEF Command
  <2>2. Returned(calls[m.from], a) \in Call
    BY <2>1, <1>AnswerTypes
  <2>3. QED
    BY <2>1, <2>2 DEF Respond

(* Closing the channel keeps it well-formed.                               *)
<1>CloseChannelType. ASSUME TypeOK, CloseChannel
                     PROVE  /\ closed' \in BOOLEAN
                            /\ queue' \in Seq(Command)
                            /\ Len(queue') <= QueueCapacity
                            /\ calls' \in [Callers -> Call]
  <2> USE <1>CloseChannelType
  <2>1. ASSUME NEW c \in Callers
        PROVE  Returned(calls[c], Bare("shutdown", accepted.shutdown)) \in Call
    BY <1>AnswerTypes DEF TypeOK
  <2>2. calls' \in [Callers -> Call]
    BY <2>1 DEF CloseChannel, TypeOK
  <2>3. QED
    BY <2>2, HandleAssumption DEF CloseChannel

(* Beginning a call keeps the calls well-formed.                           *)
<1>BeginType. ASSUME TypeOK, NEW c \in Callers, NEW op \in Ops,
                     NEW cfg \in MaybeConfig, Begin(c, op, cfg)
              PROVE  calls' \in [Callers -> Call]
  <2> USE <1>BeginType
  <2>1. [pc |-> "sending", op |-> op, n |-> calls[c].n + 1,
         config |-> cfg, answer |-> NoAnswer] \in Call
    BY <1>AnswerTypes DEF TypeOK, Call, Ops
  <2>2. QED
    BY <2>1 DEF TypeOK, Begin

(* The statuses the task publishes are well-formed.                        *)
<1>StatusTypes.
      /\ \A state \in {"Unconfigured", "Disconnected", "InvalidCredentials",
                       "Shutdown"} : Plain(state) \in Status
      /\ \A c \in MaybeConfig : ConfiguredStatus(c) \in Status
      /\ \A c \in Capabilities :
            [state |-> "Connected", capabilities |-> c] \in Status
  BY ConnectionAssumption DEF Plain, ConfiguredStatus, Status

(* The initial states are well-typed.                                      *)
<1>TypeInit. ASSUME Init
             PROVE  TypeInv
  <2> USE <1>TypeInit
  <2>1. calls \in [Callers -> Call]
    BY <1>AnswerTypes DEF Init, HandleInit, NewHandle, Call, MaybeConfig
  <2>2. /\ connected \in BOOLEAN /\ credentials_invalid \in BOOLEAN
        /\ shutdown \in BOOLEAN /\ closed \in BOOLEAN
    BY Zenon DEF Init, HandleInit, TaskInit
  <2>3. /\ queue \in Seq(Command) /\ Len(queue) <= QueueCapacity
        /\ accepted \in [config : MaybeConfig, shutdown : BOOLEAN]
    BY HandleAssumption DEF Init, HandleInit, TaskInit
  <2>4. /\ stream \in Stream /\ faults \in 0..MaxFaults /\ status \in Status
        /\ pc \in Pcs /\ current = NoCommand /\ rejections \in 0..2
        /\ lastAttempt \in {"none", "connected", "rejected", "failed"}
        /\ config \in MaybeConfig /\ CurrentHeld
    BY ConnectionAssumption, FreshStreams, <1>StatusTypes
       DEF Init, TaskInit, Pcs, CurrentHeld
  <2>5. QED
    BY <2>1, <2>2, <2>3, <2>4 DEF TypeInv, TypeOK

(* TypeInv is inductive.                                                   *)
<1>TypeStep. ASSUME TypeInv, [Next]_vars
             PROVE  TypeInv'
  <2> USE <1>TypeStep
  <2>1. CASE UNCHANGED vars
    BY <2>1 DEF vars, connectionVars, handleVars, taskVars, TypeInv, TypeOK,
                CurrentHeld
  <2>2. CASE Terminated
    BY <2>1, <2>2 DEF Terminated
  <2>3. CASE ServerStep
    <3>1. stream' \in Stream /\ faults' \in 0..MaxFaults
      <4>1. /\ faults \in 0..MaxFaults /\ MaxFaults \in Nat
            /\ stream \in Stream
            /\ stream.up \in Seq(Frame) /\ stream.down \in Seq(Reply)
            /\ stream.stage \in {"new", "negotiated", "authenticated"}
        BY ConnectionAssumption DEF TypeInv, TypeOK, Stream
      <4>2. Fault => faults' \in 0..MaxFaults
        BY <4>1 DEF Fault
      <4>3. CASE ServerAnswers
        <5>1. /\ stream.up # <<>>
              /\ Head(stream.up) \in Frame
              /\ Tail(stream.up) \in Seq(Frame)
          BY <4>1, <4>3 DEF ServerAnswers, ServerCanRead
        <5>2. PICK kind \in ReplyKinds, c \in Capabilities :
                 /\ faults' = faults \/ Fault
                 /\ stream' = [stream EXCEPT
                        !.up = Tail(@),
                        !.down = Append(@, [re |-> Head(stream.up), kind |-> kind,
                                            capabilities |-> c]),
                        !.stage = StageAfter(Head(stream.up), kind),
                        !.open = (kind # "fatal")]
          BY <4>3 DEF ServerAnswers
        <5>3. [re |-> Head(stream.up), kind |-> kind, capabilities |-> c] \in Reply
          BY <5>1 DEF Reply
        <5>4. Append(stream.down, [re |-> Head(stream.up), kind |-> kind,
                                   capabilities |-> c]) \in Seq(Reply)
          BY <4>1, <5>3
        <5>5. StageAfter(Head(stream.up), kind)
                 \in {"new", "negotiated", "authenticated"}
          BY <4>1 DEF StageAfter
        <5>6. (kind # "fatal") \in BOOLEAN
          OBVIOUS
        <5>7. stream' \in Stream
          BY <4>1, <5>1, <5>2, <5>4, <5>5, <5>6 DEF Stream
        <5>8. QED
          BY <4>1, <4>2, <5>2, <5>7
      <4>4. CASE ServerIgnores \/ ServerReadsQuit \/ ServerHangsUp
        <5>1. ServerIgnores \/ ServerReadsQuit => Tail(stream.up) \in Seq(Frame)
          BY <4>1 DEF ServerIgnores, ServerReadsQuit, ServerCanRead
        <5>2. QED
          BY <4>1, <4>2, <4>4, <5>1
             DEF ServerIgnores, ServerReadsQuit, ServerHangsUp, Stream
      <4>5. QED
        BY <2>3, <4>3, <4>4 DEF ServerStep, ServerNext
    <3>2. QED
      BY <2>3, <3>1 DEF TypeInv, TypeOK, CurrentHeld, ServerStep, handleVars, taskVars
  <2>4. ASSUME NEW c \in Callers, CallerStep(c) PROVE TypeInv'
    <3>1. /\ calls \in [Callers -> Call] /\ calls[c] \in Call
          /\ accepted \in [config : MaybeConfig, shutdown : BOOLEAN]
          /\ queue \in Seq(Command) /\ Len(queue) \in Nat
          /\ Len(queue) <= QueueCapacity /\ QueueCapacity \in Nat
          /\ closed \in BOOLEAN
      BY HandleAssumption DEF TypeInv, TypeOK
    <3>2. ASSUME NEW a \in Answer,
                 calls' = [calls EXCEPT ![c] = Returned(@, a)],
                 UNCHANGED <<queue, closed, accepted>>
          PROVE  TypeInv'
      <4>1. Returned(calls[c], a) \in Call
        BY <3>1, <1>AnswerTypes
      <4>2. calls' \in [Callers -> Call]
        BY <3>1, <3>2, <4>1
      <4>3. QED
        BY <2>4, <3>2, <4>2 DEF TypeInv, TypeOK, CurrentHeld, CallerStep,
                          connectionVars, taskVars
    <3>3. ASSUME NEW op \in Ops, NEW cfg \in MaybeConfig, Begin(c, op, cfg)
          PROVE  TypeInv'
      <4>1. calls' \in [Callers -> Call]
        BY <3>3, <1>BeginType DEF TypeInv
      <4>2. QED
        BY <2>4, <3>3, <4>1 DEF Begin, TypeInv, TypeOK, CurrentHeld, CallerStep,
                          connectionVars, taskVars
    <3>4. CASE SendRequest(c)
      BY <3>3, <3>4 DEF SendRequest, Ops, MaybeConfig
    <3>5. CASE Configure(c)
      BY <3>3, <3>5 DEF Configure, Ops
    <3>6. CASE Shutdown(c)
      BY <3>3, <3>6 DEF Shutdown, Ops, MaybeConfig
    <3>7. CASE Enqueue(c)
      <4>1. calls[c].pc = "sending" /\ calls[c].op \in Ops
        BY <3>1, <3>7 DEF Enqueue, Call
      <4>2. CommandOf(c) \in Command
        BY <3>1, <4>1 DEF CommandOf, Command, Call
      <4>3. queue' \in Seq(Command) /\ Len(queue') = Len(queue) + 1
        BY <3>1, <3>7, <4>2 DEF Enqueue
      <4>4. Len(queue') <= QueueCapacity
        BY <3>1, <3>7, <4>3 DEF Enqueue, HasRoom
      <4>5. Returned(calls[c], Bare("ok", accepted.shutdown)) \in Call
        BY <3>1, <1>AnswerTypes
      <4>6. [calls[c] EXCEPT !.pc = "awaiting"] \in Call
        BY <3>1, <4>1 DEF Call, Ops
      <4>7. calls' \in [Callers -> Call]
        BY <3>1, <3>7, <4>5, <4>6 DEF Enqueue
      <4>8. accepted' \in [config : MaybeConfig, shutdown : BOOLEAN]
        BY <3>1, <3>7 DEF Enqueue, Call
      <4>9. QED
        BY <2>4, <3>7, <4>3, <4>4, <4>7, <4>8
           DEF Enqueue, TypeInv, TypeOK, CurrentHeld, CallerStep, connectionVars,
               taskVars
    <3>8. CASE SendToClosed(c)
      BY <3>1, <3>2, <3>8, <1>AnswerTypes DEF SendToClosed
    <3>9. CASE SendTimesOut(c)
      BY <3>1, <3>2, <3>9, <1>AnswerTypes DEF SendTimesOut
    <3>10. CASE ShutdownTimesOut(c)
      BY <3>2, <3>10, <1>AnswerTypes DEF ShutdownTimesOut
    <3>11. CASE Cancel(c)
      BY <3>2, <3>11, <1>AnswerTypes DEF Cancel
    <3>12. CASE DropHandle(c)
      <4>1. [calls[c] EXCEPT !.pc = "gone"] \in Call
        BY <3>1 DEF Call
      <4>2. calls' \in [Callers -> Call]
        BY <3>1, <3>12, <4>1 DEF DropHandle
      <4>3. QED
        BY <2>4, <3>12, <4>2 DEF DropHandle, TypeInv, TypeOK, CurrentHeld, CallerStep,
                           connectionVars, taskVars
    <3>13. QED
      BY <2>4, <3>4, <3>5, <3>6, <3>7, <3>8, <3>9, <3>10, <3>11, <3>12
         DEF CallerStep, HandleNext
  <2>5. CASE HandleCommand
    <3> USE DEF TypeInv, TypeOK, CurrentHeld, Pcs, QuitPcs, HookPcs, ConnectPcs
    <3>1. Written(stream, QuitFrame) \in Stream
      BY TaskFacts, ExchangeTypes, FrameTypes
    <3>2. CASE HandleConfigure
      <4>1. /\ Head(queue) \in Command
            /\ Head(queue).config \in MaybeConfig
            /\ queue' \in Seq(Command)
            /\ Len(queue') <= QueueCapacity
        BY <3>2, TaskFacts DEF HandleConfigure, Receive
      <4>2. CASE shutdown /\ UNCHANGED <<taskVars, stream>>
        BY <3>2, <4>1, <4>2 DEF HandleConfigure, taskVars
      <4>3. CASE /\ Apply(Head(queue).config)
                 /\ UNCHANGED <<connected, shutdown, stream>>
        <5>1. ConfiguredStatus(Head(queue).config) \in Status
          BY <4>1, <1>StatusTypes
        <5>2. /\ credentials_invalid' \in BOOLEAN
              /\ connected' \in BOOLEAN /\ shutdown' \in BOOLEAN
          BY <4>3, Zenon DEF Apply
        <5>3. status' \in Status /\ config' \in MaybeConfig
          BY <4>1, <4>3, <5>1 DEF Apply, SetStatus
        <5>4. /\ pc' = "select" /\ current' = NoCommand /\ rejections' = 0
              /\ lastAttempt' = "none"
          BY <4>3 DEF Apply
        <5>5. QED
          BY <3>2, <4>1, <4>3, <5>2, <5>3, <5>4 DEF HandleConfigure
      <4>4. CASE /\ TakeAndQuit("quit_configure")
                 /\ current' = Head(queue)
                 /\ UNCHANGED <<status, settings>>
        BY <3>1, <3>2, <4>1, <4>4 DEF HandleConfigure, TakeAndQuit
      <4>5. QED
        BY <3>2, <4>2, <4>3, <4>4 DEF HandleConfigure
    <3>3. CASE HandleRequest
      <4>1. Head(queue) \in Command /\ queue # <<>>
        BY <3>3, TaskFacts DEF HandleRequest, Receive
      <4>2. RequestFrame(Head(queue)) \in Frame
        BY <4>1 DEF Command, RequestFrame, Frame, FrameKinds, MaybeConfig
      <4>3. Written(stream, RequestFrame(Head(queue))) \in Stream
        BY <4>2, TaskFacts, ExchangeTypes
      <4>4. \A k \in {"disconnected", "shutdown"} :
               Refused(Head(queue), k) \in Answer
        BY <4>1, <1>AnswerTypes
      <4>5. calls' \in [Callers -> Call]
        BY <3>3, <4>1, <4>4, <1>RespondType DEF HandleRequest, Refusal
      <4>6. QED
        BY <3>3, <4>1, <4>3, <4>5, TaskFacts DEF HandleRequest, Receive, taskVars
    <3>4. CASE HandleShutdown
      <4>1. Head(queue) \in Command /\ queue # <<>>
        BY <3>4, TaskFacts DEF HandleShutdown, Receive
      <4>2. calls' \in [Callers -> Call]
        BY <3>4, <4>1, <1>RespondType, <1>AnswerTypes DEF HandleShutdown, ShutDown
      <4>3. QED
        BY <3>1, <3>4, <4>1, <4>2, TaskFacts, <1>StatusTypes
           DEF HandleShutdown, Receive, ShutDown, SetStatus, TakeAndQuit
    <3>5. CASE HandlesGone
      BY <3>1, <3>5, <1>StatusTypes, <1>CloseChannelType
         DEF HandlesGone, Finish, SetStatus, TakeAndQuit
    <3>6. QED
      BY <2>5, <3>2, <3>3, <3>4, <3>5 DEF HandleCommand
  <2>6. CASE HandleTick
    <3>1. Written(stream, PingFrame) \in Stream
      BY TaskFacts, ExchangeTypes, FrameTypes
    <3>2. QED
      BY <2>6, <3>1 DEF HandleTick, TypeInv, TypeOK, CurrentHeld, Pcs, ConnectPcs,
                  QuitPcs, HookPcs, handleVars
  <2>7. CASE HandlerContinues
    <3> USE DEF TypeInv, TypeOK, CurrentHeld, Pcs, QuitPcs, HookPcs, ConnectPcs
    <3>1. ReplyArrived => /\ Taken(stream) \in Stream
                          /\ Head(stream.down) \in Reply
                          /\ Negotiated(stream, Head(stream.down)) \in Stream
                          /\ Authenticated(stream) \in Stream
                          /\ Authenticated(stream).capabilities \in Capabilities
      <4>1. \A s \in Stream : s.capabilities \in Capabilities
        BY DEF Stream
      <4>2. QED
        BY <4>1, TaskFacts, ExchangeTypes DEF ReplyArrived
    <3>2. CASE ConfigureAfterQuit
      <4>1. ConfiguredStatus(current.config) \in Status
            /\ current.config \in MaybeConfig
        BY <3>2, <1>StatusTypes DEF ConfigureAfterQuit, QuitEnds, Command
      <4>2. /\ credentials_invalid' \in BOOLEAN
            /\ connected' \in BOOLEAN /\ shutdown' \in BOOLEAN
        BY <3>2, Zenon DEF ConfigureAfterQuit, Apply
      <4>3. status' \in Status /\ config' \in MaybeConfig
        BY <3>2, <4>1 DEF ConfigureAfterQuit, Apply, SetStatus
      <4>4. /\ pc' = "select" /\ current' = NoCommand /\ rejections' = 0
            /\ lastAttempt' = "none" /\ stream' = NoStream
            /\ UNCHANGED <<handleVars, faults>>
        BY <3>2 DEF ConfigureAfterQuit, QuitEnds, Apply
      <4>5. QED
        BY <4>2, <4>3, <4>4, TaskFacts DEF handleVars
    <3>3. CASE RequestAnswered
      <4>1. Answered(current, Head(stream.down)) \in Answer
        BY <3>1, <3>3, TaskFacts
           DEF RequestAnswered, Answered, Answer, DecodeResponse, Reply, Command,
               Stream
      <4>2. calls' \in [Callers -> Call]
        BY <3>3, <4>1, <1>RespondType DEF RequestAnswered
      <4>3. QED
        BY <3>1, <3>3, <4>2, TaskFacts, <1>StatusTypes
           DEF RequestAnswered, DropConnection, SetStatus, RequestDone
    <3>4. CASE RequestFails
      <4>1. Refused(current, "disconnected") \in Answer
        BY <3>4, <1>AnswerTypes DEF RequestFails
      <4>2. calls' \in [Callers -> Call]
        BY <3>4, <4>1, <1>RespondType DEF RequestFails
      <4>3. QED
        BY <3>4, <4>2, TaskFacts, <1>StatusTypes
           DEF RequestFails, DropConnection, SetStatus, RequestDone
    <3>5. CASE ShutdownAfterQuit
      <4>1. calls' \in [Callers -> Call]
        BY <3>5, <1>RespondType, <1>AnswerTypes DEF ShutdownAfterQuit, QuitEnds, ShutDown
      <4>2. QED
        BY <3>5, <4>1, TaskFacts, <1>StatusTypes
           DEF ShutdownAfterQuit, QuitEnds, ShutDown, SetStatus
    <3>6. CASE PingEnds
      BY ZenonT(60), <3>1, <3>6, TaskFacts, <1>StatusTypes
         DEF PingEnds, DropConnection, SetStatus, handleVars
    <3>8. ASSUME AttemptFails, faults' \in 0..MaxFaults
          PROVE  TypeInv'
      BY <3>8, TaskFacts, <1>StatusTypes
         DEF AttemptFails, AttemptFailed, AttemptEnds, SetStatus
    <3>9. CASE Dial
      <4>1. Dialled(config) \in Stream
        BY TaskFacts, FreshStreams
      <4>2. QED
        BY <3>9, <4>1 DEF Dial, AttemptContinues, handleVars
    <3>10. CASE NegotiateVersion
      BY <3>1, <3>8, <3>10 DEF NegotiateVersion, AttemptContinues, handleVars
    <3>11. CASE Authenticate
      <4>1. CASE stream' = Authenticated(stream) /\ AttemptContinues("hook")
        BY <3>1, <3>11, <4>1 DEF Authenticate, AttemptContinues, handleVars
      <4>2. CASE Established(Authenticated(stream))
        <5>1. [state |-> "Connected",
               capabilities |-> Authenticated(stream).capabilities] \in Status
          BY <3>1, <3>11, <1>StatusTypes DEF Authenticate
        <5>2. QED
          BY <3>1, <3>11, <4>2, <5>1
             DEF Authenticate, Established, AttemptEnds, SetStatus, handleVars
      <4>3. CASE CredentialsRejected
        <5>1. rejections' \in 0..2
          BY <4>3, TaskFacts DEF CredentialsRejected
        <5>2. QED
          BY <3>11, <4>3, <5>1, TaskFacts, <1>StatusTypes
             DEF Authenticate, CredentialsRejected, AttemptEnds, SetStatus,
                 handleVars
      <4>4. CASE AttemptFails
        BY <3>8, <3>11, <4>4 DEF Authenticate
      <4>5. QED
        BY <3>11, <4>1, <4>2, <4>3, <4>4 DEF Authenticate
    <3>12. CASE ConnectFails
      BY <3>8, <3>12, TaskFacts DEF ConnectFails
    <3>13. CASE HookCalls
      <4>1. Written(stream, SessionFrame) \in Stream
        BY TaskFacts, ExchangeTypes, FrameTypes
      <4>2. QED
        BY <3>13, <4>1 DEF HookCalls, AttemptContinues, handleVars
    <3>14. CASE HookCallAnswered
      BY <3>1, <3>14 DEF HookCallAnswered, AttemptContinues, handleVars
    <3>15. CASE HookCallFails
      BY <3>15, TaskFacts DEF HookCallFails, AttemptContinues, handleVars
    <3>16. CASE FailAfterQuit
      BY <3>8, <3>16 DEF FailAfterQuit
    <3>17. CASE FinishAfterQuit
      BY <3>17, TaskFacts, <1>StatusTypes, <1>CloseChannelType
         DEF FinishAfterQuit, QuitEnds, Finish, SetStatus
    <3>18. CASE HookUsesHandle
      <4>1. CASE /\ HookHandle # NoCaller
                 /\ SendRequest(HookHandle) \/ Configure(HookHandle)
        <5>1. HookHandle \in Callers
          BY <4>1, HandleAssumption
        <5>2. PICK op \in Ops, cfg \in MaybeConfig : Begin(HookHandle, op, cfg)
          BY <4>1 DEF SendRequest, Configure, Ops, MaybeConfig
        <5>3. calls' \in [Callers -> Call] /\ UNCHANGED <<queue, closed, accepted>>
          BY <5>1, <5>2, <1>BeginType DEF Begin
        <5>4. pc' \in {"hook", "hook_waits"}
          BY <3>18 DEF HookUsesHandle
        <5>5. QED
          BY <3>18, <5>3, <5>4 DEF HookUsesHandle
      <4>2. CASE pc' = "hook" /\ UNCHANGED handleVars
        BY <3>18, <4>2 DEF HookUsesHandle, handleVars
      <4>3. QED
        BY <3>18, <4>1, <4>2 DEF HookUsesHandle
    <3>19. QED
      BY <2>7, <3>2, <3>3, <3>4, <3>5, <3>6, <3>9, <3>10, <3>11, <3>12, <3>13,
         <3>14, <3>15, <3>16, <3>17, <3>18 DEF HandlerContinues
  <2>8. CASE HookEnds
    <3> USE DEF TypeInv, TypeOK, CurrentHeld, Pcs, QuitPcs, HookPcs, ConnectPcs
    <3>1. CASE HookReturnsOk
      <4>1. [state |-> "Connected", capabilities |-> stream.capabilities] \in Status
        BY TaskFacts, <1>StatusTypes
      <4>2. QED
        BY <3>1, <4>1 DEF HookReturnsOk, Established, AttemptEnds, SetStatus,
                          handleVars
    <3>2. CASE HookReturnsErr
      <4>1. Written(stream, QuitFrame) \in Stream
        BY TaskFacts, ExchangeTypes, FrameTypes
      <4>2. QED
        BY <3>2, <4>1, TaskFacts DEF HookReturnsErr, AttemptContinues, handleVars
    <3>3. CASE HookTimesOut
      <4>1. \A c \in Callers : Returned(calls[c], NoAnswer) \in Call
        BY <1>AnswerTypes
      <4>2. calls' \in [Callers -> Call] /\ faults' \in 0..MaxFaults
        BY <3>3, <4>1, TaskFacts DEF HookTimesOut
      <4>3. QED
        BY <3>3, <4>2, TaskFacts, <1>StatusTypes
           DEF HookTimesOut, AttemptFailed, AttemptEnds, SetStatus
    <3>4. CASE HookPanics
      BY <3>4, TaskFacts, <1>CloseChannelType DEF HookPanics
    <3>5. QED
      BY <2>8, <3>1, <3>2, <3>3, <3>4 DEF HookEnds
  <2>9. QED
    BY <2>1, <2>2, <2>3, <2>4, <2>5, <2>6, <2>7, <2>8 DEF Next, TaskNext

<1>1. QED
  BY <1>TypeInit, <1>TypeStep, PTL DEF Spec

(* Every reachable state is well-typed; in particular the command channel  *)
(* never exceeds the capacity build() gives it.                            *)
THEOREM TypeCorrect == Spec => []TypeOK
<1>1. TypeInv => TypeOK
  BY DEF TypeInv
<1>2. QED
  BY <1>1, TypeAlways, PTL
=============================================================================
