-------------------------- MODULE LifecycleProofs --------------------------
(***************************************************************************)
(* The life of a connection.  The status watch is truthful, the Latch      *)
(* policy holds, what a watcher sees is what ConnectionLifecycle allows,   *)
(* the handshake gates what follows it, and shutdown is final.             *)
(***************************************************************************)
EXTENDS BloopClientProofs

USE DEF settings

-----------------------------------------------------------------------------
(* StatusTruthful speaks of the select loop only.  Inductively, what the   *)
(* watch says has to be known at every await.                              *)

AttemptPcs == ConnectPcs \cup HookPcs \cup {"quit_hook"}
TeardownPcs == {"quit_configure", "quit_shutdown", "quit_end"}

(* A held connection is announced, with its capabilities, and belongs to   *)
(* the current configuration; an exchange of a handler needs one.          *)
HeldInv ==
    /\ connected => /\ pc \in {"select", "request", "ping"}
                    /\ status.state = "Connected"
                    /\ status.capabilities = stream.capabilities
                    /\ stream.config = config
    /\ pc \in {"request", "ping"} => connected

(* While a connection is torn down the watch still says Connected, while   *)
(* one is sought it says why there is none.                                *)
WhereInv ==
    /\ pc \in TeardownPcs => status.state = "Connected"
    /\ pc \in AttemptPcs => /\ ~shutdown
                            /\ config # NoConfig
                            /\ ~Latched
    /\ pc \in AttemptPcs \ {"connect"} => stream.config = config

(* The watch and the fields it is derived from.                            *)
WatchInv ==
    pc # "done" =>
        /\ shutdown <=> status.state = "Shutdown"
        /\ status.state = "Connected" => connected \/ pc \in TeardownPcs
        /\ ~shutdown =>
              /\ config = NoConfig <=> status.state = "Unconfigured"
              /\ lastAttempt = "rejected" <=> status.state = "InvalidCredentials"

(* The latch: the flag, the history and the watch agree.                   *)
LatchInv ==
    /\ status.state = "InvalidCredentials" => credentials_invalid
    /\ Policy = "Latch" =>
          /\ credentials_invalid => rejections = 1
          /\ ~credentials_invalid => rejections = 0
          /\ credentials_invalid =>
                status.state \in {"InvalidCredentials", "Shutdown"}

StatusInv == HeldInv /\ WhereInv /\ WatchInv /\ LatchInv

-----------------------------------------------------------------------------

(* Both invariants hold in every reachable state.                          *)
LEMMA StatusAlways == Spec => [](TypeInv /\ StatusInv)
(* Exchanges change neither whose connection it is nor, once negotiated,   *)
(* what the server declared.                                               *)
<1>StreamKeeps. ASSUME NEW s \in Stream
                PROVE  /\ \A f : /\ Written(s, f).config = s.config
                                 /\ Written(s, f).capabilities = s.capabilities
                       /\ Taken(s).config = s.config
                       /\ Taken(s).capabilities = s.capabilities
                       /\ Authenticated(s).config = s.config
                       /\ \A r : Negotiated(s, r).config = s.config
                       /\ \A c : Dialled(c).config = c
  BY DEF Stream, Written, Taken, Authenticated, Negotiated, Dialled, NoStream

(* The three ends of an attempt keep the watch right.                      *)
<1>StatusAttempt.
      ASSUME TypeInv, StatusInv, pc \in AttemptPcs
      PROVE  /\ AttemptFailed => StatusInv'
             /\ AttemptFails => StatusInv'
             /\ CredentialsRejected => StatusInv'
             /\ \A s : Established(s) /\ s.config = config => StatusInv'
             /\ \A p \in AttemptPcs :
                   AttemptContinues(p) /\ stream'.config = config => StatusInv'
             /\ HookUsesHandle => StatusInv'
  <2> USE <1>StatusAttempt
  <2> USE DEF AttemptPcs, TeardownPcs, ConnectPcs, HookPcs
  <2>1. /\ ~connected /\ ~shutdown /\ config # NoConfig /\ ~Latched
        /\ status.state # "Shutdown" /\ status.state # "Unconfigured"
        /\ status.state # "Connected"
        /\ Policy = "Latch" => ~credentials_invalid /\ rejections = 0
        /\ lastAttempt = "rejected" <=> status.state = "InvalidCredentials"
    BY DEF StatusInv, HeldInv, WhereInv, WatchInv, LatchInv, Latched
  <2>2. ASSUME AttemptFailed PROVE StatusInv'
    BY <2>1, <2>2 DEF AttemptFailed, AttemptEnds, SetStatus, Plain, StatusInv,
                      HeldInv, WhereInv, WatchInv, LatchInv, Latched
  <2>3. ASSUME CredentialsRejected PROVE StatusInv'
    BY <2>1, <2>3 DEF CredentialsRejected, AttemptEnds, SetStatus, Plain,
                      StatusInv, HeldInv, WhereInv, WatchInv, LatchInv, Latched
  <2>4. ASSUME NEW s, Established(s), s.config = config PROVE StatusInv'
    BY <2>1, <2>4 DEF Established, AttemptEnds, SetStatus, StatusInv, HeldInv,
                      WhereInv, WatchInv, LatchInv, Latched
  <2>5. ASSUME NEW p \in AttemptPcs, AttemptContinues(p),
               stream'.config = config
        PROVE  StatusInv'
    BY <2>1, <2>5 DEF AttemptContinues, StatusInv, HeldInv, WhereInv, WatchInv,
                      LatchInv, Latched
  <2>6. ASSUME HookUsesHandle PROVE StatusInv'
    <3>1. /\ stream.config = config /\ pc' \in HookPcs
          /\ UNCHANGED <<connected, status, settings, stream>>
      BY <2>6 DEF HookUsesHandle, StatusInv, WhereInv
    <3>2. QED
      BY <2>1, <3>1 DEF StatusInv, HeldInv, WhereInv, WatchInv, LatchInv, Latched
  <2>7. QED
    BY <2>2, <2>3, <2>4, <2>5, <2>6 DEF AttemptFails

(* Losing a held connection keeps the watch right.                         *)
<1>StatusLoss.
      ASSUME TypeInv, StatusInv, connected, DropConnection, pc' = "select",
             UNCHANGED settings
      PROVE  StatusInv'
  BY <1>StatusLoss DEF DropConnection, SetStatus, Plain, StatusInv, HeldInv, WhereInv,
         WatchInv, LatchInv, Latched, AttemptPcs, TeardownPcs, ConnectPcs,
         HookPcs

(* Reading a reply on a held connection leaves the watch as it is.         *)
<1>StatusReply. ASSUME TypeInv, StatusInv, connected, stream' = Taken(stream),
                       pc' = "select",
                       UNCHANGED <<connected, status, settings>>
                PROVE  StatusInv'
  <2> USE <1>StatusReply
  <2>1. /\ stream'.config = stream.config
        /\ stream'.capabilities = stream.capabilities
    BY <1>StreamKeeps DEF TypeInv, TypeOK
  <2>2. QED
    BY <2>1 DEF StatusInv, HeldInv, WhereInv, WatchInv, LatchInv, Latched,
                AttemptPcs, TeardownPcs, ConnectPcs, HookPcs

(* StatusInv is inductive, given the types.                                *)
<1>StatusStep. ASSUME TypeInv, StatusInv, [Next]_vars
               PROVE  StatusInv'
  <2> USE <1>StatusStep
  <2>1. CASE \/ ServerStep \/ Terminated \/ UNCHANGED vars
             \/ \E c \in Callers : CallerStep(c)
    <3>1. /\ UNCHANGED taskVars
          /\ stream'.config = stream.config
          /\ stream'.capabilities = stream.capabilities
      <4>1. stream \in Stream
        BY DEF TypeInv, TypeOK
      <4>2. CASE ServerStep
        BY <4>1, <4>2 DEF ServerStep, ServerNext, ServerAnswers, ServerIgnores,
                          ServerReadsQuit, ServerHangsUp, Stream
      <4>3. CASE \E c \in Callers : CallerStep(c)
        BY <4>3 DEF CallerStep, connectionVars
      <4>4. CASE UNCHANGED vars
        BY <4>4 DEF vars, connectionVars
      <4>5. QED
        BY <2>1, <4>2, <4>3, <4>4 DEF Terminated
    <3>2. QED
      BY <3>1 DEF taskVars, StatusInv, HeldInv, WhereInv, WatchInv, LatchInv,
                  Latched
  <2>2. CASE HandleCommand
    <3> USE DEF AttemptPcs, TeardownPcs, ConnectPcs, HookPcs
    <3> USE DEF StatusInv, HeldInv, WhereInv, WatchInv, LatchInv, Latched
    <3>1. \A f : /\ Written(stream, f).config = stream.config
                 /\ Written(stream, f).capabilities = stream.capabilities
      BY <1>StreamKeeps DEF TypeInv, TypeOK
    <3>2. CASE HandleConfigure
      <4>1. CASE UNCHANGED <<taskVars, stream>>
        BY <4>1 DEF taskVars
      <4>2. CASE /\ ~shutdown /\ ~connected
                 /\ Apply(Head(queue).config)
                 /\ UNCHANGED <<connected, shutdown, stream>>
        BY <4>2 DEF Apply, SetStatus, ConfiguredStatus, Plain
      <4>3. CASE /\ ~shutdown /\ connected
                 /\ TakeAndQuit("quit_configure")
                 /\ UNCHANGED <<status, settings>>
        BY <4>3 DEF TakeAndQuit
      <4>4. QED
        BY <3>2, <4>1, <4>2, <4>3 DEF HandleConfigure
    <3>3. CASE HandleRequest
      BY <3>1, <3>3 DEF HandleRequest, Receive, taskVars
    <3>4. CASE HandleShutdown
      BY <3>4 DEF HandleShutdown, Receive, ShutDown, SetStatus, Plain, TakeAndQuit
    <3>5. CASE HandlesGone
      BY <3>5 DEF HandlesGone, Finish, SetStatus, Plain, TakeAndQuit
    <3>6. QED
      BY <2>2, <3>2, <3>3, <3>4, <3>5 DEF HandleCommand
  <2>3. CASE HandleTick
    <3>1. \A f : /\ Written(stream, f).config = stream.config
                 /\ Written(stream, f).capabilities = stream.capabilities
      BY <1>StreamKeeps DEF TypeInv, TypeOK
    <3>2. QED
      BY <2>3, <3>1 DEF HandleTick, StatusInv, HeldInv, WhereInv, WatchInv, LatchInv,
                  Latched, AttemptPcs, TeardownPcs, ConnectPcs, HookPcs
  <2>4. CASE HandlerContinues
    <3> USE DEF AttemptPcs, TeardownPcs, ConnectPcs, HookPcs
    <3>1. stream \in Stream
      BY DEF TypeInv, TypeOK
    <3>2. pc \in {"request", "ping"} => connected
      BY DEF StatusInv, HeldInv
    <3>3. pc \in AttemptPcs \ {"connect"} => stream.config = config
      BY DEF StatusInv, WhereInv
    <3>4. CASE ConfigureAfterQuit
      BY <3>4 DEF ConfigureAfterQuit, QuitEnds, Apply, SetStatus,
                  ConfiguredStatus, Plain, StatusInv, HeldInv, WhereInv, WatchInv,
                  LatchInv, Latched
    <3>5. CASE RequestAnswered
      BY <3>2, <3>5, <1>StatusLoss, <1>StatusReply DEF RequestAnswered, RequestDone
    <3>6. CASE RequestFails
      BY <3>2, <3>6, <1>StatusLoss DEF RequestFails, RequestDone
    <3>7. CASE ShutdownAfterQuit
      BY <3>7 DEF ShutdownAfterQuit, QuitEnds, ShutDown, SetStatus, Plain,
                  StatusInv, HeldInv, WhereInv, WatchInv, LatchInv, Latched
    <3>8. CASE PingEnds
      BY <3>2, <3>8, <1>StatusLoss, <1>StatusReply DEF PingEnds
    <3>10. CASE Dial
      BY <3>1, <3>10, <1>StreamKeeps, <1>StatusAttempt DEF Dial
    <3>11. CASE NegotiateVersion
      BY <3>1, <3>3, <3>11, <1>StreamKeeps, <1>StatusAttempt DEF NegotiateVersion
    <3>12. CASE Authenticate
      BY <3>1, <3>3, <3>12, <1>StreamKeeps, <1>StatusAttempt DEF Authenticate
    <3>13. CASE ConnectFails
      BY <3>13, <1>StatusAttempt DEF ConnectFails
    <3>14. CASE HookCalls
      BY <3>1, <3>3, <3>14, <1>StreamKeeps, <1>StatusAttempt DEF HookCalls
    <3>15. CASE HookCallAnswered
      BY <3>1, <3>3, <3>15, <1>StreamKeeps, <1>StatusAttempt DEF HookCallAnswered
    <3>16. CASE HookCallFails
      BY <3>3, <3>16, <1>StatusAttempt DEF HookCallFails
    <3>17. CASE FailAfterQuit
      BY <3>17, <1>StatusAttempt DEF FailAfterQuit, QuitEnds
    <3>18. CASE FinishAfterQuit
      BY <3>18 DEF FinishAfterQuit, QuitEnds, Finish, SetStatus, Plain, StatusInv,
                   HeldInv, WhereInv, WatchInv, LatchInv, Latched
    <3>19. CASE HookUsesHandle
      BY <3>19, <1>StatusAttempt DEF HookUsesHandle
    <3>20. QED
      BY <2>4, <3>4, <3>5, <3>6, <3>7, <3>8, <3>10, <3>11, <3>12, <3>13, <3>14,
         <3>15, <3>16, <3>17, <3>18, <3>19 DEF HandlerContinues
  <2>5. CASE HookEnds
    <3> USE DEF AttemptPcs, TeardownPcs, ConnectPcs, HookPcs
    <3>1. stream \in Stream
      BY DEF TypeInv, TypeOK
    <3>2. pc \in AttemptPcs \ {"connect"} => stream.config = config
      BY DEF StatusInv, WhereInv
    <3>3. CASE HookReturnsOk
      BY <3>2, <3>3, <1>StatusAttempt DEF HookReturnsOk
    <3>4. CASE HookReturnsErr
      BY <3>1, <3>2, <3>4, <1>StreamKeeps, <1>StatusAttempt DEF HookReturnsErr
    <3>5. CASE HookTimesOut
      BY <3>5, <1>StatusAttempt DEF HookTimesOut
    <3>6. CASE HookPanics
      BY <3>6 DEF HookPanics, StatusInv, HeldInv, WhereInv, WatchInv, LatchInv,
                  Latched
    <3>7. QED
      BY <2>5, <3>3, <3>4, <3>5, <3>6 DEF HookEnds
  <2>6. QED
    BY <2>1, <2>2, <2>3, <2>4, <2>5 DEF Next, TaskNext

<1>1. Init => StatusInv
  BY DEF Init, TaskInit, ConfiguredStatus, Plain, StatusInv, HeldInv, WhereInv,
         WatchInv, LatchInv, AttemptPcs, TeardownPcs, ConnectPcs, HookPcs
<1>2. QED
  BY <1>1, TypeAlways, <1>StatusStep, PTL DEF Spec

(* Whatever the number of callers and faults, the watch is truthful        *)
(* whenever the task is back in its select loop.                           *)
THEOREM WatchIsTruthful == Spec => []StatusTruthful
<1>1. StatusInv => StatusTruthful
  BY DEF StatusInv, HeldInv, WatchInv, StatusTruthful, TeardownPcs
<1>2. QED
  BY <1>1, StatusAlways, PTL

(* Under Latch, rejected credentials are never presented again before the  *)
(* next configure, however many handles, faults and ticks there are.       *)
THEOREM LatchIsKept == Spec => []LatchHolds
<1>1. TypeInv /\ StatusInv => LatchHolds
  <2> SUFFICES ASSUME TypeInv, StatusInv, Policy = "Latch", rejections > 0
               PROVE  /\ rejections = 1
                      /\ ~connected
                      /\ pc \notin ConnectPcs \cup HookPcs
                      /\ status.state \in {"InvalidCredentials", "Shutdown"}
    BY DEF LatchHolds
  <2>1. credentials_invalid /\ rejections = 1
    BY DEF StatusInv, LatchInv
  <2>2. QED
    BY <2>1 DEF StatusInv, HeldInv, WhereInv, LatchInv, Latched, AttemptPcs
<1>2. QED
  BY <1>1, StatusAlways, PTL

-----------------------------------------------------------------------------
(* Refinement.                                                             *)

(* BloopClient implements ConnectionLifecycle: initial states map to       *)
(* initial states and every step to a step or a stutter.                   *)
THEOREM Refinement == Spec => ImplementsLifecycle
<1>1. Init => Lifecycle!Init
  BY DEF Init, TaskInit, ConfiguredStatus, Plain, MaybeConfig,
         Lifecycle!Init, Lifecycle!Fresh
<1>2. ASSUME TypeInv, StatusInv, [Next]_vars
      PROVE  [Lifecycle!Next]_<<status, config>>
  <2> USE DEF AttemptPcs, TeardownPcs, ConnectPcs, HookPcs
  <2> DEFINE Quiet == UNCHANGED <<status, config>>
  <2>1. Quiet => [Lifecycle!Next]_<<status, config>>
    OBVIOUS
  <2>2. ASSUME NEW c \in MaybeConfig, Apply(c), status.state # "Shutdown"
        PROVE  Lifecycle!Configure
    BY <2>2 DEF Apply, SetStatus, ConfiguredStatus, Plain, MaybeConfig,
                Lifecycle!Configure, Lifecycle!Is, Lifecycle!Becomes,
                Lifecycle!Fresh
  <2>3. pc \in AttemptPcs => Lifecycle!MayConnect
    <3>1. pc \in AttemptPcs =>
             /\ ~shutdown /\ config # NoConfig /\ ~connected /\ ~Latched
             /\ status.state \notin {"Shutdown", "Unconfigured", "Connected"}
             /\ status.state \in {"Unconfigured", "Disconnected", "Connected",
                                  "InvalidCredentials", "Shutdown"}
      BY <1>2 DEF TypeInv, TypeOK, Status, StatusInv, HeldInv, WhereInv, WatchInv
    <3>2. pc \in AttemptPcs /\ status.state = "InvalidCredentials"
             => Policy = "Retry"
      BY <1>2, <3>1, TaskAssumption DEF StatusInv, WatchInv, LatchInv, Latched
    <3>3. QED
      BY <3>1, <3>2 DEF Lifecycle!MayConnect, Lifecycle!Is
  <2>4. ASSUME pc \in AttemptPcs
        PROVE  /\ AttemptFailed => Lifecycle!Lose
               /\ AttemptFails => Lifecycle!Lose
               /\ CredentialsRejected => Lifecycle!Reject
               /\ \A s : Established(s) /\ s.capabilities \in Capabilities
                            => Lifecycle!Connect
               /\ \A p : AttemptContinues(p) => Quiet
    BY <2>3, <2>4 DEF AttemptFails, AttemptFailed, CredentialsRejected, Established,
         AttemptContinues, AttemptEnds, SetStatus, Plain, Lifecycle!Lose,
         Lifecycle!Reject, Lifecycle!Connect, Lifecycle!Becomes
  <2>5. ASSUME connected, DropConnection, UNCHANGED config
        PROVE  Lifecycle!Lose
    BY <1>2, <2>5 DEF DropConnection, SetStatus, Plain, StatusInv, HeldInv,
                Lifecycle!Lose, Lifecycle!Is, Lifecycle!Becomes
  <2>6. ASSUME SetStatus(Plain("Shutdown")), UNCHANGED config
        PROVE  Lifecycle!ShutDown
    BY <2>6 DEF SetStatus, Plain, Lifecycle!ShutDown, Lifecycle!Becomes
  <2>7. pc \in {"request", "ping"} => connected
    BY <1>2 DEF StatusInv, HeldInv
  <2>8. /\ stream.capabilities \in Capabilities
        /\ ReplyArrived => Authenticated(stream).capabilities \in Capabilities
    <3>1. stream \in Stream /\ \A s \in Stream : s.capabilities \in Capabilities
      BY <1>2 DEF TypeInv, TypeOK, Stream
    <3>2. QED
      BY <3>1, ExchangeTypes DEF ReplyArrived
  <2>9. (\/ ServerStep \/ HandleTick \/ Terminated \/ UNCHANGED vars
         \/ \E c \in Callers : CallerStep(c))
           => Quiet
    BY DEF ServerStep, CallerStep, HandleTick, Terminated, vars, taskVars
  <2>10. CASE HandleCommand
    <3>1. CASE HandleConfigure
      <4>1. Head(queue).config \in MaybeConfig
        BY <1>2, <3>1, TaskFacts DEF HandleConfigure, Receive
      <4>2. ~shutdown => status.state # "Shutdown"
        BY <1>2, <3>1 DEF HandleConfigure, Receive, StatusInv, WatchInv
      <4>3. QED
        BY <2>1, <2>2, <3>1, <4>1, <4>2
           DEF HandleConfigure, TakeAndQuit, taskVars, Lifecycle!Next
    <3>2. CASE HandleRequest
      BY <2>1, <3>2 DEF HandleRequest, taskVars
    <3>3. CASE HandleShutdown
      BY <2>1, <2>6, <3>3 DEF HandleShutdown, ShutDown, Lifecycle!Next
    <3>4. CASE HandlesGone
      BY <2>1, <2>6, <3>4 DEF HandlesGone, Finish, Lifecycle!Next
    <3>5. QED
      BY <2>10, <3>1, <3>2, <3>3, <3>4 DEF HandleCommand
  <2>11. CASE HandlerContinues
    <3>1. CASE ConfigureAfterQuit
      <4>1. current.config \in MaybeConfig /\ status.state # "Shutdown"
        BY <1>2, <3>1 DEF ConfigureAfterQuit, QuitEnds, TypeInv, CurrentHeld, Command,
                    StatusInv, WhereInv
      <4>2. QED
        BY <2>2, <3>1, <4>1 DEF ConfigureAfterQuit, Lifecycle!Next
    <3>2. CASE RequestAnswered \/ RequestFails \/ PingEnds
      BY <2>1, <2>5, <2>7, <3>2
         DEF RequestAnswered, RequestFails, RequestDone, PingEnds,
             Lifecycle!Next
    <3>3. CASE ShutdownAfterQuit \/ FinishAfterQuit
      BY <2>6, <3>3 DEF ShutdownAfterQuit, FinishAfterQuit, ShutDown, Finish,
                        Lifecycle!Next
    <3>4. CASE Dial \/ NegotiateVersion \/ ConnectFails
      BY <2>1, <2>4, <3>4 DEF Dial, NegotiateVersion, ConnectFails,
                              Lifecycle!Next
    <3>5. CASE Authenticate
      BY <2>1, <2>4, <2>8, <3>5 DEF Authenticate, Lifecycle!Next
    <3>6. CASE \/ HookCalls \/ HookUsesHandle \/ HookCallAnswered
               \/ HookCallFails \/ FailAfterQuit
      BY <2>1, <2>4, <3>6 DEF HookCalls, HookUsesHandle, HookCallAnswered,
                              HookCallFails, FailAfterQuit, QuitEnds,
                              Lifecycle!Next
    <3>7. QED
      BY <2>11, <3>1, <3>2, <3>3, <3>4, <3>5, <3>6 DEF HandlerContinues
  <2>12. CASE HookEnds
    BY <2>1, <2>4, <2>8, <2>12
       DEF HookEnds, HookReturnsOk, HookReturnsErr, HookTimesOut, HookPanics,
           Lifecycle!Next
  <2>13. QED
    BY <1>2, <2>1, <2>9, <2>10, <2>11, <2>12 DEF Next, TaskNext
<1>3. QED
  BY <1>1, <1>2, StatusAlways, PTL
     DEF Spec, ImplementsLifecycle, Lifecycle!Spec

-----------------------------------------------------------------------------
(* The handshake.  HandshakeGate speaks of what the server knows and what  *)
(* the client accepts; inductively, both have to be known at every await,  *)
(* and the frames in flight during the handshake are those of one          *)
(* exchange.                                                               *)

InTransit(s) == Len(s.up) + Len(s.down)

LoneFrame(kind) ==
    /\ InTransit(stream) <= 1
    /\ \A i \in 1..Len(stream.up) : stream.up[i].kind = kind

OkMeans(stage) ==
    \A i \in 1..Len(stream.down) :
        stream.down[i].kind = "ok" => stream.stage = stage

Trusted ==
    /\ stream.stage = "authenticated"
    /\ stream.limit = "configured"
    /\ \A i \in 1..Len(stream.up) :
          stream.up[i].kind \notin {"handshake", "auth"}

StageInv ==
    /\ pc \in {"select", "connect", "done"} /\ ~connected => stream = NoStream
    /\ pc = "negotiate" => /\ stream.limit = "handshake"
                           /\ LoneFrame("handshake")
                           /\ OkMeans("negotiated")
    /\ pc = "authenticate" => /\ stream.limit = "handshake"
                              /\ LoneFrame("auth")
                              /\ stream.up # <<>> => stream.stage = "negotiated"
                              /\ OkMeans("authenticated")
    /\ connected \/ pc \in HookPcs \cup QuitPcs => Trusted

-----------------------------------------------------------------------------
(* Lemmas about the connection.                                            *)

(* The server moves frames on, without adding to what is in flight.  A     *)
(* reply that is new answers the frame that was first, and only a reply to *)
(* it changes the stage.                                                   *)
LEMMA ServerMoves ==
    ASSUME stream \in Stream, ServerNext
    PROVE  /\ stream'.limit = stream.limit
           /\ InTransit(stream) \in Nat /\ InTransit(stream') \in Nat
           /\ InTransit(stream') <= InTransit(stream)
           /\ \A i \in 1..Len(stream'.up) :
                 \E j \in 1..Len(stream.up) : stream'.up[i] = stream.up[j]
           /\ \A i \in 1..Len(stream'.down) :
                 \/ /\ i \in 1..Len(stream.down)
                    /\ stream'.down[i] = stream.down[i]
                 \/ /\ stream.up # <<>>
                    /\ stream'.down[i].re = stream.up[1]
                    /\ stream'.stage
                          = StageAfter(stream.up[1], stream'.down[i].kind)
           /\ \/ stream'.stage = stream.stage
              \/ /\ stream.up # <<>>
                 /\ Len(stream'.down) = Len(stream.down) + 1
                 /\ stream'.stage
                       = StageAfter(stream.up[1],
                                    stream'.down[Len(stream.down) + 1].kind)
<1>1. stream.up \in Seq(Frame) /\ stream.down \in Seq(Reply)
  BY DEF Stream
<1>2. stream.up # <<>> =>
         /\ Head(stream.up) = stream.up[1]
         /\ Len(Tail(stream.up)) = Len(stream.up) - 1
         /\ \A i \in 1..Len(Tail(stream.up)) :
               Tail(stream.up)[i] = stream.up[i + 1]
  BY <1>1, HeadTailProperties
<1>3. Len(stream.up) \in Nat /\ Len(stream.down) \in Nat
  BY <1>1
<1>4. CASE ServerAnswers
  <2>1. PICK kind \in ReplyKinds, c \in Capabilities :
           stream' = [stream EXCEPT
                         !.up = Tail(@),
                         !.down = Append(@, [re |-> Head(stream.up),
                                             kind |-> kind,
                                             capabilities |-> c]),
                         !.stage = StageAfter(Head(stream.up), kind),
                         !.open = (kind # "fatal")]
    BY <1>4 DEF ServerAnswers
  <2> DEFINE r == [re |-> stream.up[1], kind |-> kind, capabilities |-> c]
  <2>2. stream.up # <<>>
    BY <1>4 DEF ServerAnswers, ServerCanRead
  <2>3. /\ stream'.limit = stream.limit
        /\ stream'.up = Tail(stream.up)
        /\ stream'.down = Append(stream.down, r)
        /\ stream'.stage = StageAfter(stream.up[1], kind)
    BY <1>2, <2>1, <2>2 DEF Stream
  <2>4. /\ Len(Append(stream.down, r)) = Len(stream.down) + 1
        /\ Append(stream.down, r)[Len(stream.down) + 1] = r
        /\ \A i \in 1..Len(stream.down) :
              Append(stream.down, r)[i] = stream.down[i]
    BY <1>1
  <2>5. \A i \in 1..Len(stream'.down) :
           i \in 1..Len(stream.down) \/ i = Len(stream.down) + 1
    BY <1>3, <2>3, <2>4
  <2>6. r.re = stream.up[1] /\ r.kind = kind
    OBVIOUS
  <2> HIDE DEF r
  <2>7. \A i \in 1..Len(stream'.up) : i + 1 \in 1..Len(stream.up)
    <3> DEFINE n == Len(stream.up)
    <3>1. n \in Nat /\ Len(stream'.up) = n - 1
      BY <1>2, <1>3, <2>2, <2>3
    <3> HIDE DEF n
    <3>2. \A i \in 1..(n - 1) : i + 1 \in 1..n
      BY <3>1
    <3>3. QED
      BY <3>1, <3>2 DEF n
  <2>8. \A i \in 1..Len(stream'.up) :
           \E j \in 1..Len(stream.up) : stream'.up[i] = stream.up[j]
    BY <1>2, <2>2, <2>3, <2>7
  <2>9. \A i \in 1..Len(stream'.down) :
           \/ /\ i \in 1..Len(stream.down)
              /\ stream'.down[i] = stream.down[i]
           \/ stream'.down[i] = r
    BY <2>3, <2>4, <2>5
  <2>10. Len(stream'.up) = Len(stream.up) - 1
    BY <1>2, <2>2, <2>3
  <2>11. /\ Len(stream'.down) = Len(stream.down) + 1
         /\ stream'.down[Len(stream.down) + 1] = r
    BY <2>3, <2>4
  <2>12. \A i \in 1..Len(stream'.down) :
           \/ /\ i \in 1..Len(stream.down)
              /\ stream'.down[i] = stream.down[i]
           \/ /\ stream.up # <<>>
              /\ stream'.down[i].re = stream.up[1]
              /\ stream'.stage
                    = StageAfter(stream.up[1], stream'.down[i].kind)
    BY <2>2, <2>3, <2>6, <2>9
  <2>13. stream'.stage
           = StageAfter(stream.up[1], stream'.down[Len(stream.down) + 1].kind)
    BY <2>3, <2>6, <2>11
  <2>14. /\ InTransit(stream) \in Nat /\ InTransit(stream') \in Nat
         /\ InTransit(stream') <= InTransit(stream)
    <3> DEFINE u == Len(stream.up)
               d == Len(stream.down)
               v == Len(stream'.up)
               e == Len(stream'.down)
    <3>1. u \in Nat /\ d \in Nat /\ v \in Nat /\ v = u - 1 /\ e = d + 1
      BY <1>2, <1>3, <2>2, <2>3, <2>10, <2>11
    <3> HIDE DEF u, d, v, e
    <3>2. u + d \in Nat /\ v + e \in Nat /\ v + e <= u + d
      BY <3>1
    <3>3. QED
      BY <3>2 DEF u, d, v, e, InTransit
  <2>15. QED
    BY <2>2, <2>3, <2>8, <2>11, <2>12, <2>13, <2>14
<1>5. CASE ServerIgnores \/ ServerReadsQuit
  <2>1. stream.up # <<>>
    BY <1>5 DEF ServerIgnores, ServerReadsQuit, ServerCanRead
  <2>2. /\ stream'.limit = stream.limit
        /\ stream'.up = Tail(stream.up)
        /\ stream'.down = stream.down
        /\ stream'.stage = stream.stage
    BY <1>5 DEF ServerIgnores, ServerReadsQuit, Stream
  <2>3. \A i \in 1..Len(stream'.up) : i + 1 \in 1..Len(stream.up)
    BY <1>2, <1>3, <2>1, <2>2
  <2>4. /\ InTransit(stream) \in Nat /\ InTransit(stream') \in Nat
        /\ InTransit(stream') <= InTransit(stream)
    <3> DEFINE u == Len(stream.up)
               d == Len(stream.down)
               v == Len(stream'.up)
    <3>1. u \in Nat /\ d \in Nat /\ v \in Nat /\ v = u - 1
      BY <1>1, <1>2, <1>3, <2>1, <2>2
    <3> HIDE DEF u, d, v
    <3>2. u + d \in Nat /\ v + d \in Nat /\ v + d <= u + d
      BY <3>1
    <3>3. QED
      BY <2>2, <3>2 DEF u, d, v, InTransit
  <2>5. QED
    BY <1>2, <1>3, <2>1, <2>2, <2>3, <2>4
<1>6. CASE ServerHangsUp
  BY <1>3, <1>6 DEF ServerHangsUp, Stream, InTransit
<1>7. QED
  BY <1>4, <1>5, <1>6 DEF ServerNext

(* What the client's half of an exchange does: a write adds one frame at   *)
(* the end, and reading the one thing in flight leaves nothing.            *)
LEMMA ClientMoves ==
    ASSUME NEW s \in Stream
    PROVE  /\ \A f \in Frame :
                 /\ Written(s, f).down = s.down
                 /\ Written(s, f).stage = s.stage
                 /\ Written(s, f).limit = s.limit
                 /\ Len(Written(s, f).up) = Len(s.up) + 1
                 /\ \A i \in 1..Len(Written(s, f).up) :
                       \/ Written(s, f).up[i] = f
                       \/ i \in 1..Len(s.up) /\ Written(s, f).up[i] = s.up[i]
           /\ /\ Taken(s).up = s.up
              /\ Taken(s).stage = s.stage
              /\ Taken(s).limit = s.limit
           /\ s.down # <<>> /\ InTransit(s) <= 1 =>
                 s.up = <<>> /\ Taken(s).down = <<>>
<1>1. s.up \in Seq(Frame) /\ s.down \in Seq(Reply)
  BY DEF Stream
<1>2. ASSUME NEW f \in Frame
      PROVE  /\ Written(s, f).down = s.down
             /\ Written(s, f).stage = s.stage
             /\ Written(s, f).limit = s.limit
             /\ Len(Written(s, f).up) = Len(s.up) + 1
             /\ \A i \in 1..Len(Written(s, f).up) :
                   \/ Written(s, f).up[i] = f
                   \/ i \in 1..Len(s.up) /\ Written(s, f).up[i] = s.up[i]
  <2>1. Written(s, f).up = Append(s.up, f)
    BY DEF Written, Stream
  <2>2. \A i \in 1..Len(Append(s.up, f)) :
           \/ Append(s.up, f)[i] = f
           \/ i \in 1..Len(s.up) /\ Append(s.up, f)[i] = s.up[i]
    BY <1>1
  <2>3. QED
    BY <1>1, <2>1, <2>2 DEF Written, Stream
<1>3. /\ Taken(s).up = s.up
      /\ Taken(s).stage = s.stage
      /\ Taken(s).limit = s.limit
      /\ Taken(s).down = Tail(s.down)
  BY DEF Taken, Stream
<1>4. ASSUME s.down # <<>>, InTransit(s) <= 1
      PROVE  s.up = <<>> /\ Tail(s.down) = <<>>
  <2>1. Len(s.down) \in Nat /\ Len(s.up) \in Nat /\ Len(s.down) # 0
    BY <1>1, <1>4, EmptySeq
  <2>2. Len(s.down) = 1 /\ Len(s.up) = 0
    <3> DEFINE u == Len(s.up)
               d == Len(s.down)
    <3>1. u \in Nat /\ d \in Nat /\ d # 0 /\ u + d <= 1
      BY <1>4, <2>1 DEF InTransit
    <3> HIDE DEF u, d
    <3>2. d = 1 /\ u = 0
      BY <3>1
    <3>3. QED
      BY <3>2 DEF u, d
  <2>3. Tail(s.down) \in Seq(Reply) /\ Len(Tail(s.down)) = 0
    BY <1>1, <1>4, <2>2, HeadTailProperties
  <2>4. QED
    BY <1>1, <2>2, <2>3, EmptySeq
<1>5. QED
  BY <1>2, <1>3, <1>4

(* StageInv is an invariant.                                               *)
LEMMA StageAlways == Spec => []StageInv
(* StageInv is inductive.                                                  *)
<1>StageStep. ASSUME TypeInv, TypeInv', StatusInv, StageInv, [Next]_vars
              PROVE  StageInv'
  <2> USE <1>StageStep
  <2> USE DEF HookPcs, QuitPcs, ConnectPcs, AttemptPcs
  <2>1. stream \in Stream /\ NoStream \in Stream
    BY FreshStreams DEF TypeInv, TypeOK
  <2>2. /\ connected => pc \in {"select", "request", "ping"}
        /\ pc \in {"request", "ping"} => connected
    BY DEF StatusInv, HeldInv
  <2>3. CASE Terminated \/ UNCHANGED vars \/ \E c \in Callers : CallerStep(c)
    <3>1. UNCHANGED <<stream, pc, connected>>
      BY <2>3 DEF Terminated, CallerStep, vars, connectionVars, taskVars
    <3>2. QED
      BY <3>1 DEF StageInv, Trusted, LoneFrame, OkMeans, InTransit
  <2>4. CASE ServerStep
    <3>1. /\ UNCHANGED <<pc, connected>>
          /\ ServerNext
      BY <2>4 DEF ServerStep, taskVars
    <3> DEFINE Moved ==
          /\ stream'.limit = stream.limit
          /\ InTransit(stream) \in Nat /\ InTransit(stream') \in Nat
          /\ InTransit(stream') <= InTransit(stream)
          /\ \A i \in 1..Len(stream'.up) :
                \E j \in 1..Len(stream.up) : stream'.up[i] = stream.up[j]
    <3>2. Moved
      BY <2>1, <3>1, ServerMoves
    <3>3. stream.up # <<>> => 1 \in 1..Len(stream.up)
      BY <2>1, EmptySeq DEF Stream
    <3>4. CASE stream = NoStream
      BY <3>1, <3>4 DEF NoStream, ServerNext, ServerAnswers, ServerIgnores,
                        ServerReadsQuit, ServerHangsUp, ServerCanRead
    <3>5. ASSUME Trusted PROVE Trusted'
      <4>1. \A k : stream.up # <<>> =>
               StageAfter(stream.up[1], k) = "authenticated"
        BY <3>5, <3>3 DEF Trusted, StageAfter
      <4>2. stream'.stage = "authenticated"
        BY <2>1, <3>1, <3>5, <4>1, ServerMoves DEF Trusted
      <4>3. QED
        BY <3>2, <3>5, <4>2 DEF Trusted
    <3>6. ASSUME NEW kind \in {"handshake", "auth"}, LoneFrame(kind)
          PROVE  LoneFrame(kind)'
      <4>1. InTransit(stream') <= 1
        BY <3>2, <3>6 DEF LoneFrame
      <4>2. \A i \in 1..Len(stream'.up) : stream'.up[i].kind = kind
        BY <3>2, <3>6 DEF LoneFrame
      <4>3. QED
        BY <4>1, <4>2 DEF LoneFrame
    <3>7. ASSUME pc = "negotiate" PROVE OkMeans("negotiated")'
      BY SMTT(30), <2>1, <3>1, <3>7, <3>3, ServerMoves
         DEF StageInv, LoneFrame, OkMeans, StageAfter
    <3>8. ASSUME pc = "authenticate"
          PROVE  /\ OkMeans("authenticated")'
                 /\ stream'.up # <<>> => stream'.stage = "negotiated"
      <4>1. OkMeans("authenticated")'
        BY SMTT(30), <2>1, <3>1, <3>8, <3>3, ServerMoves
           DEF StageInv, LoneFrame, OkMeans, StageAfter
      <4>2. ASSUME stream'.up # <<>> PROVE stream'.stage = "negotiated"
        <5>1. stream'.up \in Seq(Frame) /\ stream'.down \in Seq(Reply)
          BY DEF TypeInv, TypeOK, Stream
        <5>2. 1 \in 1..Len(stream'.up) /\ Len(stream'.up) \in Nat
          BY <4>2, <5>1, EmptySeq
        <5>3. stream.up # <<>>
          BY <3>2, <5>2
        <5>4. Len(stream.down) \in Nat
          BY <2>1 DEF Stream
        <5>5. Len(stream'.down) # Len(stream.down) + 1
          <6> DEFINE u == Len(stream'.up)
                     d == Len(stream.down)
                     e == Len(stream'.down)
          <6>1. InTransit(stream') <= 1
            BY <3>6, <3>8 DEF StageInv, LoneFrame
          <6>2. u \in Nat /\ d \in Nat /\ 1 \in 1..u /\ u + e <= 1
            BY <5>2, <5>4, <6>1 DEF InTransit
          <6> HIDE DEF u, d, e
          <6>3. e # d + 1
            BY <6>2
          <6>4. QED
            BY <6>3 DEF d, e
        <5>6. stream'.stage = stream.stage
          BY <2>1, <3>1, <5>5, ServerMoves
        <5>7. QED
          BY <3>8, <5>3, <5>6 DEF StageInv
      <4>3. QED
        BY <4>1, <4>2
    <3>9. QED
      BY <3>1, <3>2, <3>4, <3>5, <3>6, <3>7, <3>8 DEF StageInv
  <2>5. ASSUME stream' = NoStream, ~connected', pc' \in {"select", "done"}
        PROVE  StageInv'
    BY <2>5 DEF StageInv
  <2>6. ASSUME Trusted', pc' \in {"select", "request", "ping"} \cup HookPcs
                                    \cup QuitPcs,
               pc' = "select" => connected'
        PROVE  StageInv'
    BY <2>6 DEF StageInv
  <2>7. ASSUME Trusted
        PROVE  /\ \A f \in Frame : stream' = Written(stream, f)
                       /\ f.kind \notin {"handshake", "auth"} => Trusted'
               /\ stream' = Taken(stream) => Trusted'
               /\ stream' = stream => Trusted'
    <3>1. ASSUME NEW f \in Frame, stream' = Written(stream, f),
                 f.kind \notin {"handshake", "auth"}
          PROVE  Trusted'
      BY <2>1, <2>7, <3>1, ClientMoves DEF Trusted
    <3>2. ASSUME stream' = Taken(stream) PROVE Trusted'
      BY <2>1, <2>7, <3>2, ClientMoves DEF Trusted
    <3>3. ASSUME stream' = stream PROVE Trusted'
      BY <2>7, <3>3 DEF Trusted
    <3>4. QED
      BY <3>1, <3>2, <3>3
  <2>8. /\ QuitFrame \in Frame /\ QuitFrame.kind = "quit"
        /\ PingFrame \in Frame /\ PingFrame.kind = "ping"
        /\ SessionFrame \in Frame /\ SessionFrame.kind = "session"
        /\ \A m \in Command :
              RequestFrame(m) \in Frame /\ RequestFrame(m).kind = "request"
    <3>1. \A m \in Command : RequestFrame(m) \in Frame
      BY DEF Command, RequestFrame, Frame, FrameKinds, MaybeConfig
    <3>2. QED
      BY <3>1, FrameTypes DEF QuitFrame, PingFrame, SessionFrame, ClientFrame,
                              RequestFrame, MaybeConfig
  <2>9. CASE HandleCommand
    <3>1. connected => Trusted
      BY DEF StageInv
    <3>2. queue # <<>> => Head(queue) \in Command
      BY TaskFacts
    <3>8. ASSUME NEW next \in QuitPcs, connected, TakeAndQuit(next) PROVE StageInv'
      <4>1. Trusted'
        BY <2>7, <2>8, <3>1, <3>8 DEF TakeAndQuit
      <4>2. QED
        BY <2>6, <3>8, <4>1 DEF TakeAndQuit
    <3>9. ASSUME pc = "select", ~connected, UNCHANGED <<connected, stream>>,
                 pc' \in {"select", "done"}
          PROVE  StageInv'
      BY <2>5, <3>9 DEF StageInv
    <3>10. ASSUME UNCHANGED <<pc, connected, stream>> PROVE StageInv'
      BY Zenon, <3>10 DEF StageInv, Trusted, LoneFrame, OkMeans, InTransit
    <3>3. CASE HandleConfigure
      BY <3>3, <3>8, <3>9, <3>10 DEF HandleConfigure, Receive, Apply, taskVars
    <3>4. CASE HandleRequest
      <4>1. /\ Head(queue) \in Command
            /\ \/ UNCHANGED <<pc, connected, stream>>
               \/ /\ connected /\ pc' = "request"
                  /\ stream' = Written(stream, RequestFrame(Head(queue)))
        BY <3>2, <3>4 DEF HandleRequest, Receive, taskVars
      <4>2. CASE /\ connected /\ pc' = "request"
                 /\ stream' = Written(stream, RequestFrame(Head(queue)))
        <5>1. Trusted'
          BY <2>7, <2>8, <3>1, <4>1, <4>2
        <5>2. QED
          BY <2>6, <4>2, <5>1
      <4>3. QED
        BY <3>10, <4>1, <4>2
    <3>5. CASE HandleShutdown
      BY <3>5, <3>8, <3>9 DEF HandleShutdown, Receive, ShutDown
    <3>6. CASE HandlesGone
      BY <3>6, <3>8, <3>9 DEF HandlesGone, Finish
    <3>7. QED
      BY <2>9, <3>3, <3>4, <3>5, <3>6 DEF HandleCommand
  <2>10. CASE HandleTick
    BY <2>6, <2>7, <2>8, <2>10 DEF HandleTick, StageInv
  <2>11. ASSUME pc \in AttemptPcs
         PROVE  /\ AttemptFailed => StageInv'
                /\ AttemptFails => StageInv'
                /\ CredentialsRejected => StageInv'
                /\ \A p \in HookPcs \cup {"quit_hook"} :
                      AttemptContinues(p) /\ Trusted' => StageInv'
                /\ \A s : Established(s) /\ Trusted' => StageInv'
    <3>1. AttemptFailed \/ CredentialsRejected => StageInv'
      BY <2>2, <2>5, <2>11 DEF AttemptFailed, CredentialsRejected, AttemptEnds
    <3>2. ASSUME NEW p \in HookPcs \cup {"quit_hook"}, AttemptContinues(p),
                 Trusted'
          PROVE  StageInv'
      BY <2>6, <3>2 DEF AttemptContinues
    <3>3. ASSUME NEW s, Established(s), Trusted' PROVE StageInv'
      BY <2>6, <3>3 DEF Established, AttemptEnds
    <3>4. QED
      BY <3>1, <3>2, <3>3 DEF AttemptFails
  <2>12. /\ pc \in {"request", "ping"} \cup HookPcs \cup QuitPcs => Trusted
         /\ pc \in ConnectPcs => ~connected
    BY <2>2 DEF StageInv
  <2>13. CASE HandlerContinues
    <3>1. ReplyArrived => Head(stream.down) = stream.down[1]
                          /\ 1 \in 1..Len(stream.down)
      BY <2>1, EmptySeq, HeadTailProperties DEF ReplyArrived, Stream
    <3>2. CASE ConfigureAfterQuit \/ ShutdownAfterQuit \/ FinishAfterQuit
      BY <2>2, <2>5, <3>2 DEF ConfigureAfterQuit, ShutdownAfterQuit,
           FinishAfterQuit, QuitEnds, Apply, ShutDown, Finish
    <3>3. CASE RequestAnswered \/ RequestFails \/ PingEnds
      BY <2>2, <2>5, <2>6, <2>7, <2>12, <3>3
         DEF RequestAnswered, RequestFails, RequestDone, PingEnds, DropConnection
    <3>4. CASE Dial
      <4>1. /\ Dialled(config).limit = "handshake"
            /\ Dialled(config).up = <<HandshakeFrame>>
            /\ Dialled(config).down = <<>>
        BY DEF Dialled, NoStream
      <4>2. InTransit(Dialled(config)) <= 1
        BY <4>1 DEF InTransit
      <4>3. \A i \in 1..Len(<<HandshakeFrame>>) :
               <<HandshakeFrame>>[i].kind = "handshake"
        BY DEF HandshakeFrame, ClientFrame
      <4>4. /\ stream' = Dialled(config) /\ pc' = "negotiate"
            /\ UNCHANGED connected /\ ~connected
        BY <2>2, <3>4 DEF Dial, AttemptContinues
      <4>5. \A i : i \notin 1..Len(stream'.down)
        BY <4>1, <4>4
      <4>6. LoneFrame("handshake")'
        BY <4>1, <4>2, <4>3, <4>4, <4>5 DEF LoneFrame
      <4>7. OkMeans("negotiated")'
        BY <4>5 DEF OkMeans
      <4>8. QED
        BY <4>1, <4>4, <4>6, <4>7 DEF StageInv
    <3>5. CASE NegotiateVersion
      <4>1. CASE AttemptFails
        BY <2>11, <3>5, <4>1 DEF NegotiateVersion
      <4>2. CASE /\ stream' = Negotiated(stream, Head(stream.down))
                 /\ AttemptContinues("authenticate")
                 /\ DecodeResponse("handshake", Head(stream.down)) = "ok"
        <5> DEFINE t == [Taken(stream) EXCEPT
                            !.capabilities = Head(stream.down).capabilities]
        <5>1. /\ stream.up = <<>> /\ Taken(stream).down = <<>>
              /\ stream.stage = "negotiated" /\ stream.limit = "handshake"
          BY <2>1, <3>1, <3>5, <4>2, ClientMoves
             DEF NegotiateVersion, ReplyArrived, DecodeResponse, StageInv,
                 LoneFrame, OkMeans
        <5>2. Taken(stream) \in Stream /\ Head(stream.down) \in Reply
          BY <2>1, <3>5, ExchangeTypes DEF NegotiateVersion, ReplyArrived
        <5>3. /\ t \in Stream /\ t.up = <<>> /\ t.down = <<>>
              /\ t.stage = "negotiated" /\ t.limit = "handshake"
          BY <2>1, <5>1, <5>2, ClientMoves DEF Stream, Reply
        <5> DEFINE f == AuthFrame(stream.config)
        <5>4. stream' = Written(t, f) /\ f \in Frame /\ f.kind = "auth"
          BY <2>1, <4>2, FrameTypes DEF Negotiated, Stream, AuthFrame, ClientFrame
        <5> HIDE DEF t, f
        <5>5. /\ stream'.down = <<>> /\ Len(stream'.up) = 1
              /\ stream'.stage = "negotiated" /\ stream'.limit = "handshake"
              /\ \A i \in 1..Len(stream'.up) : stream'.up[i] = f
          <6>1. Len(t.up) = 0
            BY <5>3
          <6>2. Len(stream'.up) = 1
            <7>1. Len(Written(t, f).up) = Len(t.up) + 1
              BY <5>3, <5>4, ClientMoves
            <7>2. Len(Written(t, f).up) = 1
              BY <6>1, <7>1
            <7>3. QED
              BY <5>4, <7>2
          <6>3. \A i \in 1..Len(stream'.up) :
                   stream'.up[i] = f \/ i \in 1..Len(t.up)
            BY <5>3, <5>4, ClientMoves
          <6>4. /\ stream'.down = t.down /\ stream'.stage = t.stage
                /\ stream'.limit = t.limit
            BY <5>3, <5>4, ClientMoves
          <6>5. \A i : i \notin 1..Len(t.up)
            BY <6>1
          <6>6. QED
            BY <5>3, <6>2, <6>3, <6>4, <6>5
        <5>6. InTransit(stream') <= 1
          BY <5>5 DEF InTransit
        <5>7. LoneFrame("auth")' /\ OkMeans("authenticated")'
          <6>1. \A i : i \notin 1..Len(stream'.down)
            BY <5>5
          <6>2. LoneFrame("auth")'
            BY <5>4, <5>5, <5>6, <6>1 DEF LoneFrame
          <6>3. OkMeans("authenticated")'
            BY <6>1 DEF OkMeans
          <6>4. QED
            BY <6>2, <6>3
        <5>8. pc' = "authenticate" /\ ~connected'
          BY <2>12, <3>5, <4>2 DEF NegotiateVersion, AttemptContinues, ConnectPcs
        <5>9. QED
          BY <5>5, <5>7, <5>8 DEF StageInv
      <4>3. QED
        BY <3>5, <4>1, <4>2 DEF NegotiateVersion
    <3>6. CASE Authenticate
      <4>1. CASE AttemptFails \/ CredentialsRejected
        BY <2>11, <3>6, <4>1 DEF Authenticate
      <4>2. CASE /\ stream' = Authenticated(stream)
                 /\ AttemptContinues("hook") \/ Established(Authenticated(stream))
                 /\ DecodeResponse("auth", Head(stream.down)) = "ok"
        <5>1. stream.up = <<>> /\ stream.stage = "authenticated"
          BY <2>1, <3>1, <3>6, <4>2, ClientMoves
             DEF Authenticate, ReplyArrived, DecodeResponse, StageInv, LoneFrame,
                 OkMeans
        <5>2. Taken(stream) \in Stream
          BY <2>1, <3>6, ExchangeTypes DEF Authenticate, ReplyArrived
        <5>3. Trusted'
          BY <2>1, <4>2, <5>1, <5>2, ClientMoves
             DEF Authenticated, Stream, Trusted
        <5>4. QED
          BY <2>11, <3>6, <4>2, <5>3 DEF Authenticate
      <4>3. QED
        BY <3>6, <4>1, <4>2 DEF Authenticate, Established
    <3>7. CASE ConnectFails \/ FailAfterQuit
      BY <2>11, <3>7 DEF ConnectFails, FailAfterQuit, QuitEnds
    <3>8. CASE HookCalls \/ HookCallAnswered \/ HookCallFails
      BY <2>7, <2>8, <2>11, <2>12, <3>8
         DEF HookCalls, HookCallAnswered, HookCallFails
    <3>9. CASE HookUsesHandle
      BY <2>6, <2>7, <2>12, <3>9 DEF HookUsesHandle
    <3>10. QED
      BY <2>13, <3>2, <3>3, <3>4, <3>5, <3>6, <3>7, <3>8, <3>9
         DEF HandlerContinues
  <2>14. CASE HookEnds
    <3>1. CASE HookReturnsOk
      BY <2>7, <2>11, <2>12, <3>1 DEF HookReturnsOk, Established
    <3>2. CASE HookReturnsErr
      BY <2>7, <2>8, <2>11, <2>12, <3>2 DEF HookReturnsErr
    <3>3. CASE HookTimesOut
      BY <2>11, <3>3 DEF HookTimesOut
    <3>4. CASE HookPanics
      BY <2>2, <2>5, <3>4 DEF HookPanics
    <3>5. QED
      BY <2>14, <3>1, <3>2, <3>3, <3>4 DEF HookEnds
  <2>15. QED
    BY <2>3, <2>4, <2>9, <2>10, <2>13, <2>14 DEF Next, TaskNext

<1>1. Init => StageInv
  BY DEF Init, TaskInit, StageInv, HookPcs, QuitPcs
<1>2. QED
  BY <1>1, TypeAlways, StatusAlways, <1>StageStep, PTL DEF Spec

(* Whatever the hook, the server and the callers do, the client trusts and *)
(* uses a connection only as far as its handshake has got: HandshakeGate   *)
(* (connection.rs:216-233) holds in every reachable state.                 *)
THEOREM HandshakeIsGated == Spec => []HandshakeGate
<1>1. ASSUME TypeInv, StatusInv, StageInv PROVE HandshakeGate
  <2>1. \/ stream = NoStream
        \/ pc = "negotiate"
        \/ pc = "authenticate"
        \/ Trusted
    BY <1>1 DEF TypeInv, TypeOK, Pcs, ConnectPcs, StatusInv, HeldInv, StageInv
  <2>2. CASE stream = NoStream
    <3>1. Len(NoStream.up) = 0 /\ NoStream.limit = "handshake"
      BY DEF NoStream
    <3>2. QED
      BY <2>2, <3>1 DEF HandshakeGate
  <2>3. CASE pc = "negotiate" \/ pc = "authenticate"
    <3>1. /\ stream.limit = "handshake"
          /\ stream.up \in Seq(Frame)
          /\ \/ \A i \in 1..Len(stream.up) : stream.up[i].kind = "handshake"
             \/ \A i \in 1..Len(stream.up) :
                   stream.up[i].kind = "auth" /\ stream.stage = "negotiated"
      <4>1. stream.up \in Seq(Frame)
        BY <1>1 DEF TypeInv, TypeOK, Stream
      <4>2. stream.up = <<>> => \A i \in 1..Len(stream.up) : FALSE
        BY <4>1
      <4>3. QED
        BY <1>1, <2>3, <4>1, <4>2 DEF StageInv, LoneFrame
    <3>2. QED
      BY <3>1 DEF HandshakeGate
  <2>4. CASE Trusted
    BY <2>4 DEF Trusted, HandshakeGate
  <2>5. QED
    BY <2>1, <2>2, <2>3, <2>4
<1>2. QED
  BY <1>1, StatusAlways, StageAlways, PTL

(* Shutdown is final (handle_command, client.rs: each branch looks at the  *)
(* flag first).  That the watch never says anything else follows from the  *)
(* refinement; that the task neither connects nor writes, from what the    *)
(* invariants say of a client that is shut down.                           *)
THEOREM ShutdownStays == Spec => ShutdownIsFinal
<1> DEFINE Final == status.state = "Shutdown" =>
                       /\ status' = status
                       /\ ~connected'
                       /\ pc' \in {"select", "done"}
                       /\ stream' = NoStream
           PlainShutdown ==
              status.state = "Shutdown" => status = Plain("Shutdown")
<1>1. Init => PlainShutdown
  BY DEF Init, TaskInit, ConfiguredStatus, Plain
<1>2. [Lifecycle!Next]_<<status, config>> /\ PlainShutdown =>
         /\ PlainShutdown'
         /\ status.state = "Shutdown" => status' = status
  <2> SUFFICES ASSUME [Lifecycle!Next]_<<status, config>>, PlainShutdown
               PROVE  /\ PlainShutdown'
                      /\ status.state = "Shutdown" => status' = status
    OBVIOUS
  <2> USE DEF Lifecycle!Is, Lifecycle!Becomes, Plain
  <2>1. CASE Lifecycle!Configure
    BY <2>1 DEF Lifecycle!Configure, Lifecycle!Fresh
  <2>2. CASE Lifecycle!Connect
    BY <2>2 DEF Lifecycle!Connect, Lifecycle!MayConnect
  <2>3. CASE Lifecycle!Reject
    BY <2>3 DEF Lifecycle!Reject, Lifecycle!MayConnect
  <2>4. CASE Lifecycle!Lose
    BY <2>4 DEF Lifecycle!Lose, Lifecycle!MayConnect
  <2>5. CASE Lifecycle!ShutDown
    BY <2>5 DEF Lifecycle!ShutDown
  <2>6. CASE UNCHANGED <<status, config>>
    BY <2>6
  <2> QED BY <2>1, <2>2, <2>3, <2>4, <2>5, <2>6 DEF Lifecycle!Next
<1>3. TypeInv /\ StatusInv /\ StageInv /\ status.state = "Shutdown" =>
         /\ ~connected
         /\ pc \in {"select", "done"}
         /\ stream = NoStream
  <2> SUFFICES ASSUME TypeInv, StatusInv, StageInv, status.state = "Shutdown"
               PROVE  /\ ~connected
                      /\ pc \in {"select", "done"}
                      /\ stream = NoStream
    OBVIOUS
  <2>1. ~connected /\ pc \notin {"request", "ping"}
    BY DEF StatusInv, HeldInv
  <2>2. pc \notin TeardownPcs
    BY DEF StatusInv, WhereInv
  <2>3. pc \notin AttemptPcs
    BY DEF StatusInv, WhereInv, WatchInv, AttemptPcs, ConnectPcs, HookPcs
  <2>4. pc \in {"select", "done"}
    BY <2>1, <2>2, <2>3 DEF TypeInv, TypeOK, Pcs, TeardownPcs, AttemptPcs,
                            QuitPcs
  <2>5. QED
    BY <2>1, <2>4 DEF StageInv
<1>4. ASSUME StatusInv', TypeInv', StageInv', PlainShutdown,
             [Lifecycle!Next]_<<status, config>>
      PROVE  Final
  <2> SUFFICES ASSUME status.state = "Shutdown"
               PROVE  /\ status' = status
                      /\ ~connected'
                      /\ pc' \in {"select", "done"}
                      /\ stream' = NoStream
    OBVIOUS
  <2>1. status' = status
    BY <1>2, <1>4
  <2>2. (TypeInv /\ StatusInv /\ StageInv /\ status.state = "Shutdown" =>
            /\ ~connected
            /\ pc \in {"select", "done"}
            /\ stream = NoStream)'
    BY <1>3, PTL
  <2>3. QED
    BY <1>4, <2>1, <2>2
<1>5. Spec => [][Lifecycle!Next]_<<status, config>>
  BY Refinement, PTL DEF ImplementsLifecycle, Lifecycle!Spec
<1> HIDE DEF PlainShutdown
<1>6. Spec => [](TypeInv /\ StatusInv /\ StageInv /\ PlainShutdown)
  BY <1>1, <1>2, <1>5, StatusAlways, StageAlways, PTL DEF Spec
<1>7. QED
  BY <1>4, <1>5, <1>6, PTL DEF Spec, ShutdownIsFinal
=============================================================================
