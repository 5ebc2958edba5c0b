----------------------------- MODULE Connection -----------------------------
(***************************************************************************)
(* One connection of the client, as connection.rs builds and uses it: the  *)
(* framed stream to the server, the exchange primitive request_raw (write  *)
(* a frame, then read one), and the server at the other end.               *)
(*                                                                         *)
(* The stream is the Rust value `Connection`, wherever it lives: a local   *)
(* of connect() and try_connect() while an attempt runs, self.connection   *)
(* afterwards.  The client never holds two, so one variable is enough.     *)
(* Payloads are reduced to who asked (`from`, `n`) and which credentials   *)
(* were presented (`config`); byte layout is left to bloop-protocol.       *)
(***************************************************************************)
EXTENDS Naturals, Sequences

CONSTANTS
    Callers,         \* tasks of the application, one BloopClient handle each
    NoCaller,        \* the sender of frames no caller asked for
    Configs,         \* values of ConnectionConfig
    NoConfig,        \* Option::None for a configuration
    GoodConfigs,     \* the configurations whose credentials the server accepts
    Capabilities,    \* values a server may declare in its handshake
    NoCapabilities,  \* Capabilities::none()
    MaxFaults        \* bound: how often network, server and hook misbehave

ASSUME ConnectionAssumption ==
    /\ NoCaller \notin Callers
    /\ NoConfig \notin Configs
    /\ GoodConfigs \subseteq Configs
    /\ NoCapabilities \in Capabilities
    /\ MaxFaults \in Nat

VARIABLES
    stream,  \* the connection and what is in flight on it
    faults   \* misbehaviour so far, at most MaxFaults

connectionVars == <<stream, faults>>

MaybeConfig == Configs \cup {NoConfig}

-----------------------------------------------------------------------------
(* Frames and replies.                                                     *)

FrameKinds ==
    {"none", "handshake", "auth", "session", "request", "ping", "quit"}

Frame == [kind : FrameKinds, from : Callers \cup {NoCaller}, n : Nat,
          config : MaybeConfig]

ClientFrame(kind, config) ==
    [kind |-> kind, from |-> NoCaller, n |-> 0, config |-> config]

NoFrame        == ClientFrame("none", NoConfig)
HandshakeFrame == ClientFrame("handshake", NoConfig)
AuthFrame(config) == ClientFrame("auth", config)
SessionFrame   == ClientFrame("session", NoConfig)
PingFrame      == ClientFrame("ping", NoConfig)
QuitFrame      == ClientFrame("quit", NoConfig)

(* A reply is an answer of the expected type, a protocol error that leaves *)
(* the connection open (error), one after which the server has closed it   *)
(* (fatal), the rejection of the credentials (invalid), or anything that   *)
(* is not what was asked for: another opcode, a malformed payload, a       *)
(* foreign protocol version (bad).                                         *)
ReplyKinds == {"ok", "error", "fatal", "invalid", "bad"}

Reply == [re : Frame, kind : ReplyKinds, capabilities : Capabilities]

(* decode_response::<M>: protocol errors first, then the expected type M,  *)
(* given by the kind of frame it answers.  A session runs the same         *)
(* requests as a caller, so their answers cannot be told apart by type.    *)
ResponseType(kind) == IF kind = "session" THEN "request" ELSE kind

DecodeResponse(asked, reply) ==
    CASE reply.kind \in {"error", "fatal", "invalid"} -> "error"
      [] reply.kind = "ok" /\ ResponseType(reply.re.kind) = ResponseType(asked)
            -> "ok"
      [] OTHER -> "bad"

-----------------------------------------------------------------------------
(* The stream.  `stage` is what the server knows of the client and `limit` *)
(* the payload length the client accepts: the 1024 bytes of connect() or   *)
(* the configured maximum.  `told` is history: the client has read a fatal *)
(* error on this connection.                                               *)

Stream == [live : BOOLEAN, open : BOOLEAN,
           stage : {"new", "negotiated", "authenticated"},
           limit : {"handshake", "configured"},
           capabilities : Capabilities, config : MaybeConfig,
           up : Seq(Frame), down : Seq(Reply), told : BOOLEAN]

NoStream ==
    [live |-> FALSE, open |-> FALSE, stage |-> "new", limit |-> "handshake",
     capabilities |-> NoCapabilities, config |-> NoConfig,
     up |-> <<>>, down |-> <<>>, told |-> FALSE]

(* Mutant: the configured limit applies from the start.                    *)
DialledTrusting(config) ==
    [NoStream EXCEPT !.live = TRUE, !.open = TRUE, !.config = config,
                     !.limit = "configured", !.up = <<HandshakeFrame>>]

(* What connect() holds once DNS, TCP and TLS are through: a fresh stream  *)
(* with tight limits, on which negotiate_version writes its handshake.     *)
Dialled(config) ==
    [NoStream EXCEPT !.live = TRUE, !.open = TRUE, !.config = config,
                     !.up = <<HandshakeFrame>>]

(* The two halves of request_raw.                                          *)
Written(s, frame) == [s EXCEPT !.up = Append(@, frame)]

ReplyArrived == stream.down # <<>>

Taken(s) == [s EXCEPT !.down = Tail(@),
                      !.told = @ \/ Head(s.down).kind = "fatal"]

(* negotiate_version keeps the declared capabilities, then authenticate    *)
(* presents the credentials.                                               *)
Negotiated(s, reply) ==
    Written([Taken(s) EXCEPT !.capabilities = reply.capabilities],
            AuthFrame(s.config))

(* The end of connect(): only an authenticated server may send payloads    *)
(* of the configured length.                                               *)
Authenticated(s) == [Taken(s) EXCEPT !.limit = "configured"]

-----------------------------------------------------------------------------
(* Faults.  A fault is anything the environment may do wrong on its own:   *)
(* a lost or late answer, a reset, a refusal.  The budget makes faults     *)
(* stop eventually, which is what the liveness properties assume.          *)

Fault == /\ faults < MaxFaults
         /\ faults' = faults + 1

(* Mutant: no timeout around the exchange, a silent server is waited for.  *)
ExchangeFailsWithoutTimeout ==
    \/ /\ ~ReplyArrived
       /\ ~stream.open
       /\ UNCHANGED faults
    \/ Fault

(* request_raw fails: at end of stream, when the server is silent until a  *)
(* read or a request timeout, or (a fault) at any moment: a reset, an      *)
(* answer that comes too late, a frame above the payload limit.            *)
ExchangeFails ==
    \/ /\ ~ReplyArrived
       /\ ~stream.open \/ stream.up = <<>>
       /\ UNCHANGED faults
    \/ Fault

-----------------------------------------------------------------------------
(* The server (external).  It answers frames in order, each with one reply.*)

ExpectedReplies(frame) ==
    CASE frame.kind = "auth" ->
            IF frame.config \in GoodConfigs THEN {"ok"} ELSE {"invalid"}
      [] frame.kind \in {"request", "session"} -> {"ok", "error", "bad"}
      [] OTHER -> {"ok"}

FaultyReplies(frame) ==
    CASE frame.kind = "auth" -> {"invalid", "bad"}
      [] frame.kind \in {"request", "session"} -> {"fatal"}
      [] OTHER -> {"bad"}

StageAfter(frame, kind) ==
    CASE frame.kind = "handshake" /\ kind = "ok" -> "negotiated"
      [] frame.kind = "auth" /\ kind = "ok" -> "authenticated"
      [] OTHER -> stream.stage

ServerCanRead == stream.open /\ stream.up # <<>>

ServerAnswers ==
    /\ ServerCanRead
    /\ LET frame == Head(stream.up) IN
       \E kind \in ReplyKinds, c \in Capabilities :
          /\ frame.kind # "quit"
          /\ c # NoCapabilities => frame.kind = "handshake"
          /\ \/ kind \in ExpectedReplies(frame) /\ UNCHANGED faults
             \/ kind \in FaultyReplies(frame) /\ Fault
          /\ stream' = [stream EXCEPT
                 !.up = Tail(@),
                 !.down = Append(@, [re |-> frame, kind |-> kind,
                                     capabilities |-> c]),
                 !.stage = StageAfter(frame, kind),
                 !.open = (kind # "fatal")]

(* A frame is lost, or the server never answers it.                        *)
ServerIgnores ==
    /\ ServerCanRead
    /\ Fault
    /\ stream' = [stream EXCEPT !.up = Tail(@)]

ServerReadsQuit ==
    /\ ServerCanRead
    /\ Head(stream.up) = QuitFrame
    /\ stream' = [stream EXCEPT !.up = Tail(@), !.open = FALSE]
    /\ UNCHANGED faults

ServerHangsUp ==
    /\ stream.open
    /\ Fault
    /\ stream' = [stream EXCEPT !.open = FALSE]

ServerNext ==
    \/ ServerAnswers
    \/ ServerIgnores
    \/ ServerReadsQuit
    \/ ServerHangsUp
=============================================================================
